----------------------------- MODULE AtomicApply -----------------------------
(* What a caller of Engine.Apply may rely on between calls: the generated   *)
(* file and its include change together or not at all, a held preview can   *)
(* be put back, and only a rollback that stops, or the death of the         *)
(* process, leaves a mixture, which never includes a missing file.          *)

CONSTANTS Layouts, NoFile, None

VARIABLES file, included, held

vars == <<file, included, held>>

NoDanglingInclude == included => file # NoFile

Init ==
  /\ file \in Layouts \cup {NoFile} /\ included \in BOOLEAN
  /\ NoDanglingInclude
  /\ held = None

Old == [file |-> file, included |-> included]

\* An include that is the user's to write stays as it is.
Apply(l) ==
  /\ held = None
  /\ file' = l /\ included' \in {included, TRUE}
  /\ held' \in {None, Old}

Mixture(f, i) ==
  /\ file' \in {file, f} /\ included' \in {included, i}
  /\ NoDanglingInclude'

ApplyStops(l) == held = None /\ Mixture(l, TRUE) /\ UNCHANGED held

Keep == held # None /\ held' = None /\ UNCHANGED <<file, included>>

PutBack ==
  /\ held # None
  /\ file' = held.file /\ included' = held.included /\ held' = None

PutBackStops ==
  /\ held # None
  /\ Mixture(held.file, held.included)
  /\ held' \in {held, None}

HandBack == held = None /\ included' = FALSE /\ UNCHANGED <<file, held>>

Next ==
  \/ \E l \in Layouts : Apply(l) \/ ApplyStops(l)
  \/ Keep \/ PutBack \/ PutBackStops \/ HandBack

Spec == Init /\ [][Next]_vars
=============================================================================
