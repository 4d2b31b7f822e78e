---------------------------- MODULE SafePreview ----------------------------
(***************************************************************************)
(* What docs/_reference/ipc.md promises of a preview, without connections, *)
(* locks, timers and hardware: one preview at a time.  While it is active  *)
(* nothing else is on screen.  It ends kept, in time, or put back to       *)
(* exactly what was in force before.  Handing the displays back to the     *)
(* user's own configuration ends it as well, and so does the daemon's      *)
(* sudden death, which nobody is left to undo.                             *)
(***************************************************************************)
CONSTANTS
  States,        \* what can be in force: generated file, live layout, include
  HandedBack(_)  \* what a hand-back may leave in force, from what was before

VARIABLES shown, preview, alive

vars == <<shown, preview, alive>>

None == [active |-> FALSE, old |-> <<>>, expired |-> FALSE]

Active == preview.active

Init == shown \in States /\ preview = None /\ alive = TRUE

\* Between previews the daemon may change what is shown.
Change == ~Active /\ shown' \in States /\ UNCHANGED <<preview, alive>>

Begin ==
  /\ ~Active /\ alive
  /\ shown' \in States
  /\ preview' = [active |-> TRUE, old |-> shown, expired |-> FALSE]
  /\ UNCHANGED alive

Expire ==
  /\ Active
  /\ preview' = [active |-> TRUE, expired |-> TRUE, old |-> preview.old]
  /\ UNCHANGED <<shown, alive>>

Keep ==
  /\ Active /\ ~preview.expired
  /\ preview' = None
  /\ UNCHANGED <<shown, alive>>

PutBack ==
  /\ Active
  /\ preview' = None /\ shown' = preview.old
  /\ UNCHANGED alive

HandBack ==
  /\ Active
  /\ preview' = None /\ shown' \in HandedBack(preview.old)
  /\ UNCHANGED alive

\* A process that dies may leave a change half done.
Die == preview' = None /\ alive' = FALSE /\ shown' \in States

Restart == ~alive /\ alive' = TRUE /\ UNCHANGED <<shown, preview>>

Next ==
  \/ Change \/ Begin \/ Expire \/ Keep \/ PutBack \/ HandBack
  \/ Die \/ Restart

Spec == Init /\ [][Next]_vars
=============================================================================
