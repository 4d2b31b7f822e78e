----------------------------- MODULE MCTerminal ------------------------------
(***************************************************************************)
(* Small instances of the terminal interface for TLC: the session, and the *)
(* layout that is edited in it, one at a time; "part" says which.          *)
(***************************************************************************)
EXTENDS TerminalSession, LayoutEditor

VARIABLE part

Either == {TRUE, FALSE}

Small(x, y) ==
  [x |-> x, y |-> y, size |-> <<1, 1>>, turn |-> 0, auto |-> FALSE, upright |-> 0,
   on |-> TRUE, mirror |-> 0]

Wide(x, y) == [Small(x, y) EXCEPT !.size = <<2, 1>>]

\* A panel that follows the device, a display beside it that may have no signal, and a
\* small one below, at a distance, or in the way.
Desks ==
  {<<[Wide(0, 0) EXCEPT !.auto = TRUE], [Wide(2, 0) EXCEPT !.size = p[3]], Small(p[1], p[2])>> :
     p \in {<<5, 0, <<2, 1>>>>, <<1, 1, <<0, 0>>>>, <<1, 0, <<2, 1>>>>}}

Desk == CHOOSE desk \in Desks : TRUE

ModeSizes == {NoMode, <<2, 1>>, <<1, 1>>}

TypedCoords == {0, 1}

-----------------------------------------------------------------------------
MCInit ==
  /\ part \in {"session", "editor"}
  /\ Init /\ (part = "editor" => world.remote)
  /\ DraftInit /\ (part = "session" => outputs = Desk)

MCNext ==
  \/ part = "session" /\ Next /\ UNCHANGED <<part, draftVars>>
  \/ part = "editor" /\ DraftNext /\ UNCHANGED <<part, vars>>

MCSpec == MCInit /\ [][MCNext]_<<part, vars, draftVars>> /\ Fairness

NoOverlap == ~overlap

=============================================================================
