-------------------------- MODULE MCPreviewService --------------------------
(* Instances of PreviewService for TLC.                                    *)
EXTENDS PreviewService, TLC

CONSTANTS c1, c2, a, b, laptop, dock

\* A saved profile whose panel stands on its side, so that one more turn wraps,
\* and one that leaves the panel dark.
OnItsSide == [name |-> a, turn |-> 3, panel |-> TRUE]
External  == [name |-> b, turn |-> 0, panel |-> FALSE]

MCRequests == {l \in {OnItsSide, External} : l.name \in Names}

ClientSymmetry == Permutations(Clients)
=============================================================================
