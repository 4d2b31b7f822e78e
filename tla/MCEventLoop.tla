----------------------------- MODULE MCEventLoop -----------------------------
(* Instances of EventLoop for TLC.                                         *)
EXTENDS EventLoop, TLC

CONSTANTS laptop, dock, upright, sideways

TurnSymmetry == Permutations({upright, sideways})
=============================================================================
