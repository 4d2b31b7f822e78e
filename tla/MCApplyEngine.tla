---------------------------- MODULE MCApplyEngine ----------------------------
(* Instances of ApplyEngine for TLC.                                       *)
EXTENDS ApplyEngine, TLC

CONSTANTS a, b

LayoutSymmetry == Permutations({a, b})
=============================================================================
