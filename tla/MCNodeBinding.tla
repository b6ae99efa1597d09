--------------------------- MODULE MCNodeBinding ---------------------------
(* Instances of NodeBinding for TLC.                                       *)
EXTENDS NodeBinding, TLC

MCSymmetry == Permutations(Contexts) \cup Permutations(Calls)
=============================================================================
