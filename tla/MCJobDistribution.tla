-------------------------- MODULE MCJobDistribution --------------------------
(***************************************************************************)
(* Small instances of JobDistribution.                                     *)
(***************************************************************************)
EXTENDS JobDistribution, TLC

Symmetry == Permutations(Req) \cup Permutations(Board)
=============================================================================
