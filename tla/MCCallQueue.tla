----------------------------- MODULE MCCallQueue -----------------------------
(***************************************************************************)
(* Small instances of CallQueue, with leads that the channels added.       *)
(***************************************************************************)
EXTENDS CallQueue, TLC

NoCreator == [p \in Lead |-> None]

Symmetry == Permutations(Req) \cup Permutations(Lead)
=============================================================================
