--------------------------- MODULE MCAllocations ---------------------------
(***************************************************************************)
(* Instances of Allocations for TLC.                                       *)
(***************************************************************************)
EXTENDS Allocations, TLC

Symmetry == Permutations(Allocations) \cup Permutations(Handlers)
=============================================================================
