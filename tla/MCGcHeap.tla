------------------------------ MODULE MCGcHeap ------------------------------
(* A heap of two handles and two major cycles that may overlap. *)
EXTENDS GcHeap, TLC

CONSTANTS h1, h2, c1, c2
MCTwoHandles == {h1, h2}
MCTwoCycles == {c1, c2}
Symmetric == Permutations(Handle) \cup Permutations(Cycle)
=============================================================================
