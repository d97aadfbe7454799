---------------------------- MODULE MCPublicHeap ----------------------------
(* Two threads that run any operation over two handles.                    *)
EXTENDS PublicHeap, TLC

CONSTANTS h1, h2, t1, t2
MCTwoHandles == {h1, h2}
MCThread == {t1, t2}
Symmetric == Permutations(Handle) \cup Permutations(Cycle)
=============================================================================
