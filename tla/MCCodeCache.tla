----------------------------- MODULE MCCodeCache -----------------------------
(* Three keys, two of them of one snapshot, in a cache for two entries, one of
   them too large for it. *)
EXTENDS CodeCache, TLC

CONSTANTS k1, k2, k3, s1, s2, h1, h2
MCKey == {k1, k2, k3}
MCSnapshot == {s1, s2}
MCSnapshotOf == (k1 :> s1) @@ (k2 :> s1) @@ (k3 :> s2)
MCBytes == (k1 :> 1) @@ (k2 :> 2) @@ (k3 :> 4)
MCHolder == {h1, h2}
=============================================================================
