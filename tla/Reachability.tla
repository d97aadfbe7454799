---------------------------- MODULE Reachability ----------------------------
(***************************************************************************)
(* What a work-list search over a heap graph visits.  copy_nursery,        *)
(* mark_snapshot and trace_current all run the same search: take a handle, *)
(* skip it when it was seen, else add the references of its object when    *)
(* the handle names one.  Its result is the least set that holds the seed  *)
(* and is closed under the graph, which is how it is defined here.         *)
(***************************************************************************)
EXTENDS FiniteSets

CONSTANT Handle

ASSUME HandleAssumption == IsFiniteSet(Handle)

Closed(refs, S) == \A h \in S \cap DOMAIN refs : refs[h] \subseteq S

Reach(refs, seed) ==
  {h \in Handle : \A S \in SUBSET Handle : seed \subseteq S /\ Closed(refs, S) => h \in S}
=============================================================================
