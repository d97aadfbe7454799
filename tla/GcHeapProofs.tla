---------------------------- MODULE GcHeapProofs ----------------------------
(***************************************************************************)
(* For every set of handles, promotion age, limit and number of cycles:    *)
(* the heap keeps its types and its counter, a pinned object stays live    *)
(* whatever the callers do, every step is one ManagedHeap allows, and      *)
(* under the rooting discipline no rooted object has a dangling reference. *)
(***************************************************************************)
EXTENDS GcHeap, FiniteSetTheorems, TLAPS

-----------------------------------------------------------------------------
(* The search: it holds its seed, is closed, and is the least such set.    *)

IsGraph(refs) == \A h \in DOMAIN refs : refs[h] \subseteq Handle

LEMMA ReachSeed ==
  ASSUME NEW refs, NEW seed, seed \subseteq Handle
  PROVE  seed \subseteq Reach(refs, seed)
  BY DEF Reach

LEMMA ReachInHandle ==
  ASSUME NEW refs, NEW seed
  PROVE  Reach(refs, seed) \subseteq Handle
  BY DEF Reach

LEMMA ReachClosed ==
  ASSUME NEW refs, NEW seed, IsGraph(refs)
  PROVE  Closed(refs, Reach(refs, seed))
<1> SUFFICES ASSUME NEW h \in Reach(refs, seed) \cap DOMAIN refs, NEW k \in refs[h]
             PROVE  k \in Reach(refs, seed)
  BY DEF Closed
<1>1. k \in Handle
  BY DEF IsGraph
<1>2. ASSUME NEW S \in SUBSET Handle, seed \subseteq S, Closed(refs, S)
      PROVE  k \in S
  <2>1. h \in S
    BY <1>2 DEF Reach
  <2> QED BY <2>1, <1>2 DEF Closed
<1> QED BY <1>1, <1>2 DEF Reach

LEMMA ReachLeast ==
  ASSUME NEW refs, NEW seed, NEW S, S \subseteq Handle, seed \subseteq S, Closed(refs, S)
  PROVE  Reach(refs, seed) \subseteq S
  BY DEF Reach

\* A search from more visits at least as much.
LEMMA ReachMonotone ==
  ASSUME NEW refs, NEW small, NEW large,
         IsGraph(refs), large \subseteq Handle, small \subseteq large
  PROVE  Reach(refs, small) \subseteq Reach(refs, large)
  BY ReachSeed, ReachClosed, ReachInHandle, ReachLeast

-----------------------------------------------------------------------------
(* The invariant.                                                          *)

GcInv == TypeOK /\ PinnedLive /\ LiveCountExact /\ RememberedOld /\ BarrierWhileMarking

LEMMA LiveFinite ==
  ASSUME TypeOK
  PROVE  IsFiniteSet(LiveSet) /\ Cardinality(LiveSet) \in Nat
  BY HandleAssumption, FS_Subset, FS_CardinalityType DEF TypeOK

LEMMA RefsFacts ==
  ASSUME TypeOK
  PROVE  /\ DOMAIN Refs = LiveSet /\ LiveSet \subseteq Handle
         /\ \A h \in LiveSet : Refs[h] = objects[h].refs
         /\ IsGraph(Refs)
  BY DEF TypeOK, Refs, IsGraph, LiveSet

\* Taking the dead out of a finite set takes as many from its size.
LEMMA SplitCount ==
  ASSUME NEW S, IsFiniteSet(S), NEW kept, kept \subseteq S
  PROVE  /\ Cardinality(kept) = Cardinality(S) - Cardinality(S \ kept)
         /\ Cardinality(kept) \in Nat
<1>1. IsFiniteSet(kept) /\ IsFiniteSet(S \ kept)
  BY FS_Subset
<1>2. kept \cup (S \ kept) = S /\ kept \cap (S \ kept) = {}
  OBVIOUS
<1>3. Cardinality(S) = Cardinality(kept) + Cardinality(S \ kept) - Cardinality({})
  BY <1>1, <1>2, FS_Union
<1>4. Cardinality({}) = 0
  BY FS_EmptySet
<1>5. Cardinality(kept) \in Nat /\ Cardinality(S \ kept) \in Nat /\ Cardinality(S) \in Nat
  BY <1>1, FS_CardinalityType
<1> QED BY <1>3, <1>4, <1>5

LEMMA JoinCount ==
  ASSUME NEW S, IsFiniteSet(S), NEW new, IsFiniteSet(new), S \cap new = {}
  PROVE  Cardinality(S \cup new) = Cardinality(S) + Cardinality(new)
<1>1. Cardinality(S \cup new) = Cardinality(S) + Cardinality(new) - Cardinality({})
  BY FS_Union
<1>2. Cardinality({}) = 0
  BY FS_EmptySet
<1>3. Cardinality(S) \in Nat /\ Cardinality(new) \in Nat
  BY FS_CardinalityType
<1> QED BY <1>1, <1>2, <1>3

LEMMA GcInit == Init => GcInv
<1> SUFFICES ASSUME Init PROVE GcInv
  OBVIOUS
<1>1. LiveSet = {} /\ Cardinality({}) = 0
  BY FS_EmptySet DEF Init, LiveSet
<1>2. DOMAIN pins = {}
  BY DEF Init
<1>3. cycles \in [Cycle -> [phase : {"idle", "marking", "swept"},
                           roots : SUBSET Handle, marks : SUBSET Handle]]
  BY DEF Init, Idle
<1>4. TypeOK
  BY <1>1, <1>2, <1>3 DEF Init, TypeOK
<1> QED BY <1>1, <1>2, <1>4
       DEF Init, GcInv, PinnedLive, LiveCountExact, RememberedOld, BarrierWhileMarking

\* What both allocation paths do: new young objects join the live ones.
Grow(new, refs) ==
  /\ new \subseteq Handle \ issued
  /\ \A h \in new : refs[h] \subseteq new \cup LiveSet
  /\ objects' = [k \in LiveSet \cup new |->
                   IF k \in new THEN Object("nursery", 0, refs[k]) ELSE objects[k]]
  /\ issued' = issued \cup new
  /\ live' = live + Cardinality(new)
  /\ UNCHANGED <<pins, remembered, barrier, marking, cycles>>

LEMMA GrowInv ==
  ASSUME GcInv, NEW new, NEW refs, Grow(new, refs)
  PROVE  /\ GcInv' /\ LiveSet' = LiveSet \cup new
         /\ \A h \in LiveSet : objects'[h] = objects[h]
         /\ \A h \in new : objects'[h].refs = refs[h] /\ h \notin LiveSet
<1> USE DEF Grow
<1>1. LiveSet' = LiveSet \cup new /\ LiveSet \cap new = {} /\ new \subseteq Handle
  BY DEF GcInv, TypeOK, LiveSet
<1>2. /\ \A h \in LiveSet : objects'[h] = objects[h]
      /\ \A h \in new : objects'[h] = Object("nursery", 0, refs[h])
  BY <1>1
<1>3. \A h \in new :
        /\ objects'[h] \in [space : {"nursery", "old"}, age : Nat, refs : SUBSET issued']
        /\ objects'[h].refs = refs[h]
  BY <1>1, <1>2 DEF Object, GcInv, TypeOK
<1>4. IsFiniteSet(new) /\ Cardinality(new) \in Nat
  BY <1>1, HandleAssumption, FS_Subset, FS_CardinalityType
<1>5. Cardinality(LiveSet') = Cardinality(LiveSet) + Cardinality(new)
  BY <1>1, <1>4, LiveFinite, JoinCount DEF GcInv
<1>6. TypeOK'
  BY <1>1, <1>2, <1>3, <1>4 DEF GcInv, TypeOK
<1>7. PinnedLive' /\ LiveCountExact' /\ BarrierWhileMarking'
  BY <1>1, <1>5
     DEF GcInv, PinnedLive, LiveCountExact, BarrierWhileMarking, Active
<1>8. RememberedOld'
  BY <1>1, <1>2 DEF GcInv, RememberedOld, Young
<1> QED BY <1>1, <1>2, <1>3, <1>6, <1>7, <1>8 DEF GcInv

LEMMA AllocateFacts ==
  ASSUME GcInv, NEW h \in Handle, Allocate(h)
  PROVE  /\ GcInv' /\ LiveSet' = LiveSet \cup {h} /\ h \notin LiveSet
         /\ \A k \in LiveSet : objects'[k] = objects[k]
         /\ objects'[h].refs = {}
<1> DEFINE none == [k \in {h} |-> {}]
<1>1. live' = live + Cardinality({h})
  BY FS_Singleton DEF Allocate
<1>2. Grow({h}, none)
  BY <1>1 DEF Allocate, Grow
<1>3. none[h] = {}
  OBVIOUS
<1> HIDE DEF none
<1> QED BY <1>2, <1>3, GrowInv

LEMMA AllocateGraphFacts ==
  ASSUME GcInv, NEW batch, NEW refs, AllocateGraph(batch, refs)
  PROVE  /\ GcInv' /\ LiveSet' = LiveSet \cup batch /\ batch \cap LiveSet = {}
         /\ \A k \in LiveSet : objects'[k] = objects[k]
         /\ \A h \in batch : objects'[h].refs = refs[h]
<1>1. Grow(batch, refs)
  BY DEF AllocateGraph, Fits, Grow
<1> QED BY <1>1, GrowInv

LEMMA StoreInv ==
  ASSUME GcInv, NEW owner \in Handle, NEW target \in Handle, StoreReference(owner, target)
  PROVE  /\ GcInv' /\ LiveSet' = LiveSet
         /\ \A h \in LiveSet : h # owner => objects'[h] = objects[h]
         /\ owner \in LiveSet /\ target \in LiveSet
         /\ objects'[owner].refs = objects[owner].refs \cup {target}
<1>1. /\ owner \in LiveSet /\ target \in LiveSet /\ LiveSet' = LiveSet
      /\ target \in issued
      /\ \A h \in LiveSet : h # owner => objects'[h] = objects[h]
      /\ objects[owner] \in [space : {"nursery", "old"}, age : Nat, refs : SUBSET issued]
  BY DEF StoreReference, Barred, LiveSet, GcInv, TypeOK
<1>2. /\ objects'[owner].refs = objects[owner].refs \cup {target}
      /\ objects'[owner].space = objects[owner].space
      /\ objects'[owner] \in [space : {"nursery", "old"}, age : Nat, refs : SUBSET issued]
  BY <1>1 DEF StoreReference, Barred, LiveSet
<1>3. TypeOK'
  BY <1>1, <1>2 DEF StoreReference, Barred, GcInv, TypeOK
<1>4. RememberedOld'
  BY <1>1, <1>2 DEF StoreReference, Barred, GcInv, RememberedOld, Young
<1>5. PinnedLive' /\ LiveCountExact' /\ BarrierWhileMarking'
  BY <1>1 DEF StoreReference, Barred, GcInv, PinnedLive, LiveCountExact, BarrierWhileMarking, Active
<1> QED BY <1>1, <1>2, <1>3, <1>4, <1>5 DEF GcInv

LEMMA PinInv ==
  ASSUME GcInv, NEW h \in Handle, PinHost(h)
  PROVE  GcInv' /\ DOMAIN pins' = DOMAIN pins \cup {h} /\ h \in LiveSet
         /\ objects' = objects
<1>1. DOMAIN pins' = DOMAIN pins \cup {h} /\ h \in LiveSet /\ objects' = objects
  BY DEF PinHost, heapVars
<1>2. \A k \in DOMAIN pins' : pins'[k] \in 1..MaxPins
  BY BoundsAssumption DEF PinHost, PinCount, GcInv, TypeOK
<1>3. LiveSet' = LiveSet
  BY <1>1 DEF LiveSet
<1>4. TypeOK'
  BY <1>1, <1>2, <1>3 DEF PinHost, heapVars, GcInv, TypeOK
<1> QED BY <1>1, <1>3, <1>4
       DEF PinHost, heapVars, GcInv, PinnedLive, LiveCountExact, RememberedOld, Young,
           BarrierWhileMarking, Active

LEMMA UnpinInv ==
  ASSUME GcInv, NEW h \in Handle, UnpinHost(h)
  PROVE  GcInv' /\ DOMAIN pins' \subseteq DOMAIN pins /\ objects' = objects
<1>1. DOMAIN pins' \subseteq DOMAIN pins /\ objects' = objects
  BY DEF UnpinHost, Unpinned, heapVars
<1>2. \A k \in DOMAIN pins' : pins'[k] \in 1..MaxPins
  BY BoundsAssumption DEF UnpinHost, Unpinned, GcInv, TypeOK
<1>3. LiveSet' = LiveSet
  BY <1>1 DEF LiveSet
<1>4. TypeOK'
  BY <1>1, <1>2, <1>3 DEF UnpinHost, Unpinned, heapVars, GcInv, TypeOK
<1> QED BY <1>1, <1>3, <1>4
       DEF UnpinHost, Unpinned, heapVars, GcInv, PinnedLive, LiveCountExact, RememberedOld, Young,
           BarrierWhileMarking, Active

\* What both sweeps do: the objects outside kept are released and counted off.
LEMMA SweepInv ==
  ASSUME GcInv, NEW kept, kept \subseteq LiveSet, DOMAIN pins \subseteq kept,
         LiveSet' = kept,
         \A h \in kept : /\ objects'[h].refs = objects[h].refs
                         /\ objects'[h] \in [space : {"nursery", "old"}, age : Nat,
                                            refs : SUBSET issued]
                         /\ ~Young(h) => objects'[h] = objects[h],
         live' = live - Cardinality(LiveSet \ kept),
         remembered' = remembered \cap kept,
         UNCHANGED <<issued, pins>>
  PROVE  /\ live' \in Nat /\ PinnedLive' /\ LiveCountExact' /\ RememberedOld'
         /\ issued' \subseteq Handle /\ LiveSet' \subseteq issued'
         /\ \A h \in LiveSet' : objects'[h] \in [space : {"nursery", "old"}, age : Nat,
                                                refs : SUBSET issued']
<1>1. Cardinality(kept) = Cardinality(LiveSet) - Cardinality(LiveSet \ kept)
      /\ Cardinality(kept) \in Nat
  BY LiveFinite, SplitCount DEF GcInv
<1>2. live' \in Nat /\ LiveCountExact'
  BY <1>1 DEF GcInv, LiveCountExact
<1>3. RememberedOld'
  BY DEF GcInv, RememberedOld, Young
<1> QED BY <1>2, <1>3 DEF GcInv, TypeOK, PinnedLive

LEMMA AgedFacts ==
  ASSUME GcInv, NEW h \in LiveSet
  PROVE  /\ Aged(objects[h]).refs = objects[h].refs
         /\ Aged(objects[h]) \in [space : {"nursery", "old"}, age : Nat, refs : SUBSET issued]
         /\ ~Young(h) => Aged(objects[h]) = objects[h]
<1>1. objects[h] \in [space : {"nursery", "old"}, age : Nat, refs : SUBSET issued]
  BY DEF GcInv, TypeOK
<1>2. CASE objects[h].space = "old"
  BY <1>1, <1>2 DEF Aged, Young
<1>3. CASE objects[h].space # "old"
  BY <1>1, <1>3 DEF Aged, Young, Object
<1> QED BY <1>2, <1>3

\* A minor collection keeps what pinned objects reach, and the references of what it
\* keeps.
LEMMA MinorFacts ==
  ASSUME GcInv, NEW roots, roots \subseteq Handle, MinorCollect(roots)
  PROVE  /\ GcInv' /\ LiveSet' \subseteq LiveSet /\ UNCHANGED <<issued, pins>>
         /\ Reach(Refs, DOMAIN pins) \cap LiveSet \subseteq LiveSet'
         /\ \A h \in LiveSet' : objects'[h].refs = objects[h].refs
<1> DEFINE kept == {h \in LiveSet : Young(h) => h \in MinorReachable(roots)}
           seed == roots \cup DOMAIN pins \cup remembered
<1>1. /\ objects' = [h \in kept |-> Aged(objects[h])]
      /\ live' = live - Cardinality(LiveSet \ kept)
      /\ remembered' = remembered \cap kept
      /\ UNCHANGED <<issued, pins, barrier, marking, cycles>>
  BY DEF MinorCollect, LiveAfter, RememberedAfter
<1>2. IsGraph(Refs) /\ seed \subseteq Handle /\ DOMAIN pins \subseteq seed
  BY RefsFacts DEF GcInv, TypeOK
<1>3. /\ DOMAIN pins \subseteq MinorReachable(roots)
      /\ Reach(Refs, DOMAIN pins) \subseteq MinorReachable(roots)
  <2>1. seed \subseteq Reach(Refs, seed)
    BY <1>2, ReachSeed
  <2>2. Reach(Refs, DOMAIN pins) \subseteq Reach(Refs, seed)
    BY <1>2, ReachMonotone
  <2> QED BY <2>1, <2>2 DEF MinorReachable
<1>4. kept \subseteq LiveSet /\ LiveSet' = kept /\ DOMAIN pins \subseteq kept
  BY <1>1, <1>3 DEF LiveSet, GcInv, PinnedLive
<1>5. \A h \in kept : /\ objects'[h].refs = objects[h].refs
                      /\ objects'[h] \in [space : {"nursery", "old"}, age : Nat,
                                         refs : SUBSET issued]
                      /\ ~Young(h) => objects'[h] = objects[h]
  BY <1>1, <1>4, AgedFacts
<1> HIDE DEF kept, seed
<1>6. /\ live' \in Nat /\ PinnedLive' /\ LiveCountExact' /\ RememberedOld'
      /\ issued' \subseteq Handle /\ LiveSet' \subseteq issued'
      /\ \A h \in LiveSet' : objects'[h] \in [space : {"nursery", "old"}, age : Nat,
                                             refs : SUBSET issued']
  BY <1>1, <1>4, <1>5, SweepInv
<1>7. TypeOK'
  BY <1>1, <1>6 DEF GcInv, TypeOK
<1>8. BarrierWhileMarking'
  BY <1>1 DEF GcInv, BarrierWhileMarking, Active
<1>9. Reach(Refs, DOMAIN pins) \cap LiveSet \subseteq LiveSet'
  BY <1>3, <1>4 DEF kept
<1> QED BY <1>1, <1>4, <1>5, <1>6, <1>7, <1>8, <1>9 DEF GcInv

LEMMA StartFacts ==
  ASSUME GcInv, NEW c \in Cycle, NEW roots, roots \subseteq Handle, StartMajor(c, roots)
  PROVE  GcInv' /\ UNCHANGED <<objects, issued, pins>>
<1>1. /\ UNCHANGED <<objects, issued, live, pins, remembered>> /\ LiveSet' = LiveSet
      /\ marking' = TRUE /\ barrier' = {}
  BY DEF StartMajor, heapVars, LiveSet
<1>2. /\ cycles'[c].phase = "marking"
      /\ cycles' \in [Cycle -> [phase : {"idle", "marking", "swept"},
                               roots : SUBSET Handle, marks : SUBSET Handle]]
  BY ReachInHandle DEF StartMajor, GcInv, TypeOK
<1>3. TypeOK'
  BY <1>1, <1>2 DEF GcInv, TypeOK
<1> QED BY <1>1, <1>2, <1>3
       DEF GcInv, PinnedLive, LiveCountExact, RememberedOld, Young, BarrierWhileMarking, Active

\* The end of a major cycle keeps what its roots, the marks and pinned objects reach.
LEMMA FinishFacts ==
  ASSUME GcInv, NEW c \in Cycle, FinishMajor(c)
  PROVE  /\ GcInv' /\ LiveSet' \subseteq LiveSet /\ UNCHANGED <<issued, pins>>
         /\ Reach(Refs, DOMAIN pins) \cap LiveSet \subseteq LiveSet'
         /\ LiveSet \ LiveSet' \subseteq
              {h \in LiveSet : ~Young(h)}
              \ (Reach(Refs, cycles[c].roots) \cup cycles[c].marks)
         /\ \A h \in LiveSet' : objects'[h].refs = objects[h].refs
<1> DEFINE kept == {h \in LiveSet : Young(h) \/ h \in MajorLive(c)}
           seed == cycles[c].roots \cup DOMAIN pins \cup barrier
<1>1. /\ objects' = [h \in kept |-> objects[h]]
      /\ live' = live - Cardinality(LiveSet \ kept)
      /\ remembered' = remembered \cap kept
      /\ cycles' = [cycles EXCEPT ![c] = [Idle EXCEPT !.phase = "swept"]]
      /\ marking' = FALSE /\ barrier' = {} /\ UNCHANGED <<issued, pins>>
  BY DEF FinishMajor, LiveAfter, RememberedAfter
<1>2. /\ IsGraph(Refs) /\ seed \subseteq Handle
      /\ DOMAIN pins \subseteq seed /\ cycles[c].roots \subseteq seed
  BY RefsFacts DEF GcInv, TypeOK
<1>3. /\ DOMAIN pins \subseteq MajorLive(c)
      /\ Reach(Refs, DOMAIN pins) \subseteq MajorLive(c)
      /\ Reach(Refs, cycles[c].roots) \subseteq MajorLive(c)
      /\ cycles[c].marks \subseteq MajorLive(c)
  <2>1. seed \subseteq Reach(Refs, seed)
    BY <1>2, ReachSeed
  <2>2. /\ Reach(Refs, DOMAIN pins) \subseteq Reach(Refs, seed)
        /\ Reach(Refs, cycles[c].roots) \subseteq Reach(Refs, seed)
    BY <1>2, ReachMonotone
  <2> QED BY <1>2, <2>1, <2>2 DEF MajorLive
<1>4. kept \subseteq LiveSet /\ LiveSet' = kept /\ DOMAIN pins \subseteq kept
  BY <1>1, <1>3 DEF LiveSet, GcInv, PinnedLive
<1>5. \A h \in kept : /\ objects'[h].refs = objects[h].refs
                      /\ objects'[h] \in [space : {"nursery", "old"}, age : Nat,
                                         refs : SUBSET issued]
                      /\ ~Young(h) => objects'[h] = objects[h]
  BY <1>1, <1>4 DEF GcInv, TypeOK
<1> HIDE DEF kept, seed
<1>6. /\ live' \in Nat /\ PinnedLive' /\ LiveCountExact' /\ RememberedOld'
      /\ issued' \subseteq Handle /\ LiveSet' \subseteq issued'
      /\ \A h \in LiveSet' : objects'[h] \in [space : {"nursery", "old"}, age : Nat,
                                             refs : SUBSET issued']
  BY <1>1, <1>4, <1>5, SweepInv
<1>7. cycles' \in [Cycle -> [phase : {"idle", "marking", "swept"},
                            roots : SUBSET Handle, marks : SUBSET Handle]]
  BY <1>1 DEF GcInv, TypeOK, Idle
<1>8. TypeOK'
  BY <1>1, <1>6, <1>7 DEF GcInv, TypeOK
<1>9. BarrierWhileMarking'
  BY <1>1 DEF BarrierWhileMarking
<1>10. /\ Reach(Refs, DOMAIN pins) \cap LiveSet \subseteq LiveSet'
       /\ LiveSet \ LiveSet' \subseteq
            {h \in LiveSet : ~Young(h)}
            \ (Reach(Refs, cycles[c].roots) \cup cycles[c].marks)
  BY <1>3, <1>4 DEF kept
<1> QED BY <1>1, <1>4, <1>5, <1>6, <1>8, <1>9, <1>10 DEF GcInv

LEMMA DropFacts ==
  ASSUME GcInv, NEW c \in Cycle, DropMajor(c)
  PROVE  GcInv' /\ UNCHANGED <<objects, issued, pins>>
<1>1. /\ UNCHANGED <<objects, issued, live, pins, remembered>> /\ LiveSet' = LiveSet
      /\ marking' = FALSE /\ barrier' = {}
  BY DEF DropMajor, heapVars, LiveSet
<1>2. cycles' \in [Cycle -> [phase : {"idle", "marking", "swept"},
                            roots : SUBSET Handle, marks : SUBSET Handle]]
  BY DEF DropMajor, GcInv, TypeOK, Idle
<1>3. TypeOK'
  BY <1>1, <1>2 DEF GcInv, TypeOK
<1> QED BY <1>1, <1>3
       DEF GcInv, PinnedLive, LiveCountExact, RememberedOld, Young, BarrierWhileMarking

LEMMA StutterFacts ==
  ASSUME GcInv, UNCHANGED vars
  PROVE  GcInv'
  BY DEF vars, GcInv, TypeOK, PinnedLive, LiveCountExact, RememberedOld, Young,
         BarrierWhileMarking, Active, LiveSet

LEMMA GcNext == ASSUME GcInv, [Next]_vars PROVE GcInv'
<1>1. ASSUME NEW h \in Handle, Allocate(h) \/ PinHost(h) \/ UnpinHost(h)
      PROVE  GcInv'
  BY <1>1, AllocateFacts, PinInv, UnpinInv
<1>2. ASSUME NEW batch, NEW refs, AllocateGraph(batch, refs)
      PROVE  GcInv'
  BY <1>2, AllocateGraphFacts
<1>3. ASSUME NEW owner \in Handle, NEW target \in Handle, StoreReference(owner, target)
      PROVE  GcInv'
  BY <1>3, StoreInv
<1>4. ASSUME NEW roots \in RootSets, MinorCollect(roots)
      PROVE  GcInv'
  BY <1>4, MinorFacts DEF RootSets, GcInv, TypeOK
<1>5. ASSUME NEW c \in Cycle, NEW roots \in RootSets, StartMajor(c, roots)
      PROVE  GcInv'
  BY <1>5, StartFacts DEF RootSets, GcInv, TypeOK
<1>6. ASSUME NEW c \in Cycle, FinishMajor(c) \/ DropMajor(c)
      PROVE  GcInv'
  BY <1>6, FinishFacts, DropFacts
<1> QED BY <1>1, <1>2, <1>3, <1>4, <1>5, <1>6, StutterFacts DEF Next

LEMMA GcInductive == Spec => []GcInv
<1>1. GcInv /\ [Next]_vars => GcInv'
  BY GcNext
<1> QED BY GcInit, <1>1, PTL DEF Spec

\* The heap's state keeps its type, whatever the callers do.
THEOREM HeapTypeCorrect == Spec => []TypeOK
<1>1. GcInv => TypeOK
  BY DEF GcInv
<1> QED BY <1>1, GcInductive, PTL

\* No collection frees a pinned object.
THEOREM PinnedStaysLive == Spec => []PinnedLive
<1>1. GcInv => PinnedLive
  BY DEF GcInv
<1> QED BY <1>1, GcInductive, PTL

\* The live counter is exact through allocation, batches and both sweeps.
THEOREM LiveCountCorrect == Spec => []LiveCountExact
<1>1. GcInv => LiveCountExact
  BY DEF GcInv
<1> QED BY <1>1, GcInductive, PTL

\* The remembered set names old live objects only, and the barrier is empty outside
\* marking.
THEOREM CollectorSetsCorrect == Spec => []CollectorSets
<1>1. GcInv => CollectorSets
  BY DEF GcInv, CollectorSets
<1> QED BY <1>1, GcInductive, PTL

\* A sweep only takes from the counter.
LEMMA SweptCount ==
  ASSUME GcInv, NEW kept, kept \subseteq LiveSet
  PROVE  LiveAfter(kept) <= live
<1>1. IsFiniteSet(LiveSet \ kept)
  BY LiveFinite, FS_Subset DEF GcInv
<1>2. Cardinality(LiveSet \ kept) \in Nat /\ live \in Nat
  BY <1>1, FS_CardinalityType DEF GcInv, TypeOK
<1> QED BY <1>2 DEF LiveAfter

\* No allocation takes the heap past its limit: the batch path of
\* allocate_graph_with_roots admits all of its objects or none.
THEOREM AllocationLimited == Spec => []WithinLimit
<1>1. Init => WithinLimit
  BY BoundsAssumption DEF Init, WithinLimit
<1>2. ASSUME GcInv, WithinLimit, [Next]_vars PROVE WithinLimit'
  <2> USE BoundsAssumption
  <2> live \in Nat
    BY <1>2 DEF GcInv, TypeOK
  <2>1. CASE \E h \in Handle : Allocate(h)
    BY <2>1 DEF Allocate, WithinLimit
  <2>2. ASSUME NEW batch, NEW refs, AllocateGraph(batch, refs) PROVE WithinLimit'
    BY <2>2 DEF AllocateGraph, Fits, WithinLimit
  <2>3. ASSUME NEW roots, MinorCollect(roots) PROVE WithinLimit'
    <3> DEFINE kept == {h \in LiveSet : Young(h) => h \in MinorReachable(roots)}
    <3>1. live' = LiveAfter(kept) /\ live' <= live
      BY <1>2, <2>3, SweptCount DEF MinorCollect
    <3>2. live' \in Int
      BY <3>1, <1>2, GcNext DEF GcInv, TypeOK
    <3> QED BY <3>1, <3>2, <1>2 DEF WithinLimit
  <2>4. ASSUME NEW c \in Cycle, FinishMajor(c) PROVE WithinLimit'
    <3> DEFINE kept == {h \in LiveSet : Young(h) \/ h \in MajorLive(c)}
    <3>1. live' = LiveAfter(kept) /\ live' <= live
      BY <1>2, <2>4, SweptCount DEF FinishMajor
    <3>2. live' \in Int
      BY <3>1, <1>2, GcNext DEF GcInv, TypeOK
    <3> QED BY <3>1, <3>2, <1>2 DEF WithinLimit
  <2>5. ASSUME UNCHANGED live PROVE WithinLimit'
    BY <2>5, <1>2 DEF WithinLimit
  <2>6. CASE \E h \in Handle : PinHost(h) \/ UnpinHost(h)
    BY <2>5, <2>6 DEF PinHost, UnpinHost, heapVars
  <2>7. CASE \E owner, target \in Handle : StoreReference(owner, target)
    BY <2>5, <2>7 DEF StoreReference
  <2>8. CASE \E c \in Cycle : DropMajor(c) \/ \E roots \in RootSets : StartMajor(c, roots)
    BY <2>5, <2>8 DEF StartMajor, DropMajor, heapVars
  <2>9. CASE UNCHANGED vars
    BY <2>5, <2>9 DEF vars
  <2> QED BY <1>2, <2>1, <2>2, <2>3, <2>4, <2>6, <2>7, <2>8, <2>9 DEF Next
<1> QED BY <1>1, <1>2, GcInductive, PTL DEF Spec

\* Finishing a major cycle frees only old objects that neither its roots, nor its
\* marks, cover.
THEOREM FinishFreesGarbage == Spec => FinishKeepsRoots
<1> DEFINE Keeps == \A c \in Cycle : FinishMajor(c) =>
             LiveSet \ LiveSet' \subseteq
               {h \in LiveSet : ~Young(h)}
               \ (Reach(Refs, cycles[c].roots) \cup cycles[c].marks)
<1>1. GcInv => Keeps
  BY FinishFacts
<1>2. GcInv => [Keeps]_vars
  BY <1>1
<1> QED BY <1>2, GcInductive, PTL DEF FinishKeepsRoots

-----------------------------------------------------------------------------
(* Refinement: every step is one of ManagedHeap's, or leaves its view alone. *)

LEMMA SameReach ==
  ASSUME NEW refs, NEW seed
  PROVE  Promise!Reach(refs, seed) = Reach(refs, seed)
  BY DEF Promise!Reach, Promise!Closed, Reach, Closed

LEMMA RefsPrimed ==
  ASSUME TRUE
  PROVE  /\ Refs' = [h \in LiveSet' |-> objects'[h].refs]
         /\ Refs = [h \in LiveSet |-> objects[h].refs]
  BY DEF Refs

LEMMA GrowMaps ==
  ASSUME GcInv, NEW batch \in SUBSET Handle, NEW refs, Grow(batch, refs)
  PROVE  Promise!Next
<1> DEFINE new == [h \in batch |-> refs[h]]
<1>1. /\ LiveSet' = LiveSet \cup batch
      /\ \A h \in LiveSet : objects'[h] = objects[h]
      /\ \A h \in batch : objects'[h].refs = refs[h] /\ h \notin LiveSet
  BY GrowInv
<1>2. DOMAIN new = batch /\ \A h \in batch : new[h] = refs[h]
  OBVIOUS
<1>3. /\ \A h \in batch : refs[h] \subseteq batch \cup LiveSet
      /\ LiveSet \subseteq Handle /\ DOMAIN Refs = LiveSet
  BY RefsFacts DEF Grow, GcInv
<1>4. new \in [batch -> SUBSET Handle]
  BY <1>3
<1>5. Refs' = [h \in DOMAIN Refs \cup DOMAIN new |->
                 IF h \in DOMAIN new THEN new[h] ELSE Refs[h]]
  BY <1>1, <1>2, <1>3, RefsPrimed
<1>6. Promise!Allocate(new)
  BY <1>2, <1>3, <1>5 DEF Grow, Promise!Allocate
<1> QED BY <1>4, <1>6 DEF Promise!Next

LEMMA StoreMaps ==
  ASSUME GcInv, NEW owner \in Handle, NEW target \in Handle, StoreReference(owner, target)
  PROVE  Promise!Next
<1>1. /\ LiveSet' = LiveSet
      /\ \A h \in LiveSet : h # owner => objects'[h] = objects[h]
      /\ owner \in LiveSet /\ target \in LiveSet
      /\ objects'[owner].refs = objects[owner].refs \cup {target}
  BY StoreInv
<1>2. Refs' = [Refs EXCEPT ![owner] = @ \cup {target}]
  BY <1>1, RefsPrimed
<1>3. Promise!Store(owner, target)
  BY <1>1, <1>2, RefsPrimed DEF Promise!Store, StoreReference, Barred
<1> QED BY <1>3 DEF Promise!Next

LEMMA PinMaps ==
  ASSUME GcInv, NEW h \in Handle, PinHost(h) \/ UnpinHost(h)
  PROVE  Promise!Next
<1>1. objects' = objects /\ issued' = issued /\ Refs' = Refs /\ DOMAIN Refs = LiveSet
  BY RefsPrimed DEF PinHost, UnpinHost, Unpinned, heapVars, Refs, LiveSet
<1>2. CASE PinHost(h)
  BY <1>1, <1>2 DEF PinHost, PinCount, Promise!Pin, Promise!Next
<1>3. CASE UnpinHost(h)
  BY <1>1, <1>3 DEF UnpinHost, Unpinned, Promise!Unpin, Promise!Next
<1> QED BY <1>2, <1>3

LEMMA SweepMaps ==
  ASSUME GcInv, LiveSet' \subseteq LiveSet, UNCHANGED <<issued, pins>>,
         Reach(Refs, DOMAIN pins) \cap LiveSet \subseteq LiveSet',
         \A h \in LiveSet' : objects'[h].refs = objects[h].refs
  PROVE  Promise!Next
<1> DEFINE dead == LiveSet \ LiveSet'
<1>1. DOMAIN Refs = LiveSet /\ LiveSet \subseteq Handle
  BY RefsFacts DEF GcInv
<1>2. dead \subseteq DOMAIN Refs \ Promise!Reach(Refs, DOMAIN pins)
  BY <1>1, SameReach
<1>3. Refs' = [h \in DOMAIN Refs \ dead |-> Refs[h]]
  BY <1>1, RefsPrimed
<1>4. Promise!Collect(dead)
  BY <1>2, <1>3 DEF Promise!Collect
<1>5. dead \in SUBSET Handle
  BY <1>1
<1> QED BY <1>4, <1>5 DEF Promise!Next

\* What one call may do: a single allocation, or anything else, with any roots.
Moves ==
  \/ \E h \in Handle : Allocate(h) \/ PinHost(h) \/ UnpinHost(h)
  \/ \E owner, target \in Handle : StoreReference(owner, target)
  \/ \E roots \in SUBSET Handle : MinorCollect(roots)
  \/ \E c \in Cycle :
       \/ \E roots \in SUBSET Handle : StartMajor(c, roots)
       \/ FinishMajor(c)
       \/ DropMajor(c)

LEMMA MoveMaps ==
  ASSUME GcInv, [Moves]_vars
  PROVE  [Promise!Next]_(Promise!vars)
<1>1. ASSUME NEW h \in Handle, Allocate(h)
      PROVE  Promise!Next
  <2> DEFINE none == [k \in {h} |-> {}]
  <2>1. live' = live + Cardinality({h})
    BY <1>1, FS_Singleton DEF Allocate
  <2>2. Grow({h}, none)
    BY <1>1, <2>1 DEF Allocate, Grow
  <2> QED BY <2>2, GrowMaps
<1>2. ASSUME NEW h \in Handle, PinHost(h) \/ UnpinHost(h)
      PROVE  Promise!Next
  BY <1>2, PinMaps
<1>3. ASSUME NEW owner \in Handle, NEW target \in Handle, StoreReference(owner, target)
      PROVE  Promise!Next
  BY <1>3, StoreMaps
<1>4. ASSUME NEW roots \in SUBSET Handle, MinorCollect(roots)
      PROVE  Promise!Next
  BY <1>4, MinorFacts, SweepMaps
<1>5. ASSUME NEW c \in Cycle, FinishMajor(c)
      PROVE  Promise!Next
  BY <1>5, FinishFacts, SweepMaps
<1>6. ASSUME NEW c \in Cycle, NEW roots, StartMajor(c, roots)
      PROVE  UNCHANGED Promise!vars
  BY <1>6 DEF StartMajor, heapVars, Refs, LiveSet, Promise!vars
<1>7. ASSUME NEW c \in Cycle, DropMajor(c)
      PROVE  UNCHANGED Promise!vars
  BY <1>7 DEF DropMajor, heapVars, Refs, LiveSet, Promise!vars
<1>8. CASE UNCHANGED vars
  BY <1>8 DEF vars, Refs, LiveSet, Promise!vars
<1> QED BY <1>1, <1>2, <1>3, <1>4, <1>5, <1>6, <1>7, <1>8 DEF Moves

LEMMA NextMaps ==
  ASSUME GcInv, [Next]_vars
  PROVE  [Promise!Next]_(Promise!vars)
<1>1. ASSUME NEW batch \in SUBSET Handle, NEW refs, AllocateGraph(batch, refs)
      PROVE  Promise!Next
  <2>1. Grow(batch, refs)
    BY <1>1 DEF AllocateGraph, Fits, Grow
  <2> QED BY <2>1, GrowMaps
<1>2. RootSets \subseteq SUBSET Handle
  BY DEF RootSets, GcInv, TypeOK
<1> QED BY <1>1, <1>2, MoveMaps DEF Next, Moves

\* The heap implements ManagedHeap: generations, the remembered set, the barrier and
\* the cycles are invisible but for the garbage they leave.
THEOREM HeapKeepsPromise == Spec => KeepsPromise
<1>1. Init => Promise!Init
  BY DEF Init, Promise!Init, Refs, LiveSet
<1>2. GcInv /\ [Next]_vars => [Promise!Next]_(Promise!vars)
  BY NextMaps
<1> QED BY <1>1, <1>2, GcInductive, PTL DEF Spec, KeepsPromise, Promise!Spec

-----------------------------------------------------------------------------
(* Under the rooting discipline no rooted object loses what it refers to.  *)

\* If every reference out of the old rooted set, as it is now, stays inside it or goes
\* to something live, then what is rooted now is live.
LEMMA RootedBound ==
  ASSUME TypeOK', NEW S, S \subseteq Handle, DOMAIN pins' \subseteq S, S \subseteq LiveSet',
         \A h \in S : objects'[h].refs \subseteq S
  PROVE  RootedLive'
<1>1. DOMAIN Refs' = LiveSet' /\ \A h \in LiveSet' : Refs'[h] = objects'[h].refs
  BY RefsPrimed
<1>2. Closed(Refs', S)
  BY <1>1 DEF Closed
<1>3. Reach(Refs', DOMAIN pins') \subseteq S
  BY <1>2, ReachLeast
<1> QED BY <1>3 DEF RootedLive, Rooted

LEMMA RootedFacts ==
  ASSUME GcInv, RootedLive
  PROVE  /\ Rooted \subseteq LiveSet /\ Rooted \subseteq Handle
         /\ DOMAIN pins \subseteq Rooted
         /\ \A h \in Rooted : objects[h].refs \subseteq Rooted
<1>1. IsGraph(Refs) /\ DOMAIN pins \subseteq Handle
  BY RefsFacts DEF GcInv, TypeOK
<1>2. Closed(Refs, Rooted) /\ DOMAIN pins \subseteq Rooted /\ Rooted \subseteq Handle
  BY <1>1, ReachClosed, ReachSeed, ReachInHandle DEF Rooted
<1>3. Rooted \subseteq LiveSet
  BY DEF RootedLive
<1>4. \A h \in Rooted : objects[h].refs \subseteq Rooted
  BY <1>2, <1>3, RefsFacts DEF Closed, GcInv
<1> QED BY <1>2, <1>3, <1>4

\* The same for clients that hold to the discipline.
RootedMoves ==
  \/ \E h \in Handle : Allocate(h) \/ RootedPin(h) \/ UnpinHost(h)
  \/ \E owner, target \in Handle : RootedStore(owner, target)
  \/ \E roots \in SUBSET Handle : MinorCollect(roots)
  \/ \E c \in Cycle :
       \/ \E roots \in SUBSET Handle : StartMajor(c, roots)
       \/ FinishMajor(c)
       \/ DropMajor(c)

LEMMA RootedMoveFacts ==
  ASSUME GcInv, RootedLive, [RootedMoves]_vars
  PROVE  GcInv' /\ RootedLive'
<1>0. /\ Rooted \subseteq LiveSet /\ Rooted \subseteq Handle /\ DOMAIN pins \subseteq Rooted
      /\ \A h \in Rooted : objects[h].refs \subseteq Rooted
  BY RootedFacts
<1>1. ASSUME NEW h \in Handle, Allocate(h)
      PROVE  GcInv' /\ RootedLive'
  <2>1. /\ GcInv' /\ LiveSet' = LiveSet \cup {h}
        /\ \A k \in LiveSet : objects'[k] = objects[k]
    BY <1>1, AllocateFacts
  <2>2. pins' = pins
    BY <1>1 DEF Allocate
  <2> QED BY <1>0, <2>1, <2>2, RootedBound DEF GcInv
<1>2. ASSUME NEW h \in Handle, RootedPin(h)
      PROVE  GcInv' /\ RootedLive'
  <2> DEFINE S == Rooted \cup {h}
  <2>1. /\ GcInv' /\ DOMAIN pins' = DOMAIN pins \cup {h} /\ h \in LiveSet
        /\ objects' = objects
    BY <1>2, PinInv DEF RootedPin
  <2>2. objects[h].refs \subseteq S
    BY <1>0, <1>2 DEF RootedPin
  <2>3. LiveSet' = LiveSet
    BY <2>1 DEF LiveSet
  <2>4. /\ S \subseteq Handle /\ DOMAIN pins' \subseteq S /\ S \subseteq LiveSet'
        /\ \A k \in S : objects'[k].refs \subseteq S
    BY <1>0, <2>1, <2>2, <2>3
  <2> QED BY <2>1, <2>4, RootedBound DEF GcInv
<1>3. ASSUME NEW h \in Handle, UnpinHost(h)
      PROVE  GcInv' /\ RootedLive'
  <2>1. GcInv' /\ DOMAIN pins' \subseteq DOMAIN pins /\ objects' = objects
    BY <1>3, UnpinInv
  <2>2. LiveSet' = LiveSet
    BY <2>1 DEF LiveSet
  <2> QED BY <1>0, <2>1, <2>2, RootedBound DEF GcInv
<1>4. ASSUME NEW owner \in Handle, NEW target \in Handle, RootedStore(owner, target)
      PROVE  GcInv' /\ RootedLive'
  <2>1. /\ GcInv' /\ LiveSet' = LiveSet
        /\ \A h \in LiveSet : h # owner => objects'[h] = objects[h]
        /\ objects'[owner].refs = objects[owner].refs \cup {target}
    BY <1>4, StoreInv DEF RootedStore
  <2>2. pins' = pins /\ target \in Rooted
    BY <1>4 DEF RootedStore, StoreReference, Barred
  <2>3. \A h \in Rooted : objects'[h].refs \subseteq Rooted
    BY <1>0, <2>1, <2>2
  <2> QED BY <1>0, <2>1, <2>2, <2>3, RootedBound DEF GcInv
<1>5. ASSUME GcInv', LiveSet' \subseteq LiveSet, UNCHANGED <<issued, pins>>,
             Reach(Refs, DOMAIN pins) \cap LiveSet \subseteq LiveSet',
             \A h \in LiveSet' : objects'[h].refs = objects[h].refs
      PROVE  GcInv' /\ RootedLive'
  <2>1. Rooted \subseteq LiveSet'
    BY <1>0, <1>5 DEF Rooted
  <2> QED BY <1>0, <1>5, <2>1, RootedBound DEF GcInv
<1>6. ASSUME NEW roots \in SUBSET Handle, MinorCollect(roots)
      PROVE  GcInv' /\ RootedLive'
  BY <1>5, <1>6, MinorFacts
<1>7. ASSUME NEW c \in Cycle, FinishMajor(c)
      PROVE  GcInv' /\ RootedLive'
  BY <1>5, <1>7, FinishFacts
<1>8. ASSUME NEW c \in Cycle, NEW roots \in SUBSET Handle, StartMajor(c, roots)
      PROVE  GcInv' /\ RootedLive'
  <2>1. GcInv' /\ UNCHANGED <<objects, issued, pins>>
    BY <1>8, StartFacts
  <2> QED BY <2>1 DEF RootedLive, Rooted, Refs, LiveSet
<1>9. ASSUME NEW c \in Cycle, DropMajor(c)
       PROVE  GcInv' /\ RootedLive'
  <2>1. GcInv' /\ UNCHANGED <<objects, issued, pins>>
    BY <1>9, DropFacts
  <2> QED BY <2>1 DEF RootedLive, Rooted, Refs, LiveSet
<1>10. CASE UNCHANGED vars
  <2>1. GcInv'
    BY <1>10, StutterFacts
  <2> QED BY <1>10, <2>1 DEF vars, RootedLive, Rooted, Refs, LiveSet
<1> QED BY <1>1, <1>2, <1>3, <1>4, <1>6, <1>7, <1>8, <1>9, <1>10 DEF RootedMoves

LEMMA RootedStep ==
  ASSUME GcInv, RootedLive, [RootedNext]_vars
  PROVE  GcInv' /\ RootedLive'
<1>1. ASSUME NEW batch, NEW refs, AllocateGraph(batch, refs)
      PROVE  GcInv' /\ RootedLive'
  <2>1. /\ GcInv' /\ LiveSet' = LiveSet \cup batch
        /\ \A k \in LiveSet : objects'[k] = objects[k]
    BY <1>1, AllocateGraphFacts
  <2>2. pins' = pins
    BY <1>1 DEF AllocateGraph, Fits
  <2> QED BY RootedFacts, <2>1, <2>2, RootedBound DEF GcInv
<1>2. RootSets \subseteq SUBSET Handle
  BY DEF RootSets, GcInv, TypeOK
<1> QED BY <1>1, <1>2, RootedMoveFacts DEF RootedNext, RootedMoves

\* Under the discipline of public_heap, nothing that a pinned object reaches is ever
\* freed, however collections overlap with each other and with the clients.
THEOREM RootedStaysLive == RootedSpec => []RootedLive
<1>1. Init => GcInv /\ RootedLive
  <2> SUFFICES ASSUME Init PROVE GcInv /\ RootedLive
    OBVIOUS
  <2>1. DOMAIN Refs = {} /\ DOMAIN pins = {}
    BY DEF Init, Refs, LiveSet
  <2>2. Reach(Refs, DOMAIN pins) \subseteq {}
    BY <2>1, ReachLeast DEF Closed
  <2> QED BY <2>2, GcInit DEF RootedLive, Rooted
<1>2. GcInv /\ RootedLive /\ [RootedNext]_vars => (GcInv /\ RootedLive)'
  BY RootedStep
<1> QED BY <1>1, <1>2, PTL DEF RootedSpec
=============================================================================
