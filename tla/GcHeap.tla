------------------------------- MODULE GcHeap -------------------------------
(***************************************************************************)
(* The generational heap: one action per GcHeap call, each of them one     *)
(* critical section of the heap's state lock.  A handle is a value that is *)
(* returned by one allocation and by no other (HandleTable, NeverReissued);*)
(* where a cell sits in the nursery or old vectors is abstracted.          *)
(*                                                                         *)
(* Nothing is assumed of the callers here: any handle ever returned, live  *)
(* or stale, may be named in any call, and any set of them given as roots. *)
(* Calls that fail change nothing and are not shown.  RootedSpec is the    *)
(* heap under clients that root what they name.                            *)
(***************************************************************************)
EXTENDS Naturals, Reachability

CONSTANTS Cycle, PromotionAge, AllocationLimit, MaxPins, MaxBatch,
          MaxRoots

ASSUME BoundsAssumption ==
  /\ PromotionAge \in Nat /\ AllocationLimit \in Nat
  /\ MaxPins \in Nat /\ MaxBatch \in Nat /\ MaxRoots \in Nat

VARIABLES
  objects,     \* the live objects, by handle: generation, age and references
  issued,      \* history: every handle returned so far
  pins,        \* host_pins: how often each pinned handle is pinned
  remembered,  \* old owners that were given a young reference
  barrier,     \* concurrent_barrier: targets stored while marking
  marking,
  live,        \* the counter the allocation limit is checked against
  cycles       \* the MajorCycle values callers hold

vars == <<objects, issued, pins, remembered, barrier, marking, live, cycles>>
heapVars == <<objects, issued, live>>

LiveSet == DOMAIN objects
Refs == [h \in LiveSet |-> objects[h].refs]

Object(space, age, refs) == [space |-> space, age |-> age, refs |-> refs]
Young(h) == objects[h].space = "nursery"

Idle == [phase |-> "idle", roots |-> {}, marks |-> {}]
Active(c) == cycles[c].phase = "marking"

Fits(n) == live + n <= AllocationLimit

\* As if the sweep did not count what it freed.
LiveUnchanged(kept) == live

LiveAfter(kept) == live - Cardinality(LiveSet \ kept)

\* As if the sweep left freed owners in the remembered set.
RememberedAll(kept) == remembered

RememberedAfter(kept) == remembered \cap kept

Barred(target) == IF marking THEN barrier \cup {target} ELSE barrier

\* As if a count of zero stayed in host_pins.
UnpinnedToZero(h) == [pins EXCEPT ![h] = @ - 1]

Unpinned(h) ==
  IF pins[h] > 1 THEN [pins EXCEPT ![h] = @ - 1]
  ELSE [k \in DOMAIN pins \ {h} |-> pins[k]]

-----------------------------------------------------------------------------
Init ==
  /\ objects = << >>
  /\ issued = {}
  /\ pins = << >>
  /\ remembered = {}
  /\ barrier = {}
  /\ marking = FALSE
  /\ live = 0
  /\ cycles = [c \in Cycle |-> Idle]

\* allocate_with_roots: collect_every_allocation makes the call a MinorCollect step
\* first, under a lock acquisition of its own, and then this one.
Allocate(h) ==
  /\ live < AllocationLimit
  /\ h \in Handle \ issued
  /\ objects' = [k \in LiveSet \cup {h} |->
                   IF k = h THEN Object("nursery", 0, {}) ELSE objects[k]]
  /\ issued' = issued \cup {h}
  /\ live' = live + 1
  /\ UNCHANGED <<pins, remembered, barrier, marking, cycles>>

\* allocate_graph_with_roots: the whole batch, or none of it.  The references are to
\* members of the batch or to live objects outside it.
AllocateGraph(batch, refs) ==
  /\ Fits(Cardinality(batch))
  /\ batch \subseteq Handle \ issued
  /\ \A h \in batch : refs[h] \subseteq batch \cup LiveSet
  /\ objects' = [k \in LiveSet \cup batch |->
                   IF k \in batch THEN Object("nursery", 0, refs[k]) ELSE objects[k]]
  /\ issued' = issued \cup batch
  /\ live' = live + Cardinality(batch)
  /\ UNCHANGED <<pins, remembered, barrier, marking, cycles>>

StoreReference(owner, target) ==
  /\ owner \in LiveSet /\ target \in LiveSet
  /\ objects' = [objects EXCEPT ![owner].refs = @ \cup {target}]
  /\ remembered' = IF ~Young(owner) /\ Young(target)
                   THEN remembered \cup {owner} ELSE remembered
  /\ barrier' = Barred(target)
  /\ UNCHANGED <<issued, pins, marking, live, cycles>>

PinCount(h) == IF h \in DOMAIN pins THEN pins[h] ELSE 0

PinHost(h) ==
  /\ h \in LiveSet
  /\ PinCount(h) < MaxPins
  /\ pins' = [k \in DOMAIN pins \cup {h} |->
                IF k = h THEN PinCount(h) + 1 ELSE pins[k]]
  /\ UNCHANGED <<heapVars, remembered, barrier, marking, cycles>>

UnpinHost(h) ==
  /\ h \in LiveSet
  /\ h \in DOMAIN pins
  /\ pins' = Unpinned(h)
  /\ UNCHANGED <<heapVars, remembered, barrier, marking, cycles>>

-----------------------------------------------------------------------------
\* copy_nursery, the operation minor_collect runs with the world stopped.
\*
\* As if host_pins were not roots of a minor collection.
MinorReachableUnpinned(roots) == Reach(Refs, roots \cup remembered)

MinorReachable(roots) == Reach(Refs, roots \cup DOMAIN pins \cup remembered)

Aged(o) ==
  IF o.space = "old" THEN o
  ELSE IF o.age + 1 >= PromotionAge THEN Object("old", 0, o.refs)
  ELSE Object("nursery", o.age + 1, o.refs)

MinorCollect(roots) ==
  LET kept == {h \in LiveSet : Young(h) => h \in MinorReachable(roots)}
  IN /\ objects' = [h \in kept |-> Aged(objects[h])]
     /\ live' = LiveAfter(kept)
     /\ remembered' = RememberedAfter(kept)
     /\ UNCHANGED <<issued, pins, barrier, marking, cycles>>

\* start_major.  The marker thread searches a private copy of the heap, so what it
\* will return is fixed here.
StartMajor(c, roots) ==
  /\ cycles[c].phase = "idle"
  /\ cycles' = [cycles EXCEPT ![c] =
                  [phase |-> "marking", roots |-> roots,
                   marks |-> Reach(Refs, roots \cup DOMAIN pins)]]
  /\ marking' = TRUE
  /\ barrier' = {}
  /\ UNCHANGED <<heapVars, pins, remembered>>

\* finish, up to the point where it releases the lock.
\*
\* As if finish did not look at the pins again.
MajorLiveUnpinned(c) == Reach(Refs, cycles[c].roots \cup barrier) \cup cycles[c].marks

\* As if finish ignored what the marker found.
MajorLiveUnmarked(c) == Reach(Refs, cycles[c].roots \cup DOMAIN pins \cup barrier)

MajorLive(c) ==
  Reach(Refs, cycles[c].roots \cup DOMAIN pins \cup barrier) \cup cycles[c].marks

FinishMajor(c) ==
  /\ cycles[c].phase = "marking"
  /\ LET kept == {h \in LiveSet : Young(h) \/ h \in MajorLive(c)}
     IN /\ objects' = [h \in kept |-> objects[h]]
        /\ live' = LiveAfter(kept)
        /\ remembered' = RememberedAfter(kept)
  /\ cycles' = [cycles EXCEPT ![c] = [Idle EXCEPT !.phase = "swept"]]
  /\ marking' = FALSE
  /\ barrier' = {}
  /\ UNCHANGED <<issued, pins>>

\* Drop of a MajorCycle, finished or abandoned: a lock acquisition of its own.
DropMajor(c) ==
  /\ cycles[c].phase # "idle"
  /\ cycles' = [cycles EXCEPT ![c] = Idle]
  /\ marking' = FALSE
  /\ barrier' = {}
  /\ UNCHANGED <<heapVars, pins, remembered>>

\* The root inventories a caller may supply, at most MaxRoots handles each.
RootSets == {roots \in SUBSET issued : Cardinality(roots) <= MaxRoots}

Next ==
  \/ \E h \in Handle : Allocate(h) \/ PinHost(h) \/ UnpinHost(h)
  \/ \E batch \in SUBSET Handle : Cardinality(batch) \in 1..MaxBatch /\
       \E refs \in [batch -> SUBSET Handle] : AllocateGraph(batch, refs)
  \/ \E owner, target \in Handle : StoreReference(owner, target)
  \/ \E roots \in RootSets : MinorCollect(roots)
  \/ \E c \in Cycle :
       \/ \E roots \in RootSets : StartMajor(c, roots)
       \/ FinishMajor(c)
       \/ DropMajor(c)

Spec == Init /\ [][Next]_vars

-----------------------------------------------------------------------------
(* Clients that hold to the discipline of public_heap: what is stored into *)
(* an object is rooted for the length of the call, and what is pinned was  *)
(* read from a rooted object or has just been allocated, so its references *)
(* are rooted.  Everything else a client may do is as above: collections   *)
(* run at any time with any roots.                                         *)

Rooted == Reach(Refs, DOMAIN pins)

RootedStore(owner, target) == target \in Rooted /\ StoreReference(owner, target)

RootedPin(h) ==
  /\ h \in LiveSet
  /\ h \in Rooted \/ objects[h].refs \subseteq Rooted
  /\ PinHost(h)

RootedNext ==
  \/ \E h \in Handle : Allocate(h) \/ RootedPin(h) \/ UnpinHost(h)
  \/ \E batch \in SUBSET Handle : Cardinality(batch) \in 1..MaxBatch /\
       \E refs \in [batch -> SUBSET Handle] : AllocateGraph(batch, refs)
  \/ \E owner, target \in Handle : RootedStore(owner, target)
  \/ \E roots \in RootSets : MinorCollect(roots)
  \/ \E c \in Cycle :
       \/ \E roots \in RootSets : StartMajor(c, roots)
       \/ FinishMajor(c)
       \/ DropMajor(c)

RootedSpec == Init /\ [][RootedNext]_vars

\* Nothing a pinned object reaches, through any chain of references, is ever freed:
\* a rooted object has no dangling reference.
RootedLive == Rooted \subseteq LiveSet

-----------------------------------------------------------------------------
TypeOK ==
  /\ issued \subseteq Handle
  /\ LiveSet \subseteq issued
  /\ \A h \in LiveSet :
       objects[h] \in [space : {"nursery", "old"}, age : Nat, refs : SUBSET issued]
  /\ DOMAIN pins \subseteq Handle
  /\ \A h \in DOMAIN pins : pins[h] \in 1..MaxPins
  /\ remembered \subseteq Handle
  /\ barrier \subseteq Handle
  /\ marking \in BOOLEAN
  /\ live \in Nat
  /\ cycles \in [Cycle -> [phase : {"idle", "marking", "swept"},
                           roots : SUBSET Handle, marks : SUBSET Handle]]

\* A pinned object is live: no collection, minor or major, overlapping another or
\* not, frees what a host lease pins.
PinnedLive == DOMAIN pins \subseteq LiveSet

\* The counter the allocation limit is checked against is the number of live
\* objects, through both sweeps and the batch path.
LiveCountExact == live = Cardinality(LiveSet)

\* Neither allocation path takes the heap past its limit.
WithinLimit == live <= AllocationLimit

\* The remembered set names live old objects only: a stale owner in it would be
\* followed by every later minor collection.
RememberedOld == \A h \in remembered : h \in LiveSet /\ ~Young(h)

\* The barrier holds targets only while some cycle is marking, so that nothing is
\* kept alive by a cycle that is over.
BarrierWhileMarking ==
  /\ barrier # {} => marking
  /\ marking => \E c \in Cycle : Active(c)

\* The two sets that stores and collections keep for the collector are exact, however
\* cycles overlap.
CollectorSets == RememberedOld /\ BarrierWhileMarking

\* The heap keeps its promise: every step is one of ManagedHeap's or invisible to the
\* users, so no collection frees what a pinned object reaches.
Promise == INSTANCE ManagedHeap WITH graph <- Refs
KeepsPromise == Promise!Spec

\* A cycle keeps what its own roots reach when it finishes, what they reached when it
\* started, and what is new: finish frees nothing else than tenured floating garbage.
FinishKeepsRoots ==
  [][\A c \in Cycle : FinishMajor(c) =>
       LiveSet \ LiveSet' \subseteq
         {h \in LiveSet : ~Young(h)}
         \ (Reach(Refs, cycles[c].roots) \cup cycles[c].marks)]_vars
=============================================================================
