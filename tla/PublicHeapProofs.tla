-------------------------- MODULE PublicHeapProofs --------------------------
(***************************************************************************)
(* For every number of handles and threads: leases hold, pins balance, and *)
(* what is read can be rooted, whatever collections run in between.        *)
(***************************************************************************)
EXTENDS PublicHeap, GcHeapProofs

-----------------------------------------------------------------------------
(* The invariant.                                                          *)

Kinds == {"container", "scalar"}
Creations == {"fresh", "swept", "pinned"}
Holding == {"pinned", "rooted", "stored"}
Handling == Creations \cup Accesses

Tasks ==
  {Resting} \cup [op : {"begun", "collected"}, kind : Kinds, handle : {Nothing}]
    \cup [op : Creations, kind : Kinds, handle : Handle]
    \cup [op : Accesses, owner : Handle, handle : Handle]
    \cup [op : {"minor", "major", "marking", "finished", "sweep"}, roots : SUBSET Handle]

\* Handles come from the heap, and only containers own anything.
PublicTypes ==
  /\ task \in [Thread -> Tasks]
  /\ leases \in [Handle -> Nat]
  /\ inserted \subseteq issued /\ DOMAIN payload \subseteq inserted
  /\ \A t \in Thread :
       /\ In(t, Handling) => task[t].handle \in issued
       /\ In(t, Accesses) => task[t].owner \in inserted

\* What is borrowed is leased.
Borrowed == \A h \in Handle : Borrowers(h) # {} => Leased(h)

\* The thread that creates an object is the only one that knows it.
Alone(t) ==
  In(t, Creations) =>
    LET h == task[t].handle
    IN  /\ leases[h] = 0 /\ h \notin inserted
        /\ \A u \in Thread \ {t} : In(u, Handling) => task[u].handle # h
        /\ \A o \in LiveSet : h \notin objects[o].refs

\* Every word in a container has its edge in the heap, what is no container has none,
\* a live container has its payload, and a word just read still has its edge.
Contents ==
  /\ \A o \in DOMAIN payload \cap LiveSet : payload[o] \subseteq objects[o].refs
  /\ \A h \in LiveSet \ inserted : objects[h].refs = {}
  /\ inserted \cap LiveSet \subseteq DOMAIN payload
  /\ \A t \in Thread : In(t, {"read"}) => task[t].handle \in objects[task[t].owner].refs

PublicInv ==
  /\ GcInv /\ RootedLive
  /\ PublicTypes /\ PinsExact /\ Borrowed
  /\ \A t \in Thread : Alone(t)
  /\ Contents
  /\ PayloadsSwept

-----------------------------------------------------------------------------
(* Tasks and the pins they hold.                                           *)

Held(k, h) == k.op \in Holding /\ k.handle = h
One(k, h) == IF Held(k, h) THEN 1 ELSE 0

LEMMA BecomeFacts ==
  ASSUME task \in [Thread -> Tasks], NEW t \in Thread, NEW next \in Tasks, Become(t, next)
  PROVE  /\ task' \in [Thread -> Tasks] /\ task'[t] = next
         /\ \A u \in Thread \ {t} : task'[u] = task[u]
  BY DEF Become

LEMMA CountFacts ==
  ASSUME NEW S \in SUBSET Thread
  PROVE  /\ IsFiniteSet(S) /\ Cardinality(S) \in Nat
         /\ Cardinality(S) = 0 <=> S = {}
  BY ConfigAssumption, FS_Subset, FS_CardinalityType, FS_EmptySet DEF Thread

LEMMA CountWithout ==
  ASSUME NEW S \in SUBSET Thread, NEW t \in Thread
  PROVE  Cardinality(S) = Cardinality(S \ {t}) + (IF t \in S THEN 1 ELSE 0)
<1>1. S \ {t} \in SUBSET Thread
  OBVIOUS
<1>2. /\ IsFiniteSet(S) /\ Cardinality(S) \in Nat
      /\ IsFiniteSet(S \ {t}) /\ Cardinality(S \ {t}) \in Nat
  BY <1>1, CountFacts
<1>3. CASE t \in S
  <2>1. Cardinality(S \ {t}) = Cardinality(S) - 1
    BY <1>2, <1>3, FS_RemoveElement
  <2> QED BY <1>2, <1>3, <2>1
<1>4. CASE t \notin S
  <2>1. S \ {t} = S
    BY <1>4
  <2> QED BY <1>2, <1>4, <2>1
<1> QED BY <1>3, <1>4

\* Pins stay exact when a step moves pins, leases and its own hold together.
LEMMA PinsMove ==
  ASSUME PublicInv, GcInv', leases' \in [Handle -> Nat],
         NEW t \in Thread, NEW next \in Tasks, Become(t, next),
         \A h \in Handle : PinCount(h)' + leases[h] + One(task[t], h)
                             = PinCount(h) + leases'[h] + One(next, h)
  PROVE  PinsExact'
<1> SUFFICES ASSUME NEW h \in Handle
             PROVE  PinCount(h)' = leases'[h] + Cardinality(Holders(h)')
  BY DEF PinsExact
<1> DEFINE S == {u \in Thread : Held(task[u], h)}
           T == {u \in Thread : Held(task'[u], h)}
<1>1. Holders(h) = S /\ Holders(h)' = T
  BY DEF Holders, Held, Holding, In
<1>2. /\ task'[t] = next
      /\ \A u \in Thread \ {t} : task'[u] = task[u]
  BY BecomeFacts DEF PublicInv, PublicTypes
<1>3. S \ {t} = T \ {t}
  BY <1>2
<1>4. /\ (IF t \in S THEN 1 ELSE 0) = One(task[t], h)
      /\ (IF t \in T THEN 1 ELSE 0) = One(next, h)
  BY <1>2 DEF One
<1>5. S \in SUBSET Thread /\ T \in SUBSET Thread /\ T \ {t} \in SUBSET Thread
  OBVIOUS
<1> HIDE DEF S, T
<1>6. /\ Cardinality(S) = Cardinality(T \ {t}) + One(task[t], h)
      /\ Cardinality(T) = Cardinality(T \ {t}) + One(next, h)
      /\ Cardinality(T \ {t}) \in Nat
  BY <1>3, <1>4, <1>5, CountWithout, CountFacts
<1>7. /\ PinCount(h)' \in Nat /\ PinCount(h) \in Nat
      /\ leases[h] \in Nat /\ leases'[h] \in Nat
  BY BoundsAssumption DEF PublicInv, PublicTypes, GcInv, TypeOK, PinCount
<1>8. One(task[t], h) \in Nat /\ One(next, h) \in Nat
  BY DEF One
<1>9. PinCount(h) = leases[h] + Cardinality(S)
  BY <1>1 DEF PublicInv, PinsExact
<1> QED BY <1>1, <1>6, <1>7, <1>8, <1>9

LEMMA PinCountUp ==
  ASSUME NEW h \in Handle, PinHost(h)
  PROVE  /\ PinCount(h)' = PinCount(h) + 1
         /\ \A k \in Handle \ {h} : PinCount(k)' = PinCount(k)
  BY DEF PinHost, PinCount

LEMMA PinCountDown ==
  ASSUME GcInv, NEW h \in Handle, UnpinHost(h)
  PROVE  /\ PinCount(h) = PinCount(h)' + 1
         /\ \A k \in Handle \ {h} : PinCount(k)' = PinCount(k)
<1>1. h \in DOMAIN pins /\ pins[h] \in 1..MaxPins /\ pins' = Unpinned(h)
  BY DEF UnpinHost, GcInv, TypeOK
<1>2. CASE pins[h] > 1
  BY <1>1, <1>2, BoundsAssumption DEF Unpinned, PinCount
<1>3. CASE pins[h] = 1
  BY <1>1, <1>3 DEF Unpinned, PinCount
<1> QED BY <1>1, <1>2, <1>3, BoundsAssumption

\* What a lease or an operation in progress holds is pinned, so that it stays.
LEMMA Backed ==
  ASSUME PublicInv, NEW h \in Handle, Leased(h) \/ \E t \in Thread : Held(task[t], h)
  PROVE  /\ h \in DOMAIN pins /\ h \in LiveSet /\ h \in Rooted
         /\ h \in inserted => h \in DOMAIN payload
<1>1. Holders(h) \in SUBSET Thread /\ Holders(h) = {u \in Thread : Held(task[u], h)}
  BY DEF Holders, Held, Holding, In
<1>2. leases[h] \in Nat /\ Cardinality(Holders(h)) \in Nat
  BY <1>1, CountFacts DEF PublicInv, PublicTypes
<1>3. leases[h] > 0 \/ Cardinality(Holders(h)) # 0
  BY <1>1, CountFacts DEF Leased
<1>4. PinCount(h) # 0
  BY <1>2, <1>3 DEF PublicInv, PinsExact
<1>5. h \in DOMAIN pins
  BY <1>4 DEF PinCount
<1>6. h \in LiveSet /\ h \in Rooted
  BY <1>5, RootedFacts DEF PublicInv
<1> QED BY <1>5, <1>6 DEF PublicInv, Contents

\* The owner of an access is leased, hence live, and so is all it refers to.
LEMMA OwnerBacked ==
  ASSUME PublicInv, NEW t \in Thread, In(t, Accesses)
  PROVE  /\ task[t].owner \in Handle /\ task[t].owner \in inserted /\ Leased(task[t].owner)
         /\ task[t].owner \in DOMAIN pins /\ task[t].owner \in LiveSet
         /\ task[t].owner \in DOMAIN payload
         /\ objects[task[t].owner].refs \subseteq Rooted
<1> DEFINE owner == task[t].owner
<1>1. owner \in inserted /\ owner \in Handle
  BY DEF PublicInv, PublicTypes, GcInv, TypeOK
<1>2. t \in Borrowers(owner)
  BY DEF Borrowers
<1>3. Leased(owner)
  BY <1>1, <1>2 DEF PublicInv, Borrowed
<1>4. owner \in DOMAIN pins /\ owner \in LiveSet /\ owner \in Rooted /\ owner \in DOMAIN payload
  BY <1>1, <1>3, Backed
<1>5. objects[owner].refs \subseteq Rooted
  BY <1>4, RootedFacts DEF PublicInv
<1> QED BY <1>1, <1>3, <1>4, <1>5

-----------------------------------------------------------------------------
(* Every step keeps to the discipline of the rooted heap.                  *)

LEMMA FreshHandle ==
  ASSUME PublicInv, NEW t \in Thread, In(t, Handling)
  PROVE  task[t].handle \in Handle /\ task[t].handle \in issued
  BY DEF PublicInv, PublicTypes, GcInv, TypeOK

LEMMA RootsOfTask ==
  ASSUME PublicInv, NEW t \in Thread, In(t, {"minor", "major"})
  PROVE  task[t].roots \in SUBSET Handle
<1>1. task[t] \in Tasks
  BY DEF PublicInv, PublicTypes
<1> QED BY <1>1 DEF Tasks, In, Resting, Creations, Accesses

LEMMA HeapSteps ==
  ASSUME PublicInv, [PublicNext]_allVars
  PROVE  [RootedMoves]_vars
<1>1. ASSUME NEW t \in Thread, ImplicitCollect(t) \/ CollectMinor(t)
      PROVE  RootedMoves
  <2>1. CASE ImplicitCollect(t)
    BY <2>1 DEF ImplicitCollect, MinorRun, RootedMoves
  <2>2. CASE CollectMinor(t)
    BY <2>2, RootsOfTask DEF CollectMinor, In, MinorRun, RootedMoves
  <2> QED BY <1>1, <2>1, <2>2
<1>2. ASSUME NEW t \in Thread, NEW h \in Handle, AllocateFor(t, h)
      PROVE  RootedMoves
  BY <1>2 DEF AllocateFor, RootedMoves
<1>3. ASSUME NEW t \in Thread, PinFresh(t)
      PROVE  RootedMoves \/ UNCHANGED heap
  <2> DEFINE h == task[t].handle
  <2>1. In(t, Creations) /\ In(t, Handling)
    BY <1>3 DEF PinFresh, In, Creations, Handling
  <2>2. h \in Handle /\ h \notin inserted
    BY <2>1, FreshHandle DEF PublicInv, Alone
  <2>3. CASE h \in LiveSet
    <3>1. objects[h].refs = {}
      BY <2>2, <2>3 DEF PublicInv, Contents
    <3>2. RootedPin(h)
      BY <1>3, <2>3, <3>1 DEF PinFresh, RootedPin
    <3> QED BY <2>2, <3>2 DEF RootedMoves
  <2>4. CASE h \notin LiveSet
    BY <1>3, <2>4 DEF PinFresh
  <2> QED BY <2>3, <2>4
<1>4. ASSUME NEW t \in Thread, RootValue(t)
      PROVE  RootedMoves \/ UNCHANGED heap
  <2> DEFINE h == task[t].handle
  <2>1. In(t, {"storing"}) /\ In(t, Handling)
    BY <1>4 DEF RootValue, In, Accesses, Handling
  <2>2. h \in Handle
    BY <2>1, FreshHandle
  <2>3. CASE h \in LiveSet
    <3>1. h \in Rooted \/ objects[h].refs = {}
      <4>1. CASE h \in inserted
        <5>1. t \in Borrowers(h)
          BY <2>1, <4>1 DEF Borrowers
        <5>2. Leased(h)
          BY <2>2, <5>1 DEF PublicInv, Borrowed
        <5> QED BY <2>2, <5>2, Backed
      <4>2. CASE h \notin inserted
        BY <2>3, <4>2 DEF PublicInv, Contents
      <4> QED BY <4>1, <4>2
    <3>2. RootedPin(h)
      BY <1>4, <2>3, <3>1 DEF RootValue, RootedPin
    <3> QED BY <2>2, <3>2 DEF RootedMoves
  <2>4. CASE h \notin LiveSet
    BY <1>4, <2>4 DEF RootValue
  <2> QED BY <2>3, <2>4
<1>5. ASSUME NEW t \in Thread, NEW replaced, Store(t, replaced)
      PROVE  RootedMoves
  <2> DEFINE owner == task[t].owner
             h == task[t].handle
  <2>1. In(t, {"rooted"}) /\ StoreReference(owner, h)
    BY <1>5 DEF Store, Edge
  <2>2. In(t, Handling) /\ In(t, Accesses) /\ Held(task[t], h)
    BY <2>1 DEF In, Accesses, Handling, Held, Holding
  <2>3. owner \in Handle /\ h \in Handle /\ h \in Rooted
    BY <2>2, FreshHandle, OwnerBacked, Backed
  <2> QED BY <2>1, <2>3 DEF RootedStore, RootedMoves
<1>6. ASSUME NEW t \in Thread, FinishStore(t)
      PROVE  RootedMoves
  <2>1. In(t, Handling) /\ UnpinHost(task[t].handle)
    BY <1>6 DEF FinishStore, In, RootDropped, Accesses, Handling
  <2> QED BY <2>1, FreshHandle DEF RootedMoves
<1>7. ASSUME NEW t \in Thread, RootRead(t)
      PROVE  RootedMoves \/ UNCHANGED heap
  <2> DEFINE h == task[t].handle
  <2>1. In(t, {"read"}) /\ In(t, Accesses) /\ In(t, Handling)
    BY <1>7 DEF RootRead, In, Accesses, Handling
  <2>2. h \in Handle /\ h \in Rooted
    BY <2>1, FreshHandle, OwnerBacked DEF PublicInv, Contents
  <2>3. CASE h \in LiveSet
    BY <1>7, <2>2, <2>3 DEF RootRead, RootedPin, RootedMoves
  <2>4. CASE h \notin LiveSet
    BY <1>7, <2>4 DEF RootRead
  <2> QED BY <2>3, <2>4
<1>8. ASSUME NEW h \in Handle, DropLease(h)
      PROVE  RootedMoves
  BY <1>8 DEF DropLease, RootedMoves
<1>9. ASSUME NEW t \in Thread, BeginMarking(t) \/ EndMarking(t) \/ LeaveCycle(t)
      PROVE  RootedMoves
  <2>1. CASE BeginMarking(t)
    BY <2>1, RootsOfTask DEF BeginMarking, In, Thread, RootedMoves
  <2>2. CASE EndMarking(t) \/ LeaveCycle(t)
    BY <2>2 DEF EndMarking, LeaveCycle, Thread, RootedMoves
  <2> QED BY <1>9, <2>1, <2>2
<1>10. ASSUME NEW t \in Thread,
              \/ \E kind \in {"container", "scalar"} : BeginCreate(t, kind)
              \/ AllocationFails(t) \/ SweepIfCollected(t) \/ FinishCreate(t)
              \/ \E owner, value \in Handle : BeginStore(t, owner, value)
              \/ \E owner, word \in Handle : \E removed \in SUBSET Handle :
                   Read(t, owner, word, removed)
              \/ BeginCollect(t, "major") \/ BeginCollect(t, "minor")
              \/ SweepPayloads(t)
       PROVE  UNCHANGED heap
  BY <1>10 DEF BeginCreate, AllocationFails, SweepIfCollected, FinishCreate, BeginStore,
       Read, BeginCollect, SweepPayloads
<1>11. CASE UNCHANGED allVars
  BY <1>11 DEF allVars, heap
<1> QED BY <1>1, <1>2, <1>3, <1>4, <1>5, <1>6, <1>7, <1>8, <1>9, <1>10, <1>11
     DEF PublicNext, Operation, heap

-----------------------------------------------------------------------------
(* What a step of one thread has to keep.                                  *)

\* More than its creator can know this handle.
Known(h) == h \in inserted \/ Leased(h) \/ \E o \in LiveSet : h \in objects[o].refs

\* What a thread may turn to: it creates what it created before, and touches what it
\* knows.
Proper(t, next) ==
  /\ next \in Tasks
  /\ next.op \in Creations => In(t, Creations) /\ task[t].handle = next.handle
  /\ next.op \in Accesses =>
       /\ next.owner \in inserted /\ Leased(next.owner)
       /\ next.handle \in issued
       /\ Known(next.handle) \/ (In(t, Accesses) /\ task[t].handle = next.handle)
  /\ next.op = "storing" => Leased(next.handle)
  /\ next.op = "read" => next.handle \in objects[next.owner].refs

\* Objects go or stay as they are, and pinned ones stay.
HeapShrinks ==
  /\ LiveSet' \subseteq LiveSet /\ DOMAIN pins \subseteq LiveSet' /\ issued' = issued
  /\ \A h \in LiveSet' : objects'[h].refs = objects[h].refs

\* Payloads shrink or go, those of live objects stay.
PayloadShrinks ==
  /\ DOMAIN payload' \subseteq DOMAIN payload
  /\ DOMAIN payload \cap LiveSet' \subseteq DOMAIN payload'
  /\ \A o \in DOMAIN payload' : payload'[o] \subseteq payload[o]
  /\ inserted' = inserted

LeasesGrow ==
  /\ leases' \in [Handle -> Nat]
  /\ \A h \in Handle : leases'[h] = leases[h] \/ (Known(h) /\ leases'[h] > leases[h])

\* A handle that is known is not one that is being created.
LEMMA KnownIsNotNew ==
  ASSUME PublicInv, NEW u \in Thread, In(u, Creations)
  PROVE  ~Known(task[u].handle)
<1>1. leases[task[u].handle] = 0
  BY DEF PublicInv, Alone
<1> QED BY <1>1 DEF PublicInv, Alone, Known, Leased

LEMMA FrameTypes ==
  ASSUME PublicInv, NEW t \in Thread, NEW next, Become(t, next), Proper(t, next),
         HeapShrinks, PayloadShrinks, LeasesGrow
  PROVE  PublicTypes'
<1>1. /\ task' \in [Thread -> Tasks] /\ task'[t] = next
      /\ \A u \in Thread \ {t} : task'[u] = task[u]
  BY BecomeFacts DEF PublicInv, PublicTypes, Proper
<1>2. /\ next.op \in Handling => next.handle \in issued
      /\ next.op \in Accesses => next.owner \in inserted
  BY FreshHandle DEF Proper, Handling, In
<1>3. ASSUME NEW u \in Thread
      PROVE  /\ In(u, Handling)' => task'[u].handle \in issued'
             /\ In(u, Accesses)' => task'[u].owner \in inserted'
  BY <1>1, <1>2 DEF PublicInv, PublicTypes, In, HeapShrinks, PayloadShrinks
<1>4. /\ leases' \in [Handle -> Nat]
      /\ inserted' \subseteq issued' /\ DOMAIN payload' \subseteq inserted'
  BY DEF PublicInv, PublicTypes, HeapShrinks, PayloadShrinks, LeasesGrow
<1> QED BY <1>1, <1>3, <1>4 DEF PublicTypes

LEMMA FrameBorrowed ==
  ASSUME PublicInv, NEW t \in Thread, NEW next, Become(t, next), Proper(t, next),
         inserted' = inserted, LeasesGrow
  PROVE  Borrowed'
<1> SUFFICES ASSUME NEW h \in Handle, NEW u \in Borrowers(h)' PROVE leases'[h] > 0
  BY DEF Borrowed, Leased
<1>1. /\ task'[t] = next
      /\ \A v \in Thread \ {t} : task'[v] = task[v]
  BY BecomeFacts DEF PublicInv, PublicTypes, Proper
<1>2. leases[h] \in Nat /\ leases'[h] \in Nat /\ (leases[h] > 0 => leases'[h] > 0)
  BY DEF PublicInv, PublicTypes, LeasesGrow
<1>3. CASE u = t
  BY <1>1, <1>2, <1>3 DEF Borrowers, In, Proper, Leased
<1>4. CASE u # t
  <2>1. u \in Borrowers(h)
    BY <1>1, <1>4 DEF Borrowers, In
  <2> QED BY <1>2, <2>1 DEF PublicInv, Borrowed, Leased
<1> QED BY <1>3, <1>4

LEMMA FrameAlone ==
  ASSUME PublicInv, NEW t \in Thread, NEW next, Become(t, next), Proper(t, next),
         HeapShrinks, inserted' = inserted, LeasesGrow, NEW u \in Thread
  PROVE  Alone(u)'
<1>1. /\ task'[t] = next
      /\ \A v \in Thread \ {t} : task'[v] = task[v]
  BY BecomeFacts DEF PublicInv, PublicTypes, Proper
<1> DEFINE h == task'[u].handle
<1> SUFFICES ASSUME In(u, Creations)'
             PROVE  /\ leases'[h] = 0 /\ h \notin inserted'
                    /\ \A v \in Thread \ {u} : In(v, Handling)' => task'[v].handle # h
                    /\ \A o \in LiveSet' : h \notin objects'[o].refs
  BY DEF Alone
<1>2. In(u, Creations) /\ h = task[u].handle
  BY <1>1 DEF In, Proper
<1>3. /\ leases[h] = 0 /\ h \notin inserted /\ h \in Handle /\ ~Known(h)
      /\ \A v \in Thread \ {u} : In(v, Handling) => task[v].handle # h
      /\ \A o \in LiveSet : h \notin objects[o].refs
  BY <1>2, KnownIsNotNew, FreshHandle DEF PublicInv, Alone, In, Handling
<1> HIDE DEF h
<1>4. leases'[h] = 0
  BY <1>3 DEF LeasesGrow
<1>5. \A o \in LiveSet' : h \notin objects'[o].refs
  BY <1>3 DEF HeapShrinks
<1>6. ASSUME NEW v \in Thread \ {u}, In(v, Handling)'
      PROVE  task'[v].handle # h
  <2>1. CASE v # t
    BY <2>1, <1>1, <1>3, <1>6 DEF In
  <2>2. CASE v = t /\ next.op \in Creations
    BY <2>2, <1>1, <1>3 DEF Proper, In, Handling
  <2>3. CASE v = t /\ next.op \in Accesses
    BY <2>3, <1>1, <1>3 DEF Proper, In, Handling
  <2> QED BY <1>1, <1>6, <2>1, <2>2, <2>3 DEF In, Handling
<1> QED BY <1>3, <1>4, <1>5, <1>6

LEMMA FrameContents ==
  ASSUME PublicInv, NEW t \in Thread, NEW next, Become(t, next), Proper(t, next),
         HeapShrinks, PayloadShrinks
  PROVE  Contents'
<1>1. /\ task'[t] = next
      /\ \A u \in Thread \ {t} : task'[u] = task[u]
  BY BecomeFacts DEF PublicInv, PublicTypes, Proper
<1>2. \A o \in DOMAIN payload' \cap LiveSet' : payload'[o] \subseteq objects'[o].refs
  BY DEF PublicInv, Contents, HeapShrinks, PayloadShrinks
<1>3. /\ \A h \in LiveSet' \ inserted' : objects'[h].refs = {}
      /\ inserted' \cap LiveSet' \subseteq DOMAIN payload'
  BY DEF PublicInv, Contents, HeapShrinks, PayloadShrinks
<1>4. ASSUME NEW u \in Thread, In(u, {"read"})'
      PROVE  task'[u].handle \in objects'[task'[u].owner].refs
  <2>1. CASE u = t
    <3>1. next.owner \in Handle /\ Leased(next.owner)
      BY <1>1, <1>4, <2>1 DEF In, Proper, Accesses, PublicInv, PublicTypes, GcInv, TypeOK
    <3>2. next.owner \in LiveSet'
      BY <3>1, Backed DEF HeapShrinks
    <3> QED BY <1>1, <1>4, <2>1, <3>2 DEF In, Proper, HeapShrinks
  <2>2. CASE u # t
    <3>1. In(u, {"read"}) /\ In(u, Accesses) /\ task'[u] = task[u]
      BY <1>1, <1>4, <2>2 DEF In, Accesses
    <3>2. task[u].owner \in LiveSet'
      BY <3>1, OwnerBacked DEF HeapShrinks
    <3> QED BY <3>1, <3>2 DEF PublicInv, Contents, HeapShrinks
  <2> QED BY <2>1, <2>2
<1> QED BY <1>2, <1>3, <1>4 DEF Contents

LEMMA Frame ==
  ASSUME PublicInv, NEW t \in Thread, NEW next, Become(t, next), Proper(t, next),
         HeapShrinks, PayloadShrinks, LeasesGrow,
         GcInv', RootedLive', PinsExact', PayloadsSwept'
  PROVE  PublicInv'
<1>1. PublicTypes' /\ Contents'
  BY FrameTypes, FrameContents
<1>2. Borrowed' /\ \A u \in Thread : Alone(u)'
  BY FrameBorrowed, FrameAlone DEF PayloadShrinks
<1> QED BY <1>1, <1>2 DEF PublicInv

-----------------------------------------------------------------------------
(* The steps that pin nothing.                                             *)

Sweeping(k) == k.op \in {"finished", "sweep"}

LEMMA SweptStays ==
  ASSUME PublicInv, NEW t \in Thread, NEW next \in Tasks, Become(t, next),
         LiveSet' = LiveSet, DOMAIN payload' \subseteq DOMAIN payload,
         collectEvery' = collectEvery,
         \/ DOMAIN payload' \subseteq LiveSet
         \/ Sweeping(task[t]) => Sweeping(next)
  PROVE  PayloadsSwept'
<1>1. /\ task'[t] = next
      /\ \A u \in Thread \ {t} : task'[u] = task[u]
  BY BecomeFacts DEF PublicInv, PublicTypes
<1> QED BY <1>1 DEF PublicInv, PayloadsSwept, In, Sweeping

LEMMA SameObjects ==
  ASSUME PublicInv, UNCHANGED <<objects, issued>>
  PROVE  HeapShrinks /\ LiveSet' = LiveSet
  BY DEF PublicInv, GcInv, PinnedLive, HeapShrinks, LiveSet

\* A step that leaves objects, pins and leases alone.
LEMMA Quiet ==
  ASSUME PublicInv, NEW t \in Thread, NEW next, Become(t, next), Proper(t, next),
         UNCHANGED <<objects, issued, pins, leases, inserted, collectEvery>>,
         DOMAIN payload' \subseteq DOMAIN payload,
         DOMAIN payload \cap LiveSet \subseteq DOMAIN payload',
         \A o \in DOMAIN payload' : payload'[o] \subseteq payload[o],
         task[t].op \in Holding \/ next.op \in Holding => FALSE,
         \/ DOMAIN payload' \subseteq LiveSet
         \/ Sweeping(task[t]) => Sweeping(next),
         GcInv', RootedLive'
  PROVE  PublicInv'
<1>1. HeapShrinks /\ LiveSet' = LiveSet /\ next \in Tasks
  BY SameObjects DEF Proper
<1>2. PayloadShrinks
  BY <1>1 DEF PayloadShrinks
<1>3. LeasesGrow
  BY DEF LeasesGrow, PublicInv, PublicTypes
<1>4. PayloadsSwept'
  BY <1>1, SweptStays
<1>5. \A h \in Handle : PinCount(h)' = PinCount(h) /\ One(task[t], h) = 0 /\ One(next, h) = 0
  BY DEF PinCount, One, Held
<1>6. PinsExact'
  BY <1>1, <1>3, <1>5, PinsMove DEF LeasesGrow
<1> QED BY <1>1, <1>2, <1>3, <1>4, <1>6, Frame

LEMMA SweepFacts ==
  ASSUME payload' = Swept
  PROVE  /\ DOMAIN payload' = DOMAIN payload \cap LiveSet
         /\ \A o \in DOMAIN payload' : payload'[o] = payload[o]
  BY DEF Swept

LEMMA BeginCreateStep ==
  ASSUME PublicInv, GcInv', RootedLive', collectEvery' = collectEvery,
         NEW t \in Thread, NEW kind \in Kinds, BeginCreate(t, kind)
  PROVE  PublicInv'
<1> DEFINE next == Creating("begun", kind, Nothing)
<1>1. /\ In(t, {"idle"}) /\ Become(t, next)
      /\ UNCHANGED <<objects, issued, pins, leases, inserted, payload>>
  BY DEF BeginCreate, heap, vars
<1>2. next \in Tasks /\ next.op = "begun"
  BY DEF Tasks, Creating
<1>3. Proper(t, next)
  BY <1>2 DEF Proper, Creations, Accesses
<1> HIDE DEF next
<1> QED BY <1>1, <1>2, <1>3, Quiet DEF In, Holding, Sweeping

LEMMA RestStep ==
  ASSUME PublicInv, GcInv', RootedLive', collectEvery' = collectEvery,
         NEW t \in Thread, Become(t, Resting), task[t].op \notin Holding,
         UNCHANGED <<heap, leases, inserted>>,
         \/ payload' = payload /\ ~Sweeping(task[t])
         \/ payload' = Swept
  PROVE  PublicInv'
<1>1. Proper(t, Resting) /\ Resting.op = "idle"
  BY DEF Proper, Resting, Tasks, Creations, Accesses
<1>2. UNCHANGED <<objects, issued, pins>>
  BY DEF heap, vars
<1>3. /\ DOMAIN payload' \subseteq DOMAIN payload
      /\ DOMAIN payload \cap LiveSet \subseteq DOMAIN payload'
      /\ \A o \in DOMAIN payload' : payload'[o] \subseteq payload[o]
      /\ DOMAIN payload' \subseteq LiveSet \/ ~Sweeping(task[t])
  BY SweepFacts
<1> QED BY <1>1, <1>2, <1>3, Quiet DEF Holding

LEMMA AllocationFailsStep ==
  ASSUME PublicInv, GcInv', RootedLive', collectEvery' = collectEvery,
         NEW t \in Thread, AllocationFails(t)
  PROVE  PublicInv'
<1>1. task[t].op \in {"begun", "collected"}
  BY DEF AllocationFails, ReadyToAllocate, In
<1> QED BY <1>1, RestStep DEF AllocationFails, Holding, Sweeping

LEMMA SweepPayloadsStep ==
  ASSUME PublicInv, GcInv', RootedLive', collectEvery' = collectEvery,
         NEW t \in Thread, SweepPayloads(t)
  PROVE  PublicInv'
<1>1. task[t].op = "sweep"
  BY DEF SweepPayloads, In
<1> QED BY <1>1, RestStep DEF SweepPayloads, Holding

LEMMA SweepIfCollectedStep ==
  ASSUME PublicInv, GcInv', RootedLive', collectEvery' = collectEvery,
         NEW t \in Thread, SweepIfCollected(t)
  PROVE  PublicInv'
<1> DEFINE next == Creating("swept", "container", task[t].handle)
<1>1. /\ task[t].op = "fresh" /\ Become(t, next)
      /\ UNCHANGED <<objects, issued, pins, leases, inserted>>
      /\ payload' = payload \/ payload' = Swept
  BY DEF SweepIfCollected, In, heap, vars
<1>2. task[t].handle \in Handle
  BY <1>1, FreshHandle DEF In, Handling, Creations
<1>3. next \in Tasks /\ next.op = "swept" /\ next.handle = task[t].handle
  BY <1>2 DEF Tasks, Creating, Creations, Kinds
<1> HIDE DEF next
<1>4. Proper(t, next)
  BY <1>1, <1>3 DEF Proper, Creations, Accesses, In
<1>5. /\ DOMAIN payload' \subseteq DOMAIN payload
      /\ DOMAIN payload \cap LiveSet \subseteq DOMAIN payload'
      /\ \A o \in DOMAIN payload' : payload'[o] \subseteq payload[o]
  BY <1>1, SweepFacts
<1> QED BY <1>1, <1>3, <1>4, <1>5, Quiet DEF Holding, Sweeping

LEMMA BeginStoreStep ==
  ASSUME PublicInv, GcInv', RootedLive', collectEvery' = collectEvery,
         NEW t \in Thread, NEW owner \in Handle, NEW value \in Handle,
         BeginStore(t, owner, value)
  PROVE  PublicInv'
<1> DEFINE next == Accessing("storing", owner, value)
<1>1. /\ task[t].op = "idle" /\ Become(t, next)
      /\ Leased(owner) /\ Leased(value) /\ owner \in inserted
      /\ UNCHANGED <<objects, issued, pins, leases, inserted, payload>>
  BY DEF BeginStore, In, heap, vars
<1>2. next \in Tasks /\ next.op = "storing" /\ next.owner = owner /\ next.handle = value
  BY DEF Tasks, Accessing, Accesses
<1>3. value \in issued
  BY <1>1, Backed DEF PublicInv, GcInv, TypeOK
<1> HIDE DEF next
<1>4. Proper(t, next)
  BY <1>1, <1>2, <1>3 DEF Proper, Creations, Accesses, Known
<1> QED BY <1>1, <1>2, <1>4, Quiet DEF Holding, Sweeping

LEMMA ReadStep ==
  ASSUME PublicInv, GcInv', RootedLive', collectEvery' = collectEvery,
         NEW t \in Thread, NEW owner \in Handle, NEW word \in Handle, NEW removed,
         Read(t, owner, word, removed)
  PROVE  PublicInv'
<1> DEFINE next == Accessing("read", owner, word)
<1>1. /\ task[t].op = "idle" /\ Become(t, next)
      /\ Leased(owner) /\ owner \in DOMAIN payload /\ word \in payload[owner]
      /\ payload' = [payload EXCEPT ![owner] = @ \ removed]
      /\ UNCHANGED <<objects, issued, pins, leases, inserted>>
  BY DEF Read, In, heap, vars
<1>2. next \in Tasks /\ next.op = "read" /\ next.owner = owner /\ next.handle = word
  BY DEF Tasks, Accessing, Accesses
<1>3. owner \in inserted /\ owner \in LiveSet /\ word \in objects[owner].refs
  BY <1>1, Backed DEF PublicInv, PublicTypes, Contents
<1>4. word \in issued
  BY <1>3 DEF PublicInv, GcInv, TypeOK
<1> HIDE DEF next
<1>5. Proper(t, next)
  BY <1>1, <1>2, <1>3, <1>4 DEF Proper, Creations, Accesses, Known
<1>6. DOMAIN payload' = DOMAIN payload /\ \A o \in DOMAIN payload' : payload'[o] \subseteq payload[o]
  BY <1>1
<1> QED BY <1>1, <1>2, <1>5, <1>6, Quiet DEF Holding, Sweeping

LEMMA CollectingTask ==
  ASSUME NEW op \in {"minor", "major", "marking", "finished", "sweep"}, NEW roots \in SUBSET Handle,
         NEW t
  PROVE  LET next == Collecting(op, roots)
         IN  next \in Tasks /\ Proper(t, next) /\ next.op = op /\ next.op \notin Holding
<1> DEFINE next == Collecting(op, roots)
<1>1. next \in Tasks /\ next.op = op
  BY DEF Collecting, Tasks
<1> HIDE DEF next
<1>2. Proper(t, next) /\ next.op \notin Holding
  BY <1>1 DEF Proper, Creations, Accesses, Holding
<1> QED BY <1>1, <1>2 DEF next

\* Collecting begins, or a cycle starts or is dropped: no object is touched.
LEMMA CycleStep ==
  ASSUME PublicInv, GcInv', RootedLive', collectEvery' = collectEvery,
         NEW t \in Thread,
         BeginCollect(t, "minor") \/ BeginCollect(t, "major") \/ BeginMarking(t) \/ LeaveCycle(t)
  PROVE  PublicInv'
<1>1. ASSUME NEW op \in {"minor", "major", "marking", "finished", "sweep"}, NEW roots \in SUBSET Handle,
             Become(t, Collecting(op, roots)), task[t].op \notin Holding,
             Sweeping(task[t]) => op = "sweep",
             UNCHANGED <<objects, issued, pins, payload, leases, inserted>>
      PROVE  PublicInv'
  <2> DEFINE next == Collecting(op, roots)
  <2>1. next \in Tasks /\ Proper(t, next) /\ next.op = op /\ next.op \notin Holding
    BY CollectingTask
  <2> HIDE DEF next
  <2>2. Become(t, next)
    BY <1>1 DEF next
  <2> QED BY <1>1, <2>1, <2>2, Quiet DEF Sweeping
<1>2. DOMAIN pins \in SUBSET Handle /\ {} \in SUBSET Handle
  BY DEF PublicInv, GcInv, TypeOK
<1>3. CASE BeginCollect(t, "minor") \/ BeginCollect(t, "major")
  BY <1>1, <1>2, <1>3 DEF BeginCollect, In, heap, vars, Holding, Sweeping
<1>4. CASE BeginMarking(t)
  BY <1>1, <1>2, <1>4 DEF BeginMarking, StartMajor, heapVars, In, Holding, Sweeping
<1>5. CASE LeaveCycle(t)
  BY <1>1, <1>2, <1>5 DEF LeaveCycle, DropMajor, heapVars, In, Holding, Sweeping
<1> QED BY <1>3, <1>4, <1>5

-----------------------------------------------------------------------------
(* Collections and allocations.                                            *)

LEMMA CollectedStep ==
  ASSUME PublicInv, GcInv', RootedLive', collectEvery' = collectEvery,
         NEW t \in Thread, NEW next, Become(t, next), Proper(t, next),
         task[t].op \notin Holding, next.op \notin Holding,
         LiveSet' \subseteq LiveSet, UNCHANGED <<issued, pins, payload, leases, inserted>>,
         \A h \in LiveSet' : objects'[h].refs = objects[h].refs,
         collectEvery \/ Sweeping(next)
  PROVE  PublicInv'
<1>1. HeapShrinks /\ next \in Tasks
  BY DEF HeapShrinks, GcInv, PinnedLive, Proper
<1>2. PayloadShrinks
  BY DEF PayloadShrinks
<1>3. LeasesGrow
  BY DEF LeasesGrow, PublicInv, PublicTypes
<1>4. PayloadsSwept'
  <2>1. task'[t] = next
    BY <1>1, BecomeFacts DEF PublicInv, PublicTypes
  <2> QED BY <2>1 DEF PayloadsSwept, In, Sweeping
<1>5. \A h \in Handle : PinCount(h)' = PinCount(h) /\ One(task[t], h) = 0 /\ One(next, h) = 0
  BY DEF PinCount, One, Held
<1>6. PinsExact'
  BY <1>1, <1>3, <1>5, PinsMove DEF LeasesGrow
<1> QED BY <1>1, <1>2, <1>3, <1>4, <1>6, Frame

LEMMA ImplicitCollectStep ==
  ASSUME PublicInv, GcInv', RootedLive', collectEvery' = collectEvery,
         NEW t \in Thread, ImplicitCollect(t)
  PROVE  PublicInv'
<1> DEFINE next == Creating("collected", task[t].kind, Nothing)
<1>1. /\ task[t].op = "begun" /\ Become(t, next) /\ collectEvery
      /\ MinorCollect({}) /\ UNCHANGED <<payload, leases, inserted>>
  BY DEF ImplicitCollect, MinorRun, In
<1>2. task[t] \in Tasks
  BY DEF PublicInv, PublicTypes
<1>3. task[t].kind \in Kinds
  BY <1>1, <1>2 DEF Tasks, Resting, Creations, Accesses
<1>4. next \in Tasks /\ next.op = "collected"
  BY <1>3 DEF Tasks, Creating
<1> HIDE DEF next
<1>5. Proper(t, next)
  BY <1>4 DEF Proper, Creations, Accesses
<1>6. /\ LiveSet' \subseteq LiveSet /\ UNCHANGED <<issued, pins>>
      /\ \A h \in LiveSet' : objects'[h].refs = objects[h].refs
  BY <1>1, MinorFacts DEF PublicInv
<1> QED BY <1>1, <1>4, <1>5, <1>6, CollectedStep DEF Holding

LEMMA CollectStep ==
  ASSUME PublicInv, GcInv', RootedLive', collectEvery' = collectEvery,
         NEW t \in Thread, CollectMinor(t) \/ EndMarking(t)
  PROVE  PublicInv'
<1>1. ASSUME NEW op \in {"finished", "sweep"}, Become(t, Collecting(op, {})),
             task[t].op \notin Holding, LiveSet' \subseteq LiveSet,
             UNCHANGED <<issued, pins, payload, leases, inserted>>,
             \A h \in LiveSet' : objects'[h].refs = objects[h].refs
      PROVE  PublicInv'
  <2> DEFINE next == Collecting(op, {})
  <2>1. next \in Tasks /\ Proper(t, next) /\ next.op = op /\ next.op \notin Holding
    BY CollectingTask
  <2> HIDE DEF next
  <2>2. Become(t, next)
    BY <1>1 DEF next
  <2> QED BY <1>1, <2>1, <2>2, CollectedStep DEF Sweeping
<1>2. CASE CollectMinor(t)
  <2>1. /\ task[t].op = "minor" /\ MinorCollect(task[t].roots)
        /\ Become(t, Collecting("sweep", {})) /\ UNCHANGED <<payload, leases, inserted>>
    BY <1>2 DEF CollectMinor, MinorRun, In
  <2>2. /\ LiveSet' \subseteq LiveSet /\ UNCHANGED <<issued, pins>>
        /\ \A h \in LiveSet' : objects'[h].refs = objects[h].refs
    BY <2>1, RootsOfTask, MinorFacts DEF PublicInv, In
  <2> QED BY <1>1, <2>1, <2>2 DEF Holding
<1>3. CASE EndMarking(t)
  <2>1. /\ task[t].op = "marking" /\ FinishMajor(t)
        /\ Become(t, Collecting("finished", {})) /\ UNCHANGED <<payload, leases, inserted>>
    BY <1>3 DEF EndMarking, In
  <2>2. /\ LiveSet' \subseteq LiveSet /\ UNCHANGED <<issued, pins>>
        /\ \A h \in LiveSet' : objects'[h].refs = objects[h].refs
    BY <2>1, FinishFacts DEF PublicInv, Thread
  <2> QED BY <1>1, <2>1, <2>2 DEF Holding
<1> QED BY <1>2, <1>3

\* The new handle is one that nobody leases, stores or holds.
LEMMA AllocateStep ==
  ASSUME PublicInv, GcInv', RootedLive', collectEvery' = collectEvery,
         NEW t \in Thread, NEW h \in Handle, AllocateFor(t, h)
  PROVE  PublicInv'
<1> DEFINE next == Creating("fresh", task[t].kind, h)
<1>1. /\ task[t].op \in {"begun", "collected"} /\ Become(t, next) /\ Allocate(h)
      /\ UNCHANGED <<payload, leases, inserted>>
  BY DEF AllocateFor, ReadyToAllocate, In
<1>2. task[t] \in Tasks
  BY DEF PublicInv, PublicTypes
<1>3. task[t].kind \in Kinds
  BY <1>1, <1>2 DEF Tasks, Resting, Creations, Accesses
<1>4. next \in Tasks /\ next.op = "fresh" /\ next.handle = h
  BY <1>3 DEF Tasks, Creating, Creations
<1> HIDE DEF next
<1>5. /\ task' \in [Thread -> Tasks] /\ task'[t] = next
      /\ \A u \in Thread \ {t} : task'[u] = task[u]
  BY <1>1, <1>4, BecomeFacts DEF PublicInv, PublicTypes
<1>6. /\ LiveSet' = LiveSet \cup {h} /\ h \notin LiveSet
      /\ \A k \in LiveSet : objects'[k] = objects[k]
      /\ objects'[h].refs = {}
      /\ h \notin issued /\ issued' = issued \cup {h} /\ pins' = pins
  BY <1>1, AllocateFacts DEF PublicInv, Allocate
<1>7. /\ leases[h] = 0 /\ h \notin inserted
      /\ \A u \in Thread \ {t} : In(u, Handling) => task[u].handle # h
      /\ \A o \in LiveSet : h \notin objects[o].refs
  <2>1. leases[h] \in Nat /\ ~Leased(h)
    BY <1>6, Backed DEF PublicInv, PublicTypes
  <2>2. leases[h] = 0
    BY <2>1 DEF Leased
  <2> QED BY <2>2, <1>6, FreshHandle DEF PublicInv, PublicTypes, GcInv, TypeOK
<1>8. PublicTypes'
  <2>1. ASSUME NEW u \in Thread
        PROVE  /\ In(u, Handling)' => task'[u].handle \in issued'
               /\ In(u, Accesses)' => task'[u].owner \in inserted'
    BY <1>1, <1>4, <1>5, <1>6 DEF PublicInv, PublicTypes, In, Accesses
  <2> QED BY <1>1, <1>5, <1>6, <2>1 DEF PublicInv, PublicTypes
<1>9. PinsExact'
  <2>1. \A k \in Handle : PinCount(k)' = PinCount(k) /\ One(task[t], k) = 0 /\ One(next, k) = 0
    BY <1>1, <1>4, <1>6 DEF PinCount, One, Held, Holding
  <2> QED BY <1>1, <1>4, <1>8, <2>1, PinsMove DEF PublicTypes
<1>10. Borrowed'
  <2>1. \A k \in Handle : Borrowers(k)' \subseteq Borrowers(k)
    BY <1>1, <1>4, <1>5 DEF Borrowers, In, Accesses
  <2> QED BY <1>1, <2>1 DEF PublicInv, Borrowed, Leased
<1>11. ASSUME NEW u \in Thread
       PROVE  Alone(u)'
  <2>1. CASE u = t
    BY <1>1, <1>4, <1>5, <1>6, <1>7, <2>1 DEF Alone, In
  <2>2. CASE u # t
    <3> SUFFICES ASSUME In(u, Creations) PROVE Alone(u)'
      BY <1>5, <2>2 DEF Alone, In
    <3> DEFINE k == task[u].handle
    <3>1. /\ leases[k] = 0 /\ k \notin inserted /\ k # h
          /\ \A v \in Thread \ {u} : In(v, Handling) => task[v].handle # k
          /\ \A o \in LiveSet : k \notin objects[o].refs
      BY <1>6, <2>2, FreshHandle DEF PublicInv, Alone, In, Handling
    <3>2. task'[u].handle = k
      BY <1>5, <2>2
    <3> HIDE DEF k
    <3>3. \A v \in Thread \ {u} : In(v, Handling)' => task'[v].handle # k
      BY <1>4, <1>5, <3>1 DEF In
    <3>4. \A o \in LiveSet' : k \notin objects'[o].refs
      BY <1>6, <3>1
    <3> QED BY <1>1, <3>1, <3>2, <3>3, <3>4 DEF Alone
  <2> QED BY <2>1, <2>2
<1>12. Contents'
  <2>1. \A o \in DOMAIN payload' \cap LiveSet' : payload'[o] \subseteq objects'[o].refs
    BY <1>1, <1>6, <1>7 DEF PublicInv, PublicTypes, Contents
  <2>2. /\ \A k \in LiveSet' \ inserted' : objects'[k].refs = {}
        /\ inserted' \cap LiveSet' \subseteq DOMAIN payload'
    BY <1>1, <1>6, <1>7 DEF PublicInv, Contents
  <2>3. ASSUME NEW u \in Thread, In(u, {"read"})'
        PROVE  task'[u].handle \in objects'[task'[u].owner].refs
    <3>1. u # t /\ In(u, {"read"}) /\ In(u, Accesses) /\ task'[u] = task[u]
      BY <1>4, <1>5, <2>3 DEF In, Accesses
    <3> QED BY <1>6, <3>1, OwnerBacked DEF PublicInv, Contents
  <2> QED BY <2>1, <2>2, <2>3 DEF Contents
<1>13. PayloadsSwept'
  BY <1>1, <1>5, <1>6 DEF PublicInv, PayloadsSwept, In
<1> QED BY <1>8, <1>9, <1>10, <1>11, <1>12, <1>13 DEF PublicInv

-----------------------------------------------------------------------------
(* The steps that pin and unpin.                                           *)

\* A pin or unpin for the thread's own hold or for a lease it gives out.
LEMMA PinningStep ==
  ASSUME PublicInv, GcInv', RootedLive', collectEvery' = collectEvery,
         NEW t \in Thread, NEW next, Become(t, next), Proper(t, next),
         ~Sweeping(task[t]), UNCHANGED <<objects, issued, payload, inserted>>,
         LeasesGrow,
         \A h \in Handle : PinCount(h)' + leases[h] + One(task[t], h)
                             = PinCount(h) + leases'[h] + One(next, h)
  PROVE  PublicInv'
<1>1. HeapShrinks /\ LiveSet' = LiveSet /\ next \in Tasks
  BY SameObjects DEF Proper
<1>2. PayloadShrinks
  BY <1>1 DEF PayloadShrinks
<1>3. PayloadsSwept'
  BY <1>1, SweptStays
<1>4. PinsExact'
  BY <1>1, PinsMove DEF LeasesGrow
<1> QED BY <1>1, <1>2, <1>3, <1>4, Frame

LEMMA SameLeases ==
  ASSUME PublicInv, leases' = leases
  PROVE  LeasesGrow
  BY DEF LeasesGrow, PublicInv, PublicTypes

\* A thread that takes a hold on what it handles pins it.
LEMMA HoldStep ==
  ASSUME PublicInv, GcInv', RootedLive', collectEvery' = collectEvery,
         NEW t \in Thread, NEW next, Become(t, next), Proper(t, next),
         ~Sweeping(task[t]), task[t].op \notin Holding, next.op \in Holding,
         next.handle \in Handle, PinHost(next.handle),
         UNCHANGED <<payload, leases, inserted>>
  PROVE  PublicInv'
<1>1. UNCHANGED <<objects, issued>>
  BY DEF PinHost, heapVars
<1>2. /\ PinCount(next.handle)' = PinCount(next.handle) + 1
      /\ \A k \in Handle \ {next.handle} : PinCount(k)' = PinCount(k)
  BY PinCountUp
<1>3. \A h \in Handle : /\ One(task[t], h) = 0
                        /\ One(next, h) = IF h = next.handle THEN 1 ELSE 0
  BY DEF One, Held
<1>4. \A h \in Handle : PinCount(h) \in Nat /\ leases[h] \in Nat
  BY BoundsAssumption DEF PublicInv, PublicTypes, GcInv, TypeOK, PinCount
<1>5. ASSUME NEW h \in Handle
      PROVE  PinCount(h)' + leases[h] + One(task[t], h)
               = PinCount(h) + leases'[h] + One(next, h)
  BY <1>2, <1>3, <1>4
<1> QED BY <1>1, <1>5, SameLeases, PinningStep

LEMMA PinFreshStep ==
  ASSUME PublicInv, GcInv', RootedLive', collectEvery' = collectEvery,
         NEW t \in Thread, PinFresh(t)
  PROVE  PublicInv'
<1> DEFINE h == task[t].handle
           next == Creating("pinned", task[t].kind, h)
<1>1. task[t].op \in {"fresh", "swept"} /\ UNCHANGED <<payload, leases, inserted>>
  BY DEF PinFresh, In
<1>2. h \in Handle /\ task[t] \in Tasks /\ In(t, Creations)
  BY <1>1, FreshHandle DEF In, Handling, Creations, PublicInv, PublicTypes
<1>3. CASE h \in LiveSet
  <2>1. PinHost(h) /\ Become(t, next)
    BY <1>3 DEF PinFresh
  <2>2. task[t].kind \in Kinds
    BY <1>1, <1>2 DEF Tasks, Resting, Creations, Accesses
  <2>3. next \in Tasks /\ next.op = "pinned" /\ next.handle = h
    BY <1>2, <2>2 DEF Tasks, Creating, Creations
  <2> HIDE DEF next
  <2>4. Proper(t, next)
    BY <1>2, <2>3 DEF Proper, Accesses
  <2> QED BY <1>1, <1>2, <2>1, <2>3, <2>4, HoldStep DEF Holding, Sweeping
<1>4. CASE h \notin LiveSet
  BY <1>1, <1>4, RestStep DEF PinFresh, Holding, Sweeping
<1> QED BY <1>3, <1>4

LEMMA RootValueStep ==
  ASSUME PublicInv, GcInv', RootedLive', collectEvery' = collectEvery,
         NEW t \in Thread, RootValue(t)
  PROVE  PublicInv'
<1> DEFINE h == task[t].handle
           next == Accessing("rooted", task[t].owner, h)
<1>1. task[t].op = "storing" /\ UNCHANGED <<payload, leases, inserted>>
  BY DEF RootValue, In
<1>2. h \in Handle /\ h \in issued /\ In(t, Accesses)
  BY <1>1, FreshHandle DEF In, Handling, Accesses
<1>3. CASE h \in LiveSet
  <2>1. PinHost(h) /\ Become(t, next)
    BY <1>3 DEF RootValue
  <2>2. /\ next \in Tasks /\ next.op = "rooted" /\ next.handle = h
        /\ next.owner = task[t].owner
    BY <1>2, OwnerBacked DEF Tasks, Accessing, Accesses
  <2> HIDE DEF next
  <2>3. Proper(t, next)
    BY <1>2, <2>2, OwnerBacked DEF Proper, Creations
  <2> QED BY <1>1, <1>2, <2>1, <2>2, <2>3, HoldStep DEF Holding, Sweeping
<1>4. CASE h \notin LiveSet
  BY <1>1, <1>4, RestStep DEF RootValue, Holding, Sweeping
<1> QED BY <1>3, <1>4

LEMMA RestingProper ==
  ASSUME NEW t
  PROVE  Proper(t, Resting) /\ \A h : One(Resting, h) = 0
  BY DEF Proper, Resting, Tasks, Creations, Accesses, One, Held, Holding

LEMMA FinishStoreStep ==
  ASSUME PublicInv, GcInv', RootedLive', collectEvery' = collectEvery,
         NEW t \in Thread, FinishStore(t)
  PROVE  PublicInv'
<1>1. /\ task[t].op = "stored" /\ Become(t, Resting) /\ UnpinHost(task[t].handle)
      /\ UNCHANGED <<payload, leases, inserted>>
  BY DEF FinishStore, RootDropped, In
<1>2. task[t].handle \in Handle
  BY <1>1, FreshHandle DEF In, Handling, Accesses
<1>3. PICK h \in Handle : h = task[t].handle
  BY <1>2
<1>4. UnpinHost(h) /\ UNCHANGED <<objects, issued>>
  BY <1>1, <1>3 DEF UnpinHost, Unpinned, heapVars
<1>5. /\ PinCount(h) = PinCount(h)' + 1
      /\ \A k \in Handle \ {h} : PinCount(k)' = PinCount(k)
  BY <1>4, PinCountDown DEF PublicInv
<1>6. \A k \in Handle : One(task[t], k) = IF k = h THEN 1 ELSE 0
  BY <1>1, <1>3 DEF One, Held, Holding
<1>7. \A k \in Handle : /\ PinCount(k) \in Nat /\ PinCount(k)' \in Nat
                        /\ leases[k] \in Nat /\ leases'[k] = leases[k]
                        /\ One(Resting, k) = 0
  <2>1. \A k \in Handle : PinCount(k) \in Nat /\ PinCount(k)' \in Nat
    BY BoundsAssumption DEF PublicInv, GcInv, TypeOK, PinCount
  <2>2. \A k \in Handle : leases[k] \in Nat /\ leases'[k] = leases[k]
    BY <1>1 DEF PublicInv, PublicTypes
  <2> QED BY <2>1, <2>2, RestingProper
<1>8. ASSUME NEW k \in Handle
      PROVE  PinCount(k)' + leases[k] + One(task[t], k)
               = PinCount(k) + leases'[k] + One(Resting, k)
  <2>1. CASE k = h
    BY <2>1, <1>5, <1>6, <1>7
  <2>2. CASE k # h
    BY <2>2, <1>5, <1>6, <1>7
  <2> QED BY <2>1, <2>2
<1> QED BY <1>1, <1>4, <1>8, SameLeases, RestingProper, PinningStep DEF Sweeping

LEMMA GrantFacts ==
  ASSUME PublicInv, NEW h \in Handle, Grant(h)
  PROVE  /\ leases' \in [Handle -> Nat] /\ leases'[h] = leases[h] + 1
         /\ \A k \in Handle \ {h} : leases'[k] = leases[k]
         /\ leases[h] \in Nat
  BY DEF Grant, PublicInv, PublicTypes

LEMMA RootReadStep ==
  ASSUME PublicInv, GcInv', RootedLive', collectEvery' = collectEvery,
         NEW t \in Thread, RootRead(t)
  PROVE  PublicInv'
<1>1. task[t].op = "read" /\ Become(t, Resting) /\ UNCHANGED <<payload, inserted>>
  BY DEF RootRead, In
<1>2. In(t, {"read"}) /\ In(t, Accesses) /\ In(t, Handling)
  BY <1>1 DEF In, Accesses, Handling
<1>3. PICK h \in Handle : h = task[t].handle /\ Known(h)
  BY <1>2, FreshHandle, OwnerBacked DEF PublicInv, Contents, Known
<1>4. \A k \in Handle : One(task[t], k) = 0 /\ One(Resting, k) = 0
  BY <1>1, RestingProper DEF One, Held, Holding
<1>5. \A k \in Handle : PinCount(k) \in Nat /\ leases[k] \in Nat
  BY BoundsAssumption DEF PublicInv, PublicTypes, GcInv, TypeOK, PinCount
<1>6. CASE h \in LiveSet
  <2>1. PinHost(h) /\ Grant(h) /\ UNCHANGED <<objects, issued>>
    BY <1>3, <1>6 DEF RootRead, PinHost, heapVars
  <2>2. /\ leases' \in [Handle -> Nat] /\ leases'[h] = leases[h] + 1
        /\ \A k \in Handle \ {h} : leases'[k] = leases[k]
    BY <2>1, GrantFacts
  <2>3. LeasesGrow
    BY <1>3, <1>5, <2>2 DEF LeasesGrow
  <2>4. /\ PinCount(h)' = PinCount(h) + 1
        /\ \A k \in Handle \ {h} : PinCount(k)' = PinCount(k)
    BY <2>1, PinCountUp
  <2>5. ASSUME NEW k \in Handle
        PROVE  PinCount(k)' + leases[k] + One(task[t], k)
                 = PinCount(k) + leases'[k] + One(Resting, k)
    <3>1. CASE k = h
      BY <3>1, <1>4, <1>5, <2>2, <2>4
    <3>2. CASE k # h
      BY <3>2, <1>4, <1>5, <2>2, <2>4
    <3> QED BY <3>1, <3>2
  <2> QED BY <1>1, <2>1, <2>3, <2>5, RestingProper, PinningStep DEF Sweeping
<1>7. CASE h \notin LiveSet
  BY <1>1, <1>3, <1>7, RestStep DEF RootRead, Holding, Sweeping
<1> QED BY <1>6, <1>7

-----------------------------------------------------------------------------
(* The ends of a creation, a store and a lease.                            *)

\* The lease replaces the creator's hold, and a container gets its payload.
LEMMA FinishCreateStep ==
  ASSUME PublicInv, GcInv', RootedLive', collectEvery' = collectEvery,
         NEW t \in Thread, FinishCreate(t)
  PROVE  PublicInv'
<1>1. /\ task[t].op = "pinned" /\ Become(t, Resting) /\ UNCHANGED <<objects, issued, pins>>
      /\ Grant(task[t].handle)
  BY DEF FinishCreate, In, heap, vars
<1>2. In(t, Creations) /\ In(t, Handling) /\ Held(task[t], task[t].handle)
  BY <1>1 DEF In, Handling, Creations, Held, Holding
<1>3. PICK h \in Handle : h = task[t].handle /\ h \in issued
  BY <1>2, FreshHandle
<1>4. /\ leases[h] = 0 /\ h \notin inserted
      /\ \A u \in Thread \ {t} : In(u, Handling) => task[u].handle # h
      /\ \A o \in LiveSet : h \notin objects[o].refs
  BY <1>2, <1>3 DEF PublicInv, Alone
<1>5. h \in LiveSet /\ objects[h].refs = {} /\ LiveSet' = LiveSet
  BY <1>1, <1>2, <1>3, <1>4, Backed DEF PublicInv, Contents, LiveSet
<1>6. /\ leases' \in [Handle -> Nat] /\ leases'[h] = 1
      /\ \A k \in Handle \ {h} : leases'[k] = leases[k]
  <2>1. Grant(h)
    BY <1>1, <1>3 DEF Grant
  <2> QED BY <2>1, <1>4, GrantFacts
<1>7. \/ UNCHANGED <<payload, inserted>>
      \/ /\ inserted' = inserted \cup {h} /\ DOMAIN payload' = DOMAIN payload \cup {h}
         /\ payload'[h] = {} /\ \A o \in DOMAIN payload \ {h} : payload'[o] = payload[o]
  BY <1>3 DEF FinishCreate
<1>8. /\ task' \in [Thread -> Tasks] /\ task'[t] = Resting
      /\ \A u \in Thread \ {t} : task'[u] = task[u]
  BY <1>1, RestingProper, BecomeFacts DEF PublicInv, PublicTypes, Proper
<1>9. Resting.op = "idle"
  BY DEF Resting
<1>10. PublicTypes'
  <2>1. ASSUME NEW u \in Thread
        PROVE  /\ In(u, Handling)' => task'[u].handle \in issued'
               /\ In(u, Accesses)' => task'[u].owner \in inserted'
    BY <1>1, <1>7, <1>8, <1>9 DEF PublicInv, PublicTypes, In, Handling, Accesses, Creations
  <2> QED BY <1>1, <1>3, <1>6, <1>7, <1>8, <2>1 DEF PublicInv, PublicTypes
<1>11. PinsExact'
  <2>1. \A k \in Handle : One(task[t], k) = IF k = h THEN 1 ELSE 0
    BY <1>1, <1>3 DEF One, Held, Holding
  <2>2. \A k \in Handle : /\ PinCount(k)' = PinCount(k) /\ PinCount(k) \in Nat
                          /\ leases[k] \in Nat /\ One(Resting, k) = 0
    <3>1. \A k \in Handle : PinCount(k)' = PinCount(k) /\ PinCount(k) \in Nat
      BY <1>1, BoundsAssumption DEF PublicInv, GcInv, TypeOK, PinCount
    <3>2. \A k \in Handle : leases[k] \in Nat
      BY DEF PublicInv, PublicTypes
    <3> QED BY <3>1, <3>2, RestingProper
  <2>3. ASSUME NEW k \in Handle
        PROVE  PinCount(k)' + leases[k] + One(task[t], k)
                 = PinCount(k) + leases'[k] + One(Resting, k)
    <3>1. CASE k = h
      BY <3>1, <1>4, <1>6, <2>1, <2>2
    <3>2. CASE k # h
      BY <3>2, <1>6, <2>1, <2>2
    <3> QED BY <3>1, <3>2
  <2>4. Resting \in Tasks
    BY RestingProper DEF Proper
  <2> QED BY <1>1, <1>6, <2>3, <2>4, PinsMove
<1>12. Borrowed'
  <2> SUFFICES ASSUME NEW k \in Handle, NEW u \in Borrowers(k)' PROVE leases'[k] > 0
    BY DEF Borrowed, Leased
  <2>1. CASE k = h
    BY <2>1, <1>6
  <2>2. CASE k # h
    <3>1. u \in Borrowers(k)
      BY <2>2, <1>7, <1>8, <1>9 DEF Borrowers, In, Accesses
    <3> QED BY <2>2, <3>1, <1>6 DEF PublicInv, Borrowed, Leased
  <2> QED BY <2>1, <2>2
<1>13. ASSUME NEW u \in Thread
       PROVE  Alone(u)'
  <2> SUFFICES ASSUME In(u, Creations)' PROVE Alone(u)'
    BY DEF Alone
  <2>1. u # t /\ In(u, Creations) /\ In(u, Handling) /\ task'[u] = task[u]
    BY <1>8, <1>9 DEF In, Creations, Handling
  <2> DEFINE k == task[u].handle
  <2>2. /\ leases[k] = 0 /\ k \notin inserted /\ k # h /\ k \in Handle
        /\ \A v \in Thread \ {u} : In(v, Handling) => task[v].handle # k
        /\ \A o \in LiveSet : k \notin objects[o].refs
    BY <1>4, <2>1, FreshHandle DEF PublicInv, Alone
  <2>3. task'[u].handle = k
    BY <2>1
  <2> HIDE DEF k
  <2>4. \A v \in Thread \ {u} : In(v, Handling)' => task'[v].handle # k
    BY <1>8, <1>9, <2>2 DEF In, Handling, Creations, Accesses
  <2>5. leases'[k] = 0 /\ k \notin inserted'
    BY <1>6, <1>7, <2>2
  <2> QED BY <1>1, <1>5, <2>2, <2>3, <2>4, <2>5 DEF Alone
<1>14. Contents'
  <2>1. \A o \in DOMAIN payload' \cap LiveSet' : payload'[o] \subseteq objects'[o].refs
    BY <1>1, <1>5, <1>7 DEF PublicInv, Contents
  <2>2. /\ \A k \in LiveSet' \ inserted' : objects'[k].refs = {}
        /\ inserted' \cap LiveSet' \subseteq DOMAIN payload'
    BY <1>1, <1>5, <1>7 DEF PublicInv, Contents
  <2>3. ASSUME NEW u \in Thread, In(u, {"read"})'
        PROVE  task'[u].handle \in objects'[task'[u].owner].refs
    BY <1>1, <1>8, <1>9, <2>3 DEF PublicInv, Contents, In
  <2> QED BY <2>1, <2>2, <2>3 DEF Contents
<1>15. PayloadsSwept'
  BY <1>1, <1>5, <1>7, <1>8 DEF PublicInv, PayloadsSwept, In
<1> QED BY <1>10, <1>11, <1>12, <1>13, <1>14, <1>15 DEF PublicInv

\* The word goes in with its edge.
LEMMA StoreStep ==
  ASSUME PublicInv, GcInv', RootedLive', collectEvery' = collectEvery,
         NEW t \in Thread, NEW replaced, Store(t, replaced)
  PROVE  PublicInv'
<1>1. /\ task[t].op = "rooted" /\ StoreReference(task[t].owner, task[t].handle)
      /\ Become(t, Accessing("stored", task[t].owner, task[t].handle))
      /\ payload' = [payload EXCEPT ![task[t].owner] = (@ \ replaced) \cup {task[t].handle}]
      /\ UNCHANGED <<leases, inserted>>
  BY DEF Store, Edge, In
<1>2. In(t, Accesses) /\ In(t, Handling)
  BY <1>1 DEF In, Handling, Accesses
<1>3. /\ task[t].handle \in Handle /\ task[t].handle \in issued
      /\ task[t].owner \in Handle /\ task[t].owner \in inserted /\ Leased(task[t].owner)
  BY <1>2, FreshHandle, OwnerBacked
<1>4. PICK h \in Handle, owner \in Handle : h = task[t].handle /\ owner = task[t].owner
  BY <1>3
<1> DEFINE next == Accessing("stored", owner, h)
<1>5. /\ next \in Tasks /\ next.op = "stored" /\ next.handle = h /\ next.owner = owner
      /\ Become(t, next)
  BY <1>1, <1>4 DEF Accessing, Tasks, Accesses, Become
<1> HIDE DEF next
<1>6. /\ task' \in [Thread -> Tasks] /\ task'[t] = next
      /\ \A u \in Thread \ {t} : task'[u] = task[u]
  BY <1>5, BecomeFacts DEF PublicInv, PublicTypes
<1>7. /\ LiveSet' = LiveSet
      /\ \A o \in LiveSet : o # owner => objects'[o] = objects[o]
      /\ owner \in LiveSet /\ objects'[owner].refs = objects[owner].refs \cup {h}
      /\ issued' = issued /\ pins' = pins
  <2>1. StoreReference(owner, h)
    BY <1>1, <1>4 DEF StoreReference, Young, Barred
  <2> QED BY <2>1, StoreInv DEF PublicInv, StoreReference
<1>8. /\ DOMAIN payload' = DOMAIN payload
      /\ \A o \in DOMAIN payload : o # owner => payload'[o] = payload[o]
      /\ owner \in DOMAIN payload => payload'[owner] \subseteq payload[owner] \cup {h}
  BY <1>1, <1>4
<1>9. PublicTypes'
  <2>1. ASSUME NEW u \in Thread
        PROVE  /\ In(u, Handling)' => task'[u].handle \in issued'
               /\ In(u, Accesses)' => task'[u].owner \in inserted'
    BY <1>1, <1>3, <1>4, <1>5, <1>6, <1>7 DEF PublicInv, PublicTypes, In
  <2> QED BY <1>1, <1>6, <1>7, <1>8, <2>1 DEF PublicInv, PublicTypes
<1>10. PinsExact'
  <2>1. \A k \in Handle : PinCount(k)' = PinCount(k) /\ One(task[t], k) = One(next, k)
    BY <1>1, <1>4, <1>5, <1>7 DEF PinCount, One, Held, Holding
  <2> QED BY <1>1, <1>5, <1>9, <2>1, PinsMove DEF PublicTypes
<1>11. Borrowed'
  <2> SUFFICES ASSUME NEW k \in Handle, NEW u \in Borrowers(k)' PROVE leases'[k] > 0
    BY DEF Borrowed, Leased
  <2>1. CASE u = t
    BY <2>1, <1>1, <1>3, <1>4, <1>5, <1>6 DEF Borrowers, In, Leased
  <2>2. CASE u # t
    <3>1. u \in Borrowers(k)
      BY <2>2, <1>1, <1>6 DEF Borrowers, In
    <3> QED BY <3>1, <1>1 DEF PublicInv, Borrowed, Leased
  <2> QED BY <2>1, <2>2
<1>12. ASSUME NEW u \in Thread
       PROVE  Alone(u)'
  <2> SUFFICES ASSUME In(u, Creations)' PROVE Alone(u)'
    BY DEF Alone
  <2>1. u # t /\ In(u, Creations) /\ task'[u] = task[u]
    BY <1>5, <1>6 DEF In, Creations
  <2> DEFINE k == task[u].handle
  <2>2. /\ leases[k] = 0 /\ k \notin inserted
        /\ \A v \in Thread \ {u} : In(v, Handling) => task[v].handle # k
        /\ \A o \in LiveSet : k \notin objects[o].refs
    BY <2>1 DEF PublicInv, Alone
  <2>3. task'[u].handle = k /\ k # h
    BY <1>2, <1>4, <2>1, <2>2
  <2> HIDE DEF k
  <2>4. \A v \in Thread \ {u} : In(v, Handling)' => task'[v].handle # k
    BY <1>5, <1>6, <2>2, <2>3 DEF In
  <2>5. \A o \in LiveSet' : k \notin objects'[o].refs
    BY <1>7, <2>2, <2>3
  <2> QED BY <1>1, <2>2, <2>3, <2>4, <2>5 DEF Alone
<1>13. Contents'
  <2>1. \A o \in DOMAIN payload' \cap LiveSet' : payload'[o] \subseteq objects'[o].refs
    BY <1>7, <1>8 DEF PublicInv, Contents
  <2>2. /\ \A k \in LiveSet' \ inserted' : objects'[k].refs = {}
        /\ inserted' \cap LiveSet' \subseteq DOMAIN payload'
    BY <1>1, <1>3, <1>4, <1>7, <1>8 DEF PublicInv, Contents
  <2>3. ASSUME NEW u \in Thread, In(u, {"read"})'
        PROVE  task'[u].handle \in objects'[task'[u].owner].refs
    <3>1. u # t /\ In(u, {"read"}) /\ In(u, Accesses) /\ task'[u] = task[u]
      BY <1>5, <1>6, <2>3 DEF In, Accesses
    <3> QED BY <1>7, <3>1, OwnerBacked DEF PublicInv, Contents
  <2> QED BY <2>1, <2>2, <2>3 DEF Contents
<1>14. PayloadsSwept'
  BY <1>1, <1>5, <1>7, <1>8, SweptStays DEF Sweeping
<1> QED BY <1>9, <1>10, <1>11, <1>12, <1>13, <1>14 DEF PublicInv

LEMMA DropLeaseStep ==
  ASSUME PublicInv, GcInv', RootedLive', collectEvery' = collectEvery,
         NEW h \in Handle, DropLease(h)
  PROVE  PublicInv'
<1>1. /\ UnpinHost(h) /\ UNCHANGED <<objects, issued, payload, task, inserted>>
      /\ leases' = [leases EXCEPT ![h] = @ - 1]
      /\ leases[h] > IF Borrowers(h) = {} THEN 0 ELSE 1
  BY DEF DropLease, Droppable, UnpinHost, heapVars
<1>2. \A k \in Handle : leases[k] \in Nat
  BY DEF PublicInv, PublicTypes
<1>3. /\ leases' \in [Handle -> Nat] /\ leases[h] = leases'[h] + 1
      /\ \A k \in Handle \ {h} : leases'[k] = leases[k]
      /\ Borrowers(h) # {} => leases'[h] > 0
  BY <1>1, <1>2 DEF PublicInv, PublicTypes
<1>4. LiveSet' = LiveSet
  BY <1>1 DEF LiveSet
<1>5. PublicTypes'
  BY <1>1, <1>3 DEF PublicInv, PublicTypes, In
<1>6. PinsExact'
  <2> SUFFICES ASSUME NEW k \in Handle
               PROVE  PinCount(k)' = leases'[k] + Cardinality(Holders(k)')
    BY DEF PinsExact
  <2>1. Holders(k)' = Holders(k) /\ Holders(k) \in SUBSET Thread
    BY <1>1 DEF Holders, In
  <2>2. Cardinality(Holders(k)) \in Nat
    BY <2>1, CountFacts
  <2>3. /\ PinCount(h) = PinCount(h)' + 1
        /\ \A j \in Handle \ {h} : PinCount(j)' = PinCount(j)
    BY <1>1, PinCountDown DEF PublicInv
  <2>4. PinCount(k) = leases[k] + Cardinality(Holders(k)) /\ PinCount(k)' \in Nat
    BY BoundsAssumption DEF PublicInv, PinsExact, GcInv, TypeOK, PinCount
  <2>5. leases[k] \in Nat /\ leases'[k] \in Nat
    BY <1>2, <1>3
  <2>6. CASE k = h
    BY <2>1, <2>2, <2>3, <2>4, <2>5, <2>6, <1>3
  <2>7. CASE k # h
    BY <2>1, <2>2, <2>3, <2>4, <2>7, <1>3
  <2> QED BY <2>6, <2>7
<1>7. Borrowed'
  <2>1. \A k \in Handle : Borrowers(k)' = Borrowers(k)
    BY <1>1 DEF Borrowers, In
  <2> QED BY <1>3, <2>1 DEF PublicInv, Borrowed, Leased
<1>8. ASSUME NEW u \in Thread
      PROVE  Alone(u)'
  <2> SUFFICES ASSUME In(u, Creations) PROVE Alone(u)'
    BY <1>1 DEF Alone, In
  <2>1. task[u].handle # h /\ task[u].handle \in Handle
    BY <1>1, FreshHandle DEF PublicInv, Alone, In, Handling
  <2> QED BY <1>1, <1>3, <1>4, <2>1 DEF PublicInv, Alone, In
<1>9. Contents' /\ PayloadsSwept'
  BY <1>1, <1>4 DEF PublicInv, Contents, PayloadsSwept, In
<1> QED BY <1>5, <1>6, <1>7, <1>8, <1>9 DEF PublicInv

-----------------------------------------------------------------------------
(* The theorems.                                                           *)

LEMMA PublicStart == PublicInit => PublicInv
<1> SUFFICES ASSUME PublicInit PROVE PublicInv
  OBVIOUS
<1>1. /\ GcInv /\ LiveSet = {} /\ DOMAIN pins = {} /\ issued = {}
      /\ payload = [h \in {} |-> {}] /\ leases = [h \in Handle |-> 0]
      /\ task = [t \in Thread |-> Resting] /\ inserted = {}
  BY GcInit DEF PublicInit, Init, LiveSet
<1>2. RootedLive
  <2>1. DOMAIN Refs = {}
    BY <1>1 DEF Refs
  <2>2. Reach(Refs, DOMAIN pins) \subseteq {}
    BY <1>1, <2>1, ReachLeast DEF Closed
  <2> QED BY <2>2 DEF RootedLive, Rooted
<1>3. \A t \in Thread : task[t] = Resting /\ task[t].op = "idle"
  BY <1>1 DEF Resting
<1>4. PublicTypes
  BY <1>1, <1>3 DEF PublicTypes, Tasks, In, Handling, Creations, Accesses
<1>5. PinsExact
  <2> SUFFICES ASSUME NEW h \in Handle PROVE PinCount(h) = leases[h] + Cardinality(Holders(h))
    BY DEF PinsExact
  <2>1. Holders(h) = {} /\ Holders(h) \in SUBSET Thread
    BY <1>3 DEF Holders, In
  <2>2. Cardinality(Holders(h)) = 0
    BY <2>1, CountFacts
  <2> QED BY <1>1, <2>2 DEF PinCount
<1>6. Borrowed /\ \A t \in Thread : Alone(t)
  BY <1>3 DEF Borrowed, Borrowers, Alone, In, Accesses, Creations
<1>7. Contents /\ PayloadsSwept
  BY <1>1, <1>3 DEF Contents, PayloadsSwept, In
<1> QED BY <1>1, <1>2, <1>4, <1>5, <1>6, <1>7 DEF PublicInv

LEMMA PublicStep ==
  ASSUME PublicInv, [PublicNext]_allVars
  PROVE  PublicInv'
<1>1. GcInv' /\ RootedLive'
  BY HeapSteps, RootedMoveFacts DEF PublicInv
<1>2. CASE PublicNext
  <2> USE <1>1
  <2>0. collectEvery' = collectEvery
    BY <1>2 DEF PublicNext
  <2>1. ASSUME NEW t \in Thread, NEW kind \in {"container", "scalar"}, BeginCreate(t, kind)
        PROVE  PublicInv'
    BY <2>0, <2>1, BeginCreateStep DEF Kinds
  <2>2. ASSUME NEW t \in Thread, ImplicitCollect(t) \/ CollectMinor(t) \/ EndMarking(t)
        PROVE  PublicInv'
    BY <2>0, <2>2, ImplicitCollectStep, CollectStep
  <2>3. ASSUME NEW t \in Thread, NEW h \in Handle, AllocateFor(t, h)
        PROVE  PublicInv'
    BY <2>0, <2>3, AllocateStep
  <2>4. ASSUME NEW t \in Thread, AllocationFails(t) \/ SweepIfCollected(t) \/ SweepPayloads(t)
        PROVE  PublicInv'
    BY <2>0, <2>4, AllocationFailsStep, SweepIfCollectedStep, SweepPayloadsStep
  <2>5. ASSUME NEW t \in Thread, PinFresh(t) \/ FinishCreate(t)
        PROVE  PublicInv'
    BY <2>0, <2>5, PinFreshStep, FinishCreateStep
  <2>6. ASSUME NEW t \in Thread, NEW owner \in Handle, NEW value \in Handle,
               BeginStore(t, owner, value)
        PROVE  PublicInv'
    BY <2>0, <2>6, BeginStoreStep
  <2>7. ASSUME NEW t \in Thread, RootValue(t) \/ FinishStore(t) \/ RootRead(t)
        PROVE  PublicInv'
    BY <2>0, <2>7, RootValueStep, FinishStoreStep, RootReadStep
  <2>8. ASSUME NEW t \in Thread, NEW replaced, Store(t, replaced)
        PROVE  PublicInv'
    BY <2>0, <2>8, StoreStep
  <2>9. ASSUME NEW t \in Thread, NEW owner \in Handle, NEW word \in Handle, NEW removed,
               Read(t, owner, word, removed)
        PROVE  PublicInv'
    BY <2>0, <2>9, ReadStep
  <2>10. ASSUME NEW t \in Thread,
                \/ BeginCollect(t, "minor") \/ BeginCollect(t, "major")
                \/ BeginMarking(t) \/ LeaveCycle(t)
         PROVE  PublicInv'
    BY <2>0, <2>10, CycleStep
  <2>11. ASSUME NEW h \in Handle, DropLease(h)
         PROVE  PublicInv'
    BY <2>0, <2>11, DropLeaseStep
  <2> QED BY <1>2, <2>1, <2>2, <2>3, <2>4, <2>5, <2>6, <2>7, <2>8, <2>9, <2>10, <2>11
         DEF PublicNext, Operation
<1>3. CASE UNCHANGED allVars
  BY <1>1, <1>3 DEF allVars, heap, vars, publicVars, PublicInv, PublicTypes, PinsExact, PinCount,
     Holders, Borrowed, Borrowers, Leased, Alone, Contents, PayloadsSwept, In, LiveSet
<1> QED BY <1>2, <1>3

\* The invariant of the public heap, under every interleaving of its operations.
THEOREM PublicInvariant == PublicSpec => []PublicInv
<1>1. PublicInv /\ [PublicNext]_allVars => PublicInv'
  BY PublicStep
<1> QED BY PublicStart, <1>1, PTL DEF PublicSpec

\* A lease keeps its object alive and its payload in the map, whatever is collected.
THEOREM LeasesHold == PublicSpec => []LeaseHolds
<1>1. PublicInv => LeaseHolds
  BY Backed DEF LeaseHolds
<1> QED BY <1>1, PublicInvariant, PTL

\* Every pin belongs to a lease or to an operation in progress, failed ones included.
THEOREM PinsBalance == PublicSpec => []PinsExact
<1>1. PublicInv => PinsExact
  BY DEF PublicInv
<1> QED BY <1>1, PublicInvariant, PTL

\* A word that was read can be rooted after the payload's lock is released.
THEOREM ReadsCanRoot == PublicSpec => []ReadsRoot
<1>1. ASSUME PublicInv, NEW t \in Thread, In(t, {"read"})
      PROVE  task[t].handle \in LiveSet
  <2>1. In(t, Accesses)
    BY <1>1 DEF In, Accesses
  <2> QED BY <1>1, <2>1, OwnerBacked, RootedFacts DEF PublicInv, Contents
<1>2. PublicInv => ReadsRoot
  BY <1>1 DEF ReadsRoot
<1> QED BY <1>2, PublicInvariant, PTL

\* A payload outlives its handle only while some thread is about to sweep it, or when
\* every allocation collects.
THEOREM PayloadsAreSwept == PublicSpec => []PayloadsSwept
<1>1. PublicInv => PayloadsSwept
  BY DEF PublicInv
<1> QED BY <1>1, PublicInvariant, PTL

\* The operations of the runtime use the heap as ManagedHeap allows.
THEOREM PublicKeepsPromise == PublicSpec => KeepsPromise
<1>1. PublicInit => Promise!Init
  BY DEF PublicInit, Init, Promise!Init, Refs, LiveSet
<1>2. PublicInv /\ [PublicNext]_allVars => [Promise!Next]_(Promise!vars)
  <2> SUFFICES ASSUME PublicInv, [PublicNext]_allVars PROVE [Promise!Next]_(Promise!vars)
    OBVIOUS
  <2>1. [Moves]_vars
    BY HeapSteps DEF RootedMoves, RootedPin, RootedStore, Moves
  <2> QED BY <2>1, MoveMaps DEF PublicInv
<1> QED BY <1>1, <1>2, PublicInvariant, PTL DEF PublicSpec, KeepsPromise, Promise!Spec
=============================================================================
