----------------------------- MODULE PublicHeap -----------------------------
(***************************************************************************)
(* The runtime threads share: containers (objects, lists and callables)    *)
(* behind handles of the generational heap, their payloads in maps of      *)
(* their own, and host leases that pin what a caller holds.  Every         *)
(* operation takes several locks, one after the other; an action here is   *)
(* what happens under one of them.  One payload map stands for the three,  *)
(* and a payload is the set of the handles stored in it (immediate words   *)
(* and positions are abstracted, so a pop may leave a second copy behind). *)
(***************************************************************************)
EXTENDS GcHeap

CONSTANTS
  CollectSettings,         \* what collect_every_allocation may be set to
  MinorSettings,           \* bound: the settings under which callers run collect_minor
  MaxLeases                \* bound: leases held on one handle

ASSUME ConfigAssumption ==
  /\ CollectSettings \subseteq BOOLEAN /\ MinorSettings \subseteq BOOLEAN
  /\ MaxLeases \in Nat
  /\ IsFiniteSet(Cycle)

\* The threads.  Each has one major cycle at a time, which goes by its name.
Thread == Cycle

VARIABLES
  collectEvery,  \* collect_every_allocation of the runtime's GcConfig
  payload,    \* what each container holds
  leases,     \* how many HostLeases callers hold, by handle
  task,       \* the operation each thread is in
  collected,  \* did minor_collections change since the thread read it?
  inserted    \* history: the handles that were given a payload

heap == vars
publicVars == <<collectEvery, payload, leases, task, collected, inserted>>
allVars == <<heap, publicVars>>

-----------------------------------------------------------------------------
Resting == [op |-> "idle"]
Creating(op, kind, h) == [op |-> op, kind |-> kind, handle |-> h]
Accessing(op, owner, h) == [op |-> op, owner |-> owner, handle |-> h]
Collecting(op, roots) == [op |-> op, roots |-> roots]
Nothing == {}   \* no handle yet

In(t, ops) == task[t].op \in ops
Become(t, next) == task' = [task EXCEPT ![t] = next]

Accesses == {"storing", "rooted", "stored", "read"}

\* The operations that borrow a container: its lease cannot be dropped meanwhile.  A
\* boxed scalar is handed over with its lease already dropped.
Borrowers(h) ==
  {t \in Thread :
     \/ In(t, Accesses) /\ task[t].owner = h
     \/ In(t, {"storing"}) /\ task[t].handle = h /\ h \in inserted}

\* The pins an operation in progress holds on h.
Holders(h) == {t \in Thread : In(t, {"pinned", "rooted", "stored"}) /\ task[t].handle = h}

Leased(h) == leases[h] > 0
Grant(h) == leases[h] < MaxLeases /\ leases' = [leases EXCEPT ![h] = @ + 1]

\* As if the sweep kept what is pinned only.
SweptToPins == [h \in DOMAIN payload \cap DOMAIN pins |-> payload[h]]

\* As if the sweep were left out.
SweptNothing == payload

Swept == [h \in DOMAIN payload \cap LiveSet |-> payload[h]]

\* As if the word were stored without its heap edge.
WordOnly(owner, value) == UNCHANGED heap

Edge(owner, value) == StoreReference(owner, value)

\* As if the value's root were forgotten.
RootForgotten(h) == UNCHANGED heap

RootDropped(h) == UnpinHost(h)

\* All that borrow a container may do so through one lease.
Droppable(h) == leases[h] > IF Borrowers(h) = {} THEN 0 ELSE 1

PublicInit ==
  /\ collectEvery \in CollectSettings
  /\ Init
  /\ payload = [h \in {} |-> {}]
  /\ leases = [h \in Handle |-> 0]
  /\ task = [t \in Thread |-> Resting]
  /\ collected = [t \in Thread |-> FALSE]
  /\ inserted = {}

-----------------------------------------------------------------------------
\* allocate_object, allocate_list and register_binary_callable first read the number of
\* minor collections; scalar, for a value that has to be boxed, does not.
BeginCreate(t, kind) ==
  /\ In(t, {"idle"})
  /\ Become(t, Creating("begun", kind, Nothing))
  /\ collected' = [collected EXCEPT ![t] = FALSE]
  /\ UNCHANGED <<heap, payload, leases, inserted>>

MinorRun(roots) ==
  /\ MinorCollect(roots)
  /\ collected' = [t \in Thread |-> TRUE]

\* allocate_with_roots collects first when the flag is set, with the pins as only roots.
ImplicitCollect(t) ==
  /\ collectEvery
  /\ In(t, {"begun"})
  /\ MinorRun({})
  /\ Become(t, Creating("collected", task[t].kind, Nothing))
  /\ UNCHANGED <<payload, leases, inserted>>

ReadyToAllocate(t) == In(t, IF collectEvery THEN {"collected"} ELSE {"begun"})

AllocateFor(t, h) ==
  /\ ReadyToAllocate(t)
  /\ Allocate(h)
  /\ Become(t, Creating("fresh", task[t].kind, h))
  /\ UNCHANGED <<payload, leases, collected, inserted>>

\* The error returns at once: what the implicit collection freed keeps its payload.
AllocationFails(t) ==
  /\ ReadyToAllocate(t)
  /\ live >= AllocationLimit
  /\ Become(t, Resting)
  /\ UNCHANGED <<heap, payload, leases, collected, inserted>>

SweepIfCollected(t) ==
  /\ In(t, {"fresh"}) /\ task[t].kind = "container"
  /\ payload' = IF collected[t] THEN Swept ELSE payload
  /\ Become(t, Creating("swept", "container", task[t].handle))
  /\ UNCHANGED <<heap, leases, collected, inserted>>

\* Nothing roots the new object until here: a minor collection by another thread in
\* between frees it, and the operation fails with StaleHandle.
PinFresh(t) ==
  /\ In(t, {"swept"}) \/ (In(t, {"fresh"}) /\ task[t].kind = "scalar")
  /\ IF task[t].handle \in LiveSet
     THEN /\ PinHost(task[t].handle)
          /\ Become(t, Creating("pinned", task[t].kind, task[t].handle))
     ELSE Become(t, Resting) /\ UNCHANGED heap
  /\ UNCHANGED <<payload, leases, collected, inserted>>

\* The payload of a container goes into its map, and the lease to the caller.
FinishCreate(t) ==
  /\ In(t, {"pinned"})
  /\ IF task[t].kind = "container"
     THEN /\ payload' = [h \in DOMAIN payload \cup {task[t].handle} |->
                           IF h = task[t].handle THEN {} ELSE payload[h]]
          /\ inserted' = inserted \cup {task[t].handle}
     ELSE UNCHANGED <<payload, inserted>>
  /\ Grant(task[t].handle)
  /\ Become(t, Resting)
  /\ UNCHANGED <<heap, collected>>

-----------------------------------------------------------------------------
\* object_set, list_append, list_set and list_insert root the value first.
BeginStore(t, owner, value) ==
  /\ In(t, {"idle"})
  /\ Leased(owner) /\ Leased(value) /\ owner \in inserted
  /\ Become(t, Accessing("storing", owner, value))
  /\ UNCHANGED <<heap, payload, leases, collected, inserted>>

RootValue(t) ==
  /\ In(t, {"storing"})
  /\ IF task[t].handle \in LiveSet
     THEN /\ PinHost(task[t].handle)
          /\ Become(t, Accessing("rooted", task[t].owner, task[t].handle))
     ELSE Become(t, Resting) /\ UNCHANGED heap
  /\ UNCHANGED <<payload, leases, collected, inserted>>

\* Under the payload's lock: the heap edge first, then the word, over an old one or not.
Store(t, replaced) ==
  LET owner == task[t].owner IN
  /\ In(t, {"rooted"})
  /\ owner \in DOMAIN payload
  /\ replaced \subseteq payload[owner] /\ Cardinality(replaced) <= 1
  /\ Edge(owner, task[t].handle)
  /\ payload' = [payload EXCEPT ![owner] = (@ \ replaced) \cup {task[t].handle}]
  /\ Become(t, Accessing("stored", owner, task[t].handle))
  /\ UNCHANGED <<leases, collected, inserted>>

\* The value's root is dropped.
FinishStore(t) ==
  /\ In(t, {"stored"})
  /\ RootDropped(task[t].handle)
  /\ Become(t, Resting)
  /\ UNCHANGED <<payload, leases, collected, inserted>>

\* object_get, list_get and list_pop read a word under the payload's lock ...
Read(t, owner, word, removed) ==
  /\ In(t, {"idle"})
  /\ Leased(owner) /\ owner \in DOMAIN payload
  /\ word \in payload[owner] /\ removed \subseteq {word}
  /\ payload' = [payload EXCEPT ![owner] = @ \ removed]
  /\ Become(t, Accessing("read", owner, word))
  /\ UNCHANGED <<heap, leases, collected, inserted>>

\* ... and root it when the lock is released.
RootRead(t) ==
  /\ In(t, {"read"})
  /\ IF task[t].handle \in LiveSet
     THEN PinHost(task[t].handle) /\ Grant(task[t].handle)
     ELSE UNCHANGED <<heap, leases>>
  /\ Become(t, Resting)
  /\ UNCHANGED <<payload, collected, inserted>>

\* The last clone of a RootedValue goes.
DropLease(h) ==
  /\ Droppable(h)
  /\ leases' = [leases EXCEPT ![h] = @ - 1]
  /\ UnpinHost(h)
  /\ UNCHANGED <<payload, task, collected, inserted>>

-----------------------------------------------------------------------------
\* collect_minor and collect_major first copy the pins.
BeginCollect(t, op) ==
  /\ In(t, {"idle"})
  /\ Become(t, Collecting(op, DOMAIN pins))
  /\ UNCHANGED <<heap, payload, leases, collected, inserted>>

CollectMinor(t) ==
  /\ In(t, {"minor"})
  /\ MinorRun(task[t].roots)
  /\ Become(t, Collecting("sweep", {}))
  /\ UNCHANGED <<payload, leases, inserted>>

BeginMarking(t) ==
  /\ In(t, {"major"})
  /\ StartMajor(t, task[t].roots)
  /\ Become(t, Collecting("marking", {}))
  /\ UNCHANGED <<payload, leases, collected, inserted>>

EndMarking(t) ==
  /\ In(t, {"marking"})
  /\ FinishMajor(t)
  /\ Become(t, Collecting("finished", {}))
  /\ UNCHANGED <<payload, leases, collected, inserted>>

LeaveCycle(t) ==
  /\ In(t, {"finished"})
  /\ DropMajor(t)
  /\ Become(t, Collecting("sweep", {}))
  /\ UNCHANGED <<payload, leases, collected, inserted>>

SweepPayloads(t) ==
  /\ In(t, {"sweep"})
  /\ payload' = Swept
  /\ Become(t, Resting)
  /\ UNCHANGED <<heap, leases, collected, inserted>>

Operation ==
  \/ \E t \in Thread :
       \/ \E kind \in {"container", "scalar"} : BeginCreate(t, kind)
       \/ ImplicitCollect(t)
       \/ \E h \in Handle : AllocateFor(t, h)
       \/ AllocationFails(t) \/ SweepIfCollected(t) \/ PinFresh(t) \/ FinishCreate(t)
       \/ \E owner, value \in Handle : BeginStore(t, owner, value)
       \/ RootValue(t)
       \/ \E replaced \in SUBSET Handle : Store(t, replaced)
       \/ FinishStore(t)
       \/ \E owner, word \in Handle : \E removed \in SUBSET Handle :
            Read(t, owner, word, removed)
       \/ RootRead(t)
       \/ BeginCollect(t, "major")
       \/ collectEvery \in MinorSettings /\ BeginCollect(t, "minor")
       \/ CollectMinor(t) \/ BeginMarking(t) \/ EndMarking(t) \/ LeaveCycle(t)
       \/ SweepPayloads(t)
  \/ \E h \in Handle : DropLease(h)

PublicNext == Operation /\ UNCHANGED collectEvery

PublicSpec == PublicInit /\ [][PublicNext]_allVars

-----------------------------------------------------------------------------
\* A held lease keeps its object alive and, for a container, its payload in the map,
\* whatever collections and sweeps run.
LeaseHolds ==
  \A h \in Handle : Leased(h) => h \in LiveSet /\ (h \in inserted => h \in DOMAIN payload)

\* Every pin in the heap belongs to a lease or to an operation in progress: none leaks,
\* so that dropping the last lease permits reclamation, and none is given back twice.
PinsExact ==
  \A h \in Handle : PinCount(h) = leases[h] + Cardinality(Holders(h))

\* A word read from a container still names a live object when it is rooted, although
\* the container's lock was released in between and another thread may have popped it.
ReadsRoot == \A t \in Thread : In(t, {"read"}) => task[t].handle \in LiveSet

\* A payload never outlives its handle, unless some thread is on its way to sweep it.
\* This is not so when every allocation collects: boxing a scalar and an allocation
\* that fails at the limit run the collection and sweep no payload.
PayloadsSwept ==
  \/ collectEvery
  \/ DOMAIN payload \subseteq LiveSet
  \/ \E t \in Thread : In(t, {"finished", "sweep"})
=============================================================================
