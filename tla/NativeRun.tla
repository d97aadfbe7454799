------------------------------ MODULE NativeRun ------------------------------
(* A call of compiled code (native/mod.rs, abi.rs, context.rs, helpers.rs):   *)
(* the lists it is lent for the call, the machine words it works on, the      *)
(* helpers it may call back, and how its exit is read. The machine word of a  *)
(* number is the number, of a boolean 0 or 1, of a handle its bits.           *)
EXTENDS DirectStorage, SnapshotReplay

CONSTANT SlotCount      \* the slots of the table of lent lists (NATIVE_HANDLE_CAPACITY)

ASSUME SlotCountAssumption == SlotCount \in Nat \ {0}

MaxStorages == 32

\* What a helper returns when it has no context or fails.
ErrorValue == -Half

Word(v) == IF v[1] = "Bool" THEN (IF v[2] THEN 1 ELSE 0) ELSE v[2]
FromWord(ty, w) == <<ty, IF ty = "Bool" THEN w # 0 ELSE w>>
Words(values) == [k \in DOMAIN values |-> Word(values[k])]

AcceptsInputs(body, values) ==
  LET params == EntryParams(body)
  IN  Len(values) = Len(params) /\ \A k \in DOMAIN params : values[k][1] = params[k].ty

\* The places for outputs are those of the first block that returns or leaves.
OutputCount(body) ==
  LET ends == SelectSeq(body.blocks, LAMBDA b : b.term.kind \in {"Return", "SideExit"})
  IN  IF ends = <<>> THEN 0 ELSE Len(ends[1].term.values)

-----------------------------------------------------------------------------
(* The lists lent for a call.                                                *)

\* A list as machine code sees it: whose it is, how it is named, its words and how many it may hold.
\* "kept" tells a transaction from a list that is only read or owned by the code.
Descriptor(identity, alias, items, capacity, kept) ==
  [identity |-> identity, alias |-> alias, items |-> items, capacity |-> capacity, kept |-> kept]

Refused == [ok |-> FALSE, store |-> <<>>]

OwnedAlias(identity) == -identity

\* The slot of a handle, -1 when it names none; its generation is what is left.
DynamicSlot(alias) == IF alias \div SlotCount > 0 THEN alias % SlotCount ELSE -1

ReserveFor(storage, values, snapshots) ==
  Max({storage.reserve_hint} \cup {1 + values[k][2] : k \in {j \in DOMAIN values : values[j][1] = "I64" /\ values[j][2] >= 0}}
        \cup {1} \cup {Len(snapshots[k].items) : k \in DOMAIN snapshots})

\* The object whose field the code returns is lent as a list of zeros that holds the field at its key.
ObjectLease(storage, alias, key, objects) ==
  IF alias \in DOMAIN objects /\ key \in DOMAIN objects[alias] /\ key >= 0
  THEN Descriptor(storage.source[2], alias, [k \in 1..(key + 1) |-> IF k = key + 1 THEN objects[alias][key] ELSE 0],
                  key + 1, FALSE)
  ELSE Refused

EntryLease(storage, alias, snapshot, reserve) ==
  IF snapshot.kind = "Read"
  THEN IF snapshot.items = <<>> THEN Refused
       ELSE Descriptor(storage.source[2], alias, snapshot.items, Len(snapshot.items), FALSE)
  ELSE Descriptor(storage.source[2], alias, snapshot.items, Len(snapshot.items) + reserve, TRUE)

\* Without snapshots the runtime lends the integers of a list as they are, to be read.
RuntimeLease(storage, alias, lists) ==
  IF alias \in DOMAIN lists /\ lists[alias] # <<>>
  THEN Descriptor(storage.source[2], alias, lists[alias], Len(lists[alias]), FALSE) ELSE Refused

\* One storage of the plan: entry lists take the snapshots in turn. "lender" is the heap of the
\* runtime, without objects and lists when the call brings none.
LeaseStorage(acc, storage, values, reserve, lender) ==
  LET entry == storage.source[1] = "Entry"
      alias == IF entry THEN values[storage.source[2]][2] ELSE OwnedAlias(storage.source[2])
      lease == IF storage.kind = "Object" THEN ObjectLease(storage, alias, values[storage.index_input][2], lender.objects)
               ELSE IF ~entry THEN Descriptor(alias, alias, <<>>, reserve, FALSE)
               ELSE IF acc.rest = <<>> THEN RuntimeLease(storage, alias, lender.lists)
               ELSE EntryLease(storage, alias, Head(acc.rest), reserve)
  IN  IF ~acc.ok \/ lease = Refused \/ \E d \in ToSet(acc.store) : d.alias = alias
      THEN [acc EXCEPT !.ok = FALSE]
      ELSE [acc EXCEPT !.store = Append(@, lease), !.rest = IF entry /\ @ # <<>> THEN Tail(@) ELSE @]

LeasePlanned(plan, values, snapshots, lender) ==
  FoldLeft(LAMBDA acc, s : LeaseStorage(acc, s, values, ReserveFor(s, values, snapshots), lender),
           [ok |-> TRUE, store |-> <<>>, rest |-> snapshots], plan.storages)

LeaseDynamic(store, dynamics) ==
  store \o [k \in DOMAIN dynamics |->
              Descriptor(dynamics[k].alias, dynamics[k].alias, dynamics[k].items, Len(dynamics[k].items),
                         dynamics[k].mutates)]

\* No two lent lists have one name or one slot; a list that is only read is not empty.
Distinct(store, dynamics) ==
  /\ Len(store) <= MaxStorages
  /\ \A k \in DOMAIN dynamics : /\ DynamicSlot(dynamics[k].alias) # -1
                                /\ dynamics[k].items = <<>> => dynamics[k].mutates
  /\ \A j, k \in DOMAIN store : j # k => /\ store[j].alias # store[k].alias
                                         /\ DynamicSlot(store[j].alias) # -1
                                              => DynamicSlot(store[j].alias) # DynamicSlot(store[k].alias)

WithDynamic(planned, store, dynamics) ==
  IF planned.ok /\ planned.rest = <<>> /\ Distinct(store, dynamics) THEN [ok |-> TRUE, store |-> store] ELSE Refused

LeaseAll(planned, dynamics) == WithDynamic(planned, LeaseDynamic(planned.store, dynamics), dynamics)

Leased(plan, values, snapshots, dynamics, lender) ==
  IF plan = NoPlan THEN (IF snapshots = <<>> THEN LeaseAll([ok |-> TRUE, store |-> <<>>, rest |-> <<>>], dynamics) ELSE Refused)
  ELSE LeaseAll(LeasePlanned(plan, values, snapshots, lender), dynamics)

-----------------------------------------------------------------------------
(* The machine.                                                              *)

Broken == <<"Broken">>

\* "heap" is what helpers work on, there is none when the call brings no runtime. "wild" says that the
\* code reached past the length of a list or the places for outputs, "unserved" that it called a helper
\* without a context.
StartMachine(body, values, store, heap, served) ==
  [block |-> body.entry, incoming |-> Words(values), env |-> <<>>, store |-> store, heap |-> heap,
   served |-> served, failed |-> FALSE, unserved |-> FALSE, wild |-> FALSE, outcome |-> Running]

Fail(m) == [m EXCEPT !.outcome = Broken]
Give(m, instr, w) == IF instr.out = 0 THEN m ELSE [m EXCEPT !.env = Put(@, instr.out, w)]
In(m, instr, n) == m.env[instr.in[n]]

\* NativeRuntime: the result of a helper, with the heap after it.
Served(heap, value) == [ok |-> TRUE, heap |-> heap, value |-> value]
NotServed(heap) == [ok |-> FALSE, heap |-> heap, value |-> ErrorValue]

HelperObjectGet(heap, object, key) ==
  IF object \in DOMAIN heap.objects /\ key \in DOMAIN heap.objects[object]
  THEN Served(heap, heap.objects[object][key]) ELSE NotServed(heap)

HelperObjectSet(heap, object, key, w) ==
  IF object \in DOMAIN heap.objects THEN Served([heap EXCEPT !.objects[object] = Put(@, key, w)], 0) ELSE NotServed(heap)

HelperListGet(heap, list, index) ==
  IF list \in DOMAIN heap.lists /\ index + 1 \in DOMAIN heap.lists[list]
  THEN Served(heap, heap.lists[list][index + 1]) ELSE NotServed(heap)

HelperListSet(heap, list, index, w) ==
  IF list \in DOMAIN heap.lists /\ index + 1 \in DOMAIN heap.lists[list]
  THEN Served([heap EXCEPT !.lists[list][index + 1] = w], 0) ELSE NotServed(heap)

HelperListAppend(heap, list, w) ==
  IF list \in DOMAIN heap.lists THEN Served([heap EXCEPT !.lists[list] = Append(@, w)], 0) ELSE NotServed(heap)

Helper(heap, op, in) ==
  CASE op = "ObjectGet" -> HelperObjectGet(heap, in[1], in[2])
    [] op = "ObjectSet" -> HelperObjectSet(heap, in[1], in[2], in[3])
    [] op = "ListGet" -> HelperListGet(heap, in[1], in[2])
    [] op = "ListSet" -> HelperListSet(heap, in[1], in[2], in[3])
    [] op = "ListAppend" -> HelperListAppend(heap, in[1], in[2])
    [] op = "Call" -> Served(heap, Wrap(in[1] + in[2]))

\* HelperContext::invoke: a failure is noted and the code goes on with the error value.
Invoked(m, instr, gives, result) ==
  LET after == [m EXCEPT !.heap = result.heap, !.failed = @ \/ ~result.ok]
  IN  IF gives THEN Give(after, instr, result.value) ELSE after

CallHelper(m, instr, gives) ==
  IF m.served THEN Invoked(m, instr, gives, Helper(m.heap, instr.op, [n \in DOMAIN instr.in |-> In(m, instr, n)]))
  ELSE [Invoked(m, instr, gives, NotServed(m.heap)) EXCEPT !.failed = FALSE, !.unserved = TRUE]

SetLength(m, k, items) == [m EXCEPT !.store[k].items = items]

\* The values left at an exit; those past the places for outputs have none.
LeaveWith(m, body, types, kind, values) ==
  [m EXCEPT !.outcome = <<kind, [k \in DOMAIN values |-> FromWord(types[values[k]], m.env[values[k]])]>>,
            !.wild = @ \/ Len(values) > OutputCount(body)]

EnterBlock(m, block) ==
  [m EXCEPT !.env = [v \in DOMAIN @ \cup {p.id : p \in ToSet(block.params)} |->
     IF \E k \in DOMAIN block.params : block.params[k].id = v
     THEN m.incoming[CHOOSE k \in DOMAIN block.params : block.params[k].id = v] ELSE @[v]]]

-----------------------------------------------------------------------------
(* What the caller makes of the exit.                                        *)

Rejected == <<"Rejected">>

\* The lists as they are given back: those of the parameters and of the dynamic lists that were written.
Transactions(m) ==
  LET kept == SelectSeq([k \in DOMAIN m.store |-> m.store[k]], LAMBDA d : d.kept)
  IN  [k \in DOMAIN kept |-> <<kept[k].alias, kept[k].items>>]

WithinCapacity(m) == \A d \in ToSet(m.store) : Len(d.items) <= d.capacity

Outcome(m) == IF ~WithinCapacity(m) \/ m.failed \/ m.outcome = Broken THEN Rejected ELSE m.outcome

=============================================================================
