----------------------------- MODULE NativeLists -----------------------------
(* One snapshot that works on lists, from its seal to the end of one call:   *)
(* the plan of the lists it may reach, its compilation by one of the back    *)
(* ends, the lists it is lent, its run block by block and what is read off   *)
(* its exit. Next to the machine runs the meaning of the snapshot.           *)
EXTENDS LlvmEngine

CONSTANTS
  Drafts,         \* the snapshots, each with the calls it gets
  BlockLimit      \* the blocks a call runs

ASSUME NativeListsAssumption == BlockLimit \in Nat \ {0}

VARIABLES
  draft,     \* the snapshot
  plan,      \* its plan, or NoPlan
  engine,    \* the back end that compiled it
  gets,      \* the reads whose check the first back end leaves out
  stage,     \* "Sealed", "Planned", "Compiled", "Running", "Left" or "Refused"
  call,      \* the call
  m,         \* the machine
  ref,       \* the meaning of the snapshot, run as far as the machine
  steps      \* the blocks run so far

vars == <<draft, plan, engine, gets, stage, call, m, ref, steps>>

-----------------------------------------------------------------------------
(* What the snapshot means.                                                  *)

\* A list the code owns is named by its identity; an append gives its list.
Extended(run, instr, done) ==
  IF instr.op = "OwnedList" /\ run.outcome = Running
  THEN LET name == OwnedAlias(instr.arg[2])
           old == IF name \in DOMAIN run.heap.lists THEN run.heap.lists[name] ELSE <<>>
           new == IF instr.arg[5] THEN run.heap.lists[run.env[instr.in[2]][2]] ELSE IF instr.arg[4] THEN <<>> ELSE old
       IN  [run EXCEPT !.heap.lists = Put(@, name, new), !.env = Put(@, instr.out, HandleTo(name))]
  ELSE IF instr.op = "ListAppend" /\ instr.out # 0 /\ done.outcome = Running
       THEN [done EXCEPT !.env = Put(@, instr.out, run.env[instr.in[1]]), !.missing = @ \ {instr.out}]
       ELSE done

MeaningOf(run, instr) == Extended(run, instr, StepInstruction(run, instr))

Meant(run, block) ==
  StepTerminator(FoldLeft(MeaningOf, [run EXCEPT !.env = [v \in DOMAIN @ \cup {p.id : p \in ToSet(block.params)} |->
    IF \E k \in DOMAIN block.params : block.params[k].id = v
    THEN run.incoming[CHOOSE k \in DOMAIN block.params : block.params[k].id = v] ELSE @[v]]], block.code), block.term)

-----------------------------------------------------------------------------
(* The call.                                                                 *)

\* The lists of the parameters in the plan's order: to be written back when the code writes them.
Snapshots(storages, values, lists) ==
  LET entries == SelectSeq(storages, LAMBDA s : s.source[1] = "Entry")
  IN  [k \in DOMAIN entries |->
         [kind |-> IF entries[k].mutates THEN "Transaction" ELSE "Read",
          items |-> Words(lists[Word(values[entries[k].source[2]])])]]

\* The lists a dynamic call may come upon: those it knows but the fixed ones.
Reachable(storages, values, lists) ==
  LET fixed == {Word(values[s.source[2]]) : s \in {t \in ToSet(storages) : t.source[1] = "Entry"}}
      others == SetToSortSeq(DOMAIN lists \ fixed, <)
  IN  [k \in DOMAIN others |-> [alias |-> others[k], items |-> Words(lists[others[k]]), mutates |-> TRUE]]

NoLender == [objects |-> <<>>, lists |-> <<>>]

\* The heap a runtime works on.
HeapOf(c) ==
  [objects |-> c.objects, lists |-> [h \in DOMAIN c.lists |-> Words(c.lists[h])]]

\* A loop is lent snapshots and has no runtime; any other call brings its runtime.
Lent(c) ==
  IF ~c.lent THEN Leased(plan, c.values, <<>>, <<>>, HeapOf(c))
  ELSE IF plan = NoPlan THEN Leased(plan, c.values, <<>>, <<>>, NoLender)
  ELSE Leased(plan, c.values, Snapshots(plan.storages, c.values, c.lists),
              IF HasDynamic(plan) THEN Reachable(plan.storages, c.values, c.lists) ELSE <<>>, NoLender)

Meaning(c) ==
  [Start(draft, c.values, [objects |-> [o \in DOMAIN c.objects |-> [f \in DOMAIN c.objects[o] |-> Integer(c.objects[o][f])]],
                           lists |-> c.lists]) EXCEPT !.block = draft.entry]

NoCall == [values |-> <<>>, lists |-> <<>>, objects |-> <<>>, lent |-> FALSE]
NoMachine == StartMachine([entry |-> 0], <<>>, <<>>, <<>>, FALSE)

Init ==
  /\ draft \in {d.body : d \in Drafts}
  /\ plan = NoPlan /\ engine = "None" /\ gets = {} /\ stage = "Sealed"
  /\ call = NoCall /\ m = NoMachine /\ ref = NoMachine /\ steps = 0

Calls == (CHOOSE d \in Drafts : d.body = draft).calls

\* The snapshot is verified, and its lists are planned, or it is refused.
Verify ==
  /\ stage = "Sealed"
  /\ stage' = IF Verified(draft) THEN "Planned" ELSE "Refused"
  /\ plan' = IF stage' = "Planned" THEN Plan(draft) ELSE NoPlan
  /\ UNCHANGED <<draft, engine, gets, call, m, ref, steps>>

CompileTier1 ==
  /\ stage = "Planned" /\ CraneliftAccepts(draft, plan)
  /\ engine' = "Cranelift" /\ gets' = ProvenGets(draft, plan) /\ stage' = "Compiled"
  /\ UNCHANGED <<draft, plan, call, m, ref, steps>>

CompileTier2 ==
  /\ stage = "Planned" /\ LlvmAccepts(draft, plan)
  /\ engine' = "Llvm" /\ stage' = "Compiled"
  /\ UNCHANGED <<draft, plan, gets, call, m, ref, steps>>

\* The lists are lent and the code is entered.
Enter ==
  /\ stage = "Compiled"
  /\ \E c \in Calls :
       /\ AcceptsInputs(draft, c.values)
       /\ LET lent == Lent(c)
              machine == StartMachine(draft, c.values, lent.store, HeapOf(c), ~c.lent)
          IN  /\ lent.ok
              /\ m' = IF engine = "Cranelift" THEN CraneliftPrologue(plan, machine, c.values) ELSE machine
       /\ call' = c /\ ref' = Meaning(c)
  /\ stage' = "Running" /\ steps' = 0
  /\ UNCHANGED <<draft, plan, engine, gets>>

\* One block.
RunBlock ==
  /\ stage = "Running" /\ m.outcome = Running /\ steps < BlockLimit
  /\ m' = IF engine = "Cranelift"
          THEN CraneliftBlock(draft, plan, gets, ValueTypes(draft), m, BlockAt(draft, m.block))
          ELSE LlvmBlock(draft, plan, ValueTypes(draft), m, BlockAt(draft, m.block))
  /\ ref' = IF ref.outcome = Running THEN Meant(ref, BlockAt(draft, ref.block)) ELSE ref
  /\ steps' = steps + 1
  /\ UNCHANGED <<draft, plan, engine, gets, stage, call>>

\* The exit is read: the outcome, and the lists to write back.
Leave ==
  /\ stage = "Running" /\ m.outcome # Running
  /\ m' = [m EXCEPT !.outcome = Outcome(m)] /\ stage' = "Left"
  /\ UNCHANGED <<draft, plan, engine, gets, call, ref, steps>>

Next == Verify \/ CompileTier1 \/ CompileTier2 \/ Enter \/ RunBlock \/ Leave

Spec == Init /\ [][Next]_vars

-----------------------------------------------------------------------------
(* Properties.                                                               *)

Entered == stage \in {"Running", "Left"}

\* The machine lost its way: it called a helper nobody serves.
Unserved == m.unserved

InMeaning(alias) == IF alias \in DOMAIN ref.heap.lists THEN Words(ref.heap.lists[alias]) ELSE <<>>

ListsAgree ==
  \A k \in DOMAIN m.store :
    (k > Len(plan.storages) \/ plan.storages[k].kind = "List") => m.store[k].items = InMeaning(m.store[k].alias)

\* Whatever the machine does not refuse is what the snapshot means: it is in the same block, the lists
\* it was lent have the same items, and it ends with the same values.
MachineAgrees ==
  (Entered /\ ~Unserved /\ ~m.failed /\ m.outcome \notin {Broken, Rejected} /\ ~m.wild)
    => /\ m.outcome = ref.outcome
       /\ m.outcome = Running => m.block = ref.block
       /\ plan # NoPlan => ListsAgree
       /\ ~call.lent => \A h \in DOMAIN call.lists : m.heap.lists[h] = InMeaning(h)

\* A body whose loop is bounded by the length of a list that the loop also shrinks.
ShrinksItsBound ==
  \E g \in gets : \E i \in Instructions(draft) :
    /\ i.op \in {"ListClear", "ListPop"}
    /\ \E r \in Defining(draft, g) : StorageThrough(draft, plan, r.in[1]) = StorageThrough(draft, plan, i.in[1])

\* A body that asks for the room of a loop's appends and after that lengthens the list they go to in
\* another way, or the list that bounds the loop.
FillsPastItsCheck ==
  plan # NoPlan /\ \E p \in plan.proofs : \E b \in ToSet(draft.blocks) : \E k \in DOMAIN b.code :
    /\ b.code[k].op \in {"ListAppend", "ListInsert"} /\ b.code[k].out # p.append
    /\ StorageThrough(draft, plan, b.code[k].in[1]) \in {p.extent, StorageFor(plan, p.guard)}
    /\ ~\E j \in DOMAIN b.code : k < j /\ b.code[j].out = p.guard

\* No code reaches past the end of a list or the room it has, though some of its checks were left out.
StaysInside == (Entered /\ ~ShrinksItsBound /\ ~FillsPastItsCheck) => ~m.wild

\* A list has no room left, or the room that a loop asks for ahead was not there.
Outgrew ==
  \/ \E k \in DOMAIN m.store : Len(InMeaning(m.store[k].alias)) >= m.store[k].capacity
  \/ plan # NoPlan /\ \E p \in plan.proofs :
       m.store[StorageFor(plan, p.guard)].capacity < Len(InMeaning(m.store[p.extent].alias))

\* A handle that was read out of a list names none of the lists that were lent to be looked up.
OutOfReach ==
  \E v \in plan.dynamic : v \in DOMAIN ref.env
    /\ ref.env[v][2] \notin {m.store[k].alias : k \in {j \in DOMAIN m.store : j > Len(plan.storages)}}

\* Machine code gives up only where the snapshot has no meaning, reads an item that is not there, a
\* list has outgrown the room it was lent, or a handle is out of reach.
RefusesForCause ==
  (Entered /\ (m.outcome = Broken \/ m.failed))
    => \/ ref.outcome = Invalid \/ ref.missing # {} \/ Outgrew
       \/ plan # NoPlan /\ OutOfReach

=============================================================================
