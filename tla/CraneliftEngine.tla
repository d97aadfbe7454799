--------------------------- MODULE CraneliftEngine ---------------------------
(* The first back end (native/cranelift.rs): which bodies it compiles and    *)
(* what the code it emits does. Every operator that "runs" an instruction    *)
(* does what the machine code for it does, checks that the compiler leaves   *)
(* out because a loop proves them included.                                  *)
EXTENDS NativeRun

CraneliftComputes == {"Constant", "Copy", "IntegerAdd", "IntegerSubtract", "IntegerMultiply", "IntegerFloorDivide",
  "IntegerToFloat", "IntegerLessThan", "IntegerCompare", "FloatAdd", "FloatSubtract", "FloatMultiply",
  "FloatCompare", "IntegerNegate", "FloatNegate", "BooleanNot", "BooleanAnd", "BooleanOr", "Select"}

TypesSupported(body) == \A s \in Sites(body) : s.ty # "BorrowedView"

HasRecipe(body, id) == \E r \in ToSet(body.deopts) : r.id = id

IsList(plan, handle) ==
  plan # NoPlan /\ StorageFor(plan, handle) # 0 /\ plan.storages[StorageFor(plan, handle)].kind = "List"
IsObject(plan, handle) ==
  plan # NoPlan /\ StorageFor(plan, handle) # 0 /\ plan.storages[StorageFor(plan, handle)].kind = "Object"
IsDynamic(plan, handle) == plan # NoPlan /\ handle \in plan.dynamic

\* The instructions there is code for.
Supports(body, plan, instr) ==
  CASE instr.op \in CraneliftComputes \cup {"ObjectGet", "ObjectSet", "ListGet", "ListSet", "ListAppend", "Call"} -> TRUE
    [] instr.op = "Guard" -> HasRecipe(body, instr.arg[2])
    [] instr.op = "OwnedList" ->
         /\ instr.out # 0 /\ plan # NoPlan /\ StorageFor(plan, instr.out) # 0
         /\ instr.arg[5] => plan.storages[StorageFor(plan, instr.out)].copy_from # 0
    [] instr.op = "ListReversePrefix" -> instr.arg[2] = "I64" /\ (IsList(plan, instr.in[1]) \/ IsDynamic(plan, instr.in[1]))
    [] instr.op \in {"ListLength", "ListClear", "ListInsert", "ListPop"} -> plan # NoPlan /\ StorageFor(plan, instr.in[1]) # 0
    [] OTHER -> FALSE

\* The outputs that get a word: a list that a helper appends to is not named by the output.
HasWord(plan, instr) ==
  /\ instr.out # 0 /\ instr.op \notin {"ObjectSet", "ListSet", "Guard", "ListReversePrefix"}
  /\ instr.op = "ListAppend" => IsList(plan, instr.in[1])

\* Blocks are lowered in the order of the body, and a value that is not there yet ends the compilation.
LowerInstruction(body, plan, acc, instr) ==
  IF acc.ok /\ ToSet(instr.in) \subseteq acc.known /\ Supports(body, plan, instr)
  THEN [acc EXCEPT !.known = IF HasWord(plan, instr) THEN @ \cup {instr.out} ELSE @]
  ELSE [acc EXCEPT !.ok = FALSE]

\* A jump back to a recording is an exit, and finds its recipe by its safepoint.
HasRecipeAt(body, point) == \E r \in ToSet(body.deopts) : r.point = point

LowerEnd(body, acc, term) ==
  [acc EXCEPT !.ok = @ /\ ToSet(TerminatorValues(term)) \subseteq acc.known
                       /\ (term.kind = "SideExit" => HasRecipe(body, term.id))
                       /\ (term.kind = "Backedge" => HasRecipeAt(body, term.point))
                       /\ term.kind # "IrreducibleBackedge"]

CraneliftAccepts(body, plan) ==
  /\ TypesSupported(body)
  /\ FoldLeft(LAMBDA acc, b : LowerEnd(body, FoldLeft(LAMBDA a, i : LowerInstruction(body, plan, a, i), acc, b.code), b.term),
              [ok |-> TRUE, known |-> {p.id : p \in UNION {ToSet(b.params) : b \in ToSet(body.blocks)}}],
              body.blocks).ok

-----------------------------------------------------------------------------
(* The reads a loop proves to be inside their list (canonical_direct_gets).  *)

\* A start the loop counts up from.
FromNonNegative(body, value) ==
  \E i \in Defining(body, PreheaderSource(body, value)) : i.op = "Constant" /\ i.arg[1] = "I64" /\ i.arg[2] >= 0

\* Of the two values of an index parameter one is a start, the other the step.
CountsUp(body, header, param, args) ==
  /\ Cardinality(args) = 2
  /\ \E a \in args : \E b \in args \ {a} : FromNonNegative(body, a[2]) /\ IsStep(body, header, param, b[2])

\* Both sides of a conjunction must be instructions.
RangeComparisons(body, header) ==
  LET condition == Defining(body, Through(body, header.term.cond))
  IN  IF \A i \in condition : (i.op = "BooleanAnd" /\ Len(i.in) = 2)
                                => \A v \in ToSet(i.in) : Defining(body, Through(body, v)) # {}
      THEN Comparisons(body, header) ELSE {}

\* The code of a block up to its first safepoint or change of a list.
Unchanged(block) ==
  LET stops == {k \in DOMAIN block.code : IsBarrier(block.code[k]) \/ block.code[k].op \in MutatingOps}
  IN  IF stops = {} THEN block.code ELSE SubSeq(block.code, 1, Min(stops) - 1)

GetsOf(body, plan, yes, index, extent) ==
  {i.out : i \in {j \in ToSet(Unchanged(BlockAt(body, yes))) :
     /\ j.op = "ListGet" /\ Len(j.in) = 2 /\ j.out # 0 /\ Through(body, j.in[2]) = index
     /\ StorageThrough(body, plan, j.in[1]) = extent}}

GetsUnder(body, plan, header, index, at, extent) ==
  IF /\ at # {} /\ extent # 0
     /\ CountsUp(body, header, index, Incoming(body, header.id, CHOOSE k \in at : TRUE))
  THEN GetsOf(body, plan, header.term.yes, index, extent) ELSE {}

HeaderGets(body, plan, header, comparison) ==
  LET index == Through(body, comparison.in[1])
  IN  GetsUnder(body, plan, header, index, PlacesOf(header, index), Extent(body, plan, header, comparison))

ProvenGets(body, plan) ==
  IF plan = NoPlan THEN {}
  ELSE UNION {UNION {HeaderGets(body, plan, h, c) : c \in RangeComparisons(body, h)} :
                h \in {b \in ToSet(body.blocks) : b.term.kind = "Branch"}}

-----------------------------------------------------------------------------
(* The code.                                                                 *)

\* The floor of a quotient from the machine's, which rounds towards zero.
MachineQuotient(a, d) == LET q == (IF a < 0 THEN -a ELSE a) \div (IF d < 0 THEN -d ELSE d)
                         IN  IF (a < 0) = (d < 0) THEN q ELSE -q
FloorQuotient(a, d) ==
  LET q == MachineQuotient(a, d)
  IN  IF q * d # a /\ ((a < 0) # (d < 0)) THEN q - 1 ELSE q

Flag(b) == IF b THEN 1 ELSE 0

CraneliftWord(op, arg, a, b, c) ==
  CASE op = "Constant" -> Word(arg)
    [] op = "Copy" -> a
    [] op = "IntegerAdd" -> Wrap(a + b)
    [] op = "IntegerSubtract" -> Wrap(a - b)
    [] op = "IntegerMultiply" -> Wrap(a * b)
    [] op = "IntegerFloorDivide" -> FloorQuotient(a, arg[2])
    [] op = "IntegerLessThan" -> Flag(a < b)
    [] op = "IntegerCompare" -> Flag(Compare(arg[2], a, b))
    [] op = "FloatCompare" -> Flag(Compare(arg[2], a, b))
    [] op = "FloatAdd" -> a + b
    [] op = "FloatSubtract" -> a - b
    [] op = "FloatMultiply" -> a * b
    [] op = "IntegerToFloat" -> a
    [] op = "IntegerNegate" -> Wrap(-a)
    [] op = "FloatNegate" -> -a
    [] op = "BooleanNot" -> 1 - a
    [] op = "BooleanAnd" -> a * b
    [] op = "BooleanOr" -> Max({a, b})
    [] op = "Select" -> IF a # 0 THEN b ELSE c

InOr(m, instr, n) == IF n \in DOMAIN instr.in THEN In(m, instr, n) ELSE 0

CraneliftCompute(m, instr) ==
  Give(m, instr, CraneliftWord(instr.op, instr.arg, InOr(m, instr, 1), InOr(m, instr, 2), InOr(m, instr, 3)))

\* The prologue compares every descriptor with its receipt before the first block runs.
PrevalidatedStorage(d, source, values) ==
  LET alias == IF source[1] = "Entry" THEN Word(values[source[2]]) ELSE OwnedAlias(source[2])
  IN  /\ d.alias = alias /\ d.identity = (IF source[1] = "Entry" THEN source[2] ELSE alias)
      /\ Len(d.items) <= d.capacity

Prevalidated(plan, m, values) ==
  m.store # <<>> /\ \A k \in DOMAIN plan.storages : PrevalidatedStorage(m.store[k], plan.storages[k].source, values)

DynamicPrevalidated(m) ==
  Len(m.store) <= MaxStorages /\ \A k \in DOMAIN m.store : Len(m.store[k].items) <= m.store[k].capacity

CraneliftPrologue(plan, m, values) ==
  IF plan = NoPlan \/ (Prevalidated(plan, m, values) /\ (plan.dynamic = {} \/ DynamicPrevalidated(m))) THEN m ELSE Fail(m)

\* The lent list in the slot of a handle; 0 when there is none, or another is in its slot.
ResolveDynamic(m, alias) ==
  LET found == {k \in DOMAIN m.store : DynamicSlot(m.store[k].alias) = alias % SlotCount /\ DynamicSlot(m.store[k].alias) # -1}
  IN  IF \E k \in found : m.store[k].alias = alias /\ m.store[k].identity = alias THEN CHOOSE k \in found : TRUE ELSE 0

View(plan, m, instr) ==
  IF StorageFor(plan, instr.in[1]) # 0 THEN StorageFor(plan, instr.in[1]) ELSE ResolveDynamic(m, In(m, instr, 1))

\* A read past the length gives whatever is there.
RunGet(m, instr, k, index, proven) ==
  IF k = 0 THEN Fail(m)
  ELSE IF index \in 0..(Len(m.store[k].items) - 1) THEN Give(m, instr, m.store[k].items[index + 1])
  ELSE IF proven THEN Give([m EXCEPT !.wild = TRUE], instr, 0) ELSE Fail(m)

RunSet(m, k, index, w) ==
  IF k = 0 \/ index \notin 0..(Len(m.store[k].items) - 1) THEN Fail(m)
  ELSE [m EXCEPT !.store[k].items[index + 1] = w]

\* As if the last item could not be reversed.
RunReverseShort(m, k, end) ==
  IF k = 0 \/ end \notin 1..(Len(m.store[k].items) - 1) THEN Fail(m)
  ELSE SetLength(m, k, Reverse(SubSeq(m.store[k].items, 1, end)) \o SubSeq(m.store[k].items, end + 1, Len(m.store[k].items)))

RunReverse(m, k, end) ==
  IF k = 0 \/ end \notin 1..Len(m.store[k].items) THEN Fail(m)
  ELSE SetLength(m, k, Reverse(SubSeq(m.store[k].items, 1, end)) \o SubSeq(m.store[k].items, end + 1, Len(m.store[k].items)))

RunAppend(m, k, w, proven) ==
  IF Len(m.store[k].items) >= m.store[k].capacity /\ ~proven THEN Fail(m)
  ELSE [SetLength(m, k, Append(m.store[k].items, w)) EXCEPT !.wild = @ \/ Len(m.store[k].items) >= m.store[k].capacity]

\* An index before the start is clamped to it, one past the end to the end.
RunInsert(m, k, index, w) ==
  IF Len(m.store[k].items) >= m.store[k].capacity THEN Fail(m)
  ELSE LET n == Len(m.store[k].items)
           at == IF index < 0 THEN Max({0, n + index}) ELSE Min({index, n})
       IN  SetLength(m, k, InsertAt(m.store[k].items, at + 1, w))

RunPop(m, instr, k, index) ==
  LET n == Len(m.store[k].items)
      at == IF index < 0 THEN n + index ELSE index
  IN  IF at \notin 0..(n - 1) THEN Fail(m)
      ELSE Give(SetLength(m, k, RemoveAt(m.store[k].items, at + 1)), instr, m.store[k].items[at + 1])

\* As if there were always room for what a loop appends.
RoomTaken(plan, m, k, id) == TRUE

\* The capacity that the appends of a loop need, checked where their list is emptied.
CapacityHolds(plan, m, k, id) ==
  \A extent \in CapacityExtentFor(plan, id) : m.store[k].capacity >= Len(m.store[extent].items)

RunClear(plan, m, instr, k) ==
  IF CapacityHolds(plan, m, k, instr.out) THEN Give(SetLength(m, k, <<>>), instr, In(m, instr, 1)) ELSE Fail(m)

RunCopy(m, instr, k, from, alias) ==
  IF Len(m.store[from].items) <= m.store[k].capacity
  THEN Give(SetLength(m, k, m.store[from].items), instr, alias) ELSE Fail(m)

RunOwned(plan, m, instr, k) ==
  LET alias == OwnedAlias(instr.arg[2])
  IN  IF instr.arg[5] THEN RunCopy(m, instr, k, plan.storages[k].copy_from, alias)
      ELSE IF ~instr.arg[4] THEN Give(m, instr, alias)
      ELSE IF CapacityHolds(plan, m, k, instr.out) THEN Give(SetLength(m, k, <<>>), instr, alias) ELSE Fail(m)

RunGuard(m, instr) == IF In(m, instr, 1) # 0 THEN m ELSE [m EXCEPT !.outcome = <<"SideExit", instr.arg[2]>>]

CraneliftGetRuns(plan, gets, m, instr) ==
  IF IsObject(plan, instr.in[1]) \/ (instr.op = "ListGet" /\ (IsList(plan, instr.in[1]) \/ IsDynamic(plan, instr.in[1])))
  THEN RunGet(m, instr, View(plan, m, instr), In(m, instr, 2), instr.out \in gets)
  ELSE CallHelper(m, instr, TRUE)

CraneliftWriteRuns(plan, m, instr, k) ==
  CASE instr.op = "ListSet" -> RunSet(m, k, In(m, instr, 2), In(m, instr, 3))
    [] instr.op = "ListReversePrefix" -> RunReverse(m, k, In(m, instr, 2))
    [] instr.op = "ListClear" -> RunClear(plan, m, instr, k)
    [] instr.op = "ListAppend" -> Give(RunAppend(m, k, In(m, instr, 2), AppendProven(plan, instr.out)), instr, In(m, instr, 1))
    [] instr.op = "ListInsert" -> Give(RunInsert(m, k, In(m, instr, 2), In(m, instr, 3)), instr, In(m, instr, 1))
    [] instr.op = "ListPop" -> RunPop(m, instr, k, In(m, instr, 2))

CraneliftHeapRuns(plan, gets, m, instr) ==
  CASE instr.op \in {"ObjectGet", "ListGet"} -> CraneliftGetRuns(plan, gets, m, instr)
    [] instr.op = "ListLength" -> Give(m, instr, Len(m.store[StorageFor(plan, instr.in[1])].items))
    [] instr.op = "OwnedList" -> RunOwned(plan, m, instr, StorageFor(plan, instr.out))
    [] instr.op = "ObjectSet" \/ (instr.op \in {"ListSet", "ListAppend"}
                                  /\ ~IsList(plan, instr.in[1]) /\ ~(instr.op = "ListSet" /\ IsDynamic(plan, instr.in[1]))) ->
         CallHelper(m, instr, FALSE)
    [] OTHER -> CraneliftWriteRuns(plan, m, instr, View(plan, m, instr))

CraneliftInstruction(plan, gets, m, instr) ==
  IF m.outcome # Running THEN m
  ELSE IF instr.op \in CraneliftComputes THEN CraneliftCompute(m, instr)
  ELSE IF instr.op = "Guard" THEN RunGuard(m, instr)
  ELSE IF instr.op = "Call" THEN CallHelper(m, instr, TRUE)
  ELSE CraneliftHeapRuns(plan, gets, m, instr)

\* The exit of a jump back bears the pc it jumps to, for which its safepoint stands here: it writes no value.
CraneliftEnd(body, types, m, term) ==
  IF m.outcome # Running THEN m
  ELSE CASE term.kind = "Jump" -> [m EXCEPT !.block = term.target, !.incoming = Lookup(term.args, m.env)]
         [] term.kind = "Branch" -> [m EXCEPT !.block = IF m.env[term.cond] # 0 THEN term.yes ELSE term.no, !.incoming = <<>>]
         [] term.kind = "Return" -> LeaveWith(m, body, types, "Return", term.values)
         [] term.kind = "SideExit" ->
              [LeaveWith(m, body, types, "SideExit", term.values) EXCEPT !.outcome = <<"SideExit", term.id>>]
         [] term.kind = "Backedge" -> [m EXCEPT !.outcome = <<"SideExit", term.point>>]

CraneliftBlock(body, plan, gets, types, m, block) ==
  CraneliftEnd(body, types,
    FoldLeft(LAMBDA r, i : CraneliftInstruction(plan, gets, r, i), EnterBlock(m, block), block.code), block.term)

=============================================================================
