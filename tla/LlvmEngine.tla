----------------------------- MODULE LlvmEngine -----------------------------
(* The second back end (native/llvm.rs, llvm/scalar): a body that has floats *)
(* is compiled as scalars, one of a single block with direct access to its   *)
(* lists, any other with a helper for every access but a reversal. Unlike    *)
(* the first back end it checks a list at every access, and a comparison     *)
(* gives a value one bit wide that nothing widens: the verifier of the LLVM  *)
(* module, which is external, refuses an operation on values of two widths.  *)
EXTENDS CraneliftEngine

HasFloats(body) == \E s \in Sites(body) : s.ty = "F64"

SingleBlock(body) == Len(body.blocks) = 1 /\ body.blocks[1].term.kind \in {"Return", "SideExit"}

\* Which of the three ways a body is compiled.
Lowering(body) == IF HasFloats(body) THEN "Scalar" ELSE IF SingleBlock(body) THEN "Single" ELSE "Graph"

IntegerComputes == {"Constant", "Copy", "IntegerAdd", "IntegerSubtract", "IntegerMultiply", "IntegerLessThan",
  "IntegerCompare", "IntegerNegate", "BooleanNot", "BooleanAnd", "BooleanOr"}

ReversesIntegers(plan, instr) ==
  instr.arg[2] = "I64" /\ (IsList(plan, instr.in[1]) \/ IsDynamic(plan, instr.in[1]))

\* The instructions of a single block there is code for.
SingleSupports(body, plan, instr) ==
  CASE instr.op \in IntegerComputes \cup {"Select", "ObjectGet", "ObjectSet", "ListGet", "ListSet", "ListAppend", "Call"} -> TRUE
    [] instr.op = "Guard" -> HasRecipe(body, instr.arg[2])
    [] instr.op = "OwnedList" -> Supports(body, plan, instr)
    [] instr.op \in {"ListLength", "ListClear"} -> plan # NoPlan /\ StorageFor(plan, instr.in[1]) # 0
    [] instr.op = "ListReversePrefix" -> ReversesIntegers(plan, instr)
    [] OTHER -> FALSE

\* Those of a body of several blocks.
GraphSupports(body, plan, instr) ==
  CASE instr.op \in IntegerComputes \cup {"ObjectGet", "ObjectSet", "ListGet", "ListSet", "ListAppend", "Call"} -> TRUE
    [] instr.op = "Guard" -> HasRecipe(body, instr.arg[2])
    [] instr.op = "ListReversePrefix" -> ReversesIntegers(plan, instr)
    [] OTHER -> FALSE

\* Those of a body with floats.
ScalarSupports(body, instr) == instr.op \in CraneliftComputes \/ (instr.op = "Guard" /\ HasRecipe(body, instr.arg[2]))

LlvmSupports(body, plan, way, instr) ==
  CASE way = "Scalar" -> ScalarSupports(body, instr)
    [] way = "Single" -> SingleSupports(body, plan, instr)
    [] way = "Graph" -> GraphSupports(body, plan, instr)

\* In a body of several blocks an append to a list never has a word.
LlvmHasWord(plan, way, instr) == HasWord(plan, instr) /\ ~(way = "Graph" /\ instr.op = "ListAppend")

\* The width of a value. A body with floats keeps its booleans one bit wide throughout.
WideConstant == 64

ConstantWidth(way, constant) == IF way = "Scalar" /\ constant[1] = "Bool" THEN 1 ELSE WideConstant

WidthOf(way, acc, instr) ==
  CASE instr.op \in {"IntegerLessThan", "IntegerCompare", "FloatCompare"} -> 1
    [] instr.op = "Constant" -> ConstantWidth(way, instr.arg)
    [] instr.op = "Copy" \/ instr.op \in {"BooleanNot", "BooleanAnd", "BooleanOr"} -> acc.width[instr.in[1]]
    [] instr.op = "Select" -> acc.width[instr.in[2]]
    [] OTHER -> 64

\* The inputs of an operation have the widths it is built for.
SameWidths(way, acc, instr) ==
  LET Wide(set) == \A v \in set : acc.width[v] = 64
  IN  CASE instr.op \in {"Constant", "Copy"} -> TRUE
        [] instr.op \in {"BooleanAnd", "BooleanOr"} -> acc.width[instr.in[1]] = acc.width[instr.in[2]]
        [] instr.op = "BooleanNot" -> acc.width[instr.in[1]] = ConstantWidth(way, Boolean(TRUE))
        [] instr.op = "Select" -> acc.width[instr.in[1]] = ConstantWidth(way, Boolean(TRUE))
                                  /\ acc.width[instr.in[2]] = acc.width[instr.in[3]]
        [] instr.op = "Guard" -> Wide({instr.in[1]})
        [] OTHER -> Wide(ToSet(instr.in))

LlvmLowered(body, plan, way, acc, instr) ==
  IF /\ acc.ok /\ ToSet(instr.in) \subseteq DOMAIN acc.width /\ LlvmSupports(body, plan, way, instr)
     /\ SameWidths(way, acc, instr)
  THEN [acc EXCEPT !.width = IF LlvmHasWord(plan, way, instr) THEN Put(@, instr.out, WidthOf(way, acc, instr)) ELSE @]
  ELSE [acc EXCEPT !.ok = FALSE]

\* Every value of a jump has the width of the parameter, and nothing jumps to the entry with a value.
GraphEnd(body, acc, term) ==
  CASE term.kind = "Jump" -> (\A v \in ToSet(term.args) : acc.width[v] = 64) /\ (term.args = <<>> \/ term.target # body.entry)
    [] term.kind = "Branch" -> acc.width[term.cond] = 64
    [] term.kind = "SideExit" -> HasRecipe(body, term.id)
    [] term.kind = "Backedge" -> HasRecipeAt(body, term.point)
    [] term.kind = "IrreducibleBackedge" -> FALSE
    [] OTHER -> TRUE

ScalarEnd(term) ==
  CASE term.kind = "Jump" -> term.args = <<>>
    [] term.kind \in {"Backedge", "IrreducibleBackedge"} -> FALSE
    [] OTHER -> TRUE

LlvmEnd(body, way, acc, term) ==
  LET read == IF way = "Scalar" /\ term.kind = "SideExit" THEN {} ELSE ToSet(TerminatorValues(term))
  IN  [acc EXCEPT !.ok = @ /\ read \subseteq DOMAIN acc.width
                           /\ IF way = "Scalar" THEN ScalarEnd(term) ELSE GraphEnd(body, acc, term)]

EntryWidth(way, ty) == IF way = "Scalar" /\ ty = "Bool" THEN 1 ELSE 64

\* The values there are before the first instruction: the parameters of all blocks.
StartWidths(body, way) ==
  LET params == UNION {ToSet(b.params) : b \in ToSet(body.blocks)}
  IN  [ok |-> way = "Scalar" => \A b \in ToSet(body.blocks) : b.id = body.entry \/ b.params = <<>>,
       width |-> [v \in {p.id : p \in params} |-> EntryWidth(way, (CHOOSE p \in params : p.id = v).ty)]]

LlvmBlockLowered(body, plan, way, acc, b) ==
  LlvmEnd(body, way, FoldLeft(LAMBDA a, i : LlvmLowered(body, plan, way, a, i), acc, b.code), b.term)

LlvmAccepts(body, plan) ==
  /\ TypesSupported(body)
  /\ FoldLeft(LAMBDA acc, b : LlvmBlockLowered(body, plan, Lowering(body), acc, b), StartWidths(body, Lowering(body)),
              body.blocks).ok

-----------------------------------------------------------------------------
(* The code.                                                                 *)

\* A descriptor is looked at each time: it must be the list the handle names.
IsNamed(m, k, alias) == k \in DOMAIN m.store /\ m.store[k].alias = alias

LlvmLength(m, instr, k) ==
  IF IsNamed(m, k, In(m, instr, 1)) THEN Give(m, instr, Len(m.store[k].items)) ELSE Fail(m)

LlvmGet(m, instr, k) ==
  LET index == In(m, instr, 2)
  IN  IF IsNamed(m, k, In(m, instr, 1)) /\ index \in 0..(Len(m.store[k].items) - 1)
      THEN Give(m, instr, m.store[k].items[index + 1]) ELSE Fail(m)

LlvmAppend(m, instr, k) ==
  IF IsNamed(m, k, In(m, instr, 1)) /\ Len(m.store[k].items) < m.store[k].capacity
  THEN Give(SetLength(m, k, Append(m.store[k].items, In(m, instr, 2))), instr, In(m, instr, 1)) ELSE Fail(m)

\* A list is emptied without a look at whose it is.
LlvmClear(m, k) == SetLength(m, k, <<>>)

\* The length of the source, then that of the list to copy to, then its capacity.
LlvmCopy(m, instr, k, from) ==
  IF /\ IsNamed(m, from, In(m, instr, 2)) /\ IsNamed(m, k, OwnedAlias(instr.arg[2]))
     /\ m.store[k].capacity >= Len(m.store[from].items)
  THEN SetLength(m, k, m.store[from].items) ELSE Fail(m)

LlvmOwned(plan, m, instr, k) ==
  LET after == IF instr.arg[5] THEN LlvmCopy(m, instr, k, plan.storages[k].copy_from)
               ELSE IF instr.arg[4] THEN LlvmClear(m, k) ELSE m
  IN  Give(after, instr, OwnedAlias(instr.arg[2]))

\* The slot of a handle, if the handle can be one of a list that was lent.
NamesSlot(m, alias) == m.store # <<>> /\ alias \div SlotCount # 0

\* The place of the list the table has in the slot.
LlvmIndexed(m, alias) ==
  LET found == {k \in DOMAIN m.store : DynamicSlot(m.store[k].alias) = alias % SlotCount /\ DynamicSlot(m.store[k].alias) # -1}
  IN  IF NamesSlot(m, alias) /\ found # {} THEN Min(found) ELSE 0

\* What a descriptor and its receipt must say.
LlvmHolds(d, alias, identity) == d.alias = alias /\ d.identity = identity /\ Len(d.items) <= d.capacity

\* The list lent for a handle that was read out of a list.
LlvmDynamic(m, alias) ==
  LET k == LlvmIndexed(m, alias) IN IF k # 0 /\ LlvmHolds(m.store[k], alias, alias) THEN k ELSE 0

\* The identity of a storage's receipt: the place of its parameter or the name of the list.
ReceiptIdentity(source) == IF source[1] = "Entry" THEN source[2] ELSE OwnedAlias(source[2])

\* The list of a storage, looked at again before it is reversed.
LlvmFixedHolds(d, alias, identity) == d.alias = alias /\ d.identity = identity /\ Len(d.items) <= d.capacity

LlvmFixed(plan, m, k, alias) ==
  IF k \in DOMAIN m.store /\ LlvmFixedHolds(m.store[k], alias, ReceiptIdentity(plan.storages[k].source)) THEN k ELSE 0

LlvmReverse(m, k, end) ==
  IF k = 0 \/ end < 1 \/ end > Len(m.store[k].items) THEN Fail(m)
  ELSE [m EXCEPT !.store[k].items = [j \in DOMAIN @ |-> IF j <= end THEN @[end + 1 - j] ELSE @[j]]]

InDynamic(m, k, index) == k # 0 /\ index \in 0..(Len(m.store[k].items) - 1)

LlvmDynamicGet(m, instr, k) ==
  IF InDynamic(m, k, In(m, instr, 2)) THEN Give(m, instr, m.store[k].items[In(m, instr, 2) + 1]) ELSE Fail(m)

LlvmDynamicSet(m, instr, k) ==
  IF InDynamic(m, k, In(m, instr, 2)) THEN [m EXCEPT !.store[k].items[In(m, instr, 2) + 1] = In(m, instr, 3)] ELSE Fail(m)

LlvmReversed(plan, m, instr) ==
  LET k == StorageFor(plan, instr.in[1])
  IN  LlvmReverse(m, IF k # 0 THEN LlvmFixed(plan, m, k, In(m, instr, 1)) ELSE LlvmDynamic(m, In(m, instr, 1)), In(m, instr, 2))

LlvmReads(plan, m, instr, k) ==
  IF k # 0 /\ (instr.op = "ObjectGet" \/ IsList(plan, instr.in[1])) THEN LlvmGet(m, instr, k)
  ELSE IF instr.op = "ListGet" /\ IsDynamic(plan, instr.in[1]) THEN LlvmDynamicGet(m, instr, LlvmDynamic(m, In(m, instr, 1)))
  ELSE CallHelper(m, instr, TRUE)

\* The list instructions of a single block. A write to a list the code was lent for good goes to the helper.
SingleRuns(plan, m, instr, k) ==
  CASE instr.op \in {"ObjectGet", "ListGet"} -> LlvmReads(plan, m, instr, k)
    [] instr.op = "ListLength" -> LlvmLength(m, instr, k)
    [] instr.op = "ListClear" -> Give(LlvmClear(m, k), instr, In(m, instr, 1))
    [] instr.op = "ListReversePrefix" -> LlvmReversed(plan, m, instr)
    [] instr.op = "ListAppend" -> IF IsList(plan, instr.in[1]) THEN LlvmAppend(m, instr, k) ELSE CallHelper(m, instr, FALSE)
    [] instr.op = "ListSet" -> IF IsDynamic(plan, instr.in[1]) THEN LlvmDynamicSet(m, instr, LlvmDynamic(m, In(m, instr, 1)))
                               ELSE CallHelper(m, instr, FALSE)
    [] instr.op = "ObjectSet" -> CallHelper(m, instr, FALSE)

\* Those of a body of several blocks.
GraphRuns(plan, m, instr) ==
  IF instr.op = "ListReversePrefix" THEN LlvmReversed(plan, m, instr)
  ELSE CallHelper(m, instr, instr.op \in {"ObjectGet", "ListGet"})

ScalarWord(m, instr) ==
  CraneliftWord(instr.op, instr.arg, InOr(m, instr, 1), InOr(m, instr, 2), InOr(m, instr, 3))

LlvmGuard(m, instr) == IF In(m, instr, 1) # 0 THEN m ELSE [m EXCEPT !.outcome = <<"SideExit", instr.arg[2]>>]

LlvmInstruction(plan, way, m, instr) ==
  IF m.outcome # Running THEN m
  ELSE IF instr.op \in CraneliftComputes THEN Give(m, instr, ScalarWord(m, instr))
  ELSE IF instr.op = "Guard" THEN LlvmGuard(m, instr)
  ELSE IF instr.op = "Call" THEN CallHelper(m, instr, TRUE)
  ELSE IF instr.op = "OwnedList" THEN LlvmOwned(plan, m, instr, StorageFor(plan, instr.out))
  ELSE IF way = "Single" THEN SingleRuns(plan, m, instr, IF plan = NoPlan THEN 0 ELSE StorageFor(plan, instr.in[1]))
  ELSE GraphRuns(plan, m, instr)

LlvmBlock(body, plan, types, m, block) ==
  CraneliftEnd(body, types,
    FoldLeft(LAMBDA r, i : LlvmInstruction(plan, Lowering(body), r, i), EnterBlock(m, block), block.code), block.term)

=============================================================================
