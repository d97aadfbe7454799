--------------------------- MODULE PythonLowering ---------------------------
(***************************************************************************)
(* The second half of the Python front end: the tree of a function becomes *)
(* WVM code, with the operation sites and the loop regions its structure   *)
(* map starts from.  A lowering is the Lowerer's state, threaded through;  *)
(* an error is remembered and refuses the function at the end.  A function *)
(* is compiled with those it refers to; only itself it may call in a       *)
(* circle.                                                                 *)
(***************************************************************************)
EXTENDS PythonSource, BytecodeVerifier

\* Nothing lowered yet.  variables maps a name to its register and slot type, order
\* lists the names as they appeared; breaks holds, per open loop, its break jumps.
NoCode == [code |-> <<>>, variables |-> <<>>, order |-> <<>>, registers |-> 0,
           constants |-> <<>>, sites |-> <<>>, regions |-> <<>>, breaks |-> <<>>,
           refused |-> FALSE]

Refuse(l) == [l EXCEPT !.refused = TRUE]
RefuseUnless(l, condition) == IF condition THEN l ELSE Refuse(l)

\* allocate_register: the register is NewRegister(l), taken in Allocate(l).
NewRegister(l) == l.registers + 1
Allocate(l) == [l EXCEPT !.registers = @ + 1]

Emit(l, instruction) == [l EXCEPT !.code = Append(@, instruction)]
Here(l) == Len(l.code) + 1

\* An instruction that writes a new register.
EmitNew(l, op, operator, ins, n) ==
  Emit(Allocate(l), Ins(op, operator, NewRegister(l), ins, n))

Fact(ty) == IF ty = "Any" THEN "Unknown" ELSE ty

\* record_operation, then the instruction at the site.
EmitAtSite(l, op, operator, lhs, rhs, resultTy) ==
  LET site == [pc |-> Here(l), lhs |-> Fact(lhs.ty), rhs |-> Fact(rhs.ty),
               result |-> Fact(resultTy)]
      recorded == [l EXCEPT !.sites = Append(@, site)]
  IN Emit(Allocate(recorded),
          AtSite(Ins(op, operator, NewRegister(l), <<lhs.register, rhs.register>>, 0),
                 Len(recorded.sites)))

\* A branch or a jump whose target was not known yet.
Patch(l, pc, to) == [l EXCEPT !.code[pc].to = to]

\* The register an expression or a name is in, and its slot type.
Slot(register, ty) == [register |-> register, ty |-> ty]
With(l, slot) == [l |-> l, slot |-> slot]

-----------------------------------------------------------------------------
Numeric(ty) == ty \in {"SmallInt", "Float", "BigInt"}
Sequential(ty) == ty \in {"Tuple", "List"}
Integral(ty) == ty \in {"SmallInt", "BigInt"}

BinaryResultType(op, lhs, rhs) ==
  CASE Numeric(lhs) /\ Numeric(rhs) ->
         CASE "Float" \in {lhs, rhs} -> "Float"
           [] "Float" \notin {lhs, rhs} /\ "BigInt" \in {lhs, rhs} -> "BigInt"
           [] OTHER -> "SmallInt"
    [] op = "Add" /\ lhs = rhs /\ Sequential(lhs) -> lhs
    [] op = "Multiply" /\ Sequential(lhs) /\ Integral(rhs) -> lhs
    [] op = "Multiply" /\ Integral(lhs) /\ Sequential(rhs) -> rhs
    [] OTHER -> "Any"

LowerConstant(l, kind, constant) ==
  LET added == [l EXCEPT !.constants = Append(@, constant)]
  IN With(EmitNew(added, "LoadConstant", "", <<>>, Len(added.constants)),
          Slot(NewRegister(l), kind))

\* The name's own register, without a copy.
LowerVariable(l, name) ==
  IF name \in DOMAIN l.variables THEN With(l, l.variables[name])
  ELSE With(Refuse(l), Slot(1, "Any"))

RECURSIVE LowerExpression(_, _)

\* Several expressions one after the other: their slots, in order.
LowerRegisters(l, trees) ==
  FoldLeft(LAMBDA acc, tree :
             LET e == LowerExpression(acc.l, tree)
             IN [l |-> e.l, slots |-> Append(acc.slots, e.slot)],
           [l |-> l, slots |-> <<>>], trees)

RegistersOf(slots) == [i \in DOMAIN slots |-> slots[i].register]

\* Operands in order, then an instruction that reads them all and writes ty.
LowerOperation(l, op, operator, trees, ty) ==
  LET operands == LowerRegisters(l, trees)
  IN With(EmitNew(operands.l, op, operator, RegistersOf(operands.slots), 0),
          Slot(NewRegister(operands.l), ty))

\* A binary operation or a comparison, with its operation site.
LowerAtSite(l, op, tree) ==
  LET operands == LowerRegisters(l, <<tree.lhs, tree.rhs>>)
      lhs == operands.slots[1]
      rhs == operands.slots[2]
      ty == IF op = "CompareOp" THEN "Bool" ELSE BinaryResultType(tree.op, lhs.ty, rhs.ty)
  IN With(EmitAtSite(operands.l, op, tree.op, lhs, rhs, ty),
          Slot(NewRegister(operands.l), ty))

LowerUnary(l, tree) ==
  LET operand == LowerExpression(l, tree.operand)
      allowed == tree.kind = "Negate" \/ operand.slot.ty = "Bool"
  IN With(EmitNew(RefuseUnless(operand.l, allowed), "UnaryOp", tree.kind,
                  <<operand.slot.register>>, 0),
          Slot(NewRegister(operand.l), operand.slot.ty))

\* As if or evaluated what follows when the value so far is true.
BranchesSwapped(op, rhs, exit) == <<rhs, exit>>

\* Where a boolean operator goes on: and evaluates the rest of a true value.
ShortCircuit(op, rhs, exit) == IF op = "And" THEN <<rhs, exit>> ELSE <<exit, rhs>>

\* lower_boolean: one register holds the value so far; the rest may be jumped over.
LowerBoolean(l, tree) ==
  LET first == LowerExpression(l, Head(tree.values))
      dst == NewRegister(first.l)
      start == Emit(Allocate(RefuseUnless(first.l, first.slot.ty = "Bool")),
                    Move(dst, first.slot.register))
      AndThen(acc, value) ==
        LET branch == Here(acc)
            rhs == LowerExpression(Emit(acc, Branch(dst, 0, 0)), value)
            moved == Emit(RefuseUnless(rhs.l, rhs.slot.ty = "Bool"),
                          Move(dst, rhs.slot.register))
        IN Patch(moved, branch, ShortCircuit(tree.op, branch + 1, Here(moved)))
  IN With(FoldLeft(AndThen, start, Tail(tree.values)), Slot(dst, "Bool"))

-----------------------------------------------------------------------------
\* Loops.  The variables an interpreter would have to have at the header.
LiveSlots(l) ==
  LET names == SelectSeq(l.order, LAMBDA name : name \in DOMAIN l.variables)
  IN [i \in DOMAIN names |-> l.variables[names[i]]]

PushLiveSlot(slots, slot) ==
  IF \E i \in DOMAIN slots : slots[i].register = slot.register THEN slots
  ELSE Append(slots, slot)

\* begin_region: the region's number is that of the last one.
BeginRegion(l, live) ==
  [l EXCEPT !.regions = Append(@, [entry |-> Here(l), live |-> live, backedge |-> 0,
                                   exits |-> <<>>])]

\* refresh_live_slot_types: a slot takes the type its variable has now.
Refreshed(l, live) ==
  [i \in DOMAIN live |->
     LET now == {name \in DOMAIN l.variables : l.variables[name].register = live[i].register}
     IN IF now = {} THEN live[i] ELSE l.variables[CHOOSE name \in now : TRUE]]

\* The jump back to the header, and the region's slots brought up to date.
CloseLoop(l, region) ==
  LET jumped == Emit(l, Jump(l.regions[region].entry))
  IN [jumped EXCEPT !.regions[region].live = Refreshed(l, @),
                    !.regions[region].backedge = Here(l)]

FinishRegion(l, region, exits) == [l EXCEPT !.regions[region].exits = exits]

\* The cursor of a loop goes on by its step.
Advance(l, cursor, step) ==
  Emit(EmitAtSite(l, "BinaryOp", "Add", cursor, step, cursor.ty),
       Move(cursor.register, NewRegister(l)))

\* The start and the stop of a range are copied, so that the body cannot change them.
LowerRangeState(l, start, stop, step) ==
  LET from == LowerExpression(l, start)
      cursor == Slot(NewRegister(from.l), from.slot.ty)
      started == Emit(Allocate(RefuseUnless(from.l, Integral(cursor.ty))),
                      Move(cursor.register, from.slot.register))
      to == LowerExpression(started, stop)
      limit == Slot(NewRegister(to.l), to.slot.ty)
      stopped == Emit(Allocate(RefuseUnless(to.l, Integral(limit.ty))),
                      Move(limit.register, to.slot.register))
  IN [l |-> EmitNew(stopped, "ConstSmallInt", "", <<>>, step),
      cursor |-> cursor, stop |-> limit, step |-> Slot(NewRegister(stopped), "SmallInt")]

Comparison(step) == IF step > 0 THEN "Lt" ELSE "Gt"

\* The loop of a comprehension.  Its target hides a variable of the same name, has a
\* register of its own, and is gone afterwards.
SequenceState(l, tree) ==
  LET source == LowerExpression(l, tree)
      allowed == source.slot.ty \in {"Any", "Tuple", "List"}
      cursor == Slot(NewRegister(source.l), "SmallInt")
      zero == EmitNew(RefuseUnless(source.l, allowed), "ConstSmallInt", "", <<>>, 0)
      stop == EmitNew(zero, "Length", "", <<source.slot.register>>, 0)
  IN [l |-> EmitNew(stop, "ConstSmallInt", "", <<>>, 1), cursor |-> cursor,
      stop |-> Slot(NewRegister(zero), "SmallInt"),
      step |-> Slot(NewRegister(stop), "SmallInt"), sequence |-> source.slot.register]

LowerComprehensionLoop(l, tree, result) ==
  LET it == tree.iterator
      ranged == it.kind = "Range"
      state == IF ranged THEN LowerRangeState(l, it.start, it.stop, it.step)
               ELSE SequenceState(l, it.source)
      live == FoldLeft(PushLiveSlot, LiveSlots(state.l),
                       <<state.cursor, state.stop, state.step, Slot(result, "List")>>
                       \o IF ranged THEN <<>> ELSE <<Slot(state.sequence, "Any")>>)
      target == NewRegister(state.l)
      bound == [Allocate(state.l) EXCEPT
                  !.variables = (tree.target :> Slot(target, IF ranged THEN state.cursor.ty
                                                             ELSE "Any")) @@ @]
      begun == BeginRegion(bound, live)
      region == Len(begun.regions)
      compared == EmitAtSite(begun, "CompareOp",
                             IF ranged THEN Comparison(it.step) ELSE "Lt",
                             state.cursor, state.stop, "Bool")
      branch == Here(compared)
      entered == Emit(Emit(compared, Branch(NewRegister(begun), 0, 0)),
                      IF ranged THEN Move(target, state.cursor.register)
                      ELSE Ins("GetItem", "", target,
                               <<state.sequence, state.cursor.register>>, 0))
      element == LowerExpression(entered, tree.element)
      appended == Emit(element.l, Ins("ListAppend", "", 0,
                                      <<result, element.slot.register>>, 0))
      closed == CloseLoop(Advance(appended, state.cursor, state.step), region)
      patched == Patch(closed, branch, <<branch + 1, Here(closed)>>)
      outer == {name \in DOMAIN closed.variables :
                  name # tree.target \/ name \in DOMAIN l.variables}
  IN [FinishRegion(patched, region, <<Here(closed)>>) EXCEPT
        !.variables = [name \in outer |-> IF name = tree.target THEN l.variables[name]
                                          ELSE @[name]]]

LowerListComprehension(l, tree) ==
  LET built == EmitNew(l, "BuildList", "", <<>>, 0)
  IN With(LowerComprehensionLoop(built, tree, NewRegister(l)), Slot(NewRegister(l), "List"))

-----------------------------------------------------------------------------
\* An error ends the lowering.
LowerExpression(l, tree) ==
  IF l.refused THEN With(l, Slot(1, "Any")) ELSE
  CASE tree.kind \in {"SmallInt", "Float", "Bool"} ->
         With(EmitNew(l, CASE tree.kind = "SmallInt" -> "ConstSmallInt"
                           [] tree.kind = "Float" -> "ConstFloat"
                           [] OTHER -> "ConstBool", "", <<>>, tree.n),
              Slot(NewRegister(l), tree.kind))
    [] tree.kind = "None" ->
         With(EmitNew(l, "ConstNone", "", <<>>, 0), Slot(NewRegister(l), "Any"))
    [] tree.kind = "BigInt" -> LowerConstant(l, "BigInt", tree)
    [] tree.kind = "Function" -> LowerConstant(l, "Function", tree)
    [] tree.kind = "CurrentFunction" ->
         With(EmitNew(l, "LoadCurrentFunction", "", <<>>, 0),
              Slot(NewRegister(l), "Function"))
    [] tree.kind = "Name" -> LowerVariable(l, tree.name)
    [] tree.kind \in {"Negate", "Not"} -> LowerUnary(l, tree)
    [] tree.kind = "Binary" -> LowerAtSite(l, "BinaryOp", tree)
    [] tree.kind = "Compare" -> LowerAtSite(l, "CompareOp", tree)
    [] tree.kind = "Boolean" -> LowerBoolean(l, tree)
    [] tree.kind \in {"Tuple", "List"} ->
         LowerOperation(l, IF tree.kind = "Tuple" THEN "BuildTuple" ELSE "BuildList", "",
                        tree.items, tree.kind)
    [] tree.kind = "ListComprehension" -> LowerListComprehension(l, tree)
    [] tree.kind = "GetItem" ->
         LowerOperation(l, "GetItem", "", <<tree.object, tree.key>>, "Any")
    [] tree.kind = "ListPop" ->
         LowerOperation(l, "ListPop", "", <<tree.list, tree.index>>, "Any")
    [] tree.kind = "Length" -> LowerOperation(l, "Length", "", <<tree.object>>, "SmallInt")
    [] tree.kind = "Call" ->
         LowerOperation(l, "Call", "", <<tree.callable>> \o tree.args, "Any")
    [] OTHER -> With(Refuse(l), Slot(1, "Any"))

\* A condition that is not a Bool is compared with zero.
LowerCondition(l, tree) ==
  LET value == LowerExpression(l, tree)
      ty == value.slot.ty
      zero == Slot(NewRegister(value.l), IF ty = "Float" THEN "Float" ELSE "SmallInt")
      const == EmitNew(RefuseUnless(value.l, ty = "Any" \/ Numeric(ty)),
                       IF ty = "Float" THEN "ConstFloat" ELSE "ConstSmallInt", "", <<>>, 0)
  IN IF ty = "Bool" THEN value
     ELSE With(EmitAtSite(const, "CompareOp", "NotEq", value.slot, zero, "Bool"),
               Slot(NewRegister(const), "Bool"))
-----------------------------------------------------------------------------
\* Any absorbs the other type.
MergedType(previous, ty) == IF "Any" \in {previous, ty} THEN "Any" ELSE previous

\* store_variable: a type may only widen to Any.
StoreVariable(l, name, register, slot) ==
  LET known == name \in DOMAIN l.variables
      allowed == known => \/ l.variables[name].ty = slot.ty
                          \/ "Any" \in {l.variables[name].ty, slot.ty}
      ty == IF known THEN MergedType(l.variables[name].ty, slot.ty) ELSE slot.ty
  IN [Emit(RefuseUnless(l, allowed), Move(register, slot.register)) EXCEPT
        !.variables = (name :> Slot(register, ty)) @@ @]

\* The register of a variable, a new one if the name is new; it is no variable yet.
VariableRegister(l, name) ==
  IF name \in DOMAIN l.variables THEN l.variables[name].register ELSE NewRegister(l)
Declared(l, name) ==
  IF name \in DOMAIN l.variables THEN l ELSE [Allocate(l) EXCEPT !.order = Append(@, name)]

BindRegister(l, name, slot) ==
  StoreVariable(Declared(l, name), name, VariableRegister(l, name), slot)

\* Unpacking reads the items by their positions.
RECURSIVE BindTarget(_, _, _)
BindTarget(l, target, slot) ==
  IF target.kind = "Name" THEN BindRegister(l, target.name, slot)
  ELSE FoldLeft(LAMBDA acc, i :
                  LET key == EmitNew(acc, "ConstSmallInt", "", <<>>, i - 1)
                      item == EmitNew(key, "GetItem", "",
                                      <<slot.register, NewRegister(acc)>>, 0)
                  IN BindTarget(item, target.items[i], Slot(NewRegister(key), "Any")),
                l, [i \in DOMAIN target.items |-> i])

\* A new name has its register before its value is lowered.
LowerAssign(l, tree) ==
  IF tree.target.kind # "Name"
  THEN LET value == LowerExpression(l, tree.value)
       IN BindTarget(value.l, tree.target, value.slot)
  ELSE LET value == LowerExpression(Declared(l, tree.target.name), tree.value)
       IN StoreVariable(value.l, tree.target.name, VariableRegister(l, tree.target.name),
                        value.slot)

\* Operands in the order the tree names them, then a store that reads them all.
LowerStore(l, op, trees) ==
  LET operands == LowerRegisters(l, trees)
  IN Emit(operands.l, Ins(op, "", 0, RegistersOf(operands.slots), 0))

\* o[k] op= v: o and k are evaluated once.
LowerAugSetItem(l, tree) ==
  LET place == LowerRegisters(l, <<tree.object, tree.key>>)
      registers == RegistersOf(place.slots)
      current == Slot(NewRegister(place.l), "Any")
      value == LowerExpression(EmitNew(place.l, "GetItem", "", registers, 0), tree.value)
      rhs == Slot(value.slot.register, "Any")
      result == EmitAtSite(value.l, "BinaryOp", tree.op, current, rhs, "Any")
  IN Emit(result, Ins("SetItem", "", 0, registers \o <<NewRegister(value.l)>>, 0))

LowerMutation(l, tree) ==
  CASE tree.kind = "SetItem" -> LowerStore(l, "SetItem", <<tree.object, tree.key, tree.value>>)
    [] tree.kind = "AugSetItem" -> LowerAugSetItem(l, tree)
    [] tree.kind = "ListAppend" -> LowerStore(l, "ListAppend", <<tree.list, tree.value>>)
    [] tree.kind = "ListInsert" ->
         LowerStore(l, "ListInsert", <<tree.list, tree.index, tree.value>>)
    [] tree.kind = "Expression" -> LowerExpression(l, tree.value).l

-----------------------------------------------------------------------------
RECURSIVE LowerBlock(_, _)

LowerIfTree(l, tree) ==
  LET condition == LowerCondition(l, tree.condition)
      branch == Here(condition.l)
      body == LowerBlock(Emit(condition.l, Branch(condition.slot.register, 0, 0)), tree.body)
      jump == Here(body)
      orelse == LowerBlock(Emit(body, Jump(0)), tree.orelse)
  IN Patch(Patch(orelse, branch, <<branch + 1, jump + 1>>), jump, <<Here(orelse)>>)

\* lower_break: a jump of the innermost loop, whose target is not known yet.
LowerBreak(l) ==
  IF l.breaks = <<>> THEN Refuse(l)
  ELSE [Emit(l, Jump(0)) EXCEPT !.breaks[Len(l.breaks)] = @ \cup {Here(l)}]

\* lower_loop_body: the jumps out of the body are the last of breaks.
LowerLoopBody(l, body) == LowerBlock([l EXCEPT !.breaks = Append(@, {})], body)

PatchBreaks(l, breaks, exit) ==
  [l EXCEPT !.code = [pc \in DOMAIN @ |-> IF pc \in breaks THEN Jump(exit) ELSE @[pc]]]

\* Where a break goes: past the else part.
BreaksPast(l, breaks, orelse) == PatchBreaks(l, breaks, Here(l))

\* What follows the body of a loop: the jump back, the else part, and the targets of the
\* branch and of the breaks.
EndLoop(body, region, branch, tree) ==
  LET breaks == Last(body.breaks)
      closed == CloseLoop([body EXCEPT !.breaks = Front(@)], region)
      orelse == LowerBlock(closed, tree.orelse)
      patched == Patch(orelse, branch, <<branch + 1, Here(closed)>>)
  IN [l |-> BreaksPast(patched, breaks, Here(closed)), orelse |-> Here(closed),
      exit |-> Here(orelse), broken |-> breaks # {}]

LowerWhileTree(l, tree) ==
  LET begun == BeginRegion(l, LiveSlots(l))
      condition == LowerCondition(begun, tree.condition)
      branch == Here(condition.l)
      body == LowerLoopBody(Emit(condition.l, Branch(condition.slot.register, 0, 0)),
                            tree.body)
      end == EndLoop(body, Len(begun.regions), branch, tree)
      exits == IF end.broken /\ end.exit # end.orelse THEN <<end.orelse, end.exit>>
               ELSE <<end.orelse>>
  IN FinishRegion(end.l, Len(begun.regions), exits)

\* A range that is certain to have an iteration enters its body without a test.
FirstEntered(l, tree, header) == Patch(l, header - 1, <<header + 2>>)

\* lower_for_range: the target is a variable before the loop, though it has no value.
LowerForRangeTree(l, tree) ==
  LET state == LowerRangeState(l, tree.start, tree.stop, tree.step)
      live == FoldLeft(PushLiveSlot, LiveSlots(state.l),
                       <<state.cursor, state.stop, state.step>>)
      known == tree.target \in DOMAIN l.variables
      previous == IF known THEN state.l.variables[tree.target].ty ELSE state.cursor.ty
      register == VariableRegister(state.l, tree.target)
      bound == [RefuseUnless(Declared(state.l, tree.target),
                             previous \in {"Any", state.cursor.ty}) EXCEPT
                  !.variables = (tree.target :> Slot(register, previous)) @@ @]
      begun == BeginRegion(IF tree.certain THEN Emit(bound, Jump(0)) ELSE bound, live)
      header == Here(begun)
      tested == EmitAtSite(begun, "CompareOp", Comparison(tree.step), state.cursor,
                           state.stop, "Bool")
      entered == Emit(Emit(tested, Branch(NewRegister(begun), 0, 0)),
                      Move(register, state.cursor.register))
      body == LowerLoopBody(IF tree.certain THEN FirstEntered(entered, tree, header)
                            ELSE entered, tree.body)
      end == EndLoop(Advance(body, state.cursor, state.step), Len(begun.regions),
                     header + 1, tree)
  IN FinishRegion(end.l, Len(begun.regions), <<end.exit>>)

\* The sequences of a for statement are measured once, and read through the registers
\* they are in: the variable's own, for a name.
LowerSources(l, trees) ==
  FoldLeft(LAMBDA acc, tree :
             LET source == LowerExpression(acc.l, tree)
             IN [l |-> EmitNew(source.l, "Length", "", <<source.slot.register>>, 0),
                 sequences |-> Append(acc.sequences, source.slot.register),
                 stops |-> Append(acc.stops, NewRegister(source.l))],
           [l |-> l, sequences |-> <<>>, stops |-> <<>>], trees)

\* sequence_condition: the cursor is below every length.
SequenceCondition(l, cursor, stops) ==
  LET tests == FoldLeft(LAMBDA acc, stop : EmitAtSite(acc, "CompareOp", "Lt", cursor,
                                                       Slot(stop, "SmallInt"), "Bool"),
                        l, stops)
      And(acc, i) == With(EmitNew(acc.l, "BooleanOp", "And",
                                  <<acc.slot.register, NewRegister(l) + i>>, 0),
                          Slot(NewRegister(acc.l), "Bool"))
  IN FoldLeft(And, With(tests, Slot(NewRegister(l), "Bool")),
              [i \in 1 .. Len(stops) - 1 |-> i])

\* Each target is bound to its sequence's item; enumerate binds the cursor first.
BindItems(l, tree, sequences, cursor) ==
  LET start == IF tree.index THEN BindTarget(l, tree.targets[1], cursor) ELSE l
      Bind(acc, i) ==
        BindTarget(EmitNew(acc, "GetItem", "", <<sequences[i], cursor.register>>, 0),
                   tree.targets[IF tree.index THEN 2 ELSE i],
                   Slot(NewRegister(acc), "Any"))
  IN FoldLeft(Bind, start, [i \in DOMAIN sequences |-> i])

LowerForSequenceTree(l, tree) ==
  LET over == LowerSources(l, tree.sources)
      cursor == Slot(NewRegister(over.l), "SmallInt")
      zero == EmitNew(over.l, "ConstSmallInt", "", <<>>, 0)
      step == Slot(NewRegister(zero), "SmallInt")
      one == EmitNew(zero, "ConstSmallInt", "", <<>>, 1)
      live == FoldLeft(PushLiveSlot, LiveSlots(one),
                       <<cursor, step>>
                       \o [i \in DOMAIN over.sequences |-> Slot(over.sequences[i], "Any")]
                       \o [i \in DOMAIN over.stops |-> Slot(over.stops[i], "SmallInt")])
      begun == BeginRegion(one, live)
      condition == SequenceCondition(begun, cursor, over.stops)
      branch == Here(condition.l)
      entered == BindItems(Emit(condition.l, Branch(condition.slot.register, 0, 0)), tree,
                           over.sequences, cursor)
      body == LowerLoopBody(entered, tree.body)
      end == EndLoop(Advance(body, cursor, step), Len(begun.regions), branch, tree)
  IN FinishRegion(end.l, Len(begun.regions), <<end.exit>>)

LowerTree(l, tree) ==
  IF l.refused THEN l ELSE
  CASE tree.kind = "Assign" -> LowerAssign(l, tree)
    [] tree.kind = "Break" -> LowerBreak(l)
    [] tree.kind = "If" -> LowerIfTree(l, tree)
    [] tree.kind = "While" -> LowerWhileTree(l, tree)
    [] tree.kind = "ForRange" -> LowerForRangeTree(l, tree)
    [] tree.kind = "ForSequence" -> LowerForSequenceTree(l, tree)
    [] tree.kind = "Return" ->
         LET value == LowerExpression(l, tree.value)
         IN Emit(value.l, Ins("Return", "", 0, <<value.slot.register>>, 0))
    [] tree.kind = "Refused" -> Refuse(l)
    [] OTHER -> LowerMutation(l, tree)

LowerBlock(l, trees) == FoldLeft(LowerTree, l, trees)

-----------------------------------------------------------------------------
\* lower: the parameters have the first registers; the code of the body follows.
LowerFunction(tree) ==
  LET params == tree.params
      names == [i \in DOMAIN params |-> params[i].name]
      start == [NoCode EXCEPT
                  !.registers = Len(params),
                  !.order = names,
                  !.variables = [name \in ToSet(names) |->
                                   LET i == CHOOSE i \in DOMAIN names : names[i] = name
                                   IN Slot(i, params[i].ty)]]
  IN LowerBlock(start, tree.body)

-----------------------------------------------------------------------------

\* lower: the function of a tree that was lowered without an error, if its loops are
\* complete and it is verified.
Finished(tree, l) ==
  [code |-> l.code, registers |-> l.registers, sites |-> l.sites, regions |-> l.regions,
   constants |-> l.constants, params |-> tree.params]

\* A function with its structure map.
Executable(f, map) ==
  [code |-> f.code, registers |-> f.registers, sites |-> f.sites, regions |-> f.regions,
   constants |-> f.constants, params |-> f.params, map |-> map]

Accepted(f) == DraftsValid(f) /\ Verified(f, Analysis(f))

\* The functions a lowering refers to.
Callees(l) == {l.constants[i].name : i \in {j \in DOMAIN l.constants :
                                              l.constants[j].kind = "Function"}}

\* compile_named: the executables by name; nothing if one of them is refused.  active are
\* the functions whose compilation has begun.
RECURSIVE CompileNamed(_, _, _)
CompileNamed(suite, name, active) ==
  IF name \in active \/ ~HasFunction(suite, name) THEN <<>>
  ELSE LET tree == SourceTree(suite, name)
       IN IF tree = Refused THEN <<>>
          ELSE LET l == LowerFunction(tree)
                   f == Finished(tree, l)
                   callees == {CompileNamed(suite, callee, active \cup {name})
                               : callee \in Callees(l)}
               IN IF l.refused \/ <<>> \in callees THEN <<>>
                  ELSE IF ~Accepted(f) THEN <<>>
                  ELSE FoldLeft(LAMBDA acc, part : acc @@ part,
                                name :> Executable(f, Analysis(f)), SetToSeq(callees))
=============================================================================
