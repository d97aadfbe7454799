------------------------------ MODULE LoopCode -------------------------------
(***************************************************************************)
(* A counted loop of the bytecode and what the interpreter makes of it:    *)
(* while i < n: body; i += 1.  The body is a straight line of operations on *)
(* registers, a register is read before it is written, and an operation that *)
(* has no meaning raises.                                                  *)
(*                                                                         *)
(* The second half is what a loop is recorded for and what its machine code *)
(* does: the registers and lists observed at the header (integration.rs), the *)
(* body lowered for their types, and a run of that body on lent copies of the *)
(* lists, which are words without a type.                                  *)
(***************************************************************************)
EXTENDS ObjectHeap

CONSTANTS
  Registers,      \* bound: the registers of the programs
  Half            \* bound: a word holds -Half .. Half - 1 (2^63 in the code)

ASSUME HalfAssumption == Half \in Nat \ {0}

MaxTrips == 3           \* bound: how often a loop is run through

Const(dst, v) == [op |-> "Const", dst |-> dst, reads |-> <<>>, value |-> v]
Move(dst, src) == [op |-> "Move", dst |-> dst, reads |-> <<src>>]
GetItem(dst, object, key) == [op |-> "GetItem", dst |-> dst, reads |-> <<object, key>>]
PutItem(object, key, src) == [op |-> "SetItem", dst |-> "none", reads |-> <<object, key, src>>]
ListAppend(list, src) == [op |-> "ListAppend", dst |-> "none", reads |-> <<list, src>>]
Add(dst, lhs, rhs) == [op |-> "Add", dst |-> dst, reads |-> <<lhs, rhs>>]
Call(dst, callable, argument) == [op |-> "Call", dst |-> dst, reads |-> <<callable, argument>>]

Machine(heap, regs) == [heap |-> heap, regs |-> regs, status |-> "Running"]

Written(m, register, v) == [m EXCEPT !.regs[register] = v]
Raised(m) == [m EXCEPT !.status = "Raised"]

FitsWord(n) == n \in -Half .. Half - 1
Wrap(n) == ((n + Half) % (2 * Half)) - Half

Overflows(a, b) == IsInt(a) /\ IsInt(b) /\ ~FitsWord(a[2] + b[2])

\* The sum of two numbers: a float when one of them is, an integer in the heap
\* when it does not fit a word or one of them is such.
Sum(a, b) ==
  CASE IsFloat(a) \/ IsFloat(b) -> FloatValue(a[2] + b[2])
    [] Overflows(a, b) \/ IsBig(a) \/ IsBig(b) -> BigValue(a[2] + b[2])
    [] OTHER -> IntValue(a[2] + b[2])

\* Two functions to call: one adds its argument to itself, one adds one to it.
Addend(function, v) == IF function = 1 THEN v ELSE IntValue(1)

-----------------------------------------------------------------------------
\* Where a key is in a list: a negative one counts from the end.
Normalized(items, key) == IF key[2] < 0 THEN Len(items) + key[2] ELSE key[2]
InBounds(items, index) == index \in 0 .. Len(items) - 1
IsIndex(key) == IsInt(key) \/ (IsBig(key) /\ FitsWord(key[2]))
CanIndex(h, object, key) ==
  IsSequence(h, object) /\ IsIndex(key) /\ InBounds(SequenceOf(h, object).items, Normalized(SequenceOf(h, object).items, key))
Item(h, object, key) == LET items == SequenceOf(h, object).items IN items[Normalized(items, key) + 1]

ReadItem(m, op, object, key) ==
  IF CanIndex(m.heap, object, key) THEN Written(m, op.dst, Item(m.heap, object, key)) ELSE Raised(m)

WriteItem(m, object, key, v) ==
  IF IsList(m.heap, object) /\ CanIndex(m.heap, object, key)
  THEN [m EXCEPT !.heap[object[2]].sequence = SetItem(@, Normalized(@.items, key), v)] ELSE Raised(m)

AppendItem(m, list, v) ==
  IF IsList(m.heap, list) THEN [m EXCEPT !.heap[list[2]].sequence = Push(@, v)] ELSE Raised(m)

Calls(m, op, callable, v) ==
  IF IsFunction(m.heap, callable) /\ IsNumber(v) THEN Written(m, op.dst, Sum(v, Addend(m.heap[callable[2]].id, v)))
  ELSE Raised(m)

Executed(m, op) ==
  LET read == [k \in DOMAIN op.reads |-> m.regs[op.reads[k]]]
  IN  CASE m.status # "Running" -> m
        [] op.op = "Const" -> Written(m, op.dst, op.value)
        [] op.op = "Move" -> Written(m, op.dst, read[1])
        [] op.op = "GetItem" -> ReadItem(m, op, read[1], read[2])
        [] op.op = "SetItem" -> WriteItem(m, read[1], read[2], read[3])
        [] op.op = "ListAppend" -> AppendItem(m, read[1], read[2])
        [] op.op = "Add" ->
             IF IsNumber(read[1]) /\ IsNumber(read[2]) THEN Written(m, op.dst, Sum(read[1], read[2])) ELSE Raised(m)
        [] op.op = "Call" -> Calls(m, op, read[1], read[2])

\* One time through the body.
Iterated(p, m) ==
  LET after == FoldLeft(Executed, m, p.body)
  IN  IF after.status = "Running" THEN Written(after, "i", Sum(after.regs["i"], IntValue(1))) ELSE after

Enters(regs) == IsInt(regs["i"]) /\ IsInt(regs["n"]) /\ regs["i"][2] < regs["n"][2]

\* The whole loop.
Interpreted(p, m) ==
  FoldLeft(LAMBDA x, k : IF x.status = "Running" /\ Enters(x.regs) THEN Iterated(p, x) ELSE x,
           m, [k \in 1 .. MaxTrips + 1 |-> k])

-----------------------------------------------------------------------------

MaxFixedStorages == 2
MaxDepth == 8

NumericTypes == {"I64", "F64"}

TypeOf(v) ==
  CASE IsInt(v) -> "I64" [] IsFloat(v) -> "F64" [] IsRef(v) \/ IsBig(v) -> "Handle" [] OTHER -> "None"

-----------------------------------------------------------------------------
(* The inputs: the registers live at the header, and what the beginning of the *)
(* body, run ahead of the code, makes of the registers it defines.             *)

IsPrefixOp(op) == op.op \in {"Const", "Move", "GetItem"}
PrefixLength(p) ==
  LET others == {k \in DOMAIN p.body : ~IsPrefixOp(p.body[k])}
  IN  IF others = {} THEN Len(p.body) ELSE Min(others) - 1

\* A value made ahead is wanted if it is read before it is made anew.
IsWanted(p, register) ==
  \E k \in PrefixLength(p) + 1 .. Len(p.body) :
    /\ \E j \in DOMAIN p.body[k].reads : p.body[k].reads[j] = register
    /\ \A j \in PrefixLength(p) + 1 .. k - 1 : p.body[j].dst # register

PreparedRegisters(p) ==
  SelectSeq(p.temporaries, LAMBDA r : /\ \E k \in 1 .. PrefixLength(p) : p.body[k].dst = r
                                      /\ IsWanted(p, r))

NoneFound == [found |-> FALSE, registers |-> <<>>, regs |-> <<>>]

\* Only what cannot fail is read ahead: an index is a word and counts from the
\* beginning.
ReadAhead(m, op) ==
  IF op.op = "GetItem" /\ ~(IsInt(m.regs[op.reads[2]]) /\ m.regs[op.reads[2]][2] >= 0) THEN Raised(m) ELSE Executed(m, op)

\* Nothing is prepared if the beginning of the body fails, or if it does not
\* lead to one or two lists of numbers.
Prepared(p, heap, regs) ==
  LET after == FoldLeft(ReadAhead, Machine(heap, regs), SubSeq(p.body, 1, PrefixLength(p)))
      lists == {k \in DOMAIN PreparedRegisters(p) :
                  /\ IsList(heap, after.regs[PreparedRegisters(p)[k]])
                  /\ SequenceOf(heap, after.regs[PreparedRegisters(p)[k]]).strategy \in NumericTypes}
  IN  IF PrefixLength(p) > 0 /\ after.status = "Running" /\ Cardinality(lists) \in 1 .. 2
      THEN [found |-> TRUE, registers |-> PreparedRegisters(p), regs |-> after.regs]
      ELSE NoneFound

InputRegisters(p, prepared) == p.entry \o prepared.registers
InputValue(regs, prepared, r) == IF prepared.found /\ Contains(prepared.registers, r) THEN prepared.regs[r] ELSE regs[r]

-----------------------------------------------------------------------------
(* The case of a loop: the types of its inputs and a word for each list and    *)
(* function among them and for each level of nested lists.                     *)

\* The types of the elements of a list, of their elements and so on; none if
\* they differ.
ElementPath(heap, reference) ==
  LET path[depth \in 0 .. MaxDepth, r \in References(heap)] ==
        IF depth = MaxDepth \/ heap[r].kind \notin {"List", "Tuple"} THEN <<>>
        ELSE LET of(v) == IF IsRef(v) THEN <<"Handle">> \o path[depth + 1, v[2]] ELSE <<TypeOf(v)>>
                 items == heap[r].sequence.items
             IN  IF items # <<>> /\ \A k \in DOMAIN items : of(items[k]) = of(items[1]) THEN of(items[1]) ELSE <<>>
  IN  path[0, reference]

TypeTag(ty) == CASE ty = "I64" -> 1 [] ty = "F64" -> 2 [] ty = "Bool" -> 3 [] OTHER -> 4
StrategyTag(strategy) ==
  CASE strategy = "Empty" -> 5 [] strategy = "Object" -> 4 [] OTHER -> TypeTag(strategy)

\* A word is split where the code compares it: the last byte and the rest.
WordOf(what, low) == [what |-> what, low |-> low]

Appended(p) == {p.body[k].reads[1] : k \in {j \in DOMAIN p.body : p.body[j].op = "ListAppend"}}

WordsOf(heap, r, v) ==
  CASE IsList(heap, v) -> <<WordOf(<<"List", r>>, StrategyTag(SequenceOf(heap, v).strategy))>>
    [] IsFunction(heap, v) -> <<WordOf(<<"Function", r>>, heap[v[2]].id), WordOf(<<"Slot", r>>, v[2])>>
    [] OTHER -> <<>>
PathWords(heap, r, v) ==
  IF IsRef(v) THEN LET path == ElementPath(heap, v[2]) IN [k \in DOMAIN path |-> WordOf(<<"Path", r, k>>, TypeTag(path[k]))]
  ELSE <<>>

StorageCases(p, heap, regs, prepared) ==
  LET inputs == InputRegisters(p, prepared)
      valueOf(k) == InputValue(regs, prepared, inputs[k])
  IN  FlattenSeq([k \in DOMAIN inputs |-> WordsOf(heap, inputs[k], valueOf(k))])
      \o FlattenSeq([k \in DOMAIN inputs |-> PathWords(heap, inputs[k], valueOf(k))])

\* The inputs that are empty lists the loop appends to.
EmptyAppends(p, heap, regs, prepared) ==
  {r \in Range(InputRegisters(p, prepared)) \cap Appended(p) :
     LET v == InputValue(regs, prepared, r) IN IsList(heap, v) /\ SequenceOf(heap, v).strategy = "Empty"}

\* Such a list is taken for one of integers or of floats.
CasesFor(cases, r, tag) ==
  [k \in DOMAIN cases |-> IF cases[k].what = <<"List", r>> THEN WordOf(<<"List", r>>, tag) ELSE cases[k]]
  \o <<WordOf(<<"Path", r, 1>>, tag)>>

InputTypes(p, regs, prepared) ==
  LET inputs == InputRegisters(p, prepared) IN [k \in DOMAIN inputs |-> TypeOf(InputValue(regs, prepared, inputs[k]))]

CaseOf(p, regs, prepared, cases) == [types |-> InputTypes(p, regs, prepared), cases |-> cases]

\* Integers may be where floats were recorded.
WidensTo(current, recorded) ==
  /\ Len(current) = Len(recorded)
  /\ \A k \in DOMAIN current :
       \/ current[k] = recorded[k]
       \/ current[k].what = recorded[k].what /\ current[k].low = 1 /\ recorded[k].low = 2

-----------------------------------------------------------------------------
(* Recording: the rest of the body is lowered for the types observed. paths    *)
(* holds the element types of the lists at hand, roots the input each list is  *)
(* reached from without another list in between.                               *)

Reject(l) == [l EXCEPT !.supported = FALSE]
Typed(l, op, ty) == [l EXCEPT !.types[op.dst] = ty, !.body = Append(@, op @@ [ty |-> ty])]
ElementType(l, list) == IF l.types[list] = "Handle" /\ l.paths[list] # <<>> THEN l.paths[list][1] ELSE "None"
StoresInto(l, list, src) == ElementType(l, list) \in NumericTypes /\ l.types[src] = ElementType(l, list)

Lowered(l, op) ==
  LET ty(k) == l.types[op.reads[k]]
  IN  CASE ~l.supported -> l
        [] op.op = "Const" -> Typed(l, op, TypeOf(op.value))
        [] op.op = "Move" -> [Typed(l, op, ty(1)) EXCEPT !.paths[op.dst] = l.paths[op.reads[1]],
                                                         !.roots[op.dst] = l.roots[op.reads[1]]]
        [] op.op = "GetItem" ->
             IF ElementType(l, op.reads[1]) = "None" \/ ty(2) # "I64" THEN Reject(l)
             ELSE [Typed(l, op, ElementType(l, op.reads[1])) EXCEPT !.paths[op.dst] = Tail(l.paths[op.reads[1]]),
                                                                    !.roots[op.dst] = "list"]
        [] op.op = "SetItem" ->
             IF ty(2) = "I64" /\ StoresInto(l, op.reads[1], op.reads[3]) THEN Typed(l, op, ty(3)) ELSE Reject(l)
        [] op.op = "ListAppend" -> IF StoresInto(l, op.reads[1], op.reads[2]) THEN Typed(l, op, ty(2)) ELSE Reject(l)
        [] op.op = "Add" ->
             IF ty(1) \notin NumericTypes \/ ty(2) \notin NumericTypes THEN Reject(l)
             ELSE Typed(l, op, IF ty(1) = ty(2) THEN ty(1) ELSE "F64")
        \* The function called is the one observed: its operations take the call's place.
        [] op.op = "Call" ->
             IF l.calls[op.reads[1]] = 0 \/ ty(2) \notin NumericTypes THEN Reject(l)
             ELSE Typed(l, [op EXCEPT !.reads = <<@[2]>>] @@ [inlined |-> l.calls[op.reads[1]]], ty(2))

Listed(l, k) == LET op == l.body[k] IN op.op \in {"GetItem", "SetItem", "ListAppend"}
MutatesAt(l, k) == l.body[k].op \in {"SetItem", "ListAppend"}

LowerLoop(p, heap, regs, prepared) ==
  LET inputs == Range(InputRegisters(p, prepared))
      value(r) == IF r \in inputs THEN InputValue(regs, prepared, r) ELSE Uninitialized
      start == [supported |-> TRUE, body |-> <<>>,
                types |-> [r \in Registers \cup {"none"} |-> IF r = "none" THEN "None" ELSE TypeOf(value(r))],
                paths |-> [r \in Registers \cup {"none"} |->
                             IF r # "none" /\ IsRef(value(r)) THEN ElementPath(heap, value(r)[2]) ELSE <<>>],
                roots |-> [r \in Registers |-> IF r \in inputs THEN r ELSE "none"],
                calls |-> [r \in Registers |-> IF IsFunction(heap, value(r)) THEN heap[value(r)[2]].id ELSE 0]]
  IN  FoldLeft(Lowered, start, SubSeq(p.body, IF prepared.found THEN PrefixLength(p) + 1 ELSE 1, Len(p.body)))

\* The lists the code is lent by name, in the order of the inputs.
FixedStorages(l, inputs) ==
  SelectSeq(inputs, LAMBDA r : \E k \in DOMAIN l.body : Listed(l, k) /\ l.roots[l.body[k].reads[1]] = r)
IsDynamic(l) == \E k \in DOMAIN l.body : Listed(l, k) /\ l.roots[l.body[k].reads[1]] = "list"

NoCode == [supported |-> FALSE, body |-> <<>>, once |-> FALSE, inputs |-> <<>>, types |-> <<>>, dynamic |-> FALSE,
           storages |-> <<>>]

CodeOf(inputs, types, once, l, fixed) ==
  LET writes(r) == \E k \in DOMAIN l.body : MutatesAt(l, k) /\ l.roots[l.body[k].reads[1]] = r
  IN  [supported |-> l.supported /\ (IsDynamic(l) \/ Len(fixed) \in 1 .. MaxFixedStorages),
       body |-> l.body, once |-> once, inputs |-> inputs, types |-> types, dynamic |-> IsDynamic(l),
       storages |-> [k \in DOMAIN fixed |-> [register |-> fixed[k], mutates |-> writes(fixed[k]),
                                             ty |-> ElementType(l, fixed[k])]]]
CodeFor(inputs, types, once, l) == CodeOf(inputs, types, once, l, FixedStorages(l, inputs))

Code(p, heap, regs, prepared) ==
  CodeFor(InputRegisters(p, prepared), InputTypes(p, regs, prepared), prepared.found, LowerLoop(p, heap, regs, prepared))

-----------------------------------------------------------------------------
(* The machine: registers, and the lists it is lent by reference. A word of    *)
(* another type than the code was made for is read all the same.               *)

Wild == <<"Wild">>
AsType(ty, word) == IF TypeOf(word) = ty THEN word ELSE Wild

GivenUp(m) == [m EXCEPT !.status = "GivenUp"]
IsLent(m, v) == IsRef(v) /\ v[2] \in DOMAIN m.lent
Reaches(m, list, key) == IsLent(m, list) /\ IsInt(key) /\ InBounds(m.lent[list[2]].items, key[2])

\* A sum of integers wraps and nothing is said of it; the record remembers.
MachineSum(a, b) ==
  CASE ~IsNumber(a) \/ ~IsNumber(b) -> Wild
    [] IsInt(a) /\ IsInt(b) -> IntValue(Wrap(a[2] + b[2]))
    [] OTHER -> FloatValue(a[2] + b[2])
Added(m, dst, a, b) == [Written(m, dst, MachineSum(a, b)) EXCEPT !.wrapped = @ \/ Overflows(a, b)]

Ran(m, op) ==
  LET read == [k \in DOMAIN op.reads |-> m.regs[op.reads[k]]]
  IN  CASE m.status # "Running" -> m
        [] op.op = "Const" -> Written(m, op.dst, op.value)
        [] op.op = "Move" -> Written(m, op.dst, read[1])
        [] op.op = "GetItem" ->
             IF Reaches(m, read[1], read[2])
             THEN Written(m, op.dst, AsType(op.ty, m.lent[read[1][2]].items[read[2][2] + 1])) ELSE GivenUp(m)
        [] op.op = "SetItem" ->
             IF Reaches(m, read[1], read[2]) /\ m.lent[read[1][2]].mutates
             THEN [m EXCEPT !.lent[read[1][2]].items[read[2][2] + 1] = read[3]] ELSE GivenUp(m)
        [] op.op = "ListAppend" ->
             IF IsLent(m, read[1]) /\ m.lent[read[1][2]].mutates
             THEN [m EXCEPT !.lent[read[1][2]].items = Append(@, read[2])] ELSE GivenUp(m)
        [] op.op = "Add" -> Added(m, op.dst, read[1], read[2])
        [] op.op = "Call" -> Added(m, op.dst, read[1], Addend(op.inlined, read[1]))

RanBody(code, m) ==
  LET after == FoldLeft(Ran, m, code.body)
  IN  IF after.status = "Running" THEN Added(after, "i", after.regs["i"], IntValue(1)) ELSE after

\* Code with prepared inputs leaves at the end of the body, other code when the
\* loop is over.
RanLoop(code, m) ==
  IF code.once THEN IF Enters(m.regs) THEN RanBody(code, m) ELSE m
  ELSE FoldLeft(LAMBDA x, k : IF x.status = "Running" /\ Enters(x.regs) THEN RanBody(code, x) ELSE x,
                m, [k \in 1 .. MaxTrips + 1 |-> k])

-----------------------------------------------------------------------------
(* One call of the code: the lists are copied, the code runs, what it wrote is *)
(* committed. Nothing has happened when it fails.                              *)

Failed == [success |-> FALSE, regs |-> <<>>, heap |-> <<>>, widened |-> FALSE, wrapped |-> FALSE]

Transaction(heap, reference, items, widened) ==
  [reference |-> reference, version |-> heap[reference].sequence.version, widened |-> widened, items |-> items]

StoredAs(strategy, items) == [k \in DOMAIN items |-> AsType(strategy, items[k])]

\* Lists of integers or lists of floats, never both; a widened list only alone.
Commit(heap, m, integers, floats) ==
  LET widened == \E k \in DOMAIN floats : floats[k].widened
  IN  IF /\ integers = <<>> \/ floats = <<>>
         /\ widened => Len(floats) = 1
         /\ CommitsHold(heap, "I64", integers) /\ CommitsHold(heap, "F64", floats)
      THEN [success |-> TRUE, regs |-> m.regs, widened |-> widened, wrapped |-> m.wrapped,
            heap |-> Committed(Committed(heap, "I64", integers), "F64", floats)]
      ELSE Failed

Started(values, lent) == [regs |-> values, lent |-> lent, status |-> "Running", wrapped |-> FALSE]

\* Lists known by name are lent as the type they were recorded with; integers may
\* be widened to floats on the first call.
OnceFixed(code, values, heap, widening) ==
  LET reference(k) == values[code.storages[k].register][2]
      sequence(k) == heap[reference(k)].sequence
      places == DOMAIN code.storages
      widens(k) == code.storages[k].ty = "F64" /\ sequence(k).strategy = "I64"
      isLendable(k) == /\ heap[reference(k)].kind = "List"
                       /\ \/ HasSnapshot(sequence(k), code.storages[k].ty)
                          \/ widening /\ widens(k)
      lentItems(k) == IF widens(k) THEN [j \in DOMAIN sequence(k).items |-> FloatValue(sequence(k).items[j][2])]
                      ELSE sequence(k).items
      lent == [r \in {reference(k) : k \in places} |->
                 LET k == CHOOSE j \in places : reference(j) = r
                 IN  [items |-> lentItems(k), mutates |-> code.storages[k].mutates]]
      after == RanLoop(code, Started(values, lent))
      written(ty) == SelectSeq([k \in places |-> k], LAMBDA k : code.storages[k].mutates /\ code.storages[k].ty = ty)
      transactions(ty) == [j \in DOMAIN written(ty) |->
                             LET k == written(ty)[j]
                             IN  Transaction(heap, reference(k), StoredAs(ty, after.lent[reference(k)].items), widens(k))]
  IN  IF /\ \A k \in places : isLendable(k)
         /\ \A j, k \in places : j # k => reference(j) # reference(k)
         /\ after.status = "Running"
      THEN Commit(heap, after, transactions("I64"), transactions("F64")) ELSE Failed

\* Every object that can be reached from the inputs.
Children(heap, references) ==
  UNION {{v[2] : v \in {w \in Range(heap[r].sequence.items) : IsRef(w)}} :
           r \in {q \in references : heap[q].kind \in {"List", "Tuple"}}}
Reached(heap, references) ==
  FoldLeft(LAMBDA all, k : all \cup Children(heap, all), references, [k \in DOMAIN heap |-> k])

\* Code that follows lists in lists is lent all of them, and may write to any list.
Named(code, values, r) == {k \in DOMAIN code.storages : values[code.storages[k].register] = RefValue(r)}
LentAll(code, values, heap, lists) ==
  [r \in lists |-> [items |-> heap[r].sequence.items,
                    mutates |-> IF Named(code, values, r) = {} THEN heap[r].kind = "List"
                                ELSE \E k \in Named(code, values, r) : code.storages[k].mutates]]

\* Lists that did not change are not written back, other lists than of numbers cannot be.
CommitChanged(heap, lent, after) ==
  LET changed(strategy) ==
        SetToSeq({r \in DOMAIN lent : heap[r].sequence.strategy = strategy /\ after.lent[r].items # lent[r].items})
      transactions(strategy, refs) ==
        [k \in DOMAIN refs |-> Transaction(heap, refs[k], StoredAs(strategy, after.lent[refs[k]].items), FALSE)]
  IN  IF after.status = "Running" /\ changed("Empty") = <<>> /\ changed("Object") = <<>> /\ Len(changed("I64")) <= 1
      THEN Commit(heap, after, transactions("I64", changed("I64")), transactions("F64", changed("F64"))) ELSE Failed

RunLent(code, values, heap, lent) == CommitChanged(heap, lent, RanLoop(code, Started(values, lent)))

OnceReached(code, values, heap, lists) ==
  IF /\ \A r \in lists : Cardinality(Named(code, values, r)) <= 1
     /\ \A k \in DOMAIN code.storages : values[code.storages[k].register][2] \in lists
  THEN RunLent(code, values, heap, LentAll(code, values, heap, lists)) ELSE Failed

OnceDynamic(code, values, heap) ==
  LET inputs == {v[2] : v \in {w \in {values[code.inputs[k]] : k \in DOMAIN code.inputs} : IsRef(w)}}
  IN  OnceReached(code, values, heap, {r \in Reached(heap, inputs) : heap[r].kind \in {"List", "Tuple"}})

Accepts(code, values) == \A k \in DOMAIN code.inputs : TypeOf(values[code.inputs[k]]) = code.types[k]

Once(code, values, heap, widening) ==
  CASE ~Accepts(code, values) -> Failed
    [] code.dynamic -> OnceDynamic(code, values, heap)
    [] OTHER -> OnceFixed(code, values, heap, widening)

=============================================================================
