--------------------------- MODULE SnapshotReplay ---------------------------
(* The reference interpreter of WXIR v2 (wxir_v2/replay.rs): what a snapshot *)
(* means, and what every pass and every back end is compared with. Integers  *)
(* wrap at -Half and Half - 1 as i64 does; the floats are whole numbers, and *)
(* FloatDivide and FloatPower are left out.                                  *)
EXTENDS Snapshot

CONSTANTS Half, StepLimit

ASSUME ReplayAssumption == Half \in Nat \ {0} /\ StepLimit \in Nat \ {0}

Integer(n) == <<"I64", n>>
FloatBits(n) == <<"F64", n>>
Boolean(b) == <<"Bool", b>>
HandleTo(h) == <<"Handle", h>>
None == <<"None">>

Wrap(n) == ((n + Half) % (2 * Half)) - Half

\* i64::div_euclid: the remainder is never negative.
EuclidDivide(n, d) == IF d > 0 THEN n \div d ELSE -(n \div (-d))

Compare(comparison, a, b) ==
  CASE comparison = "Equal" -> a = b
    [] comparison = "NotEqual" -> a # b
    [] comparison = "LessThan" -> a < b
    [] comparison = "LessEqual" -> a <= b
    [] comparison = "GreaterThan" -> a > b
    [] comparison = "GreaterEqual" -> a >= b

Shape(in) == [k \in DOMAIN in |-> in[k][1]]

\* The operations on numbers and booleans; None when an input has another type.
Pure(op, arg, in) ==
  LET a == in[1][2]
      b == in[2][2]
      Ints(n) == in \in [1..n -> {"I64"} \X Int]
      Floats(n) == Shape(in) = [k \in 1..n |-> "F64"]
      Bools(n) == Shape(in) = [k \in 1..n |-> "Bool"]
  IN  CASE op = "Constant" /\ arg[1] \in {"I64", "F64", "Bool"} -> arg
        [] op = "Copy" /\ in # <<>> -> in[1]
        [] op \in {"IntegerAdd", "Call"} /\ Ints(2) -> Integer(Wrap(a + b))
        [] op = "IntegerSubtract" /\ Ints(2) -> Integer(Wrap(a - b))
        [] op = "IntegerMultiply" /\ Ints(2) -> Integer(Wrap(a * b))
        [] op = "IntegerFloorDivide" /\ Ints(1) -> Integer(EuclidDivide(a, arg[2]))
        [] op = "IntegerToFloat" /\ Ints(1) -> FloatBits(a)
        [] op = "IntegerLessThan" /\ Ints(2) -> Boolean(a < b)
        [] op = "IntegerCompare" /\ Ints(2) -> Boolean(Compare(arg[2], a, b))
        [] op = "FloatAdd" /\ Floats(2) -> FloatBits(a + b)
        [] op = "FloatSubtract" /\ Floats(2) -> FloatBits(a - b)
        [] op = "FloatMultiply" /\ Floats(2) -> FloatBits(a * b)
        [] op = "FloatCompare" /\ Floats(2) -> Boolean(Compare(arg[2], a, b))
        [] op = "IntegerNegate" /\ Ints(1) -> Integer(Wrap(-a))
        [] op = "FloatNegate" /\ Floats(1) -> FloatBits(-a)
        [] op = "BooleanNot" /\ Bools(1) -> Boolean(~a)
        [] op = "BooleanAnd" /\ Bools(2) -> Boolean(a /\ b)
        [] op = "BooleanOr" /\ Bools(2) -> Boolean(a \/ b)
        [] op = "Select" /\ Len(in) = 3 /\ in[1][1] = "Bool" -> IF a THEN in[2] ELSE in[3]
        [] OTHER -> None

PureOps == {"Constant", "Copy", "IntegerAdd", "Call", "IntegerSubtract", "IntegerMultiply",
            "IntegerFloorDivide", "IntegerToFloat", "IntegerLessThan", "IntegerCompare", "FloatAdd",
            "FloatSubtract", "FloatMultiply", "FloatCompare", "IntegerNegate", "FloatNegate",
            "BooleanNot", "BooleanAnd", "BooleanOr", "Select"}

\* What an operation gives: a value or None, and the heap after it. Failed ends the replay.
Gives(value, heap) == [ok |-> TRUE, value |-> value, heap |-> heap]
Failed(heap) == [ok |-> FALSE, value |-> None, heap |-> heap]

Put(f, k, v) == [x \in DOMAIN f \cup {k} |-> IF x = k THEN v ELSE f[x]]

NextHandle(heap) == 1 + Max({0} \cup DOMAIN heap.objects \cup DOMAIN heap.lists)

ObjectOp(op, in, heap) ==
  LET object == in[1][2]
      known == object \in DOMAIN heap.objects
  IN  CASE op = "ObjectGet" /\ Shape(in) = <<"Handle", "I64">> ->
             Gives(IF known /\ in[2][2] \in DOMAIN heap.objects[object]
                   THEN heap.objects[object][in[2][2]] ELSE None, heap)
        [] op = "ObjectSet" /\ Len(in) = 3 /\ SubSeq(Shape(in), 1, 2) = <<"Handle", "I64">> /\ known ->
             Gives(None, [heap EXCEPT !.objects[object] = Put(@, in[2][2], in[3])])
        [] OTHER -> Failed(heap)

\* Where a Python index points: insert clamps it, pop does not.
InsertIndex(index, length) ==
  IF index < 0 THEN Max({0, length + index}) ELSE Min({index, length})
PopIndex(index, length) == IF index < 0 THEN length + index ELSE index

ListRead(op, in, heap) ==
  LET items == heap.lists[in[1][2]]
  IN  CASE op = "ListGet" /\ Shape(in) = <<"Handle", "I64">> /\ in[2][2] >= 0 ->
             Gives(IF in[1][2] \in DOMAIN heap.lists /\ in[2][2] < Len(items) THEN items[in[2][2] + 1] ELSE None,
                   heap)
        [] op = "ListLength" /\ Shape(in) = <<"Handle">> /\ in[1][2] \in DOMAIN heap.lists ->
             Gives(Integer(Len(items)), heap)
        [] OTHER -> Failed(heap)

ListWrite(op, arg, in, heap) ==
  LET list == in[1][2]
      items == heap.lists[list]
      k == in[2][2]
      Become(new, value) == Gives(value, [heap EXCEPT !.lists[list] = new])
      at == PopIndex(k, Len(items))
  IN  CASE op = "ListSet" /\ Len(in) = 3 /\ in[2][1] = "I64" /\ k \in 0..(Len(items) - 1) ->
             Become([items EXCEPT ![k + 1] = in[3]], None)
        [] op = "ListReversePrefix" /\ arg[2] = "I64" /\ in[2][1] = "I64" /\ k \in 1..Len(items)
             /\ \A j \in 1..k : items[j][1] = "I64" ->
             Become(Reverse(SubSeq(items, 1, k)) \o SubSeq(items, k + 1, Len(items)), None)
        [] op = "ListClear" /\ Len(in) = 1 -> Become(<<>>, in[1])
        [] op = "ListAppend" /\ Len(in) = 2 -> Become(Append(items, in[2]), None)
        [] op = "ListInsert" /\ Len(in) = 3 /\ in[2][1] = "I64" ->
             Become(InsertAt(items, InsertIndex(k, Len(items)) + 1, in[3]), in[1])
        [] op = "ListPop" /\ Len(in) = 2 /\ in[2][1] = "I64" /\ at \in 0..(Len(items) - 1) ->
             Become(RemoveAt(items, at + 1), items[at + 1])
        [] OTHER -> Failed(heap)

Execute(op, arg, in, heap) ==
  CASE op \in PureOps -> (LET v == Pure(op, arg, in) IN IF v = None THEN Failed(heap) ELSE Gives(v, heap))
    [] op = "Allocate" ->
         Gives(HandleTo(NextHandle(heap)), [heap EXCEPT !.objects = Put(@, NextHandle(heap), <<>>)])
    [] op \in {"ObjectGet", "ObjectSet"} -> ObjectOp(op, in, heap)
    [] op \in {"ListGet", "ListLength"} -> ListRead(op, in, heap)
    [] op \in {"ListSet", "ListReversePrefix", "ListClear", "ListAppend", "ListInsert", "ListPop"} ->
         IF in # <<>> /\ in[1][1] = "Handle" /\ in[1][2] \in DOMAIN heap.lists
         THEN ListWrite(op, arg, in, heap) ELSE Failed(heap)
    [] op \in {"Guard", "BranchGuard", "NestedLoopExit", "LiveProbe"} -> Gives(None, heap)
    [] OTHER -> Failed(heap)

\* A run: where it is, the values known so far, those an instruction was to give and did not (a field
\* or an item that is not there), the heap, and its outcome once it has one. "undefined" says that it
\* ended because it read a value that no instruction it ran defines.
Running == <<"Running">>
Invalid == <<"Invalid">>

Start(body, arguments, heap) ==
  [block |-> body.entry, incoming |-> arguments, env |-> <<>>, missing |-> {}, heap |-> heap,
   outcome |-> Running, undefined |-> FALSE]

Lookup(ids, env) == [k \in DOMAIN ids |-> env[ids[k]]]
Known(ids, env) == ToSet(ids) \subseteq DOMAIN env
ReadsUndefined(ids, run) == ~(ToSet(ids) \subseteq DOMAIN run.env \cup run.missing)

StepInstruction(run, instr) ==
  IF run.outcome # Running THEN run
  ELSE IF ~Known(instr.in, run.env) THEN [run EXCEPT !.outcome = Invalid, !.undefined = ReadsUndefined(instr.in, run)]
  ELSE LET in == Lookup(instr.in, run.env)
           result == Execute(instr.op, instr.arg, in, run.heap)
       IN  IF ~result.ok THEN [run EXCEPT !.outcome = Invalid]
           ELSE [run EXCEPT
                   !.heap = result.heap,
                   !.env = IF instr.out # 0 /\ result.value # None THEN Put(@, instr.out, result.value) ELSE @,
                   !.missing = IF instr.out # 0 /\ result.value = None THEN @ \cup {instr.out} ELSE @,
                   !.outcome = IF instr.op = "Guard" /\ (in = <<>> \/ in[1] # Boolean(TRUE))
                               THEN <<"SideExit", instr.arg[2]>> ELSE @]

StepTerminator(run, term) ==
  IF run.outcome # Running THEN run
  ELSE CASE term.kind = "Jump" ->
              [run EXCEPT !.block = term.target,
                          !.incoming = IF Known(term.args, run.env) THEN Lookup(term.args, run.env) ELSE <<>>]
         [] term.kind = "Branch" /\ Known(<<term.cond>>, run.env) /\ run.env[term.cond][1] = "Bool" ->
              [run EXCEPT !.block = IF run.env[term.cond][2] THEN term.yes ELSE term.no, !.incoming = <<>>]
         [] term.kind = "Return" /\ Known(term.values, run.env) ->
              [run EXCEPT !.outcome = <<"Return", Lookup(term.values, run.env)>>]
         [] term.kind = "SideExit" -> [run EXCEPT !.outcome = <<"SideExit", term.id>>]
         [] OTHER -> [run EXCEPT !.outcome = Invalid,
                                 !.undefined = ReadsUndefined(TerminatorValues(term), run)]

\* The parameters of a block take the values it is entered with.
BindParameters(run, params) ==
  [run EXCEPT !.env = [v \in DOMAIN @ \cup {p.id : p \in ToSet(params)} |->
     IF \E k \in DOMAIN params : params[k].id = v
     THEN run.incoming[CHOOSE k \in DOMAIN params : params[k].id = v] ELSE @[v]]]

StepCode(run, code) ==
  LET after[k \in 0..Len(code)] == IF k = 0 THEN run ELSE StepInstruction(after[k - 1], code[k])
  IN  after[Len(code)]

StepBlock(body, run) ==
  LET block == BlockAt(body, run.block)
  IN  IF run.outcome # Running THEN run
      ELSE IF run.block \notin BlockIds(body) \/ Len(block.params) # Len(run.incoming)
           THEN [run EXCEPT !.outcome = Invalid]
           ELSE StepTerminator(StepCode(BindParameters(run, block.params), block.code), block.term)

\* The whole run; one that is still going after StepLimit blocks has no outcome.
Replay(body, arguments, heap) ==
  LET after[k \in 0..StepLimit] == IF k = 0 THEN Start(body, arguments, heap) ELSE StepBlock(body, after[k - 1])
  IN  after[StepLimit]

=============================================================================
