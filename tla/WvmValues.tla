----------------------------- MODULE WvmValues -----------------------------
(***************************************************************************)
(* Values of the WVM and what its operations do with them.  Integers that  *)
(* fit are SmallInts, others are objects of the heap, which only grows.    *)
(* Floats are whole numbers; strings, dictionaries and classes are left    *)
(* out, and so are division and power.                                     *)
(***************************************************************************)
EXTENDS Bytecode, SequencesExt

Val(kind, n) == [kind |-> kind, n |-> n]
SmallInt(n) == Val("SmallInt", n)
Float(n) == Val("Float", n)
Bool(b) == Val("Bool", IF b THEN 1 ELSE 0)
None == Val("None", 0)
Uninitialized == Val("Uninitialized", 0)
Object(reference) == Val("Object", reference)

\* An object of the heap: its items, its number or the name of its function.
Obj(kind, items, n, name) == [kind |-> kind, items |-> items, n |-> n, name |-> name]

\* What an operation leaves: the heap and a value, or how it failed.
Gives(heap, value) == [heap |-> heap, value |-> value, fail |-> ""]
Fails(heap, kind) == [heap |-> heap, value |-> None, fail |-> kind]

Allocated(heap, object) == Gives(Append(heap, object), Object(Len(heap) + 1))

\* The slot type a value has.
KindOf(heap, v) == IF v.kind = "Object" THEN heap[v.n].kind ELSE v.kind

IsSequence(heap, v) == KindOf(heap, v) \in {"List", "Tuple"}
IsNumber(heap, v) == KindOf(heap, v) \in {"SmallInt", "Float", "BigInt"}
NumberOf(heap, v) == IF v.kind = "Object" THEN heap[v.n].n ELSE v.n

-----------------------------------------------------------------------------
Magnitude(n) == IF n < 0 THEN -n ELSE n

\* Integer division as the hardware and Rust's `/` do it: towards zero.
Quotient(a, b) ==
  LET q == Magnitude(a) \div Magnitude(b) IN IF (a < 0) = (b < 0) THEN q ELSE -q
Remainder(a, b) == a - b * Quotient(a, b)

\* checked_div_euclid of two SmallInts: for a negative divisor with a remainder it rounds
\* up, unlike DivideFloor (7 // -2 is -3).
DivideEuclid(a, b) ==
  LET q == Quotient(a, b)
  IN IF Remainder(a, b) >= 0 THEN q ELSE IF b > 0 THEN q - 1 ELSE q + 1

\* The quotient of BigInts and of a leaf.
DivideFloor(a, b) ==
  Quotient(a, b) - IF Remainder(a, b) # 0 /\ (a < 0) # (b < 0) THEN 1 ELSE 0

Exact(op, a, b) ==
  CASE op = "Add" -> a + b
    [] op = "Subtract" -> a - b
    [] op = "Multiply" -> a * b
    [] op = "FloorDivide" -> DivideFloor(a, b)

BigInt(heap, n) == Allocated(heap, Obj("BigInt", <<>>, n, ""))

\* Two SmallInts give a SmallInt if the result fits; a BigInt gives a BigInt, whether it
\* fits or not, except from a division.
IntegerResult(heap, kinds, op, n) ==
  IF n \in SmallInts /\ ("BigInt" \notin kinds \/ op = "FloorDivide")
  THEN Gives(heap, SmallInt(n)) ELSE BigInt(heap, n)

\* add, subtract, multiply and floor_divide of two numbers.
Arithmetic(heap, op, lhs, rhs) ==
  LET kinds == {KindOf(heap, lhs), KindOf(heap, rhs)}
      a == NumberOf(heap, lhs)
      b == NumberOf(heap, rhs)
  IN CASE op = "FloorDivide" /\ b = 0 -> Fails(heap, "DivisionByZero")
       [] "Float" \in kinds /\ ~(op = "FloorDivide" /\ b = 0) ->
            Gives(heap, Float(Exact(op, a, b)))
       [] op = "FloorDivide" /\ b # 0 /\ kinds = {"SmallInt"} /\ DivideEuclid(a, b) \in SmallInts ->
            Gives(heap, SmallInt(DivideEuclid(a, b)))
       [] OTHER -> IntegerResult(heap, kinds, op, Exact(op, a, b))

\* sequence_repeat: how often, or nothing if the value is no count.
RepeatCount(heap, v) ==
  CASE KindOf(heap, v) \in {"SmallInt", "BigInt"} ->
         <<IF NumberOf(heap, v) < 0 THEN 0 ELSE NumberOf(heap, v)>>
    [] OTHER -> <<>>

Repeated(heap, v, count) ==
  LET object == heap[v.n]
  IN IF count >= 2 ^ Width THEN Fails(heap, "Type")
     ELSE Allocated(heap, Obj(object.kind,
                              FlattenSeq([i \in 1 .. count |-> object.items]), 0, ""))

Binary(heap, op, lhs, rhs) ==
  CASE op = "Add" /\ IsSequence(heap, lhs) /\ KindOf(heap, lhs) = KindOf(heap, rhs) ->
         Allocated(heap, Obj(heap[lhs.n].kind, heap[lhs.n].items \o heap[rhs.n].items, 0, ""))
    [] op = "Multiply" /\ IsSequence(heap, lhs) /\ RepeatCount(heap, rhs) # <<>> ->
         Repeated(heap, lhs, RepeatCount(heap, rhs)[1])
    [] op = "Multiply" /\ IsSequence(heap, rhs) /\ RepeatCount(heap, lhs) # <<>> ->
         Repeated(heap, rhs, RepeatCount(heap, lhs)[1])
    [] IsNumber(heap, lhs) /\ IsNumber(heap, rhs) -> Arithmetic(heap, op, lhs, rhs)
    [] OTHER -> Fails(heap, "Type")

Unary(heap, op, v) ==
  CASE op = "Not" /\ v.kind = "Bool" -> Gives(heap, Bool(v.n = 0))
    [] op = "Negate" /\ v.kind = "Float" -> Gives(heap, Float(-v.n))
    [] op = "Negate" /\ KindOf(heap, v) \in {"SmallInt", "BigInt"} ->
         IntegerResult(heap, {KindOf(heap, v)}, op, -NumberOf(heap, v))
    [] OTHER -> Fails(heap, "Type")

-----------------------------------------------------------------------------
\* values_equal: numbers by their values, sequences item by item; a pair of sequences
\* met again while it is compared counts as equal.
RECURSIVE EqualWithin(_, _, _, _)
EqualWithin(heap, a, b, visiting) ==
  CASE IsNumber(heap, a) /\ IsNumber(heap, b) -> NumberOf(heap, a) = NumberOf(heap, b)
    [] a.kind # "Object" /\ a.kind = b.kind -> a = b /\ a.kind # "None"
    [] a.kind = "Object" /\ a = b -> TRUE
    [] IsSequence(heap, a) /\ KindOf(heap, a) = KindOf(heap, b) /\ a # b ->
         \/ {a.n, b.n} \in visiting
         \/ /\ Len(heap[a.n].items) = Len(heap[b.n].items)
            /\ \A i \in DOMAIN heap[a.n].items :
                 EqualWithin(heap, heap[a.n].items[i], heap[b.n].items[i],
                             visiting \cup {{a.n, b.n}})
    [] KindOf(heap, a) = "Function" /\ KindOf(heap, b) = "Function" ->
         heap[a.n].name = heap[b.n].name
    [] OTHER -> FALSE

Ordered(op, a, b) ==
  CASE op = "Lt" -> a < b
    [] op = "Le" -> a <= b
    [] op = "Gt" -> a > b
    [] op = "Ge" -> a >= b
    [] op = "Eq" -> a = b
    [] op = "NotEq" -> a # b

Compare(heap, op, lhs, rhs) ==
  CASE op \in {"Eq", "NotEq"} ->
         Gives(heap, Bool(EqualWithin(heap, lhs, rhs, {}) = (op = "Eq")))
    [] op \notin {"Eq", "NotEq"} /\ IsNumber(heap, lhs) /\ IsNumber(heap, rhs) ->
         Gives(heap, Bool(Ordered(op, NumberOf(heap, lhs), NumberOf(heap, rhs))))
    [] OTHER -> Fails(heap, "Type")

-----------------------------------------------------------------------------
\* The position an index stands for: a negative one counts from the end.
Position(n, length) == IF n < 0 THEN length + n + 1 ELSE n + 1

IsIndex(heap, key) == KindOf(heap, key) \in {"SmallInt", "BigInt"}

\* sequence_index: how an access fails, or "".
IndexFails(heap, key, length) ==
  CASE ~IsIndex(heap, key) -> "Type"
    [] IsIndex(heap, key) /\ Position(NumberOf(heap, key), length) \notin 1 .. length -> "Index"
    [] OTHER -> ""

\* An access to the items of an object that is of one of the kinds.
AccessFails(heap, object, kinds, key) ==
  IF KindOf(heap, object) \in kinds
  THEN IndexFails(heap, key, Len(heap[object.n].items)) ELSE "Type"

PositionIn(heap, object, key) == Position(NumberOf(heap, key), Len(heap[object.n].items))

GetItem(heap, object, key) ==
  LET fail == AccessFails(heap, object, {"List", "Tuple"}, key)
  IN IF fail # "" THEN Fails(heap, fail)
     ELSE Gives(heap, heap[object.n].items[PositionIn(heap, object, key)])

SetItem(heap, object, key, value) ==
  LET fail == AccessFails(heap, object, {"List"}, key)
  IN IF fail # "" THEN Fails(heap, fail)
     ELSE Gives([heap EXCEPT ![object.n].items[PositionIn(heap, object, key)] = value], None)

AppendList(heap, list, value) ==
  IF KindOf(heap, list) # "List" THEN Fails(heap, "Type")
  ELSE Gives([heap EXCEPT ![list.n].items = Append(@, value)], None)

\* An index beyond either end is the end.
InsertList(heap, list, index, value) ==
  LET length == Len(heap[list.n].items)
      n == NumberOf(heap, index)
      before == CASE n < -length -> 0
                  [] n < 0 /\ n >= -length -> length + n
                  [] n >= 0 -> IF n < length THEN n ELSE length
  IN IF KindOf(heap, list) # "List" \/ ~IsIndex(heap, index) THEN Fails(heap, "Type")
     ELSE IF n \notin SmallInts THEN Fails(heap, "Index")
     ELSE Gives([heap EXCEPT ![list.n].items = InsertAt(@, before + 1, value)], None)

PopList(heap, list, index) ==
  LET fail == AccessFails(heap, list, {"List"}, index)
      position == PositionIn(heap, list, index)
  IN IF fail # "" THEN Fails(heap, fail)
     ELSE Gives([heap EXCEPT ![list.n].items = RemoveAt(@, position)],
                heap[list.n].items[position])

Length(heap, v) ==
  IF IsSequence(heap, v) THEN Gives(heap, SmallInt(Len(heap[v.n].items)))
  ELSE Fails(heap, "Type")
=============================================================================
