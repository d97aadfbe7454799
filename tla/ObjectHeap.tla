----------------------------- MODULE ObjectHeap ------------------------------
(***************************************************************************)
(* The heap of one execution (object/heap.rs) as loops see it: functions, and *)
(* lists and tuples of which machine code borrows copies.  A heap is a     *)
(* sequence of objects, a reference its place; nothing is allocated or     *)
(* removed here.                                                           *)
(*                                                                         *)
(* Values of one kind are stored as such, anything else as slots, and the  *)
(* layout version tells a borrower that the storage it knew is gone        *)
(* (object/sequence.rs).                                                   *)
(***************************************************************************)
EXTENDS Integers, Sequences, SequencesExt

CONSTANT MaxVersion     \* where the layout version saturates (u64::MAX)

ASSUME MaxVersionAssumption == MaxVersion \in Nat

IntValue(n) == <<"Int", n>>
\* An integer too big for a word lives in the heap and never changes there; here
\* it is its value.
BigValue(n) == <<"Big", n>>
FloatValue(n) == <<"Float", n>>
RefValue(reference) == <<"Ref", reference>>
Uninitialized == <<"Uninitialized">>

IsInt(v) == v[1] = "Int"
IsBig(v) == v[1] = "Big"
IsFloat(v) == v[1] = "Float"
IsRef(v) == v[1] = "Ref"
IsNumber(v) == IsInt(v) \/ IsBig(v) \/ IsFloat(v)

-----------------------------------------------------------------------------
StrategyOf(values) ==
  CASE values = <<>> -> "Empty"
    [] \A k \in DOMAIN values : IsInt(values[k]) -> "I64"
    [] \A k \in DOMAIN values : IsFloat(values[k]) -> "F64"
    [] OTHER -> "Object"

FromValues(values) == [strategy |-> StrategyOf(values), items |-> values, version |-> 0]

\* Whether a value can be stored as it is.
Fits(sequence, v) == sequence.strategy \in {"Object", StrategyOf(<<v>>)}

Bumped(sequence) == [sequence EXCEPT !.version = IF @ < MaxVersion THEN @ + 1 ELSE @]

\* A value of another kind turns the storage into slots.
SetItem(sequence, index, v) ==
  LET items == [sequence.items EXCEPT ![index + 1] = v]
  IN  IF Fits(sequence, v) THEN [sequence EXCEPT !.items = items]
      ELSE Bumped([sequence EXCEPT !.items = items, !.strategy = "Object"])

InsertItem(sequence, index, v) ==
  LET items == InsertAt(sequence.items, index + 1, v)
      strategy == CASE sequence.strategy = "Empty" -> StrategyOf(<<v>>)
                    [] Fits(sequence, v) -> sequence.strategy
                    [] OTHER -> "Object"
  IN  Bumped([sequence EXCEPT !.items = items, !.strategy = strategy])

Push(sequence, v) == InsertItem(sequence, Len(sequence.items), v)

-----------------------------------------------------------------------------
(* A copy goes out under the version it is of and comes back under it.        *)

HasSnapshot(sequence, strategy) == sequence.strategy \in {"Empty", strategy}

CanCommit(sequence, strategy, version) == sequence.version = version /\ HasSnapshot(sequence, strategy)

CanCommitWidened(sequence, version) == sequence.version = version /\ sequence.strategy = "I64"

Applied(sequence, strategy, items) ==
  Bumped([sequence EXCEPT !.items = items, !.strategy = IF items = <<>> THEN "Empty" ELSE strategy])

-----------------------------------------------------------------------------

ListObject(items) == [kind |-> "List", sequence |-> FromValues(items)]
TupleObject(items) == [kind |-> "Tuple", sequence |-> FromValues(items)]
FunctionObject(id) == [kind |-> "Function", id |-> id]

IsSequence(heap, v) == IsRef(v) /\ heap[v[2]].kind \in {"List", "Tuple"}
IsList(heap, v) == IsRef(v) /\ heap[v[2]].kind = "List"
IsFunction(heap, v) == IsRef(v) /\ heap[v[2]].kind = "Function"
SequenceOf(heap, v) == heap[v[2]].sequence

References(heap) == DOMAIN heap

\* A commit is [reference, version, items, widened].
CommitHolds(heap, strategy, c) ==
  /\ heap[c.reference].kind = "List"
  /\ IF c.widened THEN CanCommitWidened(heap[c.reference].sequence, c.version)
                  ELSE CanCommit(heap[c.reference].sequence, strategy, c.version)

\* All of them or, when one is stale, stored otherwise or there twice, none.
CommitsHold(heap, strategy, commits) ==
  /\ \A j, k \in DOMAIN commits : j # k => commits[j].reference # commits[k].reference
  /\ \A k \in DOMAIN commits : CommitHolds(heap, strategy, commits[k])

Committed(heap, strategy, commits) ==
  FoldLeft(LAMBDA h, c : [h EXCEPT ![c.reference].sequence = Applied(@, strategy, c.items)], heap, commits)

=============================================================================
