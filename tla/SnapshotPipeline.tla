-------------------------- MODULE SnapshotPipeline --------------------------
(* The life of a snapshot in NativeCompiler::compile_tier1 and after it: a   *)
(* draft is sealed, the passes of the pipeline rewrite it one by one, each   *)
(* changed body being verified again, the result is run, and a run that      *)
(* leaves at a guard gives its frame back to the interpreter.                *)
(*                                                                           *)
(* First, what a side exit gives back (wxir_v2/materialize.rs, its engine.rs *)
(* and validate.rs): the registers of a recipe's frames, with the virtual    *)
(* objects they name allocated as one batch. Every source is checked before  *)
(* the batch is allocated.                                                   *)
EXTENDS OptimizerPasses

CONSTANTS Drafts,      \* the bodies the recorders may hand over, with their inputs
          Heap,        \* the heap a run starts with
          Capacity     \* the handles the heap has room for

ASSUME CapacityAssumption == Capacity \in Nat

\* A body is entered with a vector of values.
ASSUME DraftsAssumption ==
  \A draft \in Drafts : \A arguments \in draft.inputs :
    IsVector(arguments) /\ \A k \in DOMAIN arguments : arguments[k] # None

\* A call of a callee that was proved to add two numbers is recorded with two numbers and gives one
\* (the verifier asks nothing of the types of a call).
CallsAdd(snap, proofs) ==
  \A i \in Instructions(snap) : i.op = "Call" /\ Len(i.in) = 2 /\ (\E p \in proofs : p[1] = i.arg[2])
    => [k \in DOMAIN i.in |-> ValueTypes(snap)[i.in[k]]] = <<"I64", "I64">> /\ i.ty = "I64"

\* A read of a field is recorded as a read.
GetsRead(snap) == \A i \in Instructions(snap) : i.op = "ObjectGet" => ~IsBarrier(i)

ASSUME RecordersAssumption ==
  \A draft \in Drafts : Verified(draft.body) => CallsAdd(draft.body, draft.proofs) /\ GetsRead(draft.body)

\* The handles of a heap are numbers, as many as it has room for.
ASSUME HeapAssumption ==
  /\ Heap = [objects |-> Heap.objects, lists |-> Heap.lists]
  /\ DOMAIN Heap.objects \cup DOMAIN Heap.lists \subseteq 1..Capacity

\* DeoptEngine: the machine's values, its spill slots, the heap, whether the shape table still knows
\* the shapes of the recipe, and whether the helper is made to fail.
Engine(values, spills, heap, shapes, helper) ==
  [values |-> values, spills |-> spills, heap |-> heap, shapes |-> shapes, helper |-> helper]

\* resolve_external: the value of a source that is not a virtual; None when there is none.
External(engine, source) ==
  CASE source[1] = "Ssa" /\ source[2] \in DOMAIN engine.values -> engine.values[source[2]]
    [] source[1] = "Constant" /\ source[2][1] \in {"I64", "F64", "Bool"} -> source[2]
    [] source[1] = "Spill" /\ source[2] \in DOMAIN engine.spills -> engine.spills[source[2]]
    [] source[1] = "Dead" -> <<"Dead">>
    [] OTHER -> None

DependenciesComplete(recipe) ==
  /\ \A d \in recipe.deps : d.expected = d.observed
  /\ {"Executable", "Schema", "GcAbi", "HelperAbi"} \subseteq {d.kind : d \in recipe.deps}
  /\ \E d \in recipe.deps : d.kind = "Executable" /\ d.identity = recipe.exe.id /\ d.expected = recipe.exe.epoch

VirtualIds(recipe) == {v.id : v \in ToSet(recipe.virtuals)}

VirtualsValid(engine, recipe) ==
  /\ Cardinality(VirtualIds(recipe)) = Len(recipe.virtuals)
  /\ \A v \in ToSet(recipe.virtuals) :
       /\ v.kind = "Object" => engine.shapes
       /\ \A s \in VirtualSources(v) :
            IF s[1] = "Virtual" THEN s[2] \in VirtualIds(recipe)
            ELSE /\ External(engine, s) # None
                 /\ s[1] = "Spill" => External(engine, s)[1] = s[3]

RegisterValid(engine, recipe, reg) ==
  IF reg.source[1] = "Virtual" THEN reg.source[2] \in VirtualIds(recipe) /\ reg.ty = "Handle"
  ELSE /\ reg.source[1] = "Spill" => reg.source[3] = reg.ty
       /\ External(engine, reg.source)[1] \in {reg.ty, "Dead"}

FrameValid(engine, recipe, frame) ==
  /\ \A k \in DOMAIN frame.registers : \E r \in ToSet(frame.registers) : r.register = k - 1
  /\ {r.register : r \in {q \in ToSet(frame.registers) : q.source[1] = "Dead"}} = frame.dead
  /\ \A r \in ToSet(frame.registers) : RegisterValid(engine, recipe, r)

Handles(heap) == DOMAIN heap.objects \cup DOMAIN heap.lists

\* external_roots: every handle among the values and the spills must still resolve.
RootsResolve(engine) ==
  LET held == {engine.values[v] : v \in DOMAIN engine.values} \cup {engine.spills[s] : s \in DOMAIN engine.spills}
  IN  \A a \in held : a[1] = "Handle" => a[2] \in Handles(engine.heap)

\* allocate_graph_with_roots: all the objects or none.
BatchFits(engine, recipe) == Cardinality(Handles(engine.heap)) + Len(recipe.virtuals) <= Capacity

\* The handle of a virtual object: the batch is allocated in the order of the recipe.
VirtualHandle(engine, recipe, id) ==
  NextHandle(engine.heap) - 1 + CHOOSE k \in DOMAIN recipe.virtuals : recipe.virtuals[k].id = id

Resolved(engine, recipe, source) ==
  IF source[1] = "Virtual" THEN HandleTo(VirtualHandle(engine, recipe, source[2])) ELSE External(engine, source)

\* As if the fields were laid out in the order they are listed in.
FieldsByPlace(engine, recipe, items) ==
  [k \in 0..(Len(items) - 1) |-> Resolved(engine, recipe, items[k + 1][2])]

\* The fields of a rebuilt object, of which the last of several with one symbol counts.
Fields(engine, recipe, items) ==
  [key \in {items[k][1] : k \in DOMAIN items} |->
     Resolved(engine, recipe, items[Max({k \in DOMAIN items : items[k][1] = key})][2])]

Registers(engine, recipe, frame) ==
  [n \in 0..(Len(frame.registers) - 1) |->
     Resolved(engine, recipe, (CHOOSE r \in ToSet(frame.registers) : r.register = n).source)]

Rebuild(engine, recipe) ==
  LET base == NextHandle(engine.heap)
      Content(v) == IF v.kind = "Object" THEN Fields(engine, recipe, v.items)
                    ELSE [k \in DOMAIN v.items |-> Resolved(engine, recipe, v.items[k])]
      objects == [h \in DOMAIN engine.heap.objects \cup {VirtualHandle(engine, recipe, id) : id \in VirtualIds(recipe)} |->
                    IF h \in DOMAIN engine.heap.objects THEN engine.heap.objects[h]
                    ELSE Content(recipe.virtuals[h - base + 1])]
  IN  [ok |-> TRUE, frames |-> [k \in DOMAIN recipe.frames |-> Registers(engine, recipe, recipe.frames[k])],
       heap |-> [engine.heap EXCEPT !.objects = objects]]

Refused(engine) == [ok |-> FALSE, frames |-> <<>>, heap |-> engine.heap]

\* DeoptEngine::reconstruct.
Reconstruct(engine, recipe) ==
  IF /\ DependenciesComplete(recipe) /\ ~engine.helper
     /\ VirtualsValid(engine, recipe)
     /\ \A f \in ToSet(recipe.frames) : FrameValid(engine, recipe, f)
     /\ RootsResolve(engine)
     /\ BatchFits(engine, recipe)
  THEN Rebuild(engine, recipe) ELSE Refused(engine)

-----------------------------------------------------------------------------

VARIABLES original, body, stage, run, given

vars == <<original, body, stage, run, given>>

NotRun == <<"NotRun">>
NotGiven == [ok |-> FALSE, frames |-> <<>>]

Init ==
  /\ original \in Drafts
  /\ body = original.body
  /\ stage = "draft"
  /\ run = NotRun
  /\ given = NotGiven

\* VerifiedSnapshot::seal, whose sorting leaves a draft in the order it is kept in here.
Seal ==
  /\ stage = "draft"
  /\ stage' = IF Verified(body) THEN "PropagateAndFold" ELSE "rejected"
  /\ UNCHANGED <<original, body, run, given>>

\* One pass; derive_optimized verifies a body that changed, and an error ends the compilation.
Pass(name, next, rewritten) ==
  /\ stage = name
  /\ IF rewritten = body \/ Verified(rewritten)
     THEN body' = rewritten /\ stage' = next
     ELSE body' = body /\ stage' = "failed"
  /\ UNCHANGED <<original, run, given>>

PropagateAndFold == Pass("PropagateAndFold", "DirectObjectListCall", FoldConstants(body))
DirectObjectListCall == Pass("DirectObjectListCall", "GuardedInline", LowerDirect(body))
Inline == Pass("GuardedInline", "EscapeAndScalarReplace", GuardedInline(body, original.proofs))
EscapeAndScalarReplace == Pass("EscapeAndScalarReplace", "HeapForward", ScalarReplace(body))
ForwardHeap == Pass("HeapForward", "LicmAndGvn", HeapForward(body))
LicmAndGvn == Pass("LicmAndGvn", "compiled", NumberAdds(HoistOne(body)))

\* The compiled code is entered.
Enter ==
  /\ stage = "compiled"
  /\ \E arguments \in original.inputs : run' = Put(Replay(body, arguments, Heap), "arguments", arguments)
  /\ stage' = "ran"
  /\ UNCHANGED <<original, body, given>>

RecipeFor(b, id) == CHOOSE r \in ToSet(b.deopts) : r.id = id

\* The guard's frame is rebuilt, with or without a current shape table and a working helper.
Materialise ==
  /\ stage = "ran" /\ run.outcome[1] = "SideExit"
  /\ \E shapes, helper \in BOOLEAN :
       given' = Reconstruct(Engine(run.env, <<>>, run.heap, shapes, helper), RecipeFor(body, run.outcome[2]))
  /\ stage' = "resumed"
  /\ UNCHANGED <<original, body, run>>

Next == Seal \/ PropagateAndFold \/ DirectObjectListCall \/ Inline \/ EscapeAndScalarReplace \/ ForwardHeap
        \/ LicmAndGvn \/ Enter \/ Materialise

Spec == Init /\ [][Next]_vars

-----------------------------------------------------------------------------
Sealed == stage \notin {"draft", "rejected"}

\* What the interpreter can tell of a register: a number, or the content of the object it names. The
\* registers that name one object stay together.
Seen(frame, heap) ==
  [n \in DOMAIN frame |->
     IF frame[n][1] = "Handle" /\ frame[n][2] \in DOMAIN heap.objects
     THEN <<"Object", heap.objects[frame[n][2]], {m \in DOMAIN frame : frame[m] = frame[n]}>>
     ELSE frame[n]]

\* The same frame as the unoptimised body would give it back.
SeenFirst(whole) == Seen(whole.frames[1], whole.heap)

FrameAfter(plain) ==
  SeenFirst(Reconstruct(Engine(plain.env, <<>>, plain.heap, TRUE, FALSE),
                        RecipeFor(original.body, plain.outcome[2])))

OriginalFrame == FrameAfter(Replay(original.body, run.arguments, Heap))

\* The compared part of a run: what it returned or where it left, and what it did to the heap it was given.
Effect(r) ==
  [outcome |-> r.outcome,
   objects |-> [h \in DOMAIN Heap.objects |-> r.heap.objects[h]], lists |-> r.heap.lists]

\* No two values used as keys of objects hold one key. The pass that replaces objects tells fields apart
\* by the value that holds the key.
KeysApart(b, r) ==
  LET keys == {i.in[2] : i \in {j \in Instructions(b) : j.op \in {"ObjectGet", "ObjectSet"}}} \cap DOMAIN r.env
  IN  \A k, l \in keys : r.env[k] = r.env[l] => k = l

\* On every input the body means what the sealed draft meant, after any number of passes
\* (optimizer.rs: the pipeline; tests/task5_optimizer.rs compares them by replay).
MeansTheSame ==
  Sealed => \A arguments \in original.inputs :
    LET plain == Replay(original.body, arguments, Heap)
    IN  plain.outcome # Invalid /\ KeysApart(original.body, plain)
          => Effect(Replay(body, arguments, Heap)) = Effect(plain)

\* An object that is read in the block that makes it is used in that block only. The pass that replaces
\* objects looks at the uses in the block and at its terminator.
ReadWhereMade(b) ==
  \A home \in ToSet(b.blocks) : \A made \in {i \in ToSet(home.code) : i.op = "Allocate"} :
    (\E i \in ToSet(home.code) : i.op = "ObjectGet" /\ i.in[1] = made.out)
      => \A other \in ToSet(b.blocks) \ {home} :
           made.out \notin UNION {ToSet(i.in) : i \in ToSet(other.code)} \cup ToSet(TerminatorValues(other.term))

\* A pass never leaves a body that the verifier refuses, so a sealed draft always compiles.
PassesVerify == ReadWhereMade(original.body) => stage # "failed"

\* A verified body never reads a value that was not defined on the way there.
ReadsDefined ==
  Sealed => \A arguments \in original.inputs : ~Replay(body, arguments, Heap).undefined

\* The frame given back after a guard is the one the unoptimised code would give back, its objects
\* rebuilt with the fields they had; a refusal leaves the heap as it was.
FrameIsRebuilt ==
  stage = "resumed" =>
    IF given.ok THEN KeysApart(original.body, Replay(original.body, run.arguments, Heap))
                       => Seen(given.frames[1], given.heap) = OriginalFrame
    ELSE given.heap = run.heap

=============================================================================
