--------------------------- MODULE WvmInterpreter ---------------------------
(***************************************************************************)
(* A Python function is compiled and run, one instruction at a time, by    *)
(* the interpreter alone or by the interpreter of an engine that profiles, *)
(* whose calls may go to a numeric leaf.  The regions that engine compiles *)
(* are left out, and so are the caches of constants and call targets,      *)
(* which hold what would be made again.                                    *)
(***************************************************************************)
EXTENDS PythonLowering, PythonMeaning

CONSTANTS
  Programs,   \* a sequence of [suite, name, calls]: a module, the name of a function of it
              \* and sequences of arguments, trees of values
  Executables,  \* what compile_python_function makes of each: executables by name, or nothing
  Engines,    \* a subset of {"plain", "profiled"}
  MaxDepth,   \* MAX_GUEST_CALL_DEPTH
  LeafRegisters,  \* the registers a leaf's plan has room for
  Meanings    \* for each program and call what the source means

ASSUME ExecutablesAssumption ==
  Executables = [p \in DOMAIN Programs |-> CompileNamed(Programs[p].suite, Programs[p].name, {})]
ASSUME EnginesAssumption == Engines \subseteq {"plain", "profiled"}
ASSUME LeafRegistersAssumption == LeafRegisters \in Nat
ASSUME DepthAssumption == MaxDepth \in Nat \ {0}

VARIABLES
  program,    \* which program, and which of its calls
  engine,
  phase,      \* "source", "refused", "running", "returned" or "failed"
  frames,     \* the active calls, innermost last
  heap,
  result,     \* the value returned
  failure,    \* how it failed
  rounded     \* history: a leaf rounded where the interpreter rounds the other way

vars == <<program, engine, phase, frames, heap, result, failure, rounded>>

Functions == Executables[program[1]]
Main == Programs[program[1]].name
Arguments == Programs[program[1]].calls[program[2]]

-----------------------------------------------------------------------------
(* A function of numbers without branches is called as machine code where  *)
(* the engine that profiles calls it.  Its registers are words: what a     *)
(* word stands for is known from the plan, which has the type of every     *)
(* register.  What does not fit a word, and a division by zero, gives the  *)
(* call up and leaves it to the interpreter.                               *)

LeafTypes == {"SmallInt", "Float", "Bool"}

\* The type an operation gives its register, or "None" if the leaf has no such operation.
LeafType(types, i) ==
  CASE i.op = "ConstSmallInt" -> "SmallInt"
    [] i.op = "ConstFloat" -> "Float"
    [] i.op = "ConstBool" -> "Bool"
    [] i.op \in {"Move", "Return"} -> types[i.ins[1]]
    [] i.op = "BinaryOp" ->
         CASE \E k \in {1, 2} : types[i.ins[k]] \in {"None", "Bool"} -> "None"
           [] {types[i.ins[k]] : k \in {1, 2}} = {"SmallInt"} -> "SmallInt"
           [] OTHER -> "Float"
    [] OTHER -> "None"

\* The types of the registers after the first n instructions, or nothing if one of these
\* has no place in a leaf.
RECURSIVE TypesAfter(_, _)
TypesAfter(f, n) ==
  IF n = 0
  THEN <<[r \in 1 .. f.registers |-> IF r \in DOMAIN f.params THEN f.params[r].ty ELSE "None"]>>
  ELSE LET before == TypesAfter(f, n - 1)
           i == f.code[n]
       IN IF before = <<>> THEN <<>>
          ELSE IF LeafType(before[1], i) = "None" THEN <<>>
          ELSE IF i.op = "Return" THEN before
          ELSE <<[before[1] EXCEPT ![i.dst] = LeafType(before[1], i)]>>

\* NumericLeafPlan::new: whether the function is a leaf.
IsLeaf(f) ==
  /\ f.registers <= LeafRegisters
  /\ \A i \in DOMAIN f.params : f.params[i].ty \in LeafTypes
  /\ TypesAfter(f, Len(f.code)) # <<>>
  /\ Last(f.code).op = "Return"

-----------------------------------------------------------------------------
\* A run of a leaf: its words, whether it was given up, whether a division rounded where
\* the interpreter's rounds the other way, and the word it returned, if it did.
LeafStart(f, words) ==
  [words |-> [r \in 1 .. f.registers |-> IF r \in DOMAIN words THEN words[r] ELSE 0],
   gaveUp |-> FALSE, rounded |-> FALSE, returned |-> <<>>]

RoundsApart(op, a, b) == op = "FloorDivide" /\ b < 0 /\ Remainder(a, b) # 0

\* guard: an integer operation whose result does not fit a word fails.
FitsWord(kind, n) == kind = "SmallInt" => n \in SmallInts

LeafBinary(run, i, kind) ==
  LET a == run.words[i.ins[1]]
      b == run.words[i.ins[2]]
      divides == i.operator = "FloorDivide"
  IN IF divides /\ b = 0 THEN [run EXCEPT !.gaveUp = TRUE]
     ELSE IF ~FitsWord(kind, Exact(i.operator, a, b)) THEN [run EXCEPT !.gaveUp = TRUE]
     ELSE [run EXCEPT !.words[i.dst] = Exact(i.operator, a, b),
                      !.rounded = @ \/ (kind = "SmallInt" /\ RoundsApart(i.operator, a, b))]

LeafStep(f, run, pc) ==
  LET i == f.code[pc] IN
  CASE run.gaveUp \/ run.returned # <<>> -> run
    [] ~(run.gaveUp \/ run.returned # <<>>) ->
         CASE i.op = "Return" -> [run EXCEPT !.returned = <<run.words[i.ins[1]]>>]
           [] i.op = "Move" -> [run EXCEPT !.words[i.dst] = run.words[i.ins[1]]]
           [] i.op = "BinaryOp" ->
                LeafBinary(run, i, LeafType(TypesAfter(f, pc - 1)[1], i))
           [] OTHER -> [run EXCEPT !.words[i.dst] = i.n]

\* execute_compiled: the run of a leaf on the arguments' words.
LeafRun(f, words) ==
  FoldLeft(LAMBDA run, pc : LeafStep(f, run, pc), LeafStart(f, words),
           [pc \in DOMAIN f.code |-> pc])

\* The value of the word a leaf returned: its type is that of its last instruction.
LeafValue(f, run) ==
  Val(LeafType(TypesAfter(f, Len(f.code))[1], Last(f.code)), run.returned[1])

-----------------------------------------------------------------------------
\* The values of the arguments, made in the heap.
RECURSIVE Built(_, _)
Built(h, tree) ==
  IF tree.kind \in {"List", "Tuple"}
  THEN LET items == FoldLeft(LAMBDA acc, item :
                               LET b == Built(acc.heap, item)
                               IN [heap |-> b.heap, values |-> Append(acc.values, b.value)],
                             [heap |-> h, values |-> <<>>], tree.items)
       IN Allocated(items.heap, Obj(tree.kind, items.values, 0, ""))
  ELSE IF tree.kind = "BigInt" THEN BigInt(h, tree.n)
  ELSE Gives(h, Val(tree.kind, tree.n))

BuiltAll(h, trees) ==
  FoldLeft(LAMBDA acc, tree :
             LET b == Built(acc.heap, tree)
             IN [heap |-> b.heap, values |-> Append(acc.values, b.value)],
           [heap |-> h, values |-> <<>>], trees)

\* validate_argument
ValidArgument(ty, h, v) == v.kind # "Uninitialized" /\ (ty = "Any" \/ ty = KindOf(h, v))

ValidArguments(f, h, values) ==
  /\ Len(values) = Len(f.params)
  /\ \A i \in DOMAIN f.params : ValidArgument(f.params[i].ty, h, values[i])

\* A frame.  from and went are history: the value last written to each register, and the
\* way each branch last went.
Frame(name, values) ==
  LET f == Functions[name]
  IN [name |-> name, pc |-> 1,
      registers |-> [r \in 1 .. f.registers |->
                       IF r \in DOMAIN values THEN values[r] ELSE Uninitialized],
      from |-> [r \in 1 .. f.registers |-> IF r \in DOMAIN values THEN r ELSE 0],
      went |-> <<>>]

Top == Last(frames)
Running == Functions[Top.name]
Instruction == Running.code[Top.pc]
Operand(k) == Top.registers[Instruction.ins[k]]
Operands == [k \in DOMAIN Instruction.ins |-> Operand(k)]

\* A frame whose current instruction wrote the value, and that goes on behind it.
Wrote(frame, f, value) ==
  LET dst == f.code[frame.pc].dst
  IN [frame EXCEPT !.pc = @ + 1, !.registers[dst] = value, !.from[dst] = ValueAt(f, frame.pc)]

SetTop(frame) == [frames EXCEPT ![Len(frames)] = frame]

-----------------------------------------------------------------------------
Init ==
  /\ program \in UNION {{<<p, c>> : c \in DOMAIN Programs[p].calls} : p \in DOMAIN Programs}
  /\ engine \in Engines
  /\ phase = "source"
  /\ frames = <<>>
  /\ heap = <<>>
  /\ result = Uninitialized
  /\ failure = ""
  /\ rounded = FALSE

\* compile_python_function, then execute_with_args: the arguments are checked against the
\* types of the parameters.
Start ==
  /\ phase = "source"
  /\ \/ /\ DOMAIN Functions = {}
        /\ phase' = "refused"
        /\ UNCHANGED <<frames, heap, failure>>
     \/ /\ DOMAIN Functions # {}
        /\ LET given == BuiltAll(heap, Arguments)
               valid == ValidArguments(Functions[Main], given.heap, given.values)
           IN /\ heap' = given.heap
              /\ phase' = IF valid THEN "running" ELSE "failed"
              /\ failure' = IF valid THEN "" ELSE "Argument"
              /\ frames' = IF valid THEN <<Frame(Main, given.values)>> ELSE <<>>
  /\ UNCHANGED <<program, engine, result, rounded>>

-----------------------------------------------------------------------------
\* An error ends the whole execution.
Failed(kind) ==
  /\ phase' = "failed"
  /\ failure' = kind
  /\ UNCHANGED <<program, engine, frames, heap, result, rounded>>

\* The instruction's outcome is written to its register, if it has one.
Outcome(o) ==
  \/ o.fail # "" /\ Failed(o.fail)
  \/ /\ o.fail = ""
     /\ heap' = o.heap
     /\ frames' = SetTop(IF Writes(Instruction) THEN Wrote(Top, Running, o.value)
                         ELSE [Top EXCEPT !.pc = @ + 1])
     /\ UNCHANGED <<program, engine, phase, result, failure, rounded>>

\* QuickCode: which operations have a quick form.  The interpreter alone tries all of
\* them; with a profile those whose operands and result are known to be SmallInts.
Quickened(f, i) ==
  /\ i.op \in {"BinaryOp", "CompareOp"}
  /\ \/ engine = "plain"
     \/ /\ i.op = "CompareOp" \/ i.operator # "FloorDivide"
        /\ f.sites[i.site].lhs = "SmallInt" /\ f.sites[i.site].rhs = "SmallInt"
        /\ f.sites[i.site].result = IF i.op = "CompareOp" THEN "Bool" ELSE "SmallInt"

\* The guards of the quick forms: immediate numbers, and SmallInts to compare.
QuickServes(i, lhs, rhs) ==
  IF i.op = "CompareOp" THEN lhs.kind = "SmallInt" /\ rhs.kind = "SmallInt"
  ELSE {lhs.kind, rhs.kind} \subseteq {"SmallInt", "Float"}

Quick == Quickened(Running, Instruction) /\ QuickServes(Instruction, Operand(1), Operand(2))

\* execute_quick: what a quick form gives.
QuickOutcome(h, i, lhs, rhs) ==
  IF i.op = "CompareOp" THEN Gives(h, Bool(Ordered(i.operator, lhs.n, rhs.n)))
  ELSE Arithmetic(h, i.operator, lhs, rhs)

Constant(h, constant) ==
  IF constant.kind = "BigInt" THEN BigInt(h, constant.n)
  ELSE Allocated(h, Obj("Function", <<>>, 0, constant.name))

BooleanOp(h, op, lhs, rhs) ==
  IF lhs.kind # "Bool" \/ rhs.kind # "Bool" THEN Fails(h, "Type")
  ELSE Gives(h, Bool(IF op = "And" THEN lhs.n = 1 /\ rhs.n = 1 ELSE lhs.n = 1 \/ rhs.n = 1))

\* execute_runtime_instruction: what the instruction gives, of the values of its operands.
Evaluate(h, f, name, i, v) ==
  CASE i.op = "ConstSmallInt" -> Gives(h, SmallInt(i.n))
    [] i.op = "ConstFloat" -> Gives(h, Float(i.n))
    [] i.op = "ConstBool" -> Gives(h, Bool(i.n = 1))
    [] i.op = "ConstNone" -> Gives(h, None)
    [] i.op = "LoadConstant" -> Constant(h, f.constants[i.n])
    [] i.op = "LoadCurrentFunction" -> Allocated(h, Obj("Function", <<>>, 0, name))
    [] i.op = "Move" -> Gives(h, v[1])
    [] i.op = "UnaryOp" -> Unary(h, i.operator, v[1])
    [] i.op = "BinaryOp" -> Binary(h, i.operator, v[1], v[2])
    [] i.op = "CompareOp" -> Compare(h, i.operator, v[1], v[2])
    [] i.op = "BooleanOp" -> BooleanOp(h, i.operator, v[1], v[2])
    [] i.op \in {"BuildTuple", "BuildList"} ->
         Allocated(h, Obj(IF i.op = "BuildTuple" THEN "Tuple" ELSE "List", v, 0, ""))
    [] i.op = "GetItem" -> GetItem(h, v[1], v[2])
    [] i.op = "SetItem" -> SetItem(h, v[1], v[2], v[3])
    [] i.op = "ListAppend" -> AppendList(h, v[1], v[2])
    [] i.op = "ListInsert" -> InsertList(h, v[1], v[2], v[3])
    [] i.op = "ListPop" -> PopList(h, v[1], v[2])
    [] i.op = "Length" -> Length(h, v[1])

-----------------------------------------------------------------------------
Controls == {"Jump", "Branch", "Call", "Return"}

\* An operation done by its quick form.
RunQuick ==
  /\ phase = "running" /\ Instruction.op \notin Controls /\ Quick
  /\ Outcome(QuickOutcome(heap, Instruction, Operand(1), Operand(2)))

\* Any other instruction that neither calls nor jumps.
RunInstruction ==
  /\ phase = "running" /\ Instruction.op \notin Controls /\ ~Quick
  /\ Outcome(Evaluate(heap, Running, Top.name, Instruction, Operands))

Jumps ==
  /\ phase = "running" /\ Instruction.op = "Jump"
  /\ frames' = SetTop([Top EXCEPT !.pc = Instruction.to[1]])
  /\ UNCHANGED <<program, engine, phase, heap, result, failure, rounded>>

Branches ==
  /\ phase = "running" /\ Instruction.op = "Branch"
  /\ \/ Operand(1).kind # "Bool" /\ Failed("Type")
     \/ /\ Operand(1).kind = "Bool"
        /\ frames' = SetTop([Top EXCEPT !.pc = Instruction.to[IF Operand(1).n = 1 THEN 1 ELSE 2],
                                        !.went = (Top.pc :> (Operand(1).n = 1)) @@ @])
        /\ UNCHANGED <<program, engine, phase, heap, result, failure, rounded>>

\* The function a call goes to, and its arguments.
Target == heap[Operand(1).n].name
CallArguments == Tail(Operands)
CallsFunction == KindOf(heap, Operand(1)) = "Function"

\* execute_numeric_leaf_call: the profiled engine calls leaves as machine code.
LeafCalled ==
  /\ engine = "profiled" /\ CallsFunction
  /\ Len(CallArguments) = Len(Functions[Target].params)
  /\ IsLeaf(Functions[Target])

LeafOf == LeafRun(Functions[Target], [k \in DOMAIN CallArguments |-> CallArguments[k].n])

CallLeaf ==
  /\ phase = "running" /\ Instruction.op = "Call" /\ LeafCalled
  /\ \/ /\ ~ValidArguments(Functions[Target], heap, CallArguments)
        /\ Failed("Argument")
     \/ /\ ValidArguments(Functions[Target], heap, CallArguments)
        /\ LeafOf.returned # <<>>
        /\ frames' = SetTop(Wrote(Top, Running, LeafValue(Functions[Target], LeafOf)))
        /\ rounded' = (rounded \/ LeafOf.rounded)
        /\ UNCHANGED <<program, engine, phase, heap, result, failure>>

\* invoke_callable: a call of its own frame.  Its depth is limited.
Call ==
  /\ phase = "running" /\ Instruction.op = "Call"
  /\ LeafCalled => /\ ValidArguments(Functions[Target], heap, CallArguments)
                   /\ LeafOf.gaveUp
  /\ \/ ~CallsFunction /\ Failed("Type")
     \/ CallsFunction /\ Len(frames) >= MaxDepth /\ Failed("Depth")
     \/ /\ CallsFunction /\ Len(frames) < MaxDepth
        /\ ~ValidArguments(Functions[Target], heap, CallArguments)
        /\ Failed("Argument")
     \/ /\ CallsFunction /\ Len(frames) < MaxDepth
        /\ ValidArguments(Functions[Target], heap, CallArguments)
        /\ frames' = Append(frames, Frame(Target, CallArguments))
        /\ UNCHANGED <<program, engine, phase, heap, result, failure, rounded>>

\* The value goes to the caller's register, or is the result.
Return ==
  /\ phase = "running" /\ Instruction.op = "Return"
  /\ \/ /\ Len(frames) > 1
        /\ LET caller == frames[Len(frames) - 1]
           IN frames' = Append(SubSeq(frames, 1, Len(frames) - 2),
                               Wrote(caller, Functions[caller.name], Operand(1)))
        /\ UNCHANGED <<phase, result>>
     \/ /\ Len(frames) = 1
        /\ frames' = <<>>
        /\ phase' = "returned"
        /\ result' = Operand(1)
  /\ UNCHANGED <<program, engine, heap, failure, rounded>>

Ended == phase \in {"refused", "returned", "failed"} /\ UNCHANGED vars

Next ==
  \/ Start \/ RunQuick \/ RunInstruction \/ Jumps \/ Branches \/ CallLeaf \/ Call
  \/ Return \/ Ended

Spec == Init /\ [][Next]_vars

-----------------------------------------------------------------------------

\* A heap's values as trees.
Shown(h, values) == [i \in DOMAIN values |-> TreeOf(h, values[i], 3)]

\* What a call means: how it fails, or its value and what became of its arguments.
CallMeaning(suite, name, arguments) ==
  LET given == BuiltAll(<<>>, arguments)
      o == Reference(suite, name, MaxDepth, given.heap, given.values)
  IN [fails |-> o.fail # "", values |-> Shown(o.heap, <<o.value>> \o given.values)]

ASSUME MeaningsAssumption ==
  Meanings = [p \in DOMAIN Programs |->
                [c \in DOMAIN Programs[p].calls |->
                   CallMeaning(Programs[p].suite, Programs[p].name, Programs[p].calls[c])]]

IsRunning == phase = "running"

\* Code that was verified never reads a register that was not written, and never runs
\* past its end, whatever way its branches go.
NeverUnset ==
  IsRunning =>
    /\ Top.pc \in DOMAIN Running.code
    /\ \A r \in Reads(Instruction) : Top.registers[r].kind # "Uninitialized"

\* The one definition the structure map names for an operand is the one it holds, and the
\* branches an instruction is said to depend on last went the way that is said.  (A range
\* certain to have an iteration enters its body before its test has gone any way.)
OriginsHold ==
  IsRunning =>
    /\ \A k \in DOMAIN Instruction.ins :
         Running.map.inputs[Top.pc][k] \in {0, Top.from[Instruction.ins[k]]}
    /\ \A d \in Running.map.depends[Top.pc] :
         d.branch \in DOMAIN Top.went => Top.went[d.branch] = d.expected

\* A loop whose body widens a variable that an operation or a test of the loop was lowered
\* to read with its first type: what its site says is then stale.
StaleSite(f) ==
  \E r \in DOMAIN f.regions, pc \in DOMAIN f.code :
    LET i == f.code[pc]
        Wide(register) == \E v \in DOMAIN f.regions[r].live :
                            f.regions[r].live[v] = Slot(register, "Any")
    IN /\ pc \in f.regions[r].entry .. f.regions[r].backedge
       /\ \/ i.op = "Branch" /\ Wide(i.ins[1])
          \/ /\ i.op \in {"BinaryOp", "CompareOp"}
             /\ \/ f.sites[i.site].lhs # "Unknown" /\ Wide(i.ins[1])
                \/ f.sites[i.site].rhs # "Unknown" /\ Wide(i.ins[2])

\* A condition that was a Bool when it was lowered and is none any more.
StaleTest == phase = "failed" /\ frames # <<>> /\ Instruction.op = "Branch"

\* A value has the type that is proven of its definition; a SmallInt may have become a
\* BigInt.
TypesHold ==
  IsRunning /\ ~StaleSite(Running) =>
    \A r \in DOMAIN Top.registers :
      LET id == Top.from[r]
          ty == TypeOf(Running.map.values, id)
      IN id = 0 \/ ty \in {"Unknown", "Any"} \/ KindOf(heap, Top.registers[r]) = ty
         \/ (ty = "SmallInt" /\ KindOf(heap, Top.registers[r]) = "BigInt")

\* What the structure map says of the values of a function holds of every run of it, across
\* its loops, branches and calls: where each comes from, and its type.
DefinitionsHold == OriginsHold /\ TypesHold

\* An instruction fails only in the ways the structure map lists.  (Of an operation on
\* two proven types it lists no type error, even if the operation has no meaning.)
FailuresHold ==
  phase = "failed" /\ frames # <<>> /\ ~StaleSite(Running) =>
    \/ failure \in Running.map.failures[Top.pc]
    \/ "Unknown" \in Running.map.failures[Top.pc]
    \/ /\ Instruction.op \in {"BinaryOp", "CompareOp"}
       /\ \E k \in {1, 2} : ~IsNumber(heap, Operand(k))

\* A run ends as the source means: with the same value, or both with an error.  Not
\* claimed where an argument does not fit an annotation, calls are too deep, a test is
\* stale, or a leaf divided by a negative number, which it rounds down and the interpreter
\* up.
LoweringMeans ==
  /\ phase \in {"returned", "failed"} /\ failure \notin {"Argument", "Depth"}
  /\ ~rounded /\ ~StaleTest
  =>
    LET means == Meanings[program[1]][program[2]]
        given == BuiltAll(<<>>, Arguments)
    IN /\ means.fails = (phase = "failed")
       /\ phase = "returned" => Shown(heap, <<result>> \o given.values) = means.values
=============================================================================
