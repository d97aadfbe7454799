---------------------------- MODULE StructureMap ----------------------------
(***************************************************************************)
(* What the structure map says of a function's code: basic blocks, loop    *)
(* regions, and for each instruction the definitions its operands come     *)
(* from, their types and aliases, how it may fail, and the branches it     *)
(* depends on.  How far objects escape is left out.                        *)
(*                                                                         *)
(* A value is a definition: parameter i is value i, and the instructions   *)
(* that write a register follow in order.  Value 0 is no one definition.   *)
(* A type fact is a slot type that is proven, or "Unknown".                *)
(***************************************************************************)
EXTENDS Bytecode, SequencesExt, FiniteSetsExt

\* A lowered function has its code, the types of its parameters (registers 1 .. n), the
\* number of its registers, its operation sites, loop regions and constants.

-----------------------------------------------------------------------------
Terminates(instruction) == instruction.op \in {"Jump", "Branch", "Return"}

\* Where a basic block starts.
Leaders(f) ==
  ({1} \cup {f.regions[i].entry : i \in DOMAIN f.regions}
   \cup UNION {{f.code[pc].to[i] : i \in DOMAIN f.code[pc].to} : pc \in DOMAIN f.code}
   \cup {pc + 1 : pc \in {p \in DOMAIN f.code : Terminates(f.code[p])}})
  \cap DOMAIN f.code

\* The basic blocks, first to last, with their edges.  A block whose last instruction is
\* that of the code, and no terminator, has no successor.
Blocks(f) ==
  LET leaders == Leaders(f)
      starts == SelectSeq([pc \in DOMAIN f.code |-> pc], LAMBDA pc : pc \in leaders)
      Of(pc) == Max({i \in DOMAIN starts : starts[i] <= pc})
      last == [i \in DOMAIN starts |->
                 IF i = Len(starts) THEN Len(f.code) ELSE starts[i + 1] - 1]
      next == [i \in DOMAIN starts |->
                 {Of(pc) : pc \in Successors(f.code, last[i]) \cap DOMAIN f.code}]
  IN [i \in DOMAIN starts |->
        [first |-> starts[i], last |-> last[i], successors |-> next[i],
         predecessors |-> {j \in DOMAIN starts : i \in next[j]}]]

\* block_by_pc
BlockAt(blocks, pc) == CHOOSE i \in DOMAIN blocks : pc \in blocks[i].first .. blocks[i].last

\* The blocks of a loop: those that overlap the code from its header to its backedge.
RegionBlocks(blocks, region) ==
  {i \in DOMAIN blocks : blocks[i].first <= region.backedge /\ blocks[i].last >= region.entry}

\* validate_drafts: every loop is complete, and its targets lie in the code.
DraftsValid(f) ==
  /\ \A i \in DOMAIN f.regions :
       /\ {f.regions[i].entry, f.regions[i].backedge} \subseteq DOMAIN f.code
       /\ \A e \in DOMAIN f.regions[i].exits : f.regions[i].exits[e] \in DOMAIN f.code
       /\ \A s \in DOMAIN f.regions[i].live :
            f.regions[i].live[s].register \in 1 .. f.registers
  /\ \A pc \in DOMAIN f.code :
       \A t \in DOMAIN f.code[pc].to : f.code[pc].to[t] \in DOMAIN f.code

-----------------------------------------------------------------------------
\* The value an instruction defines.
ValueAt(f, pc) == Len(f.params) + Cardinality({p \in 1 .. pc : Writes(f.code[p])})

TypeOf(values, id) == IF id = 0 THEN "Unknown" ELSE values[id].ty

\* A value: the register it is in, where it is defined, how it came about, its type, the
\* value it is an alias of and the values of its items.
Value(register, at, origin, ty, alias, items) ==
  [register |-> register, at |-> at, origin |-> origin, ty |-> ty, alias |-> alias,
   items |-> items]

ParameterValue(f, i) == Value(i, 0, "Parameter", f.params[i].ty, 0, <<>>)

\* The proven type of what an instruction writes.
OutputType(f, pc, inputs, values) ==
  LET i == f.code[pc] IN
  CASE i.op \in {"ConstSmallInt", "Length"} -> "SmallInt"
    [] i.op = "ConstFloat" -> "Float"
    [] i.op \in {"ConstBool", "BooleanOp"} \/ i.operator = "Not" -> "Bool"
    [] i.op = "LoadConstant" -> f.constants[i.n].kind
    [] i.op \in {"BuildTuple", "BuildList"} -> IF i.op = "BuildTuple" THEN "Tuple" ELSE "List"
    [] i.op = "Move" \/ i.operator = "Negate" -> TypeOf(values, inputs[1])
    [] i.op \in {"BinaryOp", "CompareOp"} -> f.sites[i.site].result
    [] i.op = "LoadCurrentFunction" -> "Function"
    [] OTHER -> "Unknown"

Origin(op) ==
  CASE op \in {"ConstSmallInt", "ConstFloat", "ConstBool", "ConstNone"} -> "Immediate"
    [] op \in {"BuildTuple", "BuildList"} -> "Allocation"
    [] op = "Move" -> "Alias"
    [] op \in {"GetItem", "ListPop"} -> "Projection"
    [] op \in {"Call", "LoadConstant", "LoadCurrentFunction"} -> op
    [] OTHER -> "Operation"

\* output: the value of an instruction whose operands are the values inputs.
Output(f, pc, inputs, values) ==
  LET i == f.code[pc]
  IN Value(i.dst, pc, Origin(i.op), OutputType(f, pc, inputs, values),
           IF i.op = "Move" THEN inputs[1] ELSE 0,
           IF Origin(i.op) = "Allocation" THEN inputs ELSE <<>>)

\* The first pass goes down the code once, whatever the branches; a register has the
\* value written last above.
LinearValues(f) ==
  LET start == [values |-> [i \in DOMAIN f.params |-> ParameterValue(f, i)],
                in |-> [r \in 1 .. f.registers |-> IF r \in DOMAIN f.params THEN r ELSE 0]]
      Define(acc, pc) ==
        LET i == f.code[pc]
            inputs == [k \in DOMAIN i.ins |-> acc.in[i.ins[k]]]
        IN IF ~Writes(i) THEN acc
           ELSE [values |-> Append(acc.values, Output(f, pc, inputs, acc.values)),
                 in |-> [acc.in EXCEPT ![i.dst] = Len(acc.values) + 1]]
  IN FoldLeft(Define, start, [pc \in DOMAIN f.code |-> pc]).values

-----------------------------------------------------------------------------
\* Reaching definitions: a set of values, any of which a register may have.
Defines(f, reaching, pc, values) ==
  IF ~Writes(f.code[pc]) THEN reaching
  ELSE {id \in reaching : values[id].register # f.code[pc].dst} \cup {ValueAt(f, pc)}

\* The definitions before each instruction of a block, and those after it.
Transfer(f, block, reaching, values) ==
  FoldLeft(LAMBDA acc, pc : Append(acc, Defines(f, Last(acc), pc, values)), <<reaching>>,
           [k \in 1 .. block.last - block.first + 1 |-> block.first + k - 1])

\* As if only the first predecessor of a block were merged.
OnePredecessor(f, blocks, i, outputs) ==
  IF blocks[i].predecessors = {} THEN IF i = 1 THEN DOMAIN f.params ELSE {}
  ELSE outputs[Min(blocks[i].predecessors)]

\* What reaches a block: the parameters if it is the first, and what its predecessors give.
Incoming(f, blocks, i, outputs) ==
  (IF i = 1 THEN DOMAIN f.params ELSE {}) \cup UNION {outputs[p] : p \in blocks[i].predecessors}

\* solve: passes over the blocks until nothing changes.
RECURSIVE Solve(_, _, _, _)
Solve(f, blocks, outputs, values) ==
  LET next == [i \in DOMAIN blocks |->
                 Last(Transfer(f, blocks[i], Incoming(f, blocks, i, outputs), values))]
  IN IF next = outputs THEN outputs ELSE Solve(f, blocks, next, values)

\* The one definition of the register, or 0.
Unique(reaching, register, values) ==
  LET definitions == {id \in reaching : values[id].register = register}
  IN IF Cardinality(definitions) = 1 THEN Max(definitions) ELSE 0

\* rewrite_inputs: the value of each operand, if one definition alone reaches it.
UniqueInputs(f, blocks, values) ==
  LET outputs == Solve(f, blocks, [i \in DOMAIN blocks |-> {}], values)
      before == FlattenSeq([i \in DOMAIN blocks |->
                              Front(Transfer(f, blocks[i], Incoming(f, blocks, i, outputs),
                                             values))])
  IN [pc \in DOMAIN f.code |->
        [k \in DOMAIN f.code[pc].ins |-> Unique(before[pc], f.code[pc].ins[k], values)]]

\* refresh: the values again, down the code, from the operands' unique definitions.  An
\* operand defined further down still has the type of the first pass.
Refresh(f, inputs, values) ==
  FoldLeft(LAMBDA acc, pc :
             IF Writes(f.code[pc])
             THEN [acc EXCEPT ![ValueAt(f, pc)] = Output(f, pc, inputs[pc], acc)]
             ELSE acc,
           values, [pc \in DOMAIN f.code |-> pc])

\* The value at the end of a chain of aliases, or 0 if the chain has no end.
RECURSIVE RootWithin(_, _, _)
RootWithin(values, id, steps) ==
  CASE id # 0 /\ values[id].alias = 0 -> id
    [] id # 0 /\ values[id].alias # 0 /\ steps > 0 ->
         RootWithin(values, values[id].alias, steps - 1)
    [] OTHER -> 0
IdentityRoot(values, id) == RootWithin(values, id, Len(values))

-----------------------------------------------------------------------------
Allocations == {"LoadConstant", "BuildTuple", "BuildList"}

\* As if a division could not fail when its operands' types are proven.
DivisionSafe(f, pc) ==
  LET s == f.sites[f.code[pc].site]
  IN IF "Unknown" \in {s.lhs, s.rhs} THEN {"Type"} ELSE {}

\* A binary operation or a comparison of operands whose types are proven has no type error.
OperationFailures(f, pc) ==
  LET s == f.sites[f.code[pc].site]
  IN (IF "Unknown" \in {s.lhs, s.rhs} THEN {"Type"} ELSE {})
     \cup (IF f.code[pc].operator = "FloorDivide" THEN {"DivisionByZero"} ELSE {})

\* How an instruction may fail.  What a call may do is not known.
Failures(f, pc, inputs, values) ==
  LET op == f.code[pc].op IN
  CASE op \in {"BinaryOp", "CompareOp"} -> OperationFailures(f, pc)
    [] op \in {"UnaryOp", "BooleanOp"} -> {"Type"}
    [] op \in Allocations -> {"Allocation"}
    [] op \in {"GetItem", "SetItem"} -> {"Type", "Index", "Key"}
    [] op \in {"ListAppend", "ListInsert"} -> {"Type", "Allocation"}
    [] op = "ListPop" -> {"Type", "Index"}
    [] op = "Length" ->
         IF TypeOf(values, inputs[1]) \in {"Tuple", "List"} THEN {} ELSE {"Type"}
    [] op = "Call" -> {"Unknown"}
    [] OTHER -> {}

-----------------------------------------------------------------------------
\* The blocks reached from one without going through another.
RECURSIVE ReachableBlocks(_, _, _, _)
ReachableBlocks(blocks, excluded, found, frontier) ==
  LET new == frontier \ (found \cup {excluded})
  IN IF new = {} THEN found
     ELSE ReachableBlocks(blocks, excluded, found \cup new,
                          UNION {blocks[b].successors : b \in new})

\* The blocks one way of a branch leads to, and the other does not.
OneSide(included, excluded) == included \ excluded

\* The branches an instruction depends on, and the way they went.
ControlDependencies(f, blocks) ==
  LET branches == {pc \in DOMAIN f.code : f.code[pc].op = "Branch"}
      Side(pc, i) == ReachableBlocks(blocks, BlockAt(blocks, pc), {},
                                     {BlockAt(blocks, f.code[pc].to[i])})
      sides == [pc \in branches |-> <<OneSide(Side(pc, 1), Side(pc, 2)),
                                      OneSide(Side(pc, 2), Side(pc, 1))>>]
  IN [pc \in DOMAIN f.code |->
        {d \in [branch : branches \ {pc}, expected : BOOLEAN] :
           BlockAt(blocks, pc) \in sides[d.branch][IF d.expected THEN 1 ELSE 2]}]

-----------------------------------------------------------------------------
\* finish: the whole map.
Analysis(f) ==
  LET blocks == Blocks(f)
      linear == LinearValues(f)
      inputs == UniqueInputs(f, blocks, linear)
      values == Refresh(f, inputs, linear)
  IN [blocks |-> blocks, inputs |-> inputs,
      values |-> values,
      failures |-> [pc \in DOMAIN f.code |-> Failures(f, pc, inputs[pc], values)],
      depends |-> ControlDependencies(f, blocks)]
=============================================================================
