------------------------------ MODULE Snapshot -------------------------------
(***************************************************************************)
(* The body of a WXIR v2 snapshot (adaptive_v2/wxir_v2/ir.rs): the code of a *)
(* compiled region in SSA form with the recipes that give its registers back *)
(* to the interpreter at a side exit.  Identifiers are positive numbers, 0 is *)
(* "none".  A value is a pair of its type and its content.  An instruction is *)
(* kept with the fields of its InstructionKind in a tuple, after a tag, and *)
(* with "at" saying whether it is still wrapped in AtPc.                   *)
(*                                                                         *)
(* The second half is the verifier every snapshot passes before it is      *)
(* compiled, after it is recorded and after every pass that changed it     *)
(* (verifier.rs and verifier/).  The checks run in the order of the conjuncts *)
(* of Verified; the kind of the first failure is not kept.                 *)
(***************************************************************************)
EXTENDS Integers, Sequences, FiniteSets, SequencesExt

NoArg == <<>>

Barriers == {"Allocation", "Helper", "Call", "Backedge"}

IsBarrier(instr) == instr.eff \in Barriers

IsOrdered(instr) == instr.eff \notin {"Pure", "Read"}

\* Instruction::new, ::safepoint and ::ordered: "seq" is its place among the effects.
Instruction(op, arg, in, out, ty, eff, seq, point) ==
  [op |-> op, arg |-> arg, at |-> FALSE, in |-> in, out |-> out, ty |-> ty,
   eff |-> eff, seq |-> seq, point |-> point]

Block(id, params, code, term) == [id |-> id, params |-> params, code |-> code, term |-> term]

Param(id, ty) == [id |-> id, ty |-> ty]

Jump(target, args) == [kind |-> "Jump", target |-> target, args |-> args]
Branch(cond, yes, no) == [kind |-> "Branch", cond |-> cond, yes |-> yes, no |-> no]
Return(values) == [kind |-> "Return", values |-> values]
SideExit(id, values) == [kind |-> "SideExit", id |-> id, values |-> values]
Backedge(point) == [kind |-> "Backedge", point |-> point]

Targets(term) ==
  CASE term.kind = "Jump" -> {term.target}
    [] term.kind = "Branch" -> {term.yes, term.no}
    [] OTHER -> {}

TerminatorValues(term) ==
  CASE term.kind = "Jump" -> term.args
    [] term.kind = "Branch" -> <<term.cond>>
    [] term.kind \in {"Return", "SideExit"} -> term.values
    [] OTHER -> <<>>

BlockAt(body, id) == CHOOSE b \in ToSet(body.blocks) : b.id = id

BlockIds(body) == {b.id : b \in ToSet(body.blocks)}

Instructions(body) == UNION {ToSet(b.code) : b \in ToSet(body.blocks)}

\* Every place that defines a value: a parameter (position 0) or an instruction's output.
Sites(body) ==
  UNION {{[id |-> b.params[k].id, ty |-> b.params[k].ty, block |-> b.id, pos |-> 0, nth |-> k] :
            k \in DOMAIN b.params}
         \cup {[id |-> b.code[k].out, ty |-> b.code[k].ty, block |-> b.id, pos |-> k, nth |-> k] :
                 k \in {j \in DOMAIN b.code : b.code[j].out # 0}} : b \in ToSet(body.blocks)}

ValueTypes(body) ==
  LET sites == Sites(body)
  IN  [v \in {s.id : s \in sites} |-> (CHOOSE s \in sites : s.id = v).ty]

\* The sources a virtual object, list or tuple of a recipe is rebuilt from.
VirtualSources(virtual) ==
  {IF virtual.kind = "Object" THEN virtual.items[k][2] ELSE virtual.items[k] : k \in DOMAIN virtual.items}

FrameRegisters(recipe) == UNION {ToSet(f.registers) : f \in ToSet(recipe.frames)}

-----------------------------------------------------------------------------

ListOps == {"ListGet", "ListLength", "ListSet", "ListReversePrefix", "ListClear", "ListAppend",
            "ListInsert", "ListPop"}

\* The operations whose output is the list they were given.
AliasOps == {"Copy", "ListClear", "ListAppend", "ListInsert"}

Kinds(body) == {d.kind : d \in body.deps}

\* What the operations of the body depend on.
Required(body) ==
  LET ops == {i.op : i \in Instructions(body)}
  IN  {"Executable", "Schema", "GcAbi", "HelperAbi"}
        \cup (IF ops \cap {"ObjectGet", "ObjectSet"} # {} THEN {"Shape", "Class"} ELSE {})
        \cup (IF ops \cap (ListOps \cup {"OwnedList"}) # {} THEN {"ListLayout"} ELSE {})
        \cup (IF "Call" \in ops THEN {"Callee"} ELSE {})

DependenciesHold(body) ==
  /\ \A d \in body.deps : d.expected = d.observed
  /\ \A d, e \in body.deps : d.kind = e.kind /\ d.identity = e.identity => d = e
  /\ \E d \in body.deps : d.kind = "Executable" /\ d.identity = body.exe.id /\ d.expected = body.exe.epoch
  /\ \E d \in body.deps : d.kind = "Schema" /\ d.expected = body.schema
  /\ Required(body) \subseteq Kinds(body)

BlocksDistinct(body) ==
  \A j, k \in DOMAIN body.blocks : body.blocks[j].id = body.blocks[k].id => j = k

DefinedOnce(body) == \A s, t \in Sites(body) : s.id = t.id => s = t

TargetsExist(body) == \A b \in ToSet(body.blocks) : Targets(b.term) \subseteq BlockIds(body)

Predecessors(body, id) == {b.id : b \in {c \in ToSet(body.blocks) : id \in Targets(c.term)}}

\* The blocks that a way from a root reaches without passing block d: the least set that holds the roots
\* and is closed under jumps. Besides the entry, a block that nothing jumps to is a root.
ReachedWithout(body, d) ==
  LET ids == BlockIds(body)
      roots == {id \in ids : id = body.entry \/ Predecessors(body, id) = {}}
      Closed(S) == /\ roots \ {d} \subseteq S
                   /\ \A b \in ToSet(body.blocks) : b.id \in S => Targets(b.term) \subseteq S \cup {d}
  IN  {id \in ids : \A S \in SUBSET (ids \ {d}) : Closed(S) => id \in S}

\* The blocks on every way to a block. The loop of the code ends with the greatest solution of its
\* equations; what it takes out of it is what can be reached without.
Dominators(body) ==
  [id \in BlockIds(body) |-> {d \in BlockIds(body) : id \notin ReachedWithout(body, d)}]

\* As if a definition in any other block would do.
MayUseAnywhere(sites, dom, value, block, pos) ==
  \E s \in sites : s.id = value /\ (s.block = block => s.pos < pos)

\* A value may be used at a place of a block when it is defined before it or in a dominator.
MayUse(sites, dom, value, block, pos) ==
  \E s \in sites : s.id = value /\ IF s.block = block THEN s.pos < pos ELSE s.block \in dom[block]

ArithmeticTyped(op, arg, in, out) ==
  CASE op \in {"IntegerAdd", "IntegerSubtract", "IntegerMultiply"} -> in = <<"I64", "I64">> /\ out = "I64"
    [] op = "IntegerFloorDivide" -> arg[2] \notin {0, -1} /\ in = <<"I64">> /\ out = "I64"
    [] op = "IntegerToFloat" -> in = <<"I64">> /\ out = "F64"
    [] op \in {"IntegerLessThan", "IntegerCompare"} -> in = <<"I64", "I64">> /\ out = "Bool"
    [] op \in {"FloatAdd", "FloatSubtract", "FloatMultiply", "FloatDivide", "FloatPower"} ->
         in = <<"F64", "F64">> /\ out = "F64"
    [] op = "FloatCompare" -> in = <<"F64", "F64">> /\ out = "Bool"
    [] op = "IntegerNegate" -> in = <<"I64">> /\ out = "I64"
    [] op = "FloatNegate" -> in = <<"F64">> /\ out = "F64"
    [] op = "BooleanNot" -> in = <<"Bool">> /\ out = "Bool"
    [] op \in {"BooleanAnd", "BooleanOr"} -> in = <<"Bool", "Bool">> /\ out = "Bool"
    [] op = "Select" -> Len(in) = 3 /\ in[1] = "Bool" /\ in[2] = in[3] /\ out = in[2]

HeapTyped(op, arg, eff, in, out) ==
  CASE op \in {"BorrowView", "ResolveHandle"} -> in = <<"Handle">> /\ out = "BorrowedView"
    [] op \in {"ObjectGet", "ListGet"} -> in # <<>> /\ in[1] = "Handle" /\ out # "None"
    [] op = "ListLength" -> in = <<"Handle">> /\ out = "I64"
    [] op = "ListReversePrefix" ->
         arg[2] = "I64" /\ in = <<"Handle", "I64">> /\ out = "None" /\ eff = "Write"
    [] op = "ListClear" -> in = <<"Handle">> /\ out = "Handle"
    [] op \in {"ObjectSet", "ListSet", "ListAppend"} -> in # <<>> /\ in[1] = "Handle"
    [] op = "ListInsert" -> in = <<"Handle", "I64", "I64">> /\ out = "Handle"
    [] op = "ListPop" -> in = <<"Handle", "I64">> /\ out = "I64"
    [] op = "OwnedList" ->
         /\ arg[3] \in {"I64", "F64"}
         /\ IF arg[5] THEN in = <<"I64", "Handle">> /\ eff = "Read" ELSE in = <<"I64">> /\ eff = "Pure"
         /\ out = "Handle"
    [] op = "Allocate" -> in = <<>> /\ out = "Handle"

HeapOps == ListOps \cup {"BorrowView", "ResolveHandle", "ObjectGet", "ObjectSet", "OwnedList", "Allocate"}

WellTyped(instr, types) ==
  LET in == [k \in DOMAIN instr.in |-> types[instr.in[k]]]
  IN  CASE instr.op = "Constant" -> in = <<>> /\ instr.ty # "None"
        [] instr.op = "Copy" -> in = <<instr.ty>>
        [] instr.op \in HeapOps -> HeapTyped(instr.op, instr.arg, instr.eff, in, instr.ty)
        [] instr.op \in {"Call", "Guard", "Helper", "BranchGuard", "NestedLoopExit", "LiveProbe"} -> TRUE
        [] OTHER -> ArithmeticTyped(instr.op, instr.arg, in, instr.ty)

\* The ordered effects of a block carry increasing numbers.
EffectsOrdered(block) ==
  LET ordered == {k \in DOMAIN block.code : IsOrdered(block.code[k])}
  IN  /\ \A k \in ordered : block.code[k].seq # 0
      /\ \A j, k \in ordered : j < k => block.code[j].seq < block.code[k].seq

\* No borrowed view is used from a barrier on that it was defined before.
BorrowsEnd(block) ==
  \A barrier \in {k \in DOMAIN block.code : IsBarrier(block.code[k])} :
    \A v \in {p.id : p \in {q \in ToSet(block.params) : q.ty = "BorrowedView"}}
             \cup {block.code[k].out : k \in {j \in 1..(barrier - 1) : block.code[j].ty = "BorrowedView"}} :
      /\ \A k \in barrier..Len(block.code) : ~Contains(block.code[k].in, v)
      /\ ~Contains(TerminatorValues(block.term), v)

ArgumentsMatch(body, block, types) ==
  LET t == block.term
  IN  CASE t.kind = "Jump" ->
             LET params == BlockAt(body, t.target).params
             IN  Len(params) = Len(t.args) /\ \A k \in DOMAIN params : types[t.args[k]] = params[k].ty
        [] t.kind = "Branch" -> BlockAt(body, t.yes).params = <<>> /\ BlockAt(body, t.no).params = <<>>
        [] OTHER -> TRUE

BlockHolds(body, block, sites, dom, types) ==
  /\ \A k \in DOMAIN block.code :
       LET instr == block.code[k]
       IN  /\ \A v \in ToSet(instr.in) : MayUse(sites, dom, v, block.id, k)
           /\ WellTyped(instr, types)
           /\ IsBarrier(instr) => instr.point # 0
  /\ EffectsOrdered(block)
  /\ BorrowsEnd(block)
  /\ \A v \in ToSet(TerminatorValues(block.term)) : MayUse(sites, dom, v, block.id, Len(block.code) + 1)
  /\ ArgumentsMatch(body, block, types)

\* The places that make an owned list, as pairs of a block's place and a place in its code.
OwnedDefinitions(body) ==
  UNION {{<<b, k>> : k \in {j \in DOMAIN body.blocks[b].code :
                           /\ body.blocks[b].code[j].op = "OwnedList" /\ body.blocks[b].code[j].out # 0}} :
           b \in DOMAIN body.blocks}

\* The values that name the owned list made first: the least set that holds it and what is made of it.
\* The loop of the code adds to the set until a round leaves it as it was.
OwnedAliases(body, first) ==
  LET alias == {i \in Instructions(body) : i.op \in AliasOps /\ i.in # <<>> /\ i.out # 0}
      ids == {first} \cup {i.out : i \in alias}
      Closed(S) == first \in S /\ \A i \in alias : i.in[1] \in S => i.out \in S
  IN  {v \in ids : \A S \in SUBSET ids : Closed(S) => v \in S}

\* The output of the instruction at the first of some places.
FirstOutput(body, places) ==
  LET first == CHOOSE p \in places : \A q \in places : p[1] < q[1] \/ (p[1] = q[1] /\ p[2] <= q[2])
  IN  body.blocks[first[1]].code[first[2]].out

\* An owned list stays in the region: it is only operated on, and nothing else can reach it.
OwnedListsHold(body) ==
  LET owned == OwnedDefinitions(body)
      aliases == OwnedAliases(body, FirstOutput(body, owned))
  IN  owned # {} =>
        /\ Cardinality(owned) <= 2
        /\ \A i \in Instructions(body) :
             /\ i.eff \notin {"Allocation", "Helper", "Call"}
             /\ \A k \in DOMAIN i.in : i.in[k] \in aliases => k = 1 /\ i.op \in ListOps \cup {"Copy"}
        /\ \A b \in ToSet(body.blocks) :
             b.term.kind # "Jump" => ToSet(TerminatorValues(b.term)) \cap aliases = {}

\* A source inside a virtual object: a known value, a plain constant, a spill or another virtual.
VirtualSourceHolds(source, types, virtuals) ==
  CASE source[1] = "Ssa" -> source[2] \in DOMAIN types
    [] source[1] = "Virtual" -> source[2] \in virtuals
    [] source[1] = "Constant" -> source[2][1] \in {"I64", "F64", "Bool"}
    [] OTHER -> source[1] = "Spill"

FrameHolds(frame, types) ==
  LET regs == frame.registers
  IN  /\ \A r \in ToSet(regs) :
           /\ r.source[1] = "Ssa" => r.source[2] \in DOMAIN types /\ types[r.source[2]] = r.ty
           /\ r.source[1] = "Constant" => r.source[2][1] \in {"I64", "F64", "Bool"}
      /\ {r.register : r \in {q \in ToSet(regs) : q.source[1] = "Dead"}} = frame.dead
      /\ Cardinality({r.register : r \in ToSet(regs)}) = Len(regs)
      /\ {r.register : r \in ToSet(regs)} = 0..(Len(regs) - 1)

RecipeHolds(body, recipe, types) ==
  LET virtuals == {v.id : v \in ToSet(recipe.virtuals)}
  IN  /\ recipe.frames # <<>> /\ recipe.exe = body.exe /\ recipe.deps = body.deps
      /\ \A root \in recipe.roots : root[1] \notin {"Ssa", "Spill", "Virtual", "Worklist"}
      /\ Cardinality(virtuals) = Len(recipe.virtuals)
      /\ \A v \in ToSet(recipe.virtuals) : \A s \in VirtualSources(v) : VirtualSourceHolds(s, types, virtuals)
      /\ \A f \in ToSet(recipe.frames) : FrameHolds(f, types)

\* Every guard and side exit has its recipe, every safepoint a recipe rooted at it.
ExitsCovered(body) ==
  LET ids == {r.id : r \in ToSet(body.deopts)}
      points == {r.point : r \in ToSet(body.deopts)}
  IN  /\ Cardinality(ids) = Len(body.deopts)
      /\ \A i \in Instructions(body) : /\ i.op = "Guard" => i.arg[2] \in ids
                                       /\ i.op = "BranchGuard" => i.arg[3] \in ids
                                       /\ i.point # 0 => i.point \in points
      /\ \A b \in ToSet(body.blocks) : /\ b.term.kind = "SideExit" => b.term.id \in ids
                                       /\ b.term.kind = "Backedge" => b.term.point \in points

\* The locations the root map of a recipe's point must name, and no other.
ExpectedRoots(body, recipe, types) ==
  LET regs == FrameRegisters(recipe)
      nested == UNION {VirtualSources(v) : v \in ToSet(recipe.virtuals)}
      Handles(sources) ==
        {<<"Ssa", s[2]>> : s \in {t \in sources : t[1] = "Ssa" /\ t[2] \in DOMAIN types /\ types[t[2]] = "Handle"}}
        \cup {<<"Spill", s[2]>> : s \in {t \in sources : t[1] = "Spill" /\ t[3] = "Handle"}}
  IN  recipe.roots
        \cup {<<"OwnedList", i.arg[2]>> : i \in {j \in Instructions(body) : j.op = "OwnedList"}}
        \cup Handles({r.source : r \in regs} \cup nested)
        \cup {<<"Virtual", r.source[2]>> : r \in {q \in regs : q.source[1] = "Virtual" /\ q.ty = "Handle"}}
        \cup {<<"Virtual", v.id>> : v \in ToSet(recipe.virtuals)}
        \cup (IF recipe.virtuals # <<>> THEN {<<"Worklist", 0>>} ELSE {})

RootMapsHold(body, types) ==
  LET points == {m.point : m \in ToSet(body.maps)}
  IN  /\ Cardinality(points) = Len(body.maps)
      /\ \A r \in ToSet(body.deopts) :
           /\ \A m \in ToSet(body.maps) : m.point = r.point => m.roots = ExpectedRoots(body, r, types)
           /\ r.point \in points
           /\ \A q \in FrameRegisters(r) : q.source[1] = "Spill" => q.source[3] = q.ty
      /\ points \subseteq {r.point : r \in ToSet(body.deopts)}

\* What the types of ir.rs and snapshot.rs say of a body: which fields there are, and which are vectors.
IsVector(s) == Len(s) \in Nat /\ DOMAIN s = 1..Len(s)

IsInstruction(i) ==
  /\ i = [op |-> i.op, arg |-> i.arg, at |-> i.at, in |-> i.in, out |-> i.out, ty |-> i.ty,
          eff |-> i.eff, seq |-> i.seq, point |-> i.point]
  /\ IsVector(i.in)
  /\ i.op = "Constant" /\ i.arg[1] = "I64" => i.arg = <<"I64", i.arg[2]>> /\ i.arg[2] \in Int

IsBlock(b) ==
  /\ b = Block(b.id, b.params, b.code, b.term)
  /\ IsVector(b.params) /\ IsVector(b.code) /\ IsVector(TerminatorValues(b.term))
  /\ \A i \in ToSet(b.code) : IsInstruction(i)

IsBody(body) ==
  /\ {"exe", "schema", "deps", "entry", "blocks", "deopts", "maps"} \subseteq DOMAIN body
  /\ IsVector(body.blocks) /\ \A b \in ToSet(body.blocks) : IsBlock(b)

Verified(body) ==
  /\ IsBody(body)
  /\ DependenciesHold(body)
  /\ body.blocks # <<>> /\ BlocksDistinct(body) /\ body.entry \in BlockIds(body)
  /\ DefinedOnce(body) /\ TargetsExist(body)
  /\ LET sites == Sites(body)
         types == ValueTypes(body)
         dom == Dominators(body)
     IN  /\ \A b \in ToSet(body.blocks) : BlockHolds(body, b, sites, dom, types)
         /\ OwnedListsHold(body)
         /\ \A r \in ToSet(body.deopts) : RecipeHolds(body, r, types)
         /\ ExitsCovered(body)
         /\ RootMapsHold(body, types)

=============================================================================
