------------------------- MODULE MCSnapshotPipeline -------------------------
(* Drafts of three shapes for SnapshotPipeline: straight code that makes and *)
(* uses an object, an object that reaches a join through a parameter, and a  *)
(* counted loop with something to hoist.                                     *)
EXTENDS SnapshotPipeline

Dep(kind) == [kind |-> kind, identity |-> IF kind = "Callee" THEN 7 ELSE 1, expected |-> 1, observed |-> 1]
Deps == {Dep(k) : k \in {"Executable", "Schema", "GcAbi", "HelperAbi", "Shape", "Class", "ListLayout", "Callee"}}
Exe == [id |-> 1, epoch |-> 1]

SmallHeap == [objects |-> (1 :> (0 :> Integer(1))), lists |-> (2 :> <<Integer(1)>>)]

Reg(n, v, ty) == [register |-> n, source |-> <<"Ssa", v>>, ty |-> ty]
Recipe(id, regs) ==
  [id |-> id, exe |-> Exe, frames |-> <<[registers |-> regs, dead |-> {}]>>, virtuals |-> <<>>,
   point |-> id, roots |-> {}, deps |-> Deps]
MapFor(recipe) ==
  [point |-> recipe.point,
   roots |-> {<<"Ssa", r.source[2]>> : r \in {q \in FrameRegisters(recipe) : q.ty = "Handle"}}]

\* A body with a recipe for each of its safepoints; the frame of a guard has the registers given.
BodyOf(blks, regs) ==
  LET points == SetToSortSeq({i \in UNION {ToSet(b.code) : b \in ToSet(blks)} : i.point # 0},
                             LAMBDA i, j : i.point < j.point)
      recipes == [k \in DOMAIN points |->
                    Recipe(points[k].point, IF points[k].op = "Guard" THEN regs ELSE <<>>)]
  IN  [blocks |-> blks, entry |-> 1, exe |-> Exe, schema |-> 1, deps |-> Deps, deopts |-> recipes,
       maps |-> [k \in DOMAIN recipes |-> MapFor(recipes[k])]]

Draft(b, inputs) == [body |-> b, inputs |-> inputs, proofs |-> {<<7, 1>>}]

\* A template and its place: its output, its safepoint and the guard's recipe are named after the
\* place, an ordered effect is numbered by it.
I(op, arg, in, ty, eff) == [op |-> op, arg |-> arg, in |-> in, ty |-> ty, eff |-> eff]
Place(t, n) ==
  LET point == IF t.eff \in Barriers \/ t.op = "Guard" THEN 1 + n ELSE 0
  IN  [Instruction(t.op, IF t.op = "Guard" THEN <<"guard", point>> ELSE t.arg, t.in,
                   IF t.ty = "None" THEN 0 ELSE 10 + n, t.ty, t.eff,
                   IF t.eff \notin {"Pure", "Read"} THEN 1 + n ELSE 0, point)
       EXCEPT !.at = t.op \notin {"Constant", "Allocate"}]
Code(templates, from) == [k \in DOMAIN templates |-> Place(templates[k], from + k - 1)]

Const(n) == I("Constant", Integer(n), <<>>, "I64", "Pure")
New == I("Allocate", NoArg, <<>>, "Handle", "Allocation")
Set(o, k, v) == I("ObjectSet", NoArg, <<o, k, v>>, "None", "Write")
Get(o, k) == I("ObjectGet", NoArg, <<o, k>>, "I64", "Read")
Add(a, b) == I("IntegerAdd", NoArg, <<a, b>>, "I64", "Pure")
GuardOn(c) == I("Guard", NoArg, <<c>>, "None", "Pure")
CallAdd(a, b) == I("Call", <<"callee", 7>>, <<a, b>>, "I64", "Call")
Append1(l, v) == I("ListAppend", NoArg, <<l, v>>, "None", "Write")

Ints == {Integer(-Half), Integer(0), Integer(Half - 1)}

\* Parameters 1, 2 (numbers), 3 (a boolean), 4 (object 1), 5 (list 2); 10 is zero, 11 the new object.
Params == <<Param(1, "I64"), Param(2, "I64"), Param(3, "Bool"), Param(4, "Handle"), Param(5, "Handle")>>
Inputs == {<<a, b, Boolean(c), HandleTo(1), HandleTo(2)>> : a \in {Integer(0), Integer(Half - 1)},
                                                      b \in {Integer(1)}, c \in BOOLEAN}

ObjectMenu == {Set(11, 10, 1), Set(11, 10, 2), Set(11, 1, 2), Set(11, 12, 2), Set(4, 10, 1), Get(11, 10), Get(4, 10),
               GuardOn(3), CallAdd(1, 2), Add(2, 1), Const(Half - 1), Append1(5, 1)}

\* The value returned at the end is the sum of the last read, of a key of 0 or of another constant, and 1.
ObjectDraft(slots, key) ==
  LET code == Code(<<Const(0), New>> \o slots \o <<Get(11, key), Add(12 + Len(slots), 1)>>, 0)
  IN  Draft(BodyOf(<<Block(1, Params, code, Return(<<13 + Len(slots)>>))>>,
                   <<Reg(0, 11, "Handle"), Reg(1, 1, "I64"), Reg(2, 11, "Handle")>>), Inputs)

ObjectDrafts == {ObjectDraft(<<a, b, c>>, 10) : a, b, c \in ObjectMenu}
                  \cup {ObjectDraft(<<Const(Half - 1), b, c>>, 12) : b, c \in ObjectMenu}

\* An object made in block 1 reaches block 4 as parameter 20.
PhiDraft(slots, after, regs) ==
  LET code == Code(<<Const(0), New>> \o slots, 0)
      tail == Code(after \o <<Get(20, 10)>>, 20)
  IN  Draft(BodyOf(<<Block(1, Params, code, Branch(3, 2, 3)), Block(2, <<>>, <<>>, Jump(4, <<11>>)),
                     Block(3, <<>>, <<>>, Jump(4, <<11>>)),
                     Block(4, <<Param(20, "Handle")>>, tail, Return(<<30 + Len(after)>>))>>,
                   regs), Inputs)

PhiDrafts ==
  {PhiDraft(<<a, b>>, <<c>>, regs) :
     a, b \in {Set(11, 10, 1), Set(11, 10, 2), GuardOn(3), Get(11, 10)},
     c \in {GuardOn(3), Get(20, 10), Set(20, 10, 2), Add(1, 2)},
     regs \in {<<Reg(0, 11, "Handle")>>}}

\* A loop that runs its latch once: 1 jumps to 2 with a boolean and a number, 3 jumps back.
LoopMenu == {Add(1, 2), Add(2, 1), Add(1, 7), Const(Half - 1), CallAdd(1, 2), GuardOn(3), Get(4, 8)}
LoopDraft(slots, used) ==
  Draft(BodyOf(<<Block(1, Params, Code(<<Const(0)>>, 0), Jump(2, <<3, 1>>)),
                 Block(2, <<Param(6, "Bool"), Param(7, "I64")>>, <<>>, Branch(6, 3, 4)),
                 Block(3, <<>>,
                       Code(slots \o <<I("Constant", Boolean(FALSE), <<>>, "Bool", "Pure")>>, 1),
                       Jump(2, <<11 + Len(slots), used>>)),
                 Block(4, <<>>, <<>>, Return(<<used>>))>>,
               <<Reg(0, 1, "I64")>>), Inputs)

LoopDrafts == {LoopDraft(<<a, b>>, used) : a, b \in LoopMenu, used \in {7, 10, 11, 12}}

MCDrafts == ObjectDrafts \cup PhiDrafts \cup LoopDrafts
=============================================================================
