--------------------------- MODULE OptimizerPasses ---------------------------
(***************************************************************************)
(* The passes of native/optimizer.rs, in the order the pipeline runs them. *)
(*                                                                         *)
(* The first half is scalar replacement, which removes an object that does *)
(* not escape: its fields become the values stored in them, and the recipes *)
(* of the exits it was live at rebuild it (scalar_replacement.rs and its cfg *)
(* and virtual_deopt modules).                                             *)
(***************************************************************************)
EXTENDS SnapshotReplay

HasBackedge(body) == \E b \in ToSet(body.blocks) : b.term.kind \in {"Backedge", "IrreducibleBackedge"}

\* The safepoints a value is live at, by root map or by recipe.
LivePoints(body, value) ==
  {m.point : m \in {n \in ToSet(body.maps) : <<"Ssa", value>> \in n.roots}}
    \cup {r.point : r \in {q \in ToSet(body.deopts) :
            \/ \E reg \in FrameRegisters(q) : reg.source = <<"Ssa", value>>
            \/ <<"Ssa", value>> \in q.roots}}

HasShape(body) == \E d \in body.deps : d.kind = "Shape" /\ d.expected = d.observed

NextVirtual(body) ==
  Max({0} \cup {v.id + 1 : v \in UNION {ToSet(r.virtuals) : r \in ToSet(body.deopts)}})

\* Rewrites the recipes and root maps of the points a removed object was live at. Of several names
\* of the object in one root map only the first is taken out.
ApplyVirtual(body, pending) ==
  LET Named(source) == source[1] = "Ssa" /\ source[2] \in pending.handles
      virtual == <<"Virtual", pending.id>>
      Register(r) == IF Named(r.source) THEN [r EXCEPT !.source = virtual] ELSE r
      Frame(f) == [f EXCEPT !.registers = [k \in DOMAIN @ |-> Register(@[k])]]
      Object(fields) == [id |-> pending.id, kind |-> "Object",
                         items |-> [k \in DOMAIN fields |-> <<fields[k][1], <<"Ssa", fields[k][2]>>>>]]
      Recipe(r) ==
        IF r.point \notin DOMAIN pending.snapshots THEN r
        ELSE [r EXCEPT !.frames = [k \in DOMAIN @ |-> Frame(@[k])],
                       !.roots = {IF Named(root) THEN virtual ELSE root : root \in @},
                       !.virtuals = Append(@, Object(pending.snapshots[r.point]))]
      Rooted(m) ==
        LET held == {h \in pending.handles : <<"Ssa", h>> \in m.roots}
        IN  IF m.point \notin DOMAIN pending.snapshots \/ held = {} THEN m
            ELSE [m EXCEPT !.roots = (@ \ {<<"Ssa", Min(held)>>}) \cup {virtual, <<"Worklist", 0>>}]
  IN  [body EXCEPT !.deopts = [k \in DOMAIN @ |-> Recipe(@[k])],
                   !.maps = [k \in DOMAIN @ |-> Rooted(@[k])]]

RemoveSafepoints(body, points) ==
  [body EXCEPT !.deopts = SelectSeq(@, LAMBDA r : r.point \notin points),
               !.maps = SelectSeq(@, LAMBDA m : m.point \notin points)]

\* A read of a removed object becomes a copy of the value stored.
AsCopy(instr, value) ==
  [instr EXCEPT !.op = "Copy", !.arg = NoArg, !.at = FALSE, !.in = <<value>>, !.eff = "Pure", !.seq = 0, !.point = 0]

Keep(code, removed) ==
  FoldLeft(LAMBDA acc, k : IF k \in removed THEN acc ELSE Append(acc, code[k]), <<>>,
           [k \in DOMAIN code |-> k])

-----------------------------------------------------------------------------
(* Objects used in one block.                                                *)

\* The constant a key of the block is, for the layout of the rebuilt object; -1 when it has none.
LocalKey(block, value) ==
  LET defs == {k \in DOMAIN block.code : block.code[k].out = value}
      instr == block.code[Min(defs)]
  IN  IF defs # {} /\ instr.op = "Constant" /\ instr.arg[1] = "I64" /\ instr.arg[2] >= 0
      THEN instr.arg[2] ELSE -1

ResolveFields(block, fields) ==
  [k \in DOMAIN fields |-> <<LocalKey(block, fields[k][1]), fields[k][2]>>]

CrossesBarrier(block, first, last, uses) ==
  \E k \in (first + 1)..last : /\ IsBarrier(block.code[k]) \/ block.code[k].eff = "Write"
                               /\ k \notin uses

\* As if the first store to a field stayed.
SetFieldOnce(fields, key, value) ==
  IF \E k \in DOMAIN fields : fields[k][1] = key THEN fields ELSE Append(fields, <<key, value>>)

\* BTreeMap::insert on the fields seen so far, kept as a sequence of pairs in the order of their keys.
SetField(fields, key, value) ==
  SelectSeq(fields, LAMBDA f : f[1] < key) \o << <<key, value>> >> \o SelectSeq(fields, LAMBDA f : f[1] > key)

FieldValue(fields, key) == SelectSeq(fields, LAMBDA f : f[1] = key)

\* One instruction of the walk over the life of an object.
WalkStep(block, handle, points, walk, k) ==
  LET instr == block.code[k]
      set == instr.op = "ObjectSet" /\ Len(instr.in) = 3 /\ instr.in[1] = handle
      get == instr.op = "ObjectGet" /\ Len(instr.in) = 2 /\ instr.in[1] = handle
      fields == IF set THEN SetField(walk.fields, instr.in[2], instr.in[3]) ELSE walk.fields
      found == FieldValue(walk.fields, instr.in[2])
      resolved == ResolveFields(block, fields)
      observed == instr.point # 0 /\ instr.point \in points
  IN  [fields |-> fields,
       replacements |-> IF get /\ found # <<>> THEN Append(walk.replacements, <<k, found[1][2]>>)
                        ELSE walk.replacements,
       snapshots |-> IF observed THEN (instr.point :> resolved) @@ walk.snapshots ELSE walk.snapshots,
       supported |-> /\ walk.supported
                     /\ (get => found # <<>>)
                     /\ (handle \in ToSet(instr.in) => set \/ get)
                     /\ (observed => \A f \in ToSet(resolved) : f[1] # -1)]

\* What the pass does with the allocation at a place of the block, if it may remove it.
LocalPlan(block, allocate, points, shaped) ==
  LET code == block.code
      handle == code[allocate].out
      uses == {k \in DOMAIN code : handle \in ToSet(code[k].in)}
      seen == {k \in DOMAIN code : code[k].point # 0 /\ code[k].point \in points}
      last == Max(uses \cup seen)
      walk == FoldLeft(LAMBDA w, k : WalkStep(block, handle, points, w, k),
                       [fields |-> <<>>, replacements |-> <<>>, snapshots |-> <<>>, supported |-> TRUE],
                       [k \in 1..(last - allocate) |-> allocate + k])
      possible == /\ uses # {}
                  /\ handle \notin ToSet(TerminatorValues(block.term))
                  /\ points = {} \/ shaped
                  /\ {code[k].point : k \in seen} = points
                  /\ ~CrossesBarrier(block, allocate, last, uses)
                  /\ walk.supported /\ walk.replacements # <<>>
  IN  [possible |-> possible, uses |-> uses, handle |-> handle, replacements |-> walk.replacements,
       snapshots |-> walk.snapshots]

Copied(code, replacements) ==
  FoldLeft(LAMBDA acc, r : [acc EXCEPT ![r[1]] = AsCopy(@, r[2])], code, replacements)

ApplyLocal(acc, allocate, points, plan, copied) ==
  [block |-> [acc.block EXCEPT !.code = copied],
   removed |-> acc.removed \cup {allocate} \cup {k \in plan.uses : copied[k].op = "ObjectSet"},
   points |-> acc.points \cup ({acc.block.code[allocate].point} \ {0}),
   virtuals |-> IF points = {} THEN acc.virtuals
                ELSE Append(acc.virtuals, [handles |-> {plan.handle}, snapshots |-> plan.snapshots])]

TryLocal(acc, allocate, points, plan) ==
  IF plan.possible THEN ApplyLocal(acc, allocate, points, plan, Copied(acc.block.code, plan.replacements)) ELSE acc

TryLocalAt(body, acc, allocate, points) ==
  TryLocal(acc, allocate, points, LocalPlan(acc.block, allocate, points, HasShape(body)))

LocalRemove(body, acc, allocate) ==
  LET instr == acc.block.code[allocate]
  IN  IF instr.op # "Allocate" \/ instr.out = 0 THEN acc
      ELSE TryLocalAt(body, acc, allocate, LivePoints(body, instr.out))

AfterLocal(acc, done) ==
  [blocks |-> Append(acc.blocks, [done.block EXCEPT !.code = Keep(@, done.removed)]),
   points |-> done.points, virtuals |-> done.virtuals]

LocalBlock(body, acc, block) ==
  AfterLocal(acc, FoldLeft(LAMBDA a, k : LocalRemove(body, a, k),
                           [block |-> block, removed |-> {}, points |-> acc.points, virtuals |-> acc.virtuals],
                           [k \in DOMAIN block.code |-> k]))

RebuildLocal(body, done, first) ==
  RemoveSafepoints(FoldLeft(LAMBDA b, k : ApplyVirtual(b, [handles |-> done.virtuals[k].handles,
                                                           snapshots |-> done.virtuals[k].snapshots,
                                                           id |-> first + k - 1]),
                            [body EXCEPT !.blocks = done.blocks], [k \in DOMAIN done.virtuals |-> k]),
                   done.points)

ReplaceInBlocks(body) ==
  RebuildLocal(body, FoldLeft(LAMBDA a, b : LocalBlock(body, a, b),
                              [blocks |-> <<>>, points |-> {}, virtuals |-> <<>>], body.blocks),
               NextVirtual(body))

-----------------------------------------------------------------------------
(* An object that reaches other blocks through block parameters.             *)

\* The parameters every jump fills with a name of the object.
PhiAliases(body, handle) ==
  LET phis == UNION {{<<b.id, k, b.params[k].id>> : k \in DOMAIN b.params} : b \in ToSet(body.blocks)}
      Incoming(p) == {b.term.args[p[2]] : b \in {c \in ToSet(body.blocks) :
                        c.term.kind = "Jump" /\ c.term.target = p[1] /\ p[2] \in DOMAIN c.term.args}}
      grown[n \in 0..Cardinality(phis)] ==
        IF n = 0 THEN {handle}
        ELSE grown[n - 1] \cup {p[3] : p \in {q \in phis : Incoming(q) # {} /\ Incoming(q) \subseteq grown[n - 1]}}
  IN  grown[Cardinality(phis)]

Escapes(term, aliases) ==
  CASE term.kind = "Jump" -> FALSE
    [] term.kind \in {"Branch", "Return", "SideExit"} -> ToSet(TerminatorValues(term)) \cap aliases # {}
    [] OTHER -> TRUE

ConstantKey(body, value) ==
  LET defs == {i \in Instructions(body) : i.out = value /\ i.op = "Constant" /\ i.arg[1] = "I64" /\ i.arg[2] >= 0}
  IN  IF defs = {} THEN -1 ELSE (CHOOSE i \in defs : TRUE).arg[2]

\* One instruction of the walk over the whole body, in the order of the blocks.
PlanStep(body, home, allocate, aliases, plan, b, k) ==
  LET instr == body.blocks[b].code[k]
      uses == ToSet(instr.in) \cap aliases # {}
      key == ConstantKey(body, instr.in[2])
      found == FieldValue(plan.fields, key)
      set == instr.op = "ObjectSet" /\ b = home /\ Len(instr.in) = 3 /\ instr.in[1] \in aliases
      get == instr.op = "ObjectGet" /\ Len(instr.in) = 2 /\ instr.in[1] \in aliases
  IN  CASE ~plan.possible -> plan
        [] instr.op = "Allocate" /\ b = home /\ k = allocate -> [plan EXCEPT !.removed = @ \cup {<<b, k>>}]
        [] set /\ key # -1 -> [plan EXCEPT !.fields = SetField(@, key, instr.in[3]),
                                           !.removed = @ \cup {<<b, k>>}, !.lastSet = k]
        [] get /\ key # -1 /\ found # <<>> ->
             [plan EXCEPT !.replacements = Append(@, <<b, k, found[1][2]>>)]
        [] set \/ get \/ uses \/ IsBarrier(instr) \/ instr.eff = "Write" -> [plan EXCEPT !.possible = FALSE]
        [] OTHER -> plan

PhiPlan(body, home, allocate, aliases) ==
  LET Over(plan, b) == FoldLeft(LAMBDA p, k : PlanStep(body, home, allocate, aliases, p, b, k), plan,
                                [k \in DOMAIN body.blocks[b].code |-> k])
      walked == FoldLeft(Over, [possible |-> TRUE, fields |-> <<>>, replacements |-> <<>>, removed |-> {},
                                lastSet |-> 0], [b \in DOMAIN body.blocks |-> b])
      live == UNION {LivePoints(body, a) : a \in aliases}
      early == \E k \in 1..walked.lastSet : body.blocks[home].code[k].point \in live \ {0}
  IN  [walked EXCEPT !.possible = /\ @ /\ walked.replacements # <<>> /\ walked.fields # <<>>
                                  /\ ~\E b \in ToSet(body.blocks) : Escapes(b.term, aliases)
                                  /\ ~early]

RemovePhiAliases(body, aliases) ==
  LET Gone(id) == {k \in DOMAIN BlockAt(body, id).params : BlockAt(body, id).params[k].id \in aliases}
      Term(t) == IF t.kind = "Jump" THEN [t EXCEPT !.args = Keep(@, Gone(t.target))] ELSE t
  IN  [body EXCEPT !.blocks = [b \in DOMAIN @ |->
         [@[b] EXCEPT !.params = Keep(@, Gone(body.blocks[b].id)), !.term = Term(@)]]]

ApplyPhiPlan(body, home, allocate, aliases, plan) ==
  LET point == body.blocks[home].code[allocate].point
      copied == [body EXCEPT !.blocks = [b \in DOMAIN @ |-> [@[b] EXCEPT !.code = [k \in DOMAIN @ |->
                   LET hit == SelectSeq(plan.replacements, LAMBDA r : r[1] = b /\ r[2] = k)
                   IN  IF hit = <<>> THEN @[k] ELSE AsCopy(@[k], hit[1][3])]]]]
      bare == RemovePhiAliases(copied, aliases)
      kept == [bare EXCEPT !.blocks = [b \in DOMAIN @ |-> [@[b] EXCEPT !.code =
                   Keep(@, {k \in DOMAIN @ : <<b, k>> \in plan.removed})]]]
      live == UNION {LivePoints(body, a) : a \in aliases}
      rebuilt == ApplyVirtual(kept, [handles |-> aliases, id |-> NextVirtual(kept),
                                     snapshots |-> [p \in live \ {point} |-> plan.fields]])
  IN  RemoveSafepoints(rebuilt, {point} \ {0})

\* What the pass would do with the object made at a site of the body.
PlanAt(body, s, aliases) ==
  [site |-> s, aliases |-> aliases, plan |-> PhiPlan(body, s[1], s[2], aliases)]

\* The first allocation the pass can remove this way, if any.
ApplyFirst(body, plans) ==
  LET possible == {p \in plans : Cardinality(p.aliases) > 1 /\ p.plan.possible}
      first == CHOOSE p \in possible : \A q \in possible :
                 p.site[1] < q.site[1] \/ (p.site[1] = q.site[1] /\ p.site[2] <= q.site[2])
  IN  IF possible = {} \/ ~HasShape(body) THEN body
      ELSE ApplyPhiPlan(body, first.site[1], first.site[2], first.aliases, first.plan)

ReplaceAcrossPhis(body) ==
  LET Made(b) == {k \in DOMAIN body.blocks[b].code :
                    body.blocks[b].code[k].op = "Allocate" /\ body.blocks[b].code[k].out # 0}
  IN  ApplyFirst(body,
        UNION {{PlanAt(body, <<b, k>>, PhiAliases(body, body.blocks[b].code[k].out)) : k \in Made(b)} :
                 b \in DOMAIN body.blocks})

ScalarReplace(body) == IF HasBackedge(body) THEN body ELSE ReplaceInBlocks(ReplaceAcrossPhis(body))

-----------------------------------------------------------------------------

\* What a walk makes of an instruction, and what it has seen of the block by then.
Emit(instr, seen) == [instr |-> instr, seen |-> seen]

\* The code of a block after a walk that replaces each instruction by one.
Walked(code, seen, Walk(_, _)) ==
  LET walk[k \in 0..Len(code)] ==
        IF k = 0 THEN Emit(NoArg, seen) ELSE Walk(walk[k - 1].seen, code[k])
  IN  [k \in DOMAIN code |-> walk[k].instr]

EachBlock(body, Rewritten(_)) ==
  [body EXCEPT !.blocks = [b \in DOMAIN body.blocks |-> [body.blocks[b] EXCEPT !.code = Rewritten(@)]]]

FoldStep(seen, instr) ==
  LET in == instr.in
      sum == seen[in[1]] + seen[in[2]]
      folds == /\ instr.op = "IntegerAdd" /\ Len(in) = 2 /\ ToSet(in) \subseteq DOMAIN seen
               /\ sum \in -Half..(Half - 1)
      Learn(n) == IF instr.out = 0 THEN seen ELSE Put(seen, instr.out, n)
  IN  IF instr.op = "Constant" /\ instr.arg[1] = "I64" THEN Emit(instr, Learn(instr.arg[2]))
      ELSE IF folds
           THEN Emit([instr EXCEPT !.op = "Constant", !.arg = Integer(sum), !.at = FALSE, !.in = <<>>],
                     Learn(sum))
           ELSE Emit(instr, seen)

FoldCode(code) == Walked(code, <<>>, FoldStep)

FoldConstants(body) == EachBlock(body, FoldCode)

DirectOps == {"ObjectGet", "ObjectSet", "ListGet", "ListSet", "ListReversePrefix", "ListAppend", "ListInsert",
              "ListPop", "Call"}

LowerCode(code) == [k \in DOMAIN code |-> IF code[k].op \in DirectOps THEN [code[k] EXCEPT !.at = FALSE] ELSE code[k]]

LowerDirect(body) == EachBlock(body, LowerCode)

\* VerifiedCallee::prove_add: the callee is one block that returns the sum of its two parameters.
ProvenAdd(body, callee) ==
  LET b == body.blocks[1]
  IN  /\ Len(body.blocks) = 1 /\ Len(b.params) = 2 /\ Len(b.code) = 1 /\ b.term.kind = "Return"
      /\ body.exe.id = callee
      /\ b.params[1].ty = "I64" /\ b.params[2].ty = "I64"
      /\ b.code[1].op = "IntegerAdd" /\ b.code[1].in = <<b.params[1].id, b.params[2].id>>
      /\ b.code[1].ty = "I64" /\ b.term.values = <<b.code[1].out>>

\* The proofs in hand are pairs of a callee and the epoch it was proved at.
InlineStep(body, proofs, seen, instr) ==
  LET inlines == /\ instr.op = "Call" /\ seen /\ Len(instr.in) = 2
                 /\ \E d \in body.deps : /\ d.kind = "Callee" /\ d.identity = instr.arg[2]
                                         /\ <<instr.arg[2], d.expected>> \in proofs
  IN  CASE instr.op = "Guard" -> Emit(instr, TRUE)
        [] inlines -> Emit([instr EXCEPT !.op = "IntegerAdd", !.arg = NoArg, !.at = FALSE], FALSE)
        [] OTHER -> Emit(instr, seen /\ ~IsBarrier(instr))

GuardedInline(body, proofs) ==
  LET Step(seen, instr) == InlineStep(body, proofs, seen, instr)
      InlineCode(code) == Walked(code, FALSE, Step)
  IN  EachBlock(body, InlineCode)

\* The one store that a later read of the same object and key may still take its value from.
ForwardStep(types, seen, instr) ==
  LET hit == seen # <<>> /\ instr.in = <<seen[1], seen[2]>> /\ types[seen[3]] = instr.ty
      copy == [instr EXCEPT !.op = "Copy", !.arg = NoArg, !.at = FALSE, !.in = <<seen[3]>>, !.eff = "Pure"]
  IN  CASE instr.op = "ObjectSet" /\ Len(instr.in) = 3 -> Emit(instr, instr.in)
        [] instr.op = "ObjectGet" /\ Len(instr.in) = 2 -> Emit(IF hit THEN copy ELSE instr, seen)
        [] OTHER -> Emit(instr, IF IsBarrier(instr) \/ instr.eff = "Write" THEN <<>> ELSE seen)

HeapForward(body) ==
  LET Step(seen, instr) == ForwardStep(ValueTypes(body), seen, instr)
      ForwardCode(code) == Walked(code, <<>>, Step)
  IN  EachBlock(body, ForwardCode)

NumberStep(seen, instr) ==
  LET key == ToSet(instr.in)
      numbered == instr.op = "IntegerAdd" /\ instr.eff = "Pure" /\ Len(instr.in) = 2
      copy == [instr EXCEPT !.op = "Copy", !.arg = NoArg, !.at = FALSE, !.in = <<seen[key]>>]
  IN  CASE IsBarrier(instr) -> Emit(instr, <<>>)
        [] numbered /\ key \in DOMAIN seen -> Emit(copy, seen)
        [] numbered /\ key \notin DOMAIN seen /\ instr.out # 0 -> Emit(instr, Put(seen, key, instr.out))
        [] OTHER -> Emit(instr, seen)

NumberCode(code) == Walked(code, <<>>, NumberStep)

NumberAdds(body) == EachBlock(body, NumberCode)

DeoptUses(recipe, value) ==
  \/ \E r \in FrameRegisters(recipe) : r.source = <<"Ssa", value>>
  \/ \E v \in ToSet(recipe.virtuals) : <<"Ssa", value>> \in VirtualSources(v)

HoistableOps == {"Constant", "Copy", "IntegerAdd", "IntegerLessThan"}

\* As if the inputs could come from the loop.
HoistableAnywhere(body, instr, available) ==
  /\ instr.op \in HoistableOps /\ instr.out # 0
  /\ ~\E r \in ToSet(body.deopts) : DeoptUses(r, instr.out)

Hoistable(body, instr, available) ==
  /\ instr.op \in HoistableOps /\ instr.out # 0
  /\ ToSet(instr.in) \subseteq available
  /\ ~\E m \in ToSet(body.maps) : <<"Ssa", instr.out>> \in m.roots
  /\ ~\E r \in ToSet(body.deopts) : DeoptUses(r, instr.out)

\* One instruction at most leaves the first block that jumps back to the target of the entry's jump.
HoistOne(body) ==
  LET entry == CHOOSE b \in DOMAIN body.blocks : body.blocks[b].id = body.entry
      pre == body.blocks[entry]
      latches == {b \in DOMAIN body.blocks \ {entry} :
                    body.blocks[b].term.kind = "Jump" /\ body.blocks[b].term.target = pre.term.target}
      latch == Min(latches)
      code == body.blocks[latch].code
      available == {p.id : p \in ToSet(pre.params)} \cup ({i.out : i \in ToSet(pre.code)} \ {0})
      still == \A k \in DOMAIN code : code[k].point = 0 /\ code[k].eff = "Pure" /\ code[k].op # "Guard"
      ready == {k \in DOMAIN code : Hoistable(body, code[k], available)}
  IN  IF pre.term.kind # "Jump" THEN body
      ELSE IF latches = {} THEN body
      ELSE IF ~still \/ ready = {} THEN body
      ELSE [body EXCEPT !.blocks[latch].code = RemoveAt(@, Min(ready)),
                        !.blocks[entry].code = Append(@, code[Min(ready)])]

=============================================================================
