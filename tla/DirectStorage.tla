---------------------------- MODULE DirectStorage ----------------------------
(* Which lists of a snapshot machine code may reach without a helper          *)
(* (native/direct_storage.rs): the plan that verify makes of a sealed body.   *)
(* A storage is a list that came in as an entry parameter or one the code     *)
(* owns; every value that names a list is told to be one of them, a list read *)
(* out of a list, or the plan is refused. Storages are numbered from 1.       *)
EXTENDS Snapshot

NoPlan == <<"NoPlan">>

StorageOps == ListOps \cup {"ObjectGet"}

MutatingOps == {"ListSet", "ListReversePrefix", "ListClear", "ListAppend", "ListInsert", "ListPop"}

Code(body) == FoldLeft(LAMBDA acc, b : acc \o b.code, <<>>, body.blocks)

Operations(body) == SelectSeq(Code(body), LAMBDA i : i.op \in StorageOps)

Owned(body) == {i \in Instructions(body) : i.op = "OwnedList" /\ i.out # 0}

OwnedOutputs(body) == {i.out : i \in Owned(body)}

EntryParams(body) == BlockAt(body, body.entry).params

\* A body outside a loop that works on one list of integers it made itself: all its handles are that list.
SingleOwnedRoot(body) ==
  /\ ~body.loop /\ EntryParams(body) = <<>>
  /\ Cardinality(Owned(body)) = 1 /\ \A i \in Owned(body) : i.arg[3] = "I64"
  /\ \A i \in Instructions(body) :
       i.ty = "Handle" => i.op \in {"OwnedList", "Copy", "ListClear", "ListAppend", "ListInsert"}

\* Values that name the same list have the same root, the least of them.
Unite(roots, a, b) ==
  LET least == Min({roots[a], roots[b]})
  IN  [v \in DOMAIN roots |-> IF roots[v] \in {roots[a], roots[b]} THEN least ELSE roots[v]]

\* The instructions whose output names the list they were given.
PassesOn(instr) ==
  \/ instr.op \in AliasOps /\ Len(instr.in) = 1
  \/ instr.op \in AliasOps \ {"Copy"} /\ Len(instr.in) >= 2

DirectRoots(body, types) ==
  LET start == [v \in DOMAIN types |->
                  IF SingleOwnedRoot(body) /\ types[v] = "Handle"
                  THEN Min({w \in DOMAIN types : types[w] = "Handle"}) ELSE v]
      Follow(roots, i) == IF PassesOn(i) /\ i.ty = "Handle" /\ types[i.in[1]] = "Handle"
                          THEN Unite(roots, i.in[1], i.out) ELSE roots
  IN  FoldLeft(Follow, start, Code(body))

\* The entry parameter, or else the owned list, with a root; 0 when there is none.
Anchor(body, roots, root) ==
  LET params == EntryParams(body)
      entries == {k \in DOMAIN params : params[k].ty = "Handle" /\ roots[params[k].id] = root}
      owned == {v \in OwnedOutputs(body) : roots[v] = root}
  IN  IF entries # {} THEN params[Min(entries)].id ELSE IF owned # {} THEN Min(owned) ELSE 0

IncomingArgs(body, id) ==
  {b.term.args : b \in {c \in ToSet(body.blocks) : c.term.kind = "Jump" /\ c.term.target = id}}

\* A parameter is the list all jumps to its block agree on.
UnitePhi(body, roots, block, k) ==
  LET param == block.params[k].id
      incoming == IncomingArgs(body, block.id)
      anchors == {Anchor(body, roots, roots[args[k]]) : args \in {a \in incoming : roots[a[k]] # roots[param]}}
  IN  IF /\ incoming # {} /\ \A args \in incoming : Len(args) = Len(block.params)
         /\ block.params[k].ty = "Handle" /\ 0 \notin anchors /\ Cardinality(anchors) = 1
      THEN Unite(roots, param, CHOOSE a \in anchors : TRUE) ELSE roots

PhiRound(body, roots) ==
  FoldLeft(LAMBDA acc, b : FoldLeft(LAMBDA a, k : UnitePhi(body, a, b, k), acc, [k \in DOMAIN b.params |-> k]),
           roots, body.blocks)

\* A round that unites anything unites a list that is a parameter or owned with another.
RootRounds(body) ==
  Cardinality({p.id : p \in {q \in UNION {ToSet(b.params) : b \in ToSet(body.blocks)} : q.ty = "Handle"}} \cup OwnedOutputs(body))

Roots(body, types) ==
  LET round[n \in 0..RootRounds(body)] ==
        IF n = 0 THEN DirectRoots(body, types) ELSE PhiRound(body, round[n - 1])
  IN  round[RootRounds(body)]

\* The lists read out of lists.
DerivedRoots(body, roots) ==
  {roots[i.out] : i \in {j \in Instructions(body) : j.op = "ListGet" /\ j.ty = "Handle"}}

InputIndex(body, value) == LET p == EntryParams(body) IN CHOOSE k \in DOMAIN p : p[k].id = value

SourceOf(body, anchor) ==
  IF anchor \in OwnedOutputs(body)
  THEN <<"Owned", (CHOOSE i \in Owned(body) : i.out = anchor).arg[2]>>
  ELSE <<"Entry", InputIndex(body, anchor)>>

\* One operation on a list: its handle becomes a name of a storage, perhaps of a new one, or of a
\* list that is looked up when the code runs.
Resolve(body, roots, acc, op) ==
  LET handle == op.in[1]
      anchor == Anchor(body, roots, roots[handle])
      dynamic == op.op \in {"ListGet", "ListSet", "ListReversePrefix"}
                 /\ roots[handle] \in DerivedRoots(body, roots)
      named == IF handle \in DOMAIN acc.names THEN acc.names[handle] ELSE anchor
      output == IF op.op \in {"ListClear", "ListAppend", "ListInsert"} /\ op.out # 0 THEN {op.out} ELSE {}
  IN  IF ~acc.ok THEN acc
      ELSE IF named # 0
           THEN [acc EXCEPT !.names = [v \in DOMAIN @ \cup {handle, named} \cup output |->
                                         IF v \in {handle, named} \cup output THEN named ELSE @[v]]]
           ELSE IF dynamic THEN [acc EXCEPT !.dynamic = @ \cup {handle}] ELSE [acc EXCEPT !.ok = FALSE]

Resolved(body, roots) ==
  FoldLeft(LAMBDA acc, op : Resolve(body, roots, acc, op), [ok |-> TRUE, names |-> <<>>, dynamic |-> {}],
           Operations(body))

\* Storages come in the order of the entry parameters, then of the identities of owned lists.
Ordered(body, anchors) ==
  SetToSortSeq(anchors, LAMBDA a, b :
    LET s == SourceOf(body, a)
        t == SourceOf(body, b)
    IN  IF s[1] = t[1] THEN s[2] < t[2] ELSE s[1] = "Entry")

FewStorages(body, anchors) ==
  \A kind \in {"Entry", "Owned"} : Cardinality({a \in anchors : SourceOf(body, a)[1] = kind}) <= 2

\* Nothing the code does but the step of a loop may stop the world, allocate or call.
EffectsAllowed(body) ==
  \A i \in Instructions(body) :
    IF i.point # 0 THEN body.loop /\ i.eff = "Backedge" /\ i.op = "Copy" ELSE i.eff \in {"Pure", "Read", "Write"}

Current(body, kind) == \E d \in body.deps : d.kind = kind /\ d.expected = d.observed

ListPlan(body) ==
  /\ Operations(body)[1].op # "ObjectGet" /\ Current(body, "ListLayout")
  /\ \A op \in ToSet(Operations(body)) : op.op # "ObjectGet"

\* The one field that a body reads and returns.
ObjectPlan(body) ==
  LET op == Operations(body)[1]
  IN  /\ op.op = "ObjectGet" /\ ~body.loop /\ Current(body, "Shape")
      /\ Len(Operations(body)) = 1 /\ Len(op.in) = 2 /\ op.out # 0
      /\ BlockAt(body, body.entry).term = Return(<<op.out>>)
      /\ \E k \in DOMAIN EntryParams(body) : EntryParams(body)[k].id = op.in[2]

ReserveHint(body) ==
  1 + Max({0} \cup {i.arg[2] : i \in {j \in Instructions(body) : j.op = "Constant" /\ j.arg[1] = "I64"}})

OpsOn(body, names, anchor) ==
  {op \in ToSet(Operations(body)) : op.in[1] \in DOMAIN names /\ names[op.in[1]] = anchor}

ElementTypes(body, types, names, anchor) ==
  LET Seen(op) == CASE op.op \in {"ListGet", "ListPop"} /\ op.out # 0 -> {op.ty}
                    [] op.op = "ListReversePrefix" -> {op.arg[2]}
                    [] op.op \in {"ListSet", "ListAppend", "ListInsert"} -> {types[Last(op.in)]}
                    [] op.op = "ObjectGet" -> {"I64"}
                    [] OTHER -> {}
  IN  UNION {Seen(op) : op \in OpsOn(body, names, anchor)}

OwnedAt(body, anchor) == {i \in Owned(body) : i.out = anchor}

\* The list an owned list starts as a copy of: another storage, from an entry parameter.
CopySource(body, names, anchor) ==
  LET source == (CHOOSE i \in OwnedAt(body, anchor) : TRUE).in[2]
  IN  IF \A i \in OwnedAt(body, anchor) : ~i.arg[5] THEN 0
      ELSE IF /\ source \in DOMAIN names /\ names[source] # anchor
              /\ SourceOf(body, names[source])[1] = "Entry" THEN names[source] ELSE -1

Storage(body, types, names, anchor) ==
  [kind |-> IF ListPlan(body) THEN "List" ELSE "Object",
   source |-> SourceOf(body, anchor),
   index_input |-> IF ListPlan(body) THEN 0 ELSE InputIndex(body, Operations(body)[1].in[2]),
   mutates |-> \E op \in OpsOn(body, names, anchor) : op.op \in MutatingOps,
   clears |-> \E op \in OpsOn(body, names, anchor) : op.op = "ListClear",
   reserve_hint |-> ReserveHint(body),
   element_type |-> IF OwnedAt(body, anchor) # {} THEN (CHOOSE i \in OwnedAt(body, anchor) : TRUE).arg[3]
                    ELSE CHOOSE t \in ElementTypes(body, types, names, anchor) : TRUE,
   copy_from |-> CopySource(body, names, anchor)]

StoragesTyped(body, types, names, anchors) ==
  \A a \in anchors :
    /\ Cardinality(ElementTypes(body, types, names, a)) = 1
    /\ CopySource(body, names, a) # -1
    /\ CopySource(body, names, a) # 0 =>
         LET from == CopySource(body, names, a)
         IN  Storage(body, types, names, from).element_type = Storage(body, types, names, a).element_type

-----------------------------------------------------------------------------
\* Loops of the form "while index < length", counted by 1.

\* Through copies.
Through(body, value) ==
  LET copies == {i \in Instructions(body) : i.op = "Copy" /\ Len(i.in) = 1}
      back[n \in 0..Cardinality(copies)] ==
        IF n = 0 THEN value
        ELSE IF \E i \in copies : i.out = back[n - 1] THEN (CHOOSE i \in copies : i.out = back[n - 1]).in[1]
             ELSE back[n - 1]
  IN  back[Cardinality(copies)]

\* What jumps give a parameter: pairs of a block and a value.
Incoming(body, id, k) ==
  {<<b.id, b.term.args[k]>> : b \in {c \in ToSet(body.blocks) : c.term.kind = "Jump" /\ c.term.target = id
                                                                /\ k \in DOMAIN c.term.args}}

ParamPlaces(body, value) ==
  {<<b, k>> \in ToSet(body.blocks) \X (1..Max({0} \cup {Len(c.params) : c \in ToSet(body.blocks)})) :
     k \in DOMAIN b.params /\ b.params[k].id = value}

\* A parameter that one jump gives is what it gives.
PreheaderSource(body, value) ==
  LET v == Through(body, value)
      places == {p \in ParamPlaces(body, v) : Cardinality(Incoming(body, p[1].id, p[2])) = 1}
  IN  IF places = {} THEN v
      ELSE LET p == CHOOSE p \in places : TRUE
           IN  Through(body, (CHOOSE a \in Incoming(body, p[1].id, p[2]) : TRUE)[2])

Defining(body, value) == {i \in Instructions(body) : i.out = value}

IsInteger(body, value, n) ==
  \E i \in Defining(body, PreheaderSource(body, value)) : i.op = "Constant" /\ i.arg = <<"I64", n>>

\* A parameter of the header that the loop hands on unchanged is what it was before the loop.
HandedOn(body, v, args, outside) ==
  IF Cardinality(args) = 2 /\ (\E a \in args : Through(body, a[2]) = v) /\ outside # {}
  THEN CHOOSE o \in outside : TRUE ELSE v

SourceAt(body, header, v, at) ==
  IF at = {} THEN PreheaderSource(body, v)
  ELSE LET args == Incoming(body, header.id, CHOOSE k \in at : TRUE)
       IN  HandedOn(body, v, args, {PreheaderSource(body, a[2]) : a \in args} \ {v})

PlacesOf(header, v) == {k \in DOMAIN header.params : header.params[k].id = v}

LoopSource(body, header, value) ==
  LET v == Through(body, value) IN SourceAt(body, header, v, PlacesOf(header, v))

IsStep(body, header, param, value) ==
  \E i \in Defining(body, Through(body, value)) :
    /\ i.op = "IntegerAdd" /\ Len(i.in) = 2
    /\ \E n \in 1..2 : Through(body, i.in[n]) = param
                       /\ IsInteger(body, LoopSource(body, header, i.in[3 - n]), 1)

\* The comparisons of a header's branch: its condition or both sides of a conjunction.
Comparisons(body, header) ==
  LET condition == Defining(body, Through(body, header.term.cond))
      sides == UNION {{<<i, Defining(body, Through(body, v))>> : v \in ToSet(i.in)} :
                        i \in {j \in condition : j.op = "BooleanAnd" /\ Len(j.in) = 2}}
      found == IF \E i \in condition : i.op = "BooleanAnd" /\ Len(i.in) = 2
               THEN UNION {s[2] : s \in sides} ELSE condition
  IN  {i \in found : /\ i.op = "IntegerLessThan" \/ (i.op = "IntegerCompare" /\ i.arg[2] = "LessThan")
                     /\ Len(i.in) = 2}

StorageFor(plan, value) == IF value \in DOMAIN plan.names THEN plan.names[value] ELSE 0

StorageThrough(body, plan, value) ==
  IF StorageFor(plan, value) # 0 THEN StorageFor(plan, value) ELSE StorageFor(plan, Through(body, value))

\* The storage whose length bounds a loop, 0 when nothing known does.
LengthOf(body, plan, lengths) ==
  IF lengths = {} THEN 0 ELSE StorageThrough(body, plan, (CHOOSE i \in lengths : TRUE).in[1])

Extent(body, plan, header, comparison) ==
  LengthOf(body, plan, {i \in Defining(body, LoopSource(body, header, comparison.in[2])) :
                          i.op = "ListLength" /\ Len(i.in) = 1})

\* The blocks of one round of the loop.
Iteration(body, header, yes) ==
  LET grow(set) == set \cup (UNION {Targets(BlockAt(body, b).term) : b \in set} \ {header.id})
      reach[n \in 0..Len(body.blocks)] == IF n = 0 THEN {yes} \ {header.id} ELSE grow(reach[n - 1])
  IN  reach[Len(body.blocks)]

Latches(body, header, k, param) ==
  {a[1] : a \in {b \in Incoming(body, header.id, k) : IsStep(body, header, param, b[2])}}

\* A round has one way back, by the latch, and no way out but the header.
ClosedRound(body, header, round, latch) ==
  /\ latch \in round
  /\ \A id \in round : LET t == BlockAt(body, id).term
                       IN  t.kind \in {"Jump", "Branch"} /\ (header.id \in Targets(t) <=> id = latch)

RoundCode(body, round) == UNION {ToSet(BlockAt(body, id).code) : id \in round}

\* Nothing in a round stops the world or changes the list that bounds the loop, and its appends
\* have outputs.
CalmRound(body, plan, round, extent) ==
  \A i \in RoundCode(body, round) :
    /\ IsBarrier(i) => i.eff = "Backedge" /\ i.op = "Copy"
    /\ i.op = "ListAppend" => i.out # 0
    /\ i.op \in MutatingOps \ {"ListAppend"} => StorageThrough(body, plan, i.in[1]) # extent

\* The definitions that empty a storage on every way to the header.
Emptied(body, plan, dom, header, target) ==
  {<<b, i>> \in ToSet(body.blocks) \X Instructions(body) :
     /\ i \in ToSet(b.code) /\ i.out # 0 /\ b.id \in dom[header.id]
     /\ \/ i.op = "ListClear" /\ StorageThrough(body, plan, i.in[1]) = target
        \/ i.op = "OwnedList" /\ i.arg[4] /\ StorageFor(plan, i.out) = target}

\* The deepest of them, if no other is as deep.
CapacityGuards(body, plan, dom, header, target) ==
  LET guards == Emptied(body, plan, dom, header, target)
      Depth(g) == Cardinality(dom[g[1].id])
      deepest == {g \in guards : \A h \in guards : Depth(h) <= Depth(g)}
  IN  IF Cardinality(deepest) = 1 THEN {g[2].out : g \in deepest} ELSE {}

\* The appends to a target in a round, when there is one and every round makes it.
OnlyAppends(body, plan, dom, round, latch, target) ==
  LET appends == {<<id, i>> \in round \X RoundCode(body, round) :
                    /\ i \in ToSet(BlockAt(body, id).code)
                    /\ i.op = "ListAppend" /\ StorageThrough(body, plan, i.in[1]) = target}
  IN  IF Cardinality(appends) = 1 /\ \A a \in appends : a[1] \in dom[latch] THEN {a[2].out : a \in appends} ELSE {}

\* The index counts from 0 by 1, on two ways into the header.
CountsFromZero(body, header, index, args) ==
  /\ Cardinality(args) = 2
  /\ Cardinality({a \in args : IsInteger(body, a[2], 0)}) = 1
  /\ Cardinality({a \in args : IsStep(body, header, index, a[2])}) = 1

RoundProofs(body, plan, dom, header, extent, round, latch) ==
  IF ClosedRound(body, header, round, latch) /\ CalmRound(body, plan, round, extent)
  THEN UNION {{[guard |-> g, append |-> a, extent |-> extent] :
                 g \in CapacityGuards(body, plan, dom, header, target),
                 a \in OnlyAppends(body, plan, dom, round, latch, target)} :
              target \in DOMAIN plan.storages \ {extent}}
  ELSE {}

\* The appends whose check of the capacity is made once, where the list was emptied.
ProofsAt(body, plan, dom, header, index, at, extent) ==
  LET k == CHOOSE n \in at : TRUE
  IN  IF at # {} /\ extent # 0 /\ CountsFromZero(body, header, index, Incoming(body, header.id, k))
      THEN RoundProofs(body, plan, dom, header, extent, Iteration(body, header, header.term.yes),
                       CHOOSE l \in Latches(body, header, k, index) : TRUE)
      ELSE {}

HeaderProofs(body, plan, dom, header, comparison) ==
  LET index == Through(body, comparison.in[1])
  IN  ProofsAt(body, plan, dom, header, index, PlacesOf(header, index), Extent(body, plan, header, comparison))

AppendProofs(body, plan, dom) ==
  UNION {UNION {HeaderProofs(body, plan, dom, h, c) : c \in Comparisons(body, h)} :
           h \in {b \in ToSet(body.blocks) : b.term.kind = "Branch"}}

-----------------------------------------------------------------------------
\* direct_storage::verify.
CopyFrom(order, anchor) == IF anchor = 0 THEN 0 ELSE CHOOSE j \in DOMAIN order : order[j] = anchor

Numbered(body, types, found, order) ==
  [storages |-> [k \in DOMAIN order |->
                   [Storage(body, types, found.names, order[k]) EXCEPT !.copy_from = CopyFrom(order, @)]],
   names |-> [v \in DOMAIN found.names |-> CHOOSE k \in DOMAIN order : order[k] = found.names[v]],
   dynamic |-> found.dynamic]

Proven(body, plan) == plan @@ [proofs |-> AppendProofs(body, plan, Dominators(body))]

PlanFor(body, types, found, anchors) ==
  IF /\ Operations(body) # <<>> /\ Cardinality(Owned(body)) <= 2
     /\ Len(body.blocks) = 1 \/ body.loop \/ SingleOwnedRoot(body)
     /\ found.ok /\ FewStorages(body, anchors) /\ EffectsAllowed(body)
     /\ ListPlan(body) \/ (ObjectPlan(body) /\ Cardinality(anchors) = 1)
     /\ StoragesTyped(body, types, found.names, anchors)
  THEN Proven(body, Numbered(body, types, found, Ordered(body, anchors)))
  ELSE NoPlan

PlanOf(body, types, found) == PlanFor(body, types, found, {found.names[v] : v \in DOMAIN found.names})

Plan(body) == PlanOf(body, ValueTypes(body), Resolved(body, Roots(body, ValueTypes(body))))

HasDynamic(plan) == plan.dynamic # {}
PlanMutates(plan) == \E s \in ToSet(plan.storages) : s.mutates

\* Of several proofs that rest on one definition only the first is asked for, by
\* append and then by extent: a set of one extent, or none.
CapacityExtentFor(plan, guard) ==
  LET mine == {p \in plan.proofs : p.guard = guard}
      IsFirst(p) == \A q \in mine : p.append < q.append \/ (p.append = q.append /\ p.extent <= q.extent)
  IN  {p.extent : p \in {q \in mine : IsFirst(q)}}
AppendProven(plan, append) == \E p \in plan.proofs : p.append = append

=============================================================================
