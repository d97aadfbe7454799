---------------------------- MODULE PythonMeaning ----------------------------
(***************************************************************************)
(* What a Python function means, told directly on its source: the          *)
(* reference the compiled code is compared with.  Operations on values are *)
(* those of WvmValues: what is compared is what the front end makes of     *)
(* names, expressions, statements and loops.                               *)
(***************************************************************************)
EXTENDS PythonSource, WvmValues, TLC

\* A context: the module, the function, how deep its call is and how deep calls may be.
\* An evaluation gives a heap, a value and how it failed; a failure is passed on.
Then(o, F(_, _)) == IF o.fail # "" THEN o ELSE F(o.heap, o.value)

Truth(h, v) ==
  CASE v.kind \in {"Bool", "None"} -> v.n = 1
    [] IsNumber(h, v) -> NumberOf(h, v) # 0
    [] IsSequence(h, v) -> h[v.n].items # <<>>
    [] OTHER -> TRUE

\* An integer of any size, and those of a range.
Whole(h, n) == IF n \in SmallInts THEN Gives(h, SmallInt(n)) ELSE BigInt(h, n)

RECURSIVE Meaning(_, _, _, _), Calling(_, _, _, _), Comprehended(_, _, _, _, _, _)

\* Several expressions in order: a value whose items are theirs.
InOrder(c, h, env, es) ==
  FoldLeft(LAMBDA acc, e :
             IF acc.fail # "" THEN acc
             ELSE LET o == Meaning(c, acc.heap, env, e)
                  IN [heap |-> o.heap, fail |-> o.fail, value |-> Append(acc.value, o.value)],
           [heap |-> h, fail |-> "", value |-> <<>>], es)

\* The integers of a range, as values.
RangeValues(h, v) ==
  LET start == IF Len(v) = 1 THEN 0 ELSE NumberOf(h, v[1])
      stop == NumberOf(h, v[IF Len(v) = 1 THEN 1 ELSE 2])
      step == IF Len(v) = 3 THEN NumberOf(h, v[3]) ELSE 1
      distance == IF step > 0 THEN stop - start ELSE start - stop
      count == IF distance <= 0 THEN 0 ELSE (distance + Magnitude(step) - 1) \div Magnitude(step)
  IN FoldLeft(LAMBDA acc, k : LET o == Whole(acc.heap, start + (k - 1) * step)
                              IN [heap |-> o.heap, fail |-> "", value |-> Append(acc.value, o.value)],
              [heap |-> h, fail |-> "", value |-> <<>>], [k \in 1 .. count |-> k])

\* What is iterated: an object of its own for a range, else the object itself.
Iterated(c, h, env, e) ==
  IF IsCall(e, "range")
  THEN Then(InOrder(c, h, env, e.args),
            LAMBDA h1, v : Then(RangeValues(h1, v),
                                LAMBDA h2, items : Allocated(h2, Obj("Tuple", items, 0, ""))))
  ELSE Then(Meaning(c, h, env, e),
            LAMBDA h1, v : IF IsSequence(h1, v) THEN Gives(h1, v) ELSE Fails(h1, "Type"))

\* The list of what the element is for the items from the i-th on.
Comprehended(c, h, env, e, over, done) ==
  IF Len(done) = Len(h[over.n].items) THEN Allocated(h, Obj("List", done, 0, ""))
  ELSE LET bound == (e.target.name :> h[over.n].items[Len(done) + 1]) @@ env
       IN Then(Meaning(c, h, bound, e.element),
               LAMBDA h1, v : Comprehended(c, h1, env, e, over, Append(done, v)))

Logical(c, h, env, e) ==
  FoldLeft(LAMBDA acc, value :
             IF acc.fail # "" \/ (Truth(acc.heap, acc.value) # (e.op = "And")) THEN acc
             ELSE Meaning(c, acc.heap, env, value),
           Meaning(c, h, env, Head(e.values)), Tail(e.values))

\* A name is a local one, the constant or the function of the module.
Named(c, h, env, name) ==
  LET constant == ModuleConstant(c.suite, name, {})
  IN CASE name \in DOMAIN env -> Gives(h, env[name])
       [] name \notin DOMAIN env /\ name \in c.locals -> Fails(h, "Unbound")
       [] constant # <<>> -> Meaning(c, h, <<>>, constant[1])
       [] HasFunction(c.suite, name) -> Allocated(h, Obj("Function", <<>>, 0, name))
       [] OTHER -> Fails(h, "Unbound")

Called(c, h, env, e) ==
  CASE IsCall(e, "len") ->
         Then(Meaning(c, h, env, e.args[1]), LAMBDA h1, v : Length(h1, v))
    [] IsCall(e, "list") ->
         Then(Iterated(c, h, env, e.args[1]),
              LAMBDA h1, v : Allocated(h1, Obj("List", h1[v.n].items, 0, "")))
    [] OTHER ->
         Then(InOrder(c, h, env, <<e.callable>> \o e.args),
              LAMBDA h1, v : IF KindOf(h1, v[1]) # "Function" THEN Fails(h1, "Type")
                             ELSE Calling(c, h1, h1[v[1].n].name, Tail(v)))

\* The methods of lists.
Method(c, h, env, e) ==
  Then(InOrder(c, h, env, <<e.object>> \o e.args),
       LAMBDA h1, v :
         CASE e.name = "pop" -> PopList(h1, v[1], IF Len(v) = 1 THEN SmallInt(-1) ELSE v[2])
           [] e.name = "append" -> AppendList(h1, v[1], v[2])
           [] e.name = "insert" -> InsertList(h1, v[1], v[2], v[3]))

Meaning(c, h, env, e) ==
  CASE e.kind = "Int" -> Whole(h, e.n)
    [] e.kind \in {"Float", "Bool", "None"} -> Gives(h, Val(e.kind, e.n))
    [] e.kind = "Name" -> Named(c, h, env, e.name)
    [] e.kind \in {"Negate", "Not"} ->
         Then(Meaning(c, h, env, e.operand), LAMBDA h1, v : Unary(h1, e.kind, v))
    [] e.kind = "Binary" ->
         Then(InOrder(c, h, env, <<e.lhs, e.rhs>>), LAMBDA h1, v : Binary(h1, e.op, v[1], v[2]))
    [] e.kind = "Compare" ->
         Then(InOrder(c, h, env, <<e.lhs, e.rhs>>), LAMBDA h1, v : Compare(h1, e.op, v[1], v[2]))
    [] e.kind = "Boolean" -> Logical(c, h, env, e)
    [] e.kind \in {"Tuple", "List"} ->
         Then(InOrder(c, h, env, e.items),
              LAMBDA h1, v : Allocated(h1, Obj(e.kind, v, 0, "")))
    [] e.kind = "ListComp" ->
         Then(Iterated(c, h, env, e.iterator),
              LAMBDA h1, v : Comprehended(c, h1, env, e, v, <<>>))
    [] e.kind = "Subscript" ->
         Then(InOrder(c, h, env, <<e.object, e.key>>), LAMBDA h1, v : GetItem(h1, v[1], v[2]))
    [] e.kind = "Call" -> Called(c, h, env, e)
    [] e.kind = "Method" -> Method(c, h, env, e)

-----------------------------------------------------------------------------
\* Statements go from state to state: the local names, the heap, and whether control goes
\* on ("go"), leaves a loop, returns or failed.
State(env, h) == [env |-> env, heap |-> h, status |-> "go", value |-> None, fail |-> ""]
Stops(st, o) == [st EXCEPT !.heap = o.heap, !.status = "fail", !.fail = o.fail]

\* The state after o, from F of its value; or the failure.
After(st, o, F(_, _)) == IF o.fail # "" THEN Stops(st, o) ELSE F([st EXCEPT !.heap = o.heap], o.value)

RECURSIVE BindTo(_, _, _)
BindTo(st, target, v) ==
  CASE target.kind = "Name" -> [st EXCEPT !.env = (target.name :> v) @@ @]
    [] target.kind = "Tuple" ->
         IF ~IsSequence(st.heap, v) THEN Stops(st, Fails(st.heap, "Type"))
         ELSE IF Len(st.heap[v.n].items) # Len(target.items) THEN Stops(st, Fails(st.heap, "Index"))
         ELSE FoldLeft(LAMBDA acc, i : BindTo(acc, target.items[i], st.heap[v.n].items[i]),
                       st, [i \in DOMAIN target.items |-> i])

RECURSIVE Does(_, _, _), DoesAll(_, _, _), Repeats(_, _, _), Iterates(_, _, _, _, _)

DoesAssign(c, st, s) ==
  After(st, Meaning(c, st.heap, st.env, s.value),
        LAMBDA st1, v :
          IF s.target.kind # "Subscript" THEN BindTo(st1, s.target, v)
          ELSE After(st1, InOrder(c, st1.heap, st1.env, <<s.target.object, s.target.key>>),
                     LAMBDA st2, place :
                       After(st2, SetItem(st2.heap, place[1], place[2], v), LAMBDA st3, n : st3)))

DoesAugment(c, st, s) ==
  IF s.target.kind # "Subscript"
  THEN After(st, InOrder(c, st.heap, st.env, <<s.target, s.value>>),
             LAMBDA st1, v : After(st1, Binary(st1.heap, s.op, v[1], v[2]),
                                   LAMBDA st2, r : BindTo(st2, s.target, r)))
  ELSE After(st, InOrder(c, st.heap, st.env, <<s.target.object, s.target.key>>),
             LAMBDA st1, place :
               After(st1, GetItem(st1.heap, place[1], place[2]),
                     LAMBDA st2, old :
                       After(st2, Meaning(c, st2.heap, st2.env, s.value),
                             LAMBDA st3, v :
                               After(st3, Binary(st3.heap, s.op, old, v),
                                     LAMBDA st4, r :
                                       After(st4, SetItem(st4.heap, place[1], place[2], r),
                                             LAMBDA st5, n : st5)))))

\* What follows a loop: its else part, unless it was left by a break.
Ends(c, st, s) == IF st.status = "break" THEN [st EXCEPT !.status = "go"] ELSE st

Repeats(c, st, s) ==
  After(st, Meaning(c, st.heap, st.env, s.condition),
        LAMBDA st1, v :
          IF ~Truth(st1.heap, v) THEN DoesAll(c, st1, s.orelse)
          ELSE LET once == DoesAll(c, st1, s.body)
               IN IF once.status = "go" THEN Repeats(c, once, s) ELSE Ends(c, once, s))

\* A round of a for statement: its i-th items, as long as every source has one.
Iterates(c, st, s, over, i) ==
  IF \E k \in DOMAIN over : i > Len(st.heap[over[k].n].items) THEN DoesAll(c, st, s.orelse)
  ELSE LET items == [k \in DOMAIN over |-> st.heap[over[k].n].items[i]]
           bound == CASE IsCall(s.iterator, "enumerate") ->
                           BindTo(BindTo(st, s.target.items[1], SmallInt(i - 1)),
                                  s.target.items[2], items[1])
                      [] IsCall(s.iterator, "zip") ->
                           FoldLeft(LAMBDA acc, k : BindTo(acc, s.target.items[k], items[k]),
                                    st, [k \in DOMAIN items |-> k])
                      [] OTHER -> BindTo(st, s.target, items[1])
           once == IF bound.status = "go" THEN DoesAll(c, bound, s.body) ELSE bound
       IN IF once.status = "go" THEN Iterates(c, once, s, over, i + 1) ELSE Ends(c, once, s)

DoesFor(c, st, s) ==
  LET sources == IF IsCall(s.iterator, "enumerate") \/ IsCall(s.iterator, "zip")
                 THEN s.iterator.args ELSE <<s.iterator>>
  IN After(st, FoldLeft(LAMBDA acc, e :
                          IF acc.fail # "" THEN acc
                          ELSE LET o == Iterated(c, acc.heap, st.env, e)
                               IN [heap |-> o.heap, fail |-> o.fail,
                                   value |-> Append(acc.value, o.value)],
                        [heap |-> st.heap, fail |-> "", value |-> <<>>], sources),
           LAMBDA st1, over : Iterates(c, st1, s, over, 1))

Does(c, st, s) ==
  CASE s.kind = "Assign" -> DoesAssign(c, st, s)
    [] s.kind = "AugAssign" -> DoesAugment(c, st, s)
    [] s.kind = "While" -> Repeats(c, st, s)
    [] s.kind = "For" -> DoesFor(c, st, s)
    [] s.kind = "If" ->
         After(st, Meaning(c, st.heap, st.env, s.condition),
               LAMBDA st1, v : DoesAll(c, st1, IF Truth(st1.heap, v) THEN s.body ELSE s.orelse))
    [] s.kind = "Expression" -> After(st, Meaning(c, st.heap, st.env, s.value), LAMBDA st1, v : st1)
    [] s.kind = "Break" -> [st EXCEPT !.status = "break"]
    [] s.kind = "Return" ->
         After(st, Meaning(c, st.heap, st.env, s.value),
               LAMBDA st1, v : [st1 EXCEPT !.status = "return", !.value = v])

DoesAll(c, st, statements) ==
  FoldLeft(LAMBDA acc, s : IF acc.status = "go" THEN Does(c, acc, s) ELSE acc, st, statements)

\* The names a function binds anywhere in its body.
RECURSIVE BoundIn(_)
BoundIn(statements) ==
  UNION {LET s == statements[i]
         IN CASE s.kind \in {"Assign", "AugAssign"} -> BoundBy(s.target)
              [] s.kind \in {"While", "If"} -> BoundIn(s.body) \cup BoundIn(s.orelse)
              [] s.kind = "For" -> BoundBy(s.target) \cup BoundIn(s.body) \cup BoundIn(s.orelse)
              [] OTHER -> {}
         : i \in DOMAIN statements}

\* A call: what it returns, or how it failed.
Calling(c, h, name, values) ==
  LET f == DefinitionsOf(c.suite, name)[1]
      env == [n \in {f.params[i].name : i \in DOMAIN f.params} |->
                values[CHOOSE i \in DOMAIN f.params : f.params[i].name = n]]
      inner == [c EXCEPT !.depth = @ + 1, !.locals = BoundIn(f.body) \cup DOMAIN env]
  IN IF Len(values) # Len(f.params) THEN Fails(h, "Argument")
     ELSE IF c.depth >= c.limit THEN Fails(h, "Depth")
     ELSE LET end == DoesAll(inner, State(env, h), f.body)
          IN IF end.status = "fail" THEN Fails(end.heap, end.fail) ELSE Gives(end.heap, end.value)

Reference(suite, name, limit, h, values) ==
  Calling([suite |-> suite, name |-> name, depth |-> 0, limit |-> limit, locals |-> {}],
          h, name, values)

-----------------------------------------------------------------------------
\* A value as a tree: integers by their numbers, sequences by their items, to a depth.
RECURSIVE TreeOf(_, _, _)
TreeOf(h, v, depth) ==
  CASE KindOf(h, v) \in {"SmallInt", "BigInt"} -> [kind |-> "Int", n |-> NumberOf(h, v)]
    [] IsSequence(h, v) ->
         IF depth = 0 THEN [kind |-> "Deep"]
         ELSE [kind |-> KindOf(h, v),
               items |-> [i \in DOMAIN h[v.n].items |-> TreeOf(h, h[v.n].items[i], depth - 1)]]
    [] KindOf(h, v) = "Function" -> [kind |-> "Function", name |-> h[v.n].name]
    [] OTHER -> v
=============================================================================
