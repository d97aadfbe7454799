---------------------------- MODULE PythonSource ----------------------------
(***************************************************************************)
(* The first half of the Python front end: names are resolved and the      *)
(* syntax tree of a function is made into the tree (HIR) that is lowered.  *)
(* A tree has the shape of the source it stands for; a construct the front *)
(* end refuses becomes Refused, which refuses the function.                *)
(*                                                                         *)
(* A module is a sequence of definitions and assignments, the output of    *)
(* the parser: [kind |-> "Def", name, params, body] and                    *)
(* [kind |-> "Assign", target, value].                                     *)
(***************************************************************************)
EXTENDS Bytecode, SequencesExt

Refused == [kind |-> "Refused"]

\* The name a comprehension written list(...) binds; no source can spell it.
HiddenItem == "<list-item>"

-----------------------------------------------------------------------------
\* lower_constant: an integer that does not fit is a BigInt.
Literal(n) == [kind |-> IF n \in SmallInts THEN "SmallInt" ELSE "BigInt", n |-> n]

IsCall(e, name) == e.kind = "Call" /\ e.callable.kind = "Name" /\ e.callable.name = name

\* integer_literal: none or one number.
RECURSIVE IntegerLiteral(_)
IntegerLiteral(e) ==
  CASE e.kind = "Int" /\ e.n \in SmallInts -> <<e.n>>
    [] e.kind = "Negate" ->
         SelectSeq([i \in DOMAIN IntegerLiteral(e.operand) |-> -IntegerLiteral(e.operand)[i]],
                   LAMBDA n : n \in SmallInts)
    [] OTHER -> <<>>

\* The start, stop and step of a range written with literals only, or nothing.
RangeLiterals(e) ==
  LET literals == FlattenSeq([i \in DOMAIN e.args |-> IntegerLiteral(e.args[i])])
  IN IF Len(e.args) \notin 1 .. 3 \/ Len(literals) # Len(e.args) THEN <<>>
     ELSE CASE Len(literals) = 1 -> <<0, literals[1], 1>>
            [] Len(literals) = 2 -> literals \o <<1>>
            [] Len(literals) = 3 -> literals

\* A range written with literals that is not empty.
GuaranteesIteration(e) ==
  LET r == RangeLiterals(e) IN
    /\ r # <<>>
    /\ (r[3] > 0 /\ r[1] < r[2]) \/ (r[3] < 0 /\ r[1] > r[2])

\* The names a target binds, in order.
RECURSIVE TargetNames(_)
TargetNames(target) ==
  IF target.kind = "Name" THEN <<target.name>>
  ELSE FlattenSeq([i \in DOMAIN target.items |-> TargetNames(target.items[i])])

RECURSIVE IsTarget(_)
IsTarget(target) ==
  \/ target.kind = "Name"
  \/ /\ target.kind = "Tuple" /\ target.items # <<>>
     /\ \A i \in DOMAIN target.items : IsTarget(target.items[i])

BoundBy(target) == IF IsTarget(target) THEN ToSet(TargetNames(target)) ELSE {}

\* The names a function binds itself.  The else part of a loop is not searched.
RECURSIVE LocalAssignmentNames(_)
LocalAssignmentNames(statements) ==
  UNION {LET s == statements[i]
         IN CASE s.kind \in {"Assign", "AugAssign"} -> BoundBy(s.target)
              [] s.kind = "While" -> LocalAssignmentNames(s.body)
              [] s.kind = "If" -> LocalAssignmentNames(s.body) \cup LocalAssignmentNames(s.orelse)
              [] s.kind = "For" -> BoundBy(s.target) \cup LocalAssignmentNames(s.body)
              [] OTHER -> {}
         : i \in DOMAIN statements}

-----------------------------------------------------------------------------
DefinitionsOf(suite, name) == SelectSeq(suite, LAMBDA s : s.kind = "Def" /\ s.name = name)
HasFunction(suite, name) == DefinitionsOf(suite, name) # <<>>

\* The first assignment of a module to the name, if its value is a constant.
RECURSIVE ModuleConstant(_, _, _), IsModuleConstant(_, _, _)
ModuleConstant(suite, name, active) ==
  LET assigns == SelectSeq(suite, LAMBDA s : s.kind = "Assign" /\ s.target = name)
  IN IF name \in active \/ assigns = <<>> THEN <<>>
     ELSE IF IsModuleConstant(suite, assigns[1].value, active \cup {name})
          THEN <<assigns[1].value>> ELSE <<>>

IsModuleConstant(suite, e, active) ==
  CASE e.kind \in {"Int", "Float", "Bool", "None"} -> TRUE
    [] e.kind = "Negate" -> IsModuleConstant(suite, e.operand, active)
    [] e.kind = "Binary" -> /\ IsModuleConstant(suite, e.lhs, active)
                            /\ IsModuleConstant(suite, e.rhs, active)
    [] e.kind \in {"Tuple", "List"} ->
         \A i \in DOMAIN e.items : IsModuleConstant(suite, e.items[i], active)
    [] e.kind = "Name" -> ModuleConstant(suite, e.name, active) # <<>>
    [] OTHER -> FALSE

-----------------------------------------------------------------------------
\* A scope: the module, the function being compiled, the names it binds anywhere,
\* and those bound so far.
InitializedWith(scope, names) == [scope EXCEPT !.initialized = @ \cup names]

\* A parameter of the function annotated "list".
ExactListParameter(scope, name) ==
  LET found == DefinitionsOf(scope.suite, scope.name)
  IN /\ Len(found) = 1
     /\ \E i \in DOMAIN found[1].params :
          found[1].params[i] = [name |-> name, annotation |-> "list"]

RECURSIVE LowerExpr(_, _)

\* range with one to three arguments; the step is a literal other than 0.
LowerRange(scope, e) ==
  LET step == IF Len(e.args) = 3 THEN LowerExpr(scope, e.args[3]) ELSE Literal(1)
  IN IF Len(e.args) \notin 1 .. 3 \/ step.kind # "SmallInt" \/ step = Literal(0) THEN Refused
     ELSE [kind |-> "Range",
           start |-> IF Len(e.args) = 1 THEN Literal(0) ELSE LowerExpr(scope, e.args[1]),
           stop |-> LowerExpr(scope, e.args[IF Len(e.args) = 1 THEN 1 ELSE 2]),
           step |-> step.n]

LowerIterator(scope, e) ==
  IF IsCall(e, "range") THEN LowerRange(scope, e)
  ELSE [kind |-> "Iterable", source |-> LowerExpr(scope, e)]

LowerName(scope, name) ==
  LET constant == ModuleConstant(scope.suite, name, {})
  IN CASE name \in scope.locals \cup scope.initialized -> [kind |-> "Name", name |-> name]
       [] name = scope.name -> [kind |-> "CurrentFunction"]
       [] constant # <<>> -> LowerExpr(scope, constant[1])
       [] HasFunction(scope.suite, name) -> [kind |-> "Function", name |-> name]
       [] OTHER -> [kind |-> "Name", name |-> name]

\* len(list(x)) measures a list parameter itself; list(...) is a comprehension.
LowerCall(scope, e) ==
  LET Copied(x) == /\ IsCall(x, "list") /\ Len(x.args) = 1 /\ x.args[1].kind = "Name"
                   /\ ExactListParameter(scope, x.args[1].name)
  IN CASE (IsCall(e, "len") \/ IsCall(e, "list")) /\ Len(e.args) # 1 -> Refused
       [] IsCall(e, "len") ->
            [kind |-> "Length",
             object |-> LowerExpr(scope, IF Copied(e.args[1]) THEN e.args[1].args[1]
                                         ELSE e.args[1])]
       [] IsCall(e, "list") ->
            [kind |-> "ListComprehension", target |-> HiddenItem,
             element |-> [kind |-> "Name", name |-> HiddenItem],
             iterator |-> LowerIterator(scope, e.args[1])]
       [] OTHER ->
            [kind |-> "Call", callable |-> LowerExpr(scope, e.callable),
             args |-> [i \in DOMAIN e.args |-> LowerExpr(scope, e.args[i])]]

LowerComprehension(scope, e) ==
  IF e.target.kind # "Name" THEN Refused
  ELSE [kind |-> "ListComprehension", target |-> e.target.name,
        element |-> LowerExpr(InitializedWith(scope, {e.target.name}), e.element),
        iterator |-> LowerIterator(scope, e.iterator)]

\* A method is pop here; append and insert are statements.
LowerExpr(scope, e) ==
  CASE e.kind = "Int" -> Literal(e.n)
    [] e.kind \in {"Float", "Bool", "None"} -> e
    [] e.kind = "Negate" /\ e.operand.kind = "Int" -> Literal(-e.operand.n)
    [] e.kind \in {"Negate", "Not"} -> [e EXCEPT !.operand = LowerExpr(scope, e.operand)]
    [] e.kind = "Name" -> LowerName(scope, e.name)
    [] e.kind \in {"Binary", "Compare"} ->
         [e EXCEPT !.lhs = LowerExpr(scope, e.lhs), !.rhs = LowerExpr(scope, e.rhs)]
    [] e.kind = "Boolean" ->
         [e EXCEPT !.values = [i \in DOMAIN e.values |-> LowerExpr(scope, e.values[i])]]
    [] e.kind \in {"Tuple", "List"} ->
         [e EXCEPT !.items = [i \in DOMAIN e.items |-> LowerExpr(scope, e.items[i])]]
    [] e.kind = "ListComp" -> LowerComprehension(scope, e)
    [] e.kind = "Subscript" -> [kind |-> "GetItem", object |-> LowerExpr(scope, e.object),
                                key |-> LowerExpr(scope, e.key)]
    [] e.kind = "Call" -> LowerCall(scope, e)
    [] e.kind = "Method" /\ e.name = "pop" /\ Len(e.args) <= 1 ->
         [kind |-> "ListPop", list |-> LowerExpr(scope, e.object),
          index |-> IF e.args = <<>> THEN Literal(-1) ELSE LowerExpr(scope, e.args[1])]
    [] OTHER -> Refused
-----------------------------------------------------------------------------
\* The initialized names are threaded through the statements: a statement gives the
\* tree and the names after it.
Lowered(tree, names) == [tree |-> tree, names |-> names]

LowerAssignment(scope, s) ==
  LET value == LowerExpr(scope, s.value)
  IN CASE s.target.kind = "Subscript" ->
            Lowered([kind |-> "SetItem", object |-> LowerExpr(scope, s.target.object),
                     key |-> LowerExpr(scope, s.target.key), value |-> value],
                    scope.initialized)
       [] s.target.kind # "Subscript" /\ IsTarget(s.target) ->
            Lowered([kind |-> "Assign", target |-> s.target, value |-> value],
                    scope.initialized \cup BoundBy(s.target))
       [] OTHER -> Lowered(Refused, scope.initialized)

\* x op= y is x = x op y, for a name that is initialized.
LowerAugmentedAssignment(scope, s) ==
  CASE s.target.kind = "Subscript" ->
         Lowered([kind |-> "AugSetItem", object |-> LowerExpr(scope, s.target.object),
                  key |-> LowerExpr(scope, s.target.key), op |-> s.op,
                  value |-> LowerExpr(scope, s.value)],
                 scope.initialized)
    [] s.target.kind = "Name" /\ s.target.name \in scope.initialized ->
         Lowered([kind |-> "Assign", target |-> s.target,
                  value |-> [kind |-> "Binary", op |-> s.op, lhs |-> s.target,
                             rhs |-> LowerExpr(scope, s.value)]],
                 scope.initialized)
    [] OTHER -> Lowered(Refused, scope.initialized)

\* append and insert; any other expression is evaluated and dropped.
LowerExpressionStatement(scope, s) ==
  LET e == s.value
      Is(name, arity) == e.kind = "Method" /\ e.name = name /\ Len(e.args) = arity
  IN CASE Is("append", 1) ->
            [kind |-> "ListAppend", list |-> LowerExpr(scope, e.object),
             value |-> LowerExpr(scope, e.args[1])]
       [] Is("insert", 2) ->
            [kind |-> "ListInsert", list |-> LowerExpr(scope, e.object),
             index |-> LowerExpr(scope, e.args[1]), value |-> LowerExpr(scope, e.args[2])]
       [] OTHER -> [kind |-> "Expression", value |-> LowerExpr(scope, e)]

\* What a for statement that is not over a range goes through: enumerate of one
\* sequence, zip of several, or one sequence.
LowerSequenceIterables(scope, e, targets) ==
  LET enumerate == IsCall(e, "enumerate")
      valid == IF enumerate THEN Len(e.args) = 1 /\ Len(targets) = 2
               ELSE IsCall(e, "zip") /\ e.args # <<>> /\ Len(e.args) = Len(targets)
  IN IF e.kind # "Call" THEN [sources |-> <<LowerExpr(scope, e)>>, index |-> FALSE]
     ELSE [sources |-> IF valid THEN [i \in DOMAIN e.args |-> LowerExpr(scope, e.args[i])]
                       ELSE <<Refused>>,
           index |-> enumerate /\ valid]

RECURSIVE LowerStatements(_, _)

LowerWhile(scope, s) ==
  LET orelse == LowerStatements(scope, s.orelse)
  IN Lowered([kind |-> "While", condition |-> LowerExpr(scope, s.condition),
              body |-> LowerStatements(scope, s.body).tree, orelse |-> orelse.tree],
             orelse.names)

\* Only names initialized before an if statement are initialized after it.
LowerIf(scope, s) ==
  LET body == LowerStatements(scope, s.body)
      orelse == LowerStatements(scope, s.orelse)
  IN Lowered([kind |-> "If", condition |-> LowerExpr(scope, s.condition),
              body |-> body.tree, orelse |-> orelse.tree],
             scope.initialized \cap body.names \cap orelse.names)

\* The target counts as initialized after the loop, even if the loop may be empty.
LowerForRange(scope, s) ==
  LET range == LowerRange(scope, s.iterator)
      within == InitializedWith(scope, BoundBy(s.target))
      body == LowerStatements(within, s.body)
      certain == GuaranteesIteration(s.iterator)
      after == IF certain THEN InitializedWith(within, body.names) ELSE within
      orelse == LowerStatements(after, s.orelse)
  IN IF range = Refused \/ Len(TargetNames(s.target)) # 1
     THEN Lowered(Refused, scope.initialized)
     ELSE Lowered([kind |-> "ForRange", target |-> TargetNames(s.target)[1],
                   start |-> range.start, stop |-> range.stop, step |-> range.step,
                   certain |-> certain, body |-> body.tree, orelse |-> orelse.tree],
                  orelse.names)

LowerForSequence(scope, s) ==
  LET unpacks == IsCall(s.iterator, "enumerate") \/ IsCall(s.iterator, "zip")
      targets == IF unpacks /\ s.target.kind = "Tuple" THEN s.target.items ELSE <<s.target>>
      over == LowerSequenceIterables(scope, s.iterator, targets)
      within == InitializedWith(scope, BoundBy(s.target))
      orelse == LowerStatements(within, s.orelse)
  IN IF unpacks /\ s.target.kind # "Tuple" THEN Lowered(Refused, scope.initialized)
     ELSE Lowered([kind |-> "ForSequence", targets |-> targets, sources |-> over.sources,
                   index |-> over.index, body |-> LowerStatements(within, s.body).tree,
                   orelse |-> orelse.tree],
                  orelse.names)

LowerStatement(scope, s) ==
  CASE s.kind = "Assign" -> LowerAssignment(scope, s)
    [] s.kind = "AugAssign" -> LowerAugmentedAssignment(scope, s)
    [] s.kind = "While" -> LowerWhile(scope, s)
    [] s.kind = "If" -> LowerIf(scope, s)
    [] s.kind = "For" /\ ~IsTarget(s.target) -> Lowered(Refused, scope.initialized)
    [] s.kind = "For" /\ IsTarget(s.target) ->
         IF IsCall(s.iterator, "range") THEN LowerForRange(scope, s)
         ELSE LowerForSequence(scope, s)
    [] s.kind = "Expression" -> Lowered(LowerExpressionStatement(scope, s), scope.initialized)
    [] s.kind = "Return" ->
         Lowered([kind |-> "Return", value |-> LowerExpr(scope, s.value)], scope.initialized)
    [] OTHER -> Lowered(s, scope.initialized)

LowerStatements(scope, statements) ==
  IF statements = <<>> THEN Lowered(<<>>, scope.initialized)
  ELSE LET first == LowerStatement(scope, Head(statements))
           rest == LowerStatements([scope EXCEPT !.initialized = first.names],
                                   Tail(statements))
       IN Lowered(<<first.tree>> \o rest.tree, rest.names)

-----------------------------------------------------------------------------
Annotations == [int |-> "SmallInt", float |-> "Float", bool |-> "Bool", tuple |-> "Tuple",
                list |-> "List", bigint |-> "BigInt", function |-> "Function",
                object |-> "Any"]

\* lower_parameters: every parameter has an annotation and a name of its own.
ParametersAccepted(params) ==
  /\ \A i, j \in DOMAIN params : params[i].name = params[j].name => i = j
  /\ \A i \in DOMAIN params : params[i].annotation \in DOMAIN Annotations

\* compile_definition: the tree of the one definition of the name, or Refused; a
\* function ends with a return statement.
SourceTree(suite, name) ==
  LET definition == DefinitionsOf(suite, name)[1]
      names == {definition.params[i].name : i \in DOMAIN definition.params}
      scope == [suite |-> suite, name |-> name, initialized |-> names,
                locals |-> LocalAssignmentNames(definition.body)]
  IN IF \/ Len(DefinitionsOf(suite, name)) # 1
        \/ ~ParametersAccepted(definition.params)
        \/ definition.body = <<>>
     THEN Refused
     ELSE IF Last(definition.body).kind # "Return" THEN Refused
     ELSE [kind |-> "Function",
           params |-> [i \in DOMAIN definition.params |->
                         [name |-> definition.params[i].name,
                          ty |-> Annotations[definition.params[i].annotation]]],
           body |-> LowerStatements(scope, definition.body).tree]
=============================================================================
