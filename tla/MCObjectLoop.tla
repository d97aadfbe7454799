---------------------------- MODULE MCObjectLoop ----------------------------
(* Eight loops over lists of numbers and lists of such lists. *)
EXTENDS ObjectLoop, FiniteSets

MCRegisters == {"i", "n", "xs", "ys", "rows", "row", "cols", "col", "f", "t", "u", "v", "z"}

Loop(name, entry, temporaries, preheader, body) ==
  [name |-> name, entry |-> <<"i", "n">> \o entry, temporaries |-> temporaries, preheader |-> preheader, body |-> body]

\* xs[i] = xs[i] + xs[i]
Scale(preheader) == Loop(IF preheader THEN "scale" ELSE "scale2", <<"xs">>, <<"v">>, preheader,
  <<GetItem("v", "xs", "i"), Add("v", "v", "v"), PutItem("xs", "i", "v")>>)
\* row = rows[i]; row[k] = row[k] + row[k]
Rows(k) == Loop(IF k = 0 THEN "rows" ELSE "rows2", <<"rows">>, <<"row", "v", "z">>, k = 0,
  <<GetItem("row", "rows", "i"), Const("z", IntValue(k)), GetItem("v", "row", "z"), Add("v", "v", "v"), PutItem("row", "z", "v")>>)
\* the same, with the row found in the middle
Deep(preheader) == Loop("deep", <<"rows">>, <<"t", "row", "v", "z">>, preheader,
  <<Const("z", IntValue(0)), Add("t", "i", "z"), GetItem("row", "rows", "t"), GetItem("v", "row", "z"),
    Add("v", "v", "v"), PutItem("row", "z", "v")>>)
\* row = rows[i]; col = cols[i]; t = 0; row[t] = row[t] + col[t]
Pair == Loop("pair", <<"rows", "cols">>, <<"row", "col", "t", "u", "v", "z">>, FALSE,
  <<GetItem("row", "rows", "i"), GetItem("col", "cols", "i"), Const("z", IntValue(0)), Add("t", "z", "z"),
    GetItem("v", "col", "t"), GetItem("u", "row", "t"), Add("v", "v", "u"), PutItem("row", "t", "v")>>)
\* xs[i] = f(xs[i])
Map == Loop("map", <<"xs", "f">>, <<"v">>, TRUE,
  <<GetItem("v", "xs", "i"), Call("v", "f", "v"), PutItem("xs", "i", "v")>>)
\* ys.append(xs[i] + xs[i])
Collect == Loop("collect", <<"xs", "ys">>, <<"v">>, FALSE,
  <<GetItem("v", "xs", "i"), Add("v", "v", "v"), ListAppend("ys", "v")>>)

MCPairOnly == {Pair}
MCPrograms == {Scale(TRUE), Scale(FALSE), Rows(0), Rows(-1), Deep(TRUE), Pair, Map, Collect}

I1 == <<IntValue(1), IntValue(3)>>
F1 == <<FloatValue(1), FloatValue(3)>>
M1 == <<IntValue(1), FloatValue(3)>>
\* Neither twice the first nor one more than it fits a word.
O1 == <<IntValue(7), IntValue(1)>>
\* An integer that no longer fits one, and the least that does.
B1 == <<BigValue(9), IntValue(-8)>>

At(objects, n, bindings) ==
  [heap |-> objects, regs |-> [r \in Registers |-> CASE r = "i" -> IntValue(0) [] r = "n" -> IntValue(n)
                                                  [] r \in DOMAIN bindings -> bindings[r] [] OTHER -> Uninitialized]]

Flat == {At(<<ListObject(items)>>, n, [xs |-> RefValue(1)]) : items \in {I1, F1, M1, O1, B1}, n \in {2, 3}}
Nested ==
  {At(<<ListObject(a), ListObject(b), ListObject(<<RefValue(1), RefValue(k)>>)>>, 2, [rows |-> RefValue(3)]) :
     a \in {I1, F1, O1}, b \in {I1, F1, M1, O1, B1}, k \in {1, 2}}
Paired ==
  {At(<<ListObject(a), ListObject(b), ListObject(<<RefValue(1), RefValue(2)>>), TupleObject(<<RefValue(j), RefValue(k)>>)>>, 2,
      [rows |-> RefValue(3), cols |-> RefValue(4)]) : a \in {I1, O1}, b \in {I1, F1}, j \in {1, 2}, k \in {1, 2}}
Mapped ==
  {At(<<ListObject(items), FunctionObject(1), FunctionObject(2)>>, 2, [xs |-> RefValue(1), f |-> RefValue(k)]) :
     items \in {I1, F1, O1}, k \in {2, 3}}
Collected ==
  {At(<<ListObject(items), ListObject(ys)>>, 2, [xs |-> RefValue(1), ys |-> RefValue(2)]) :
     items \in {I1, F1, O1}, ys \in {<<>>, <<IntValue(5)>>, <<FloatValue(5)>>}}
  \cup {At(<<ListObject(I1)>>, 2, [xs |-> RefValue(1), ys |-> RefValue(1)])}

MCArguments(name) ==
  CASE name \in {"scale", "scale2"} -> Flat
    [] name \in {"rows", "rows2", "deep"} -> Nested
    [] name = "pair" -> Paired
    [] name = "map" -> Mapped
    [] name = "collect" -> Collected
=============================================================================
