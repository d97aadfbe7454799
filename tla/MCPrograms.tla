----------------------------- MODULE MCPrograms -----------------------------
(***************************************************************************)
(* The functions that are compiled and run, with their arguments.  A       *)
(* SmallInt has 4 bits: -8 .. 7.                                           *)
(***************************************************************************)
EXTENDS WvmInterpreter

int(n) == [kind |-> "Int", n |-> n]
flo(n) == [kind |-> "Float", n |-> n]
yes == [kind |-> "Bool", n |-> 1]
none == [kind |-> "None", n |-> 0]
id(x) == [kind |-> "Name", name |-> x]
neg(e) == [kind |-> "Negate", operand |-> e]
inv(e) == [kind |-> "Not", operand |-> e]
bin(op, l, r) == [kind |-> "Binary", op |-> op, lhs |-> l, rhs |-> r]
cmp(op, l, r) == [kind |-> "Compare", op |-> op, lhs |-> l, rhs |-> r]
add(l, r) == bin("Add", l, r)
mul(l, r) == bin("Multiply", l, r)
div(l, r) == bin("FloorDivide", l, r)
lt(l, r) == cmp("Lt", l, r)
both(es) == [kind |-> "Boolean", op |-> "And", values |-> es]
either(es) == [kind |-> "Boolean", op |-> "Or", values |-> es]
tup(es) == [kind |-> "Tuple", items |-> es]
lst(es) == [kind |-> "List", items |-> es]
comp(e, x, it) == [kind |-> "ListComp", element |-> e, target |-> id(x), iterator |-> it]
at(o, k) == [kind |-> "Subscript", object |-> o, key |-> k]
call(f, es) == [kind |-> "Call", callable |-> id(f), args |-> es]
range(es) == call("range", es)
len(e) == call("len", <<e>>)
method(o, x, es) == [kind |-> "Method", object |-> o, name |-> x, args |-> es]

put(x, e) == [kind |-> "Assign", target |-> id(x), value |-> e]
unpack(xs, e) == [kind |-> "Assign", target |-> tup([i \in DOMAIN xs |-> id(xs[i])]), value |-> e]
store(o, k, e) == [kind |-> "Assign", target |-> at(o, k), value |-> e]
aug(target, op, e) == [kind |-> "AugAssign", target |-> target, op |-> op, value |-> e]
inc(x, e) == aug(id(x), "Add", e)
if(c, b, o) == [kind |-> "If", condition |-> c, body |-> b, orelse |-> o]
while(c, b, o) == [kind |-> "While", condition |-> c, body |-> b, orelse |-> o]
for(t, it, b, o) == [kind |-> "For", target |-> t, iterator |-> it, body |-> b, orelse |-> o]
do(e) == [kind |-> "Expression", value |-> e]
break == [kind |-> "Break"]
ret(e) == [kind |-> "Return", value |-> e]
push(x, e) == do(method(id(x), "append", <<e>>))

par(x, ty) == [name |-> x, annotation |-> ty]
def(x, params, body) == [kind |-> "Def", name |-> x, params |-> params, body |-> body]
global(x, e) == [kind |-> "Assign", target |-> x, value |-> e]

a == id("a")
b == id("b")
i == id("i")
s == id("s")
n == id("n")
xs == id("xs")

\* Arguments.
In(k) == [kind |-> "SmallInt", n |-> k]
Fl(k) == [kind |-> "Float", n |-> k]
Big(k) == [kind |-> "BigInt", n |-> k]
Ls(items) == [kind |-> "List", items |-> items]
Tp(items) == [kind |-> "Tuple", items |-> items]
Ints(ks) == Ls([k \in DOMAIN ks |-> In(ks[k])])

Ab(ty) == <<par("a", ty), par("b", ty)>>
Ab2 == Ab("int")
One(x, ty) == <<par(x, ty)>>

\* A module whose function is f.
Module(suite, calls) == [suite |-> suite, name |-> "f", calls |-> calls]
Only(params, body, calls) == Module(<<def("f", params, body)>>, calls)

Pairs == <<<<In(5), In(2)>>, <<In(-8), In(-1)>>, <<In(7), In(-2)>>, <<In(3), In(0)>>>>

-----------------------------------------------------------------------------
\* Numbers: results that fit and that do not, division by zero and by a negative number.
Arithmetics ==
  [k \in 1 .. 4 |->
     LET op == <<"Add", "Subtract", "Multiply", "FloorDivide">>[k]
     IN Only(Ab2, <<put("c", bin(op, a, b)), ret(tup(<<id("c"), neg(a), lt(a, id("c"))>>))>>,
             Pairs)]

Floats ==
  <<Only(<<par("a", "float"), par("b", "int")>>,
         <<put("c", add(mul(a, b), flo(1))), if(id("c"), <<inc("c", b)>>, <<>>),
           ret(cmp("Ge", id("c"), b))>>,
         <<<<Fl(3), In(2)>>, <<Fl(-1), In(1)>>, <<In(3), In(2)>>>>)>>

\* Calls: of a leaf whose numbers may not fit, of a function as a value, of itself to the
\* limit, of what is no function.
Leaf(op) == def("g", Ab2, <<put("c", mul(a, b)), ret(bin(op, id("c"), b))>>)
Calls ==
  <<Module(<<Leaf("Add"), def("f", Ab2, <<ret(add(call("g", <<a, b>>), call("g", <<b, b>>)))>>)>>,
           <<<<In(2), In(1)>>, <<In(3), In(2)>>>>),
    Module(<<Leaf("FloorDivide"), def("f", Ab("object"), <<ret(tup(<<call("g", <<a, b>>), a>>))>>)>>,
           <<<<In(2), In(-1)>>, <<In(1), In(0)>>, <<In(3), In(-2)>>, <<In(1), Fl(1)>>>>),
    Module(<<def("g", <<par("x", "float")>>, <<put("y", neg(id("x"))), ret(id("y"))>>),
             def("h", <<par("x", "float")>>, <<put("y", add(id("x"), int(1))), ret(id("y"))>>),
             def("f", One("a", "object"), <<put("k", id("g")), ret(tup(<<call("k", <<a>>),
                                                                      call("h", <<a>>)>>))>>)>>,
           <<<<Fl(2)>>, <<In(2)>>>>),
    Only(One("n", "int"),
         <<put("r", int(1)), if(cmp("Gt", n, int(1)),
                                <<put("r", mul(call("f", <<bin("Subtract", n, int(1))>>), n))>>, <<>>),
           ret(id("r"))>>,
         <<<<In(1)>>, <<In(3)>>, <<In(4)>>>>),
    Only(<<par("a", "object"), par("b", "int")>>, <<ret(call("a", <<b>>))>>,
         <<<<In(1), In(2)>>>>),
    Module(<<def("g", One("x", "list"), <<do(method(id("x"), "append", <<int(1)>>)), ret(none)>>),
             def("f", One("xs", "list"), <<do(call("g", <<xs>>)), ret(len(xs))>>)>>,
           <<<<Ints(<<4>>)>>>>)>>

-----------------------------------------------------------------------------
Loops ==
  <<Only(One("n", "int"),
         <<put("i", int(0)), put("s", int(0)),
           while(lt(i, n), <<inc("i", int(1)), if(cmp("Eq", i, int(3)), <<break>>, <<>>),
                             inc("s", i)>>,
                 <<inc("s", int(4))>>),
           ret(tup(<<i, s>>))>>,
         <<<<In(0)>>, <<In(2)>>, <<In(4)>>>>),
    Only(<<>>,
         <<put("s", int(0)), for(id("i"), range(<<int(3)>>), <<put("t", i), inc("s", i)>>, <<>>),
           ret(add(s, id("t")))>>,
         <<<<>>>>),
    Only(One("n", "int"),
         <<put("s", int(0)),
           for(id("i"), range(<<int(5), n, neg(int(2))>>),
               <<if(cmp("Le", i, int(1)), <<break>>, <<inc("s", i)>>)>>, <<inc("s", neg(int(1)))>>),
           ret(s)>>,
         <<<<In(5)>>, <<In(2)>>, <<In(0)>>>>),
    Only(One("n", "int"),
         <<put("s", int(0)),
           for(id("i"), range(<<n>>),
               <<for(id("j"), range(<<i, n>>),
                     <<if(lt(int(4), s), <<break>>, <<>>), inc("s", id("j")), put("n", int(0))>>, <<>>)>>,
               <<>>),
           ret(tup(<<s, n>>))>>,
         <<<<In(1)>>, <<In(3)>>>>),
    Only(One("n", "int"),
         <<put("s", int(0)), for(id("i"), range(<<int(2), int(2)>>), <<inc("s", int(1))>>, <<>>),
           ret(s)>>,
         <<<<In(1)>>>>),
    \* What a loop leaves in its target: the verifier refuses the first.
    Only(One("n", "int"), <<for(id("i"), range(<<n>>), <<do(i)>>, <<>>), ret(i)>>, <<<<In(2)>>>>),
    Only(<<>>, <<for(id("i"), range(<<int(0), neg(int(3)), neg(int(1))>>), <<do(i)>>, <<>>),
                 ret(i)>>, <<<<>>>>),
    Only(<<par("xs", "list"), par("ys", "tuple")>>,
         <<put("s", int(0)),
           for(tup(<<id("i"), id("v")>>), call("enumerate", <<xs>>),
               <<inc("s", mul(i, id("v")))>>, <<inc("s", int(1))>>),
           for(tup(<<id("v"), id("w")>>), call("zip", <<xs, id("ys")>>),
               <<aug(id("s"), "Subtract", mul(id("v"), id("w")))>>, <<>>),
           ret(s)>>,
         <<<<Ints(<<1, 2, 3>>), Tp(<<In(2), In(1)>>)>>, <<Ls(<<>>), Tp(<<In(1)>>)>>>>),
    Only(One("xs", "list"),
         <<put("s", int(0)),
           for(tup(<<id("u"), id("v")>>), xs,
               <<if(cmp("Eq", id("v"), int(0)), <<break>>, <<>>), inc("s", div(id("u"), id("v")))>>,
               <<inc("s", int(2))>>),
           ret(s)>>,
         <<<<Ls(<<Tp(<<In(6), In(2)>>), Tp(<<In(1), In(1)>>)>>)>>,
           <<Ls(<<Tp(<<In(6), In(2)>>), Ints(<<1, 0>>), In(1)>>)>>, <<Ls(<<In(1)>>)>>>>),
    \* A variable whose type widens in the loop.
    Only(One("xs", "list"),
         <<put("m", int(1)), put("i", int(0)),
           while(lt(i, len(xs)), <<put("k", add(id("m"), int(1))), put("m", at(xs, i)), inc("i", int(1))>>,
                 <<>>),
           ret(id("m"))>>,
         <<<<Ints(<<2, 4>>)>>, <<Ls(<<Fl(2), Fl(3)>>)>>, <<Ls(<<Ls(<<>>), In(1)>>)>>>>),
    Only(One("xs", "list"),
         <<put("m", yes), while(id("m"), <<put("m", method(xs, "pop", <<>>))>>, <<>>),
           ret(id("m"))>>,
         <<<<Ls(<<[kind |-> "Bool", n |-> 0]>>)>>, <<Ints(<<0, 1>>)>>>>)>>

Comprehensions ==
  <<Only(<<par("xs", "list"), par("n", "int")>>,
         <<put("ys", comp(add(id("n"), id("n")), "n", xs)), ret(tup(<<id("ys"), n>>))>>,
         <<<<Ints(<<1, 5>>), In(3)>>>>),
    Only(One("n", "int"),
         <<put("rows", comp(comp(mul(i, id("j")), "j", range(<<i>>)), "i", range(<<n>>))),
           ret(id("rows"))>>,
         <<<<In(3)>>, <<In(0)>>>>),
    Only(One("xs", "list"),
         <<put("i", call("list", <<range(<<int(1), len(call("list", <<xs>>))>>)>>)),
           put("c", call("list", <<xs>>)), push("c", i), ret(tup(<<len(xs), id("c")>>))>>,
         <<<<Ints(<<1, 5, 2>>)>>>>)>>

-----------------------------------------------------------------------------
Lists ==
  <<Only(<<par("xs", "list"), par("a", "int")>>,
         <<push("xs", a), do(method(xs, "insert", <<int(0), at(xs, neg(int(1)))>>)),
           put("c", method(xs, "pop", <<>>)), put("d", method(xs, "pop", <<int(0)>>)),
           store(xs, neg(int(1)), id("c")), aug(at(xs, int(0)), "Multiply", a),
           ret(tup(<<id("c"), id("d"), xs>>))>>,
         <<<<Ints(<<1, 2>>), In(5)>>, <<Ls(<<>>), In(1)>>>>),
    Only(<<par("xs", "list"), par("ys", "list"), par("a", "int")>>,
         <<put("zs", add(mul(xs, a), id("ys"))), push("zs", a),
           ret(tup(<<cmp("Eq", id("zs"), xs), at(id("zs"), a), len(id("zs"))>>))>>,
         <<<<Ints(<<1, 2>>), Ints(<<3>>), In(2)>>, <<Ints(<<1>>), Ls(<<>>), In(0)>>,
           <<Ints(<<1>>), Ls(<<Fl(1)>>), In(-1)>>>>),
    Only(Ab("object"), <<unpack(<<"b", "a">>, tup(<<a, b>>)), ret(tup(<<a, b>>))>>,
         <<<<In(1), Ints(<<2>>)>>>>),
    Only(<<par("a", "tuple"), par("b", "object")>>,
         <<unpack(<<"x", "y">>, a), put("z", add(id("x"), b)), ret(tup(<<id("z"), at(a, id("y"))>>))>>,
         <<<<Tp(<<In(7), In(1)>>), In(1)>>, <<Tp(<<In(7), In(2)>>), Fl(1)>>,
           <<Tp(<<In(7), In(1)>>), Ls(<<>>)>>, <<Tp(<<Big(9), Big(1)>>), In(1)>>>>),
    Only(<<par("a", "tuple"), par("b", "int")>>, <<store(a, b, b), ret(a)>>,
         <<<<Tp(<<In(1)>>), In(0)>>>>)>>

Conditions ==
  <<Only(Ab2,
         <<ret(either(<<both(<<cmp("NotEq", b, int(0)), cmp("Ge", div(a, b), int(2))>>),
                        inv(cmp("Eq", a, int(3)))>>))>>,
         Pairs),
    Only(Ab2,
         <<put("x", int(0)),
           if(a, <<put("x", b), if(lt(a, b), <<put("x", a)>>, <<>>)>>,
              <<if(b, <<put("x", int(1))>>, <<put("x", int(2))>>)>>),
           inc("x", int(1)), ret(id("x"))>>,
         <<<<In(1), In(5)>>, <<In(5), In(1)>>, <<In(0), In(7)>>, <<In(0), In(0)>>>>),
    Only(One("a", "object"), <<put("x", yes), if(a, <<>>, <<put("x", inv(id("x")))>>), ret(id("x"))>>,
         <<<<In(1)>>, <<In(0)>>, <<Fl(0)>>, <<Big(9)>>>>),
    Only(<<par("a", "list"), par("b", "int")>>, <<ret(lt(a, b))>>, <<<<Ls(<<>>), In(1)>>>>)>>

Constants ==
  <<Module(<<global("BIG", int(9)), global("PAIR", tup(<<id("BIG"), neg(int(1))>>)),
             def("f", One("a", "int"),
                 <<put("x", at(id("PAIR"), int(0))),
                   ret(tup(<<div(id("x"), a), bin("Subtract", id("x"), int(2)),
                             cmp("Eq", id("x"), id("BIG")), mul(id("BIG"), a)>>))>>)>>,
           <<<<In(2)>>, <<In(0)>>, <<In(-2)>>>>)>>

\* Functions the front end or the verifier refuses.
Refusals ==
  <<Only(One("a", "int"), <<if(lt(a, int(0)), <<put("x", a)>>, <<>>), ret(id("x"))>>, <<<<In(1)>>>>),
    Only(One("a", "int"), <<while(lt(a, int(0)), <<put("x", a), inc("a", int(1))>>, <<>>), ret(id("x"))>>,
         <<<<In(1)>>>>),
    Only(One("a", "int"), <<ret(id("x")), put("x", a), ret(a)>>, <<<<In(1)>>>>),
    Only(One("a", "int"), <<break, ret(a)>>, <<<<In(1)>>>>),
    Only(One("a", "int"), <<put("a", tup(<<a>>)), ret(a)>>, <<<<In(1)>>>>),
    Only(One("a", "int"), <<inc("x", a), ret(a)>>, <<<<In(1)>>>>),
    Only(One("a", "int"), <<do(a)>>, <<<<In(1)>>>>),
    Only(One("xs", "list"),
         <<put("x", int(0)), put("y", int(0)),
           while(lt(int(0), len(xs)),
                 <<while(lt(id("x"), int(1)), <<break, put("x", id("y")), put("y", id("x"))>>, <<>>),
                   do(method(xs, "pop", <<>>))>>, <<>>),
           ret(id("x"))>>, <<<<Ints(<<1>>)>>>>),
    Module(<<def("f", One("a", "int"), <<ret(call("g", <<a>>))>>),
             def("g", One("a", "int"), <<ret(call("f", <<a>>))>>)>>, <<<<In(1)>>>>),
    Module(<<def("f", One("a", "int"), <<ret(a)>>), def("f", One("a", "int"), <<ret(a)>>)>>,
           <<<<In(1)>>>>),
    Only(Ab2, <<if(lt(a, b), <<ret(a)>>, <<>>), ret(b)>>, Pairs)>>

MCPrograms == Arithmetics \o Floats \o Calls \o Loops \o Comprehensions \o Lists \o Conditions
              \o Constants \o Refusals

Compiled ==
  [p \in DOMAIN MCPrograms |-> CompileNamed(MCPrograms[p].suite, MCPrograms[p].name, {})]
Told ==
  [p \in DOMAIN MCPrograms |->
     [c \in DOMAIN MCPrograms[p].calls |->
        CallMeaning(MCPrograms[p].suite, MCPrograms[p].name, MCPrograms[p].calls[c])]]

MCExecutables == LET all == Compiled IN all
MCMeanings == LET all == Told IN all
=============================================================================
