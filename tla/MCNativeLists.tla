---------------------------- MODULE MCNativeLists ----------------------------
(* Snapshots for NativeLists: straight code over two lists, counted loops,   *)
(* lists read out of a list, lists the code owns, one field that is read,    *)
(* and code that works through helpers. Lists 4 and 5 come as parameters;    *)
(* 6 and 7 are found in list 4, and 10 names a list that is gone from the    *)
(* slot of 6.                                                                *)
EXTENDS NativeLists

Dep(kind) == [kind |-> kind, identity |-> 1, expected |-> 1, observed |-> 1]
Deps == {Dep(k) : k \in {"Executable", "Schema", "GcAbi", "HelperAbi", "Shape", "Class", "ListLayout", "Callee"}}
Exe == [id |-> 1, epoch |-> 1]

OwnedRoots(blks) ==
  {<<"OwnedList", i.arg[2]>> : i \in {j \in UNION {ToSet(b.code) : b \in ToSet(blks)} : j.op = "OwnedList"}}

\* A recipe without registers for every guard and every safepoint, each with its root map.
BodyOf(blks, loop) ==
  LET all == UNION {ToSet(b.code) : b \in ToSet(blks)}
      ids == SetToSortSeq({i.arg[2] : i \in {j \in all : j.op = "Guard"}} \cup {i.point : i \in {j \in all : j.point # 0}}, <)
  IN  [blocks |-> blks, entry |-> 1, exe |-> Exe, schema |-> 1, deps |-> Deps, loop |-> loop,
       deopts |-> [k \in DOMAIN ids |->
                     [id |-> ids[k], exe |-> Exe, frames |-> <<[registers |-> <<>>, dead |-> {}]>>,
                      virtuals |-> <<>>, point |-> ids[k], roots |-> {}, deps |-> Deps]],
       maps |-> [k \in DOMAIN ids |-> [point |-> ids[k], roots |-> OwnedRoots(blks)]]]

\* A template and its place: its output is named after the place.
I(op, arg, in, ty, eff) == [op |-> op, arg |-> arg, in |-> in, ty |-> ty, eff |-> eff]
Place(t, n) ==
  Instruction(t.op, IF t.op = "Guard" THEN <<"guard", 50 + n>> ELSE t.arg, t.in,
              IF t.ty = "None" THEN 0 ELSE 10 + n, t.ty, t.eff,
              IF t.eff \notin {"Pure", "Read"} THEN 1 + n ELSE 0, IF t.eff \in Barriers THEN 50 + n ELSE 0)
CodeAt(templates, from) == [k \in DOMAIN templates |-> Place(templates[k], from + k - 1)]

Const(n) == I("Constant", Integer(n), <<>>, "I64", "Pure")
Add(a, b) == I("IntegerAdd", NoArg, <<a, b>>, "I64", "Pure")
Less(a, b) == I("IntegerLessThan", NoArg, <<a, b>>, "Bool", "Pure")
Not(a) == I("BooleanNot", NoArg, <<a>>, "Bool", "Pure")
GuardOn(c) == I("Guard", NoArg, <<c>>, "None", "Pure")
Get(l, k) == I("ListGet", NoArg, <<l, k>>, "I64", "Read")
GetList(l, k) == I("ListGet", NoArg, <<l, k>>, "Handle", "Read")
Length(l) == I("ListLength", NoArg, <<l>>, "I64", "Read")
SetItem(l, k, v) == I("ListSet", NoArg, <<l, k, v>>, "None", "Write")
AppendTo(l, v) == I("ListAppend", NoArg, <<l, v>>, "Handle", "Write")
Clear(l) == I("ListClear", NoArg, <<l>>, "Handle", "Write")
Insert(l, k, v) == I("ListInsert", NoArg, <<l, k, v>>, "Handle", "Write")
Pop(l, k) == I("ListPop", NoArg, <<l, k>>, "I64", "Write")
ReverseTo(l, k) == I("ListReversePrefix", <<"of", "I64">>, <<l, k>>, "None", "Write")
OwnList(n) == I("OwnedList", <<"owned", 1, "I64", FALSE, FALSE>>, <<n>>, "Handle", "Pure")
OwnEmpty(n) == I("OwnedList", <<"owned", 1, "I64", TRUE, FALSE>>, <<n>>, "Handle", "Pure")
OwnCopy(n, l) == I("OwnedList", <<"owned", 1, "I64", FALSE, TRUE>>, <<n, l>>, "Handle", "Read")
Field(o, k) == I("ObjectGet", NoArg, <<o, k>>, "I64", "Read")
SetField(o, k, v) == I("ObjectSet", NoArg, <<o, k, v>>, "None", "Write")
CallAdd(a, b) == I("Call", <<"callee", 1>>, <<a, b>>, "I64", "Call")
Step(v) == I("Copy", NoArg, <<v>>, "I64", "Backedge")

Params == <<Param(1, "Handle"), Param(2, "Handle"), Param(3, "I64"), Param(4, "I64")>>

Items(ints) == [k \in DOMAIN ints |-> Integer(ints[k])]
ListCall(a, b, n, v) ==
  [values |-> <<HandleTo(4), HandleTo(5), Integer(n), Integer(v)>>,
   lists |-> (4 :> Items(a)) @@ (5 :> Items(b)), objects |-> (8 :> (0 :> 1 @@ 2 :> 2)), lent |-> TRUE]
SomeLists == {ListCall(<<1, 2>>, <<3>>, n, v) : n \in {-1, 1, 2}, v \in {-1, 0}}
             \cup {ListCall(<<>>, <<1, 2>>, 0, 0), ListCall(<<3>>, <<>>, 0, 2)}

\* Two operations, then the length of one list and an item of the other.
Menu == {Get(1, 3), SetItem(1, 3, 4), AppendTo(1, 4), Clear(1), Insert(1, 3, 4), Pop(1, 3), ReverseTo(1, 3),
         AppendTo(2, 3), Pop(2, 10), GuardOn(11)}
Straight(a, b, last) ==
  [body |-> BodyOf(<<Block(1, Params, CodeAt(<<Const(0), Less(3, 4), a, b, last, Length(2)>>, 0),
                           Return(<<14, 15>>))>>, FALSE),
   calls |-> SomeLists]
StraightDrafts == {Straight(a, b, last) : a, b \in Menu, last \in {Get(1, 10), Length(1)}}

\* For each index below a bound: two operations on lists, in the block the header leads to.
LoopMenu == {Get(1, 6), AppendTo(2, 6), AppendTo(1, 6), SetItem(1, 6, 3), Pop(1, 10), Clear(2), GuardOn(20),
             AppendTo(13, 6)}
Loop(before, start, bound, code) ==
  BodyOf(<<Block(1, Params, CodeAt(before, 0), Jump(2, <<start>>)),
           Block(2, <<Param(6, "I64")>>, CodeAt(<<Less(6, bound)>>, 10), Branch(20, 3, 4)),
           Block(3, <<>>, CodeAt(code \o <<Add(6, 11), Step(11 + 10 + Len(code))>>, 11),
                 Jump(2, <<11 + 11 + Len(code)>>)),
           Block(4, <<>>, <<>>, Return(<<6>>))>>, TRUE)
LoopDrafts ==
  {[body |-> Loop(<<Const(0), Const(1), Length(1), head>>, start, bound, <<a, b>>),
    calls |-> {ListCall(<<1, 2>>, <<3>>, 1, 1), ListCall(<<1, 2>>, <<>>, -1, 2), ListCall(<<>>, <<1>>, 0, 2)}] :
     head \in {Const(2), Clear(2), OwnEmpty(12)}, start \in {10, 3}, bound \in {12, 4}, a, b \in LoopMenu}

\* A list is emptied and filled for each item of another, with no more room than was asked for: in
\* its room and the other's length there may be a change before it is emptied or after.
TightDrafts ==
  {[body |-> Loop(<<Const(0), Const(1), change[1], empty, change[2], Length(1)>>, 10, 15, <<AppendTo(13, 6), b>>),
    calls |-> {ListCall(<<1, 2>>, <<>>, -1, -1), ListCall(<<1, 2>>, <<3>>, -1, -1), ListCall(<<>>, <<>>, -1, -1)}] :
     change \in {<<Less(3, 4), Less(3, 4)>>, <<AppendTo(1, 4), Less(3, 4)>>, <<Less(3, 4), AppendTo(1, 4)>>,
                 <<Less(3, 4), AppendTo(13, 4)>>, <<AppendTo(2, 4), Pop(1, 10)>>},
     empty \in {Clear(2), OwnEmpty(10)}, b \in {Get(1, 6), SetItem(1, 6, 3), Less(6, 15)}}

\* A list read out of list 4, then used.
Nested(items) ==
  [values |-> <<HandleTo(4), HandleTo(5), Integer(0), Integer(2)>>, objects |-> <<>>, lent |-> TRUE,
   lists |-> (4 :> items) @@ (5 :> <<>>) @@ (6 :> Items(<<1, 2>>)) @@ (7 :> Items(<<>>))]
NestedCalls == {Nested(<<HandleTo(h)>>) : h \in {4, 6, 7, 10}} \cup {Nested(<<>>)}
NestedMenu == {Get(10, 3), Get(10, 4), SetItem(10, 3, 4), ReverseTo(10, 4), ReverseTo(10, 3), AppendTo(2, 3)}
NestedDrafts ==
  {[body |-> BodyOf(<<Block(1, Params, CodeAt(<<GetList(1, 3), a, b>>, 0), Return(<<3>>))>>, FALSE),
    calls |-> NestedCalls] : a, b \in NestedMenu}

\* A list of the code's own.
OwnMenu == {AppendTo(11, 3), Clear(11), Get(11, 10), Pop(11, 10), Length(11), AppendTo(1, 3)}
OwnDrafts ==
  {[body |-> BodyOf(<<Block(1, Params, CodeAt(<<Const(0), own, a, b, Length(1)>>, 0), Return(<<14>>))>>, FALSE),
    calls |-> SomeLists] : own \in {OwnList(3), OwnEmpty(3), OwnCopy(3, 1)}, a, b \in OwnMenu}

\* A field that is read and returned.
Object == [values |-> <<HandleTo(8), HandleTo(5), Integer(0), Integer(1)>>, lists |-> (5 :> Items(<<1>>)),
           objects |-> (8 :> (0 :> 1 @@ 2 :> 2)), lent |-> FALSE]
FieldDrafts ==
  {[body |-> BodyOf(<<Block(1, Params, CodeAt(<<Field(1, k)>>, 0), Return(<<10>>))>>, FALSE),
    calls |-> {[Object EXCEPT !.values[3] = Integer(n), !.values[4] = Integer(v)] :
                n \in {-1, 0, 1, 2}, v \in {0, 1}}] :
     k \in {3, 4}}

\* Code that calls is not given lists: it works through the helpers.
ServedMenu == {Field(1, 3), SetField(1, 3, 4), AppendTo(2, 3), Get(2, 3), SetItem(2, 3, 4)}
ServedCalls == {[Object EXCEPT !.values[3] = Integer(n)] : n \in {-1, 0, 1}}
ServedCode(a, b, c) == CodeAt(<<CallAdd(3, 4), a, b, c>>, 0)
ServedDrafts ==
  {[body |-> BodyOf(<<Block(1, Params, CodeAt(<<Get(2, 3), Add(10, 4)>>, 0), Return(<<11>>))>>, FALSE),
    calls |-> ServedCalls]} \cup
  {[body |-> BodyOf(<<Block(1, Params, ServedCode(a, b, c), Return(<<10>>))>>, FALSE), calls |-> ServedCalls] :
     a, b, c \in ServedMenu}
  \cup {[body |-> BodyOf(<<Block(1, Params, ServedCode(a, b, c), Jump(2, <<10>>)),
                          Block(2, <<Param(6, "I64")>>, <<>>, Return(<<6>>))>>, FALSE), calls |-> ServedCalls] :
     a, b, c \in ServedMenu}

\* Code without lists: numbers 1 and 2, a float 3 and a boolean 4, in one block or with a branch.
Numbers == <<Param(1, "I64"), Param(2, "I64"), Param(3, "F64"), Param(4, "Bool")>>
NumberCalls == {[values |-> <<Integer(a), Integer(b), FloatBits(-1), Boolean(c)>>, lists |-> <<>>, objects |-> <<>>,
                 lent |-> FALSE] : a \in {-4, -1, 3}, b \in {-1, 2}, c \in BOOLEAN}
Halve(a) == I("IntegerFloorDivide", <<"divisor", 2>>, <<a>>, "I64", "Pure")
ToFloat(a) == I("IntegerToFloat", NoArg, <<a>>, "F64", "Pure")
AddFloat(a, b) == I("FloatAdd", NoArg, <<a, b>>, "F64", "Pure")
LessFloat(a, b) == I("FloatCompare", <<"compare", "LessThan">>, <<a, b>>, "Bool", "Pure")
Both(a, b) == I("BooleanAnd", NoArg, <<a, b>>, "Bool", "Pure")
Choose(c, a, b) == I("Select", NoArg, <<c, a, b>>, "I64", "Pure")
Integral == {Add(1, 2), Halve(1), Less(1, 2), GuardOn(4), Choose(4, 1, 2), I("IntegerNegate", NoArg, <<1>>, "I64", "Pure")}
Floating == {ToFloat(1), AddFloat(3, 3), LessFloat(3, 3)}
NumberDrafts ==
  {[body |-> BodyOf(<<Block(1, Numbers, CodeAt(<<a, b, Not(4), Less(1, 2)>> \o c, 0), Return(<<12, 13>>))>>, FALSE),
    calls |-> NumberCalls] :
     a \in Integral, b \in Integral \cup Floating, c \in {<<>>, <<Both(12, 13), GuardOn(14)>>, <<Both(12, 4)>>}}
  \cup {[body |-> BodyOf(<<Block(1, Numbers, CodeAt(<<a, Not(4)>> \o c, 0), Branch(b, 2, 3)),
                          Block(2, <<>>, CodeAt(<<Add(1, 1)>>, 10), Return(<<20>>)),
                          Block(3, <<>>, CodeAt(<<GuardOn(4)>>, 20), Return(<<1>>))>>, FALSE),
          calls |-> NumberCalls] :
     a \in Integral, b \in {4, 11, 12}, c \in {<<Less(1, 2)>>, <<LessFloat(3, 3)>>, <<Both(4, 11)>>}}
  \cup {[body |-> BodyOf(<<Block(1, Numbers, CodeAt(<<a, b>>, 0), Return(<<10>>))>>, FALSE), calls |-> NumberCalls] :
          a \in Integral \ {GuardOn(4)}, b \in {Add(1, 10), ToFloat(1), GuardOn(4)}}

MCDrafts ==
  NumberDrafts \cup StraightDrafts \cup LoopDrafts \cup TightDrafts \cup NestedDrafts
    \cup OwnDrafts \cup FieldDrafts \cup ServedDrafts
=============================================================================
