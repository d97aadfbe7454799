------------------------------ MODULE Bytecode ------------------------------
(***************************************************************************)
(* The WVM's instructions.  Program counters and registers count from 1;   *)
(* 0 stands for no register, no site.  Dictionaries, attributes, slices,   *)
(* strings, classes and methods are left out, and so are Divide and Power. *)
(***************************************************************************)
EXTENDS Integers, Sequences

CONSTANT Width  \* bits of a SmallInt, 64 in the code

ASSUME WidthAssumption == Width \in Nat \ {0}

Least == -(2 ^ (Width - 1))
Greatest == 2 ^ (Width - 1) - 1
SmallInts == Least .. Greatest

BinaryOperators == {"Add", "Subtract", "Multiply", "FloorDivide"}
CompareOperators == {"Eq", "NotEq", "Lt", "Le", "Gt", "Ge"}
ObjectKinds == {"List", "Tuple", "BigInt", "Function"}
SlotTypes == {"SmallInt", "Float", "Bool", "Any"} \cup ObjectKinds

\* An instruction: the register it writes, those it reads in the order of its
\* operands, its literal, its targets and its operation site.
Ins(op, operator, dst, ins, n) ==
  [op |-> op, operator |-> operator, dst |-> dst, ins |-> ins, n |-> n,
   to |-> <<>>, site |-> 0]

ConstSmallInt(dst, n) == Ins("ConstSmallInt", "", dst, <<>>, n)
Move(dst, src) == Ins("Move", "", dst, <<src>>, 0)
Jump(target) == [Ins("Jump", "", 0, <<>>, 0) EXCEPT !.to = <<target>>]
Branch(cond, yes, no) == [Ins("Branch", "", 0, <<cond>>, 0) EXCEPT !.to = <<yes, no>>]
AtSite(instruction, site) == [instruction EXCEPT !.site = site]

\* Where control goes after the instruction at pc.
Successors(code, pc) ==
  CASE code[pc].op \in {"Jump", "Branch"} -> {code[pc].to[i] : i \in DOMAIN code[pc].to}
    [] code[pc].op = "Return" -> {}
    [] OTHER -> {pc + 1}

\* Instructions that write no register.
Silent == {"SetItem", "ListAppend", "ListInsert", "Jump", "Branch", "Return"}
Writes(instruction) == instruction.op \notin Silent
Reads(instruction) == {instruction.ins[i] : i \in DOMAIN instruction.ins}
=============================================================================
