-------------------------- MODULE BytecodeVerifier --------------------------
(***************************************************************************)
(* What the verifier accepts: registers, constants, targets and operation  *)
(* sites that exist, a structure map that fits the code, and no path to a  *)
(* read of a register that was not written.  A function that was lowered   *)
(* is verified before it is given out, and again before it first runs.     *)
(***************************************************************************)
EXTENDS StructureMap, TLC

Distinct(s) == \A i, j \in DOMAIN s : s[i] = s[j] => i = j

IsRegister(f, register) == register \in 1 .. f.registers

VerifyParameters(f) ==
  /\ Len(f.params) <= f.registers
  /\ Distinct([i \in DOMAIN f.params |-> f.params[i].name])

VerifyInstruction(f, pc) ==
  LET i == f.code[pc]
  IN /\ Writes(i) => IsRegister(f, i.dst)
     /\ \A r \in Reads(i) : IsRegister(f, r)
     /\ \A t \in DOMAIN i.to : i.to[t] \in DOMAIN f.code
     /\ i.op = "LoadConstant" => i.n \in DOMAIN f.constants

\* Every operation has a site of its own, that names its place; every site is used.
VerifySites(f) ==
  LET operations == {pc \in DOMAIN f.code : f.code[pc].op \in {"BinaryOp", "CompareOp"}}
  IN /\ \A pc \in operations :
          f.code[pc].site \in DOMAIN f.sites /\ f.sites[f.code[pc].site].pc = pc
     /\ DOMAIN f.sites \subseteq {f.code[pc].site : pc \in operations}

\* verify_analysis: what is said of values agrees with the registers of the code, and an
\* alias is an alias of something in the end.
VerifyAnalysis(f, map) ==
  /\ \A id \in DOMAIN map.values :
       LET v == map.values[id]
       IN /\ v.at # 0 => v.at \in DOMAIN f.code /\ f.code[v.at].dst = v.register
          /\ v.alias # 0 => IdentityRoot(map.values, id) # 0
          /\ v.origin = "Allocation" =>
               \A i \in DOMAIN v.items :
                 v.items[i] # 0 => map.values[v.items[i]].register = f.code[v.at].ins[i]
  /\ \A pc \in DOMAIN f.code :
       /\ \A i \in DOMAIN map.inputs[pc] :
            map.inputs[pc][i] # 0 => map.values[map.inputs[pc][i]].register = f.code[pc].ins[i]
       /\ \A d \in map.depends[pc] : f.code[d.branch].op = "Branch"

VerifyBlocks(f, blocks) ==
  /\ \A pc \in DOMAIN f.code : \E b \in DOMAIN blocks : pc \in blocks[b].first .. blocks[b].last
  /\ \A a, b \in DOMAIN blocks : b \in blocks[a].successors <=> a \in blocks[b].predecessors

\* A loop ends with a jump to its header, which no other loop has.
VerifyRegions(f, blocks) ==
  /\ Distinct([r \in DOMAIN f.regions |-> f.regions[r].entry])
  /\ \A i \in DOMAIN f.regions :
       LET r == f.regions[i]
       IN /\ BlockAt(blocks, r.entry) \in RegionBlocks(blocks, r)
          /\ r.backedge >= r.entry
          /\ f.code[r.backedge] = Jump(r.entry)
          /\ Distinct(r.exits)
          /\ Distinct([s \in DOMAIN r.live |-> r.live[s].register])
          /\ \A s \in DOMAIN r.live : IsRegister(f, r.live[s].register)

-----------------------------------------------------------------------------
\* As if a register were assigned where two paths meet when it is on one of them.
OnEitherPath(current, outgoing) == current \cup outgoing

\* Where two paths meet, a register is assigned if it is on both.
OnBothPaths(current, outgoing) == current \cap outgoing

\* propagate: what is assigned before the target, given one more path to it.
PropagateTo(target, outgoing, acc) ==
  LET known == target \in DOMAIN acc.incoming
      met == IF known THEN OnBothPaths(acc.incoming[target], outgoing) ELSE outgoing
  IN IF known /\ met = acc.incoming[target] THEN acc
     ELSE [incoming |-> (target :> met) @@ acc.incoming,
           worklist |-> Append(acc.worklist, target)]

\* The registers assigned before each instruction that is reached.
RECURSIVE Assigned(_, _)
Assigned(f, acc) ==
  IF acc.worklist = <<>> THEN acc.incoming
  ELSE LET pc == Head(acc.worklist)
           outgoing == acc.incoming[pc]
                       \cup IF Writes(f.code[pc]) THEN {f.code[pc].dst} ELSE {}
           targets == SetToSeq(Successors(f.code, pc) \cap DOMAIN f.code)
       IN Assigned(f, FoldLeft(LAMBDA a, target : PropagateTo(target, outgoing, a),
                               [acc EXCEPT !.worklist = Tail(@)], targets))

\* verify_definite_assignment: no reachable path runs off the end or reads a register
\* that may not be assigned.
DefinitelyAssigned(f) ==
  /\ f.code # <<>>
  /\ LET before == Assigned(f, [incoming |-> (1 :> DOMAIN f.params), worklist |-> <<1>>])
     IN \A pc \in DOMAIN before :
          /\ Successors(f.code, pc) \subseteq DOMAIN f.code
          /\ Reads(f.code[pc]) \subseteq before[pc]

-----------------------------------------------------------------------------
Verified(f, map) ==
  /\ VerifyParameters(f)
  /\ \A pc \in DOMAIN f.code : VerifyInstruction(f, pc)
  /\ VerifySites(f)
  /\ VerifyAnalysis(f, map)
  /\ VerifyBlocks(f, map.blocks)
  /\ VerifyRegions(f, map.blocks)
  /\ DefinitelyAssigned(f)
=============================================================================
