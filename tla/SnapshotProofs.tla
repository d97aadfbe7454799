--------------------------- MODULE SnapshotProofs ---------------------------
(***************************************************************************)
(* What the verifier's check of uses is for: a body it approves never      *)
(* reads a value that was not defined on the way there, whatever its       *)
(* arguments and its heap are, and so none that the pipeline seals or      *)
(* rewrites does.                                                          *)
(*                                                                         *)
(* A run is followed block by block and instruction by instruction.  When  *)
(* it enters a block, it has defined what the dominators of the block      *)
(* define; in front of an instruction also what the block defines before.  *)
(*                                                                         *)
(* And what the passes that replace instructions one by one must not do: a *)
(* run of the body they make is the run of the body they were given.  What *)
(* such a pass remembers of the instructions before is shown to hold of    *)
(* the run, which needs that the verifier lets a value be defined once.    *)
(*                                                                         *)
(* From this follow, for a compilation that moves no instruction, that the *)
(* compiled body means what the draft meant, that a frame given back after *)
(* a guard is the one the draft gives back, and, as each replacement fits  *)
(* what the verifier asks of its place, that no pass fails.                *)
(***************************************************************************)
EXTENDS SnapshotPipeline, WellFoundedInduction, TLAPS

\* A set of numbers that holds 0 and the successor of each of its members holds them all.
LEMMA AllNumbers ==
  ASSUME NEW T, 0 \in T, \A n \in Nat : n \in T => n + 1 \in T
  PROVE  Nat \subseteq T
<1> DEFINE S == Nat \ T
<1> SUFFICES ASSUME NEW n \in Nat, n \notin T PROVE FALSE
  OBVIOUS
<1>1. PICK x \in S : \A y \in S : <<y, x>> \notin OpToRel(<, Nat)
  <2>1. IsWellFoundedOn(OpToRel(<, Nat), Nat)
    BY NatLessThanWellFounded
  <2>2. S \subseteq Nat /\ n \in S
    OBVIOUS
  <2> QED BY <2>1, <2>2, WFMin
<1>2. x \in Nat /\ x \notin T /\ x # 0
  BY <1>1
<1>3. x - 1 \in Nat /\ x = (x - 1) + 1
  BY <1>2
<1>4. <<x - 1, x>> \in OpToRel(<, Nat)
  BY <1>2, <1>3 DEF OpToRel
<1>5. x - 1 \in T
  BY <1>1, <1>3, <1>4
<1> QED BY <1>2, <1>3, <1>5

-----------------------------------------------------------------------------
(* Runs.                                                                   *)

IsRun(r) ==
  r = [block |-> r.block, incoming |-> r.incoming, env |-> r.env, missing |-> r.missing, heap |-> r.heap,
       outcome |-> r.outcome, undefined |-> r.undefined]

Defined(r) == DOMAIN r.env \cup r.missing

\* The run has not read an undefined value, and knows what may be used at a place of a block.
Ready(snap, r, block, pos) ==
  \A s \in Sites(snap) :
    (IF s.block = block THEN s.pos < pos ELSE s.block \in Dominators(snap)[block]) => s.id \in Defined(r)

Within(snap, r, b, pos) ==
  IsRun(r) /\ ~r.undefined /\ (r.outcome = Running => r.block = b.id /\ Ready(snap, r, b.id, pos))

\* Between two blocks, before the parameters of the next one have their values.
Between(snap, r) ==
  /\ IsRun(r) /\ ~r.undefined
  /\ r.outcome = Running => r.block \in BlockIds(snap) /\ Ready(snap, r, r.block, 0)

\* What the verifier says of the uses of a body, and what it says before of its blocks.
UsesHold(snap) ==
  /\ IsBody(snap) /\ BlocksDistinct(snap) /\ snap.entry \in BlockIds(snap) /\ TargetsExist(snap)
  /\ \A b \in ToSet(snap.blocks) :
       /\ \A k \in DOMAIN b.code : \A v \in ToSet(b.code[k].in) :
            MayUse(Sites(snap), Dominators(snap), v, b.id, k)
       /\ \A v \in ToSet(TerminatorValues(b.term)) :
            MayUse(Sites(snap), Dominators(snap), v, b.id, Len(b.code) + 1)

LEMMA VerifiedUses == ASSUME NEW snap, Verified(snap) PROVE UsesHold(snap)
BY DEF Verified, UsesHold, BlockHolds

\* Where a value of a block can be defined.
LEMMA SitesOfBlock ==
  ASSUME NEW snap, UsesHold(snap), NEW b \in ToSet(snap.blocks), NEW s \in Sites(snap), s.block = b.id
  PROVE  \/ s.pos = 0 /\ \E k \in DOMAIN b.params : s.id = b.params[k].id
         \/ s.pos \in DOMAIN b.code /\ b.code[s.pos].out = s.id /\ s.id # 0
<1>1. PICK c \in ToSet(snap.blocks) :
        \/ \E k \in DOMAIN c.params :
             s = [id |-> c.params[k].id, ty |-> c.params[k].ty, block |-> c.id, pos |-> 0, nth |-> k]
        \/ \E k \in {j \in DOMAIN c.code : c.code[j].out # 0} :
             s = [id |-> c.code[k].out, ty |-> c.code[k].ty, block |-> c.id, pos |-> k, nth |-> k]
  BY DEF Sites
<1>2. c = b
  BY <1>1 DEF UsesHold, BlocksDistinct, ToSet
<1> QED BY <1>1, <1>2

\* A dominator of a block that is not the block itself dominates what jumps to it.
LEMMA DominatorsPassOn ==
  ASSUME NEW snap, UsesHold(snap), NEW b \in ToSet(snap.blocks), NEW c \in Targets(b.term),
         NEW d \in Dominators(snap)[c], d # c
  PROVE  d \in Dominators(snap)[b.id]
<1> DEFINE roots == {id \in BlockIds(snap) : id = snap.entry \/ Predecessors(snap, id) = {}}
<1> DEFINE Closed(S) == /\ roots \ {d} \subseteq S
                        /\ \A e \in ToSet(snap.blocks) : e.id \in S => Targets(e.term) \subseteq S \cup {d}
<1>1. b.id \in BlockIds(snap) /\ c \in BlockIds(snap) /\ d \in BlockIds(snap)
  BY DEF UsesHold, TargetsExist, BlockIds, Dominators
<1>2. PICK S \in SUBSET (BlockIds(snap) \ {d}) : Closed(S) /\ c \notin S
  BY <1>1 DEF Dominators, ReachedWithout
<1>3. b.id \notin S
  BY <1>2
<1>4. b.id \notin ReachedWithout(snap, d)
  BY <1>2, <1>3 DEF ReachedWithout
<1> QED BY <1>1, <1>4 DEF Dominators

\* The entry has no other dominator.
LEMMA EntryDominators ==
  ASSUME NEW snap, UsesHold(snap), NEW d \in Dominators(snap)[snap.entry] PROVE d = snap.entry
<1>1. snap.entry \in BlockIds(snap)
  BY DEF UsesHold
<1>2. ASSUME d # snap.entry PROVE snap.entry \in ReachedWithout(snap, d)
  BY <1>1, <1>2 DEF ReachedWithout
<1> QED BY <1>1, <1>2 DEF Dominators

-----------------------------------------------------------------------------
(* The steps of a block.                                                   *)

LEMMA EndsDiffer ==
  ASSUME NEW x PROVE Running # Invalid /\ Running # <<"Return", x>> /\ Running # <<"SideExit", x>>
<1>1. Running[1] = "Running" /\ Invalid[1] = "Invalid"
  BY DEF Running, Invalid
<1>2. <<"Return", x>>[1] = "Return" /\ <<"SideExit", x>>[1] = "SideExit"
  OBVIOUS
<1> QED BY <1>1, <1>2

\* A value that may be used at a place is defined there.
LEMMA UsesAreDefined ==
  ASSUME NEW snap, NEW r, NEW block, NEW pos, Ready(snap, r, block, pos), NEW ids,
         \A v \in ToSet(ids) : MayUse(Sites(snap), Dominators(snap), v, block, pos)
  PROVE  ~ReadsUndefined(ids, r)
BY DEF Ready, MayUse, ReadsUndefined, Defined

LEMMA ExecuteInstruction ==
  ASSUME NEW snap, UsesHold(snap), NEW b \in ToSet(snap.blocks), NEW k \in 1..Len(b.code),
         NEW r, Within(snap, r, b, k)
  PROVE  Within(snap, StepInstruction(r, b.code[k]), b, k + 1)
<1> DEFINE instr == b.code[k]
           q == StepInstruction(r, instr)
           in == Lookup(instr.in, r.env)
           result == Execute(instr.op, instr.arg, in, r.heap)
<1>1. k \in DOMAIN b.code /\ k \in Nat /\ DOMAIN b.code \subseteq Nat
  BY DEF UsesHold, IsBody, IsBlock, IsVector
<1>0. Invalid # Running
  BY EndsDiffer
<1>2. \A v \in ToSet(instr.in) : MayUse(Sites(snap), Dominators(snap), v, b.id, k)
  BY <1>1 DEF UsesHold
<1>3. CASE r.outcome # Running
  BY <1>3 DEF StepInstruction, Within
<1>4. CASE r.outcome = Running /\ ~Known(instr.in, r.env)
  <2>1. ~ReadsUndefined(instr.in, r)
    BY <1>2, <1>4, UsesAreDefined DEF Within
  <2>2. q = [r EXCEPT !.outcome = Invalid, !.undefined = ReadsUndefined(instr.in, r)]
    BY <1>4 DEF StepInstruction
  <2> QED BY <2>1, <2>2, <1>0 DEF Within, IsRun
<1>5. CASE r.outcome = Running /\ Known(instr.in, r.env) /\ ~result.ok
  <2>1. q = [r EXCEPT !.outcome = Invalid]
    BY <1>5 DEF StepInstruction
  <2> QED BY <2>1, <1>5, <1>0 DEF Within, IsRun
<1>6. CASE r.outcome = Running /\ Known(instr.in, r.env) /\ result.ok
  <2> DEFINE gives == instr.out # 0 /\ result.value # None
             lacks == instr.out # 0 /\ result.value = None
             env == IF gives THEN Put(r.env, instr.out, result.value) ELSE r.env
             missing == IF lacks THEN r.missing \cup {instr.out} ELSE r.missing
             outcome == IF instr.op = "Guard" /\ (in = <<>> \/ in[1] # Boolean(TRUE))
                        THEN <<"SideExit", instr.arg[2]>> ELSE r.outcome
  <2>1. q = [r EXCEPT !.heap = result.heap, !.env = env, !.missing = missing, !.outcome = outcome]
    BY <1>6 DEF StepInstruction
  <2>2. /\ IsRun(q) /\ q.undefined = r.undefined /\ q.block = r.block
        /\ q.env = env /\ q.missing = missing
    <3> HIDE DEF env, missing, outcome, q
    <3> QED BY <2>1 DEF Within, IsRun
  <2>3. Defined(r) \subseteq Defined(q) /\ (instr.out # 0 => instr.out \in Defined(q))
    <3> HIDE DEF q
    <3> QED BY <2>2 DEF Defined, Put
  <2>4. ASSUME NEW s \in Sites(snap),
               IF s.block = b.id THEN s.pos < k + 1 ELSE s.block \in Dominators(snap)[b.id]
        PROVE  s.id \in Defined(q)
    <3>1. CASE s.block = b.id /\ s.pos = k
      BY <3>1, <2>3, <1>1, SitesOfBlock
    <3>2. CASE s.block = b.id /\ s.pos # k
      <4>1. s.pos \in Nat
        BY <3>2, <1>1, SitesOfBlock
      <4>2. s.pos < k
        BY <4>1, <3>2, <2>4, <1>1
      <4> QED BY <4>2, <3>2, <2>3, <1>6 DEF Within, Ready
    <3>3. CASE s.block # b.id
      BY <3>3, <2>4, <2>3, <1>6 DEF Within, Ready
    <3> QED BY <3>1, <3>2, <3>3
  <2>5. Within(snap, q, b, k + 1)
    <3> HIDE DEF q
    <3> QED BY <2>2, <2>4, <1>6 DEF Within, Ready
  <2> QED BY <2>5
<1> QED BY <1>3, <1>4, <1>5, <1>6

\* The terminator names a next block that knows what its dominators define.
LEMMA LeaveBlock ==
  ASSUME NEW snap, UsesHold(snap), NEW b \in ToSet(snap.blocks),
         NEW r, Within(snap, r, b, Len(b.code) + 1)
  PROVE  Between(snap, StepTerminator(r, b.term))
<1> DEFINE term == b.term
           q == StepTerminator(r, term)
           ids == TerminatorValues(term)
           jumps == term.kind = "Jump"
           branches == term.kind = "Branch" /\ Known(<<term.cond>>, r.env) /\ r.env[term.cond][1] = "Bool"
           returns == term.kind = "Return" /\ Known(term.values, r.env)
           exits == term.kind = "SideExit"
<1>1. CASE r.outcome # Running
  BY <1>1 DEF StepTerminator, Within, Between
<1>2. CASE r.outcome = Running /\ (jumps \/ branches)
  <2>1. \E next, in : q = [r EXCEPT !.block = next, !.incoming = in] /\ next \in Targets(term)
    <3>1. CASE jumps
      BY <3>1, <1>2 DEF StepTerminator, Targets
    <3>2. CASE branches /\ ~jumps
      BY <3>2, <1>2 DEF StepTerminator, Targets
    <3> QED BY <3>1, <3>2, <1>2
  <2>2. PICK next, in : q = [r EXCEPT !.block = next, !.incoming = in] /\ next \in Targets(term)
    BY <2>1
  <2>3. IsRun(q) /\ ~q.undefined /\ q.block = next /\ Defined(q) = Defined(r)
    <3> HIDE DEF q
    <3> QED BY <2>2 DEF Within, IsRun, Defined
  <2>4. next \in BlockIds(snap)
    BY <2>2 DEF UsesHold, TargetsExist
  <2>5. ASSUME NEW s \in Sites(snap),
               IF s.block = next THEN s.pos < 0 ELSE s.block \in Dominators(snap)[next]
        PROVE  s.id \in Defined(r)
    <3>1. CASE s.block = b.id
      <4>1. Len(b.code) \in Nat /\ DOMAIN b.code = 1..Len(b.code)
        BY DEF UsesHold, IsBody, IsBlock, IsVector
      <4>2. s.pos \in Nat /\ s.pos < Len(b.code) + 1
        BY <3>1, <4>1, SitesOfBlock
      <4> QED BY <4>2, <3>1, <1>2 DEF Within, Ready
    <3>2. CASE s.block # b.id /\ s.block # next
      <4>1. s.block \in Dominators(snap)[b.id]
        BY <3>2, <2>2, <2>5, DominatorsPassOn
      <4> QED BY <4>1, <3>2, <1>2 DEF Within, Ready
    <3>3. CASE s.block = next
      <4>1. PICK c \in ToSet(snap.blocks) : c.id = next
        BY <2>4 DEF BlockIds
      <4>2. DOMAIN c.code \subseteq Nat
        BY <4>1 DEF UsesHold, IsBody, IsBlock, IsVector
      <4>3. s.pos \in Nat
        BY <4>1, <4>2, <3>3, SitesOfBlock
      <4> QED BY <4>3, <3>3, <2>5
    <3> QED BY <3>1, <3>2, <3>3
  <2>6. Between(snap, q)
    <3> HIDE DEF q
    <3> QED BY <2>3, <2>4, <2>5 DEF Between, Ready
  <2> QED BY <2>6
<1>3. CASE r.outcome = Running /\ ~jumps /\ ~branches /\ returns
  <2>1. q = [r EXCEPT !.outcome = <<"Return", Lookup(term.values, r.env)>>]
    BY <1>3 DEF StepTerminator
  <2> QED BY <2>1, EndsDiffer DEF Within, IsRun, Between
<1>4. CASE r.outcome = Running /\ ~jumps /\ ~branches /\ ~returns /\ exits
  <2>1. q = [r EXCEPT !.outcome = <<"SideExit", term.id>>]
    BY <1>4 DEF StepTerminator
  <2> QED BY <2>1, EndsDiffer DEF Within, IsRun, Between
<1>5. CASE r.outcome = Running /\ ~jumps /\ ~branches /\ ~returns /\ ~exits
  <2>1. q = [r EXCEPT !.outcome = Invalid, !.undefined = ReadsUndefined(ids, r)]
    BY <1>5 DEF StepTerminator
  <2>2. ~ReadsUndefined(ids, r)
    BY <1>5, UsesAreDefined DEF Within, UsesHold
  <2> QED BY <2>1, <2>2, EndsDiffer DEF Within, IsRun, Between
<1> QED BY <1>1, <1>2, <1>3, <1>4, <1>5

LEMMA EnterBlock ==
  ASSUME NEW snap, UsesHold(snap), NEW b \in ToSet(snap.blocks),
         NEW r, Between(snap, r), r.outcome = Running, r.block = b.id
  PROVE  Within(snap, BindParameters(r, b.params), b, 1)
<1> DEFINE q == BindParameters(r, b.params)
           Value(v) == IF \E k \in DOMAIN b.params : b.params[k].id = v
                       THEN r.incoming[CHOOSE k \in DOMAIN b.params : b.params[k].id = v] ELSE r.env[v]
           env == [v \in DOMAIN r.env \cup {p.id : p \in ToSet(b.params)} |-> Value(v)]
<1>1. q = [r EXCEPT !.env = env]
  BY DEF BindParameters
<1>2. IsRun(q) /\ ~q.undefined /\ q.block = b.id /\ q.env = env /\ q.missing = r.missing
  <2> HIDE DEF q, env
  <2> QED BY <1>1 DEF Between, IsRun
<1>3. Defined(r) \cup {p.id : p \in ToSet(b.params)} \subseteq Defined(q)
  <2> HIDE DEF q, Value
  <2> QED BY <1>2 DEF Defined
<1>4. ASSUME NEW s \in Sites(snap),
             IF s.block = b.id THEN s.pos < 1 ELSE s.block \in Dominators(snap)[b.id]
      PROVE  s.id \in Defined(q)
  <2> HIDE DEF q
  <2>1. CASE s.block = b.id
    <3>1. DOMAIN b.code = 1..Len(b.code) /\ Len(b.code) \in Nat
      BY DEF UsesHold, IsBody, IsBlock, IsVector
    <3>2. \E k \in DOMAIN b.params : s.id = b.params[k].id
      BY <3>1, <2>1, <1>4, SitesOfBlock
    <3> QED BY <3>2, <1>3 DEF ToSet
  <2>2. CASE s.block # b.id
    BY <2>2, <1>3, <1>4 DEF Between, Ready
  <2> QED BY <2>1, <2>2
<1>5. Within(snap, q, b, 1)
  <2> HIDE DEF q
  <2> QED BY <1>2, <1>4 DEF Within, Ready
<1> QED BY <1>5

-----------------------------------------------------------------------------
(* Whole blocks and whole runs: the recursive functions of StepCode and    *)
(* Replay exist, and what a step keeps holds of all their values.          *)

StepsOf(r, code, f, n) == f = [k \in 0..n |-> IF k = 0 THEN r ELSE StepInstruction(f[k - 1], code[k])]

LEMMA StepsExist ==
  ASSUME NEW r, NEW code, NEW n \in Nat
  PROVE  \E f : StepsOf(r, code, f, n)
<1> DEFINE T == {m \in Nat : \E f : StepsOf(r, code, f, m)}
<1>1. 0 \in T
  <2>1. StepsOf(r, code, [k \in 0..0 |-> r], 0)
    BY DEF StepsOf
  <2> QED BY <2>1
<1>2. ASSUME NEW m \in Nat, m \in T PROVE m + 1 \in T
  <2>1. PICK f : StepsOf(r, code, f, m)
    BY <1>2
  <2> DEFINE g == [k \in 0..(m + 1) |-> IF k = m + 1 THEN StepInstruction(f[m], code[m + 1]) ELSE f[k]]
  <2>2. StepsOf(r, code, g, m + 1)
    BY <2>1 DEF StepsOf
  <2> QED BY <2>2
<1> QED BY <1>1, <1>2, AllNumbers

LEMMA RunCode ==
  ASSUME NEW snap, UsesHold(snap), NEW b \in ToSet(snap.blocks),
         NEW r, Within(snap, r, b, 1)
  PROVE  Within(snap, StepCode(r, b.code), b, Len(b.code) + 1)
<1> DEFINE n == Len(b.code)
           after == CHOOSE f : StepsOf(r, b.code, f, n)
           T == {m \in Nat : m <= n => Within(snap, after[m], b, m + 1)}
<1>1. n \in Nat
  BY DEF UsesHold, IsBody, IsBlock, IsVector
<1>2. StepsOf(r, b.code, after, n)
  BY <1>1, StepsExist
<1>3. StepCode(r, b.code) = after[n]
  BY DEF StepCode, StepsOf
<1> HIDE DEF after
<1>4. 0 \in T
  BY <1>1, <1>2 DEF StepsOf
<1>5. ASSUME NEW m \in Nat, m \in T PROVE m + 1 \in T
  <2> SUFFICES ASSUME m + 1 <= n PROVE Within(snap, after[m + 1], b, (m + 1) + 1)
    OBVIOUS
  <2>1. Within(snap, after[m], b, m + 1) /\ m + 1 \in 1..n
    BY <1>1, <1>5
  <2>2. after[m + 1] = StepInstruction(after[m], b.code[m + 1])
    BY <1>1, <1>2 DEF StepsOf
  <2> QED BY <2>1, <2>2, ExecuteInstruction
<1>6. n \in T
  BY <1>1, <1>4, <1>5, AllNumbers
<1> QED BY <1>1, <1>3, <1>6

LEMMA RunBlock ==
  ASSUME NEW snap, UsesHold(snap), NEW r, Between(snap, r)
  PROVE  Between(snap, StepBlock(snap, r))
<1> DEFINE b == BlockAt(snap, r.block)
<1>1. CASE r.outcome # Running
  BY <1>1 DEF StepBlock
<1>2. CASE r.outcome = Running /\ (r.block \notin BlockIds(snap) \/ Len(b.params) # Len(r.incoming))
  <2>1. StepBlock(snap, r) = [r EXCEPT !.outcome = Invalid]
    BY <1>2 DEF StepBlock
  <2> QED BY <2>1, EndsDiffer DEF Between, IsRun
<1>3. CASE r.outcome = Running /\ ~(r.block \notin BlockIds(snap) \/ Len(b.params) # Len(r.incoming))
  <2>1. b \in ToSet(snap.blocks) /\ b.id = r.block
    BY <1>3 DEF BlockAt, BlockIds
  <2>2. StepBlock(snap, r) = StepTerminator(StepCode(BindParameters(r, b.params), b.code), b.term)
    BY <1>3 DEF StepBlock
  <2> HIDE DEF b
  <2> QED BY <1>3, <2>1, <2>2, EnterBlock, RunCode, LeaveBlock
<1> QED BY <1>1, <1>2, <1>3

BlocksOf(snap, start, f, n) == f = [k \in 0..n |-> IF k = 0 THEN start ELSE StepBlock(snap, f[k - 1])]

LEMMA BlocksExist ==
  ASSUME NEW snap, NEW start, NEW n \in Nat
  PROVE  \E f : BlocksOf(snap, start, f, n)
<1> DEFINE T == {m \in Nat : \E f : BlocksOf(snap, start, f, m)}
<1>1. 0 \in T
  <2>1. BlocksOf(snap, start, [k \in 0..0 |-> start], 0)
    BY DEF BlocksOf
  <2> QED BY <2>1
<1>2. ASSUME NEW m \in Nat, m \in T PROVE m + 1 \in T
  <2>1. PICK f : BlocksOf(snap, start, f, m)
    BY <1>2
  <2> DEFINE g == [k \in 0..(m + 1) |-> IF k = m + 1 THEN StepBlock(snap, f[m]) ELSE f[k]]
  <2>2. BlocksOf(snap, start, g, m + 1)
    BY <2>1 DEF BlocksOf
  <2> QED BY <2>2
<1> QED BY <1>1, <1>2, AllNumbers

\* A verified body does not read a value that no instruction it ran defines, whatever it
\* is called with and for however many blocks it runs (verify_use, replay.rs).
THEOREM VerifiedReadsDefined ==
  ASSUME NEW snap, Verified(snap), NEW arguments, NEW heap
  PROVE  ~Replay(snap, arguments, heap).undefined
<1> DEFINE start == Start(snap, arguments, heap)
           after == CHOOSE f : BlocksOf(snap, start, f, StepLimit)
           T == {m \in Nat : m <= StepLimit => Between(snap, after[m])}
<1>1. UsesHold(snap)
  BY VerifiedUses
<1>2. StepLimit \in Nat
  BY ReplayAssumption
<1>3. BlocksOf(snap, start, after, StepLimit)
  BY <1>2, BlocksExist
<1>4. Replay(snap, arguments, heap) = after[StepLimit]
  BY DEF Replay, BlocksOf
<1>5. Between(snap, start)
  <2>1. IsRun(start) /\ ~start.undefined /\ start.block = snap.entry
    BY DEF Start, IsRun
  <2>2. snap.entry \in BlockIds(snap)
    BY <1>1 DEF UsesHold
  <2>3. Ready(snap, start, snap.entry, 0)
    <3> SUFFICES ASSUME NEW s \in Sites(snap), s.block = snap.entry PROVE ~(s.pos < 0)
      BY <1>1, EntryDominators DEF Ready
    <3>1. PICK c \in ToSet(snap.blocks) : c.id = snap.entry
      BY <2>2 DEF BlockIds
    <3>2. DOMAIN c.code \subseteq Nat
      BY <1>1, <3>1 DEF UsesHold, IsBody, IsBlock, IsVector
    <3> QED BY <1>1, <3>1, <3>2, SitesOfBlock
  <2> HIDE DEF start
  <2> QED BY <2>1, <2>2, <2>3 DEF Between
<1> HIDE DEF after, start
<1>6. 0 \in T
  BY <1>2, <1>3, <1>5 DEF BlocksOf
<1>7. ASSUME NEW m \in Nat, m \in T PROVE m + 1 \in T
  <2> SUFFICES ASSUME m + 1 <= StepLimit PROVE Between(snap, after[m + 1])
    OBVIOUS
  <2>1. Between(snap, after[m])
    BY <1>2, <1>7
  <2>2. after[m + 1] = StepBlock(snap, after[m])
    BY <1>2, <1>3 DEF BlocksOf
  <2> QED BY <1>1, <2>1, <2>2, RunBlock
<1>8. StepLimit \in T
  BY <1>2, <1>6, <1>7, AllNumbers
<1> QED BY <1>2, <1>4, <1>8 DEF Between

-----------------------------------------------------------------------------
(* Runs of two bodies that differ in the code of their blocks only.  Each  *)
(* pass but scalar replacement and hoisting makes such a body: it replaces *)
(* instructions one by one.                                                *)

\* The recursive functions of StepCode and Replay are determined by their definitions.
LEMMA StepsUnique ==
  ASSUME NEW r, NEW code, NEW n \in Nat, NEW f, NEW g, StepsOf(r, code, f, n), StepsOf(r, code, g, n)
  PROVE  f = g
<1> DEFINE T == {m \in Nat : m <= n => f[m] = g[m]}
<1>1. 0 \in T
  BY DEF StepsOf
<1>2. ASSUME NEW m \in Nat, m \in T PROVE m + 1 \in T
  BY <1>2 DEF StepsOf
<1>3. \A m \in 0..n : f[m] = g[m]
  <2>1. Nat \subseteq T
    <3> HIDE DEF T
    <3> QED BY <1>1, <1>2, AllNumbers
  <2> QED BY <2>1
<1>4. f = [k \in 0..n |-> IF k = 0 THEN r ELSE StepInstruction(f[k - 1], code[k])] /\ g = [k \in 0..n |-> IF k = 0 THEN r ELSE StepInstruction(g[k - 1], code[k])]
  BY DEF StepsOf
<1>5. \A k \in 0..n : (IF k = 0 THEN r ELSE StepInstruction(f[k - 1], code[k])) = (IF k = 0 THEN r ELSE StepInstruction(g[k - 1], code[k]))
  BY <1>3
<1> QED BY <1>4, <1>5, Zenon

\* Two codes whose instructions do the same at every point of a run of one of them run alike.
LEMMA SameCode ==
  ASSUME NEW r, NEW code, NEW other, Len(code) \in Nat, Len(other) = Len(code),
         NEW f, StepsOf(r, code, f, Len(code)),
         \A k \in 1..Len(code) : StepInstruction(f[k - 1], other[k]) = StepInstruction(f[k - 1], code[k])
  PROVE  StepCode(r, other) = StepCode(r, code)
<1> DEFINE n == Len(code)
           one == CHOOSE g : StepsOf(r, code, g, n)
           two == CHOOSE g : StepsOf(r, other, g, n)
<1>1. StepsOf(r, other, f, n)
  <2>1. f = [k \in 0..n |-> IF k = 0 THEN r ELSE StepInstruction(f[k - 1], code[k])]
    BY DEF StepsOf
  <2>2. \A k \in 0..n : (IF k = 0 THEN r ELSE StepInstruction(f[k - 1], code[k]))
                          = (IF k = 0 THEN r ELSE StepInstruction(f[k - 1], other[k]))
    OBVIOUS
  <2> QED BY <2>1, <2>2, Zenon DEF StepsOf
<1>2. one = f
  BY StepsUnique
<1>3. two = f
  BY <1>1, StepsUnique
<1>4. StepCode(r, code) = one[n] /\ StepCode(r, other) = two[n]
  BY DEF StepCode, StepsOf
<1> QED BY <1>2, <1>3, <1>4

LEMMA BlocksUnique ==
  ASSUME NEW snap, NEW start, NEW n \in Nat, NEW f, NEW g, BlocksOf(snap, start, f, n), BlocksOf(snap, start, g, n)
  PROVE  f = g
<1> DEFINE T == {m \in Nat : m <= n => f[m] = g[m]}
<1>1. 0 \in T
  BY DEF BlocksOf
<1>2. ASSUME NEW m \in Nat, m \in T PROVE m + 1 \in T
  BY <1>2 DEF BlocksOf
<1>3. \A m \in 0..n : f[m] = g[m]
  <2>1. Nat \subseteq T
    <3> HIDE DEF T
    <3> QED BY <1>1, <1>2, AllNumbers
  <2> QED BY <2>1
<1>4. f = [k \in 0..n |-> IF k = 0 THEN start ELSE StepBlock(snap, f[k - 1])] /\ g = [k \in 0..n |-> IF k = 0 THEN start ELSE StepBlock(snap, g[k - 1])]
  BY DEF BlocksOf
<1>5. \A k \in 0..n : (IF k = 0 THEN start ELSE StepBlock(snap, f[k - 1])) = (IF k = 0 THEN start ELSE StepBlock(snap, g[k - 1]))
  BY <1>3
<1> QED BY <1>4, <1>5, Zenon

\* A heap whose handles are numbers up to some bound: there is always a next one.
IsHeap(heap) ==
  /\ heap = [objects |-> heap.objects, lists |-> heap.lists]
  /\ \E n \in Nat : DOMAIN heap.objects \cup DOMAIN heap.lists \subseteq 0..n

\* The values a body or a block is entered with.
IsInput(values) == IsVector(values) /\ \A k \in DOMAIN values : values[k] # None

\* A run that has a heap and holds values only.
Whole(r) == IsRun(r) /\ IsHeap(r.heap) /\ IsInput(r.incoming) /\ \A v \in DOMAIN r.env : r.env[v] # None

\* A new object gets a handle that nothing has.
LEMMA FreshHandle ==
  ASSUME NEW heap, IsHeap(heap)
  PROVE  NextHandle(heap) \in Nat /\ NextHandle(heap) \notin DOMAIN heap.objects \cup DOMAIN heap.lists
<1> DEFINE held == {0} \cup DOMAIN heap.objects \cup DOMAIN heap.lists
           U == {u \in Nat : \A y \in held : y <= u}
<1>1. PICK n \in Nat : DOMAIN heap.objects \cup DOMAIN heap.lists \subseteq 0..n
  BY DEF IsHeap
<1>2. held \subseteq Nat /\ n \in U
  BY <1>1
<1>3. PICK x \in U : \A y \in U : <<y, x>> \notin OpToRel(<, Nat)
  <2>1. IsWellFoundedOn(OpToRel(<, Nat), Nat)
    BY NatLessThanWellFounded
  <2>2. U \subseteq Nat
    OBVIOUS
  <2> HIDE DEF U
  <2> QED BY <1>2, <2>1, <2>2, WFMin
<1>4. x \in held
  <2> SUFFICES ASSUME x \notin held PROVE FALSE
    OBVIOUS
  <2>1. x \in Nat /\ x # 0 /\ \A y \in held : y \in Nat /\ y <= x /\ y # x
    BY <1>2
  <2>2. x - 1 \in Nat /\ \A y \in held : y <= x - 1
    BY <2>1
  <2>3. <<x - 1, x>> \in OpToRel(<, Nat)
    BY <2>1, <2>2 DEF OpToRel
  <2> QED BY <1>3, <2>2, <2>3
<1>5. Max(held) \in held /\ \A y \in held : Max(held) >= y
  <2>1. \A y \in held : x >= y
    BY <1>2, <1>3
  <2> HIDE DEF held
  <2> QED BY <1>4, <2>1 DEF Max
<1>6. NextHandle(heap) = 1 + Max(held)
  BY DEF NextHandle
<1> HIDE DEF held
<1>7. NextHandle(heap) \in Nat /\ NextHandle(heap) \notin held
  <2>1. PICK m : m = Max(held)
    OBVIOUS
  <2>2. m \in Nat /\ (\A y \in held : y \in Nat /\ m >= y) /\ NextHandle(heap) = 1 + m
    BY <1>2, <1>5, <1>6, <2>1
  <2>3. 1 + m \in Nat /\ 1 + m \notin held
    BY <2>2
  <2> QED BY <2>2, <2>3
<1> QED BY <1>7 DEF held

\* What an operation does to the heap: objects stay, and only ObjectSet changes one.
LEMMA ExecuteHeap ==
  ASSUME NEW op, NEW arg, NEW in, NEW heap, IsHeap(heap), NEW result, result = Execute(op, arg, in, heap)
  PROVE  /\ IsHeap(result.heap)
         /\ \A h \in DOMAIN heap.objects :
              h \in DOMAIN result.heap.objects /\ (op # "ObjectSet" => result.heap.objects[h] = heap.objects[h])
<1>1. CASE result.heap = heap
  BY <1>1
<1>2. CASE op \in PureOps
  <2>1. result = Failed(heap) \/ result = Gives(Pure(op, arg, in), heap)
    BY <1>2 DEF Execute, PureOps
  <2> QED BY <1>1, <2>1 DEF Failed, Gives
<1>3. CASE op = "Allocate"
  <2> DEFINE new == NextHandle(heap)
             objects == Put(heap.objects, new, <<>>)
  <2>1. op \notin PureOps
    BY <1>3 DEF PureOps
  <2>2. result.heap = [heap EXCEPT !.objects = objects]
    BY <1>3, <2>1 DEF Execute, Gives
  <2>3. DOMAIN objects = DOMAIN heap.objects \cup {new}
    BY DEF Put
  <2>4. \A h \in DOMAIN heap.objects : objects[h] = heap.objects[h]
    BY FreshHandle DEF Put
  <2> HIDE DEF objects, new
  <2>5. result.heap = [objects |-> objects, lists |-> heap.lists]
    BY <2>2 DEF IsHeap
  <2>6. \E n \in Nat : DOMAIN objects \cup DOMAIN heap.lists \subseteq 0..n
    <3>1. PICK n \in Nat : DOMAIN heap.objects \cup DOMAIN heap.lists \subseteq 0..n
      BY DEF IsHeap
    <3>2. new \in Nat
      BY FreshHandle DEF new
    <3>3. new + n \in Nat /\ DOMAIN objects \cup DOMAIN heap.lists \subseteq 0..(new + n)
      BY <2>3, <3>1, <3>2
    <3> QED BY <3>3
  <2> QED BY <2>3, <2>4, <2>5, <2>6 DEF IsHeap
<1>4. CASE op \in {"ObjectGet", "ObjectSet"}
  <2> DEFINE set == op = "ObjectSet" /\ Len(in) = 3 /\ SubSeq(Shape(in), 1, 2) = <<"Handle", "I64">>
                    /\ in[1][2] \in DOMAIN heap.objects
  <2>1. result = ObjectOp(op, in, heap)
    BY <1>4 DEF Execute, PureOps
  <2>2. CASE ~set
    <3>1. result.heap = heap
      BY <1>4, <2>1, <2>2 DEF ObjectOp, Gives, Failed
    <3> QED BY <1>1, <3>1
  <2>3. CASE set
    <3> DEFINE object == in[1][2]
               objects == [heap.objects EXCEPT ![object] = Put(@, in[2][2], in[3])]
    <3>1. result.heap = [heap EXCEPT !.objects = objects]
      BY <1>4, <2>1, <2>3 DEF ObjectOp, Gives
    <3>2. DOMAIN objects = DOMAIN heap.objects
      OBVIOUS
    <3> HIDE DEF objects
    <3>3. result.heap = [objects |-> objects, lists |-> heap.lists]
      BY <3>1 DEF IsHeap
    <3> QED BY <2>3, <3>2, <3>3 DEF IsHeap
  <2> QED BY <2>2, <2>3
<1>5. CASE op \in {"ListGet", "ListLength"}
  <2>1. result = ListRead(op, in, heap)
    BY <1>5 DEF Execute, PureOps
  <2>2. result.heap = heap
    BY <1>5, <2>1 DEF ListRead, Gives, Failed
  <2> QED BY <1>1, <2>2
<1>6. CASE op \in {"ListSet", "ListReversePrefix", "ListClear", "ListAppend", "ListInsert", "ListPop"}
  <2>1. result = Failed(heap) \/ result = ListWrite(op, arg, in, heap)
    BY <1>6 DEF Execute, PureOps
  <2>2. result.heap = heap \/ \E new : result.heap = [heap EXCEPT !.lists[in[1][2]] = new]
    <3> DEFINE Becomes(x) == x = Failed(heap) \/ \E new, value : x = Gives(value, [heap EXCEPT !.lists[in[1][2]] = new])
               write == ListWrite(op, arg, in, heap)
    <3>1. ASSUME op = "ListSet" PROVE Becomes(write)
      BY <3>1 DEF ListWrite
    <3>2. ASSUME op = "ListReversePrefix" PROVE Becomes(write)
      BY <3>2 DEF ListWrite
    <3>3. ASSUME op = "ListClear" PROVE Becomes(write)
      BY <3>3 DEF ListWrite
    <3>4. ASSUME op = "ListAppend" PROVE Becomes(write)
      BY <3>4 DEF ListWrite
    <3>5. ASSUME op = "ListInsert" PROVE Becomes(write)
      BY <3>5 DEF ListWrite
    <3>6. ASSUME op = "ListPop" PROVE Becomes(write)
      BY <3>6 DEF ListWrite
    <3>7. Becomes(write)
      BY <1>6, <3>1, <3>2, <3>3, <3>4, <3>5, <3>6
    <3>8. \A other : Gives(None, other).heap = other /\ Failed(heap).heap = heap
      BY DEF Gives, Failed
    <3>9. \A value, other : Gives(value, other).heap = other
      BY DEF Gives
    <3>10. CASE result = Failed(heap) \/ write = Failed(heap)
      BY <2>1, <3>8, <3>10
    <3>11. ASSUME NEW new, NEW value, result = Gives(value, [heap EXCEPT !.lists[in[1][2]] = new])
           PROVE  result.heap = [heap EXCEPT !.lists[in[1][2]] = new]
      BY <3>9, <3>11
    <3> HIDE DEF write
    <3> QED BY <2>1, <3>7, <3>10, <3>11 DEF write
  <2>3. ASSUME NEW new, result.heap = [heap EXCEPT !.lists[in[1][2]] = new]
        PROVE  /\ IsHeap(result.heap) /\ result.heap.objects = heap.objects
    <3> DEFINE lists == [heap.lists EXCEPT ![in[1][2]] = new]
    <3>1. result.heap = [heap EXCEPT !.lists = lists] /\ DOMAIN lists = DOMAIN heap.lists
      BY <2>3
    <3> HIDE DEF lists
    <3>2. result.heap = [objects |-> heap.objects, lists |-> lists]
      BY <3>1 DEF IsHeap
    <3> QED BY <3>1, <3>2 DEF IsHeap
  <2> QED BY <1>1, <2>2, <2>3
<1>7. CASE op \notin PureOps \cup {"Allocate", "ObjectGet", "ObjectSet", "ListGet", "ListLength", "ListSet",
              "ListReversePrefix", "ListClear", "ListAppend", "ListInsert", "ListPop"}
  <2>1. result = Gives(None, heap) \/ result = Failed(heap)
    BY <1>7 DEF Execute
  <2> QED BY <1>1, <2>1 DEF Failed, Gives
<1> QED BY <1>2, <1>3, <1>4, <1>5, <1>6, <1>7

\* What an instruction does to a run that goes on after it.
LEMMA Effects ==
  ASSUME NEW r, IsRun(r), NEW instr, NEW q, q = StepInstruction(r, instr), r.outcome = Running,
         NEW in, in = Lookup(instr.in, r.env), NEW result, result = Execute(instr.op, instr.arg, in, r.heap)
  PROVE  /\ IsRun(q) /\ q.block = r.block /\ q.incoming = r.incoming
         /\ IF Known(instr.in, r.env) /\ result.ok
            THEN /\ q.heap = result.heap
                 /\ q.env = IF instr.out # 0 /\ result.value # None THEN Put(r.env, instr.out, result.value) ELSE r.env
            ELSE q.outcome # Running /\ q.heap = r.heap /\ q.env = r.env
<1>1. CASE ~Known(instr.in, r.env)
  <2>1. q = [r EXCEPT !.outcome = Invalid, !.undefined = ReadsUndefined(instr.in, r)]
    BY <1>1 DEF StepInstruction
  <2> QED BY <2>1, <1>1, EndsDiffer DEF IsRun
<1>2. CASE Known(instr.in, r.env) /\ ~result.ok
  <2>1. q = [r EXCEPT !.outcome = Invalid]
    BY <1>2 DEF StepInstruction
  <2> QED BY <2>1, <1>2, EndsDiffer DEF IsRun
<1>3. CASE Known(instr.in, r.env) /\ result.ok
  <2> DEFINE env == IF instr.out # 0 /\ result.value # None THEN Put(r.env, instr.out, result.value) ELSE r.env
             missing == IF instr.out # 0 /\ result.value = None THEN r.missing \cup {instr.out} ELSE r.missing
             outcome == IF instr.op = "Guard" /\ (in = <<>> \/ in[1] # Boolean(TRUE))
                        THEN <<"SideExit", instr.arg[2]>> ELSE r.outcome
  <2>1. q = [r EXCEPT !.heap = result.heap, !.env = env, !.missing = missing, !.outcome = outcome]
    BY <1>3 DEF StepInstruction
  <2> HIDE DEF missing, outcome
  <2>2. IsRun(q) /\ q.block = r.block /\ q.incoming = r.incoming /\ q.heap = result.heap /\ q.env = env
    <3> HIDE DEF env
    <3> QED BY <2>1 DEF IsRun
  <2> QED BY <1>3, <2>2
<1> QED BY <1>1, <1>2, <1>3

\* Every step of a run leaves it whole.
LEMMA StepIsWhole ==
  ASSUME NEW r, Whole(r), NEW instr PROVE Whole(StepInstruction(r, instr))
<1> DEFINE q == StepInstruction(r, instr)
           in == Lookup(instr.in, r.env)
           result == Execute(instr.op, instr.arg, in, r.heap)
<1>1. CASE r.outcome # Running
  BY <1>1 DEF StepInstruction
<1>2. CASE r.outcome = Running
  <2>1. /\ IsRun(q) /\ q.incoming = r.incoming /\ (q.heap = r.heap \/ q.heap = result.heap)
        /\ \/ q.env = r.env
           \/ q.env = Put(r.env, instr.out, result.value) /\ result.value # None
    <3> HIDE DEF q, in, result
    <3> QED BY <1>2, Effects DEF Whole, q, in, result
  <2>2. IsHeap(q.heap)
    BY <2>1, ExecuteHeap DEF Whole
  <2> HIDE DEF q, result
  <2>3. \A v \in DOMAIN q.env : q.env[v] # None
    BY <2>1 DEF Whole, Put
  <2> QED BY <2>1, <2>2, <2>3 DEF Whole, q
<1> QED BY <1>1, <1>2

LEMMA CodeIsWhole ==
  ASSUME NEW r, Whole(r), NEW code, NEW n \in Nat, NEW f, StepsOf(r, code, f, n)
  PROVE  \A m \in 0..n : Whole(f[m])
<1> DEFINE T == {m \in Nat : m <= n => Whole(f[m])}
<1>1. 0 \in T
  BY DEF StepsOf
<1>2. ASSUME NEW m \in Nat, m \in T PROVE m + 1 \in T
  <2> SUFFICES ASSUME m + 1 <= n PROVE Whole(f[m + 1])
    OBVIOUS
  <2>1. f[m + 1] = StepInstruction(f[m], code[m + 1]) /\ Whole(f[m])
    BY <1>2 DEF StepsOf
  <2> QED BY <2>1, StepIsWhole
<1>3. Nat \subseteq T
  <2> HIDE DEF T
  <2> QED BY <1>1, <1>2, AllNumbers
<1> QED BY <1>3

LEMMA LookupIsInput ==
  ASSUME NEW ids, IsVector(ids), NEW r, Whole(r), Known(ids, r.env)
  PROVE  IsInput(Lookup(ids, r.env))
<1> DEFINE values == Lookup(ids, r.env)
<1>1. DOMAIN values = DOMAIN ids /\ DOMAIN ids = 1..Len(ids) /\ Len(ids) \in Nat
  BY DEF Lookup, IsVector
<1>2. Len(values) = Len(ids)
  <2> HIDE DEF values
  <2> QED BY <1>1
<1>3. \A k \in DOMAIN ids : values[k] = r.env[ids[k]] /\ ids[k] \in DOMAIN r.env
  BY DEF Lookup, Known, ToSet
<1> HIDE DEF values
<1>4. \A k \in DOMAIN values : values[k] # None
  BY <1>1, <1>3 DEF Whole
<1> QED BY <1>1, <1>2, <1>4 DEF IsInput, IsVector, values

LEMMA TerminatorIsWhole ==
  ASSUME NEW r, Whole(r), NEW term, IsVector(TerminatorValues(term))
  PROVE  Whole(StepTerminator(r, term))
<1> DEFINE q == StepTerminator(r, term)
<1>1. CASE r.outcome # Running
  BY <1>1 DEF StepTerminator
<1>2. CASE r.outcome = Running
  <2>1. IsInput(<<>>)
    BY DEF IsInput, IsVector
  <2>2. \/ q = r
        \/ \E next, in : q = [r EXCEPT !.block = next, !.incoming = in] /\ IsInput(in)
        \/ \E end : q = [r EXCEPT !.outcome = end]
        \/ \E end, undefined : q = [r EXCEPT !.outcome = end, !.undefined = undefined]
    <3>1. CASE term.kind = "Jump"
      <4> DEFINE in == IF Known(term.args, r.env) THEN Lookup(term.args, r.env) ELSE <<>>
      <4>1. IsVector(term.args)
        BY <3>1 DEF TerminatorValues
      <4>2. IsInput(in)
        BY <2>1, <4>1, LookupIsInput
      <4>3. q = [r EXCEPT !.block = term.target, !.incoming = in]
        BY <1>2, <3>1 DEF StepTerminator
      <4> QED BY <4>2, <4>3
    <3>2. CASE term.kind = "Branch"
      BY <1>2, <2>1, <3>2 DEF StepTerminator
    <3>3. CASE term.kind = "Return"
      BY <1>2, <3>3 DEF StepTerminator
    <3>4. CASE term.kind \notin {"Jump", "Branch", "Return"}
      BY <1>2, <3>4 DEF StepTerminator
    <3> QED BY <3>1, <3>2, <3>3, <3>4
  <2> HIDE DEF q
  <2>3. ASSUME NEW next, NEW in, q = [r EXCEPT !.block = next, !.incoming = in], IsInput(in) PROVE Whole(q)
    BY <2>3 DEF Whole, IsRun
  <2>4. ASSUME NEW end, q = [r EXCEPT !.outcome = end] PROVE Whole(q)
    BY <2>4 DEF Whole, IsRun
  <2>5. ASSUME NEW end, NEW undefined, q = [r EXCEPT !.outcome = end, !.undefined = undefined] PROVE Whole(q)
    BY <2>5 DEF Whole, IsRun
  <2> QED BY <2>2, <2>3, <2>4, <2>5 DEF q
<1> QED BY <1>1, <1>2

LEMMA BindIsWhole ==
  ASSUME NEW r, Whole(r), NEW params, IsVector(params), Len(params) = Len(r.incoming)
  PROVE  Whole(BindParameters(r, params))
<1> DEFINE q == BindParameters(r, params)
           Place(v) == CHOOSE k \in DOMAIN params : params[k].id = v
           Value(v) == IF \E k \in DOMAIN params : params[k].id = v THEN r.incoming[Place(v)] ELSE r.env[v]
           env == [v \in DOMAIN r.env \cup {p.id : p \in ToSet(params)} |-> Value(v)]
<1>1. q = [r EXCEPT !.env = env]
  BY DEF BindParameters
<1>2. DOMAIN params = DOMAIN r.incoming
  BY DEF IsVector, Whole, IsInput
<1>3. ASSUME NEW v \in DOMAIN r.env \cup {p.id : p \in ToSet(params)} PROVE Value(v) # None
  <2>1. CASE \E k \in DOMAIN params : params[k].id = v
    <3>1. Place(v) \in DOMAIN params
      BY <2>1
    <3> HIDE DEF Place
    <3> QED BY <1>2, <2>1, <3>1 DEF Whole, IsInput
  <2>2. CASE ~\E k \in DOMAIN params : params[k].id = v
    <3>1. v \in DOMAIN r.env
      BY <2>2 DEF ToSet
    <3> QED BY <2>2, <3>1 DEF Whole
  <2> QED BY <2>1, <2>2
<1>4. \A v \in DOMAIN env : env[v] # None
  <2> HIDE DEF Value
  <2> QED BY <1>3
<1>5. Whole(q)
  <2> HIDE DEF env, q
  <2> QED BY <1>1, <1>4 DEF Whole, IsRun
<1> QED BY <1>5

\* Bodies that differ in the code of their blocks only.
Alike(snap, other) ==
  /\ other.entry = snap.entry /\ DOMAIN other.blocks = DOMAIN snap.blocks
  /\ \A j \in DOMAIN snap.blocks :
       LET b == snap.blocks[j]
           c == other.blocks[j]
       IN  c.id = b.id /\ c.params = b.params /\ c.term = b.term

LEMMA SameBlock ==
  ASSUME NEW snap, IsBody(snap), BlocksDistinct(snap), NEW other, Alike(snap, other),
         \A j \in DOMAIN snap.blocks : \A r : Whole(r) =>
           StepCode(r, other.blocks[j].code) = StepCode(r, snap.blocks[j].code),
         NEW r, Whole(r)
  PROVE  StepBlock(other, r) = StepBlock(snap, r) /\ Whole(StepBlock(snap, r))
<1> DEFINE b == BlockAt(snap, r.block)
           c == BlockAt(other, r.block)
<1>1. CASE r.outcome # Running
  BY <1>1 DEF StepBlock
<1>2. BlockIds(other) = BlockIds(snap)
  BY DEF BlockIds, ToSet, Alike
<1>3. CASE r.outcome = Running /\ r.block \notin BlockIds(snap)
  <2>1. StepBlock(snap, r) = [r EXCEPT !.outcome = Invalid] /\ StepBlock(other, r) = [r EXCEPT !.outcome = Invalid]
    BY <1>2, <1>3 DEF StepBlock
  <2> QED BY <2>1 DEF Whole, IsRun
<1>4. CASE r.outcome = Running /\ r.block \in BlockIds(snap)
  <2>1. b \in ToSet(snap.blocks) /\ b.id = r.block /\ c \in ToSet(other.blocks) /\ c.id = r.block
    BY <1>2, <1>4 DEF BlockAt, BlockIds
  <2> HIDE DEF b, c
  <2>2. PICK j \in DOMAIN snap.blocks : b = snap.blocks[j]
    BY <2>1 DEF ToSet
  <2>3. PICK i \in DOMAIN snap.blocks : c = other.blocks[i]
    BY <2>1 DEF ToSet, Alike
  <2>4. i = j
    BY <2>1, <2>2, <2>3 DEF Alike, BlocksDistinct
  <2>5. c.params = b.params /\ c.term = b.term /\ \A q : Whole(q) => StepCode(q, c.code) = StepCode(q, b.code)
    BY <2>2, <2>3, <2>4 DEF Alike
  <2>6. IsVector(b.params) /\ Len(b.code) \in Nat /\ IsVector(TerminatorValues(b.term))
    BY <2>1 DEF IsBody, IsBlock, IsVector
  <2>7. CASE Len(b.params) # Len(r.incoming)
    <3>1. StepBlock(snap, r) = [r EXCEPT !.outcome = Invalid] /\ StepBlock(other, r) = [r EXCEPT !.outcome = Invalid]
      BY <1>4, <2>5, <2>7 DEF StepBlock, b, c
    <3> QED BY <3>1 DEF Whole, IsRun
  <2>8. CASE Len(b.params) = Len(r.incoming)
    <3> DEFINE entered == BindParameters(r, b.params)
               done == StepCode(entered, b.code)
    <3>1. Whole(entered)
      BY <2>6, <2>8, BindIsWhole
    <3>2. StepBlock(snap, r) = StepTerminator(done, b.term)
      BY <1>4, <2>8 DEF StepBlock, b
    <3>3. StepBlock(other, r) = StepTerminator(StepCode(entered, c.code), c.term)
      BY <1>2, <1>4, <2>5, <2>8 DEF StepBlock, c
    <3> HIDE DEF entered
    <3>4. Whole(done)
      <4> DEFINE n == Len(b.code)
                 f == CHOOSE g : StepsOf(entered, b.code, g, n)
      <4>1. StepsOf(entered, b.code, f, n)
        BY <2>6, StepsExist
      <4>2. done = f[n]
        BY DEF StepCode, StepsOf
      <4> HIDE DEF f
      <4>3. \A m \in 0..n : Whole(f[m])
        BY <2>6, <3>1, <4>1, CodeIsWhole
      <4> QED BY <2>6, <4>2, <4>3
    <3>5. StepCode(entered, c.code) = done
      BY <2>5, <3>1
    <3> HIDE DEF done
    <3> QED BY <2>5, <2>6, <3>2, <3>3, <3>4, <3>5, TerminatorIsWhole
  <2> QED BY <2>7, <2>8
<1> QED BY <1>1, <1>3, <1>4

\* If the codes of each block do the same from every run, the bodies do.
LEMMA SameRuns ==
  ASSUME NEW snap, IsBody(snap), BlocksDistinct(snap), NEW other, Alike(snap, other),
         \A j \in DOMAIN snap.blocks : \A r : Whole(r) =>
           StepCode(r, other.blocks[j].code) = StepCode(r, snap.blocks[j].code),
         NEW arguments, IsInput(arguments), NEW heap, IsHeap(heap)
  PROVE  Replay(other, arguments, heap) = Replay(snap, arguments, heap)
<1> DEFINE start == Start(snap, arguments, heap)
           f == CHOOSE g : BlocksOf(snap, start, g, StepLimit)
           g == CHOOSE h : BlocksOf(other, start, h, StepLimit)
           T == {m \in Nat : m <= StepLimit => Whole(f[m])}
<1>1. StepLimit \in Nat
  BY ReplayAssumption
<1>2. BlocksOf(snap, start, f, StepLimit) /\ BlocksOf(other, start, g, StepLimit)
  BY <1>1, BlocksExist
<1>3. Replay(snap, arguments, heap) = f[StepLimit]
  BY DEF Replay, BlocksOf
<1>4. Start(other, arguments, heap) = start
  BY DEF Start, Alike
<1>5. Replay(other, arguments, heap) = g[StepLimit]
  BY <1>4 DEF Replay, BlocksOf
<1>6. Whole(start)
  BY DEF Start, Whole, IsRun
<1> HIDE DEF start, f, g
<1>7. 0 \in T
  BY <1>1, <1>2, <1>6 DEF BlocksOf
<1>8. ASSUME NEW m \in Nat, m \in T PROVE m + 1 \in T
  <2> SUFFICES ASSUME m + 1 <= StepLimit PROVE Whole(f[m + 1])
    OBVIOUS
  <2>1. f[m + 1] = StepBlock(snap, f[m]) /\ Whole(f[m])
    BY <1>1, <1>2, <1>8 DEF BlocksOf
  <2> QED BY <2>1, SameBlock
<1>9. \A m \in 0..StepLimit : Whole(f[m])
  <2>1. Nat \subseteq T
    <3> HIDE DEF T
    <3> QED BY <1>7, <1>8, AllNumbers
  <2> QED BY <1>1, <2>1
<1>10. BlocksOf(other, start, f, StepLimit)
  <2>1. f = [k \in 0..StepLimit |-> IF k = 0 THEN start ELSE StepBlock(snap, f[k - 1])]
    BY <1>2 DEF BlocksOf
  <2>2. \A k \in 0..StepLimit : (IF k = 0 THEN start ELSE StepBlock(snap, f[k - 1]))
                                  = (IF k = 0 THEN start ELSE StepBlock(other, f[k - 1]))
    <3> SUFFICES ASSUME NEW k \in 0..StepLimit, k # 0 PROVE StepBlock(snap, f[k - 1]) = StepBlock(other, f[k - 1])
      OBVIOUS
    <3>1. k - 1 \in 0..StepLimit
      BY <1>1
    <3> QED BY <1>9, <3>1, SameBlock
  <2> QED BY <2>1, <2>2, Zenon DEF BlocksOf
<1>11. g = f
  BY <1>1, <1>2, <1>10, BlocksUnique
<1> QED BY <1>3, <1>5, <1>11

-----------------------------------------------------------------------------
(* What the passes have in common.                                         *)

\* What one instruction needs to stand for another one.
LEMMA SameStep ==
  ASSUME NEW r, NEW i, NEW j, j.out = i.out, i.op # "Guard", j.op # "Guard",
         r.outcome = Running =>
           /\ Known(i.in, r.env) /\ Known(j.in, r.env)
           /\ Execute(j.op, j.arg, Lookup(j.in, r.env), r.heap) = Execute(i.op, i.arg, Lookup(i.in, r.env), r.heap)
  PROVE  StepInstruction(r, j) = StepInstruction(r, i)
BY DEF StepInstruction

LEMMA StepsOn ==
  ASSUME NEW r, Whole(r), NEW instr, r.outcome = Running, StepInstruction(r, instr).outcome = Running
  PROVE  LET result == Execute(instr.op, instr.arg, Lookup(instr.in, r.env), r.heap)
         IN  /\ Known(instr.in, r.env) /\ result.ok
             /\ StepInstruction(r, instr).heap = result.heap
             /\ StepInstruction(r, instr).env =
                  IF instr.out # 0 /\ result.value # None THEN Put(r.env, instr.out, result.value) ELSE r.env
<1> DEFINE q == StepInstruction(r, instr)
           in == Lookup(instr.in, r.env)
           result == Execute(instr.op, instr.arg, in, r.heap)
<1>1. IF Known(instr.in, r.env) /\ result.ok
      THEN /\ q.heap = result.heap
           /\ q.env = IF instr.out # 0 /\ result.value # None THEN Put(r.env, instr.out, result.value) ELSE r.env
      ELSE q.outcome # Running /\ q.heap = r.heap /\ q.env = r.env
  <2> HIDE DEF q, in, result
  <2> QED BY Effects DEF Whole, q, in, result
<1> QED BY <1>1

LEMMA OthersKeep ==
  ASSUME NEW r, IsRun(r), NEW instr, NEW q, q = StepInstruction(r, instr), r.outcome = Running,
         NEW v \in DOMAIN r.env, instr.out = 0 \/ v # instr.out
  PROVE  v \in DOMAIN q.env /\ q.env[v] = r.env[v]
<1>1. PICK in, result : in = Lookup(instr.in, r.env) /\ result = Execute(instr.op, instr.arg, in, r.heap)
  OBVIOUS
<1>2. q.env = r.env \/ (q.env = Put(r.env, instr.out, result.value) /\ instr.out # 0)
  <2>1. IF Known(instr.in, r.env) /\ result.ok
        THEN q.env = IF instr.out # 0 /\ result.value # None THEN Put(r.env, instr.out, result.value) ELSE r.env
        ELSE q.env = r.env
    BY <1>1, Effects
  <2> QED BY <2>1
<1> QED BY <1>2 DEF Put

LEMMA ConstantGives ==
  ASSUME NEW arg, arg[1] = "I64", NEW in, NEW heap
  PROVE  Execute("Constant", arg, in, heap) = Gives(arg, heap)
<1>1. Pure("Constant", arg, in) = arg
  BY DEF Pure
<1>2. arg # None
  BY DEF None
<1> QED BY <1>1, <1>2 DEF Execute, PureOps

LEMMA AddGives ==
  ASSUME NEW in, in \in [1..2 -> {"I64"} \X Int], NEW op \in {"IntegerAdd", "Call"}, NEW arg, NEW heap
  PROVE  Execute(op, arg, in, heap) = Gives(Integer(Wrap(in[1][2] + in[2][2])), heap)
<1>1. Pure(op, arg, in) = Integer(Wrap(in[1][2] + in[2][2]))
  BY DEF Pure
<1>2. Integer(Wrap(in[1][2] + in[2][2])) # None
  BY DEF None, Integer
<1> QED BY <1>1, <1>2 DEF Execute, PureOps

LEMMA CopyGives ==
  ASSUME NEW in, in # <<>>, in[1] # None, NEW arg, NEW heap
  PROVE  Execute("Copy", arg, in, heap) = Gives(in[1], heap)
<1>1. Pure("Copy", arg, in) = in[1]
  BY DEF Pure
<1> QED BY <1>1 DEF Execute, PureOps

LEMMA WrapKeeps == ASSUME NEW n \in (-Half)..(Half - 1) PROVE Wrap(n) = n
BY ReplayAssumption DEF Wrap

\* The place of an instruction's output.
LEMMA OutputSite ==
  ASSUME NEW snap, NEW b \in ToSet(snap.blocks), NEW k \in DOMAIN b.code, b.code[k].out # 0
  PROVE  \E s \in Sites(snap) : s.id = b.code[k].out /\ s.block = b.id /\ s.pos = k
<1> DEFINE s == [id |-> b.code[k].out, ty |-> b.code[k].ty, block |-> b.id, pos |-> k, nth |-> k]
<1>1. s \in Sites(snap)
  BY DEF Sites
<1> QED BY <1>1

\* The verifier lets each value be defined once.
LEMMA OutsDiffer ==
  ASSUME NEW snap, DefinedOnce(snap), NEW b \in ToSet(snap.blocks), NEW j \in DOMAIN b.code, NEW k \in DOMAIN b.code,
         j # k, b.code[j].out # 0
  PROVE  b.code[j].out # b.code[k].out
BY OutputSite DEF DefinedOnce

\* A value that is used in a block is not the output of the user or of what comes after.
LEMMA UsedBefore ==
  ASSUME NEW snap, UsesHold(snap), DefinedOnce(snap), NEW b \in ToSet(snap.blocks), NEW j \in DOMAIN b.code,
         NEW k \in DOMAIN b.code, j <= k, NEW v \in ToSet(b.code[j].in), b.code[k].out # 0
  PROVE  v # b.code[k].out
<1> SUFFICES ASSUME v = b.code[k].out PROVE FALSE
  OBVIOUS
<1>1. PICK t \in Sites(snap) : t.id = v /\ t.block = b.id /\ t.pos = k
  BY OutputSite
<1>2. PICK s \in Sites(snap) : s.id = v /\ IF s.block = b.id THEN s.pos < j ELSE s.block \in Dominators(snap)[b.id]
  BY DEF UsesHold, MayUse
<1>3. s = t
  BY <1>1, <1>2 DEF DefinedOnce
<1>4. j \in Nat /\ k \in Nat
  BY DEF UsesHold, IsBody, IsBlock, IsVector
<1> QED BY <1>1, <1>2, <1>3, <1>4

\* What a verified body says of an instruction, in the terms of a step.
LEMMA CodeOfBody ==
  ASSUME NEW snap, Verified(snap), NEW b \in ToSet(snap.blocks)
  PROVE  /\ UsesHold(snap) /\ DefinedOnce(snap)
         /\ Len(b.code) \in Nat /\ DOMAIN b.code = 1..Len(b.code)
         /\ \A k \in DOMAIN b.code : IsInstruction(b.code[k])
<1>1. UsesHold(snap) /\ DefinedOnce(snap) /\ IsBlock(b)
  BY VerifiedUses DEF Verified, IsBody
<1> QED BY <1>1 DEF IsBlock, IsVector, ToSet

\* A set of places that is kept from each place to the next proves the steps at all places alike.
LEMMA SameAlong ==
  ASSUME NEW r, NEW code, Len(code) \in Nat, NEW f, StepsOf(r, code, f, Len(code)),
         NEW other, DOMAIN other = 1..Len(code), NEW T, 0 \in T,
         \A m \in Nat : m \in T /\ m + 1 \in 1..Len(code) =>
           m + 1 \in T /\ StepInstruction(f[m], other[m + 1]) = StepInstruction(f[m], code[m + 1])
  PROVE  StepCode(r, other) = StepCode(r, code)
<1> DEFINE n == Len(code)
           U == {m \in Nat : m <= n => m \in T}
<1>1. Nat \subseteq U
  <2>1. 0 \in U
    OBVIOUS
  <2>2. \A m \in Nat : m \in U => m + 1 \in U
    OBVIOUS
  <2> HIDE DEF U
  <2> QED BY <2>1, <2>2, AllNumbers
<1>2. ASSUME NEW k \in 1..n PROVE StepInstruction(f[k - 1], other[k]) = StepInstruction(f[k - 1], code[k])
  <2>1. k - 1 \in Nat /\ (k - 1) + 1 = k /\ k - 1 <= n
    OBVIOUS
  <2>2. k - 1 \in T
    BY <1>1, <2>1
  <2> QED BY <2>1, <2>2
<1>3. Len(other) = n
  OBVIOUS
<1> QED BY <1>2, <1>3, SameCode

\* A body some of whose blocks have got other codes.
Recoded(snap, other, blocks, codes) ==
  /\ other = [snap EXCEPT !.blocks = blocks]
  /\ DOMAIN blocks = DOMAIN snap.blocks
  /\ \A j \in DOMAIN snap.blocks : blocks[j] = [snap.blocks[j] EXCEPT !.code = codes[j]]

\* A rewriting of the code of the blocks leaves the rest as it is.
LEMMA OnlyCode ==
  ASSUME NEW snap, IsBody(snap), NEW other, NEW blocks, NEW codes, Recoded(snap, other, blocks, codes)
  PROVE  Alike(snap, other) /\ \A j \in DOMAIN snap.blocks : other.blocks[j].code = codes[j]
<1>1. other.entry = snap.entry /\ other.blocks = blocks /\ DOMAIN blocks = DOMAIN snap.blocks
  BY DEF IsBody, Recoded
<1>2. ASSUME NEW j \in DOMAIN snap.blocks
      PROVE  /\ blocks[j].id = snap.blocks[j].id /\ blocks[j].params = snap.blocks[j].params
             /\ blocks[j].term = snap.blocks[j].term /\ blocks[j].code = codes[j]
  <2>1. PICK b : b = snap.blocks[j]
    OBVIOUS
  <2>2. b = [id |-> b.id, params |-> b.params, code |-> b.code, term |-> b.term]
    BY <2>1 DEF IsBody, IsBlock, Block, ToSet
  <2>3. blocks[j] = [b EXCEPT !.code = codes[j]]
    BY <2>1 DEF Recoded
  <2> QED BY <2>1, <2>2, <2>3
<1> QED BY <1>1, <1>2 DEF Alike

LEMMA SameBody ==
  ASSUME NEW snap, Verified(snap), NEW other, NEW blocks, NEW codes, Recoded(snap, other, blocks, codes),
         \A b \in ToSet(snap.blocks) : \A j : b = snap.blocks[j] /\ j \in DOMAIN snap.blocks =>
           \A r : Whole(r) => StepCode(r, codes[j]) = StepCode(r, b.code),
         NEW arguments, IsInput(arguments), NEW heap, IsHeap(heap)
  PROVE  Replay(other, arguments, heap) = Replay(snap, arguments, heap)
<1>1. IsBody(snap) /\ BlocksDistinct(snap)
  BY DEF Verified
<1>2. Alike(snap, other) /\ \A j \in DOMAIN snap.blocks : other.blocks[j].code = codes[j]
  BY <1>1, OnlyCode
<1>3. ASSUME NEW j \in DOMAIN snap.blocks, NEW r, Whole(r)
      PROVE  StepCode(r, other.blocks[j].code) = StepCode(r, snap.blocks[j].code)
  <2>1. snap.blocks[j] \in ToSet(snap.blocks)
    BY DEF ToSet
  <2> QED BY <1>2, <1>3, <2>1
<1> QED BY <1>1, <1>2, <1>3, SameRuns

-----------------------------------------------------------------------------
(* Constant folding.                                                       *)

WalksFold(code, w, n) ==
  w = [k \in 0..n |-> IF k = 0 THEN Emit(NoArg, <<>>) ELSE FoldStep(w[k - 1].seen, code[k])]

LEMMA FoldWalked ==
  ASSUME NEW code, Len(code) \in Nat
  PROVE  \E w : /\ WalksFold(code, w, Len(code))
                /\ FoldCode(code) = [k \in DOMAIN code |-> w[k].instr]
<1> DEFINE T == {m \in Nat : \E w : WalksFold(code, w, m)}
<1>1. 0 \in T
  <2>1. WalksFold(code, [k \in 0..0 |-> Emit(NoArg, <<>>)], 0)
    BY DEF WalksFold
  <2> QED BY <2>1
<1>2. ASSUME NEW m \in Nat, m \in T PROVE m + 1 \in T
  <2>1. PICK w : WalksFold(code, w, m)
    BY <1>2
  <2> DEFINE v == [k \in 0..(m + 1) |-> IF k = m + 1 THEN FoldStep(w[m].seen, code[m + 1]) ELSE w[k]]
  <2>2. WalksFold(code, v, m + 1)
    BY <2>1 DEF WalksFold
  <2> QED BY <2>2
<1>3. Len(code) \in T
  BY <1>1, <1>2, AllNumbers
<1> DEFINE walk == CHOOSE w : WalksFold(code, w, Len(code))
<1>4. FoldCode(code) = [k \in DOMAIN code |-> walk[k].instr]
  BY DEF FoldCode, Walked, WalksFold
<1> QED BY <1>3, <1>4


\* The constants the walk knows are the values of the run.
Folded(code, m, seen, r) ==
  r.outcome = Running =>
    \A v \in DOMAIN seen :
      /\ v # 0 /\ \E j \in 1..m : code[j].out = v
      /\ v \in DOMAIN r.env /\ seen[v] \in Int /\ r.env[v] = Integer(seen[v])

LEMMA FoldOne ==
  ASSUME NEW snap, Verified(snap), NEW b \in ToSet(snap.blocks), NEW m \in Nat, m + 1 \in DOMAIN b.code,
         NEW r, Whole(r), NEW seen, Folded(b.code, m, seen, r),
         NEW instr, instr = b.code[m + 1], NEW e, e = FoldStep(seen, instr),
         NEW q, q = StepInstruction(r, instr)
  PROVE  StepInstruction(r, e.instr) = q /\ Folded(b.code, m + 1, e.seen, q)
<1> DEFINE in == instr.in
           sum == seen[in[1]] + seen[in[2]]
           constant == instr.op = "Constant" /\ instr.arg[1] = "I64"
           folds == /\ instr.op = "IntegerAdd" /\ Len(in) = 2 /\ ToSet(in) \subseteq DOMAIN seen
                    /\ sum \in (-Half)..(Half - 1)
           result == Execute(instr.op, instr.arg, Lookup(in, r.env), r.heap)
           folded == [instr EXCEPT !.op = "Constant", !.arg = Integer(sum), !.at = FALSE, !.in = <<>>]
           Learn(n) == IF instr.out = 0 THEN seen ELSE Put(seen, instr.out, n)
<1>1. IsInstruction(instr) /\ UsesHold(snap) /\ DefinedOnce(snap) /\ Len(b.code) \in Nat /\ DOMAIN b.code = 1..Len(b.code)
  BY CodeOfBody
<1>2. CASE r.outcome # Running
  BY <1>2 DEF StepInstruction, Folded
<1>3. ASSUME q.outcome = Running, r.outcome = Running
      PROVE  /\ result.ok /\ Known(in, r.env) /\ Folded(b.code, m + 1, seen, q)
             /\ instr.out # 0 /\ result.value # None => instr.out \in DOMAIN q.env /\ q.env[instr.out] = result.value
  <2> HIDE DEF result
  <2>1. /\ Known(in, r.env) /\ result.ok
        /\ q.env = IF instr.out # 0 /\ result.value # None THEN Put(r.env, instr.out, result.value) ELSE r.env
    BY <1>3, StepsOn DEF result
  <2>2. ASSUME NEW v \in DOMAIN seen
        PROVE  /\ v # 0 /\ \E j \in 1..(m + 1) : b.code[j].out = v
               /\ v \in DOMAIN q.env /\ seen[v] \in Int /\ q.env[v] = Integer(seen[v])
    <3>1. PICK j \in 1..m : b.code[j].out = v
      BY <1>3 DEF Folded
    <3>2. v # 0 /\ v \in DOMAIN r.env /\ seen[v] \in Int /\ r.env[v] = Integer(seen[v])
      BY <1>3 DEF Folded
    <3>3. j \in DOMAIN b.code /\ j # m + 1 /\ j \in 1..(m + 1)
      BY <1>1
    <3>4. v # instr.out
      BY <1>1, <3>1, <3>2, <3>3, OutsDiffer
    <3>5. v \in DOMAIN q.env /\ q.env[v] = r.env[v]
      BY <1>3, <3>2, <3>4, OthersKeep DEF Whole
    <3> QED BY <3>1, <3>2, <3>3, <3>5
  <2>3. Folded(b.code, m + 1, seen, q)
    <3> HIDE DEF in
    <3> QED BY <2>2 DEF Folded
  <2>4. instr.out # 0 /\ result.value # None => instr.out \in DOMAIN q.env /\ q.env[instr.out] = result.value
    BY <2>1 DEF Put
  <2> QED BY <2>1, <2>3, <2>4
\* The walk learns what the step gave.
<1>4. ASSUME NEW n \in Int, r.outcome = Running, q.outcome = Running => result = Gives(Integer(n), r.heap)
      PROVE  Folded(b.code, m + 1, Learn(n), q)
  <2> HIDE DEF result
  <2> SUFFICES ASSUME q.outcome = Running PROVE Folded(b.code, m + 1, Learn(n), q)
    BY DEF Folded
  <2>1. Folded(b.code, m + 1, seen, q)
    BY <1>3, <1>4
  <2>2. instr.out # 0 => instr.out \in DOMAIN q.env /\ q.env[instr.out] = Integer(n)
    <3>1. result.value = Integer(n) /\ Integer(n) # None
      BY <1>4 DEF Gives, Integer, None
    <3> QED BY <1>3, <1>4, <3>1
  <2>3. m + 1 \in 1..(m + 1) /\ b.code[m + 1].out = instr.out
    OBVIOUS
  <2> HIDE DEF in
  <2> QED BY <1>4, <2>1, <2>2, <2>3 DEF Folded, Put
<1>5. CASE r.outcome = Running /\ constant
  <2>1. e = Emit(instr, Learn(instr.arg[2]))
    BY <1>5 DEF FoldStep
  <2>2. instr.arg = Integer(instr.arg[2]) /\ instr.arg[2] \in Int
    BY <1>1, <1>5 DEF IsInstruction, Integer
  <2>3. result = Gives(Integer(instr.arg[2]), r.heap)
    BY <1>5, <2>2, ConstantGives
  <2> QED BY <1>4, <1>5, <2>1, <2>2, <2>3 DEF Emit
<1>6. CASE r.outcome = Running /\ ~constant /\ folds
  <2>1. e = Emit(folded, Learn(sum))
    BY <1>6 DEF FoldStep
  <2>2. in[1] \in DOMAIN seen /\ in[2] \in DOMAIN seen /\ DOMAIN in = 1..2
    BY <1>1, <1>6 DEF IsInstruction, IsVector, ToSet
  <2>3. /\ Known(in, r.env) /\ seen[in[1]] \in Int /\ seen[in[2]] \in Int
        /\ r.env[in[1]] = Integer(seen[in[1]]) /\ r.env[in[2]] = Integer(seen[in[2]])
    BY <1>6, <2>2 DEF Folded, Known
  <2>4. result = Gives(Integer(sum), r.heap)
    <3> DEFINE values == Lookup(in, r.env)
    <3>1. values \in [1..2 -> {"I64"} \X Int] /\ values[1][2] = seen[in[1]] /\ values[2][2] = seen[in[2]]
      <4>1. values = [k \in 1..2 |-> r.env[in[k]]]
        BY <2>2 DEF Lookup
      <4> HIDE DEF values
      <4>2. values[1] = <<"I64", seen[in[1]]>> /\ values[2] = <<"I64", seen[in[2]]>>
        <5>1. values[1] = r.env[in[1]] /\ values[2] = r.env[in[2]]
          BY <4>1
        <5> QED BY <2>3, <5>1 DEF Integer
      <4>3. \A k \in 1..2 : values[k] \in {"I64"} \X Int
        <5> HIDE DEF in
        <5>1. <<"I64", seen[in[1]]>> \in {"I64"} \X Int /\ <<"I64", seen[in[2]]>> \in {"I64"} \X Int
          BY <2>3
        <5> QED BY <4>2, <5>1
      <4> HIDE DEF in
      <4>4. values \in [1..2 -> {"I64"} \X Int]
        BY <4>1, <4>3
      <4> QED BY <4>2, <4>4
    <3>2. Wrap(sum) = sum
      BY <1>6, WrapKeeps
    <3>3. result = Execute("IntegerAdd", instr.arg, values, r.heap)
      BY <1>6
    <3>4. sum = seen[in[1]] + seen[in[2]]
      OBVIOUS
    <3> HIDE DEF values, in, result, sum
    <3> QED BY <3>1, <3>2, <3>3, <3>4, AddGives
  <2>5. /\ folded.op = "Constant" /\ folded.arg = Integer(sum) /\ folded.in = <<>> /\ folded.out = instr.out
    BY <1>1 DEF IsInstruction
  <2>6. Known(<<>>, r.env) /\ Execute("Constant", Integer(sum), Lookup(<<>>, r.env), r.heap) = Gives(Integer(sum), r.heap)
    BY ConstantGives DEF Known, ToSet, Integer
  <2>7. StepInstruction(r, folded) = q
    <3> HIDE DEF folded, sum
    <3> QED BY <1>6, <2>3, <2>4, <2>5, <2>6, SameStep
  <2>8. sum \in Int
    BY <2>3
  <2>9. Folded(b.code, m + 1, Learn(sum), q)
    <3> HIDE DEF sum, folded
    <3> QED BY <1>4, <1>6, <2>4, <2>8
  <2> HIDE DEF sum, folded, Learn
  <2> QED BY <2>1, <2>7, <2>9 DEF Emit
<1>7. CASE r.outcome = Running /\ ~constant /\ ~folds
  <2>1. e = Emit(instr, seen)
    BY <1>7 DEF FoldStep
  <2>2. q.outcome = Running => Folded(b.code, m + 1, seen, q)
    BY <1>3, <1>7
  <2> QED BY <2>1, <2>2 DEF Emit, Folded
<1> QED BY <1>2, <1>5, <1>6, <1>7

LEMMA FoldSame ==
  ASSUME NEW snap, Verified(snap), NEW b \in ToSet(snap.blocks), NEW r, Whole(r)
  PROVE  StepCode(r, FoldCode(b.code)) = StepCode(r, b.code)
<1> DEFINE code == b.code
           n == Len(code)
           f == CHOOSE g : StepsOf(r, code, g, n)
           other == FoldCode(code)
<1>1. n \in Nat /\ DOMAIN code = 1..n
  BY CodeOfBody
<1>2. StepsOf(r, code, f, n)
  BY <1>1, StepsExist
<1>3. PICK w : WalksFold(code, w, n) /\ other = [k \in DOMAIN code |-> w[k].instr]
  BY <1>1, FoldWalked
<1> HIDE DEF f, other
<1>4. \A m \in 0..n : Whole(f[m])
  BY <1>1, <1>2, CodeIsWhole
<1> DEFINE T == {m \in 0..n : Folded(code, m, w[m].seen, f[m])}
<1>5. 0 \in T
  BY <1>1, <1>3 DEF WalksFold, Folded, Emit
<1>6. ASSUME NEW m \in Nat, m \in T, m + 1 \in 1..n
      PROVE  m + 1 \in T /\ StepInstruction(f[m], other[m + 1]) = StepInstruction(f[m], code[m + 1])
  <2>1. m \in 0..n /\ m + 1 \in 0..n /\ m + 1 \in DOMAIN code /\ (m + 1) - 1 = m /\ m + 1 # 0
    BY <1>1, <1>6
  <2>2. w[m + 1] = FoldStep(w[m].seen, code[m + 1]) /\ f[m + 1] = StepInstruction(f[m], code[m + 1])
    BY <1>2, <1>3, <2>1 DEF WalksFold, StepsOf
  <2>3. other[m + 1] = w[m + 1].instr
    BY <1>3, <2>1
  <2>4. Whole(f[m]) /\ Folded(code, m, w[m].seen, f[m])
    BY <1>4, <1>6
  <2>5. Folded(code, m + 1, w[m + 1].seen, f[m + 1]) /\ StepInstruction(f[m], w[m + 1].instr) = f[m + 1]
    <3> HIDE DEF n
    <3>1. PICK p, seen, next, q : p = f[m] /\ seen = w[m].seen /\ next = w[m + 1] /\ q = f[m + 1]
      OBVIOUS
    <3>2. Folded(code, m + 1, next.seen, q) /\ StepInstruction(p, next.instr) = q
      BY <2>1, <2>2, <2>4, <3>1, FoldOne
    <3> QED BY <3>1, <3>2
  <2> QED BY <2>1, <2>2, <2>3, <2>5
<1>7. DOMAIN other = 1..n
  BY <1>1, <1>3
<1> HIDE DEF T
<1> QED BY <1>1, <1>2, <1>5, <1>6, <1>7, SameAlong DEF other

\* Folding constants changes nothing that a run of a verified body does, whatever it is called with
\* and whatever is in its heap (fold_constants in optimizer.rs, judged by replay.rs).
THEOREM FoldingMeansTheSame ==
  ASSUME NEW snap, Verified(snap), NEW arguments, IsInput(arguments), NEW heap, IsHeap(heap)
  PROVE  Replay(FoldConstants(snap), arguments, heap) = Replay(snap, arguments, heap)
<1> DEFINE codes == [j \in DOMAIN snap.blocks |-> FoldCode(snap.blocks[j].code)]
           blocks == [j \in DOMAIN snap.blocks |-> [snap.blocks[j] EXCEPT !.code = FoldCode(snap.blocks[j].code)]]
<1>1. Recoded(snap, FoldConstants(snap), blocks, codes)
  BY DEF FoldConstants, EachBlock, Recoded
<1>2. \A j \in DOMAIN snap.blocks : codes[j] = FoldCode(snap.blocks[j].code)
  OBVIOUS
<1> HIDE DEF blocks, codes
<1>3. ASSUME NEW b \in ToSet(snap.blocks), NEW j, b = snap.blocks[j], j \in DOMAIN snap.blocks, NEW r, Whole(r)
      PROVE  StepCode(r, codes[j]) = StepCode(r, b.code)
  BY <1>2, <1>3, FoldSame
<1> QED BY <1>1, <1>3, SameBody

-----------------------------------------------------------------------------
(* Value numbering.                                                        *)

WalksNumber(code, w, n) ==
  w = [k \in 0..n |-> IF k = 0 THEN Emit(NoArg, <<>>) ELSE NumberStep(w[k - 1].seen, code[k])]

LEMMA NumberWalked ==
  ASSUME NEW code, Len(code) \in Nat
  PROVE  \E w : /\ WalksNumber(code, w, Len(code))
                /\ NumberCode(code) = [k \in DOMAIN code |-> w[k].instr]
<1> DEFINE T == {m \in Nat : \E w : WalksNumber(code, w, m)}
<1>1. 0 \in T
  <2>1. WalksNumber(code, [k \in 0..0 |-> Emit(NoArg, <<>>)], 0)
    BY DEF WalksNumber
  <2> QED BY <2>1
<1>2. ASSUME NEW m \in Nat, m \in T PROVE m + 1 \in T
  <2>1. PICK w : WalksNumber(code, w, m)
    BY <1>2
  <2> DEFINE v == [k \in 0..(m + 1) |-> IF k = m + 1 THEN NumberStep(w[m].seen, code[m + 1]) ELSE w[k]]
  <2>2. WalksNumber(code, v, m + 1)
    BY <2>1 DEF WalksNumber
  <2> QED BY <2>2
<1>3. Len(code) \in T
  BY <1>1, <1>2, AllNumbers
<1> DEFINE walk == CHOOSE w : WalksNumber(code, w, Len(code))
<1>4. NumberCode(code) = [k \in DOMAIN code |-> walk[k].instr]
  BY DEF NumberCode, Walked, WalksNumber
<1> QED BY <1>3, <1>4

\* The sum of two values of a run.
Sum(ids, env) == Integer(Wrap(env[ids[1]][2] + env[ids[2]][2]))

LEMMA AddNeeds ==
  ASSUME NEW in, NEW arg, NEW heap, Execute("IntegerAdd", arg, in, heap).ok
  PROVE  in \in [1..2 -> {"I64"} \X Int]
<1> SUFFICES ASSUME in \notin [1..2 -> {"I64"} \X Int] PROVE FALSE
  OBVIOUS
<1>1. Pure("IntegerAdd", arg, in) = None
  BY DEF Pure
<1>2. Execute("IntegerAdd", arg, in, heap) = Failed(heap)
  BY <1>1 DEF Execute, PureOps
<1> QED BY <1>2 DEF Failed

LEMMA SumOf ==
  ASSUME NEW ids, DOMAIN ids = 1..2, NEW env,
         \A v \in ToSet(ids) : v \in DOMAIN env /\ env[v] \in {"I64"} \X Int, NEW op \in {"IntegerAdd", "Call"}, NEW arg, NEW heap
  PROVE  Known(ids, env) /\ Execute(op, arg, Lookup(ids, env), heap) = Gives(Sum(ids, env), heap)
<1> DEFINE in == Lookup(ids, env)
<1>1. in = [k \in 1..2 |-> env[ids[k]]]
  BY DEF Lookup
<1>2. ids[1] \in ToSet(ids) /\ ids[2] \in ToSet(ids)
  BY DEF ToSet
<1> HIDE DEF in
<1>3. in \in [1..2 -> {"I64"} \X Int] /\ in[1] = env[ids[1]] /\ in[2] = env[ids[2]]
  BY <1>1, <1>2
<1>4. Execute(op, arg, in, heap) = Gives(Sum(ids, env), heap)
  BY <1>3, AddGives DEF Sum
<1> QED BY <1>4 DEF Known, in

LEMMA SumCommutes ==
  ASSUME NEW a, DOMAIN a = 1..2, NEW b, DOMAIN b = 1..2, ToSet(a) = ToSet(b), NEW env,
         \A v \in ToSet(a) : env[v] \in {"I64"} \X Int
  PROVE  Sum(a, env) = Sum(b, env)
<1>1. /\ a[1] \in {b[1], b[2]} /\ a[2] \in {b[1], b[2]} /\ b[1] \in {a[1], a[2]} /\ b[2] \in {a[1], a[2]}
      /\ a[1] \in ToSet(a) /\ a[2] \in ToSet(a)
  BY DEF ToSet
<1>2. env[a[1]][2] \in Int /\ env[a[2]][2] \in Int
  BY <1>1
<1>3. (a[1] = b[1] /\ a[2] = b[2]) \/ (a[1] = b[2] /\ a[2] = b[1])
  BY <1>1
<1>4. env[a[1]][2] + env[a[2]][2] = env[b[1]][2] + env[b[2]][2]
  BY <1>2, <1>3
<1> QED BY <1>4 DEF Sum

\* The outputs the walk knows hold the sums of their inputs.
Numbered(code, m, seen, r) ==
  r.outcome = Running =>
    \A key \in DOMAIN seen : \E j \in 1..m :
      /\ code[j].out = seen[key] /\ seen[key] # 0 /\ Len(code[j].in) = 2 /\ ToSet(code[j].in) = key
      /\ \A v \in key : v \in DOMAIN r.env /\ r.env[v] \in {"I64"} \X Int
      /\ seen[key] \in DOMAIN r.env /\ r.env[seen[key]] = Sum(code[j].in, r.env)

LEMMA SumKept ==
  ASSUME NEW ids, DOMAIN ids = 1..2, NEW env, NEW other, \A v \in ToSet(ids) : other[v] = env[v]
  PROVE  Sum(ids, other) = Sum(ids, env)
<1>1. ids[1] \in ToSet(ids) /\ ids[2] \in ToSet(ids)
  BY DEF ToSet
<1> QED BY <1>1 DEF Sum

LEMMA NumberOne ==
  ASSUME NEW snap, Verified(snap), NEW b \in ToSet(snap.blocks), NEW m \in Nat, m + 1 \in DOMAIN b.code,
         NEW r, Whole(r), NEW seen, Numbered(b.code, m, seen, r),
         NEW instr, instr = b.code[m + 1], NEW e, e = NumberStep(seen, instr),
         NEW q, q = StepInstruction(r, instr)
  PROVE  StepInstruction(r, e.instr) = q /\ Numbered(b.code, m + 1, e.seen, q)
<1> DEFINE ids == instr.in
           key == ToSet(ids)
           numbered == instr.op = "IntegerAdd" /\ instr.eff = "Pure" /\ Len(ids) = 2
           copy == [instr EXCEPT !.op = "Copy", !.arg = NoArg, !.at = FALSE, !.in = <<seen[key]>>]
           result == Execute(instr.op, instr.arg, Lookup(ids, r.env), r.heap)
<1>1. /\ IsInstruction(instr) /\ UsesHold(snap) /\ DefinedOnce(snap) /\ Len(b.code) \in Nat
      /\ DOMAIN b.code = 1..Len(b.code)
  BY CodeOfBody
<1>2. \A j \in 1..(m + 1) : j \in DOMAIN b.code /\ IsVector(b.code[j].in)
  <2>1. 1..(m + 1) \subseteq DOMAIN b.code
    BY <1>1
  <2>2. \A j \in DOMAIN b.code : IsVector(b.code[j].in)
    BY CodeOfBody DEF IsInstruction
  <2> QED BY <2>1, <2>2
<1>3. CASE r.outcome # Running
  <2>1. e.instr.op # "Guard" \/ e.instr = instr
    BY DEF NumberStep, Emit
  <2> QED BY <1>3 DEF StepInstruction, Numbered
\* What is known before the step is known after it.
<1>4. ASSUME r.outcome = Running, q.outcome = Running PROVE Numbered(b.code, m + 1, seen, q)
  <2> SUFFICES ASSUME NEW k \in DOMAIN seen
               PROVE  \E j \in 1..(m + 1) :
                        /\ b.code[j].out = seen[k] /\ seen[k] # 0 /\ Len(b.code[j].in) = 2 /\ ToSet(b.code[j].in) = k
                        /\ \A v \in k : v \in DOMAIN q.env /\ q.env[v] \in {"I64"} \X Int
                        /\ seen[k] \in DOMAIN q.env /\ q.env[seen[k]] = Sum(b.code[j].in, q.env)
    BY DEF Numbered
  <2>1. PICK j \in 1..m :
          /\ b.code[j].out = seen[k] /\ seen[k] # 0 /\ Len(b.code[j].in) = 2 /\ ToSet(b.code[j].in) = k
          /\ \A v \in k : v \in DOMAIN r.env /\ r.env[v] \in {"I64"} \X Int
          /\ seen[k] \in DOMAIN r.env /\ r.env[seen[k]] = Sum(b.code[j].in, r.env)
    BY <1>4 DEF Numbered
  <2>2. j \in 1..(m + 1) /\ j \in DOMAIN b.code /\ j # m + 1 /\ j <= m + 1 /\ DOMAIN b.code[j].in = 1..2
    BY <1>1, <1>2, <2>1 DEF IsVector
  <2>3. \A v \in k : instr.out = 0 \/ v # instr.out
    BY <1>1, <2>1, <2>2, UsedBefore
  <2>4. \A v \in k : v \in DOMAIN q.env /\ q.env[v] = r.env[v]
    BY <1>4, <2>1, <2>3, OthersKeep DEF Whole
  <2>5. seen[k] # instr.out
    BY <1>1, <2>1, <2>2, OutsDiffer
  <2>6. seen[k] \in DOMAIN q.env /\ q.env[seen[k]] = r.env[seen[k]]
    BY <1>4, <2>1, <2>5, OthersKeep DEF Whole
  <2>7. Sum(b.code[j].in, q.env) = Sum(b.code[j].in, r.env)
    BY <2>1, <2>2, <2>4, SumKept
  <2> QED BY <2>1, <2>2, <2>4, <2>6, <2>7
<1>5. CASE r.outcome = Running /\ IsBarrier(instr)
  <2>1. e = Emit(instr, <<>>)
    BY <1>5 DEF NumberStep, IsBarrier, Barriers
  <2> QED BY <2>1 DEF Emit, Numbered
<1>6. CASE r.outcome = Running /\ ~IsBarrier(instr) /\ numbered /\ key \in DOMAIN seen
  <2>1. e = Emit(copy, seen)
    BY <1>6 DEF NumberStep
  <2>2. PICK j \in 1..m :
          /\ b.code[j].out = seen[key] /\ seen[key] # 0 /\ Len(b.code[j].in) = 2 /\ ToSet(b.code[j].in) = key
          /\ \A v \in key : v \in DOMAIN r.env /\ r.env[v] \in {"I64"} \X Int
          /\ seen[key] \in DOMAIN r.env /\ r.env[seen[key]] = Sum(b.code[j].in, r.env)
    BY <1>6 DEF Numbered
  <2>3. DOMAIN ids = 1..2 /\ DOMAIN b.code[j].in = 1..2
    BY <1>1, <1>2, <1>6, <2>2 DEF IsInstruction, IsVector
  <2>4. Sum(ids, r.env) = r.env[seen[key]]
    <3>1. ToSet(ids) = ToSet(b.code[j].in) /\ \A v \in ToSet(ids) : r.env[v] \in {"I64"} \X Int
      BY <2>2
    <3> HIDE DEF ids
    <3>2. Sum(ids, r.env) = Sum(b.code[j].in, r.env)
      BY <2>3, <3>1, SumCommutes
    <3> QED BY <2>2, <3>2 DEF ids
  <2>5. Known(ids, r.env) /\ result = Gives(r.env[seen[key]], r.heap)
    BY <1>6, <2>2, <2>3, <2>4, SumOf
  <2>6. /\ copy.op = "Copy" /\ copy.in = <<seen[key]>> /\ copy.out = instr.out
    BY <1>1 DEF IsInstruction
  <2>7. Known(<<seen[key]>>, r.env) /\ Lookup(<<seen[key]>>, r.env) = <<r.env[seen[key]]>>
    <3>1. seen[key] \in DOMAIN r.env
      BY <2>2
    <3> HIDE DEF key
    <3> QED BY <3>1 DEF Known, ToSet, Lookup
  <2>8. Execute("Copy", copy.arg, Lookup(<<seen[key]>>, r.env), r.heap) = Gives(r.env[seen[key]], r.heap)
    <3>1. r.env[seen[key]] # None
      BY <2>2 DEF Whole
    <3> HIDE DEF key, copy
    <3> QED BY <2>7, <3>1, CopyGives
  <2>9. StepInstruction(r, copy) = q
    <3> HIDE DEF copy, key, ids
    <3> QED BY <1>6, <2>5, <2>6, <2>7, <2>8, SameStep DEF ids
  <2>10. Numbered(b.code, m + 1, seen, q)
    BY <1>4, <1>6 DEF Numbered
  <2> QED BY <2>1, <2>9, <2>10 DEF Emit
<1>7. CASE r.outcome = Running /\ ~IsBarrier(instr) /\ numbered /\ key \notin DOMAIN seen /\ instr.out # 0
  <2>1. e = Emit(instr, Put(seen, key, instr.out))
    BY <1>7 DEF NumberStep
  <2>2. ASSUME q.outcome = Running PROVE Numbered(b.code, m + 1, Put(seen, key, instr.out), q)
    <3>1. Numbered(b.code, m + 1, seen, q)
      BY <1>4, <1>7, <2>2
    <3>2. Known(ids, r.env) /\ result.ok
          /\ q.env = IF instr.out # 0 /\ result.value # None THEN Put(r.env, instr.out, result.value) ELSE r.env
      BY <1>7, <2>2, StepsOn
    <3>3. DOMAIN ids = 1..2
      BY <1>1, <1>7 DEF IsInstruction, IsVector
    <3>4. \A v \in key : v \in DOMAIN r.env /\ r.env[v] \in {"I64"} \X Int
      <4>1. Lookup(ids, r.env) \in [1..2 -> {"I64"} \X Int]
        BY <1>7, <3>2, AddNeeds
      <4>2. \A k \in 1..2 : Lookup(ids, r.env)[k] = r.env[ids[k]]
        BY <3>3 DEF Lookup
      <4>3. \A k \in 1..2 : ids[k] \in DOMAIN r.env
        BY <3>2, <3>3 DEF Known, ToSet
      <4>4. \A k \in 1..2 : r.env[ids[k]] \in {"I64"} \X Int
        <5> HIDE DEF ids
        <5> QED BY <4>1, <4>2
      <4>5. key = {ids[1], ids[2]}
        BY <3>3 DEF ToSet
      <4> HIDE DEF ids, key
      <4> QED BY <4>3, <4>4, <4>5
    <3>5. result = Gives(Sum(ids, r.env), r.heap)
      BY <1>7, <3>3, <3>4, SumOf
    <3>6. result.value = Sum(ids, r.env) /\ result.value # None
      <4>1. result.value = Sum(ids, r.env)
        <5> HIDE DEF result, ids
        <5> QED BY <3>5 DEF Gives
      <4>2. Sum(ids, r.env) # None
        BY DEF Sum, Integer, None
      <4> QED BY <4>1, <4>2
    <3>7. q.env = Put(r.env, instr.out, Sum(ids, r.env))
      BY <1>7, <3>2, <3>6
    <3>8. instr.out \in DOMAIN q.env /\ q.env[instr.out] = Sum(ids, r.env)
      BY <3>7 DEF Put
    <3>9. \A v \in key : v # instr.out
      <4>1. m + 1 <= m + 1 /\ ids = b.code[m + 1].in /\ instr.out = b.code[m + 1].out
        OBVIOUS
      <4> HIDE DEF ids
      <4> QED BY <1>1, <1>7, <4>1, UsedBefore
    <3>10. \A v \in key : v \in DOMAIN q.env /\ q.env[v] = r.env[v]
      BY <3>4, <3>7, <3>9 DEF Put
    <3>11. Sum(ids, q.env) = Sum(ids, r.env)
      <4>1. \A v \in ToSet(ids) : q.env[v] = r.env[v]
        BY <3>10
      <4> HIDE DEF ids
      <4> QED BY <3>3, <4>1, SumKept
    <3>12. m + 1 \in 1..(m + 1)
      OBVIOUS
    <3> DEFINE more == Put(seen, key, instr.out)
    <3>13. DOMAIN more = DOMAIN seen \cup {key} /\ \A k \in DOMAIN more : more[k] = IF k = key THEN instr.out ELSE seen[k]
      BY DEF Put
    <3> HIDE DEF more
    <3>14. ASSUME NEW k \in DOMAIN more
           PROVE  \E j \in 1..(m + 1) :
                    /\ b.code[j].out = more[k] /\ more[k] # 0 /\ Len(b.code[j].in) = 2 /\ ToSet(b.code[j].in) = k
                    /\ \A v \in k : v \in DOMAIN q.env /\ q.env[v] \in {"I64"} \X Int
                    /\ more[k] \in DOMAIN q.env /\ q.env[more[k]] = Sum(b.code[j].in, q.env)
      <4>1. CASE k = key
        <5>1. more[k] = instr.out /\ ids = b.code[m + 1].in /\ instr.out = b.code[m + 1].out
          BY <3>13, <4>1
        <5>2. Len(ids) = 2 /\ ToSet(ids) = k /\ \A v \in k : v \in DOMAIN q.env /\ q.env[v] \in {"I64"} \X Int
          BY <1>7, <3>4, <3>10, <4>1
        <5> HIDE DEF ids, key
        <5> QED BY <1>7, <3>8, <3>11, <3>12, <5>1, <5>2
      <4>2. CASE k # key
        <5>1. k \in DOMAIN seen /\ more[k] = seen[k]
          BY <3>13, <4>2
        <5> QED BY <2>2, <3>1, <5>1 DEF Numbered
      <4> QED BY <4>1, <4>2
    <3> QED BY <3>14 DEF Numbered, more
  <2>3. e.instr = instr /\ e.seen = Put(seen, key, instr.out)
    BY <2>1 DEF Emit
  <2>4. q.outcome = Running \/ Numbered(b.code, m + 1, Put(seen, key, instr.out), q)
    BY DEF Numbered
  <2> QED BY <1>7, <2>2, <2>3, <2>4
<1>8. CASE /\ r.outcome = Running /\ ~IsBarrier(instr)
           /\ ~numbered \/ (key \notin DOMAIN seen /\ instr.out = 0)
  <2>1. e = Emit(instr, seen)
    BY <1>8 DEF NumberStep
  <2>2. Numbered(b.code, m + 1, seen, q)
    BY <1>4, <1>8 DEF Numbered
  <2> QED BY <2>1, <2>2 DEF Emit
<1> QED BY <1>3, <1>5, <1>6, <1>7, <1>8

LEMMA NumberSame ==
  ASSUME NEW snap, Verified(snap), NEW b \in ToSet(snap.blocks), NEW r, Whole(r)
  PROVE  StepCode(r, NumberCode(b.code)) = StepCode(r, b.code)
<1> DEFINE code == b.code
           n == Len(code)
           f == CHOOSE g : StepsOf(r, code, g, n)
           other == NumberCode(b.code)
<1>1. n \in Nat /\ DOMAIN code = 1..n
  BY CodeOfBody
<1>2. StepsOf(r, code, f, n)
  BY <1>1, StepsExist
<1>3. PICK w : WalksNumber(code, w, n) /\ other = [k \in DOMAIN code |-> w[k].instr]
  BY <1>1, NumberWalked
<1> HIDE DEF f, other
<1>4. \A m \in 0..n : Whole(f[m])
  BY <1>1, <1>2, CodeIsWhole
<1> DEFINE T == {m \in 0..n : Numbered(code, m, w[m].seen, f[m])}
<1>5. 0 \in T
  BY <1>1, <1>3 DEF WalksNumber, Numbered, Emit
<1>6. ASSUME NEW m \in Nat, m \in T, m + 1 \in 1..n
      PROVE  m + 1 \in T /\ StepInstruction(f[m], other[m + 1]) = StepInstruction(f[m], code[m + 1])
  <2>1. m \in 0..n /\ m + 1 \in 0..n /\ m + 1 \in DOMAIN code /\ (m + 1) - 1 = m /\ m + 1 # 0
    BY <1>1, <1>6
  <2>2. w[m + 1] = NumberStep(w[m].seen, code[m + 1]) /\ f[m + 1] = StepInstruction(f[m], code[m + 1])
    BY <1>2, <1>3, <2>1 DEF WalksNumber, StepsOf
  <2>3. other[m + 1] = w[m + 1].instr
    BY <1>3, <2>1
  <2>4. Whole(f[m]) /\ Numbered(code, m, w[m].seen, f[m])
    BY <1>4, <1>6
  <2>5. Numbered(code, m + 1, w[m + 1].seen, f[m + 1]) /\ StepInstruction(f[m], w[m + 1].instr) = f[m + 1]
    <3> HIDE DEF n
    <3>1. PICK p, seen, next, q : p = f[m] /\ seen = w[m].seen /\ next = w[m + 1] /\ q = f[m + 1]
      OBVIOUS
    <3>2. Numbered(code, m + 1, next.seen, q) /\ StepInstruction(p, next.instr) = q
      BY <2>1, <2>2, <2>4, <3>1, NumberOne
    <3> QED BY <3>1, <3>2
  <2> QED BY <2>1, <2>2, <2>3, <2>5
<1>7. DOMAIN other = 1..n
  BY <1>1, <1>3
<1> HIDE DEF T
<1> QED BY <1>1, <1>2, <1>5, <1>6, <1>7, SameAlong DEF other

\* Nor does giving a repeated sum the value of the first one (gvn).
THEOREM NumberingMeansTheSame ==
  ASSUME NEW snap, Verified(snap), NEW arguments, IsInput(arguments), NEW heap, IsHeap(heap)
  PROVE  Replay(NumberAdds(snap), arguments, heap) = Replay(snap, arguments, heap)
<1> DEFINE codes == [j \in DOMAIN snap.blocks |-> NumberCode(snap.blocks[j].code)]
           blocks == [j \in DOMAIN snap.blocks |-> [snap.blocks[j] EXCEPT !.code = NumberCode(snap.blocks[j].code)]]
<1>1. Recoded(snap, NumberAdds(snap), blocks, codes)
  BY DEF NumberAdds, EachBlock, Recoded
<1>2. \A j \in DOMAIN snap.blocks : codes[j] = NumberCode(snap.blocks[j].code)
  OBVIOUS
<1> HIDE DEF blocks, codes
<1>3. ASSUME NEW b \in ToSet(snap.blocks), NEW j, b = snap.blocks[j], j \in DOMAIN snap.blocks, NEW r, Whole(r)
      PROVE  StepCode(r, codes[j]) = StepCode(r, b.code)
  BY <1>2, <1>3, NumberSame
<1> QED BY <1>1, <1>3, SameBody

-----------------------------------------------------------------------------
(* Calls and accesses.                                                     *)

LEMMA LowerSame ==
  ASSUME NEW snap, Verified(snap), NEW b \in ToSet(snap.blocks), NEW r, Whole(r)
  PROVE  StepCode(r, LowerCode(b.code)) = StepCode(r, b.code)
<1> DEFINE code == b.code
           n == Len(code)
           f == CHOOSE g : StepsOf(r, code, g, n)
           other == LowerCode(code)
<1>1. n \in Nat /\ DOMAIN code = 1..n /\ DOMAIN other = 1..n
  BY CodeOfBody DEF LowerCode
<1>2. StepsOf(r, code, f, n)
  BY <1>1, StepsExist
<1> HIDE DEF f
<1>3. ASSUME NEW k \in 1..n PROVE StepInstruction(f[k - 1], other[k]) = StepInstruction(f[k - 1], code[k])
  <2>1. IsInstruction(code[k]) /\ (other[k] = code[k] \/ (other[k] = [code[k] EXCEPT !.at = FALSE]))
    BY <1>1, CodeOfBody DEF LowerCode
  <2>2. PICK i, j : i = code[k] /\ j = other[k]
    OBVIOUS
  <2>3. j.op = i.op /\ j.arg = i.arg /\ j.in = i.in /\ j.out = i.out
    BY <2>1, <2>2 DEF IsInstruction
  <2> QED BY <2>2, <2>3 DEF StepInstruction
<1>4. Len(other) = n
  BY <1>1
<1> HIDE DEF other
<1> QED BY <1>1, <1>2, <1>3, <1>4, SameCode DEF other

\* Nor does taking an access or a call out of its wrapping (lower_direct_operations).
THEOREM LoweringMeansTheSame ==
  ASSUME NEW snap, Verified(snap), NEW arguments, IsInput(arguments), NEW heap, IsHeap(heap)
  PROVE  Replay(LowerDirect(snap), arguments, heap) = Replay(snap, arguments, heap)
<1> DEFINE codes == [j \in DOMAIN snap.blocks |-> LowerCode(snap.blocks[j].code)]
           blocks == [j \in DOMAIN snap.blocks |-> [snap.blocks[j] EXCEPT !.code = LowerCode(snap.blocks[j].code)]]
<1>1. Recoded(snap, LowerDirect(snap), blocks, codes)
  BY DEF LowerDirect, EachBlock, Recoded
<1>2. \A j \in DOMAIN snap.blocks : codes[j] = LowerCode(snap.blocks[j].code)
  OBVIOUS
<1> HIDE DEF blocks, codes
<1>3. ASSUME NEW b \in ToSet(snap.blocks), NEW j, b = snap.blocks[j], j \in DOMAIN snap.blocks, NEW r, Whole(r)
      PROVE  StepCode(r, codes[j]) = StepCode(r, b.code)
  BY <1>2, <1>3, LowerSame
<1> QED BY <1>1, <1>3, SameBody

InlineCode(snap, proofs, code) ==
  LET Step(seen, instr) == InlineStep(snap, proofs, seen, instr)
  IN  Walked(code, FALSE, Step)

WalksInline(snap, proofs, code, w, n) ==
  w = [k \in 0..n |-> IF k = 0 THEN Emit(NoArg, FALSE) ELSE InlineStep(snap, proofs, w[k - 1].seen, code[k])]

LEMMA InlineWalked ==
  ASSUME NEW snap, NEW proofs, NEW code, Len(code) \in Nat
  PROVE  \E w : /\ WalksInline(snap, proofs, code, w, Len(code))
                /\ InlineCode(snap, proofs, code) = [k \in DOMAIN code |-> w[k].instr]
<1> DEFINE T == {m \in Nat : \E w : WalksInline(snap, proofs, code, w, m)}
<1>1. 0 \in T
  <2>1. WalksInline(snap, proofs, code, [k \in 0..0 |-> Emit(NoArg, FALSE)], 0)
    BY DEF WalksInline
  <2> QED BY <2>1
<1>2. ASSUME NEW m \in Nat, m \in T PROVE m + 1 \in T
  <2>1. PICK w : WalksInline(snap, proofs, code, w, m)
    BY <1>2
  <2> DEFINE v == [k \in 0..(m + 1) |-> IF k = m + 1 THEN InlineStep(snap, proofs, w[m].seen, code[m + 1]) ELSE w[k]]
  <2>2. WalksInline(snap, proofs, code, v, m + 1)
    BY <2>1 DEF WalksInline
  <2> QED BY <2>2
<1>3. Len(code) \in T
  BY <1>1, <1>2, AllNumbers
<1> DEFINE walk == CHOOSE w : WalksInline(snap, proofs, code, w, Len(code))
<1>4. InlineCode(snap, proofs, code) = [k \in DOMAIN code |-> walk[k].instr]
  BY DEF InlineCode, Walked, WalksInline
<1> QED BY <1>3, <1>4

LEMMA CallIsAdd ==
  ASSUME NEW arg, NEW in, NEW heap
  PROVE  Execute("IntegerAdd", NoArg, in, heap) = Execute("Call", arg, in, heap)
<1>1. Pure("IntegerAdd", NoArg, in) = Pure("Call", arg, in)
  BY DEF Pure
<1> QED BY <1>1 DEF Execute, PureOps

LEMMA InlineOne ==
  ASSUME NEW snap, NEW proofs, NEW r, NEW seen, NEW instr, IsInstruction(instr)
  PROVE  StepInstruction(r, InlineStep(snap, proofs, seen, instr).instr) = StepInstruction(r, instr)
<1> DEFINE add == [instr EXCEPT !.op = "IntegerAdd", !.arg = NoArg, !.at = FALSE]
           e == InlineStep(snap, proofs, seen, instr)
<1>1. e.instr = instr \/ (e.instr = add /\ instr.op = "Call")
  BY DEF InlineStep, Emit
<1>2. add.op = "IntegerAdd" /\ add.arg = NoArg /\ add.in = instr.in /\ add.out = instr.out
  BY DEF IsInstruction
<1>3. ASSUME instr.op = "Call" PROVE StepInstruction(r, add) = StepInstruction(r, instr)
  <2> HIDE DEF add
  <2>1. Execute(add.op, add.arg, Lookup(add.in, r.env), r.heap)
          = Execute(instr.op, instr.arg, Lookup(instr.in, r.env), r.heap)
    BY <1>2, <1>3, CallIsAdd
  <2>2. add.op # "Guard" /\ instr.op # "Guard"
    BY <1>2, <1>3
  <2> QED BY <1>2, <2>1, <2>2 DEF StepInstruction
<1> QED BY <1>1, <1>3

IsCode(code) ==
  Len(code) \in Nat /\ DOMAIN code = 1..Len(code) /\ \A k \in DOMAIN code : IsInstruction(code[k])

LEMMA InlineSame ==
  ASSUME NEW snap, NEW proofs, NEW code, IsCode(code), NEW r
  PROVE  StepCode(r, InlineCode(snap, proofs, code)) = StepCode(r, code)
<1> DEFINE n == Len(code)
           other == InlineCode(snap, proofs, code)
<1>1. n \in Nat
  BY DEF IsCode
<1>2. PICK f : StepsOf(r, code, f, n)
  BY <1>1, StepsExist
<1>3. PICK w : WalksInline(snap, proofs, code, w, n) /\ other = [k \in DOMAIN code |-> w[k].instr]
  <2>1. \E w : /\ WalksInline(snap, proofs, code, w, Len(code))
               /\ InlineCode(snap, proofs, code) = [k \in DOMAIN code |-> w[k].instr]
    <3>1. PICK inlined : inlined = InlineCode(snap, proofs, code)
      OBVIOUS
    <3> QED BY <1>1, <3>1, InlineWalked
  <2> QED BY <2>1
<1> HIDE DEF other
<1>4. ASSUME NEW k \in 1..n PROVE StepInstruction(f[k - 1], other[k]) = StepInstruction(f[k - 1], code[k])
  <2>1. k \in 0..n /\ k # 0 /\ k \in DOMAIN code /\ IsInstruction(code[k])
    BY <1>1 DEF IsCode
  <2>2. other[k] = w[k].instr /\ w[k] = InlineStep(snap, proofs, w[k - 1].seen, code[k])
    BY <1>1, <1>3, <2>1 DEF WalksInline
  <2> QED BY <2>1, <2>2, InlineOne
<1>5. Len(other) = n
  BY <1>1, <1>3 DEF IsCode
<1> HIDE DEF n
<1> QED BY <1>1, <1>2, <1>4, <1>5, SameCode DEF n, other

\* Nor does making a call of a proven callee the addition it does (guarded_inline).
THEOREM InliningMeansTheSame ==
  ASSUME NEW snap, Verified(snap), NEW proofs, NEW arguments, IsInput(arguments), NEW heap, IsHeap(heap)
  PROVE  Replay(GuardedInline(snap, proofs), arguments, heap) = Replay(snap, arguments, heap)
<1> DEFINE codes == [j \in DOMAIN snap.blocks |-> InlineCode(snap, proofs, snap.blocks[j].code)]
           blocks == [j \in DOMAIN snap.blocks |-> [snap.blocks[j] EXCEPT !.code = InlineCode(snap, proofs, snap.blocks[j].code)]]
<1>1. Recoded(snap, GuardedInline(snap, proofs), blocks, codes)
  BY DEF GuardedInline, InlineCode, EachBlock, Recoded
<1>2. \A j \in DOMAIN snap.blocks : codes[j] = InlineCode(snap, proofs, snap.blocks[j].code)
  OBVIOUS
<1> HIDE DEF blocks, codes
<1>3. ASSUME NEW b \in ToSet(snap.blocks), NEW j, b = snap.blocks[j], j \in DOMAIN snap.blocks, NEW r, Whole(r)
      PROVE  StepCode(r, codes[j]) = StepCode(r, b.code)
  <2>1. PICK code : code = b.code
    OBVIOUS
  <2>2. IsCode(code)
    BY <2>1, CodeOfBody DEF IsCode
  <2>3. StepCode(r, InlineCode(snap, proofs, code)) = StepCode(r, code)
    BY <2>2, InlineSame
  <2>4. codes[j] = InlineCode(snap, proofs, code)
    BY <1>2, <1>3, <2>1
  <2> QED BY <2>1, <2>3, <2>4
<1> QED BY <1>1, <1>3, SameBody

-----------------------------------------------------------------------------
(* Reads of a field that was stored.                                       *)

ForwardCode(snap, code) ==
  LET Step(seen, instr) == ForwardStep(ValueTypes(snap), seen, instr)
  IN  Walked(code, <<>>, Step)

WalksForward(snap, code, w, n) ==
  w = [k \in 0..n |-> IF k = 0 THEN Emit(NoArg, <<>>) ELSE ForwardStep(ValueTypes(snap), w[k - 1].seen, code[k])]

LEMMA ForwardWalked ==
  ASSUME NEW snap, NEW code, Len(code) \in Nat
  PROVE  \E w : /\ WalksForward(snap, code, w, Len(code))
                /\ ForwardCode(snap, code) = [k \in DOMAIN code |-> w[k].instr]
<1> DEFINE T == {m \in Nat : \E w : WalksForward(snap, code, w, m)}
<1>1. 0 \in T
  <2>1. WalksForward(snap, code, [k \in 0..0 |-> Emit(NoArg, <<>>)], 0)
    BY DEF WalksForward
  <2> QED BY <2>1
<1>2. ASSUME NEW m \in Nat, m \in T PROVE m + 1 \in T
  <2>1. PICK w : WalksForward(snap, code, w, m)
    BY <1>2
  <2> DEFINE v == [k \in 0..(m + 1) |-> IF k = m + 1 THEN ForwardStep(ValueTypes(snap), w[m].seen, code[m + 1]) ELSE w[k]]
  <2>2. WalksForward(snap, code, v, m + 1)
    BY <2>1 DEF WalksForward
  <2> QED BY <2>2
<1>3. Len(code) \in T
  BY <1>1, <1>2, AllNumbers
<1> DEFINE walk == CHOOSE w : WalksForward(snap, code, w, Len(code))
<1>4. ForwardCode(snap, code) = [k \in DOMAIN code |-> walk[k].instr]
  BY DEF ForwardCode, Walked, WalksForward
<1> QED BY <1>3, <1>4

\* The object of a store and its key, and the value the object holds under the key.
Holds(ids, env, objects) ==
  LET object == env[ids[1]]
      key == env[ids[2]]
  IN  /\ object[1] = "Handle" /\ key[1] = "I64"
      /\ object[2] \in DOMAIN objects /\ key[2] \in DOMAIN objects[object[2]]
      /\ objects[object[2]][key[2]] = env[ids[3]]

LEMMA StoreGives ==
  ASSUME NEW in, NEW arg, NEW heap, IsHeap(heap), NEW result, result = Execute("ObjectSet", arg, in, heap), result.ok
  PROVE  /\ Len(in) = 3 /\ Shape(in)[1] = "Handle" /\ Shape(in)[2] = "I64" /\ in[1][2] \in DOMAIN heap.objects
         /\ result.value = None /\ in[1][2] \in DOMAIN result.heap.objects
         /\ result.heap.objects[in[1][2]] = Put(heap.objects[in[1][2]], in[2][2], in[3])
<1> DEFINE set == Len(in) = 3 /\ SubSeq(Shape(in), 1, 2) = <<"Handle", "I64">> /\ in[1][2] \in DOMAIN heap.objects
           object == in[1][2]
           new == Put(heap.objects[object], in[2][2], in[3])
<1>1. result = ObjectOp("ObjectSet", in, heap)
  BY DEF Execute, PureOps
<1>2. set
  <2> SUFFICES ASSUME ~set PROVE FALSE
    OBVIOUS
  <2>1. result = Failed(heap)
    BY <1>1 DEF ObjectOp
  <2> QED BY <2>1 DEF Failed
<1>3. result = Gives(None, [heap EXCEPT !.objects[object] = new])
  BY <1>1, <1>2 DEF ObjectOp
<1> HIDE DEF new
<1>4. result.value = None /\ result.heap = [heap EXCEPT !.objects[object] = new]
  BY <1>3 DEF Gives
<1>5. result.heap.objects = [heap.objects EXCEPT ![object] = new]
  BY <1>4 DEF IsHeap
<1>6. Shape(in)[1] = "Handle" /\ Shape(in)[2] = "I64"
  <2>1. PICK shape : shape = Shape(in)
    OBVIOUS
  <2>2. SubSeq(shape, 1, 2)[1] = "Handle" /\ SubSeq(shape, 1, 2)[2] = "I64"
    <3>1. PICK prefix : prefix = SubSeq(shape, 1, 2)
      OBVIOUS
    <3>2. prefix = <<"Handle", "I64">>
      BY <1>2, <2>1, <3>1
    <3>3. prefix[1] = "Handle" /\ prefix[2] = "I64"
      BY <3>2
    <3> QED BY <3>1, <3>3
  <2>3. SubSeq(shape, 1, 2)[1] = shape[1] /\ SubSeq(shape, 1, 2)[2] = shape[2]
    OBVIOUS
  <2> QED BY <2>1, <2>2, <2>3
<1> QED BY <1>2, <1>4, <1>5, <1>6 DEF new

LEMMA ReadGives ==
  ASSUME NEW in, DOMAIN in = 1..2, in[1][1] = "Handle", in[2][1] = "I64", NEW arg, NEW heap,
         in[1][2] \in DOMAIN heap.objects, in[2][2] \in DOMAIN heap.objects[in[1][2]]
  PROVE  Execute("ObjectGet", arg, in, heap) = Gives(heap.objects[in[1][2]][in[2][2]], heap)
<1>1. Shape(in) = <<"Handle", "I64">>
  BY DEF Shape
<1> QED BY <1>1 DEF Execute, PureOps, ObjectOp

\* The store the walk remembers is still there.
Stored(code, m, seen, r) ==
  r.outcome = Running /\ seen # <<>> =>
    \E j \in 1..m : /\ seen = code[j].in /\ Len(seen) = 3 /\ Known(seen, r.env)
                    /\ Holds(seen, r.env, r.heap.objects)

LEMMA ForwardOne ==
  ASSUME NEW snap, Verified(snap), NEW b \in ToSet(snap.blocks), NEW m \in Nat, m + 1 \in DOMAIN b.code,
         NEW r, Whole(r), NEW seen, Stored(b.code, m, seen, r),
         NEW instr, instr = b.code[m + 1], NEW e, e = ForwardStep(ValueTypes(snap), seen, instr),
         NEW q, q = StepInstruction(r, instr)
  PROVE  StepInstruction(r, e.instr) = q /\ Stored(b.code, m + 1, e.seen, q)
<1> DEFINE ids == instr.in
           hit == seen # <<>> /\ ids = <<seen[1], seen[2]>> /\ ValueTypes(snap)[seen[3]] = instr.ty
           copy == [instr EXCEPT !.op = "Copy", !.arg = NoArg, !.at = FALSE, !.in = <<seen[3]>>, !.eff = "Pure"]
           in == Lookup(ids, r.env)
           result == Execute(instr.op, instr.arg, in, r.heap)
           set == instr.op = "ObjectSet" /\ Len(ids) = 3
           get == instr.op = "ObjectGet" /\ Len(ids) = 2
<1>1. /\ IsInstruction(instr) /\ UsesHold(snap) /\ DefinedOnce(snap) /\ Len(b.code) \in Nat
      /\ DOMAIN b.code = 1..Len(b.code)
  BY CodeOfBody
<1>2. \A j \in 1..(m + 1) : j \in DOMAIN b.code /\ IsVector(b.code[j].in)
  <2>1. 1..(m + 1) \subseteq DOMAIN b.code
    BY <1>1
  <2>2. \A j \in DOMAIN b.code : IsVector(b.code[j].in)
    BY CodeOfBody DEF IsInstruction
  <2> QED BY <2>1, <2>2
<1>3. CASE r.outcome # Running
  BY <1>3 DEF StepInstruction, Stored
\* Whatever does not store keeps what is stored.
<1>4. ASSUME r.outcome = Running, ~set PROVE Stored(b.code, m + 1, seen, q)
  <2> SUFFICES ASSUME q.outcome = Running, seen # <<>>
               PROVE  \E j \in 1..(m + 1) : /\ seen = b.code[j].in /\ Len(seen) = 3 /\ Known(seen, q.env)
                                            /\ Holds(seen, q.env, q.heap.objects)
    BY DEF Stored
  <2>1. PICK j \in 1..m : /\ seen = b.code[j].in /\ Len(seen) = 3 /\ Known(seen, r.env)
                          /\ Holds(seen, r.env, r.heap.objects)
    BY <1>4 DEF Stored
  <2>2. j \in 1..(m + 1) /\ j \in DOMAIN b.code /\ j <= m + 1 /\ DOMAIN seen = 1..3
    BY <1>1, <1>2, <2>1 DEF IsVector
  <2>3. \A v \in ToSet(seen) : instr.out = 0 \/ v # instr.out
    BY <1>1, <2>1, <2>2, UsedBefore
  <2>4. \A v \in ToSet(seen) : v \in DOMAIN q.env /\ q.env[v] = r.env[v]
    BY <1>4, <2>1, <2>3, OthersKeep DEF Whole, Known
  <2>5. result.ok /\ q.heap = result.heap
    BY <1>4, StepsOn
  <2>6. instr.op # "ObjectSet"
    <3> SUFFICES ASSUME instr.op = "ObjectSet" PROVE FALSE
      OBVIOUS
    <3>1. Len(in) = 3
      <4> HIDE DEF in
      <4> QED BY <2>5, StoreGives DEF Whole
    <3>2. DOMAIN in = 1..Len(ids) /\ Len(ids) \in Nat
      BY <1>1 DEF Lookup, IsInstruction, IsVector
    <3>3. Len(in) = Len(ids)
      <4> HIDE DEF in, ids
      <4> QED BY <3>2
    <3> QED BY <1>4, <3>1, <3>3
  <2>7. \A h \in DOMAIN r.heap.objects : h \in DOMAIN q.heap.objects /\ q.heap.objects[h] = r.heap.objects[h]
    <3> HIDE DEF in, result
    <3>1. IsHeap(r.heap)
      BY DEF Whole
    <3> QED BY <2>5, <2>6, <3>1, ExecuteHeap DEF result
  <2>8. Known(seen, q.env)
    BY <2>4 DEF Known
  <2>9. Holds(seen, q.env, q.heap.objects)
    <3>1. seen[1] \in ToSet(seen) /\ seen[2] \in ToSet(seen) /\ seen[3] \in ToSet(seen)
      BY <2>2 DEF ToSet
    <3>2. q.env[seen[1]] = r.env[seen[1]] /\ q.env[seen[2]] = r.env[seen[2]] /\ q.env[seen[3]] = r.env[seen[3]]
      BY <2>4, <3>1
    <3>3. PICK object, key, value : object = r.env[seen[1]] /\ key = r.env[seen[2]] /\ value = r.env[seen[3]]
      OBVIOUS
    <3>4. /\ object[1] = "Handle" /\ key[1] = "I64" /\ object[2] \in DOMAIN r.heap.objects
          /\ key[2] \in DOMAIN r.heap.objects[object[2]] /\ r.heap.objects[object[2]][key[2]] = value
      BY <2>1, <3>3 DEF Holds
    <3>5. /\ object[2] \in DOMAIN q.heap.objects
          /\ key[2] \in DOMAIN q.heap.objects[object[2]] /\ q.heap.objects[object[2]][key[2]] = value
      BY <2>7, <3>4
    <3> QED BY <3>2, <3>3, <3>4, <3>5 DEF Holds
  <2> QED BY <2>1, <2>2, <2>8, <2>9
<1>5. CASE r.outcome = Running /\ set
  <2>1. e = Emit(instr, ids)
    BY <1>5 DEF ForwardStep
  <2>2. ASSUME q.outcome = Running PROVE Known(ids, q.env) /\ Holds(ids, q.env, q.heap.objects)
    <3>1. /\ Known(ids, r.env) /\ result.ok /\ q.heap = result.heap
          /\ q.env = IF instr.out # 0 /\ result.value # None THEN Put(r.env, instr.out, result.value) ELSE r.env
      BY <1>5, <2>2, StepsOn
    <3>2. DOMAIN ids = 1..3 /\ in = [k \in 1..3 |-> r.env[ids[k]]]
      BY <1>1, <1>5 DEF IsInstruction, IsVector, Lookup
    <3>3. in[1] = r.env[ids[1]] /\ in[2] = r.env[ids[2]] /\ in[3] = r.env[ids[3]]
      BY <3>2
    <3>4. Shape(in)[1] = in[1][1] /\ Shape(in)[2] = in[2][1]
      <4>1. DOMAIN in = 1..3
        BY <3>2
      <4> HIDE DEF in
      <4> QED BY <4>1 DEF Shape
    <3> HIDE DEF in, ids
    <3>5. /\ in[1][1] = "Handle" /\ in[2][1] = "I64" /\ result.value = None /\ in[1][2] \in DOMAIN result.heap.objects
          /\ result.heap.objects[in[1][2]] = Put(r.heap.objects[in[1][2]], in[2][2], in[3])
      BY <1>5, <3>1, <3>4, StoreGives DEF Whole
    <3>6. q.env = r.env
      BY <3>1, <3>5
    <3>7. /\ in[2][2] \in DOMAIN q.heap.objects[in[1][2]]
          /\ q.heap.objects[in[1][2]][in[2][2]] = in[3]
      <4>1. PICK h, k, old : h = in[1][2] /\ k = in[2][2] /\ old = r.heap.objects[h]
        OBVIOUS
      <4>2. q.heap.objects[h] = Put(old, k, in[3])
        BY <3>1, <3>5, <4>1
      <4>3. k \in DOMAIN Put(old, k, in[3]) /\ Put(old, k, in[3])[k] = in[3]
        BY DEF Put
      <4> QED BY <4>1, <4>2, <4>3
    <3>8. Known(ids, q.env)
      BY <3>1, <3>6
    <3>9. PICK object, key, value : object = in[1] /\ key = in[2] /\ value = in[3]
      OBVIOUS
    <3>10. q.env[ids[1]] = object /\ q.env[ids[2]] = key /\ q.env[ids[3]] = value
      BY <3>3, <3>6, <3>9
    <3>11. /\ object[1] = "Handle" /\ key[1] = "I64" /\ object[2] \in DOMAIN q.heap.objects
           /\ key[2] \in DOMAIN q.heap.objects[object[2]] /\ q.heap.objects[object[2]][key[2]] = value
      BY <3>1, <3>5, <3>7, <3>9
    <3>12. Holds(ids, q.env, q.heap.objects)
      BY <3>10, <3>11 DEF Holds
    <3> QED BY <3>8, <3>12
  <2>3. m + 1 \in 1..(m + 1) /\ ids = b.code[m + 1].in /\ Len(ids) = 3
    BY <1>5
  <2>4. Stored(b.code, m + 1, ids, q)
    <3> HIDE DEF ids
    <3> QED BY <2>2, <2>3 DEF Stored
  <2> QED BY <2>1, <2>4 DEF Emit
<1>6. CASE r.outcome = Running /\ ~set /\ get /\ hit
  <2>1. e = Emit(copy, seen)
    BY <1>6 DEF ForwardStep
  <2>2. PICK j \in 1..m : /\ seen = b.code[j].in /\ Len(seen) = 3 /\ Known(seen, r.env)
                          /\ Holds(seen, r.env, r.heap.objects)
    BY <1>6 DEF Stored
  <2>3. DOMAIN seen = 1..3
    BY <1>2, <2>2 DEF IsVector
  <2>4. seen[1] \in DOMAIN r.env /\ seen[2] \in DOMAIN r.env /\ seen[3] \in DOMAIN r.env
    BY <2>2, <2>3 DEF Known, ToSet
  <2>5. Known(ids, r.env) /\ in = <<r.env[seen[1]], r.env[seen[2]]>>
    BY <1>6, <2>4 DEF Known, ToSet, Lookup
  <2>6. result = Gives(r.env[seen[3]], r.heap)
    <3>1. DOMAIN in = 1..2 /\ in[1] = r.env[seen[1]] /\ in[2] = r.env[seen[2]]
      BY <2>5
    <3> HIDE DEF in
    <3>2. /\ in[1][1] = "Handle" /\ in[2][1] = "I64" /\ in[1][2] \in DOMAIN r.heap.objects
          /\ in[2][2] \in DOMAIN r.heap.objects[in[1][2]] /\ r.heap.objects[in[1][2]][in[2][2]] = r.env[seen[3]]
      BY <2>2, <3>1 DEF Holds
    <3>3. Execute("ObjectGet", instr.arg, in, r.heap) = Gives(r.heap.objects[in[1][2]][in[2][2]], r.heap)
      BY <3>1, <3>2, ReadGives
    <3> QED BY <1>6, <3>2, <3>3
  <2>7. /\ copy.op = "Copy" /\ copy.in = <<seen[3]>> /\ copy.out = instr.out
    BY <1>1 DEF IsInstruction
  <2>8. Known(<<seen[3]>>, r.env) /\ Lookup(<<seen[3]>>, r.env) = <<r.env[seen[3]]>>
    BY <2>4 DEF Known, ToSet, Lookup
  <2>9. Execute("Copy", copy.arg, Lookup(<<seen[3]>>, r.env), r.heap) = Gives(r.env[seen[3]], r.heap)
    <3>1. r.env[seen[3]] # None
      BY <2>4 DEF Whole
    <3> HIDE DEF copy
    <3> QED BY <2>8, <3>1, CopyGives
  <2>10. StepInstruction(r, copy) = q
    <3> HIDE DEF copy, in, ids
    <3> QED BY <1>6, <2>5, <2>6, <2>7, <2>8, <2>9, SameStep DEF ids, in
  <2>11. Stored(b.code, m + 1, seen, q)
    BY <1>4, <1>6
  <2> QED BY <2>1, <2>10, <2>11 DEF Emit
<1>7. CASE r.outcome = Running /\ ~set /\ ~(get /\ hit)
  <2>1. e = Emit(instr, seen) \/ e = Emit(instr, <<>>)
    BY <1>7 DEF ForwardStep
  <2>2. Stored(b.code, m + 1, seen, q) /\ Stored(b.code, m + 1, <<>>, q)
    BY <1>4, <1>7 DEF Stored
  <2> QED BY <2>1, <2>2 DEF Emit
<1> QED BY <1>3, <1>5, <1>6, <1>7

LEMMA ForwardSame ==
  ASSUME NEW snap, Verified(snap), NEW b \in ToSet(snap.blocks), NEW r, Whole(r)
  PROVE  StepCode(r, ForwardCode(snap, b.code)) = StepCode(r, b.code)
<1> DEFINE code == b.code
           n == Len(code)
           f == CHOOSE g : StepsOf(r, code, g, n)
           other == ForwardCode(snap, b.code)
<1>1. n \in Nat /\ DOMAIN code = 1..n
  BY CodeOfBody
<1>2. StepsOf(r, code, f, n)
  BY <1>1, StepsExist
<1>3. PICK w : WalksForward(snap, code, w, n) /\ other = [k \in DOMAIN code |-> w[k].instr]
  <2>1. \E w : /\ WalksForward(snap, code, w, Len(code))
               /\ ForwardCode(snap, code) = [k \in DOMAIN code |-> w[k].instr]
    <3>1. PICK forwarded : forwarded = ForwardCode(snap, code)
      OBVIOUS
    <3>2. Len(code) \in Nat
      BY <1>1
    <3> HIDE DEF code
    <3> QED BY <3>1, <3>2, ForwardWalked
  <2> QED BY <2>1
<1> HIDE DEF f, other
<1>4. \A m \in 0..n : Whole(f[m])
  BY <1>1, <1>2, CodeIsWhole
<1> DEFINE T == {m \in 0..n : Stored(code, m, w[m].seen, f[m])}
<1>5. 0 \in T
  BY <1>1, <1>3 DEF WalksForward, Stored, Emit
<1>6. ASSUME NEW m \in Nat, m \in T, m + 1 \in 1..n
      PROVE  m + 1 \in T /\ StepInstruction(f[m], other[m + 1]) = StepInstruction(f[m], code[m + 1])
  <2>1. m \in 0..n /\ m + 1 \in 0..n /\ m + 1 \in DOMAIN code /\ (m + 1) - 1 = m /\ m + 1 # 0
    BY <1>1, <1>6
  <2>2. w[m + 1] = ForwardStep(ValueTypes(snap), w[m].seen, code[m + 1]) /\ f[m + 1] = StepInstruction(f[m], code[m + 1])
    BY <1>2, <1>3, <2>1 DEF WalksForward, StepsOf
  <2>3. other[m + 1] = w[m + 1].instr
    BY <1>3, <2>1
  <2>4. Whole(f[m]) /\ Stored(code, m, w[m].seen, f[m])
    BY <1>4, <1>6
  <2>5. Stored(code, m + 1, w[m + 1].seen, f[m + 1]) /\ StepInstruction(f[m], w[m + 1].instr) = f[m + 1]
    <3> HIDE DEF n
    <3>1. PICK p, seen, next, q : p = f[m] /\ seen = w[m].seen /\ next = w[m + 1] /\ q = f[m + 1]
      OBVIOUS
    <3>2. Stored(code, m + 1, next.seen, q) /\ StepInstruction(p, next.instr) = q
      BY <2>1, <2>2, <2>4, <3>1, ForwardOne
    <3> QED BY <3>1, <3>2
  <2> QED BY <2>1, <2>2, <2>3, <2>5
<1>7. DOMAIN other = 1..n
  BY <1>1, <1>3
<1> HIDE DEF T
<1> QED BY <1>1, <1>2, <1>5, <1>6, <1>7, SameAlong DEF other

\* Nor does taking a field from the store before its read (heap_forward).
THEOREM ForwardingMeansTheSame ==
  ASSUME NEW snap, Verified(snap), NEW arguments, IsInput(arguments), NEW heap, IsHeap(heap)
  PROVE  Replay(HeapForward(snap), arguments, heap) = Replay(snap, arguments, heap)
<1> DEFINE codes == [j \in DOMAIN snap.blocks |-> ForwardCode(snap, snap.blocks[j].code)]
           blocks == [j \in DOMAIN snap.blocks |-> [snap.blocks[j] EXCEPT !.code = ForwardCode(snap, snap.blocks[j].code)]]
<1>1. Recoded(snap, HeapForward(snap), blocks, codes)
  BY DEF HeapForward, ForwardCode, EachBlock, Recoded
<1>2. \A j \in DOMAIN snap.blocks : codes[j] = ForwardCode(snap, snap.blocks[j].code)
  OBVIOUS
<1> HIDE DEF blocks, codes
<1>3. ASSUME NEW b \in ToSet(snap.blocks), NEW j, b = snap.blocks[j], j \in DOMAIN snap.blocks, NEW r, Whole(r)
      PROVE  StepCode(r, codes[j]) = StepCode(r, b.code)
  BY <1>2, <1>3, ForwardSame
<1> QED BY <1>1, <1>3, SameBody

-----------------------------------------------------------------------------
(* The pipeline.                                                           *)

SealedIsVerified == Sealed => Verified(body)

LEMMA PassKeepsVerified ==
  ASSUME NEW name, NEW next, NEW rewritten, name \notin {"draft", "rejected"}, SealedIsVerified,
         Pass(name, next, rewritten)
  PROVE  SealedIsVerified'
<1>1. Verified(body) /\ (body' = rewritten \/ body' = body) /\ (body' = body \/ Verified(rewritten))
  BY DEF Pass, SealedIsVerified, Sealed
<1>2. Verified(body')
  BY <1>1
<1> QED BY <1>2 DEF SealedIsVerified, Verified

\* From its seal on a body is verified: every pass that changes it is followed by the
\* verification of what it made (derive_optimized).
THEOREM StaysVerified == Spec => []SealedIsVerified
<1>1. Init => SealedIsVerified
  BY DEF Init, SealedIsVerified, Sealed
<1>2. SealedIsVerified /\ [Next]_vars => SealedIsVerified'
  <2> SUFFICES ASSUME SealedIsVerified, [Next]_vars PROVE SealedIsVerified'
    OBVIOUS
  <2>1. CASE Seal
    BY <2>1 DEF Seal, SealedIsVerified, Sealed
  <2>2. CASE PropagateAndFold
    BY <2>2, PassKeepsVerified DEF PropagateAndFold
  <2>3. CASE DirectObjectListCall
    BY <2>3, PassKeepsVerified DEF DirectObjectListCall
  <2>4. CASE Inline
    BY <2>4, PassKeepsVerified DEF Inline
  <2>5. CASE EscapeAndScalarReplace
    BY <2>5, PassKeepsVerified DEF EscapeAndScalarReplace
  <2>6. CASE ForwardHeap
    BY <2>6, PassKeepsVerified DEF ForwardHeap
  <2>7. CASE LicmAndGvn
    BY <2>7, PassKeepsVerified DEF LicmAndGvn
  <2>8. CASE Enter
    BY <2>8 DEF Enter, SealedIsVerified, Sealed
  <2>9. CASE Materialise
    BY <2>9 DEF Materialise, SealedIsVerified, Sealed
  <2>10. CASE UNCHANGED vars
    BY <2>10 DEF vars, SealedIsVerified, Sealed
  <2> QED BY <2>1, <2>2, <2>3, <2>4, <2>5, <2>6, <2>7, <2>8, <2>9, <2>10 DEF Next
<1> QED BY <1>1, <1>2, PTL DEF Spec

\* Whatever drafts the recorders hand over: after the seal and after any number of passes
\* no input makes the body read a value that was not defined on the way there.
THEOREM ReadsAreDefined == Spec => []ReadsDefined
<1>1. SealedIsVerified => ReadsDefined
  BY VerifiedReadsDefined DEF SealedIsVerified, ReadsDefined
<1> QED BY <1>1, StaysVerified, PTL

-----------------------------------------------------------------------------
(* The pipeline's passes together. Scalar replacement and hoisting move     *)
(* instructions, and what a run allocates: they are left to TLC.            *)

DraftIsOriginal == original \in Drafts /\ (stage = "draft" => body = original.body)

LEMMA PassKeepsDraft ==
  ASSUME NEW name, NEW next, NEW rewritten, name # "draft", next # "draft", DraftIsOriginal,
         Pass(name, next, rewritten)
  PROVE  DraftIsOriginal'
<1>1. original' = original /\ stage' # "draft"
  BY DEF Pass
<1> QED BY <1>1 DEF DraftIsOriginal

\* A body is what the recorder drafted until it is sealed.
LEMMA StaysOriginal == Spec => []DraftIsOriginal
<1>1. Init => DraftIsOriginal
  BY DEF Init, DraftIsOriginal
<1>2. DraftIsOriginal /\ [Next]_vars => DraftIsOriginal'
  <2> SUFFICES ASSUME DraftIsOriginal, [Next]_vars PROVE DraftIsOriginal'
    OBVIOUS
  <2>1. CASE Seal
    BY <2>1 DEF Seal, DraftIsOriginal
  <2>2. CASE PropagateAndFold
    BY <2>2, PassKeepsDraft DEF PropagateAndFold
  <2>3. CASE DirectObjectListCall
    BY <2>3, PassKeepsDraft DEF DirectObjectListCall
  <2>4. CASE Inline
    BY <2>4, PassKeepsDraft DEF Inline
  <2>5. CASE EscapeAndScalarReplace
    BY <2>5, PassKeepsDraft DEF EscapeAndScalarReplace
  <2>6. CASE ForwardHeap
    BY <2>6, PassKeepsDraft DEF ForwardHeap
  <2>7. CASE LicmAndGvn
    BY <2>7, PassKeepsDraft DEF LicmAndGvn
  <2>8. CASE Enter
    BY <2>8 DEF Enter, DraftIsOriginal
  <2>9. CASE Materialise
    BY <2>9 DEF Materialise, DraftIsOriginal
  <2>10. CASE UNCHANGED vars
    BY <2>10 DEF vars, DraftIsOriginal
  <2> QED BY <2>1, <2>2, <2>3, <2>4, <2>5, <2>6, <2>7, <2>8, <2>9, <2>10 DEF Next
<1> QED BY <1>1, <1>2, PTL DEF Spec

\* The assumptions on the drafts and the heap are what the theorems of the passes need.
LEMMA InputsAndHeap ==
  ASSUME original \in Drafts
  PROVE  IsHeap(Heap) /\ \A arguments \in original.inputs : IsInput(arguments)
<1>1. DOMAIN Heap.objects \cup DOMAIN Heap.lists \subseteq 0..Capacity
  BY HeapAssumption, CapacityAssumption
<1>2. IsHeap(Heap)
  BY <1>1, HeapAssumption, CapacityAssumption DEF IsHeap
<1>3. \A arguments \in original.inputs : IsInput(arguments)
  BY DraftsAssumption DEF IsInput
<1> QED BY <1>2, <1>3

\* A step that neither replaces an object nor hoists an instruction.
Unmoved ==
  /\ EscapeAndScalarReplace => body' = body
  /\ LicmAndGvn => HoistOne(body) = body

KeepsRuns ==
  \A arguments \in original.inputs : Replay(body', arguments, Heap) = Replay(body, arguments, Heap)

LEMMA PassKeepsRuns ==
  ASSUME NEW name, NEW next, NEW rewritten, Pass(name, next, rewritten),
         \A arguments \in original.inputs : Replay(rewritten, arguments, Heap) = Replay(body, arguments, Heap)
  PROVE  KeepsRuns
<1>1. body' = rewritten \/ body' = body
  BY DEF Pass
<1> QED BY <1>1 DEF KeepsRuns

LEMMA StepKeepsRuns ==
  ASSUME SealedIsVerified, DraftIsOriginal, [Next]_vars, Unmoved
  PROVE  KeepsRuns
<1>1. IsHeap(Heap) /\ \A arguments \in original.inputs : IsInput(arguments)
  BY InputsAndHeap DEF DraftIsOriginal
<1>2. stage \notin {"draft", "rejected"} => Verified(body)
  BY DEF SealedIsVerified, Sealed
<1>3. body' = body => KeepsRuns
  BY DEF KeepsRuns
<1>4. CASE Seal
  BY <1>3, <1>4 DEF Seal
<1>5. CASE PropagateAndFold
  <2>1. Verified(body) /\ Pass("PropagateAndFold", "DirectObjectListCall", FoldConstants(body))
    BY <1>2, <1>5 DEF PropagateAndFold, Pass
  <2>2. \A arguments \in original.inputs : Replay(FoldConstants(body), arguments, Heap) = Replay(body, arguments, Heap)
    BY <1>1, <2>1, FoldingMeansTheSame
  <2> QED BY <2>1, <2>2, PassKeepsRuns
<1>6. CASE DirectObjectListCall
  <2>1. Verified(body) /\ Pass("DirectObjectListCall", "GuardedInline", LowerDirect(body))
    BY <1>2, <1>6 DEF DirectObjectListCall, Pass
  <2>2. \A arguments \in original.inputs : Replay(LowerDirect(body), arguments, Heap) = Replay(body, arguments, Heap)
    BY <1>1, <2>1, LoweringMeansTheSame
  <2> QED BY <2>1, <2>2, PassKeepsRuns
<1>7. CASE Inline
  <2>1. Verified(body) /\ Pass("GuardedInline", "EscapeAndScalarReplace", GuardedInline(body, original.proofs))
    BY <1>2, <1>7 DEF Inline, Pass
  <2>2. \A arguments \in original.inputs :
          Replay(GuardedInline(body, original.proofs), arguments, Heap) = Replay(body, arguments, Heap)
    BY <1>1, <2>1, InliningMeansTheSame
  <2> QED BY <2>1, <2>2, PassKeepsRuns
<1>8. CASE EscapeAndScalarReplace
  BY <1>3, <1>8 DEF Unmoved
<1>9. CASE ForwardHeap
  <2>1. Verified(body) /\ Pass("HeapForward", "LicmAndGvn", HeapForward(body))
    BY <1>2, <1>9 DEF ForwardHeap, Pass
  <2>2. \A arguments \in original.inputs : Replay(HeapForward(body), arguments, Heap) = Replay(body, arguments, Heap)
    BY <1>1, <2>1, ForwardingMeansTheSame
  <2> QED BY <2>1, <2>2, PassKeepsRuns
<1>10. CASE LicmAndGvn
  <2>1. Verified(body) /\ Pass("LicmAndGvn", "compiled", NumberAdds(body))
    BY <1>2, <1>10 DEF LicmAndGvn, Pass, Unmoved
  <2>2. \A arguments \in original.inputs : Replay(NumberAdds(body), arguments, Heap) = Replay(body, arguments, Heap)
    BY <1>1, <2>1, NumberingMeansTheSame
  <2> QED BY <2>1, <2>2, PassKeepsRuns
<1>11. CASE Enter
  BY <1>3, <1>11 DEF Enter
<1>12. CASE Materialise
  BY <1>3, <1>12 DEF Materialise
<1>13. CASE UNCHANGED vars
  BY <1>3, <1>13 DEF vars
<1> QED BY <1>4, <1>5, <1>6, <1>7, <1>8, <1>9, <1>10, <1>11, <1>12, <1>13 DEF Next

\* A step of the pipeline that neither replaces an object nor hoists an instruction changes nothing
\* that a run of the body does: what it returns, where it leaves, its values, its heap.
THEOREM PassesKeepRuns == Spec => [][Unmoved => KeepsRuns]_vars
<1>1. SealedIsVerified /\ DraftIsOriginal /\ [Next]_vars => [Unmoved => KeepsRuns]_vars
  BY StepKeepsRuns
<1> QED BY <1>1, StaysVerified, StaysOriginal, PTL DEF Spec

RunsAsOriginal ==
  Sealed => \A arguments \in original.inputs : Replay(body, arguments, Heap) = Replay(original.body, arguments, Heap)

LEMMA StaysAsOriginal == Spec /\ [][Unmoved]_vars => []RunsAsOriginal
<1>1. Init => RunsAsOriginal
  BY DEF Init, RunsAsOriginal, Sealed
<1>2. RunsAsOriginal /\ SealedIsVerified /\ DraftIsOriginal /\ [Next]_vars /\ [Unmoved]_vars => RunsAsOriginal'
  <2> SUFFICES ASSUME RunsAsOriginal, SealedIsVerified, DraftIsOriginal, [Next]_vars, [Unmoved]_vars
               PROVE  RunsAsOriginal'
    OBVIOUS
  <2>1. CASE UNCHANGED vars
    BY <2>1 DEF vars, RunsAsOriginal, Sealed
  <2>2. CASE Next /\ Unmoved
    <3>1. original' = original
      BY <2>2 DEF Next, Seal, PropagateAndFold, DirectObjectListCall, Inline, EscapeAndScalarReplace, ForwardHeap,
                  LicmAndGvn, Pass, Enter, Materialise
    <3>2. KeepsRuns
      BY <2>2, StepKeepsRuns
    <3>3. stage' \notin {"draft", "rejected"} => Sealed \/ body = original.body
      BY <2>2 DEF DraftIsOriginal, Sealed, Next, Seal, PropagateAndFold, DirectObjectListCall, Inline,
                  EscapeAndScalarReplace, ForwardHeap, LicmAndGvn, Pass, Enter, Materialise
    <3>4. stage' \notin {"draft", "rejected"} =>
            \A arguments \in original.inputs : Replay(body, arguments, Heap) = Replay(original.body, arguments, Heap)
      BY <3>3 DEF RunsAsOriginal
    <3> QED BY <3>1, <3>2, <3>4 DEF RunsAsOriginal, KeepsRuns, Sealed
  <2> QED BY <2>1, <2>2
<1> QED BY <1>1, <1>2, StaysVerified, StaysOriginal, PTL DEF Spec

\* A compilation in which no object is replaced and no instruction is hoisted ends with a body that
\* means what the sealed draft meant, on every input.
THEOREM UnmovedMeansTheSame == Spec /\ [][Unmoved]_vars => []MeansTheSame
<1>1. RunsAsOriginal => MeansTheSame
  BY DEF RunsAsOriginal, MeansTheSame
<1> QED BY <1>1, StaysAsOriginal, PTL

-----------------------------------------------------------------------------
(* The frame given back after a guard.                                     *)

\* A run of a verified body has a heap, and all that it knows are values.
LEMMA ReplayIsWhole ==
  ASSUME NEW snap, Verified(snap), NEW arguments, IsInput(arguments), NEW heap, IsHeap(heap)
  PROVE  Whole(Replay(snap, arguments, heap))
<1> DEFINE start == Start(snap, arguments, heap)
           f == CHOOSE g : BlocksOf(snap, start, g, StepLimit)
           T == {m \in Nat : m <= StepLimit => Whole(f[m])}
<1>1. StepLimit \in Nat
  BY ReplayAssumption
<1>2. BlocksOf(snap, start, f, StepLimit)
  BY <1>1, BlocksExist
<1>3. Replay(snap, arguments, heap) = f[StepLimit]
  BY DEF Replay, BlocksOf
<1>4. Whole(start)
  BY DEF Start, Whole, IsRun
<1>5. IsBody(snap) /\ BlocksDistinct(snap) /\ Alike(snap, snap)
  BY DEF Verified, Alike
<1> HIDE DEF start, f
<1>6. 0 \in T
  BY <1>1, <1>2, <1>4 DEF BlocksOf
<1>7. ASSUME NEW m \in Nat, m \in T PROVE m + 1 \in T
  <2> SUFFICES ASSUME m + 1 <= StepLimit PROVE Whole(f[m + 1])
    OBVIOUS
  <2>1. f[m + 1] = StepBlock(snap, f[m]) /\ Whole(f[m])
    BY <1>1, <1>2, <1>7 DEF BlocksOf
  <2> QED BY <1>5, <2>1, SameBlock
<1>8. StepLimit \in T
  <2> HIDE DEF T
  <2> QED BY <1>1, <1>6, <1>7, AllNumbers
<1> QED BY <1>1, <1>3, <1>8

\* What a recipe rebuilds depends on the values, the spills and the heap only, not on what was checked.
LEMMA RebuiltAlike ==
  ASSUME NEW one, NEW two, one.values = two.values, one.spills = two.spills, one.heap = two.heap, NEW recipe
  PROVE  Rebuild(one, recipe) = Rebuild(two, recipe)
<1>1. \A source : External(one, source) = External(two, source)
  BY DEF External
<1>2. \A id : VirtualHandle(one, recipe, id) = VirtualHandle(two, recipe, id)
  BY DEF VirtualHandle
<1>3. \A source : Resolved(one, recipe, source) = Resolved(two, recipe, source)
  BY <1>1, <1>2 DEF Resolved
<1>4. \A items : Fields(one, recipe, items) = Fields(two, recipe, items)
  BY <1>3, Zenon DEF Fields
<1>5. \A frame : Registers(one, recipe, frame) = Registers(two, recipe, frame)
  <2> TAKE frame
  <2> DEFINE Source(n) == (CHOOSE r \in ToSet(frame.registers) : r.register = n).source
             Value(e, n) == Resolved(e, recipe, Source(n))
             numbers == 0..(Len(frame.registers) - 1)
  <2>1. ASSUME NEW e PROVE Registers(e, recipe, frame) = [n \in numbers |-> Value(e, n)]
    BY DEF Registers
  <2>2. \A n : Value(one, n) = Value(two, n)
    BY <1>3
  <2> HIDE DEF Value, numbers
  <2>3. [n \in numbers |-> Value(one, n)] = [n \in numbers |-> Value(two, n)]
    BY <2>2, Zenon
  <2> QED BY <2>1, <2>3
<1> DEFINE Content(e, v) == IF v.kind = "Object" THEN Fields(e, recipe, v.items)
                            ELSE [k \in DOMAIN v.items |-> Resolved(e, recipe, v.items[k])]
           Object(e, h) == IF h \in DOMAIN e.heap.objects THEN e.heap.objects[h]
                           ELSE Content(e, recipe.virtuals[h - NextHandle(e.heap) + 1])
           Held(e) == DOMAIN e.heap.objects \cup {VirtualHandle(e, recipe, id) : id \in VirtualIds(recipe)}
           Objects(e) == [h \in Held(e) |-> Object(e, h)]
           Frames(e) == [k \in DOMAIN recipe.frames |-> Registers(e, recipe, recipe.frames[k])]
<1>6. ASSUME NEW e PROVE Rebuild(e, recipe) = [ok |-> TRUE, frames |-> Frames(e), heap |-> [e.heap EXCEPT !.objects = Objects(e)]]
  BY Zenon DEF Rebuild
<1>7. \A v : Content(one, v) = Content(two, v)
  BY <1>3, <1>4, Zenon
<1>8. Held(one) = Held(two)
  BY <1>2, Zenon
<1> HIDE DEF Content, Held
<1>9. \A h : Object(one, h) = Object(two, h)
  BY <1>7, Zenon
<1> HIDE DEF Object
<1>10. Objects(one) = Objects(two)
  BY <1>8, <1>9, Zenon
<1>11. Frames(one) = Frames(two)
  BY <1>5, Zenon
<1> HIDE DEF Objects, Frames
<1> QED BY <1>6, <1>10, <1>11, Zenon

\* A frame that is given back is the same whatever the shape table and the helper did to it.
LEMMA GivenAlike ==
  ASSUME NEW one, NEW two, one.values = two.values, one.spills = two.spills, one.heap = two.heap,
         two.shapes = TRUE, two.helper = FALSE, NEW recipe
  PROVE  Reconstruct(one, recipe) \in {Reconstruct(two, recipe), Refused(one)}
<1> DEFINE back == Reconstruct(one, recipe)
           Complete(e) == /\ DependenciesComplete(recipe) /\ ~e.helper
                          /\ VirtualsValid(e, recipe)
                          /\ \A f \in ToSet(recipe.frames) : FrameValid(e, recipe, f)
                          /\ RootsResolve(e)
                          /\ BatchFits(e, recipe)
<1>5. ASSUME NEW e
      PROVE  /\ Complete(e) => Reconstruct(e, recipe) = Rebuild(e, recipe)
             /\ ~Complete(e) => Reconstruct(e, recipe) = Refused(e)
  <2>1. ASSUME Complete(e) PROVE Reconstruct(e, recipe) = Rebuild(e, recipe)
    BY <2>1, Zenon DEF Reconstruct
  <2>2. ASSUME ~Complete(e) PROVE Reconstruct(e, recipe) = Refused(e)
    BY <2>2, Zenon DEF Reconstruct
  <2> QED BY <2>1, <2>2, Zenon
<1>2. \A source : External(one, source) = External(two, source)
  BY DEF External
<1>3. CASE Complete(one)
  <2>1. back = Rebuild(one, recipe)
    <3> HIDE DEF Complete
    <3> QED BY <1>3, <1>5
  <2>2. VirtualsValid(two, recipe)
    BY <1>2, <1>3 DEF VirtualsValid
  <2>3. ASSUME NEW f \in ToSet(recipe.frames) PROVE FrameValid(two, recipe, f)
    <3>1. \A reg : RegisterValid(one, recipe, reg) => RegisterValid(two, recipe, reg)
      BY <1>2 DEF RegisterValid
    <3>2. FrameValid(one, recipe, f)
      BY <1>3
    <3> QED BY <3>1, <3>2, Zenon DEF FrameValid
  <2>4. RootsResolve(two)
    <3>1. RootsResolve(one)
      BY <1>3
    <3> QED BY <3>1, Zenon DEF RootsResolve
  <2>7. BatchFits(two, recipe)
    <3>1. BatchFits(one, recipe)
      BY <1>3
    <3> QED BY <3>1, Zenon DEF BatchFits
  <2>5. Reconstruct(two, recipe) = Rebuild(two, recipe)
    <3>1. Complete(two)
      BY <1>3, <2>2, <2>3, <2>4, <2>7, Zenon
    <3> HIDE DEF Complete
    <3> QED BY <3>1, <1>5
  <2>6. Rebuild(one, recipe) = Rebuild(two, recipe)
    BY RebuiltAlike
  <2> QED BY <2>1, <2>5, <2>6
<1>4. CASE ~Complete(one)
  <2>1. back = Refused(one)
    <3> HIDE DEF Complete
    <3> QED BY <1>4, <1>5
  <2> QED BY <2>1
<1> QED BY <1>3, <1>4

\* The five passes that recode blocks leave the recipes as they are.
SameRecipes == Sealed => body.deopts = original.body.deopts

LEMMA RecodingKeepsRecipes ==
  ASSUME NEW snap, IsBody(snap), NEW other, NEW blocks, NEW codes, Recoded(snap, other, blocks, codes)
  PROVE  other.deopts = snap.deopts
BY DEF Recoded, IsBody

LEMMA PassesKeepRecipes ==
  ASSUME NEW snap, IsBody(snap), NEW proofs
  PROVE  /\ FoldConstants(snap).deopts = snap.deopts
         /\ LowerDirect(snap).deopts = snap.deopts
         /\ GuardedInline(snap, proofs).deopts = snap.deopts
         /\ HeapForward(snap).deopts = snap.deopts
         /\ NumberAdds(snap).deopts = snap.deopts
BY DEF IsBody, FoldConstants, LowerDirect, GuardedInline, HeapForward, NumberAdds, EachBlock

LEMMA PassKeepsRecipes ==
  ASSUME NEW name, NEW next, NEW rewritten, name \notin {"draft", "rejected"}, SameRecipes,
         Pass(name, next, rewritten), rewritten.deopts = body.deopts
  PROVE  SameRecipes'
<1>1. Sealed /\ original' = original /\ (body' = rewritten \/ body' = body)
  BY DEF Pass, Sealed
<1>2. body'.deopts = body.deopts
  BY <1>1
<1> QED BY <1>1, <1>2 DEF SameRecipes

LEMMA StaysWithRecipes == Spec /\ [][Unmoved]_vars => []SameRecipes
<1>1. Init => SameRecipes
  BY DEF Init, SameRecipes, Sealed
<1>2. SameRecipes /\ SealedIsVerified /\ DraftIsOriginal /\ [Next]_vars /\ [Unmoved]_vars => SameRecipes'
  <2> SUFFICES ASSUME SameRecipes, SealedIsVerified, DraftIsOriginal, [Next]_vars, [Unmoved]_vars PROVE SameRecipes'
    OBVIOUS
  <2>0. CASE UNCHANGED vars
    BY <2>0 DEF vars, SameRecipes, Sealed
  <2>1. CASE Seal
    BY <2>1 DEF Seal, SameRecipes, DraftIsOriginal
  <2>2. CASE PropagateAndFold
    <3>1. IsBody(body)
      BY <2>2 DEF PropagateAndFold, Pass, SealedIsVerified, Sealed, Verified
    <3> QED BY <2>2, <3>1, PassesKeepRecipes, PassKeepsRecipes DEF PropagateAndFold
  <2>3. CASE DirectObjectListCall
    <3>1. IsBody(body)
      BY <2>3 DEF DirectObjectListCall, Pass, SealedIsVerified, Sealed, Verified
    <3> QED BY <2>3, <3>1, PassesKeepRecipes, PassKeepsRecipes DEF DirectObjectListCall
  <2>4. CASE Inline
    <3>1. IsBody(body)
      BY <2>4 DEF Inline, Pass, SealedIsVerified, Sealed, Verified
    <3> QED BY <2>4, <3>1, PassesKeepRecipes, PassKeepsRecipes DEF Inline
  <2>5. CASE EscapeAndScalarReplace /\ Unmoved
    BY <2>5 DEF Unmoved, EscapeAndScalarReplace, Pass, SameRecipes, Sealed
  <2>6. CASE ForwardHeap
    <3>1. IsBody(body)
      BY <2>6 DEF ForwardHeap, Pass, SealedIsVerified, Sealed, Verified
    <3> QED BY <2>6, <3>1, PassesKeepRecipes, PassKeepsRecipes DEF ForwardHeap
  <2>7. CASE LicmAndGvn /\ Unmoved
    <3>1. IsBody(body) /\ HoistOne(body) = body
      BY <2>7 DEF Unmoved, LicmAndGvn, Pass, SealedIsVerified, Sealed, Verified
    <3>2. Pass("LicmAndGvn", "compiled", NumberAdds(body))
      BY <2>7, <3>1 DEF LicmAndGvn
    <3> QED BY <3>1, <3>2, PassesKeepRecipes, PassKeepsRecipes
  <2>8. CASE Enter
    BY <2>8 DEF Enter, SameRecipes, Sealed
  <2>9. CASE Materialise
    BY <2>9 DEF Materialise, SameRecipes, Sealed
  <2> QED BY <2>0, <2>1, <2>2, <2>3, <2>4, <2>5, <2>6, <2>7, <2>8, <2>9 DEF Next
<1> QED BY <1>1, <1>2, StaysVerified, StaysOriginal, PTL DEF Spec

\* Where the run and the frame of a state come from.
RunsOfBody ==
  stage \in {"ran", "resumed"} =>
    \E arguments \in original.inputs : run = Put(Replay(body, arguments, Heap), "arguments", arguments)

GivenByEngine ==
  stage = "resumed" =>
    \E shapes, helper \in BOOLEAN :
      given = Reconstruct(Engine(run.env, <<>>, run.heap, shapes, helper), RecipeFor(body, run.outcome[2]))

LEMMA StaysFromBody == Spec => [](RunsOfBody /\ GivenByEngine)
<1>1. Init => RunsOfBody /\ GivenByEngine
  BY DEF Init, RunsOfBody, GivenByEngine
<1>2. RunsOfBody /\ GivenByEngine /\ [Next]_vars => RunsOfBody' /\ GivenByEngine'
  <2> SUFFICES ASSUME RunsOfBody, GivenByEngine, [Next]_vars PROVE RunsOfBody' /\ GivenByEngine'
    OBVIOUS
  <2>1. CASE UNCHANGED vars
    BY <2>1 DEF vars, RunsOfBody, GivenByEngine
  <2>2. CASE Enter
    BY <2>2 DEF Enter, RunsOfBody, GivenByEngine
  <2>3. CASE Materialise
    BY <2>3 DEF Materialise, RunsOfBody, GivenByEngine
  <2>4. CASE ~Enter /\ ~Materialise /\ Next
    <3>1. stage' \notin {"ran", "resumed"}
      BY <2>4 DEF Next, Seal, PropagateAndFold, DirectObjectListCall, Inline, EscapeAndScalarReplace, ForwardHeap,
                  LicmAndGvn, Pass
    <3> QED BY <3>1 DEF RunsOfBody, GivenByEngine
  <2> QED BY <2>1, <2>2, <2>3, <2>4
<1> QED BY <1>1, <1>2, PTL DEF Spec

\* The frame given back after a guard of an optimised body, in which no object was replaced and no
\* instruction hoisted, is the frame that the sealed draft gives back when it leaves there; when the
\* engine refuses to rebuild it, whatever for, the heap is as the run left it.
THEOREM UnmovedFrameIsRebuilt == Spec /\ [][Unmoved]_vars => []FrameIsRebuilt
<1>1. RunsAsOriginal /\ SameRecipes /\ SealedIsVerified /\ DraftIsOriginal /\ RunsOfBody /\ GivenByEngine
        => FrameIsRebuilt
  <2> SUFFICES ASSUME RunsAsOriginal, SameRecipes, SealedIsVerified, DraftIsOriginal, RunsOfBody, GivenByEngine,
                      stage = "resumed"
               PROVE  IF given.ok THEN Seen(given.frames[1], given.heap) = OriginalFrame ELSE given.heap = run.heap
    BY DEF FrameIsRebuilt
  <2>1. Sealed /\ Verified(body)
    BY DEF Sealed, SealedIsVerified
  <2>2. PICK arguments \in original.inputs : run = Put(Replay(body, arguments, Heap), "arguments", arguments)
    BY DEF RunsOfBody
  <2>3. PICK plain : plain = Replay(body, arguments, Heap)
    OBVIOUS
  <2>4. Whole(plain)
    BY <2>1, <2>3, InputsAndHeap, ReplayIsWhole DEF DraftIsOriginal
  <2>5. plain = [block |-> plain.block, incoming |-> plain.incoming, env |-> plain.env, missing |-> plain.missing,
                 heap |-> plain.heap, outcome |-> plain.outcome, undefined |-> plain.undefined]
    BY <2>4 DEF Whole, IsRun
  <2>6. run.arguments = arguments /\ run.env = plain.env /\ run.heap = plain.heap /\ run.outcome = plain.outcome
    <3>1. {"env", "heap", "outcome"} \subseteq DOMAIN plain
      BY <2>5
    <3> QED BY <2>2, <2>3, <3>1 DEF Put
  <2>7. plain = Replay(original.body, arguments, Heap)
    BY <2>1, <2>3 DEF RunsAsOriginal
  <2>8. PICK recipe : recipe = RecipeFor(body, plain.outcome[2])
    OBVIOUS
  <2>9. RecipeFor(original.body, plain.outcome[2]) = recipe
    BY <2>1, <2>8 DEF RecipeFor, SameRecipes
  <2>10. PICK shapes, helper \in BOOLEAN : given = Reconstruct(Engine(plain.env, <<>>, plain.heap, shapes, helper), recipe)
    BY <2>6, <2>8 DEF GivenByEngine
  <2> DEFINE one == Engine(plain.env, <<>>, plain.heap, shapes, helper)
             two == Engine(plain.env, <<>>, plain.heap, TRUE, FALSE)
  <2>11. given \in {Reconstruct(two, recipe), Refused(one)}
    <3>1. /\ one.values = two.values /\ one.spills = two.spills /\ one.heap = two.heap
          /\ two.shapes = TRUE /\ two.helper = FALSE
      BY DEF Engine
    <3> HIDE DEF one, two
    <3>2. given = Reconstruct(one, recipe)
      BY <2>10 DEF one
    <3> QED BY <3>1, <3>2, GivenAlike
  <2>12. OriginalFrame = SeenFirst(Reconstruct(two, recipe))
    BY <2>6, <2>7, <2>9 DEF OriginalFrame, FrameAfter
  <2>13. /\ Refused(one).ok = FALSE /\ Refused(one).heap = run.heap
         /\ Refused(two).ok = FALSE /\ Refused(two).heap = run.heap
    BY <2>6 DEF Refused, Engine
  <2> HIDE DEF one, two
  <2>14. CASE given \in {Refused(one), Refused(two)}
    BY <2>13, <2>14, Zenon
  <2>15. CASE given = Reconstruct(two, recipe) /\ given # Refused(two)
    <3>1. given = Rebuild(two, recipe)
      BY <2>15, Zenon DEF Reconstruct
    <3>2. given.ok = TRUE
      BY <3>1, Zenon DEF Rebuild
    <3> QED BY <2>12, <2>15, <3>2, Zenon DEF SeenFirst
  <2> QED BY <2>11, <2>14, <2>15
<1> QED BY <1>1, StaysAsOriginal, StaysWithRecipes, StaysVerified, StaysOriginal, StaysFromBody, PTL


-----------------------------------------------------------------------------
(* What the verifier says of a body whose instructions were replaced one by *)
(* one: what a replacement must be like for the body to stay verified.      *)

\* The borrowed views a block has when it comes to a place.
Borrowed(b, pos) ==
  {p.id : p \in {q \in ToSet(b.params) : q.ty = "BorrowedView"}}
    \cup {b.code[k].out : k \in {j \in 1..(pos - 1) : b.code[j].ty = "BorrowedView"}}

\* No barrier up to a place ends the use of a value there.
Usable(b, pos, v) == \A j \in DOMAIN b.code : j <= pos /\ IsBarrier(b.code[j]) => v \notin Borrowed(b, j)

Aliases(snap) ==
  IF OwnedDefinitions(snap) = {} THEN {} ELSE OwnedAliases(snap, FirstOutput(snap, OwnedDefinitions(snap)))

\* What may stand in the place of an instruction of a block.
Refit(snap, b, k, new) ==
  LET old == b.code[k]
  IN  /\ IsInstruction(new)
      /\ new.out = old.out /\ new.ty = old.ty /\ new.seq = old.seq /\ new.point = old.point
      /\ new.eff \in {old.eff, "Pure"}
      /\ \A v \in ToSet(new.in) : MayUse(Sites(snap), Dominators(snap), v, b.id, k)
      /\ WellTyped(new, ValueTypes(snap))
      /\ \/ new.op = old.op /\ new.arg = old.arg /\ new.in = old.in
         \/ /\ new.op \in {"Constant", "Copy", "IntegerAdd"} /\ old.op \in {"IntegerAdd", "ObjectGet", "Call"}
            /\ new.in = old.in \/ \A v \in ToSet(new.in) : Usable(b, k, v) /\ v \notin Aliases(snap)

RefitBlock(snap, b, c) ==
  /\ c = Block(b.id, b.params, c.code, b.term)
  /\ DOMAIN c.code = DOMAIN b.code /\ \A k \in DOMAIN b.code : Refit(snap, b, k, c.code[k])

Refits(snap, other) ==
  /\ DOMAIN other = DOMAIN snap /\ \A x \in DOMAIN snap \ {"blocks"} : other[x] = snap[x]
  /\ DOMAIN other.blocks = DOMAIN snap.blocks
  /\ \A j \in DOMAIN snap.blocks : RefitBlock(snap, snap.blocks[j], other.blocks[j])

\* The parts of a verified body that the lemmas take one by one.
LEMMA RefitFields ==
  ASSUME NEW snap, IsBody(snap), NEW other, Refits(snap, other)
  PROVE  /\ other.exe = snap.exe /\ other.schema = snap.schema /\ other.deps = snap.deps
         /\ other.entry = snap.entry /\ other.deopts = snap.deopts /\ other.maps = snap.maps
         /\ {"exe", "schema", "deps", "entry", "blocks", "deopts", "maps"} \subseteq DOMAIN other
<1>1. {"exe", "schema", "deps", "entry", "blocks", "deopts", "maps"} \subseteq DOMAIN snap
  BY DEF IsBody
<1> QED BY <1>1 DEF Refits

LEMMA RefitBlockParts ==
  ASSUME NEW snap, NEW b, IsBlock(b), NEW c, RefitBlock(snap, b, c)
  PROVE  /\ c.id = b.id /\ c.params = b.params /\ c.term = b.term
         /\ DOMAIN c.code = DOMAIN b.code /\ Len(c.code) = Len(b.code) /\ Len(b.code) \in Nat
         /\ DOMAIN b.code = 1..Len(b.code)
         /\ IsBlock(c)
<1>1. c.id = b.id /\ c.params = b.params /\ c.term = b.term /\ c = Block(c.id, c.params, c.code, c.term)
  BY DEF RefitBlock, Block
<1>2. DOMAIN c.code = DOMAIN b.code /\ Len(b.code) \in Nat /\ DOMAIN b.code = 1..Len(b.code)
  BY DEF RefitBlock, IsBlock, IsVector
<1>3. Len(c.code) = Len(b.code)
  BY <1>2
<1>4. \A i \in ToSet(c.code) : IsInstruction(i)
  BY <1>2 DEF RefitBlock, Refit, ToSet
<1> QED BY <1>1, <1>2, <1>3, <1>4 DEF IsBlock, IsVector

LEMMA RefitIsBody ==
  ASSUME NEW snap, IsBody(snap), NEW other, Refits(snap, other)
  PROVE  IsBody(other) /\ Alike(snap, other)
<1>1. \A j \in DOMAIN snap.blocks : IsBlock(snap.blocks[j]) /\ RefitBlock(snap, snap.blocks[j], other.blocks[j])
  BY DEF IsBody, Refits, ToSet
<1>2. DOMAIN other.blocks = DOMAIN snap.blocks /\ Len(snap.blocks) \in Nat /\ DOMAIN snap.blocks = 1..Len(snap.blocks)
  BY DEF IsBody, Refits, IsVector
<1>3. \A b \in ToSet(other.blocks) : IsBlock(b)
  BY <1>1, <1>2, RefitBlockParts DEF ToSet
<1>4. IsVector(other.blocks)
  BY <1>2 DEF IsVector
<1>5. Alike(snap, other)
  BY <1>1, <1>2, RefitFields, RefitBlockParts DEF Alike
<1> QED BY <1>3, <1>4, <1>5, RefitFields DEF IsBody

\* Blocks of the two bodies go in pairs.
LEMMA RefitPairs ==
  ASSUME NEW snap, IsBody(snap), NEW other, Refits(snap, other), NEW c \in ToSet(other.blocks)
  PROVE  \E b \in ToSet(snap.blocks) : IsBlock(b) /\ RefitBlock(snap, b, c)
<1>1. PICK j \in DOMAIN other.blocks : c = other.blocks[j]
  BY DEF ToSet
<1>2. snap.blocks[j] \in ToSet(snap.blocks) /\ RefitBlock(snap, snap.blocks[j], c)
  BY <1>1 DEF Refits, ToSet
<1> QED BY <1>2 DEF IsBody

LEMMA RefitPairsBack ==
  ASSUME NEW snap, IsBody(snap), NEW other, Refits(snap, other), NEW b \in ToSet(snap.blocks)
  PROVE  IsBlock(b) /\ \E c \in ToSet(other.blocks) : RefitBlock(snap, b, c)
<1>1. PICK j \in DOMAIN snap.blocks : b = snap.blocks[j]
  BY DEF ToSet
<1>2. other.blocks[j] \in ToSet(other.blocks) /\ RefitBlock(snap, b, other.blocks[j])
  BY <1>1 DEF Refits, ToSet
<1> QED BY <1>2 DEF IsBody

\* The values and the ways between the blocks stay.
LEMMA RefitSites ==
  ASSUME NEW snap, IsBody(snap), NEW other, Refits(snap, other)
  PROVE  Sites(other) = Sites(snap)
<1> DEFINE Of(b) == {[id |-> b.params[k].id, ty |-> b.params[k].ty, block |-> b.id, pos |-> 0, nth |-> k] :
                       k \in DOMAIN b.params}
                    \cup {[id |-> b.code[k].out, ty |-> b.code[k].ty, block |-> b.id, pos |-> k, nth |-> k] :
                            k \in {j \in DOMAIN b.code : b.code[j].out # 0}}
<1>1. \A body1 : Sites(body1) = UNION {Of(b) : b \in ToSet(body1.blocks)}
  BY DEF Sites
<1>2. ASSUME NEW b, NEW c, IsBlock(b), RefitBlock(snap, b, c) PROVE Of(c) = Of(b)
  <2>1. c.id = b.id /\ c.params = b.params /\ DOMAIN c.code = DOMAIN b.code
    BY <1>2, RefitBlockParts
  <2>2. \A k \in DOMAIN b.code : c.code[k].out = b.code[k].out /\ c.code[k].ty = b.code[k].ty
    BY <1>2 DEF RefitBlock, Refit
  <2> QED BY <2>1, <2>2
<1> HIDE DEF Of
<1>3. ASSUME NEW s \in Sites(other) PROVE s \in Sites(snap)
  <2>1. PICK c \in ToSet(other.blocks) : s \in Of(c)
    BY <1>1
  <2>2. PICK b \in ToSet(snap.blocks) : IsBlock(b) /\ RefitBlock(snap, b, c)
    BY RefitPairs
  <2> QED BY <1>1, <1>2, <2>1, <2>2
<1>4. ASSUME NEW s \in Sites(snap) PROVE s \in Sites(other)
  <2>1. PICK b \in ToSet(snap.blocks) : s \in Of(b)
    BY <1>1
  <2>2. PICK c \in ToSet(other.blocks) : IsBlock(b) /\ RefitBlock(snap, b, c)
    BY RefitPairsBack
  <2> QED BY <1>1, <1>2, <2>1, <2>2
<1> QED BY <1>3, <1>4

LEMMA RefitWays ==
  ASSUME NEW snap, IsBody(snap), NEW other, Refits(snap, other)
  PROVE  /\ BlockIds(other) = BlockIds(snap) /\ Dominators(other) = Dominators(snap)
         /\ BlocksDistinct(snap) => BlocksDistinct(other)
         /\ TargetsExist(snap) => TargetsExist(other)
<1>1. Alike(snap, other)
  BY RefitIsBody
<1>2. BlockIds(other) = BlockIds(snap)
  BY <1>1 DEF BlockIds, ToSet, Alike
<1>3. \A id : Predecessors(other, id) = Predecessors(snap, id)
  BY <1>1 DEF Predecessors, ToSet, Alike
<1>4. \A S, d : (\A b \in ToSet(other.blocks) : b.id \in S => Targets(b.term) \subseteq S \cup {d})
                  <=> (\A b \in ToSet(snap.blocks) : b.id \in S => Targets(b.term) \subseteq S \cup {d})
  BY <1>1 DEF ToSet, Alike
<1>5. other.entry = snap.entry
  BY <1>1 DEF Alike
<1>6. \A d : ReachedWithout(other, d) = ReachedWithout(snap, d)
  <2> TAKE d
  <2> DEFINE roots(s) == {id \in BlockIds(s) : id = s.entry \/ Predecessors(s, id) = {}}
             Closed(s, S) == /\ roots(s) \ {d} \subseteq S
                             /\ \A b \in ToSet(s.blocks) : b.id \in S => Targets(b.term) \subseteq S \cup {d}
  <2>1. roots(other) = roots(snap)
    BY <1>2, <1>3, <1>5
  <2>2. \A S : Closed(other, S) <=> Closed(snap, S)
    <3> HIDE DEF roots
    <3> QED BY <1>4, <2>1, Zenon
  <2>3. ASSUME NEW s PROVE ReachedWithout(s, d) = {id \in BlockIds(s) : \A S \in SUBSET (BlockIds(s) \ {d}) : Closed(s, S) => id \in S}
    BY Zenon DEF ReachedWithout
  <2> HIDE DEF Closed
  <2> QED BY <1>2, <2>2, <2>3
<1>7. Dominators(other) = Dominators(snap)
  BY <1>2, <1>6 DEF Dominators
<1>8. BlocksDistinct(snap) => BlocksDistinct(other)
  BY <1>1 DEF BlocksDistinct, Alike
<1>9. TargetsExist(snap) => TargetsExist(other)
  BY <1>1, <1>2 DEF TargetsExist, ToSet, Alike
<1> QED BY <1>2, <1>7, <1>8, <1>9

LEMMA RefitParams ==
  ASSUME NEW snap, IsBody(snap), BlocksDistinct(snap), NEW other, Refits(snap, other), NEW id \in BlockIds(snap)
  PROVE  BlockAt(other, id).params = BlockAt(snap, id).params
<1> DEFINE b == BlockAt(snap, id)
           c == BlockAt(other, id)
<1>1. Alike(snap, other) /\ BlockIds(other) = BlockIds(snap)
  BY RefitIsBody, RefitWays
<1>2. b \in ToSet(snap.blocks) /\ b.id = id /\ c \in ToSet(other.blocks) /\ c.id = id
  BY <1>1 DEF BlockAt, BlockIds
<1> HIDE DEF b, c
<1>3. PICK j \in DOMAIN snap.blocks : b = snap.blocks[j]
  BY <1>2 DEF ToSet
<1>4. PICK i \in DOMAIN snap.blocks : c = other.blocks[i]
  BY <1>1, <1>2 DEF ToSet, Alike
<1>5. i = j
  BY <1>1, <1>2, <1>3, <1>4 DEF Alike, BlocksDistinct
<1> QED BY <1>1, <1>3, <1>4, <1>5 DEF Alike, b, c

-----------------------------------------------------------------------------
(* The blocks.                                                             *)

LEMMA RefitOrdered ==
  ASSUME NEW snap, NEW b, IsBlock(b), EffectsOrdered(b), NEW c, RefitBlock(snap, b, c)
  PROVE  EffectsOrdered(c)
<1>1. DOMAIN c.code = DOMAIN b.code
  BY RefitBlockParts
<1>2. \A k \in DOMAIN b.code : c.code[k].seq = b.code[k].seq /\ c.code[k].eff \in {b.code[k].eff, "Pure"}
  BY DEF RefitBlock, Refit
<1>3. \A k \in DOMAIN b.code : IsOrdered(c.code[k]) => IsOrdered(b.code[k])
  BY <1>2 DEF IsOrdered
<1> QED BY <1>1, <1>2, <1>3 DEF EffectsOrdered

\* A body that uses no borrowed view from a barrier on uses none that a barrier up to the use ends.
LEMMA UsedUsable ==
  ASSUME NEW b, IsBlock(b), BorrowsEnd(b), NEW k \in DOMAIN b.code, NEW v \in ToSet(b.code[k].in)
  PROVE  Usable(b, k, v)
<1> SUFFICES ASSUME NEW j \in DOMAIN b.code, j <= k, IsBarrier(b.code[j]), v \in Borrowed(b, j) PROVE FALSE
  BY DEF Usable
<1>1. k \in j..Len(b.code)
  BY DEF IsBlock, IsVector
<1>2. ~Contains(b.code[k].in, v)
  BY <1>1 DEF BorrowsEnd, Borrowed
<1>3. Contains(b.code[k].in, v)
  <2>1. IsVector(b.code[k].in)
    BY DEF IsBlock, IsInstruction, ToSet
  <2> QED BY <2>1 DEF Contains, ToSet, IsVector
<1> QED BY <1>2, <1>3

LEMMA RefitUsable ==
  ASSUME NEW snap, NEW b, IsBlock(b), BorrowsEnd(b), NEW c, RefitBlock(snap, b, c), NEW k \in DOMAIN b.code,
         NEW v \in ToSet(c.code[k].in)
  PROVE  Usable(b, k, v)
<1>1. Refit(snap, b, k, c.code[k])
  BY DEF RefitBlock
<1>2. c.code[k].in = b.code[k].in \/ Usable(b, k, v)
  BY <1>1 DEF Refit
<1> QED BY <1>2, UsedUsable

LEMMA RefitBorrows ==
  ASSUME NEW snap, NEW b, IsBlock(b), BorrowsEnd(b), NEW c, RefitBlock(snap, b, c)
  PROVE  BorrowsEnd(c)
<1>1. /\ c.params = b.params /\ c.term = b.term /\ DOMAIN c.code = DOMAIN b.code /\ Len(c.code) = Len(b.code)
      /\ DOMAIN b.code = 1..Len(b.code) /\ Len(b.code) \in Nat
  BY RefitBlockParts
<1>2. \A k \in DOMAIN b.code : /\ c.code[k].out = b.code[k].out /\ c.code[k].ty = b.code[k].ty
                               /\ IsBarrier(c.code[k]) => IsBarrier(b.code[k])
  BY DEF RefitBlock, Refit, IsBarrier, Barriers
<1>3. ASSUME NEW barrier \in DOMAIN b.code PROVE Borrowed(c, barrier) = Borrowed(b, barrier)
  <2>1. 1..(barrier - 1) \subseteq DOMAIN b.code
    BY <1>1
  <2> QED BY <1>1, <1>2, <2>1 DEF Borrowed
<1>4. ASSUME NEW barrier \in DOMAIN c.code, IsBarrier(c.code[barrier]), NEW v \in Borrowed(c, barrier)
      PROVE  /\ \A k \in barrier..Len(c.code) : ~Contains(c.code[k].in, v)
             /\ ~Contains(TerminatorValues(c.term), v)
  <2>1. barrier \in DOMAIN b.code /\ IsBarrier(b.code[barrier]) /\ v \in Borrowed(b, barrier)
    BY <1>1, <1>2, <1>3, <1>4
  <2>2. ~Contains(TerminatorValues(c.term), v)
    BY <1>1, <2>1 DEF BorrowsEnd, Borrowed
  <2>3. ASSUME NEW k \in barrier..Len(c.code), Contains(c.code[k].in, v) PROVE FALSE
    <3>1. k \in DOMAIN b.code /\ barrier <= k
      BY <1>1, <2>1
    <3>2. IsVector(c.code[k].in)
      BY <3>1 DEF RefitBlock, Refit, IsInstruction
    <3>3. v \in ToSet(c.code[k].in)
      BY <2>3, <3>2 DEF Contains, ToSet, IsVector
    <3>4. Usable(b, k, v)
      BY <3>1, <3>3, RefitUsable
    <3> QED BY <2>1, <3>1, <3>4 DEF Usable
  <2> QED BY <2>2, <2>3
<1> QED BY <1>4 DEF BorrowsEnd, Borrowed

LEMMA RefitHolds ==
  ASSUME NEW snap, IsBody(snap), BlocksDistinct(snap), TargetsExist(snap), NEW other, Refits(snap, other),
         NEW b \in ToSet(snap.blocks), IsBlock(b), NEW sites, NEW dom, NEW types,
         sites = Sites(snap), dom = Dominators(snap), types = ValueTypes(snap),
         BlockHolds(snap, b, sites, dom, types),
         NEW c, RefitBlock(snap, b, c)
  PROVE  BlockHolds(other, c, sites, dom, types)
<1>1. /\ c.id = b.id /\ c.params = b.params /\ c.term = b.term /\ DOMAIN c.code = DOMAIN b.code
      /\ Len(c.code) = Len(b.code)
  BY RefitBlockParts
<1>2. ASSUME NEW k \in DOMAIN c.code
      PROVE  /\ \A v \in ToSet(c.code[k].in) : MayUse(sites, dom, v, c.id, k)
             /\ WellTyped(c.code[k], types)
             /\ IsBarrier(c.code[k]) => c.code[k].point # 0
  <2>1. Refit(snap, b, k, c.code[k])
    BY <1>1 DEF RefitBlock
  <2>2. IsBarrier(b.code[k]) => b.code[k].point # 0
    BY <1>1 DEF BlockHolds
  <2> QED BY <1>1, <2>1, <2>2 DEF Refit, IsBarrier, Barriers
<1>3. EffectsOrdered(c) /\ BorrowsEnd(c)
  BY RefitOrdered, RefitBorrows DEF BlockHolds
<1>4. \A v \in ToSet(TerminatorValues(c.term)) : MayUse(sites, dom, v, c.id, Len(c.code) + 1)
  BY <1>1 DEF BlockHolds
<1>5. ArgumentsMatch(other, c, types)
  <2>1. ArgumentsMatch(snap, b, types)
    BY DEF BlockHolds
  <2>2. \A id \in Targets(b.term) : BlockAt(other, id).params = BlockAt(snap, id).params
    BY RefitParams DEF TargetsExist
  <2>3. PICK t : t = b.term
    OBVIOUS
  <2>4. CASE t.kind = "Jump"
    <3>1. BlockAt(other, t.target).params = BlockAt(snap, t.target).params
      BY <2>2, <2>3, <2>4 DEF Targets
    <3> QED BY <1>1, <2>1, <2>3, <2>4, <3>1 DEF ArgumentsMatch
  <2>5. CASE t.kind = "Branch"
    <3>1. /\ BlockAt(other, t.yes).params = BlockAt(snap, t.yes).params
          /\ BlockAt(other, t.no).params = BlockAt(snap, t.no).params
      BY <2>2, <2>3, <2>5 DEF Targets
    <3> QED BY <1>1, <2>1, <2>3, <2>5, <3>1 DEF ArgumentsMatch
  <2>6. CASE t.kind \notin {"Jump", "Branch"}
    BY <1>1, <2>3, <2>6 DEF ArgumentsMatch
  <2> QED BY <2>4, <2>5, <2>6
<1> QED BY <1>2, <1>3, <1>4, <1>5 DEF BlockHolds

-----------------------------------------------------------------------------
(* What is said of all the instructions of a body.                         *)

\* Each instruction stands in the place of one.
LEMMA RefitInstruction ==
  ASSUME NEW snap, IsBody(snap), NEW other, Refits(snap, other), NEW new \in Instructions(other)
  PROVE  \E b \in ToSet(snap.blocks) : \E k \in DOMAIN b.code :
           b.code[k] \in Instructions(snap) /\ IsInstruction(b.code[k]) /\ Refit(snap, b, k, new)
<1>1. PICK c \in ToSet(other.blocks) : new \in ToSet(c.code)
  BY DEF Instructions
<1>2. PICK b \in ToSet(snap.blocks) : IsBlock(b) /\ RefitBlock(snap, b, c)
  BY RefitPairs
<1>3. PICK k \in DOMAIN c.code : new = c.code[k]
  BY <1>1 DEF ToSet
<1>4. k \in DOMAIN b.code /\ Refit(snap, b, k, new)
  BY <1>2, <1>3 DEF RefitBlock
<1>5. b.code[k] \in Instructions(snap) /\ IsInstruction(b.code[k])
  BY <1>2, <1>4 DEF Instructions, ToSet, IsBlock
<1> QED BY <1>4, <1>5

\* And each is replaced by one.
LEMMA RefitInstructionBack ==
  ASSUME NEW snap, IsBody(snap), NEW other, Refits(snap, other), NEW old \in Instructions(snap)
  PROVE  \E b \in ToSet(snap.blocks) : \E k \in DOMAIN b.code : \E new \in Instructions(other) :
           b.code[k] = old /\ Refit(snap, b, k, new)
<1>1. PICK b \in ToSet(snap.blocks) : old \in ToSet(b.code)
  BY DEF Instructions
<1>2. PICK c \in ToSet(other.blocks) : RefitBlock(snap, b, c)
  BY RefitPairsBack
<1>3. PICK k \in DOMAIN b.code : old = b.code[k]
  BY <1>1 DEF ToSet
<1>4. c.code[k] \in Instructions(other) /\ Refit(snap, b, k, c.code[k])
  BY <1>2, <1>3 DEF RefitBlock, Instructions, ToSet
<1> QED BY <1>3, <1>4

LEMMA RefitRequired ==
  ASSUME NEW snap, IsBody(snap), NEW other, Refits(snap, other)
  PROVE  Required(other) \subseteq Required(snap)
<1> DEFINE ops(s) == {i.op : i \in Instructions(s)}
<1>1. ops(other) \subseteq ops(snap) \cup {"Constant", "Copy", "IntegerAdd"}
  BY RefitInstruction DEF Refit
<1>2. ASSUME NEW s
      PROVE  Required(s) = {"Executable", "Schema", "GcAbi", "HelperAbi"}
        \cup (IF ops(s) \cap {"ObjectGet", "ObjectSet"} # {} THEN {"Shape", "Class"} ELSE {})
        \cup (IF ops(s) \cap (ListOps \cup {"OwnedList"}) # {} THEN {"ListLayout"} ELSE {})
        \cup (IF "Call" \in ops(s) THEN {"Callee"} ELSE {})
  BY DEF Required
<1> HIDE DEF ops
<1> QED BY <1>1, <1>2 DEF ListOps

LEMMA RefitDependencies ==
  ASSUME NEW snap, IsBody(snap), DependenciesHold(snap), NEW other, Refits(snap, other)
  PROVE  DependenciesHold(other)
BY RefitFields, RefitRequired DEF DependenciesHold, Kinds

LEMMA RefitExits ==
  ASSUME NEW snap, IsBody(snap), ExitsCovered(snap), NEW other, Refits(snap, other)
  PROVE  ExitsCovered(other)
<1> DEFINE ids == {r.id : r \in ToSet(snap.deopts)}
           points == {r.point : r \in ToSet(snap.deopts)}
<1>1. other.deopts = snap.deopts
  BY RefitFields
<1>2. ASSUME NEW new \in Instructions(other)
      PROVE  /\ new.op = "Guard" => new.arg[2] \in ids
             /\ new.op = "BranchGuard" => new.arg[3] \in ids
             /\ new.point # 0 => new.point \in points
  <2>1. PICK b \in ToSet(snap.blocks) : \E k \in DOMAIN b.code :
           b.code[k] \in Instructions(snap) /\ Refit(snap, b, k, new)
    BY RefitInstruction
  <2>2. PICK k \in DOMAIN b.code : b.code[k] \in Instructions(snap) /\ Refit(snap, b, k, new)
    BY <2>1
  <2>3. PICK old \in Instructions(snap) : old = b.code[k]
    BY <2>2
  <2>4. new.point = old.point /\ (new.op \in {"Guard", "BranchGuard"} => new.op = old.op /\ new.arg = old.arg)
    BY <2>2, <2>3 DEF Refit
  <2> QED BY <2>4 DEF ExitsCovered
<1>3. ASSUME NEW c \in ToSet(other.blocks)
      PROVE  /\ c.term.kind = "SideExit" => c.term.id \in ids
             /\ c.term.kind = "Backedge" => c.term.point \in points
  <2>1. PICK b \in ToSet(snap.blocks) : c.term = b.term
    BY RefitPairs, RefitBlockParts
  <2> QED BY <2>1 DEF ExitsCovered
<1>4. Cardinality(ids) = Len(snap.deopts)
  BY DEF ExitsCovered
<1> QED BY <1>1, <1>2, <1>3, <1>4 DEF ExitsCovered

LEMMA RefitRoots ==
  ASSUME NEW snap, IsBody(snap), NEW other, Refits(snap, other), NEW recipe, NEW types
  PROVE  ExpectedRoots(other, recipe, types) = ExpectedRoots(snap, recipe, types)
<1> DEFINE Lists(s) == {<<"OwnedList", i.arg[2]>> : i \in {j \in Instructions(s) : j.op = "OwnedList"}}
<1>1. Lists(other) \subseteq Lists(snap)
  BY RefitInstruction DEF Refit
<1>2. Lists(snap) \subseteq Lists(other)
  BY RefitInstructionBack DEF Refit
<1>3. Lists(other) = Lists(snap)
  BY <1>1, <1>2
<1> QED BY <1>3, Zenon DEF ExpectedRoots

-----------------------------------------------------------------------------
(* Owned lists.                                                            *)

LEMMA RefitOwned ==
  ASSUME NEW snap, IsBody(snap), NEW other, Refits(snap, other)
  PROVE  /\ OwnedDefinitions(other) = OwnedDefinitions(snap)
         /\ \A p \in OwnedDefinitions(snap) :
              /\ p[1] \in DOMAIN snap.blocks /\ p[2] \in DOMAIN snap.blocks[p[1]].code
              /\ other.blocks[p[1]].code[p[2]].out = snap.blocks[p[1]].code[p[2]].out
<1> DEFINE Makes(s, j) == {k \in DOMAIN s.blocks[j].code :
                             /\ s.blocks[j].code[k].op = "OwnedList" /\ s.blocks[j].code[k].out # 0}
<1>1. ASSUME NEW s PROVE OwnedDefinitions(s) = UNION {{<<j, k>> : k \in Makes(s, j)} : j \in DOMAIN s.blocks}
  BY DEF OwnedDefinitions
<1>2. ASSUME NEW j \in DOMAIN snap.blocks
      PROVE  /\ DOMAIN other.blocks[j].code = DOMAIN snap.blocks[j].code
             /\ \A k \in DOMAIN snap.blocks[j].code : Refit(snap, snap.blocks[j], k, other.blocks[j].code[k])
  BY DEF Refits, RefitBlock
<1>3. ASSUME NEW j \in DOMAIN snap.blocks PROVE Makes(other, j) = Makes(snap, j)
  <2>1. ASSUME NEW k \in DOMAIN snap.blocks[j].code
        PROVE  /\ other.blocks[j].code[k].out = snap.blocks[j].code[k].out
               /\ other.blocks[j].code[k].op = "OwnedList" <=> snap.blocks[j].code[k].op = "OwnedList"
    <3>1. PICK new : new = other.blocks[j].code[k]
      OBVIOUS
    <3>2. Refit(snap, snap.blocks[j], k, new)
      BY <1>2, <3>1
    <3>3. /\ new.out = snap.blocks[j].code[k].out
          /\ new.op = "OwnedList" <=> snap.blocks[j].code[k].op = "OwnedList"
      BY <3>2 DEF Refit
    <3> QED BY <3>1, <3>3
  <2> QED BY <1>2, <2>1
<1>4. DOMAIN other.blocks = DOMAIN snap.blocks
  BY DEF Refits
<1>5. ASSUME NEW p \in OwnedDefinitions(snap)
      PROVE  /\ p[1] \in DOMAIN snap.blocks /\ p[2] \in DOMAIN snap.blocks[p[1]].code
             /\ other.blocks[p[1]].code[p[2]].out = snap.blocks[p[1]].code[p[2]].out
  <2>1. p[1] \in DOMAIN snap.blocks /\ p[2] \in DOMAIN snap.blocks[p[1]].code
    BY <1>1
  <2> QED BY <1>2, <2>1 DEF Refit
<1> HIDE DEF Makes
<1>6. OwnedDefinitions(other) = OwnedDefinitions(snap)
  BY <1>1, <1>3, <1>4
<1> QED BY <1>5, <1>6

\* The first of a set of places, when there is one.
IsPlace(p) == p = <<p[1], p[2]>> /\ p[1] \in Nat /\ p[2] \in Nat

LEMMA LeastNumber ==
  ASSUME NEW S, S \subseteq Nat, S # {}
  PROVE  \E x \in S : \A y \in S : x <= y
<1>1. PICK x \in S : \A y \in S : <<y, x>> \notin OpToRel(<, Nat)
  <2>1. IsWellFoundedOn(OpToRel(<, Nat), Nat)
    BY NatLessThanWellFounded
  <2> QED BY <2>1, WFMin
<1>2. \A y \in S : ~(y < x)
  BY <1>1 DEF OpToRel
<1> QED BY <1>2

LEMMA FirstPlace ==
  ASSUME NEW places, places # {}, \A p \in places : IsPlace(p)
  PROVE  \E p \in places : \A q \in places : p[1] < q[1] \/ (p[1] = q[1] /\ p[2] <= q[2])
<1>1. PICK x \in {p[1] : p \in places} : \A y \in {p[1] : p \in places} : x <= y
  <2>1. {p[1] : p \in places} \subseteq Nat /\ {p[1] : p \in places} # {}
    BY DEF IsPlace
  <2> QED BY <2>1, LeastNumber
<1>2. PICK k \in {p[2] : p \in {q \in places : q[1] = x}} : \A y \in {p[2] : p \in {q \in places : q[1] = x}} : k <= y
  <2>1. {p[2] : p \in {q \in places : q[1] = x}} \subseteq Nat /\ {p[2] : p \in {q \in places : q[1] = x}} # {}
    BY <1>1 DEF IsPlace
  <2> QED BY <2>1, LeastNumber
<1>3. PICK p \in places : p[1] = x /\ p[2] = k
  BY <1>2
<1>4. ASSUME NEW q \in places PROVE p[1] < q[1] \/ (p[1] = q[1] /\ p[2] <= q[2])
  <2>1. x <= q[1] /\ x \in Nat /\ q[1] \in Nat
    BY <1>1 DEF IsPlace
  <2>2. q[1] = x => k <= q[2]
    BY <1>2
  <2> QED BY <1>3, <2>1, <2>2
<1> QED BY <1>3, <1>4

LEMMA RefitFirst ==
  ASSUME NEW snap, IsBody(snap), NEW other, Refits(snap, other), OwnedDefinitions(snap) # {}
  PROVE  FirstOutput(other, OwnedDefinitions(other)) = FirstOutput(snap, OwnedDefinitions(snap))
<1> DEFINE places == OwnedDefinitions(snap)
           first == CHOOSE p \in places : \A q \in places : p[1] < q[1] \/ (p[1] = q[1] /\ p[2] <= q[2])
<1>1. \A p \in places : IsPlace(p)
  <2> SUFFICES ASSUME NEW p \in places PROVE IsPlace(p)
    OBVIOUS
  <2>1. p[1] \in DOMAIN snap.blocks /\ p[2] \in DOMAIN snap.blocks[p[1]].code /\ p = <<p[1], p[2]>>
    BY DEF OwnedDefinitions
  <2>2. DOMAIN snap.blocks \subseteq Nat
    BY DEF IsBody, IsVector
  <2>3. IsBlock(snap.blocks[p[1]])
    BY <2>1 DEF IsBody, ToSet
  <2>4. DOMAIN snap.blocks[p[1]].code \subseteq Nat
    BY <2>3 DEF IsBlock, IsVector
  <2> QED BY <2>1, <2>2, <2>4 DEF IsPlace
<1>2. first \in places
  <2> HIDE DEF places
  <2> QED BY <1>1, FirstPlace DEF places
<1>3. OwnedDefinitions(other) = places
  BY RefitOwned
<1>4. /\ FirstOutput(other, OwnedDefinitions(other)) = other.blocks[first[1]].code[first[2]].out
      /\ FirstOutput(snap, places) = snap.blocks[first[1]].code[first[2]].out
  BY <1>3 DEF FirstOutput
<1> HIDE DEF first
<1> QED BY <1>2, <1>4, RefitOwned

\* What is made of an owned list is found again.
AliasesOf(snap) == {i \in Instructions(snap) : i.op \in AliasOps /\ i.in # <<>> /\ i.out # 0}

LEMMA AliasesClosed ==
  ASSUME NEW snap, NEW first, NEW i \in AliasesOf(snap), i.in[1] \in OwnedAliases(snap, first)
  PROVE  i.out \in OwnedAliases(snap, first)
BY DEF OwnedAliases, AliasesOf

LEMMA AliasesLeast ==
  ASSUME NEW snap, NEW first, NEW S, first \in S, \A i \in AliasesOf(snap) : i.in[1] \in S => i.out \in S
  PROVE  OwnedAliases(snap, first) \subseteq S
<1> DEFINE ids == {first} \cup {i.out : i \in AliasesOf(snap)}
<1>1. S \cap ids \in SUBSET ids /\ first \in S \cap ids
      /\ \A i \in AliasesOf(snap) : i.in[1] \in S \cap ids => i.out \in S \cap ids
  OBVIOUS
<1> QED BY <1>1 DEF OwnedAliases, AliasesOf

LEMMA FirstIsAlias ==
  ASSUME NEW snap, NEW first PROVE first \in OwnedAliases(snap, first)
BY DEF OwnedAliases

LEMMA RefitAliases ==
  ASSUME NEW snap, IsBody(snap), NEW other, Refits(snap, other), OwnedListsHold(snap), OwnedDefinitions(snap) # {}
  PROVE  /\ Aliases(other) \subseteq Aliases(snap)
         /\ \A new \in Instructions(other) :
              /\ new.eff \notin {"Allocation", "Helper", "Call"}
              /\ \A k \in DOMAIN new.in : new.in[k] \in Aliases(snap) => k = 1 /\ new.op \in ListOps \cup {"Copy"}
<1> DEFINE first == FirstOutput(snap, OwnedDefinitions(snap))
<1>1. Aliases(snap) = OwnedAliases(snap, first) /\ Aliases(other) = OwnedAliases(other, first)
  BY RefitOwned, RefitFirst DEF Aliases
<1>2. ASSUME NEW old \in Instructions(snap)
      PROVE  /\ old.eff \notin {"Allocation", "Helper", "Call"}
             /\ \A k \in DOMAIN old.in : old.in[k] \in Aliases(snap) => k = 1 /\ old.op \in ListOps \cup {"Copy"}
  BY <1>1 DEF OwnedListsHold
<1> HIDE DEF first
<1>3. ASSUME NEW new \in Instructions(other)
      PROVE  \E old \in Instructions(snap) :
               /\ new.eff \in {old.eff, "Pure"} /\ new.out = old.out
               /\ \/ new.op = old.op /\ new.in = old.in
                  \/ \A k \in DOMAIN new.in : new.in[k] \notin Aliases(snap)
  <2>1. PICK b \in ToSet(snap.blocks) : \E k \in DOMAIN b.code :
           b.code[k] \in Instructions(snap) /\ Refit(snap, b, k, new)
    BY RefitInstruction
  <2>2. PICK k \in DOMAIN b.code : b.code[k] \in Instructions(snap) /\ Refit(snap, b, k, new)
    BY <2>1
  <2>3. PICK old \in Instructions(snap) : old = b.code[k]
    BY <2>2
  <2>4. new.eff \in {old.eff, "Pure"} /\ new.out = old.out
    BY <2>2, <2>3 DEF Refit
  <2>5. CASE new.op = old.op /\ new.in = old.in
    BY <2>4, <2>5
  <2>6. CASE old.op \in {"IntegerAdd", "ObjectGet", "Call"} /\ new.in = old.in
    <3>1. old.op \notin ListOps \cup {"Copy"}
      BY <2>6 DEF ListOps
    <3> QED BY <1>2, <2>4, <2>6, <3>1
  <2>7. CASE \A v \in ToSet(new.in) : v \notin Aliases(snap)
    BY <2>4, <2>7 DEF ToSet
  <2> QED BY <2>2, <2>3, <2>5, <2>6, <2>7 DEF Refit
<1>4. ASSUME NEW new \in AliasesOf(other), new.in[1] \in Aliases(snap) PROVE new.out \in Aliases(snap)
  <2>1. new \in Instructions(other) /\ new.op \in AliasOps /\ new.in # <<>> /\ new.out # 0
    BY DEF AliasesOf
  <2>2. 1 \in DOMAIN new.in
    <3>1. IsInstruction(new)
      BY <2>1, RefitInstruction DEF Refit
    <3> QED BY <2>1, <3>1 DEF IsInstruction, IsVector
  <2>3. PICK old \in Instructions(snap) : new.out = old.out /\ new.op = old.op /\ new.in = old.in
    BY <1>3, <1>4, <2>1, <2>2
  <2>4. old \in AliasesOf(snap) /\ old.in[1] \in OwnedAliases(snap, first)
    BY <1>1, <1>4, <2>1, <2>3 DEF AliasesOf
  <2> QED BY <1>1, <2>3, <2>4, AliasesClosed
<1>5. first \in Aliases(snap)
  BY <1>1, FirstIsAlias
<1>6. Aliases(other) \subseteq Aliases(snap)
  BY <1>1, <1>4, <1>5, AliasesLeast
<1>7. ASSUME NEW new \in Instructions(other)
      PROVE  /\ new.eff \notin {"Allocation", "Helper", "Call"}
             /\ \A k \in DOMAIN new.in : new.in[k] \in Aliases(snap) => k = 1 /\ new.op \in ListOps \cup {"Copy"}
  <2>1. PICK old \in Instructions(snap) :
               /\ new.eff \in {old.eff, "Pure"} /\ new.out = old.out
               /\ \/ new.op = old.op /\ new.in = old.in
                  \/ \A k \in DOMAIN new.in : new.in[k] \notin Aliases(snap)
    BY <1>3
  <2> QED BY <1>2, <2>1
<1> QED BY <1>6, <1>7

LEMMA RefitLists ==
  ASSUME NEW snap, IsBody(snap), OwnedListsHold(snap), NEW other, Refits(snap, other)
  PROVE  OwnedListsHold(other)
<1>1. OwnedDefinitions(other) = OwnedDefinitions(snap)
  BY RefitOwned
<1> SUFFICES ASSUME OwnedDefinitions(snap) # {} PROVE OwnedListsHold(other)
  BY <1>1 DEF OwnedListsHold
<1>2. /\ Aliases(snap) = OwnedAliases(snap, FirstOutput(snap, OwnedDefinitions(snap)))
      /\ Aliases(other) = OwnedAliases(other, FirstOutput(other, OwnedDefinitions(other)))
  BY <1>1 DEF Aliases
<1>3. Cardinality(OwnedDefinitions(other)) <= 2
  BY <1>1 DEF OwnedListsHold
<1>4. ASSUME NEW c \in ToSet(other.blocks), c.term.kind # "Jump"
      PROVE  ToSet(TerminatorValues(c.term)) \cap Aliases(other) = {}
  <2>1. PICK b \in ToSet(snap.blocks) : c.term = b.term
    BY RefitPairs, RefitBlockParts
  <2>2. ToSet(TerminatorValues(b.term)) \cap Aliases(snap) = {}
    BY <1>2, <1>4, <2>1 DEF OwnedListsHold
  <2> QED BY <2>1, <2>2, RefitAliases
<1>5. ASSUME NEW new \in Instructions(other)
      PROVE  /\ new.eff \notin {"Allocation", "Helper", "Call"}
             /\ \A k \in DOMAIN new.in : new.in[k] \in Aliases(other) => k = 1 /\ new.op \in ListOps \cup {"Copy"}
  BY RefitAliases
<1> QED BY <1>2, <1>3, <1>4, <1>5 DEF OwnedListsHold

\* A body whose instructions were replaced by ones that fit is verified if it was.
LEMMA RefitVerified ==
  ASSUME NEW snap, Verified(snap), NEW other, Refits(snap, other)
  PROVE  Verified(other)
<1>1. IsBody(snap) /\ BlocksDistinct(snap) /\ TargetsExist(snap) /\ DefinedOnce(snap)
  BY DEF Verified
<1>2. IsBody(other) /\ DependenciesHold(other)
  BY <1>1, RefitIsBody, RefitDependencies DEF Verified
<1>3. /\ other.deopts = snap.deopts /\ other.maps = snap.maps /\ other.entry = snap.entry
      /\ other.exe = snap.exe /\ other.deps = snap.deps
  BY <1>1, RefitFields
<1>4. other.blocks # <<>>
  <2>1. DOMAIN other.blocks = DOMAIN snap.blocks
    BY DEF Refits
  <2>2. DOMAIN snap.blocks # {}
    <3>1. snap.entry \in BlockIds(snap)
      BY DEF Verified
    <3> QED BY <3>1 DEF BlockIds, ToSet
  <2> QED BY <2>1, <2>2
<1>5. BlocksDistinct(other) /\ other.entry \in BlockIds(other) /\ TargetsExist(other)
  BY <1>1, <1>3, RefitWays DEF Verified
<1>6. Sites(other) = Sites(snap) /\ ValueTypes(other) = ValueTypes(snap) /\ Dominators(other) = Dominators(snap)
  <2>1. Sites(other) = Sites(snap) /\ Dominators(other) = Dominators(snap)
    BY <1>1, RefitSites, RefitWays
  <2>2. ValueTypes(other) = ValueTypes(snap)
    <3> DEFINE T(sites) == [v \in {s.id : s \in sites} |-> (CHOOSE s \in sites : s.id = v).ty]
    <3>1. ValueTypes(other) = T(Sites(other)) /\ ValueTypes(snap) = T(Sites(snap))
      BY DEF ValueTypes
    <3> HIDE DEF T
    <3> QED BY <2>1, <3>1
  <2> QED BY <2>1, <2>2
<1>7. DefinedOnce(other)
  BY <1>1, <1>6 DEF DefinedOnce
<1>8. ASSUME NEW c \in ToSet(other.blocks)
      PROVE  BlockHolds(other, c, Sites(other), Dominators(other), ValueTypes(other))
  <2>1. PICK b \in ToSet(snap.blocks) : IsBlock(b) /\ RefitBlock(snap, b, c)
    BY <1>1, RefitPairs
  <2>2. PICK sites, dom, types : sites = Sites(snap) /\ dom = Dominators(snap) /\ types = ValueTypes(snap)
    OBVIOUS
  <2>3. BlockHolds(snap, b, sites, dom, types)
    BY <2>2 DEF Verified
  <2>4. BlockHolds(other, c, sites, dom, types)
    BY <1>1, <2>1, <2>2, <2>3, RefitHolds
  <2> QED BY <1>6, <2>2, <2>4
<1>9. OwnedListsHold(other)
  BY <1>1, RefitLists DEF Verified
<1>10. ASSUME NEW r \in ToSet(other.deopts) PROVE RecipeHolds(other, r, ValueTypes(other))
  <2>1. RecipeHolds(snap, r, ValueTypes(snap))
    BY <1>3 DEF Verified
  <2> QED BY <1>3, <1>6, <2>1 DEF RecipeHolds
<1>11. ExitsCovered(other)
  BY <1>1, RefitExits DEF Verified
<1>12. RootMapsHold(other, ValueTypes(other))
  <2>1. RootMapsHold(snap, ValueTypes(snap))
    BY DEF Verified
  <2>2. \A r, types : ExpectedRoots(other, r, types) = ExpectedRoots(snap, r, types)
    BY <1>1, RefitRoots
  <2>3. PICK types : types = ValueTypes(snap)
    OBVIOUS
  <2>4. PICK deopts : deopts = snap.deopts
    OBVIOUS
  <2>5. PICK maps : maps = snap.maps
    OBVIOUS
  <2>6. RootMapsHold(snap, types)
    BY <2>1, <2>3
  <2>7. \A r \in ToSet(deopts) :
          /\ \A m \in ToSet(maps) : m.point = r.point => m.roots = ExpectedRoots(other, r, types)
          /\ r.point \in {m.point : m \in ToSet(maps)}
          /\ \A q \in FrameRegisters(r) : q.source[1] = "Spill" => q.source[3] = q.ty
    BY <2>2, <2>4, <2>5, <2>6 DEF RootMapsHold
  <2>8. /\ Cardinality({m.point : m \in ToSet(maps)}) = Len(maps)
        /\ {m.point : m \in ToSet(maps)} \subseteq {r.point : r \in ToSet(deopts)}
    BY <2>4, <2>5, <2>6 DEF RootMapsHold
  <2>9. other.deopts = deopts /\ other.maps = maps
    BY <1>3, <2>4, <2>5
  <2>10. RootMapsHold(other, types)
    BY <2>7, <2>8, <2>9 DEF RootMapsHold
  <2> QED BY <1>6, <2>3, <2>10
<1> QED BY <1>2, <1>4, <1>5, <1>7, <1>8, <1>9, <1>10, <1>11, <1>12 DEF Verified

-----------------------------------------------------------------------------
(* What the passes put in the place of an instruction fits.                *)

\* The checks of a type look at the operation, its immediate, its effect and the types.
LEMMA TypedAlike ==
  ASSUME NEW old, NEW new, NEW types, WellTyped(old, types),
         new.op = old.op, new.arg = old.arg, new.in = old.in, new.ty = old.ty, new.eff = old.eff
  PROVE  WellTyped(new, types)
BY DEF WellTyped

LEMMA TypedConstant ==
  ASSUME NEW new, NEW types, new.op = "Constant", new.in = <<>>, new.ty # "None"
  PROVE  WellTyped(new, types)
<1>1. WellTyped(new, types) <=> [k \in DOMAIN new.in |-> types[new.in[k]]] = <<>> /\ new.ty # "None"
  BY DEF WellTyped, HeapOps, ListOps, ArithmeticTyped
<1>2. [k \in DOMAIN new.in |-> types[new.in[k]]] = <<>>
  OBVIOUS
<1> QED BY <1>1, <1>2

LEMMA TypedCopy ==
  ASSUME NEW new, NEW types, NEW v, new.op = "Copy", new.in = <<v>>, types[v] = new.ty
  PROVE  WellTyped(new, types)
<1>1. WellTyped(new, types) <=> [k \in DOMAIN new.in |-> types[new.in[k]]] = <<new.ty>>
  BY DEF WellTyped, HeapOps, ListOps, ArithmeticTyped
<1>2. [k \in DOMAIN new.in |-> types[new.in[k]]] = <<new.ty>>
  OBVIOUS
<1> QED BY <1>1, <1>2

LEMMA TypedAdd ==
  ASSUME NEW instr, NEW types, instr.op = "IntegerAdd"
  PROVE  WellTyped(instr, types)
           <=> [k \in DOMAIN instr.in |-> types[instr.in[k]]] = <<"I64", "I64">> /\ instr.ty = "I64"
BY DEF WellTyped, HeapOps, ListOps, ArithmeticTyped

\* What a verified body says of each of its instructions.
LEMMA VerifiedInstruction ==
  ASSUME NEW snap, Verified(snap), NEW b \in ToSet(snap.blocks), NEW k \in DOMAIN b.code
  PROVE  /\ IsInstruction(b.code[k])
         /\ \A v \in ToSet(b.code[k].in) : MayUse(Sites(snap), Dominators(snap), v, b.id, k)
         /\ WellTyped(b.code[k], ValueTypes(snap))
<1>1. IsInstruction(b.code[k])
  BY CodeOfBody
<1>2. BlockHolds(snap, b, Sites(snap), Dominators(snap), ValueTypes(snap))
  BY DEF Verified
<1> QED BY <1>1, <1>2 DEF BlockHolds

\* The same instruction, in or out of its wrapping.
LEMMA FitsSame ==
  ASSUME NEW snap, Verified(snap), NEW b \in ToSet(snap.blocks), NEW k \in DOMAIN b.code,
         NEW new, new = b.code[k] \/ new = [b.code[k] EXCEPT !.at = FALSE]
  PROVE  Refit(snap, b, k, new)
<1>1. PICK old : old = b.code[k]
  OBVIOUS
<1>2. /\ IsInstruction(old) /\ WellTyped(old, ValueTypes(snap))
      /\ \A v \in ToSet(old.in) : MayUse(Sites(snap), Dominators(snap), v, b.id, k)
  BY <1>1, VerifiedInstruction
<1>3. /\ IsInstruction(new)
      /\ new.op = old.op /\ new.arg = old.arg /\ new.in = old.in /\ new.out = old.out /\ new.ty = old.ty
      /\ new.eff = old.eff /\ new.seq = old.seq /\ new.point = old.point
  BY <1>1, <1>2 DEF IsInstruction
<1>4. WellTyped(new, ValueTypes(snap))
  BY <1>2, <1>3, TypedAlike
<1> QED BY <1>1, <1>2, <1>3, <1>4 DEF Refit

LEMMA RecodedRefits ==
  ASSUME NEW snap, IsBody(snap), NEW other, NEW blocks, NEW codes, Recoded(snap, other, blocks, codes),
         \A b \in ToSet(snap.blocks) : \A j : b = snap.blocks[j] /\ j \in DOMAIN snap.blocks =>
           DOMAIN codes[j] = DOMAIN b.code /\ \A k \in DOMAIN b.code : Refit(snap, b, k, codes[j][k])
  PROVE  Refits(snap, other)
<1>1. /\ DOMAIN other = DOMAIN snap /\ \A x \in DOMAIN snap \ {"blocks"} : other[x] = snap[x]
      /\ other.blocks = blocks /\ DOMAIN blocks = DOMAIN snap.blocks
  BY DEF Recoded, IsBody
<1>2. ASSUME NEW j \in DOMAIN snap.blocks PROVE RefitBlock(snap, snap.blocks[j], blocks[j])
  <2>1. PICK b : b = snap.blocks[j] /\ b \in ToSet(snap.blocks)
    BY DEF ToSet
  <2>2. b = [id |-> b.id, params |-> b.params, code |-> b.code, term |-> b.term]
    BY <2>1 DEF IsBody, IsBlock, Block
  <2>3. blocks[j] = [b EXCEPT !.code = codes[j]]
    BY <2>1 DEF Recoded
  <2>4. PICK c : c = blocks[j]
    OBVIOUS
  <2>5. c = Block(b.id, b.params, c.code, b.term) /\ c.code = codes[j]
    BY <2>2, <2>3, <2>4 DEF Block
  <2>6. DOMAIN codes[j] = DOMAIN b.code /\ \A k \in DOMAIN b.code : Refit(snap, b, k, codes[j][k])
    BY <2>1
  <2> QED BY <2>1, <2>4, <2>5, <2>6 DEF RefitBlock
<1> QED BY <1>1, <1>2 DEF Refits

LEMMA LowerRefits ==
  ASSUME NEW snap, Verified(snap) PROVE Refits(snap, LowerDirect(snap))
<1> DEFINE codes == [j \in DOMAIN snap.blocks |-> LowerCode(snap.blocks[j].code)]
           blocks == [j \in DOMAIN snap.blocks |-> [snap.blocks[j] EXCEPT !.code = LowerCode(snap.blocks[j].code)]]
<1>1. Recoded(snap, LowerDirect(snap), blocks, codes)
  BY DEF LowerDirect, EachBlock, Recoded
<1>2. \A j \in DOMAIN snap.blocks : codes[j] = LowerCode(snap.blocks[j].code)
  OBVIOUS
<1> HIDE DEF blocks, codes
<1>3. ASSUME NEW b \in ToSet(snap.blocks)
      PROVE  DOMAIN LowerCode(b.code) = DOMAIN b.code /\ \A k \in DOMAIN b.code : Refit(snap, b, k, LowerCode(b.code)[k])
  BY FitsSame DEF LowerCode
<1>4. IsBody(snap)
  BY DEF Verified
<1> QED BY <1>1, <1>2, <1>3, <1>4, RecodedRefits

\* Taking accesses and calls out of their wrapping leaves a verified body verified.
THEOREM LoweringVerifies ==
  ASSUME NEW snap, Verified(snap) PROVE Verified(LowerDirect(snap))
BY LowerRefits, RefitVerified

\* A sum that is known fits in the place of the addition.
LEMMA FoldFits ==
  ASSUME NEW snap, Verified(snap), NEW b \in ToSet(snap.blocks), NEW k \in DOMAIN b.code, NEW seen
  PROVE  Refit(snap, b, k, FoldStep(seen, b.code[k]).instr)
<1>1. PICK old : old = b.code[k]
  OBVIOUS
<1> DEFINE sum == seen[old.in[1]] + seen[old.in[2]]
           new == [old EXCEPT !.op = "Constant", !.arg = Integer(sum), !.at = FALSE, !.in = <<>>]
<1>2. /\ IsInstruction(old) /\ WellTyped(old, ValueTypes(snap))
      /\ \A v \in ToSet(old.in) : MayUse(Sites(snap), Dominators(snap), v, b.id, k)
  BY <1>1, VerifiedInstruction
<1>3. CASE FoldStep(seen, old).instr = old
  BY <1>1, <1>3, FitsSame
<1>4. CASE FoldStep(seen, old).instr = new /\ old.op = "IntegerAdd" /\ sum \in -Half..(Half - 1)
  <2>1. sum \in Int
    BY <1>4, ReplayAssumption
  <2> HIDE DEF sum
  <2>2. /\ new.op = "Constant" /\ new.arg = <<"I64", sum>> /\ new.in = <<>> /\ new.out = old.out /\ new.ty = old.ty
        /\ new.eff = old.eff /\ new.seq = old.seq /\ new.point = old.point
        /\ new = [op |-> new.op, arg |-> new.arg, at |-> new.at, in |-> new.in, out |-> new.out, ty |-> new.ty,
                  eff |-> new.eff, seq |-> new.seq, point |-> new.point]
    <3>1. PICK arg : arg = Integer(sum)
      OBVIOUS
    <3>2. new = [old EXCEPT !.op = "Constant", !.arg = arg, !.at = FALSE, !.in = <<>>]
      BY <3>1
    <3>3. arg = <<"I64", sum>>
      BY <3>1 DEF Integer
    <3>4. PICK op, known, at, in, out, ty, eff, seq, point :
                 old = [op |-> op, arg |-> known, at |-> at, in |-> in, out |-> out, ty |-> ty,
                        eff |-> eff, seq |-> seq, point |-> point]
      BY <1>2 DEF IsInstruction
    <3> HIDE DEF new
    <3>5. new = [op |-> "Constant", arg |-> arg, at |-> FALSE, in |-> <<>>, out |-> out, ty |-> ty,
                 eff |-> eff, seq |-> seq, point |-> point]
      BY <3>2, <3>4
    <3> QED BY <3>3, <3>4, <3>5
  <2>3. IsInstruction(new)
    <3> HIDE DEF new
    <3> QED BY <2>1, <2>2 DEF IsInstruction, IsVector
  <2>4. old.ty = "I64"
    BY <1>2, <1>4, TypedAdd
  <2>5. PICK i : i = new
    OBVIOUS
  <2> HIDE DEF new
  <2>6. WellTyped(i, ValueTypes(snap))
    BY <2>2, <2>4, <2>5, TypedConstant
  <2>7. ToSet(i.in) = {}
    BY <2>2, <2>5 DEF ToSet
  <2>8. Refit(snap, b, k, i)
    BY <1>1, <1>4, <2>2, <2>3, <2>5, <2>6, <2>7 DEF Refit
  <2> QED BY <1>1, <1>4, <2>5, <2>8
<1>5. \/ FoldStep(seen, old).instr = old
      \/ FoldStep(seen, old).instr = new /\ old.op = "IntegerAdd" /\ sum \in -Half..(Half - 1)
  BY DEF FoldStep, Emit
<1> QED BY <1>3, <1>4, <1>5

LEMMA FoldRefits ==
  ASSUME NEW snap, Verified(snap) PROVE Refits(snap, FoldConstants(snap))
<1> DEFINE codes == [j \in DOMAIN snap.blocks |-> FoldCode(snap.blocks[j].code)]
           blocks == [j \in DOMAIN snap.blocks |-> [snap.blocks[j] EXCEPT !.code = FoldCode(snap.blocks[j].code)]]
<1>1. Recoded(snap, FoldConstants(snap), blocks, codes)
  BY DEF FoldConstants, EachBlock, Recoded
<1>2. \A j \in DOMAIN snap.blocks : codes[j] = FoldCode(snap.blocks[j].code)
  OBVIOUS
<1> HIDE DEF blocks, codes
<1>3. ASSUME NEW b \in ToSet(snap.blocks)
      PROVE  DOMAIN FoldCode(b.code) = DOMAIN b.code /\ \A k \in DOMAIN b.code : Refit(snap, b, k, FoldCode(b.code)[k])
  <2>1. Len(b.code) \in Nat /\ DOMAIN b.code = 1..Len(b.code)
    BY CodeOfBody
  <2>2. PICK w : WalksFold(b.code, w, Len(b.code)) /\ FoldCode(b.code) = [k \in DOMAIN b.code |-> w[k].instr]
    BY <2>1, FoldWalked
  <2>3. ASSUME NEW k \in DOMAIN b.code PROVE Refit(snap, b, k, FoldCode(b.code)[k])
    <3>1. k \in 0..Len(b.code) /\ k # 0
      BY <2>1
    <3>2. w[k] = FoldStep(w[k - 1].seen, b.code[k])
      BY <2>2, <3>1 DEF WalksFold
    <3>3. PICK seen, instr : seen = w[k - 1].seen /\ instr = w[k].instr
      OBVIOUS
    <3>4. instr = FoldStep(seen, b.code[k]).instr
      BY <3>2, <3>3
    <3>5. Refit(snap, b, k, instr)
      BY <3>4, FoldFits
    <3> QED BY <2>2, <3>3, <3>5
  <2> QED BY <2>2, <2>3
<1>4. IsBody(snap)
  BY DEF Verified
<1> QED BY <1>1, <1>2, <1>3, <1>4, RecodedRefits

\* Folding the sums of constants leaves a verified body verified.
THEOREM FoldingVerifies ==
  ASSUME NEW snap, Verified(snap) PROVE Verified(FoldConstants(snap))
BY FoldRefits, RefitVerified

-----------------------------------------------------------------------------
(* Copies.                                                                 *)

LEMMA TypeOfSite ==
  ASSUME NEW snap, DefinedOnce(snap), NEW s \in Sites(snap)
  PROVE  ValueTypes(snap)[s.id] = s.ty
<1> DEFINE t == CHOOSE t \in Sites(snap) : t.id = s.id
<1>1. t \in Sites(snap) /\ t.id = s.id
  OBVIOUS
<1>2. t = s
  BY <1>1 DEF DefinedOnce
<1>3. ValueTypes(snap)[s.id] = t.ty
  BY DEF ValueTypes
<1> QED BY <1>2, <1>3

\* Where a value in a block comes from.
LEMMA BorrowedSite ==
  ASSUME NEW snap, Verified(snap), NEW b \in ToSet(snap.blocks), NEW pos \in DOMAIN b.code, NEW v \in Borrowed(b, pos), v # 0
  PROVE  \E s \in Sites(snap) : s.id = v /\ s.ty = "BorrowedView"
<1>1. IsBlock(b) /\ pos \in Nat /\ DOMAIN b.code = 1..Len(b.code) /\ Len(b.code) \in Nat
  BY CodeOfBody DEF Verified, IsBody
<1>2. CASE v \in {p.id : p \in {q \in ToSet(b.params) : q.ty = "BorrowedView"}}
  <2>1. PICK k \in DOMAIN b.params : b.params[k].id = v /\ b.params[k].ty = "BorrowedView"
    BY <1>2 DEF ToSet
  <2> DEFINE s == [id |-> b.params[k].id, ty |-> b.params[k].ty, block |-> b.id, pos |-> 0, nth |-> k]
  <2>2. s \in Sites(snap)
    BY DEF Sites
  <2> QED BY <2>1, <2>2
<1>3. CASE v \in {b.code[k].out : k \in {j \in 1..(pos - 1) : b.code[j].ty = "BorrowedView"}}
  <2>1. PICK k \in 1..(pos - 1) : b.code[k].out = v /\ b.code[k].ty = "BorrowedView"
    BY <1>3
  <2>2. k \in DOMAIN b.code
    BY <1>1
  <2> DEFINE s == [id |-> b.code[k].out, ty |-> b.code[k].ty, block |-> b.id, pos |-> k, nth |-> k]
  <2>3. s \in Sites(snap)
    BY <2>1, <2>2 DEF Sites
  <2> QED BY <2>1, <2>3
<1> QED BY <1>2, <1>3 DEF Borrowed

\* A name of an owned list is the output of what makes the list or hands it on.
LEMMA AliasSite ==
  ASSUME NEW snap, Verified(snap), NEW v \in Aliases(snap)
  PROVE  \E c \in ToSet(snap.blocks) : \E k \in DOMAIN c.code :
           c.code[k].out = v /\ v # 0 /\ c.code[k].op \in AliasOps \cup {"OwnedList"}
<1> DEFINE places == OwnedDefinitions(snap)
           S == {w \in {FirstOutput(snap, places)} \cup {i.out : i \in AliasesOf(snap)} :
                  \E c \in ToSet(snap.blocks) : \E k \in DOMAIN c.code :
                    c.code[k].out = w /\ w # 0 /\ c.code[k].op \in AliasOps \cup {"OwnedList"}}
<1>1. places # {} /\ v \in OwnedAliases(snap, FirstOutput(snap, places))
  BY DEF Aliases
<1>2. \A p \in places : /\ IsPlace(p) /\ p[1] \in DOMAIN snap.blocks /\ p[2] \in DOMAIN snap.blocks[p[1]].code
                        /\ snap.blocks[p[1]].code[p[2]].op = "OwnedList" /\ snap.blocks[p[1]].code[p[2]].out # 0
  <2> SUFFICES ASSUME NEW p \in places
               PROVE  /\ IsPlace(p) /\ p[1] \in DOMAIN snap.blocks /\ p[2] \in DOMAIN snap.blocks[p[1]].code
                      /\ snap.blocks[p[1]].code[p[2]].op = "OwnedList" /\ snap.blocks[p[1]].code[p[2]].out # 0
    OBVIOUS
  <2>1. /\ p = <<p[1], p[2]>> /\ p[1] \in DOMAIN snap.blocks /\ p[2] \in DOMAIN snap.blocks[p[1]].code
        /\ snap.blocks[p[1]].code[p[2]].op = "OwnedList" /\ snap.blocks[p[1]].code[p[2]].out # 0
    BY DEF OwnedDefinitions
  <2>2. DOMAIN snap.blocks \subseteq Nat
    BY DEF Verified, IsBody, IsVector
  <2>3. IsBlock(snap.blocks[p[1]])
    BY <2>1 DEF Verified, IsBody, ToSet
  <2>4. DOMAIN snap.blocks[p[1]].code \subseteq Nat
    BY <2>3 DEF IsBlock, IsVector
  <2> QED BY <2>1, <2>2, <2>4 DEF IsPlace
<1>3. FirstOutput(snap, places) \in S
  <2> DEFINE first == CHOOSE p \in places : \A q \in places : p[1] < q[1] \/ (p[1] = q[1] /\ p[2] <= q[2])
  <2>1. first \in places
    <3> HIDE DEF places
    <3> QED BY <1>1, <1>2, FirstPlace
  <2>2. FirstOutput(snap, places) = snap.blocks[first[1]].code[first[2]].out
    BY DEF FirstOutput
  <2> HIDE DEF first, places
  <2>3. /\ first[1] \in DOMAIN snap.blocks /\ first[2] \in DOMAIN snap.blocks[first[1]].code
        /\ snap.blocks[first[1]].code[first[2]].op = "OwnedList" /\ snap.blocks[first[1]].code[first[2]].out # 0
    BY <1>2, <2>1
  <2>4. snap.blocks[first[1]] \in ToSet(snap.blocks)
    BY <2>3 DEF ToSet
  <2> QED BY <2>2, <2>3, <2>4
<1>4. \A i \in AliasesOf(snap) : i.out \in S
  <2> SUFFICES ASSUME NEW i \in AliasesOf(snap) PROVE i.out \in S
    OBVIOUS
  <2>1. i \in Instructions(snap) /\ i.op \in AliasOps /\ i.out # 0
    BY DEF AliasesOf
  <2>2. PICK c \in ToSet(snap.blocks) : i \in ToSet(c.code)
    BY <2>1 DEF Instructions
  <2>3. PICK k \in DOMAIN c.code : c.code[k] = i
    BY <2>2 DEF ToSet
  <2> QED BY <2>1, <2>3
<1>5. OwnedAliases(snap, FirstOutput(snap, places)) \subseteq S
  <2> HIDE DEF S, places
  <2> QED BY <1>3, <1>4, AliasesLeast
<1> QED BY <1>1, <1>5

\* Two places that have one output are one place.
LEMMA OutputPlace ==
  ASSUME NEW snap, Verified(snap), NEW b \in ToSet(snap.blocks), NEW j \in DOMAIN b.code,
         NEW c \in ToSet(snap.blocks), NEW k \in DOMAIN c.code, b.code[j].out = c.code[k].out, b.code[j].out # 0
  PROVE  b = c /\ j = k
<1> DEFINE s == [id |-> b.code[j].out, ty |-> b.code[j].ty, block |-> b.id, pos |-> j, nth |-> j]
           t == [id |-> c.code[k].out, ty |-> c.code[k].ty, block |-> c.id, pos |-> k, nth |-> k]
<1>1. s \in Sites(snap) /\ t \in Sites(snap)
  BY DEF Sites
<1>2. s = t
  BY <1>1 DEF Verified, DefinedOnce
<1>3. b.id = c.id /\ j = k
  BY <1>2
<1> QED BY <1>3 DEF Verified, BlocksDistinct, ToSet

\* A sum made earlier in the block may be copied.
LEMMA SumMayBeCopied ==
  ASSUME NEW snap, Verified(snap), NEW b \in ToSet(snap.blocks), NEW j \in DOMAIN b.code, NEW k \in DOMAIN b.code,
         j < k, b.code[j].op = "IntegerAdd", NEW v, v = b.code[j].out, v # 0
  PROVE  /\ MayUse(Sites(snap), Dominators(snap), v, b.id, k) /\ ValueTypes(snap)[v] = "I64"
         /\ Usable(b, k, v) /\ v \notin Aliases(snap)
<1> DEFINE s == [id |-> b.code[j].out, ty |-> b.code[j].ty, block |-> b.id, pos |-> j, nth |-> j]
<1>1. s \in Sites(snap) /\ DefinedOnce(snap)
  BY DEF Sites, Verified
<1>2. s.ty = "I64" /\ s.id = v /\ s.block = b.id /\ s.pos = j
  BY VerifiedInstruction, TypedAdd
<1> HIDE DEF s
<1>3. MayUse(Sites(snap), Dominators(snap), v, b.id, k)
  BY <1>1, <1>2 DEF MayUse
<1>4. ValueTypes(snap)[v] = "I64"
  BY <1>1, <1>2, TypeOfSite
<1>5. ASSUME NEW q \in DOMAIN b.code, v \in Borrowed(b, q) PROVE FALSE
  <2>1. PICK t \in Sites(snap) : t.id = v /\ t.ty = "BorrowedView"
    BY <1>5, BorrowedSite
  <2> QED BY <1>1, <1>2, <2>1 DEF DefinedOnce
<1>6. ASSUME v \in Aliases(snap) PROVE FALSE
  <2>1. PICK c \in ToSet(snap.blocks) : \E q \in DOMAIN c.code :
           c.code[q].out = v /\ c.code[q].op \in AliasOps \cup {"OwnedList"}
    BY <1>6, AliasSite
  <2>2. PICK q \in DOMAIN c.code : c.code[q].out = v /\ c.code[q].op \in AliasOps \cup {"OwnedList"}
    BY <2>1
  <2>3. c = b /\ q = j
    BY <2>2, OutputPlace
  <2> QED BY <2>2, <2>3 DEF AliasOps
<1> QED BY <1>3, <1>4, <1>5, <1>6 DEF Usable

LEMMA CopyFits ==
  ASSUME NEW snap, Verified(snap), NEW b \in ToSet(snap.blocks), NEW k \in DOMAIN b.code,
         NEW old, old = b.code[k], old.op \in {"IntegerAdd", "ObjectGet"},
         NEW v, MayUse(Sites(snap), Dominators(snap), v, b.id, k), ValueTypes(snap)[v] = old.ty,
         Usable(b, k, v), v \notin Aliases(snap),
         NEW eff \in {old.eff, "Pure"},
         NEW new, new = [op |-> "Copy", arg |-> NoArg, at |-> FALSE, in |-> <<v>>, out |-> old.out, ty |-> old.ty,
                         eff |-> eff, seq |-> old.seq, point |-> old.point]
  PROVE  Refit(snap, b, k, new)
<1>1. /\ new.op = "Copy" /\ new.in = <<v>> /\ new.out = old.out /\ new.ty = old.ty
      /\ new.eff = eff /\ new.seq = old.seq /\ new.point = old.point
  OBVIOUS
<1>2. IsInstruction(new)
  BY DEF IsInstruction, IsVector
<1>3. WellTyped(new, ValueTypes(snap))
  BY <1>1, TypedCopy
<1>4. \A w \in ToSet(new.in) : w = v
  BY <1>1 DEF ToSet
<1> QED BY <1>1, <1>2, <1>3, <1>4 DEF Refit

-----------------------------------------------------------------------------
(* Value numbering, inlining and forwarding.                               *)

\* What the walk remembers are sums that the block has made.
SumsMade(code, m, seen) ==
  \A key \in DOMAIN seen : \E j \in 1..m : code[j].op = "IntegerAdd" /\ code[j].out = seen[key] /\ seen[key] # 0

LEMMA NumberFits ==
  ASSUME NEW snap, Verified(snap), NEW b \in ToSet(snap.blocks), NEW m \in Nat, m + 1 \in DOMAIN b.code,
         NEW seen, SumsMade(b.code, m, seen), NEW e, e = NumberStep(seen, b.code[m + 1])
  PROVE  Refit(snap, b, m + 1, e.instr) /\ SumsMade(b.code, m + 1, e.seen)
<1>1. PICK old : old = b.code[m + 1]
  OBVIOUS
<1> DEFINE key == ToSet(old.in)
           new == [old EXCEPT !.op = "Copy", !.arg = NoArg, !.at = FALSE, !.in = <<seen[key]>>]
<1>2. IsInstruction(old) /\ WellTyped(old, ValueTypes(snap)) /\ \A j \in 1..m : j \in DOMAIN b.code /\ j < m + 1
  BY <1>1, VerifiedInstruction, CodeOfBody
<1>3. \/ e.instr = old /\ e.seen \in {<<>>, seen}
      \/ e.instr = old /\ old.op = "IntegerAdd" /\ old.out # 0 /\ e.seen = Put(seen, key, old.out)
      \/ e.instr = new /\ e.seen = seen /\ old.op = "IntegerAdd" /\ key \in DOMAIN seen
  <2>1. e = NumberStep(seen, old)
    BY <1>1
  <2>2. CASE IsBarrier(old)
    <3>1. old.eff # "Pure"
      BY <2>2 DEF IsBarrier, Barriers
    <3>2. e = Emit(old, <<>>)
      BY <2>1, <2>2, <3>1 DEF NumberStep
    <3> QED BY <3>2 DEF Emit
  <2>3. CASE ~IsBarrier(old) /\ old.op = "IntegerAdd" /\ old.eff = "Pure" /\ Len(old.in) = 2 /\ key \in DOMAIN seen
    <3>1. e = Emit(new, seen)
      BY <2>1, <2>3 DEF NumberStep
    <3> QED BY <2>3, <3>1 DEF Emit
  <2>4. CASE ~IsBarrier(old) /\ old.op = "IntegerAdd" /\ old.eff = "Pure" /\ Len(old.in) = 2 /\ key \notin DOMAIN seen
    <3>1. e = IF old.out # 0 THEN Emit(old, Put(seen, key, old.out)) ELSE Emit(old, seen)
      BY <2>1, <2>4 DEF NumberStep
    <3> QED BY <2>4, <3>1 DEF Emit
  <2>5. CASE ~IsBarrier(old) /\ ~(old.op = "IntegerAdd" /\ old.eff = "Pure" /\ Len(old.in) = 2)
    <3>1. e = Emit(old, seen)
      BY <2>1, <2>5 DEF NumberStep
    <3> QED BY <3>1 DEF Emit
  <2> QED BY <2>2, <2>3, <2>4, <2>5
<1>4. SumsMade(b.code, m + 1, seen) /\ SumsMade(b.code, m + 1, <<>>)
  BY DEF SumsMade
<1> HIDE DEF key
<1>5. CASE e.instr = old /\ e.seen \in {<<>>, seen}
  BY <1>1, <1>4, <1>5, FitsSame
<1>6. CASE e.instr = old /\ old.op = "IntegerAdd" /\ old.out # 0 /\ e.seen = Put(seen, key, old.out)
  <2>1. SumsMade(b.code, m + 1, Put(seen, key, old.out))
    <3>1. m + 1 \in 1..(m + 1)
      OBVIOUS
    <3> QED BY <1>1, <1>4, <1>6, <3>1 DEF SumsMade, Put
  <2> QED BY <1>1, <1>6, <2>1, FitsSame
<1>7. CASE e.instr = new /\ e.seen = seen /\ old.op = "IntegerAdd" /\ key \in DOMAIN seen
  <2>1. PICK v : v = seen[key]
    OBVIOUS
  <2>2. PICK j \in 1..m : b.code[j].op = "IntegerAdd" /\ b.code[j].out = v /\ v # 0
    BY <1>7, <2>1 DEF SumsMade
  <2>3. /\ MayUse(Sites(snap), Dominators(snap), v, b.id, m + 1) /\ ValueTypes(snap)[v] = "I64"
        /\ Usable(b, m + 1, v) /\ v \notin Aliases(snap)
    BY <1>2, <2>2, SumMayBeCopied
  <2>4. old.ty = "I64"
    BY <1>2, <1>7, TypedAdd
  <2>5. new = [op |-> "Copy", arg |-> NoArg, at |-> FALSE, in |-> <<v>>, out |-> old.out, ty |-> old.ty,
               eff |-> old.eff, seq |-> old.seq, point |-> old.point]
    <3>1. PICK op, known, at, in, out, ty, eff, seq, point :
                 old = [op |-> op, arg |-> known, at |-> at, in |-> in, out |-> out, ty |-> ty,
                        eff |-> eff, seq |-> seq, point |-> point]
      BY <1>2 DEF IsInstruction
    <3>2. new = [old EXCEPT !.op = "Copy", !.arg = NoArg, !.at = FALSE, !.in = <<v>>]
      BY <2>1
    <3> HIDE DEF new
    <3> QED BY <3>1, <3>2
  <2> HIDE DEF new
  <2>6. Refit(snap, b, m + 1, new)
    BY <1>1, <1>7, <2>3, <2>4, <2>5, CopyFits
  <2> QED BY <1>4, <1>7, <2>6
<1> QED BY <1>3, <1>5, <1>6, <1>7

LEMMA NumberCodeFits ==
  ASSUME NEW snap, Verified(snap), NEW b \in ToSet(snap.blocks)
  PROVE  DOMAIN NumberCode(b.code) = DOMAIN b.code /\ \A k \in DOMAIN b.code : Refit(snap, b, k, NumberCode(b.code)[k])
<1>1. Len(b.code) \in Nat /\ DOMAIN b.code = 1..Len(b.code)
  BY CodeOfBody
<1>2. PICK w : WalksNumber(b.code, w, Len(b.code)) /\ NumberCode(b.code) = [k \in DOMAIN b.code |-> w[k].instr]
  BY <1>1, NumberWalked
<1> DEFINE T == {m \in Nat : m <= Len(b.code) => SumsMade(b.code, m, w[m].seen)}
<1>3. 0 \in T
  BY <1>1, <1>2 DEF WalksNumber, SumsMade, Emit
<1>4. ASSUME NEW m \in Nat, SumsMade(b.code, m, w[m].seen), m + 1 <= Len(b.code)
      PROVE  Refit(snap, b, m + 1, w[m + 1].instr) /\ SumsMade(b.code, m + 1, w[m + 1].seen)
  <2>1. m + 1 \in 0..Len(b.code) /\ m + 1 # 0 /\ (m + 1) - 1 = m /\ m + 1 \in DOMAIN b.code
    BY <1>1, <1>4
  <2>2. w[m + 1] = NumberStep(w[m].seen, b.code[m + 1])
    BY <1>2, <2>1 DEF WalksNumber
  <2>3. PICK seen, e : seen = w[m].seen /\ e = w[m + 1]
    OBVIOUS
  <2> QED BY <1>4, <2>1, <2>2, <2>3, NumberFits
<1>5. ASSUME NEW m \in Nat, m \in T PROVE m + 1 \in T
  <2>1. m + 1 <= Len(b.code) => m <= Len(b.code)
    BY <1>1
  <2> QED BY <1>4, <1>5, <2>1
<1>6. Nat \subseteq T
  <2> HIDE DEF T
  <2> QED BY <1>3, <1>5, AllNumbers
<1>7. ASSUME NEW k \in DOMAIN b.code PROVE Refit(snap, b, k, w[k].instr)
  <2>1. k - 1 \in Nat /\ k - 1 <= Len(b.code) /\ (k - 1) + 1 = k /\ k <= Len(b.code)
    BY <1>1
  <2>2. SumsMade(b.code, k - 1, w[k - 1].seen)
    BY <1>6, <2>1
  <2> HIDE DEF T
  <2>3. PICK m \in Nat : m = k - 1
    BY <2>1
  <2> QED BY <1>4, <2>1, <2>2, <2>3
<1> QED BY <1>2, <1>7

LEMMA NumberRefits ==
  ASSUME NEW snap, Verified(snap) PROVE Refits(snap, NumberAdds(snap))
<1> DEFINE codes == [j \in DOMAIN snap.blocks |-> NumberCode(snap.blocks[j].code)]
           blocks == [j \in DOMAIN snap.blocks |-> [snap.blocks[j] EXCEPT !.code = NumberCode(snap.blocks[j].code)]]
<1>1. Recoded(snap, NumberAdds(snap), blocks, codes)
  BY DEF NumberAdds, EachBlock, Recoded
<1>2. \A j \in DOMAIN snap.blocks : codes[j] = NumberCode(snap.blocks[j].code)
  OBVIOUS
<1> HIDE DEF blocks, codes
<1>3. IsBody(snap)
  BY DEF Verified
<1> QED BY <1>1, <1>2, <1>3, NumberCodeFits, RecodedRefits

\* Copying a sum that the block has made before leaves a verified body verified.
THEOREM NumberingVerifies ==
  ASSUME NEW snap, Verified(snap) PROVE Verified(NumberAdds(snap))
BY NumberRefits, RefitVerified

LEMMA InlineFits ==
  ASSUME NEW snap, Verified(snap), NEW proofs, CallsAdd(snap, proofs), NEW b \in ToSet(snap.blocks),
         NEW k \in DOMAIN b.code, NEW seen, NEW new, new = InlineStep(snap, proofs, seen, b.code[k]).instr
  PROVE  Refit(snap, b, k, new)
<1>1. PICK old : old = b.code[k]
  OBVIOUS
<1> DEFINE add == [old EXCEPT !.op = "IntegerAdd", !.arg = NoArg, !.at = FALSE]
<1>2. /\ IsInstruction(old) /\ WellTyped(old, ValueTypes(snap)) /\ old \in Instructions(snap)
      /\ \A v \in ToSet(old.in) : MayUse(Sites(snap), Dominators(snap), v, b.id, k)
  <2>1. old \in Instructions(snap)
    BY <1>1 DEF Instructions, ToSet
  <2> QED BY <1>1, <2>1, VerifiedInstruction
<1>3. \/ new = old
      \/ new = add /\ old.op = "Call" /\ Len(old.in) = 2 /\ \E p \in proofs : p[1] = old.arg[2]
  BY <1>1 DEF InlineStep, Emit
<1>4. CASE new = old
  BY <1>1, <1>4, FitsSame
<1>5. CASE new = add /\ old.op = "Call" /\ Len(old.in) = 2 /\ \E p \in proofs : p[1] = old.arg[2]
  <2>1. PICK op, known, at, in, out, ty, eff, seq, point :
                 old = [op |-> op, arg |-> known, at |-> at, in |-> in, out |-> out, ty |-> ty,
                        eff |-> eff, seq |-> seq, point |-> point]
    BY <1>2 DEF IsInstruction
  <2>2. new = [op |-> "IntegerAdd", arg |-> NoArg, at |-> FALSE, in |-> in, out |-> out, ty |-> ty,
               eff |-> eff, seq |-> seq, point |-> point]
    BY <1>5, <2>1
  <2>3. /\ new.op = "IntegerAdd" /\ new.in = old.in /\ new.out = old.out /\ new.ty = old.ty
        /\ new.eff = old.eff /\ new.seq = old.seq /\ new.point = old.point
    BY <2>1, <2>2
  <2>4. IsInstruction(new)
    <3>1. IsVector(in)
      BY <1>2, <2>1 DEF IsInstruction
    <3> QED BY <2>2, <3>1 DEF IsInstruction
  <2>5. [q \in DOMAIN old.in |-> ValueTypes(snap)[old.in[q]]] = <<"I64", "I64">> /\ old.ty = "I64"
    BY <1>2, <1>5 DEF CallsAdd
  <2>6. WellTyped(new, ValueTypes(snap))
    BY <2>3, <2>5, TypedAdd
  <2> HIDE DEF add
  <2> QED BY <1>1, <1>2, <1>5, <2>3, <2>4, <2>6 DEF Refit
<1> QED BY <1>3, <1>4, <1>5

LEMMA InlineRefits ==
  ASSUME NEW snap, Verified(snap), NEW proofs, CallsAdd(snap, proofs) PROVE Refits(snap, GuardedInline(snap, proofs))
<1> DEFINE codes == [j \in DOMAIN snap.blocks |-> InlineCode(snap, proofs, snap.blocks[j].code)]
           blocks == [j \in DOMAIN snap.blocks |-> [snap.blocks[j] EXCEPT !.code = InlineCode(snap, proofs, snap.blocks[j].code)]]
<1>1. Recoded(snap, GuardedInline(snap, proofs), blocks, codes)
  BY DEF GuardedInline, InlineCode, EachBlock, Recoded
<1>2. \A j \in DOMAIN snap.blocks : codes[j] = InlineCode(snap, proofs, snap.blocks[j].code)
  OBVIOUS
<1> HIDE DEF blocks, codes
<1>3. ASSUME NEW b \in ToSet(snap.blocks)
      PROVE  /\ DOMAIN InlineCode(snap, proofs, b.code) = DOMAIN b.code
             /\ \A k \in DOMAIN b.code : Refit(snap, b, k, InlineCode(snap, proofs, b.code)[k])
  <2>1. PICK code : code = b.code
    OBVIOUS
  <2>2. Len(code) \in Nat /\ DOMAIN code = 1..Len(code)
    BY <2>1, CodeOfBody
  <2>3. PICK w : /\ WalksInline(snap, proofs, code, w, Len(code))
                 /\ InlineCode(snap, proofs, code) = [k \in DOMAIN code |-> w[k].instr]
    <3>1. Len(code) \in Nat
      BY <2>2
    <3> HIDE <2>1, <2>2
    <3> QED BY <3>1, InlineWalked
  <2>4. ASSUME NEW k \in DOMAIN code PROVE Refit(snap, b, k, w[k].instr)
    <3>1. k \in 0..Len(code) /\ k # 0
      BY <2>2
    <3>2. w[k] = InlineStep(snap, proofs, w[k - 1].seen, code[k])
      BY <2>3, <3>1 DEF WalksInline
    <3>3. PICK seen, new : seen = w[k - 1].seen /\ new = w[k].instr
      OBVIOUS
    <3>4. new = InlineStep(snap, proofs, seen, b.code[k]).instr
      BY <2>1, <3>2, <3>3
    <3>5. Refit(snap, b, k, new)
      BY <2>1, <3>4, InlineFits
    <3> QED BY <3>3, <3>5
  <2> QED BY <2>1, <2>3, <2>4
<1>4. IsBody(snap)
  BY DEF Verified
<1> QED BY <1>1, <1>2, <1>3, <1>4, RecodedRefits

\* Making calls of a proven callee the additions they do leaves a verified body verified, when the calls were
\* recorded with the types the callee was proved for.
THEOREM InliningVerifies ==
  ASSUME NEW snap, Verified(snap), NEW proofs, CallsAdd(snap, proofs) PROVE Verified(GuardedInline(snap, proofs))
BY InlineRefits, RefitVerified

\* What the walk remembers is a store of the block that no barrier has come after.
StoreSeen(code, m, seen) ==
  seen # <<>> => \E j \in 1..m : /\ code[j].op = "ObjectSet" /\ code[j].in = seen /\ Len(seen) = 3
                                 /\ \A q \in (j + 1)..m : ~IsBarrier(code[q])

\* A value that was stored may be used where its store was the last, and no barrier has come since.
LEMMA StoredMayBeCopied ==
  ASSUME NEW snap, Verified(snap), NEW b \in ToSet(snap.blocks), NEW j \in DOMAIN b.code, NEW k \in DOMAIN b.code,
         j < k, b.code[j].op = "ObjectSet", Len(b.code[j].in) = 3, \A q \in (j + 1)..k : ~IsBarrier(b.code[q]),
         NEW v, v = b.code[j].in[3]
  PROVE  /\ MayUse(Sites(snap), Dominators(snap), v, b.id, k)
         /\ Usable(b, k, v) /\ v \notin Aliases(snap)
<1>1. PICK old : old = b.code[j]
  OBVIOUS
<1>2. /\ IsInstruction(old) /\ j \in Nat /\ k \in Nat /\ Len(b.code) \in Nat /\ DOMAIN b.code = 1..Len(b.code)
      /\ \A w \in ToSet(old.in) : MayUse(Sites(snap), Dominators(snap), w, b.id, j)
  <2>1. Len(b.code) \in Nat /\ DOMAIN b.code = 1..Len(b.code)
    BY CodeOfBody
  <2>2. j \in Nat /\ k \in Nat
    BY <2>1
  <2>3. IsInstruction(old) /\ \A w \in ToSet(old.in) : MayUse(Sites(snap), Dominators(snap), w, b.id, j)
    BY <1>1, VerifiedInstruction
  <2> QED BY <2>1, <2>2, <2>3
<1>3. IsVector(old.in) /\ Len(old.in) = 3 /\ 3 \in DOMAIN old.in /\ v = old.in[3] /\ v \in ToSet(old.in)
  <2>1. IsVector(old.in) /\ Len(old.in) = 3 /\ v = old.in[3]
    BY <1>1, <1>2 DEF IsInstruction
  <2>2. 3 \in DOMAIN old.in
    BY <2>1 DEF IsVector
  <2> QED BY <2>1, <2>2 DEF ToSet
<1>4. MayUse(Sites(snap), Dominators(snap), v, b.id, k)
  <2>1. PICK s \in Sites(snap) :
           s.id = v /\ IF s.block = b.id THEN s.pos < j ELSE s.block \in Dominators(snap)[b.id]
    BY <1>2, <1>3 DEF MayUse
  <2>2. CASE s.block # b.id
    BY <2>1, <2>2 DEF MayUse
  <2>3. CASE s.block = b.id
    <3>1. PICK c \in ToSet(snap.blocks) :
             s \in {[id |-> c.params[n].id, ty |-> c.params[n].ty, block |-> c.id, pos |-> 0, nth |-> n] : n \in DOMAIN c.params}
               \cup {[id |-> c.code[n].out, ty |-> c.code[n].ty, block |-> c.id, pos |-> n, nth |-> n] :
                       n \in {h \in DOMAIN c.code : c.code[h].out # 0}}
      BY DEF Sites
    <3>2. Len(c.code) \in Nat /\ DOMAIN c.code = 1..Len(c.code)
      BY CodeOfBody
    <3>3. s.pos \in Nat
      BY <3>1, <3>2
    <3>4. s.pos < k
      BY <1>2, <2>1, <2>3, <3>3
    <3> QED BY <2>1, <2>3, <3>4 DEF MayUse
  <2> QED BY <2>2, <2>3
<1>5. Usable(b, k, v)
  <2> SUFFICES ASSUME NEW q \in DOMAIN b.code, q <= k, IsBarrier(b.code[q]), v \in Borrowed(b, q) PROVE FALSE
    BY DEF Usable
  <2>1. q <= j /\ q \in Nat
    BY <1>2
  <2>2. BorrowsEnd(b)
    BY DEF Verified, BlockHolds
  <2>3. j \in q..Len(b.code)
    BY <1>2, <2>1
  <2>4. ~Contains(b.code[j].in, v)
    BY <2>2, <2>3 DEF BorrowsEnd, Borrowed
  <2> QED BY <1>1, <1>3, <2>4 DEF Contains, IsVector
<1>6. ASSUME v \in Aliases(snap) PROVE FALSE
  <2>1. OwnedDefinitions(snap) # {} /\ OwnedListsHold(snap)
        /\ Aliases(snap) = OwnedAliases(snap, FirstOutput(snap, OwnedDefinitions(snap)))
    BY <1>6 DEF Aliases, Verified
  <2>2. old \in Instructions(snap)
    BY <1>1 DEF Instructions, ToSet
  <2>3. \A n \in DOMAIN old.in : old.in[n] \in Aliases(snap) => n = 1
    BY <2>1, <2>2 DEF OwnedListsHold
  <2> QED BY <1>3, <1>6, <2>3
<1> QED BY <1>4, <1>5, <1>6

LEMMA ForwardFits ==
  ASSUME NEW snap, Verified(snap), GetsRead(snap), NEW b \in ToSet(snap.blocks), NEW m \in Nat, m + 1 \in DOMAIN b.code,
         NEW seen, StoreSeen(b.code, m, seen), NEW e, e = ForwardStep(ValueTypes(snap), seen, b.code[m + 1])
  PROVE  Refit(snap, b, m + 1, e.instr) /\ StoreSeen(b.code, m + 1, e.seen)
<1>1. PICK old : old = b.code[m + 1]
  OBVIOUS
<1> DEFINE copy == [old EXCEPT !.op = "Copy", !.arg = NoArg, !.at = FALSE, !.in = <<seen[3]>>, !.eff = "Pure"]
           set == old.op = "ObjectSet" /\ Len(old.in) = 3
           get == old.op = "ObjectGet" /\ Len(old.in) = 2
           hit == seen # <<>> /\ old.in = <<seen[1], seen[2]>> /\ ValueTypes(snap)[seen[3]] = old.ty
<1>2. IsInstruction(old) /\ old \in Instructions(snap) /\ \A j \in 1..m : j \in DOMAIN b.code /\ j < m + 1
  <2>1. old \in Instructions(snap)
    BY <1>1 DEF Instructions, ToSet
  <2> QED BY <1>1, <2>1, VerifiedInstruction, CodeOfBody
<1>3. \/ set /\ e.instr = old /\ e.seen = old.in
      \/ get /\ hit /\ e.instr = copy /\ e.seen = seen
      \/ get /\ ~hit /\ e.instr = old /\ e.seen = seen
      \/ e.instr = old /\ (e.seen = <<>> \/ (e.seen = seen /\ ~IsBarrier(old)))
  <2>1. e = ForwardStep(ValueTypes(snap), seen, old)
    BY <1>1
  <2>2. CASE set
    BY <2>1, <2>2 DEF ForwardStep, Emit
  <2>3. CASE get /\ hit
    BY <2>1, <2>3 DEF ForwardStep, Emit
  <2>4. CASE get /\ ~hit
    BY <2>1, <2>4 DEF ForwardStep, Emit
  <2>5. CASE ~set /\ ~get
    <3>1. CASE IsBarrier(old) \/ old.eff = "Write"
      <4>1. e = Emit(old, <<>>)
        BY <2>1, <2>5, <3>1 DEF ForwardStep
      <4> QED BY <4>1 DEF Emit
    <3>2. CASE ~(IsBarrier(old) \/ old.eff = "Write")
      <4>1. e = Emit(old, seen)
        BY <2>1, <2>5, <3>2 DEF ForwardStep
      <4> QED BY <3>2, <4>1 DEF Emit
    <3> QED BY <3>1, <3>2
  <2> QED BY <2>2, <2>3, <2>4, <2>5
<1>4. ASSUME ~IsBarrier(old) PROVE StoreSeen(b.code, m + 1, seen)
  <2> SUFFICES ASSUME seen # <<>>
               PROVE  \E j \in 1..(m + 1) : /\ b.code[j].op = "ObjectSet" /\ b.code[j].in = seen /\ Len(seen) = 3
                                            /\ \A q \in (j + 1)..(m + 1) : ~IsBarrier(b.code[q])
    BY DEF StoreSeen
  <2>1. PICK j \in 1..m : /\ b.code[j].op = "ObjectSet" /\ b.code[j].in = seen /\ Len(seen) = 3
                          /\ \A q \in (j + 1)..m : ~IsBarrier(b.code[q])
    BY DEF StoreSeen
  <2>2. j \in 1..(m + 1) /\ \A q \in (j + 1)..(m + 1) : q \in (j + 1)..m \/ q = m + 1
    OBVIOUS
  <2> QED BY <1>1, <1>4, <2>1, <2>2
<1>5. CASE set /\ e.instr = old /\ e.seen = old.in
  <2>1. m + 1 \in 1..(m + 1) /\ (m + 1 + 1)..(m + 1) = {}
    OBVIOUS
  <2>2. StoreSeen(b.code, m + 1, old.in)
    BY <1>1, <1>5, <2>1 DEF StoreSeen
  <2> QED BY <1>1, <1>5, <2>2, FitsSame
<1>6. CASE get /\ hit /\ e.instr = copy /\ e.seen = seen
  <2>1. PICK v : v = seen[3]
    OBVIOUS
  <2>2. ~IsBarrier(old)
    BY <1>2, <1>6 DEF GetsRead
  <2>3. PICK j \in 1..m : /\ b.code[j].op = "ObjectSet" /\ b.code[j].in = seen /\ Len(seen) = 3
                          /\ \A q \in (j + 1)..m : ~IsBarrier(b.code[q])
    BY <1>6 DEF StoreSeen
  <2>4. j \in DOMAIN b.code /\ j < m + 1 /\ \A q \in (j + 1)..(m + 1) : ~IsBarrier(b.code[q])
    <3>1. \A q \in (j + 1)..(m + 1) : q \in (j + 1)..m \/ q = m + 1
      OBVIOUS
    <3> QED BY <1>1, <1>2, <2>2, <2>3, <3>1
  <2>5. MayUse(Sites(snap), Dominators(snap), v, b.id, m + 1) /\ Usable(b, m + 1, v) /\ v \notin Aliases(snap)
    BY <2>1, <2>3, <2>4, StoredMayBeCopied
  <2>6. ValueTypes(snap)[v] = old.ty
    BY <1>6, <2>1
  <2>7. copy = [op |-> "Copy", arg |-> NoArg, at |-> FALSE, in |-> <<v>>, out |-> old.out, ty |-> old.ty,
                eff |-> "Pure", seq |-> old.seq, point |-> old.point]
    <3>1. PICK op, known, at, in, out, ty, eff, seq, point :
                 old = [op |-> op, arg |-> known, at |-> at, in |-> in, out |-> out, ty |-> ty,
                        eff |-> eff, seq |-> seq, point |-> point]
      BY <1>2 DEF IsInstruction
    <3>2. copy = [old EXCEPT !.op = "Copy", !.arg = NoArg, !.at = FALSE, !.in = <<v>>, !.eff = "Pure"]
      BY <2>1
    <3> HIDE DEF copy
    <3> QED BY <3>1, <3>2
  <2> HIDE DEF copy, hit
  <2>8. Refit(snap, b, m + 1, copy)
    BY <1>1, <1>6, <2>5, <2>6, <2>7, CopyFits
  <2> QED BY <1>4, <1>6, <2>2, <2>8
<1>7. CASE get /\ ~hit /\ e.instr = old /\ e.seen = seen
  <2>1. ~IsBarrier(old)
    BY <1>2, <1>7 DEF GetsRead
  <2> QED BY <1>1, <1>4, <1>7, <2>1, FitsSame
<1>8. CASE e.instr = old /\ (e.seen = <<>> \/ (e.seen = seen /\ ~IsBarrier(old)))
  <2>1. StoreSeen(b.code, m + 1, <<>>)
    BY DEF StoreSeen
  <2> QED BY <1>1, <1>4, <1>8, <2>1, FitsSame
<1> HIDE DEF set, get, hit, copy
<1> QED BY <1>3, <1>5, <1>6, <1>7, <1>8

LEMMA ForwardCodeFits ==
  ASSUME NEW snap, Verified(snap), GetsRead(snap), NEW b \in ToSet(snap.blocks)
  PROVE  /\ DOMAIN ForwardCode(snap, b.code) = DOMAIN b.code
         /\ \A k \in DOMAIN b.code : Refit(snap, b, k, ForwardCode(snap, b.code)[k])
<1>1. Len(b.code) \in Nat /\ DOMAIN b.code = 1..Len(b.code)
  BY CodeOfBody
<1>2. PICK w : /\ WalksForward(snap, b.code, w, Len(b.code))
               /\ ForwardCode(snap, b.code) = [k \in DOMAIN b.code |-> w[k].instr]
  <2>1. PICK code : code = b.code
    OBVIOUS
  <2>2. PICK forwarded : forwarded = ForwardCode(snap, code)
    OBVIOUS
  <2>3. Len(code) \in Nat
    BY <1>1, <2>1
  <2>4. \E w : WalksForward(snap, code, w, Len(code)) /\ forwarded = [k \in DOMAIN code |-> w[k].instr]
    BY <2>2, <2>3, ForwardWalked
  <2> QED BY <2>1, <2>2, <2>4
<1> DEFINE T == {m \in Nat : m <= Len(b.code) => StoreSeen(b.code, m, w[m].seen)}
<1>3. 0 \in T
  BY <1>1, <1>2 DEF WalksForward, StoreSeen, Emit
<1>4. ASSUME NEW m \in Nat, StoreSeen(b.code, m, w[m].seen), m + 1 <= Len(b.code)
      PROVE  Refit(snap, b, m + 1, w[m + 1].instr) /\ StoreSeen(b.code, m + 1, w[m + 1].seen)
  <2>1. m + 1 \in 0..Len(b.code) /\ m + 1 # 0 /\ (m + 1) - 1 = m /\ m + 1 \in DOMAIN b.code
    BY <1>1, <1>4
  <2>2. w[m + 1] = ForwardStep(ValueTypes(snap), w[m].seen, b.code[m + 1])
    BY <1>2, <2>1 DEF WalksForward
  <2>3. PICK seen, e : seen = w[m].seen /\ e = w[m + 1]
    OBVIOUS
  <2> QED BY <1>4, <2>1, <2>2, <2>3, ForwardFits
<1>5. ASSUME NEW m \in Nat, m \in T PROVE m + 1 \in T
  <2>1. m + 1 <= Len(b.code) => m <= Len(b.code)
    BY <1>1
  <2> QED BY <1>4, <1>5, <2>1
<1>6. Nat \subseteq T
  <2> HIDE DEF T
  <2> QED BY <1>3, <1>5, AllNumbers
<1>7. ASSUME NEW k \in DOMAIN b.code PROVE Refit(snap, b, k, w[k].instr)
  <2>1. k - 1 \in Nat /\ k - 1 <= Len(b.code) /\ (k - 1) + 1 = k /\ k <= Len(b.code)
    BY <1>1
  <2>2. StoreSeen(b.code, k - 1, w[k - 1].seen)
    BY <1>6, <2>1
  <2> HIDE DEF T
  <2>3. PICK m \in Nat : m = k - 1
    BY <2>1
  <2> QED BY <1>4, <2>1, <2>2, <2>3
<1> QED BY <1>2, <1>7

LEMMA ForwardRefits ==
  ASSUME NEW snap, Verified(snap), GetsRead(snap) PROVE Refits(snap, HeapForward(snap))
<1> DEFINE codes == [j \in DOMAIN snap.blocks |-> ForwardCode(snap, snap.blocks[j].code)]
           blocks == [j \in DOMAIN snap.blocks |-> [snap.blocks[j] EXCEPT !.code = ForwardCode(snap, snap.blocks[j].code)]]
<1>1. Recoded(snap, HeapForward(snap), blocks, codes)
  BY DEF HeapForward, ForwardCode, EachBlock, Recoded
<1>2. \A j \in DOMAIN snap.blocks : codes[j] = ForwardCode(snap, snap.blocks[j].code)
  OBVIOUS
<1> HIDE DEF blocks, codes
<1>3. IsBody(snap)
  BY DEF Verified
<1> QED BY <1>1, <1>2, <1>3, ForwardCodeFits, RecodedRefits

\* Taking a field from the store before its read leaves a verified body verified, when no read of a field
\* was recorded as a barrier.
THEOREM ForwardingVerifies ==
  ASSUME NEW snap, Verified(snap), GetsRead(snap) PROVE Verified(HeapForward(snap))
BY ForwardRefits, RefitVerified

-----------------------------------------------------------------------------
(* The pipeline never fails at a pass that replaces instructions.          *)

WellRecorded == Sealed => CallsAdd(body, original.proofs) /\ GetsRead(body)

LEMMA RefitRecorded ==
  ASSUME NEW snap, Verified(snap), NEW proofs, CallsAdd(snap, proofs), GetsRead(snap), NEW other, Refits(snap, other)
  PROVE  CallsAdd(other, proofs) /\ GetsRead(other)
<1>1. IsBody(snap)
  BY DEF Verified
<1>2. ValueTypes(other) = ValueTypes(snap)
  <2> DEFINE T(sites) == [v \in {s.id : s \in sites} |-> (CHOOSE s \in sites : s.id = v).ty]
  <2>1. ValueTypes(other) = T(Sites(other)) /\ ValueTypes(snap) = T(Sites(snap))
    BY DEF ValueTypes
  <2> HIDE DEF T
  <2> QED BY <1>1, <2>1, RefitSites
<1>3. ASSUME NEW new \in Instructions(other), new.op \in {"Call", "ObjectGet"}
      PROVE  \E old \in Instructions(snap) : /\ new.op = old.op /\ new.arg = old.arg /\ new.in = old.in
                                             /\ new.ty = old.ty /\ new.eff \in {old.eff, "Pure"}
  <2>1. PICK b \in ToSet(snap.blocks) : \E k \in DOMAIN b.code :
           b.code[k] \in Instructions(snap) /\ Refit(snap, b, k, new)
    BY <1>1, RefitInstruction
  <2>2. PICK k \in DOMAIN b.code : b.code[k] \in Instructions(snap) /\ Refit(snap, b, k, new)
    BY <2>1
  <2>3. PICK old \in Instructions(snap) : old = b.code[k]
    BY <2>2
  <2> QED BY <1>3, <2>2, <2>3 DEF Refit
<1>4. GetsRead(other)
  <2> SUFFICES ASSUME NEW new \in Instructions(other), new.op = "ObjectGet" PROVE ~IsBarrier(new)
    BY DEF GetsRead
  <2>1. PICK old \in Instructions(snap) : old.op = "ObjectGet" /\ new.eff \in {old.eff, "Pure"}
    BY <1>3
  <2> QED BY <2>1 DEF GetsRead, IsBarrier, Barriers
<1>5. CallsAdd(other, proofs)
  <2> SUFFICES ASSUME NEW new \in Instructions(other), new.op = "Call", Len(new.in) = 2,
                      \E p \in proofs : p[1] = new.arg[2]
               PROVE  [k \in DOMAIN new.in |-> ValueTypes(other)[new.in[k]]] = <<"I64", "I64">> /\ new.ty = "I64"
    BY DEF CallsAdd
  <2>1. PICK old \in Instructions(snap) : /\ new.op = old.op /\ new.arg = old.arg /\ new.in = old.in
                                          /\ new.ty = old.ty
    BY <1>3
  <2>2. [k \in DOMAIN old.in |-> ValueTypes(snap)[old.in[k]]] = <<"I64", "I64">> /\ old.ty = "I64"
    BY <2>1 DEF CallsAdd
  <2> QED BY <1>2, <2>1, <2>2
<1> QED BY <1>4, <1>5

\* A step that leaves nothing for scalar replacement and hoisting to do.
Still ==
  /\ EscapeAndScalarReplace => ScalarReplace(body) = body
  /\ LicmAndGvn => HoistOne(body) = body

GoesWell == WellRecorded /\ stage # "failed"

LEMMA FittingPassGoesWell ==
  ASSUME GoesWell, SealedIsVerified, NEW name, NEW next, name \notin {"draft", "rejected"}, next # "failed",
         NEW rewritten, rewritten = body \/ Refits(body, rewritten), Pass(name, next, rewritten)
  PROVE  GoesWell'
<1>1. Verified(body) /\ CallsAdd(body, original.proofs) /\ GetsRead(body)
  BY DEF Pass, GoesWell, WellRecorded, SealedIsVerified, Sealed
<1>2. rewritten = body \/ Verified(rewritten)
  BY <1>1, RefitVerified
<1>3. body' = rewritten /\ stage' = next /\ original' = original
  BY <1>2 DEF Pass
<1>4. CallsAdd(rewritten, original.proofs) /\ GetsRead(rewritten)
  BY <1>1, RefitRecorded
<1>5. CallsAdd(body', original'.proofs) /\ GetsRead(body')
  BY <1>3, <1>4
<1> QED BY <1>3, <1>5 DEF GoesWell, WellRecorded, CallsAdd, GetsRead

LEMMA StepGoesWell ==
  ASSUME GoesWell, SealedIsVerified, DraftIsOriginal, [Next]_vars, [Still]_vars
  PROVE  GoesWell'
<1>1. stage \notin {"draft", "rejected"} =>
        Verified(body) /\ CallsAdd(body, original.proofs) /\ GetsRead(body)
  BY DEF GoesWell, WellRecorded, SealedIsVerified, Sealed
<1>2. CASE Seal
  <2>1. stage = "draft" /\ body = original.body /\ original \in Drafts /\ body' = body /\ original' = original
    BY <1>2 DEF Seal, DraftIsOriginal
  <2>2. CASE Verified(body)
    <3>1. CallsAdd(body, original.proofs) /\ GetsRead(body)
      BY <2>1, <2>2, RecordersAssumption
    <3>2. CallsAdd(body', original'.proofs) /\ GetsRead(body') /\ stage' # "failed"
      BY <1>2, <2>1, <2>2, <3>1 DEF Seal
    <3> QED BY <3>2 DEF GoesWell, WellRecorded, CallsAdd, GetsRead
  <2>3. CASE ~Verified(body)
    BY <1>2, <2>3 DEF Seal, GoesWell, WellRecorded, Sealed
  <2> QED BY <2>2, <2>3
<1>3. CASE PropagateAndFold
  <2>1. stage = "PropagateAndFold" /\ Pass("PropagateAndFold", "DirectObjectListCall", FoldConstants(body))
    BY <1>3 DEF PropagateAndFold, Pass
  <2>2. Refits(body, FoldConstants(body))
    BY <1>1, <2>1, FoldRefits
  <2> QED BY <2>1, <2>2, FittingPassGoesWell
<1>4. CASE DirectObjectListCall
  <2>1. stage = "DirectObjectListCall" /\ Pass("DirectObjectListCall", "GuardedInline", LowerDirect(body))
    BY <1>4 DEF DirectObjectListCall, Pass
  <2>2. Refits(body, LowerDirect(body))
    BY <1>1, <2>1, LowerRefits
  <2> QED BY <2>1, <2>2, FittingPassGoesWell
<1>5. CASE Inline
  <2>1. /\ stage = "GuardedInline"
        /\ Pass("GuardedInline", "EscapeAndScalarReplace", GuardedInline(body, original.proofs))
    BY <1>5 DEF Inline, Pass
  <2>2. Refits(body, GuardedInline(body, original.proofs))
    BY <1>1, <2>1, InlineRefits
  <2> QED BY <2>1, <2>2, FittingPassGoesWell
<1>6. CASE UNCHANGED vars
  BY <1>6 DEF vars, GoesWell, WellRecorded, Sealed, CallsAdd, GetsRead
<1>7. CASE EscapeAndScalarReplace
  <2>1. /\ stage = "EscapeAndScalarReplace"
        /\ Pass("EscapeAndScalarReplace", "HeapForward", ScalarReplace(body))
    BY <1>7 DEF EscapeAndScalarReplace, Pass
  <2>2. ScalarReplace(body) = body \/ UNCHANGED vars
    BY <1>7 DEF Still
  <2> QED BY <1>6, <2>1, <2>2, FittingPassGoesWell
<1>8. CASE ForwardHeap
  <2>1. stage = "HeapForward" /\ Pass("HeapForward", "LicmAndGvn", HeapForward(body))
    BY <1>8 DEF ForwardHeap, Pass
  <2>2. Refits(body, HeapForward(body))
    BY <1>1, <2>1, ForwardRefits
  <2> QED BY <2>1, <2>2, FittingPassGoesWell
<1>9. CASE LicmAndGvn
  <2>1. stage = "LicmAndGvn" /\ Pass("LicmAndGvn", "compiled", NumberAdds(HoistOne(body)))
    BY <1>9 DEF LicmAndGvn, Pass
  <2>2. HoistOne(body) = body \/ UNCHANGED vars
    BY <1>9 DEF Still
  <2>3. Refits(body, NumberAdds(body))
    BY <1>1, <2>1, NumberRefits
  <2> QED BY <1>6, <2>1, <2>2, <2>3, FittingPassGoesWell
<1>10. CASE Enter
  BY <1>10 DEF Enter, GoesWell, WellRecorded, Sealed, CallsAdd, GetsRead
<1>11. CASE Materialise
  BY <1>11 DEF Materialise, GoesWell, WellRecorded, Sealed, CallsAdd, GetsRead
<1> QED BY <1>2, <1>3, <1>4, <1>5, <1>6, <1>7, <1>8, <1>9, <1>10, <1>11 DEF Next

\* A compilation in which no object is replaced and no instruction is hoisted never fails: what the other
\* passes make of a sealed draft is verified again (derive_optimized).
THEOREM StillPassesVerify == Spec /\ [][Still]_vars => []PassesVerify
<1>1. Init => GoesWell
  BY DEF Init, GoesWell, WellRecorded, Sealed
<1>2. GoesWell /\ SealedIsVerified /\ DraftIsOriginal /\ [Next]_vars /\ [Still]_vars => GoesWell'
  BY StepGoesWell
<1>3. GoesWell => PassesVerify
  BY DEF GoesWell, PassesVerify
<1> QED BY <1>1, <1>2, <1>3, StaysVerified, StaysOriginal, PTL DEF Spec

=============================================================================
