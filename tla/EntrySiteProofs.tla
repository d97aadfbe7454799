--------------------------- MODULE EntrySiteProofs ---------------------------
(***************************************************************************)
(* For every number of threads and every threshold: guard exits from       *)
(* tier-1 code end, and a call fails for one of two reasons only.          *)
(***************************************************************************)
EXTENDS EntrySite, FiniteSetTheorems, TLAPS

-----------------------------------------------------------------------------
(* The invariant.                                                          *)

Places == {"idle", "entered", "bridge", "tier", "tier 1", "tier 2", "observe"}

ThreadTypes ==
  /\ pc \in [Thread -> Places]
  /\ argument \in [Thread -> Arguments]
  /\ outcome \in [Thread -> {"native", "wvm", "error"}]
  /\ cache \in [Thread -> SUBSET Code]

BridgeTypes ==
  /\ failures \in [BOOLEAN -> Nat] /\ exits \in [BOOLEAN -> Nat]
  /\ children \subseteq admitted /\ admitted \subseteq BOOLEAN
  /\ executions \in Nat

\* The threads at one of some places with a call of case c.
At(p, a, where, c) == {t \in Thread : p[t] \in where /\ ObservedCase(a[t]) = c}

Leaving(c) == At(pc, argument, {"observe"}, c)
Nearing(c) == At(pc, argument, {"tier", "tier 1"}, c)

\* Until a case has its bridge, an exit is counted or about to be.  From then on, the
\* exits to come are those of threads that passed the test for a bridge before.
Accounted(c) ==
  IF c \in children
  THEN exits[c] + Cardinality(Nearing(c)) <= BridgeThreshold + Cardinality(Thread) - 1
  ELSE failures[c] < BridgeThreshold /\ exits[c] = failures[c] + Cardinality(Leaving(c))

\* Where thread t is, and what it failed for.
Reasoned(t) ==
  /\ pc[t] # "idle" => native # Unset
  /\ pc[t] = "bridge" => ObservedCase(argument[t]) \in children
  /\ pc[t] = "tier 2" => backend = "tiered" /\ executions >= Tier2Threshold
  /\ pc[t] = "idle" /\ outcome[t] = "error" =>
       BridgeMissing(t) \/ (native # Unset /\ Tier2Exit(t))

SiteInv ==
  /\ ThreadTypes /\ BridgeTypes
  /\ \A c \in BOOLEAN : Accounted(c)
  /\ \A t \in Thread : Reasoned(t)

-----------------------------------------------------------------------------
(* What is common to the steps of a thread.                                *)

\* Nothing changes but at thread t.
OnlyAt(t) ==
  \A u \in Thread \ {t} :
    pc'[u] = pc[u] /\ argument'[u] = argument[u] /\ outcome'[u] = outcome[u] /\ cache'[u] = cache[u]

\* What is never undone.
Grows ==
  /\ children \subseteq children' /\ executions' >= executions /\ backend' = backend
  /\ native # Unset => native' = native

LEMMA OthersReasoned ==
  ASSUME SiteInv, NEW t \in Thread, OnlyAt(t), Grows, executions' \in Nat
  PROVE  \A u \in Thread \ {t} : Reasoned(u)'
<1> SUFFICES ASSUME NEW u \in Thread \ {t} PROVE Reasoned(u)'
  OBVIOUS
<1>1. /\ pc'[u] = pc[u] /\ argument'[u] = argument[u] /\ outcome'[u] = outcome[u]
      /\ cache'[u] = cache[u] /\ Reasoned(u)
  BY DEF OnlyAt, SiteInv
<1>2. executions >= Tier2Threshold => executions' >= Tier2Threshold
  BY SiteAssumption DEF SiteInv, BridgeTypes, Grows
<1>3. BridgeMissing(u) => BridgeMissing(u)'
  BY <1>1 DEF BridgeMissing, Grows
<1>4. native # Unset /\ Tier2Exit(u) => native' # Unset /\ Tier2Exit(u)'
  BY <1>1, <1>2 DEF Tier2Exit, GuardFails, Grows
<1> QED BY <1>1, <1>2, <1>3, <1>4 DEF Reasoned, Grows

LEMMA AtFacts ==
  ASSUME NEW p, NEW a, NEW where, NEW c
  PROVE  /\ At(p, a, where, c) \subseteq Thread /\ IsFiniteSet(At(p, a, where, c))
         /\ Cardinality(At(p, a, where, c)) \in Nat /\ Cardinality(Thread) \in Nat
         /\ Cardinality(At(p, a, where, c)) <= Cardinality(Thread)
<1>1. At(p, a, where, c) \subseteq Thread
  BY DEF At
<1> QED BY <1>1, SiteAssumption, FS_Subset, FS_CardinalityType

\* A case stays accounted for when nothing is counted, no thread begins to leave by it
\* or stops, and none that comes near it gets past the test for its bridge.
LEMMA StillAccounted ==
  ASSUME NEW c \in BOOLEAN, Accounted(c), BridgeTypes,
         c \in children' <=> c \in children, failures'[c] = failures[c], exits'[c] = exits[c],
         Leaving(c)' = Leaving(c), c \in children => Nearing(c)' \subseteq Nearing(c)
  PROVE  Accounted(c)'
<1>1. CASE c \in children
  <2>1. /\ Nearing(c)' \subseteq Nearing(c) /\ IsFiniteSet(Nearing(c))
        /\ Cardinality(Nearing(c)) \in Nat
    BY <1>1, AtFacts DEF Nearing
  <2>2. Cardinality(Nearing(c)') <= Cardinality(Nearing(c)) /\ Cardinality(Nearing(c)') \in Nat
    BY <2>1, FS_Subset, FS_CardinalityType
  <2>3. /\ exits[c] \in Nat /\ Cardinality(Thread) \in Nat
        /\ exits[c] + Cardinality(Nearing(c)) <= BridgeThreshold + Cardinality(Thread) - 1
    BY <1>1, SiteAssumption, FS_CardinalityType DEF BridgeTypes, Accounted
  <2>4. exits[c] + Cardinality(Nearing(c)') <= BridgeThreshold + Cardinality(Thread) - 1
    BY <2>1, <2>2, <2>3, SiteAssumption
  <2> QED BY <2>4, <1>1 DEF Accounted
<1>2. CASE c \notin children
  BY <1>2 DEF Accounted
<1> QED BY <1>1, <1>2

\* Every step that neither leaves tier-1 code by its guard nor observes that.
LEMMA QuietStep ==
  ASSUME SiteInv, NEW t \in Thread, OnlyAt(t), Grows, ThreadTypes', executions' \in Nat,
         UNCHANGED bridges, UNCHANGED exits,
         pc[t] # "observe", pc'[t] # "observe",
         pc'[t] \in {"tier", "tier 1"} =>
           /\ argument'[t] = argument[t]
           /\ pc[t] \in {"tier", "tier 1"} \/ ObservedCase(argument[t]) \notin children,
         Reasoned(t)'
  PROVE  SiteInv'
<1>1. BridgeTypes'
  BY DEF SiteInv, BridgeTypes, bridges
<1>2. ASSUME NEW c \in BOOLEAN
      PROVE  Accounted(c)'
  <2>1. Leaving(c)' = Leaving(c)
    BY DEF Leaving, At, OnlyAt
  <2>2. c \in children => Nearing(c)' \subseteq Nearing(c)
    BY DEF Nearing, At, OnlyAt
  <2> QED BY <2>1, <2>2, StillAccounted DEF SiteInv, bridges
<1>3. \A u \in Thread : Reasoned(u)'
  BY OthersReasoned
<1> QED BY <1>1, <1>2, <1>3 DEF SiteInv

LEMMA NothingLost ==
  ASSUME BridgeTypes, UNCHANGED <<site, bridges, executions>>
  PROVE  Grows /\ executions' \in Nat
  BY DEF Grows, BridgeTypes, bridges, site

\* What Goes and Ends do.
LEMMA GoesFacts ==
  ASSUME ThreadTypes, NEW t \in Thread, NEW where \in Places, Goes(t, where)
  PROVE  /\ pc' \in [Thread -> Places] /\ pc'[t] = where /\ outcome' = outcome
         /\ \A u \in Thread \ {t} : pc'[u] = pc[u]
  BY DEF Goes, ThreadTypes

LEMMA EndsFacts ==
  ASSUME ThreadTypes, NEW t \in Thread, NEW result \in {"native", "wvm", "error"}, Ends(t, result)
  PROVE  /\ pc' \in [Thread -> Places] /\ pc'[t] = "idle"
         /\ outcome' \in [Thread -> {"native", "wvm", "error"}] /\ outcome'[t] = result
         /\ \A u \in Thread \ {t} : pc'[u] = pc[u] /\ outcome'[u] = outcome[u]
  BY DEF Ends, ThreadTypes, Places

LEMMA BeginsFacts ==
  ASSUME ThreadTypes, NEW t \in Thread, NEW a \in Arguments, Begins(t, a)
  PROVE  /\ pc[t] = "idle" /\ argument' \in [Thread -> Arguments] /\ argument'[t] = a
         /\ \A u \in Thread \ {t} : argument'[u] = argument[u]
         /\ UNCHANGED <<bridges, executions, cache, exits>>
  BY DEF Begins, ThreadTypes

-----------------------------------------------------------------------------
(* The steps.                                                              *)

LEMMA CallSafe ==
  ASSUME SiteInv, NEW t \in Thread, Call(t)
  PROVE  SiteInv'
<1>0. ThreadTypes /\ BridgeTypes
  BY DEF SiteInv
<1>1. PICK a \in Arguments : CallUnsupported(t, a) \/ CallCompiled(t, a) \/ CallProfiled(t, a)
  BY DEF Call
<1>2. Begins(t, a)
  BY <1>1 DEF CallUnsupported, CallCompiled, CallProfiled
<1>3. \/ Ends(t, "wvm")
      \/ Goes(t, "entered") /\ native # Unset /\ native' = native
  BY <1>1 DEF CallUnsupported, CallCompiled, CallProfiled, site
<1>4. backend' = backend /\ (native # Unset => native' = native)
  BY <1>1 DEF CallUnsupported, CallCompiled, CallProfiled, site
<1>5. /\ pc[t] = "idle" /\ argument' \in [Thread -> Arguments] /\ argument'[t] = a
      /\ \A u \in Thread \ {t} : argument'[u] = argument[u]
      /\ UNCHANGED <<bridges, executions, cache, exits>>
  BY <1>0, <1>2, BeginsFacts
<1>6. Grows /\ executions' \in Nat
  BY <1>0, <1>4, <1>5 DEF Grows, BridgeTypes, bridges
<1>7. CASE Ends(t, "wvm")
  <2>1. /\ pc' \in [Thread -> Places] /\ pc'[t] = "idle"
        /\ outcome' \in [Thread -> {"native", "wvm", "error"}] /\ outcome'[t] = "wvm"
        /\ \A u \in Thread \ {t} : pc'[u] = pc[u] /\ outcome'[u] = outcome[u]
    BY <1>0, <1>7, EndsFacts
  <2>2. OnlyAt(t) /\ ThreadTypes' /\ Reasoned(t)'
    BY <2>1, <1>0, <1>5 DEF OnlyAt, ThreadTypes, Reasoned
  <2> QED BY <2>1, <2>2, <1>5, <1>6, QuietStep
<1>8. CASE Goes(t, "entered") /\ native # Unset /\ native' = native
  <2>1. /\ pc' \in [Thread -> Places] /\ pc'[t] = "entered" /\ outcome' = outcome
        /\ \A u \in Thread \ {t} : pc'[u] = pc[u]
    BY <1>0, <1>8, GoesFacts DEF Places
  <2>2. OnlyAt(t) /\ ThreadTypes' /\ Reasoned(t)'
    BY <2>1, <1>0, <1>5, <1>8 DEF OnlyAt, ThreadTypes, Reasoned
  <2> QED BY <2>1, <2>2, <1>5, <1>6, QuietStep
<1> QED BY <1>3, <1>7, <1>8

LEMMA EnterSafe ==
  ASSUME SiteInv, NEW t \in Thread, Enter(t)
  PROVE  SiteInv'
<1> DEFINE where == IF ObservedCase(argument[t]) \in children THEN "bridge" ELSE "tier"
<1>0. ThreadTypes /\ BridgeTypes /\ pc[t] = "entered" /\ Reasoned(t)
  BY DEF SiteInv, Enter
<1>1. /\ where \in Places /\ Goes(t, where)
      /\ UNCHANGED <<site, bridges, executions, cache, argument, exits>>
  BY DEF Enter, Places, history
<1>2. /\ pc' \in [Thread -> Places] /\ pc'[t] = where /\ outcome' = outcome
      /\ \A u \in Thread \ {t} : pc'[u] = pc[u]
  BY <1>0, <1>1, GoesFacts
<1>3. Grows /\ executions' \in Nat /\ OnlyAt(t) /\ ThreadTypes'
  <2>1. Grows /\ executions' \in Nat
    BY <1>0, <1>1, NothingLost
  <2>2. OnlyAt(t) /\ ThreadTypes'
    BY <1>0, <1>1, <1>2 DEF OnlyAt, ThreadTypes
  <2> QED BY <2>1, <2>2
<1>4. Reasoned(t)'
  BY <1>0, <1>1, <1>2 DEF Reasoned, site, bridges
<1> QED BY <1>0, <1>1, <1>2, <1>3, <1>4, QuietStep

LEMMA RunBridgeSafe ==
  ASSUME SiteInv, NEW t \in Thread, RunBridge(t)
  PROVE  SiteInv'
<1> DEFINE c == ObservedCase(argument[t])
           result == IF BridgeCode(c) \notin cache[t] THEN "error"
                     ELSE IF Accepts(argument[t]) THEN "native" ELSE Rejected
<1>0. ThreadTypes /\ BridgeTypes /\ pc[t] = "bridge" /\ c \in children /\ native # Unset
  BY DEF SiteInv, RunBridge, Reasoned
<1>1. /\ result \in {"native", "wvm", "error"} /\ Ends(t, result)
      /\ UNCHANGED <<site, bridges, executions, cache, argument, exits>>
  BY DEF RunBridge, Rejected, history
<1>2. /\ pc' \in [Thread -> Places] /\ pc'[t] = "idle"
      /\ outcome' \in [Thread -> {"native", "wvm", "error"}] /\ outcome'[t] = result
      /\ \A u \in Thread \ {t} : pc'[u] = pc[u] /\ outcome'[u] = outcome[u]
  BY <1>0, <1>1, EndsFacts
<1>3. Grows /\ executions' \in Nat /\ OnlyAt(t) /\ ThreadTypes'
  <2>1. Grows /\ executions' \in Nat
    BY <1>0, <1>1, NothingLost
  <2>2. OnlyAt(t) /\ ThreadTypes'
    BY <1>0, <1>1, <1>2 DEF OnlyAt, ThreadTypes
  <2> QED BY <2>1, <2>2
<1>4. result = "error" => BridgeCode(c) \notin cache[t]
  BY DEF Rejected
<1>5. Reasoned(t)'
  BY <1>0, <1>1, <1>2, <1>4 DEF Reasoned, BridgeMissing, bridges
<1> QED BY <1>0, <1>1, <1>2, <1>3, <1>5, QuietStep

LEMMA ChooseTierSafe ==
  ASSUME SiteInv, NEW t \in Thread, ChooseTier(t)
  PROVE  SiteInv'
<1> DEFINE two == Llvm /\ backend = "tiered" /\ executions >= Tier2Threshold
           where == IF two THEN "tier 2" ELSE "tier 1"
<1>0. ThreadTypes /\ BridgeTypes /\ pc[t] = "tier" /\ native # Unset
  BY DEF SiteInv, ChooseTier, Reasoned
<1>1. /\ where \in Places /\ Goes(t, where)
      /\ UNCHANGED <<site, bridges, executions, cache, argument, exits>>
  BY DEF ChooseTier, Places, history
<1>2. /\ pc' \in [Thread -> Places] /\ pc'[t] = where /\ outcome' = outcome
      /\ \A u \in Thread \ {t} : pc'[u] = pc[u]
  BY <1>0, <1>1, GoesFacts
<1>3. Grows /\ executions' \in Nat /\ OnlyAt(t) /\ ThreadTypes'
  <2>1. Grows /\ executions' \in Nat
    BY <1>0, <1>1, NothingLost
  <2>2. OnlyAt(t) /\ ThreadTypes'
    BY <1>0, <1>1, <1>2 DEF OnlyAt, ThreadTypes
  <2> QED BY <2>1, <2>2
<1>4. Reasoned(t)'
  BY <1>0, <1>1, <1>2 DEF Reasoned, site
<1> QED BY <1>0, <1>1, <1>2, <1>3, <1>4, QuietStep

LEMMA RunTier2Safe ==
  ASSUME SiteInv, NEW t \in Thread, RunTier2(t)
  PROVE  SiteInv'
<1> DEFINE result == IF ~Accepts(argument[t]) THEN Rejected
                     ELSE IF GuardFails(argument[t]) THEN "error" ELSE "native"
<1>0. /\ ThreadTypes /\ BridgeTypes /\ pc[t] = "tier 2" /\ native # Unset
      /\ backend = "tiered" /\ executions >= Tier2Threshold
  BY DEF SiteInv, RunTier2, Reasoned
<1>1. /\ result \in {"native", "wvm", "error"} /\ Ends(t, result)
      /\ UNCHANGED <<site, bridges, executions, argument, exits>>
      /\ cache' = [cache EXCEPT ![t] = @ \cup {Tier2Code}]
  BY DEF RunTier2, Rejected, history
<1>2. /\ pc' \in [Thread -> Places] /\ pc'[t] = "idle"
      /\ outcome' \in [Thread -> {"native", "wvm", "error"}] /\ outcome'[t] = result
      /\ \A u \in Thread \ {t} : pc'[u] = pc[u] /\ outcome'[u] = outcome[u]
  BY <1>0, <1>1, EndsFacts
<1>3. cache' \in [Thread -> SUBSET Code] /\ \A u \in Thread \ {t} : cache'[u] = cache[u]
  <2>1. Tier2Code \in Code
    BY DEF Code
  <2> QED BY <2>1, <1>0, <1>1 DEF ThreadTypes
<1>4. Grows /\ executions' \in Nat /\ OnlyAt(t) /\ ThreadTypes'
  <2>1. Grows /\ executions' \in Nat
    BY <1>0, <1>1, NothingLost
  <2>2. OnlyAt(t) /\ ThreadTypes'
    BY <1>0, <1>1, <1>2, <1>3 DEF OnlyAt, ThreadTypes
  <2> QED BY <2>1, <2>2
<1>5. result = "error" => GuardFails(argument[t])
  BY DEF Rejected
<1>6. Reasoned(t)'
  BY <1>0, <1>1, <1>2, <1>5 DEF Reasoned, Tier2Exit, GuardFails, site
<1> QED BY <1>0, <1>1, <1>2, <1>4, <1>6, QuietStep

LEMMA RefuseTier1Safe ==
  ASSUME SiteInv, NEW t \in Thread, RefuseTier1(t)
  PROVE  SiteInv'
<1>0. ThreadTypes /\ BridgeTypes /\ pc[t] = "tier 1"
  BY DEF SiteInv, RefuseTier1
<1>1. Ends(t, "wvm") /\ UNCHANGED <<site, bridges, executions, cache, argument, exits>>
  BY DEF RefuseTier1, Rejected, history
<1>2. /\ pc' \in [Thread -> Places] /\ pc'[t] = "idle"
      /\ outcome' \in [Thread -> {"native", "wvm", "error"}] /\ outcome'[t] = "wvm"
      /\ \A u \in Thread \ {t} : pc'[u] = pc[u] /\ outcome'[u] = outcome[u]
  BY <1>0, <1>1, EndsFacts
<1>3. Grows /\ executions' \in Nat /\ OnlyAt(t) /\ ThreadTypes' /\ Reasoned(t)'
  <2>1. Grows /\ executions' \in Nat
    BY <1>0, <1>1, NothingLost
  <2>2. OnlyAt(t) /\ ThreadTypes' /\ Reasoned(t)'
    BY <1>0, <1>1, <1>2 DEF OnlyAt, ThreadTypes, Reasoned
  <2> QED BY <2>1, <2>2
<1> QED BY <1>0, <1>1, <1>2, <1>3, QuietStep

LEMMA CountedFacts ==
  ASSUME NEW S, NEW f \in [S -> Nat], NEW d \in S, NEW g, g = [f EXCEPT ![d] = @ + 1]
  PROVE  /\ g \in [S -> Nat] /\ g[d] = f[d] + 1 /\ f[d] \in Nat
         /\ \A c \in S \ {d} : g[c] = f[c]
  OBVIOUS

\* The steps of tier-1 code: a place, types, and what it leaves alone.
LEMMA Tier1Facts ==
  ASSUME SiteInv, NEW t \in Thread, RunTier1(t)
  PROVE  /\ ThreadTypes /\ BridgeTypes /\ pc[t] = "tier 1" /\ native # Unset
         /\ UNCHANGED <<site, bridges, cache, argument>>
         /\ Grows /\ executions' \in Nat
<1>1. ThreadTypes /\ BridgeTypes /\ pc[t] = "tier 1" /\ native # Unset
  BY DEF SiteInv, RunTier1, Reasoned
<1>2. /\ executions' = IF executions < Tier2Threshold THEN executions + 1 ELSE executions
      /\ UNCHANGED <<site, bridges, cache, argument>>
  BY DEF RunTier1
<1>3. executions' \in Nat /\ executions' >= executions
  <2>1. executions \in Nat
    BY <1>1 DEF BridgeTypes
  <2> QED BY <1>2, <2>1, SiteAssumption
<1>4. Grows
  BY <1>2, <1>3 DEF Grows, bridges, site
<1> QED BY <1>1, <1>2, <1>3, <1>4

\* A thread that leaves by the guard was near the exit; it is about to be counted.
LEMMA GuardExitSafe ==
  ASSUME SiteInv, NEW t \in Thread, RunTier1(t), GuardFails(argument[t]),
         NEW d \in BOOLEAN, d = ObservedCase(argument[t])
  PROVE  SiteInv'
<1>1. ThreadTypes /\ BridgeTypes /\ pc[t] = "tier 1" /\ native # Unset
  BY Tier1Facts
<1>2. UNCHANGED <<site, bridges, cache, argument>>
  BY Tier1Facts
<1>3. Grows /\ executions' \in Nat
  BY Tier1Facts
<1>4. exits' = [exits EXCEPT ![d] = @ + 1] /\ Goes(t, "observe")
  BY DEF RunTier1
<1>5. /\ pc' \in [Thread -> Places] /\ pc'[t] = "observe" /\ outcome' = outcome
      /\ \A u \in Thread \ {t} : pc'[u] = pc[u]
  BY <1>1, <1>4, GoesFacts DEF Places
<1>6. OnlyAt(t) /\ ThreadTypes' /\ Reasoned(t)'
  BY <1>1, <1>2, <1>5 DEF OnlyAt, ThreadTypes, Reasoned, site
<1>7. BridgeTypes' /\ exits'[d] = exits[d] + 1 /\ exits[d] \in Nat
      /\ \A c \in BOOLEAN \ {d} : exits'[c] = exits[c]
  <2>1. exits \in [BOOLEAN -> Nat]
    BY <1>1 DEF BridgeTypes
  <2>2. /\ exits' \in [BOOLEAN -> Nat] /\ exits'[d] = exits[d] + 1 /\ exits[d] \in Nat
        /\ \A c \in BOOLEAN \ {d} : exits'[c] = exits[c]
    BY <2>1, <1>4, CountedFacts
  <2> QED BY <2>2, <1>1, <1>2, <1>3 DEF BridgeTypes, bridges
<1>8. ASSUME NEW c \in BOOLEAN, c # d
      PROVE  Accounted(c)'
  <2>1. Leaving(c)' = Leaving(c)
    <3>1. ObservedCase(argument[t]) # c /\ argument' = argument
      BY <1>2, <1>8
    <3>2. \A u \in Thread : u \in Leaving(c)' <=> u \in Leaving(c)
      BY <3>1, <1>5 DEF Leaving, At
    <3> QED BY <3>2 DEF Leaving, At
  <2>2. Nearing(c)' \subseteq Nearing(c)
    BY <1>2, <1>5 DEF Nearing, At
  <2> QED BY <2>1, <2>2, <1>1, <1>2, <1>7, <1>8, StillAccounted DEF SiteInv, bridges
<1>9. Accounted(d)'
  <2>1. CASE d \in children
    <3>1. t \in Nearing(d) /\ Nearing(d)' = Nearing(d) \ {t}
      BY <1>1, <1>2, <1>5 DEF Nearing, At
    <3>2. /\ Cardinality(Nearing(d)') = Cardinality(Nearing(d)) - 1
          /\ Cardinality(Nearing(d)) \in Nat
      <4>1. IsFiniteSet(Nearing(d)) /\ Cardinality(Nearing(d)) \in Nat
        BY AtFacts DEF Nearing
      <4> QED BY <4>1, <3>1, FS_RemoveElement
    <3>3. exits[d] + Cardinality(Nearing(d)) <= BridgeThreshold + Cardinality(Thread) - 1
      BY <1>1, <2>1 DEF SiteInv, Accounted
    <3>4. Cardinality(Thread) \in Nat
      BY SiteAssumption, FS_CardinalityType
    <3>5. exits'[d] + Cardinality(Nearing(d)') <= BridgeThreshold + Cardinality(Thread) - 1
      BY <1>7, <3>2, <3>3, <3>4, SiteAssumption
    <3> QED BY <3>5, <2>1, <1>2 DEF Accounted, bridges
  <2>2. CASE d \notin children
    <3>1. t \notin Leaving(d) /\ Leaving(d)' = Leaving(d) \cup {t}
      BY <1>1, <1>2, <1>5 DEF Leaving, At
    <3>2. /\ Cardinality(Leaving(d)') = Cardinality(Leaving(d)) + 1
          /\ Cardinality(Leaving(d)) \in Nat
      BY <3>1, AtFacts, FS_AddElement DEF Leaving
    <3>3. failures[d] < BridgeThreshold /\ exits[d] = failures[d] + Cardinality(Leaving(d))
          /\ failures[d] \in Nat
      BY <1>1, <2>2 DEF SiteInv, Accounted, BridgeTypes
    <3>4. exits'[d] = failures[d] + Cardinality(Leaving(d)')
      BY <1>7, <3>2, <3>3
    <3> QED BY <3>3, <3>4, <2>2, <1>2 DEF Accounted, bridges
  <2> QED BY <2>1, <2>2
<1>10. \A u \in Thread : Reasoned(u)'
  BY <1>3, <1>6, OthersReasoned
<1>11. \A c \in BOOLEAN : Accounted(c)'
  <2> SUFFICES ASSUME NEW c \in BOOLEAN PROVE Accounted(c)'
    OBVIOUS
  <2>1. CASE c = d
    BY <2>1, <1>9, Zenon
  <2>2. CASE c # d
    BY <2>2, <1>8, Zenon
  <2> QED BY <2>1, <2>2, Zenon
<1> QED BY <1>6, <1>7, <1>11, <1>10 DEF SiteInv


LEMMA CaseType ==
  ASSUME ThreadTypes, NEW t \in Thread
  PROVE  \E d \in BOOLEAN : d = ObservedCase(argument[t])
<1>1. argument[t] \in Arguments
  BY DEF ThreadTypes
<1> QED BY <1>1 DEF Arguments, ObservedCase

LEMMA RunTier1Safe ==
  ASSUME SiteInv, NEW t \in Thread, RunTier1(t)
  PROVE  SiteInv'
<1>1. /\ ThreadTypes /\ BridgeTypes /\ pc[t] = "tier 1" /\ native # Unset
      /\ UNCHANGED <<site, bridges, cache, argument>>
  BY Tier1Facts
<1>2. Grows /\ executions' \in Nat
  BY Tier1Facts
<1>3. CASE ~GuardFails(argument[t])
  <2>1. Ends(t, "native") /\ UNCHANGED exits
    BY <1>3 DEF RunTier1
  <2>2. /\ pc' \in [Thread -> Places] /\ pc'[t] = "idle"
        /\ outcome' \in [Thread -> {"native", "wvm", "error"}] /\ outcome'[t] = "native"
        /\ \A u \in Thread \ {t} : pc'[u] = pc[u] /\ outcome'[u] = outcome[u]
    BY <1>1, <2>1, EndsFacts
  <2>3. OnlyAt(t) /\ ThreadTypes' /\ Reasoned(t)'
    BY <1>1, <2>2 DEF OnlyAt, ThreadTypes, Reasoned
  <2> QED BY <1>1, <1>2, <2>1, <2>2, <2>3, QuietStep
<1>4. CASE GuardFails(argument[t])
  BY <1>1, <1>4, CaseType, GuardExitSafe
<1> QED BY <1>3, <1>4

\* There is a place among the bridges for each case.
LEMMA NoneRefused ==
  ASSUME BridgeTypes, NEW c \in BOOLEAN
  PROVE  ~(c \notin admitted /\ Cardinality(admitted) >= MaxBridges)
<1> SUFFICES ASSUME c \notin admitted PROVE ~(Cardinality(admitted) >= MaxBridges)
  OBVIOUS
<1>1. admitted \subseteq {~c}
  BY DEF BridgeTypes
<1>2. IsFiniteSet({~c}) /\ Cardinality({~c}) = 1
  BY FS_Singleton
<1>3. Cardinality(admitted) <= 1 /\ Cardinality(admitted) \in Nat
  BY <1>1, <1>2, FS_Subset, FS_CardinalityType
<1> QED BY <1>3, SiteAssumption

\* What Observe finds, and makes of it.
ObserveFinds(t, c) ==
  \/ /\ c \in children
     /\ Goes(t, "bridge") /\ UNCHANGED <<bridges, cache>>
  \/ /\ c \notin children /\ failures[c] + 1 < BridgeThreshold
     /\ failures' = Counted(failures, c)
     /\ Ends(t, "wvm") /\ UNCHANGED <<admitted, children, cache>>
  \/ /\ c \notin children /\ failures[c] + 1 = BridgeThreshold
     /\ failures' = Counted(failures, c)
     /\ admitted' = admitted \cup {c} /\ children' = children \cup {c}
     /\ cache' = [cache EXCEPT ![t] = @ \cup {BridgeCode(c)}]
     /\ Goes(t, "bridge")

LEMMA ObserveCases ==
  ASSUME SiteInv, NEW t \in Thread, Observe(t), NEW c \in BOOLEAN, c = ObservedCase(argument[t])
  PROVE  ObserveFinds(t, c)
<1> DEFINE counted == Counted(failures, c)
<1>1. CASE c \in children
  BY <1>1 DEF Observe, ObserveFinds
<1>2. CASE c \notin children
  <2>1. failures \in [BOOLEAN -> Nat] /\ BridgeTypes /\ failures[c] < BridgeThreshold
    BY <1>2 DEF SiteInv, BridgeTypes, Accounted
  <2>2. counted[c] = failures[c] + 1 /\ failures[c] \in Nat
    BY <2>1, CountedFacts DEF Counted
  <2>3. ~(c \notin admitted /\ Cardinality(admitted) >= MaxBridges)
    BY <2>1, NoneRefused
  <2> HIDE DEF counted
  <2>4. /\ failures' = counted
        /\ IF Hot(counted[c])
           THEN /\ admitted' = admitted \cup {c}
                /\ children' = children \cup {c}
                /\ cache' = [cache EXCEPT ![t] = @ \cup {BridgeCode(c)}]
                /\ Goes(t, "bridge")
           ELSE Ends(t, "wvm") /\ UNCHANGED <<admitted, children, cache>>
    BY <1>2, <2>3 DEF Observe, counted
  <2>5. CASE Hot(counted[c])
    <3>1. failures[c] + 1 = BridgeThreshold
      BY <2>1, <2>2, <2>5, SiteAssumption DEF Hot
    <3> QED BY <3>1, <2>4, <2>5, <1>2 DEF ObserveFinds, counted
  <2>6. CASE ~Hot(counted[c])
    <3>1. failures[c] + 1 < BridgeThreshold
      BY <2>1, <2>2, <2>6, SiteAssumption DEF Hot
    <3> QED BY <3>1, <2>4, <2>6, <1>2 DEF ObserveFinds, counted
  <2> QED BY <2>5, <2>6
<1> QED BY <1>1, <1>2

\* A failure is counted by the thread that made it, and the one that makes the case hot
\* links its bridge: what was counted or about to be becomes what may still come.
LEMMA ObserveSafe ==
  ASSUME SiteInv, NEW t \in Thread, Observe(t), NEW d \in BOOLEAN, d = ObservedCase(argument[t])
  PROVE  SiteInv'
<1>1. ThreadTypes /\ BridgeTypes /\ pc[t] = "observe" /\ native # Unset /\ Accounted(d)
  BY DEF SiteInv, Observe, Reasoned
<1>2. UNCHANGED <<site, executions, argument, exits>> /\ executions' \in Nat
  BY <1>1 DEF Observe, history, BridgeTypes
<1>3. ObserveFinds(t, d)
  BY ObserveCases
<1>4. ASSUME NEW c \in BOOLEAN, c # d, pc'[t] \notin {"tier", "tier 1"},
             \A u \in Thread \ {t} : pc'[u] = pc[u],
             c \in children' <=> c \in children, failures'[c] = failures[c]
      PROVE  Accounted(c)'
  <2>1. Leaving(c)' \subseteq Leaving(c) \cup {t} /\ t \notin Leaving(c) /\ t \notin Leaving(c)'
        /\ Leaving(c) \subseteq Leaving(c)' /\ Nearing(c)' \subseteq Nearing(c)
    BY <1>2, <1>4 DEF Leaving, Nearing, At
  <2>2. Leaving(c)' = Leaving(c)
    BY <2>1
  <2> QED BY <2>1, <2>2, <1>1, <1>2, <1>4, StillAccounted DEF SiteInv
<1>5. CASE d \in children /\ Goes(t, "bridge") /\ UNCHANGED <<bridges, cache>>
  <2>1. /\ pc' \in [Thread -> Places] /\ pc'[t] = "bridge" /\ outcome' = outcome
        /\ \A u \in Thread \ {t} : pc'[u] = pc[u]
    BY <1>1, <1>5, GoesFacts DEF Places
  <2>2. Grows /\ BridgeTypes'
    BY <1>1, <1>2, <1>5, NothingLost DEF BridgeTypes, bridges
  <2>3. OnlyAt(t) /\ ThreadTypes' /\ Reasoned(t)'
    BY <1>1, <1>2, <1>5, <2>1 DEF OnlyAt, ThreadTypes, Reasoned, site, bridges
  <2>4. Accounted(d)'
    <3>1. Nearing(d)' \subseteq Nearing(d)
      BY <1>2, <2>1 DEF Nearing, At
    <3>2. /\ IsFiniteSet(Nearing(d)) /\ Cardinality(Nearing(d)) \in Nat
          /\ Cardinality(Thread) \in Nat
      BY AtFacts DEF Nearing
    <3>3. Cardinality(Nearing(d)') <= Cardinality(Nearing(d)) /\ Cardinality(Nearing(d)') \in Nat
      BY <3>1, <3>2, FS_Subset, FS_CardinalityType
    <3>4. exits[d] + Cardinality(Nearing(d)) <= BridgeThreshold + Cardinality(Thread) - 1
          /\ exits[d] \in Nat
      BY <1>1, <1>5 DEF Accounted, BridgeTypes
    <3>5. exits[d] + Cardinality(Nearing(d)') <= BridgeThreshold + Cardinality(Thread) - 1
      BY <3>2, <3>3, <3>4, SiteAssumption
    <3> QED BY <3>5, <1>2, <1>5 DEF Accounted, bridges
  <2>5. \A c \in BOOLEAN : Accounted(c)'
    <3> SUFFICES ASSUME NEW c \in BOOLEAN PROVE Accounted(c)'
      OBVIOUS
    <3>1. (c \in children' <=> c \in children) /\ failures'[c] = failures[c]
      BY <1>5 DEF bridges
    <3>2. c # d => Accounted(c)'
      BY <3>1, <2>1, <1>4
    <3> QED BY <3>2, <2>4, Zenon
  <2> QED BY <1>2, <2>2, <2>3, <2>5, OthersReasoned DEF SiteInv
<1>6. CASE /\ d \notin children /\ failures[d] + 1 < BridgeThreshold
           /\ failures' = Counted(failures, d)
           /\ Ends(t, "wvm") /\ UNCHANGED <<admitted, children, cache>>
  <2>1. /\ pc' \in [Thread -> Places] /\ pc'[t] = "idle"
        /\ outcome' \in [Thread -> {"native", "wvm", "error"}] /\ outcome'[t] = "wvm"
        /\ \A u \in Thread \ {t} : pc'[u] = pc[u] /\ outcome'[u] = outcome[u]
    BY <1>1, <1>6, EndsFacts
  <2>2. /\ failures' \in [BOOLEAN -> Nat] /\ failures'[d] = failures[d] + 1 /\ failures[d] \in Nat
        /\ \A c \in BOOLEAN \ {d} : failures'[c] = failures[c]
    <3>1. failures \in [BOOLEAN -> Nat] /\ failures' = [failures EXCEPT ![d] = @ + 1]
      BY <1>1, <1>6 DEF BridgeTypes, Counted
    <3> QED BY <3>1, CountedFacts
  <2>3. BridgeTypes' /\ Grows
    <3>1. executions' >= executions
      BY <1>1, <1>2 DEF BridgeTypes
    <3> QED BY <3>1, <1>1, <1>2, <1>6, <2>2 DEF BridgeTypes, Grows, site
  <2>4. OnlyAt(t) /\ ThreadTypes' /\ Reasoned(t)'
    BY <1>1, <1>2, <1>6, <2>1 DEF OnlyAt, ThreadTypes, Reasoned
  <2>5. Accounted(d)'
    <3>1. t \in Leaving(d) /\ Leaving(d)' = Leaving(d) \ {t}
      BY <1>1, <1>2, <2>1 DEF Leaving, At
    <3>2. /\ Cardinality(Leaving(d)') = Cardinality(Leaving(d)) - 1
          /\ Cardinality(Leaving(d)) \in Nat
      BY <3>1, AtFacts, FS_RemoveElement DEF Leaving
    <3>3. exits[d] = failures[d] + Cardinality(Leaving(d))
      BY <1>1, <1>6 DEF Accounted
    <3>4. exits[d] = failures'[d] + Cardinality(Leaving(d)') /\ failures'[d] < BridgeThreshold
      BY <1>6, <2>2, <3>2, <3>3
    <3> QED BY <3>4, <1>2, <1>6 DEF Accounted
  <2>6. \A c \in BOOLEAN : Accounted(c)'
    <3> SUFFICES ASSUME NEW c \in BOOLEAN PROVE Accounted(c)'
      OBVIOUS
    <3>1. c # d => (c \in children' <=> c \in children) /\ failures'[c] = failures[c]
      BY <1>6, <2>2
    <3>2. c # d => Accounted(c)'
      BY <3>1, <2>1, <1>4
    <3> QED BY <3>2, <2>5, Zenon
  <2> QED BY <1>2, <2>3, <2>4, <2>6, OthersReasoned DEF SiteInv
<1>7. CASE /\ d \notin children /\ failures[d] + 1 = BridgeThreshold
           /\ failures' = Counted(failures, d)
           /\ admitted' = admitted \cup {d} /\ children' = children \cup {d}
           /\ cache' = [cache EXCEPT ![t] = @ \cup {BridgeCode(d)}]
           /\ Goes(t, "bridge")
  <2>1. /\ pc' \in [Thread -> Places] /\ pc'[t] = "bridge" /\ outcome' = outcome
        /\ \A u \in Thread \ {t} : pc'[u] = pc[u]
    BY <1>1, <1>7, GoesFacts DEF Places
  <2>2. /\ failures' \in [BOOLEAN -> Nat] /\ failures[d] \in Nat
        /\ \A c \in BOOLEAN \ {d} : failures'[c] = failures[c]
    <3>1. failures \in [BOOLEAN -> Nat] /\ failures' = [failures EXCEPT ![d] = @ + 1]
      BY <1>1, <1>7 DEF BridgeTypes, Counted
    <3> QED BY <3>1, CountedFacts
  <2>3. BridgeTypes' /\ Grows
    <3>1. executions' >= executions
      BY <1>1, <1>2 DEF BridgeTypes
    <3> QED BY <3>1, <1>1, <1>2, <1>7, <2>2 DEF BridgeTypes, Grows, site
  <2>4. cache' \in [Thread -> SUBSET Code] /\ \A u \in Thread \ {t} : cache'[u] = cache[u]
    <3>1. BridgeCode(d) \in Code
      BY DEF Code
    <3> QED BY <3>1, <1>1, <1>7 DEF ThreadTypes
  <2>5. OnlyAt(t) /\ ThreadTypes' /\ Reasoned(t)'
    BY <1>1, <1>2, <1>7, <2>1, <2>4 DEF OnlyAt, ThreadTypes, Reasoned, site
  <2>6. Accounted(d)'
    <3>1. Nearing(d)' = Nearing(d) /\ Nearing(d) \cap Leaving(d) = {}
      BY <1>1, <1>2, <2>1 DEF Nearing, Leaving, At
    <3>2. /\ IsFiniteSet(Nearing(d)) /\ Cardinality(Nearing(d)) \in Nat
          /\ IsFiniteSet(Leaving(d)) /\ Cardinality(Leaving(d)) \in Nat
          /\ Cardinality(Thread) \in Nat
          /\ Nearing(d) \cup Leaving(d) \subseteq Thread
      BY AtFacts DEF Nearing, Leaving
    <3>3. Cardinality(Nearing(d) \cup Leaving(d))
            = Cardinality(Nearing(d)) + Cardinality(Leaving(d)) - 0
      BY <3>1, <3>2, FS_Union, FS_EmptySet
    <3>4. Cardinality(Nearing(d) \cup Leaving(d)) <= Cardinality(Thread)
      BY <3>2, SiteAssumption, FS_Subset
    <3>5. exits[d] = failures[d] + Cardinality(Leaving(d))
      BY <1>1, <1>7 DEF Accounted
    <3>6. exits[d] + Cardinality(Nearing(d)) <= BridgeThreshold + Cardinality(Thread) - 1
      BY <1>7, <2>2, <3>2, <3>3, <3>4, <3>5, SiteAssumption
    <3> QED BY <3>1, <3>6, <1>2, <1>7 DEF Accounted
  <2>7. \A c \in BOOLEAN : Accounted(c)'
    <3> SUFFICES ASSUME NEW c \in BOOLEAN PROVE Accounted(c)'
      OBVIOUS
    <3>1. c # d => (c \in children' <=> c \in children) /\ failures'[c] = failures[c]
      BY <1>7, <2>2
    <3>2. c # d => Accounted(c)'
      BY <3>1, <2>1, <1>4
    <3> QED BY <3>2, <2>6, Zenon
  <2> QED BY <1>2, <2>3, <2>5, <2>7, OthersReasoned DEF SiteInv
<1> QED BY <1>3, <1>5, <1>6, <1>7 DEF ObserveFinds

LEMMA LoseCodeSafe ==
  ASSUME SiteInv, NEW t \in Thread, NEW code \in Code, LoseCode(t, code)
  PROVE  SiteInv'
<1>1. /\ ThreadTypes /\ BridgeTypes /\ Reasoned(t) /\ pc[t] = "idle"
      /\ cache' = [cache EXCEPT ![t] = @ \ {code}]
      /\ UNCHANGED <<site, bridges, executions, pc, argument, outcome, exits>>
  BY DEF SiteInv, LoseCode, history
<1>2. Grows /\ executions' \in Nat
  BY <1>1, NothingLost
<1>3. /\ cache' \in [Thread -> SUBSET Code] /\ cache'[t] \subseteq cache[t]
      /\ \A u \in Thread \ {t} : cache'[u] = cache[u]
  BY <1>1 DEF ThreadTypes
<1>4. OnlyAt(t) /\ ThreadTypes'
  BY <1>1, <1>3 DEF OnlyAt, ThreadTypes
<1>5. Reasoned(t)'
  BY <1>1, <1>3 DEF Reasoned, BridgeMissing, Tier2Exit, GuardFails, site, bridges
<1> QED BY <1>1, <1>2, <1>4, <1>5, QuietStep

LEMMA SiteInit == Init => SiteInv
<1> SUFFICES ASSUME Init PROVE SiteInv
  OBVIOUS
<1>1. ThreadTypes
  BY DEF Init, ThreadTypes, Places, Arguments
<1>2. BridgeTypes
  BY DEF Init, BridgeTypes
<1>3. ASSUME NEW c \in BOOLEAN PROVE Accounted(c)
  <2>1. Leaving(c) = {}
    BY DEF Init, Leaving, At
  <2>2. Cardinality(Leaving(c)) = 0 /\ failures[c] = 0 /\ exits[c] = 0 /\ c \notin children
    BY <2>1, FS_EmptySet DEF Init
  <2>3. 0 < BridgeThreshold
    BY SiteAssumption
  <2> QED BY <2>2, <2>3 DEF Accounted
<1>4. \A t \in Thread : Reasoned(t)
  BY DEF Init, Reasoned
<1> QED BY <1>1, <1>2, <1>3, <1>4 DEF SiteInv

LEMMA SiteNext == SiteInv /\ [Next]_vars => SiteInv'
<1> SUFFICES ASSUME SiteInv, [Next]_vars PROVE SiteInv'
  OBVIOUS
<1>1. ASSUME NEW t \in Thread, Call(t) PROVE SiteInv'
  BY <1>1, CallSafe
<1>2. ASSUME NEW t \in Thread, Enter(t) PROVE SiteInv'
  BY <1>2, EnterSafe
<1>3. ASSUME NEW t \in Thread, RunBridge(t) PROVE SiteInv'
  BY <1>3, RunBridgeSafe
<1>4. ASSUME NEW t \in Thread, ChooseTier(t) PROVE SiteInv'
  BY <1>4, ChooseTierSafe
<1>5. ASSUME NEW t \in Thread, RunTier2(t) PROVE SiteInv'
  BY <1>5, RunTier2Safe
<1>6. ASSUME NEW t \in Thread, RefuseTier1(t) PROVE SiteInv'
  BY <1>6, RefuseTier1Safe
<1>7. ASSUME NEW t \in Thread, RunTier1(t) PROVE SiteInv'
  BY <1>7, RunTier1Safe
<1>8. ASSUME NEW t \in Thread, Observe(t) PROVE SiteInv'
  BY <1>8, CaseType, ObserveSafe DEF SiteInv
<1>9. ASSUME NEW t \in Thread, NEW code \in Code, LoseCode(t, code) PROVE SiteInv'
  BY <1>9, LoseCodeSafe
<1>10. CASE UNCHANGED vars
  BY <1>10 DEF vars, site, bridges, history, SiteInv, ThreadTypes, BridgeTypes, Accounted, Leaving,
     Nearing, At, Reasoned, BridgeMissing, Tier2Exit, GuardFails
<1> QED BY <1>1, <1>2, <1>3, <1>4, <1>5, <1>6, <1>7, <1>8, <1>9, <1>10 DEF Next

-----------------------------------------------------------------------------
(* What the invariant says.                                                *)

LEMMA SiteSays == SiteInv => GuardExitsStop /\ NoOtherFailure
<1> SUFFICES ASSUME SiteInv PROVE GuardExitsStop /\ NoOtherFailure
  OBVIOUS
<1>1. ASSUME NEW c \in BOOLEAN
      PROVE  exits[c] <= BridgeThreshold + Cardinality(Thread) - 1
  <2>1. /\ Accounted(c) /\ exits[c] \in Nat /\ failures[c] \in Nat
        /\ Cardinality(Nearing(c)) \in Nat /\ Cardinality(Leaving(c)) \in Nat
        /\ Cardinality(Leaving(c)) <= Cardinality(Thread) /\ Cardinality(Thread) \in Nat
    BY AtFacts DEF SiteInv, BridgeTypes, Nearing, Leaving
  <2>2. CASE c \in children
    <3>1. exits[c] + Cardinality(Nearing(c)) <= BridgeThreshold + Cardinality(Thread) - 1
      BY <2>1, <2>2 DEF Accounted
    <3> QED BY <2>1, <3>1, SiteAssumption
  <2>3. CASE c \notin children
    <3>1. failures[c] < BridgeThreshold /\ exits[c] = failures[c] + Cardinality(Leaving(c))
      BY <2>1, <2>3 DEF Accounted
    <3> QED BY <2>1, <3>1, SiteAssumption
  <2> QED BY <2>2, <2>3
<1>2. NoOtherFailure
  BY DEF SiteInv, Reasoned, NoOtherFailure
<1> QED BY <1>1, <1>2 DEF GuardExitsStop

\* The inductive invariant: each exit of a case is counted or about to be, until its
\* bridge is linked, and from then on the exits to come are numbered.
THEOREM SiteInvariant == Spec => []SiteInv
<1> QED BY SiteInit, SiteNext, PTL DEF Spec

\* For every number of threads and every threshold: a case leaves tier-1 code by its
\* guard BridgeThreshold times, and once more at most for every other thread.
THEOREM ExitsStop == Spec => []GuardExitsStop
<1>1. SiteInv => GuardExitsStop
  BY SiteSays
<1> QED BY <1>1, SiteInvariant, PTL

\* A call ends in an error only if its case's bridge is not in the cache of the calling
\* thread, or if its guard fails in tier-2 code.
THEOREM FailuresHaveCauses == Spec => []NoOtherFailure
<1>1. SiteInv => NoOtherFailure
  BY SiteSays
<1> QED BY <1>1, SiteInvariant, PTL
=============================================================================
