-------------------------- MODULE ProfileGateProofs --------------------------
(***************************************************************************)
(* For every threshold, set of cases and bound on them: what is recorded   *)
(* and compiled had its full window of observations.                       *)
(***************************************************************************)
EXTENDS ProfileGate, FiniteSetTheorems, TLAPS

-----------------------------------------------------------------------------
(* What an observation does to a profile.                                  *)

LEMMA EffectiveType == Effective \in Nat /\ Effective >= 1
  BY ProfileAssumption DEF Effective

LEMMA OneMoreType ==
  ASSUME NEW n \in 0 .. CountCap
  PROVE  OneMore(n) \in 0 .. CountCap /\ 0 \in 0 .. CountCap /\ 1 \in 0 .. CountCap
  BY ProfileAssumption DEF OneMore

\* Known(p, c): case c does not begin a run of its own.
Known(p, c) == p.generic \/ c \in p.cases

\* What observe_case makes of the run, the cases and the mode of profile p.
CaseSeen(p, q, c) ==
  /\ Known(p, c) => q.stable = OneMore(p.stable) /\ q.cases = p.cases /\ q.generic = p.generic
  /\ ~Known(p, c) =>
       /\ q.stable = 1
       /\ \/ Cardinality(p.cases) = MaxCases /\ q.generic /\ q.cases = p.cases
          \/ Cardinality(p.cases) # MaxCases /\ ~q.generic /\ q.cases = p.cases \cup {c}

LEMMA ObserveCaseFacts ==
  ASSUME NEW p \in Profiles, NEW c \in Case
  PROVE  LET q == ObserveCase(p, c)
         IN  /\ q \in Profiles /\ CaseSeen(p, q, c)
             /\ q.lifecycle = p.lifecycle /\ q.live = p.live /\ q.epoch = p.epoch
             /\ q.complete = p.complete
<1> DEFINE q == ObserveCase(p, c)
<1>0. OneMore(p.stable) \in 0 .. CountCap /\ 1 \in 0 .. CountCap
  BY OneMoreType DEF Profiles
<1>1. CASE Known(p, c)
  <2>1. q = [p EXCEPT !.stable = OneMore(p.stable)]
    BY <1>1 DEF ObserveCase, Known
  <2> QED BY <2>1, <1>0, <1>1 DEF Profiles, CaseSeen
<1>2. CASE ~Known(p, c) /\ Cardinality(p.cases) = MaxCases
  <2>1. q = [[p EXCEPT !.generic = TRUE] EXCEPT !.stable = 1]
    BY <1>2 DEF ObserveCase, Known, NovelCase
  <2> QED BY <2>1, <1>0, <1>2 DEF Profiles, CaseSeen
<1>3. CASE ~Known(p, c) /\ Cardinality(p.cases) # MaxCases
  <2>1. q = [[p EXCEPT !.cases = p.cases \cup {c}] EXCEPT !.stable = 1]
    BY <1>3 DEF ObserveCase, Known, NovelCase
  <2>2. ~p.generic
    BY <1>3 DEF Known
  <2> QED BY <2>1, <2>2, <1>0, <1>3 DEF Profiles, CaseSeen
<1> QED BY <1>1, <1>2, <1>3

\* The lifecycle only goes on with a window of observations that fit.
GoesOn(p, q) ==
  \/ q.lifecycle = p.lifecycle
  \/ p.lifecycle = "profiling" /\ q.lifecycle = "ready to record" /\ q.stable >= Effective
  \/ /\ p.lifecycle = "recording" /\ p.complete
     /\ q.lifecycle = "ready to compile" /\ q.stable >= Effective

LEMMA AdvanceFacts ==
  ASSUME NEW p \in Profiles
  PROVE  LET q == Advance(p)
         IN  /\ q \in Profiles /\ GoesOn(p, q)
             /\ q.stable = p.stable /\ q.cases = p.cases /\ q.generic = p.generic
             /\ q.epoch = p.epoch /\ q.complete = p.complete
<1> DEFINE q == Advance(p)
           l == IF p.stable < Effective THEN p.lifecycle
                ELSE CASE p.lifecycle = "profiling" /\ p.live >= Effective -> "ready to record"
                       [] p.lifecycle = "recording" /\ p.complete -> "ready to compile"
                       [] OTHER -> p.lifecycle
<1>1. q = [p EXCEPT !.lifecycle = l]
  BY DEF Advance
<1>2. p.stable \in Nat
  BY ProfileAssumption DEF Profiles
<1>3. /\ l \in Lifecycles
      /\ \/ l = p.lifecycle
         \/ p.lifecycle = "profiling" /\ l = "ready to record" /\ p.stable >= Effective
         \/ p.lifecycle = "recording" /\ p.complete /\ l = "ready to compile" /\ p.stable >= Effective
  <2>1. CASE p.stable < Effective
    BY <2>1 DEF Profiles
  <2>2. CASE ~(p.stable < Effective)
    <3>1. p.stable >= Effective
      BY <2>2, <1>2, EffectiveType
    <3>2. CASE p.lifecycle = "profiling" /\ p.live >= Effective
      BY <2>2, <3>1, <3>2 DEF Lifecycles
    <3>3. CASE p.lifecycle = "recording" /\ p.complete
      BY <2>2, <3>1, <3>3 DEF Lifecycles
    <3>4. CASE ~(p.lifecycle = "profiling" /\ p.live >= Effective)
               /\ ~(p.lifecycle = "recording" /\ p.complete)
      BY <2>2, <3>4 DEF Profiles
    <3> QED BY <3>2, <3>3, <3>4
  <2> QED BY <2>1, <2>2
<1> HIDE DEF l
<1> QED BY <1>1, <1>3 DEF Profiles, GoesOn

LEMMA ObserveFacts ==
  ASSUME NEW p \in Profiles, NEW c \in Case, NEW fact \in Facts
  PROVE  LET q == ObserveLive(p, c, fact)
         IN  /\ q \in Profiles /\ q.epoch = p.epoch /\ q.complete = p.complete
             /\ fact = "unguarded" =>
                  /\ q.stable = 0 /\ q.cases = p.cases /\ q.generic = p.generic
                  /\ q.lifecycle = p.lifecycle
             /\ fact # "unguarded" => CaseSeen(p, q, c) /\ GoesOn(p, q)
<1> DEFINE counted == [p EXCEPT !.live = OneMore(p.live)]
           q == ObserveLive(p, c, fact)
<1>1. /\ counted \in Profiles /\ counted.stable = p.stable /\ counted.cases = p.cases
      /\ counted.generic = p.generic /\ counted.lifecycle = p.lifecycle
      /\ counted.epoch = p.epoch /\ counted.complete = p.complete
  <2>1. OneMore(p.live) \in 0 .. CountCap
    BY OneMoreType DEF Profiles
  <2> QED BY <2>1 DEF Profiles
<1> HIDE DEF counted
<1>2. CASE fact = "unguarded"
  <2>1. q = [counted EXCEPT !.stable = 0]
    BY <1>2 DEF ObserveLive, counted
  <2>2. 0 \in 0 .. CountCap
    BY ProfileAssumption
  <2> QED BY <1>1, <1>2, <2>1, <2>2 DEF Profiles
<1>3. CASE fact # "unguarded"
  <2> DEFINE r == ObserveCase(counted, c)
  <2>1. q = Advance(r)
    BY <1>3 DEF ObserveLive, counted
  <2>2. /\ r \in Profiles /\ CaseSeen(counted, r, c)
        /\ r.lifecycle = p.lifecycle /\ r.epoch = p.epoch /\ r.complete = p.complete
    BY <1>1, ObserveCaseFacts
  <2>3. CaseSeen(p, r, c)
    BY <1>1, <2>2 DEF CaseSeen, Known
  <2> HIDE DEF r
  <2>4. /\ q \in Profiles /\ GoesOn(r, q)
        /\ q.stable = r.stable /\ q.cases = r.cases /\ q.generic = r.generic
        /\ q.epoch = r.epoch /\ q.complete = r.complete
    BY <2>1, <2>2, AdvanceFacts
  <2>5. CaseSeen(p, q, c)
    BY <2>3, <2>4 DEF CaseSeen
  <2>6. GoesOn(p, q)
    BY <2>2, <2>4 DEF GoesOn
  <2> QED BY <1>3, <2>2, <2>4, <2>5, <2>6
<1> QED BY <1>2, <1>3

-----------------------------------------------------------------------------
(* The invariant: the run that counts is the one the profile keeps.        *)

CasesKnown ==
  /\ IsFiniteSet(profile.cases) /\ Cardinality(profile.cases) <= MaxCases
  /\ ~profile.generic => profile.cases = seen

RunsKept ==
  /\ profile.lifecycle = "profiling" => profile.stable = recordRun
  /\ profile.lifecycle = "recording" /\ profile.complete => profile.stable = compileRun

ProfileInv == TypeOK /\ CasesKnown /\ RunsKept /\ StepsNeedWindows

LEMMA InitHolds == Init => ProfileInv
<1> SUFFICES ASSUME Init PROVE ProfileInv
  OBVIOUS
<1>1. 0 \in 0 .. CountCap /\ 0 \in Nat /\ 0 <= MaxCases
  BY ProfileAssumption
<1>2. TypeOK
  BY <1>1 DEF Init, TypeOK, NewProfile, Profiles, Lifecycles
<1>3. CasesKnown
  BY <1>1, FS_EmptySet DEF Init, CasesKnown, NewProfile
<1>4. RunsKept /\ StepsNeedWindows
  BY DEF Init, RunsKept, StepsNeedWindows, NewProfile
<1> QED BY <1>2, <1>3, <1>4 DEF ProfileInv

LEMMA ObserveHolds ==
  ASSUME ProfileInv, NEW c \in Case, NEW fact \in Facts, Observe(c, fact)
  PROVE  ProfileInv'
<1> DEFINE q == profile'
<1>0. profile \in Profiles /\ seen \subseteq Case
  BY DEF ProfileInv, TypeOK
<1>1. /\ q \in Profiles /\ q.complete = profile.complete
      /\ fact = "unguarded" =>
           /\ q.stable = 0 /\ q.cases = profile.cases /\ q.generic = profile.generic
           /\ q.lifecycle = profile.lifecycle
      /\ fact # "unguarded" => CaseSeen(profile, q, c) /\ GoesOn(profile, q)
  BY <1>0, ObserveFacts DEF Observe
<1>2. /\ seen' = IF fact = "unguarded" THEN seen ELSE seen \cup {c}
      /\ recordRun' = IF profile.lifecycle = "profiling" THEN Run(recordRun, c, fact) ELSE recordRun
      /\ compileRun' = IF profile.lifecycle = "recording" /\ profile.complete
                       THEN Run(compileRun, c, fact) ELSE compileRun
  BY DEF Observe
<1>3. \A n \in 0 .. CountCap :
        /\ Run(n, c, fact) \in 0 .. CountCap
        /\ n = profile.stable => Run(n, c, fact) = q.stable
  <2> SUFFICES ASSUME NEW n \in 0 .. CountCap
               PROVE  /\ Run(n, c, fact) \in 0 .. CountCap
                      /\ n = profile.stable => Run(n, c, fact) = q.stable
    OBVIOUS
  <2>1. Run(n, c, fact) \in 0 .. CountCap
    BY OneMoreType DEF Run
  <2>2. Fits(c, fact) <=> Known(profile, c)
    BY DEF Fits, Known, ProfileInv, CasesKnown
  <2> QED BY <2>1, <2>2, <1>1 DEF Run, CaseSeen
<1>4. TypeOK'
  BY <1>0, <1>1, <1>2, <1>3 DEF ProfileInv, TypeOK
<1>5. CasesKnown'
  <2>1. CASE fact = "unguarded"
    BY <2>1, <1>1, <1>2 DEF ProfileInv, CasesKnown
  <2>2. CASE fact # "unguarded"
    <3>1. CASE q.cases = profile.cases
      BY <3>1, <2>2, <1>1, <1>2 DEF ProfileInv, CasesKnown, CaseSeen, Known
    <3>2. CASE q.cases # profile.cases
      <4>1. /\ q.cases = profile.cases \cup {c} /\ c \notin profile.cases /\ ~profile.generic
            /\ Cardinality(profile.cases) # MaxCases
        BY <3>2, <2>2, <1>1 DEF CaseSeen, Known
      <4>2. IsFiniteSet(q.cases) /\ Cardinality(q.cases) = Cardinality(profile.cases) + 1
            /\ Cardinality(profile.cases) \in Nat
        BY <4>1, FS_AddElement, FS_CardinalityType DEF ProfileInv, CasesKnown
      <4>3. Cardinality(q.cases) <= MaxCases
        BY <4>1, <4>2, ProfileAssumption DEF ProfileInv, CasesKnown
      <4> QED BY <4>1, <4>2, <4>3, <2>2, <1>2 DEF ProfileInv, CasesKnown
    <3> QED BY <3>1, <3>2
  <2> QED BY <2>1, <2>2
<1>6. recordRun \in 0 .. CountCap /\ compileRun \in 0 .. CountCap
  BY DEF ProfileInv, TypeOK
<1>7. RunsKept'
  BY <1>1, <1>2, <1>3, <1>6 DEF ProfileInv, RunsKept, GoesOn
<1>8. StepsNeedWindows'
  BY <1>1, <1>2, <1>3, <1>6 DEF ProfileInv, RunsKept, StepsNeedWindows, GoesOn
<1> QED BY <1>4, <1>5, <1>7, <1>8 DEF ProfileInv

LEMMA StartHolds ==
  ASSUME ProfileInv, CanStart(profile), profile' = Started(profile),
         UNCHANGED <<seen, recordRun, compileRun>>
  PROVE  ProfileInv'
<1>1. /\ profile' \in Profiles /\ profile'.cases = profile.cases
      /\ profile'.generic = profile.generic /\ profile'.lifecycle = "recording"
      /\ profile'.complete = FALSE
  <2>1. profile' = [[[profile EXCEPT !.lifecycle = "recording"] EXCEPT !.stable = 0]
                      EXCEPT !.complete = FALSE]
    BY Zenon DEF Started
  <2>2. profile \in Profiles /\ 0 \in 0 .. CountCap /\ "recording" \in Lifecycles
    BY ProfileAssumption DEF ProfileInv, TypeOK, Lifecycles
  <2> QED BY <2>1, <2>2 DEF Profiles
<1>2. TypeOK' /\ CasesKnown'
  BY <1>1 DEF ProfileInv, TypeOK, CasesKnown
<1>3. RunsKept' /\ StepsNeedWindows'
  BY <1>1 DEF ProfileInv, RunsKept, StepsNeedWindows, CanStart
<1> QED BY <1>2, <1>3 DEF ProfileInv

LEMMA FinishHolds ==
  ASSUME ProfileInv, FinishRecording
  PROVE  ProfileInv'
<1>1. /\ profile' \in Profiles /\ profile'.cases = profile.cases
      /\ profile'.generic = profile.generic /\ profile'.lifecycle = "recording"
      /\ profile.lifecycle = "recording" /\ profile'.stable = 0
      /\ UNCHANGED <<seen, recordRun>> /\ compileRun' = 0 /\ 0 \in 0 .. CountCap
  <2>1. profile' = [[profile EXCEPT !.complete = TRUE] EXCEPT !.stable = 0]
    BY Zenon DEF FinishRecording, Finished
  <2>2. /\ profile \in Profiles /\ 0 \in 0 .. CountCap /\ profile.lifecycle = "recording"
        /\ UNCHANGED <<seen, recordRun>> /\ compileRun' = 0
    BY ProfileAssumption DEF ProfileInv, TypeOK, FinishRecording, CanFinish
  <2> QED BY <2>1, <2>2 DEF Profiles
<1>2. TypeOK' /\ CasesKnown'
  BY <1>1 DEF ProfileInv, TypeOK, CasesKnown
<1>3. RunsKept' /\ StepsNeedWindows'
  BY <1>1 DEF ProfileInv, RunsKept, StepsNeedWindows
<1> QED BY <1>2, <1>3 DEF ProfileInv

LEMMA CompileHolds ==
  ASSUME ProfileInv, TakeCompilePermit
  PROVE  ProfileInv'
<1>1. /\ profile' \in Profiles /\ profile'.cases = profile.cases
      /\ profile'.generic = profile.generic /\ profile'.lifecycle = "compiled"
      /\ profile.lifecycle = "ready to compile" /\ UNCHANGED <<seen, recordRun, compileRun>>
  BY DEF ProfileInv, TypeOK, Profiles, TakeCompilePermit, CanCompile, Compiled, Lifecycles
<1>2. TypeOK' /\ CasesKnown'
  BY <1>1 DEF ProfileInv, TypeOK, CasesKnown
<1>3. RunsKept' /\ StepsNeedWindows'
  BY <1>1 DEF ProfileInv, RunsKept, StepsNeedWindows
<1> QED BY <1>2, <1>3 DEF ProfileInv

LEMMA InvalidateHolds ==
  ASSUME ProfileInv, Invalidate
  PROVE  ProfileInv'
<1>1. /\ profile' = NewProfile(profile.epoch + 1) /\ profile.epoch + 1 \in Nat
      /\ 0 \in 0 .. CountCap /\ 0 <= MaxCases
      /\ seen' = {} /\ recordRun' = 0 /\ compileRun' = 0
  BY ProfileAssumption DEF ProfileInv, TypeOK, Profiles, Invalidate, Invalidated
<1>2. /\ profile' \in Profiles /\ profile'.cases = {} /\ profile'.stable = 0
      /\ profile'.lifecycle = "profiling"
  BY <1>1 DEF NewProfile, Profiles, Lifecycles
<1>3. TypeOK' /\ CasesKnown'
  BY <1>1, <1>2, FS_EmptySet DEF TypeOK, CasesKnown
<1>4. RunsKept' /\ StepsNeedWindows'
  BY <1>1, <1>2 DEF RunsKept, StepsNeedWindows
<1> QED BY <1>3, <1>4 DEF ProfileInv

LEMMA NextHolds == ProfileInv /\ [Next]_vars => ProfileInv'
<1> SUFFICES ASSUME ProfileInv, [Next]_vars PROVE ProfileInv'
  OBVIOUS
<1>1. ASSUME NEW c \in Case, NEW fact \in Facts, Observe(c, fact) PROVE ProfileInv'
  BY <1>1, ObserveHolds
<1>2. CASE TakeRecordPermit
  BY <1>2, StartHolds DEF TakeRecordPermit, CanRecord
<1>3. CASE StartRecording
  BY <1>3, StartHolds DEF StartRecording
<1>4. CASE FinishRecording
  BY <1>4, FinishHolds
<1>5. CASE TakeCompilePermit
  BY <1>5, CompileHolds
<1>6. CASE Invalidate
  BY <1>6, InvalidateHolds
<1>7. CASE UNCHANGED vars
  BY <1>7 DEF vars, ProfileInv, TypeOK, CasesKnown, RunsKept, StepsNeedWindows
<1> QED BY <1>1, <1>2, <1>3, <1>4, <1>5, <1>6, <1>7 DEF Next

-----------------------------------------------------------------------------
\* The inductive invariant: the cases the profile keeps are the cases it saw until it
\* is generic, and its one counter is the run that the current stage waits for.
THEOREM ProfileInvariant == Spec => []ProfileInv
<1> QED BY InitHolds, NextHolds, PTL DEF Spec

\* For every threshold: no recording without a full window of observations that fit,
\* no compilation without another since the recording ended, although both are counted
\* by one field that novelty, a failed guard and each change of stage set back.
THEOREM WindowsAreFull == Spec => []StepsNeedWindows
<1>1. ProfileInv => StepsNeedWindows
  BY DEF ProfileInv
<1> QED BY <1>1, ProfileInvariant, PTL

\* take_compile_permit is given to no site that has shown more than MaxCases cases.
THEOREM GenericIsNotCompiled == Spec => NoGenericCode
<1>1. ProfileInv /\ [Next]_vars =>
        [TakeCompilePermit => Cardinality(seen) <= MaxCases /\ ~profile.generic]_vars
  BY DEF ProfileInv, CasesKnown, TakeCompilePermit, CanCompile
<1> QED BY <1>1, ProfileInvariant, PTL DEF Spec, NoGenericCode
=============================================================================
