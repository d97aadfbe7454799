--------------------------- MODULE AdaptiveProfile ---------------------------
(***************************************************************************)
(* The profile that decides when a site is recorded and when it is         *)
(* compiled, as operators on a profile record.  Counters stop at CountCap  *)
(* as they stop at u64::MAX in the code; static hints are never read.      *)
(***************************************************************************)
EXTENDS Naturals, FiniteSets

CONSTANTS
  Case,           \* the runtime cases that can be observed
  HotThreshold,   \* the configured number of live observations
  MaxCases,       \* 4 in the code
  CountCap        \* bound: where the counters stop

ASSUME ProfileAssumption ==
  /\ HotThreshold \in Nat
  /\ MaxCases \in Nat \ {0}
  /\ CountCap \in Nat /\ HotThreshold < CountCap /\ 1 < CountCap

\* "unguarded" is Guardable without an emitted guard or a live confirmation.
Facts == {"proven", "guarded", "unguarded", "unknown"}
Lifecycles == {"profiling", "ready to record", "recording", "ready to compile", "compiled"}

Effective == IF HotThreshold = 0 THEN 1 ELSE HotThreshold

Profiles ==
  [lifecycle : Lifecycles, epoch : Nat, live : 0 .. CountCap, stable : 0 .. CountCap,
   cases : SUBSET Case, generic : BOOLEAN, complete : BOOLEAN]

NewProfile(epoch) ==
  [lifecycle |-> "profiling", epoch |-> epoch, live |-> 0, stable |-> 0,
   cases |-> {}, generic |-> FALSE, complete |-> FALSE]

OneMore(n) == IF n < CountCap THEN n + 1 ELSE n

\* A case seen for the first time starts a run of its own.
NovelCase(p) == [p EXCEPT !.stable = 1]

\* As if there were always room for one case more.
UnboundedCase(p, c) ==
  IF c \in p.cases THEN [p EXCEPT !.stable = OneMore(@)]
  ELSE NovelCase([p EXCEPT !.cases = @ \cup {c}])

\* observe_case
ObserveCase(p, c) ==
  IF p.generic \/ c \in p.cases THEN [p EXCEPT !.stable = OneMore(@)]
  ELSE IF Cardinality(p.cases) = MaxCases THEN NovelCase([p EXCEPT !.generic = TRUE])
  ELSE NovelCase([p EXCEPT !.cases = @ \cup {c}])

\* As if finish_recording were not asked for.
AdvanceUnrecorded(p) ==
  [p EXCEPT !.lifecycle =
    IF p.stable < Effective THEN @
    ELSE CASE @ = "profiling" /\ p.live >= Effective -> "ready to record"
           [] @ = "recording" -> "ready to compile"
           [] OTHER -> @]

\* The lifecycle after an observation.
Advance(p) ==
  [p EXCEPT !.lifecycle =
    IF p.stable < Effective THEN @
    ELSE CASE @ = "profiling" /\ p.live >= Effective -> "ready to record"
           [] @ = "recording" /\ p.complete -> "ready to compile"
           [] OTHER -> @]

\* observe_live
ObserveLive(p, c, fact) ==
  LET counted == [p EXCEPT !.live = OneMore(@)]
  IN IF fact = "unguarded" THEN [counted EXCEPT !.stable = 0]
     ELSE Advance(ObserveCase(counted, c))

CanStart(p) == p.lifecycle = "ready to record"
Started(p) == [p EXCEPT !.lifecycle = "recording", !.stable = 0, !.complete = FALSE]

\* take_record_permit, which starts the recording if there is a permit.
CanRecord(p) == ~p.generic /\ CanStart(p)

CanFinish(p) == p.lifecycle = "recording" /\ ~p.complete

\* As if the observations made before the recording ended counted after it.
FinishedStable(p) == [p EXCEPT !.complete = TRUE]

\* finish_recording
Finished(p) == [p EXCEPT !.complete = TRUE, !.stable = 0]

\* take_compile_permit
CanCompile(p) == ~p.generic /\ p.lifecycle = "ready to compile"
Compiled(p) == [p EXCEPT !.lifecycle = "compiled"]

\* invalidate
Invalidated(epoch) == NewProfile(epoch)
=============================================================================
