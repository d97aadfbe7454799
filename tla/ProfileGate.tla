----------------------------- MODULE ProfileGate -----------------------------
(* One AdaptiveProfile under every order of the calls its interface offers. *)
EXTENDS AdaptiveProfile

CONSTANT MaxEpoch    \* bound: schema epochs

ASSUME EpochAssumption == MaxEpoch \in Nat

VARIABLES
  profile,
  seen,        \* history: the cases observed since the last invalidation
  recordRun,   \* history: observations that fit, in a row, at the end of profiling
  compileRun   \* history: observations that fit, in a row, since the recording ended

vars == <<profile, seen, recordRun, compileRun>>

\* An observation fits if its guard is valid and its case is not new; the first
\* observation of a case begins a run.
Fits(c, fact) == c \in seen \/ profile.generic
Run(n, c, fact) == IF fact = "unguarded" THEN 0 ELSE IF Fits(c, fact) THEN OneMore(n) ELSE 1

-----------------------------------------------------------------------------
Init ==
  /\ profile = NewProfile(0)
  /\ seen = {}
  /\ recordRun = 0
  /\ compileRun = 0

Observe(c, fact) ==
  /\ profile' = ObserveLive(profile, c, fact)
  /\ seen' = IF fact = "unguarded" THEN seen ELSE seen \cup {c}
  /\ recordRun' = IF profile.lifecycle = "profiling" THEN Run(recordRun, c, fact) ELSE recordRun
  /\ compileRun' = IF profile.lifecycle = "recording" /\ profile.complete
                   THEN Run(compileRun, c, fact) ELSE compileRun

TakeRecordPermit ==
  /\ CanRecord(profile)
  /\ profile' = Started(profile)
  /\ UNCHANGED <<seen, recordRun, compileRun>>

\* start_recording, which does not ask whether the profile is generic.
StartRecording ==
  /\ CanStart(profile)
  /\ profile' = Started(profile)
  /\ UNCHANGED <<seen, recordRun, compileRun>>

FinishRecording ==
  /\ CanFinish(profile)
  /\ profile' = Finished(profile)
  /\ compileRun' = 0
  /\ UNCHANGED <<seen, recordRun>>

TakeCompilePermit ==
  /\ CanCompile(profile)
  /\ profile' = Compiled(profile)
  /\ UNCHANGED <<seen, recordRun, compileRun>>

Invalidate ==
  /\ profile.epoch < MaxEpoch
  /\ profile' = Invalidated(profile.epoch + 1)
  /\ seen' = {}
  /\ recordRun' = 0
  /\ compileRun' = 0

Next ==
  \/ \E c \in Case, fact \in Facts : Observe(c, fact)
  \/ TakeRecordPermit \/ StartRecording \/ FinishRecording \/ TakeCompilePermit
  \/ Invalidate

Spec == Init /\ [][Next]_vars

-----------------------------------------------------------------------------
TypeOK ==
  /\ profile \in Profiles
  /\ seen \subseteq Case
  /\ recordRun \in 0 .. CountCap
  /\ compileRun \in 0 .. CountCap

\* Nothing is recorded before a full window of observations in a row that fit, and
\* nothing is compiled before a second full window, all of it after the recording
\* ended: evidence gathered before or during it does not count.
StepsNeedWindows ==
  /\ profile.lifecycle # "profiling" => recordRun >= Effective
  /\ profile.lifecycle \in {"ready to compile", "compiled"} => compileRun >= Effective

\* No code is compiled for a site that has shown more cases than are specialised,
\* however long ago it showed them.
NoGenericCode ==
  [][TakeCompilePermit => Cardinality(seen) <= MaxCases /\ ~profile.generic]_vars
=============================================================================
