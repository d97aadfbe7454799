------------------------------ MODULE EntrySite ------------------------------
(***************************************************************************)
(* One function of an AdaptiveVm that several threads call: its profile,   *)
(* its tier-1 code, the bridges linked to that code's guard, and for each  *)
(* thread the thread-local cache with the code of bridges and of tier 2.   *)
(* The function returns its second parameter: functions that return a      *)
(* parameter are those whose scalar entry code is guarded.  An action is   *)
(* what a thread does under one lock, or between two of them.              *)
(***************************************************************************)
EXTENDS AdaptiveProfile

CONSTANTS
  Thread,
  Backends,         \* the backends a runtime may be configured with
  Llvm,             \* whether the build has the inkwell feature
  CacheLoses,       \* whether other functions push this one's code out of a cache
  BridgeThreshold,  \* 32 in the code
  MaxBridges,       \* 4 in the code
  Tier2Threshold,   \* 10 in the code
  Unset,            \* no observation, no trace, no code yet
  MaxCalls          \* bound: calls in all

Types == {"integer", "boolean"}

ASSUME SiteAssumption ==
  /\ IsFiniteSet(Thread)
  /\ Backends \subseteq {"interpreter", "cranelift", "tiered"}
  /\ Llvm \in BOOLEAN /\ CacheLoses \in BOOLEAN
  /\ BridgeThreshold \in Nat \ {0}
  /\ MaxBridges \in Nat /\ MaxBridges >= 2    \* a place for each case there is
  /\ Tier2Threshold \in Nat /\ MaxCalls \in Nat
ASSUME CaseAssumption == Types \cup {"none"} \subseteq Case /\ Unset \notin Case

\* The arguments: two values of a type or, what has no native form, None.  Only
\* what a guard or a bridge looks at is kept: the first Boolean and the second.
Arguments ==
  [type : {"boolean"}, first : BOOLEAN, second : BOOLEAN]
    \cup [type : {"integer", "none"}, first : {FALSE}, second : {FALSE}]

\* Tier-1 code: what it was recorded for.
Codes == [type : Types, guarded : BOOLEAN]

VARIABLES
  backend,
  profile,
  observation,    \* the classified case, computed once
  draft,          \* the recorded trace
  native,         \* the compiled tier-1 code
  supported,
  failures,       \* [BOOLEAN -> Nat]: guard failures of each observed case
  admitted,       \* the cases given a place among the bridges
  children,       \* the cases a bridge is linked for
  executions,     \* tier1_executions, up to Tier2Threshold
  cache,          \* [Thread -> cached code: of bridges and of tier 2]
  pc, argument, outcome,
  exits,          \* history: guard exits from tier-1 code by case
  calls           \* history: calls begun

site == <<backend, profile, observation, draft, native, supported>>
bridges == <<failures, admitted, children>>
history == <<exits, calls>>
vars == <<site, bridges, executions, cache, pc, argument, outcome, history>>

BridgeCode(c) == <<"bridge", c>>
Tier2Code == <<"tier 2", FALSE>>
Code == {BridgeCode(c) : c \in BOOLEAN} \cup {Tier2Code}

\* observed_case: the first Boolean, or 0 if there is none.
ObservedCase(a) == a.first

\* native_inputs and scalar_type.
HasForm(a) == a.type \in Types

Accepts(a) == native.type = a.type
GuardFails(a) == native.guarded /\ ~a.second

\* record_entry: an identity of True is guarded to be True.
Recorded(a) == [type |-> a.type, guarded |-> a.type = "boolean" /\ a.second]

\* observation.get_or_insert_with: the first call's type, whatever this one's is.
Classified(a) == IF observation = Unset THEN a.type ELSE observation

\* As if inputs of another type were an error of the call.
Reported == "error"

\* NativeError::MalformedValue: the interpreter runs the call.
Rejected == "wvm"

Init ==
  /\ backend \in Backends
  /\ profile = NewProfile(0)
  /\ observation = Unset
  /\ draft = Unset
  /\ native = Unset
  /\ supported = TRUE
  /\ failures = [c \in BOOLEAN |-> 0]
  /\ admitted = {}
  /\ children = {}
  /\ executions = 0
  /\ cache = [t \in Thread |-> {}]
  /\ pc = [t \in Thread |-> "idle"]
  /\ argument = [t \in Thread |-> [type |-> "none", first |-> FALSE, second |-> FALSE]]
  /\ outcome = [t \in Thread |-> "wvm"]
  /\ exits = [c \in BOOLEAN |-> 0]
  /\ calls = 0

Goes(t, where) == pc' = [pc EXCEPT ![t] = where] /\ UNCHANGED outcome

Ends(t, result) ==
  /\ pc' = [pc EXCEPT ![t] = "idle"]
  /\ outcome' = [outcome EXCEPT ![t] = result]

Begins(t, a) ==
  /\ pc[t] = "idle"
  /\ calls < MaxCalls
  /\ calls' = calls + 1
  /\ argument' = [argument EXCEPT ![t] = a]
  /\ UNCHANGED <<bridges, executions, cache, exits>>

\* try_execute_entry of a site that is not supported.
CallUnsupported(t, a) ==
  /\ ~supported
  /\ Begins(t, a)
  /\ Ends(t, "wvm")
  /\ UNCHANGED site

\* try_execute_entry of a compiled site, which goes on without the site's lock.
CallCompiled(t, a) ==
  /\ supported /\ native # Unset
  /\ Begins(t, a)
  /\ IF HasForm(a) THEN Goes(t, "entered") ELSE Ends(t, "wvm")
  /\ UNCHANGED site

\* record_entry and finish_recording, or no support for what was not recorded.
Record(p, a) ==
  IF HasForm(a)
  THEN /\ profile' = Finished(Started(p))
       /\ draft' = Recorded(a)
       /\ UNCHANGED <<native, supported>>
  ELSE /\ profile' = Started(p)
       /\ supported' = FALSE
       /\ UNCHANGED <<draft, native>>

\* compile_entry
Compile(p) ==
  /\ profile' = Compiled(p)
  /\ draft' = Unset
  /\ IF backend = "interpreter"
     THEN supported' = FALSE /\ UNCHANGED native
     ELSE native' = draft /\ UNCHANGED supported

\* try_execute_entry of a site that collects observations; the interpreter runs
\* the call.
CallProfiled(t, a) ==
  /\ supported /\ native = Unset
  /\ Begins(t, a)
  /\ observation' = Classified(a)
  /\ LET p == ObserveLive(profile, observation', "unknown")
     IN IF CanRecord(p) THEN Record(p, a)
        ELSE IF CanCompile(p) THEN Compile(p)
        ELSE profile' = p /\ UNCHANGED <<draft, native, supported>>
  /\ Ends(t, "wvm")
  /\ UNCHANGED backend

\* The test of has_linked_bridge and linked_child.  The flag is raised under the
\* bridges' lock with the first child, so that a thread that finds it down did so
\* before that child was linked.
Enter(t) ==
  /\ pc[t] = "entered"
  /\ Goes(t, IF ObservedCase(argument[t]) \in children THEN "bridge" ELSE "tier")
  /\ UNCHANGED <<site, bridges, executions, cache, argument, history>>

\* execute_cached, in the thread's own cache.
RunBridge(t) ==
  /\ pc[t] = "bridge"
  /\ Ends(t, IF BridgeCode(ObservedCase(argument[t])) \notin cache[t] THEN "error"
             ELSE IF Accepts(argument[t]) THEN "native"
             ELSE Rejected)
  /\ UNCHANGED <<site, bridges, executions, cache, argument, history>>

ChooseTier(t) ==
  /\ pc[t] = "tier"
  /\ Goes(t, IF Llvm /\ backend = "tiered" /\ executions >= Tier2Threshold
             THEN "tier 2" ELSE "tier 1")
  /\ UNCHANGED <<site, bridges, executions, cache, argument, history>>

\* execute_tier2: the code is compiled for this thread if its cache has none; what
\* leaves it by its guard has neither a bridge nor a replay.
RunTier2(t) ==
  /\ pc[t] = "tier 2"
  /\ cache' = [cache EXCEPT ![t] = @ \cup {Tier2Code}]
  /\ Ends(t, IF ~Accepts(argument[t]) THEN Rejected
             ELSE IF GuardFails(argument[t]) THEN "error"
             ELSE "native")
  /\ UNCHANGED <<site, bridges, executions, argument, history>>

\* Tier-1 code refuses its inputs,
RefuseTier1(t) ==
  /\ pc[t] = "tier 1"
  /\ ~Accepts(argument[t])
  /\ Ends(t, Rejected)
  /\ UNCHANGED <<site, bridges, executions, cache, argument, history>>

\* or runs, to its end or to its guard.
RunTier1(t) ==
  /\ pc[t] = "tier 1"
  /\ Accepts(argument[t])
  /\ executions' = IF executions < Tier2Threshold THEN executions + 1 ELSE executions
  /\ IF GuardFails(argument[t])
     THEN /\ exits' = [exits EXCEPT ![ObservedCase(argument[t])] = @ + 1]
          /\ Goes(t, "observe")
     ELSE Ends(t, "native") /\ UNCHANGED exits
  /\ UNCHANGED <<site, bridges, cache, argument, calls>>

\* As if the failures of a case were not added up.
Uncounted(f, c) == f

Counted(f, c) == [f EXCEPT ![c] = @ + 1]

\* As if the failure that reaches the threshold did not count.
OneTooFew(n) == n > BridgeThreshold

Hot(n) == n >= BridgeThreshold

\* BridgeSite.observe under the compiler's and the bridges' lock: a case without a
\* bridge is counted and, when it is hot, compiled, cached and linked.
Observe(t) ==
  /\ pc[t] = "observe"
  /\ LET c == ObservedCase(argument[t])
         counted == Counted(failures, c)
         refused == c \notin admitted /\ Cardinality(admitted) >= MaxBridges
     IN IF c \in children THEN Goes(t, "bridge") /\ UNCHANGED <<bridges, cache>>
        ELSE IF refused THEN Ends(t, "wvm") /\ UNCHANGED <<bridges, cache>>
        ELSE /\ failures' = counted
             /\ IF Hot(counted[c])
                THEN /\ admitted' = admitted \cup {c}
                     /\ children' = children \cup {c}
                     /\ cache' = [cache EXCEPT ![t] = @ \cup {BridgeCode(c)}]
                     /\ Goes(t, "bridge")
                ELSE Ends(t, "wvm") /\ UNCHANGED <<admitted, children, cache>>
  /\ UNCHANGED <<site, executions, argument, history>>

\* Code of other functions that the thread runs between two calls of this one takes
\* the place of this function's code in its cache.
LoseCode(t, code) ==
  /\ CacheLoses
  /\ pc[t] = "idle"
  /\ code \in cache[t]
  /\ cache' = [cache EXCEPT ![t] = @ \ {code}]
  /\ UNCHANGED <<site, bridges, executions, pc, argument, outcome, history>>

Call(t) ==
  \E a \in Arguments : CallUnsupported(t, a) \/ CallCompiled(t, a) \/ CallProfiled(t, a)

Next == \E t \in Thread :
  \/ Call(t)
  \/ Enter(t) \/ RunBridge(t) \/ ChooseTier(t)
  \/ RunTier2(t) \/ RefuseTier1(t) \/ RunTier1(t) \/ Observe(t)
  \/ \E code \in Code : LoseCode(t, code)

Spec == Init /\ [][Next]_vars

-----------------------------------------------------------------------------
TypeOK ==
  /\ profile \in Profiles
  /\ observation \in Case \cup {Unset}
  /\ draft \in Codes \cup {Unset} /\ native \in Codes \cup {Unset}
  /\ supported \in BOOLEAN
  /\ failures \in [BOOLEAN -> Nat]
  /\ children \subseteq admitted /\ admitted \subseteq BOOLEAN
  /\ cache \in [Thread -> SUBSET Code]
  /\ pc \in [Thread -> {"idle", "entered", "bridge", "tier", "tier 1", "tier 2", "observe"}]
  /\ argument \in [Thread -> Arguments]
  /\ outcome \in [Thread -> {"native", "wvm", "error"}]

\* Guard exits of a case end: once it has failed BridgeThreshold times a bridge takes
\* it, and each other thread may only finish the exit it is about to make.
GuardExitsStop ==
  \A c \in BOOLEAN : exits[c] <= BridgeThreshold + Cardinality(Thread) - 1

\* A call that the specialised code cannot finish is given to the interpreter. What
\* makes one fail after all is one of two things: the bridge linked for its
\* case is not in the cache of the calling thread, or its guard fails in tier-2 code.
BridgeMissing(t) ==
  LET c == ObservedCase(argument[t]) IN c \in children /\ BridgeCode(c) \notin cache[t]
Tier2Exit(t) ==
  backend = "tiered" /\ executions >= Tier2Threshold /\ GuardFails(argument[t])

NoOtherFailure ==
  \A t \in Thread :
    pc[t] = "idle" /\ outcome[t] = "error" => BridgeMissing(t) \/ Tier2Exit(t)
=============================================================================
