----------------------------- MODULE ObjectLoop -----------------------------
(***************************************************************************)
(* Loops over lists in machine code (integration.rs, loop_osr.rs).  The     *)
(* interpreter offers each arrival at a loop header to the native side,     *)
(* which records the loop for what it sees, compiles it, and from then on   *)
(* runs it on copies of the lists and commits what it wrote, one call after *)
(* another while the loop goes on.  When nothing comes back the interpreter *)
(* goes on with the registers it has.                                       *)
(***************************************************************************)
EXTENDS LoopCode

CONSTANTS
  Programs,          \* the loops: name, entry registers, temporaries, body, preheader
  Arguments(_),      \* the heaps and registers a loop is called with
  CaseLimit,         \* 4 in the code
  MaxCalls           \* bound: calls of the loop

ASSUME LoopAssumption == CaseLimit \in Nat /\ MaxCalls \in Nat

VARIABLES
  program,
  heap, regs,
  phase,        \* "Idle", at the "Edge" into the loop, there with its "Words", at the
                \* "Header" or the "Body", in "Native" code, "Done"
  native,       \* the call of machine code in progress
  states,       \* what the loop was recorded and compiled for, case by case
  generic,      \* whether the loop has shown too many cases
  calls,
  raised,
  expected,     \* history: the interpreter's result of this call of the loop
  blemish       \* history: what the call suffers from, see Agrees

vars == <<program, heap, regs, phase, native, states, generic, calls, raised, expected, blemish>>

NoNative == [code |-> NoCode, values |-> <<>>, prepared |-> NoneFound, committed |-> 0, from |-> "none"]
Unblemished == {}

Init ==
  /\ program \in Programs
  /\ heap = <<>> /\ regs = <<>> /\ expected = <<>>
  /\ phase = "Idle" /\ native = NoNative
  /\ states = {} /\ generic = FALSE
  /\ calls = 0 /\ raised = FALSE /\ blemish = Unblemished

-----------------------------------------------------------------------------
\* A loop over a range known not to be empty is entered past its test.
Enter(a) ==
  /\ phase = "Idle" /\ calls < MaxCalls
  /\ heap' = a.heap /\ regs' = a.regs
  /\ expected' = Interpreted(program, Machine(a.heap, a.regs))
  /\ phase' = IF program.preheader THEN "Edge" ELSE "Header"
  /\ calls' = calls + 1 /\ raised' = FALSE /\ blemish' = Unblemished
  /\ UNCHANGED <<program, native, states, generic>>

\* One time through the body in the interpreter.
RunBody ==
  /\ phase = "Body"
  /\ LET after == Iterated(program, Machine(heap, regs))
     IN  /\ heap' = after.heap /\ regs' = after.regs
         /\ raised' = (after.status = "Raised")
         /\ phase' = IF after.status = "Raised" THEN "Done" ELSE "Header"
  /\ UNCHANGED <<program, native, states, generic, calls, expected, blemish>>

\* As if the header were asked again.
InterpretAgain(from) ==
  CASE from = "Edge" -> "Words"
    [] from = "Words" \/ Enters(regs) -> "Header"
    [] OTHER -> "Done"

\* Nothing came back: the words, the body past the test, or the test of the loop.
Interpret(from) ==
  CASE from = "Edge" -> "Words"
    [] from = "Words" \/ Enters(regs) -> "Body"
    [] OTHER -> "Done"

-----------------------------------------------------------------------------
InputValues(prepared) ==
  [r \in Registers |-> IF Contains(InputRegisters(program, prepared), r)
                       THEN InputValue(regs, prepared, r) ELSE Uninitialized]

\* The words the code was recorded with, up to lists that are widened.
RunsWhatWasRecorded(state, cases) ==
  /\ Len(cases) = Len(state.case.cases)
  /\ \A k \in DOMAIN cases :
       \/ cases[k] = state.case.cases[k]
       \/ ~state.code.dynamic /\ cases[k].what[1] \in {"List", "Path"}
          /\ cases[k] = WordOf(state.case.cases[k].what, 1) /\ state.case.cases[k].low = 2

StartNative(state, prepared, cases) ==
  /\ native' = [code |-> state.code, values |-> InputValues(prepared), prepared |-> prepared, committed |-> 0,
                from |-> phase]
  /\ phase' = "Native"
  /\ blemish' = IF RunsWhatWasRecorded(state, cases) THEN blemish ELSE blemish \cup {"misread"}
  /\ UNCHANGED <<program, heap, regs, generic, calls, raised, expected>>

Decline ==
  /\ phase' = Interpret(phase)
  /\ native' = NoNative
  /\ UNCHANGED <<program, heap, regs, generic, calls, raised, expected, blemish>>

Advanced(state, stage) == (states \ {state}) \cup {[state EXCEPT !.stage = stage]}

\* The profile of a state decides when it is recorded and when it is compiled.
Record(state, prepared) ==
  /\ state.stage = "Profiling"
  /\ LET code == Code(program, heap, regs, prepared)
     IN  states' = (states \ {state}) \cup
                   {[state EXCEPT !.stage = IF code.supported THEN "Recorded" ELSE "Unsupported", !.code = code]}
\* A compile that fails, or of what no compiler takes, is not tried again.
Compile(state, stage) == state.stage = "Recorded" /\ states' = Advanced(state, stage)

\* The registers live at the header hold something, whatever it is: no more is
\* known of them here.
InputsMatch == \A k \in DOMAIN program.entry : regs[program.entry[k]] # Uninitialized

\* Code made before, for a list that is empty now and will hold integers or
\* floats, or for the edge into the loop; it may be compiled on the way.
TryExisting(usable, prepared, cases) ==
  IF Cardinality(usable) # 1 \/ ~InputsMatch THEN Decline /\ UNCHANGED states
  ELSE \E state \in usable :
         \/ state.stage = "Compiled" /\ StartNative(state, prepared, cases) /\ UNCHANGED states
         \/ Compile(state, "Compiled") /\ StartNative(state, prepared, cases)
         \/ Compile(state, "Unsupported") /\ Decline
         \/ state.stage # "Compiled" /\ Decline /\ UNCHANGED states

Candidates(cases, empties) ==
  IF empties = {} THEN {cases} ELSE {CasesFor(cases, r, tag) : r \in empties, tag \in {1, 2}}

\* The edge into the loop, which must be taken: code is looked for by the types of
\* the inputs alone.
AtEdge ==
  /\ phase = "Edge"
  /\ LET prepared == Prepared(program, heap, regs)
         alike == {s \in states : s.stage = "Compiled" /\ s.case.types = InputTypes(program, regs, prepared)}
     IN  IF Enters(regs) /\ InputsMatch /\ Cardinality(alike) = 1
         THEN \E state \in alike : StartNative(state, prepared, StorageCases(program, heap, regs, prepared))
         ELSE /\ phase' = "Words"
              /\ native' = [NoNative EXCEPT !.prepared = prepared]
              /\ UNCHANGED <<program, heap, regs, generic, calls, raised, expected, blemish>>
  /\ UNCHANGED states

\* Then by the words, integers being taken for floats where floats were recorded.
AtEdgeWords ==
  /\ phase = "Words"
  /\ LET prepared == native.prepared
         cases == StorageCases(program, heap, regs, prepared)
         empties == EmptyAppends(program, heap, regs, prepared)
     IN  TryExisting(IF Cardinality(empties) > 1 \/ ~Enters(regs) THEN {}
                     ELSE {s \in states : /\ s.stage \in {"Recorded", "Compiled"}
                                           /\ \E c \in Candidates(cases, empties) : WidensTo(c, s.case.cases)},
                     prepared, cases)

\* The header. A case is profiled, recorded and compiled on its own, up to the
\* limit; code runs for its own case only. (Code also waits while a loop around
\* this one is being recorded; there is none around these.)
TryExecute(prepared, cases) ==
  LET case == CaseOf(program, regs, prepared, cases)
      known == {s \in states : s.case = case}
  IN  CASE generic \/ ~InputsMatch -> Decline /\ UNCHANGED states
        [] known = {} /\ Cardinality(states) = CaseLimit ->
             /\ generic' = TRUE
             /\ phase' = Interpret(phase)
             /\ UNCHANGED <<program, heap, regs, native, states, calls, raised, expected, blemish>>
        [] known = {} -> /\ states' = states \cup {[case |-> case, stage |-> "Profiling", code |-> NoCode]}
                         /\ Decline
        [] OTHER -> \E state \in known :
             \/ state.stage = "Compiled" /\ StartNative(state, prepared, cases) /\ UNCHANGED states
             \/ state.stage # "Compiled" /\ Decline 
                /\ \/ Record(state, prepared)
                   \/ \E stage \in {"Compiled", "Unsupported"} : Compile(state, stage)
                   \/ UNCHANGED states

Offer(prepared, cases, empties) ==
  IF empties = {} THEN TryExecute(prepared, cases)
  ELSE TryExisting(IF Cardinality(empties) > 1 \/ ~Enters(regs) THEN {}
                   ELSE {s \in states : /\ s.stage # "Unsupported"
                                         /\ \E c \in Candidates(cases, empties) :
                                               s.case = CaseOf(program, regs, prepared, c)},
                   prepared, cases)

Observe(prepared) ==
  Offer(prepared, StorageCases(program, heap, regs, prepared), EmptyAppends(program, heap, regs, prepared))

AtHeader == phase = "Header" /\ Observe(Prepared(program, heap, regs))

-----------------------------------------------------------------------------
\* What the interpreter takes over: the registers live at the header.
Resumed(values) == [r \in Registers |-> IF Contains(program.entry, r) THEN values[r] ELSE regs[r]]
Leave(to, values) ==
  /\ regs' = Resumed(values)
  /\ phase' = to
  /\ native' = NoNative

\* A call that fails ends them all, and the registers of those before it are
\* dropped.
GiveUp ==
  /\ phase' = Interpret(native.from)
  /\ native' = [NoNative EXCEPT !.prepared = native.prepared]
  /\ blemish' = IF native.committed > 0 THEN blemish \cup {"replayed"} ELSE blemish
  /\ UNCHANGED <<heap, regs>>

\* As if what was made ahead for the first call did for the next.
GoOnStale(seen, prepared, leaving) ==
  IF Enters(seen) /\ prepared.found
  THEN /\ native' = [native EXCEPT !.values["i"] = seen["i"], !.committed = @ + 1]
       /\ UNCHANGED <<regs, phase>>
  ELSE leaving

\* The next call, if the loop goes on and its inputs can be made.
GoOn(seen, prepared, leaving) ==
  LET inputs == [r \in Registers |-> IF Contains(InputRegisters(program, prepared), r)
                                      THEN InputValue(seen, prepared, r) ELSE Uninitialized]
  IN  IF Enters(seen) /\ prepared.found /\ Accepts(native.code, inputs)
      THEN /\ native' = [native EXCEPT !.values = inputs, !.committed = @ + 1]
           /\ UNCHANGED <<regs, phase>>
      ELSE leaving

Seen(once) == [r \in Registers |-> IF Contains(program.entry, r) THEN once.regs[r] ELSE native.values[r]]

Continue(once, seen) ==
  IF native.code.once /\ Enters(native.values)
  THEN GoOn(seen, Prepared(program, once.heap, seen), Leave("Header", once.regs))
  ELSE Leave("Done", once.regs)

AfterCall(once) ==
  IF ~once.success THEN GiveUp
  ELSE /\ heap' = once.heap
       /\ blemish' = blemish \cup (IF once.widened THEN {"widened"} ELSE {})
                             \cup (IF once.wrapped THEN {"wrapped"} ELSE {})
       /\ Continue(once, Seen(once))

\* One call of the code and what it wrote committed.
CallNative ==
  /\ phase = "Native"
  /\ AfterCall(Once(native.code, native.values, heap, native.from # "Header" /\ native.committed = 0))
  /\ UNCHANGED <<program, states, generic, calls, raised, expected>>

Return ==
  /\ phase = "Done"
  /\ phase' = "Idle"
  /\ heap' = <<>> /\ regs' = <<>> /\ expected' = <<>>
  /\ raised' = FALSE /\ blemish' = Unblemished
  /\ UNCHANGED <<program, native, states, generic, calls>>

Next ==
  \/ \E a \in Arguments(program.name) : Enter(a)
  \/ AtEdge \/ AtEdgeWords \/ AtHeader \/ CallNative \/ RunBody
  \/ Return

Spec == Init /\ [][Next]_vars

-----------------------------------------------------------------------------
\* A list that was widened holds floats, and where a sum wrapped the machine's
\* integers are right up to a multiple of the words there are.
Same(v, w) == \/ v = w
              \/ "wrapped" \in blemish /\ IsInt(v) /\ (IsInt(w) \/ IsBig(w)) /\ (v[2] - w[2]) % (2 * Half) = 0
              \/ "widened" \in blemish /\ IsNumber(v) /\ IsNumber(w) /\ v[2] = w[2]

\* The registers live after the loop and every list are what they would be.
Agrees ==
  /\ raised = (expected.status = "Raised")
  /\ ~raised => \A k \in DOMAIN program.entry : Same(regs[program.entry[k]], expected.regs[program.entry[k]])
  /\ \A r \in DOMAIN heap : heap[r].kind # "Function" =>
       LET mine == heap[r].sequence.items theirs == expected.heap[r].sequence.items
       IN  Len(mine) = Len(theirs) /\ \A k \in DOMAIN mine : Same(mine[k], theirs[k])

\* Whatever the native side recorded, compiled, widened, ran and gave up, the loop
\* leaves the heap and the registers as the interpreter would alone, unless a call
\* failed after others had committed or the code was made for something else. Sums
\* that do not fit a word are excepted by Same: the interpreter makes an integer in
\* the heap of them, the machine wraps.
AsInterpreted == phase = "Done" /\ blemish \cap {"replayed", "misread"} = {} => Agrees

\* A loop that was given back to the interpreter is run through again from where it
\* was, so that nothing is done twice.
NothingTwice == phase = "Done" /\ "misread" \notin blemish => Agrees

\* Trips left, then how many ways into machine code are left on this one.
TripsLeft(registers) == registers["n"][2] - registers["i"][2]
Rank(at) ==
  CASE at = "Edge" -> 3 [] at = "Words" -> 2 [] at = "Header" -> 1 [] OTHER -> 0
Left ==
  IF phase = "Native"
  THEN 100 * TripsLeft(regs) + 20 * Rank(native.from) + 5 + TripsLeft(native.values)
  ELSE 100 * TripsLeft(regs) + 20 * Rank(phase) + (CASE phase = "Done" -> 0 [] phase = "Body" -> 1 [] OTHER -> 15)

\* Every step of a loop brings it nearer to its end: code that fails or leaves at
\* the header is never entered again without a trip made in between.
LoopEnds == [][phase # "Idle" /\ phase' # "Idle" => Left' < Left]_vars
=============================================================================
