-------------------------- MODULE SafepointProofs --------------------------
(* Theorems of the stop-the-world handshake.                               *)
EXTENDS Safepoint, TLAPS

\* parked is true of parked threads only: nobody leaves poll before the release that
\* made it false again.
ParkedAreParked == \A t \in Registered : parked[t] => pc[t] = "parked"

\* The release that ends the request is the one that clears parked.
ReleasedUnparked == requestedBy = NoOne => \A t \in Registered : ~parked[t]

\* A stop lasts as long as its operation.  The request itself may not: a second
\* initiator's, made while the first operates, is erased by the first one's release.
StopHolds ==
  \A t \in Operating : \A m \in Registered \ ({t} \cup late) : parked[m]

\* The epochs the mutators hold, and the one they were stopped for.
EpochsOrdered ==
  /\ \A t \in Thread : stoppedAt[t] <= epoch
  /\ \A t \in Thread : pc[t] \notin {"out", "parked"} => stoppedAt[t] <= seen[t]

IInv == TypeOK /\ ParkedAreParked /\ ReleasedUnparked /\ StopHolds /\ OneOperation /\ EpochsOrdered

USE NoOneAssumption, InitiatorAssumption, BoundAssumption

-----------------------------------------------------------------------------
LEMMA InitIInv == Init => IInv
BY SMT DEF Init, IInv, TypeOK, ParkedAreParked, StopHolds, OneOperation, EpochsOrdered,
           Operating, Registered, ReleasedUnparked

-----------------------------------------------------------------------------
LEMMA TypeStep == TypeOK /\ [Next]_vars => TypeOK'
<1> SUFFICES ASSUME TypeOK, [Next]_vars PROVE TypeOK'
  OBVIOUS
<1>1. ASSUME NEW t \in Thread, Register(t) PROVE TypeOK'
  <2>1. pc' = [pc EXCEPT ![t] = "running"]
    BY <1>1 DEF Register
  <2>2. Registered = {m \in Thread : pc[m] # "out"}
    <3>1. parked \in [{m \in Thread : pc[m] # "out"} -> BOOLEAN]
      BY DEF TypeOK
    <3> QED
      BY <3>1 DEF Registered
  <2>3. {m \in Thread : pc'[m] # "out"} = Registered \cup {t}
    BY <2>1, <2>2, SMT DEF TypeOK
  <2>4. parked' \in [Registered \cup {t} -> BOOLEAN]
    <3>1. ASSUME NEW m \in Registered PROVE parked[m] \in BOOLEAN
      BY <2>2, <3>1 DEF TypeOK
    <3>2. parked' = [m \in Registered \cup {t} |-> IF m = t THEN FALSE ELSE parked[m]]
      BY <1>1 DEF Register
    <3> QED
      BY <3>1, <3>2
  <2>5. parked' \in [{m \in Thread : pc'[m] # "out"} -> BOOLEAN]
    BY <2>3, <2>4
  <2>6. /\ nextId' \in 0..MaxIds
        /\ seen' \in [Thread -> 0..MaxEpoch]
        /\ stoppedAt' \in [Thread -> 0..MaxEpoch]
        /\ late' \subseteq Thread
    BY <1>1, SMT DEF TypeOK, Register, EpochRead
  <2>7. pc' \in [Thread -> {"out", "running", "stopping", "operating", "refreshing",
                           "parked", "awaiting"}]
    BY <2>1, SMT DEF TypeOK
  <2> QED
    BY <1>1, <2>5, <2>6, <2>7 DEF TypeOK, Register
<1>2. ASSUME NEW t \in Thread, Unregister(t) PROVE TypeOK'
  BY <1>2, SMT DEF TypeOK, Unregister, Registered, Removed, NotifyAll
<1>3. ASSUME NEW t \in Thread, Request(t) PROVE TypeOK'
  BY <1>3, SMT DEF TypeOK, Request, Registered, NotifyAll, NotifyAndWait
<1>4. ASSUME NEW t \in Thread, Recheck(t) PROVE TypeOK'
  BY <1>4, SMT DEF TypeOK, Recheck, Registered
<1>5. ASSUME NEW t \in Thread, Release(t) PROVE TypeOK'
  BY <1>5, SMT DEF TypeOK, Release, Registered, NotifyAll
<1>6. ASSUME NEW t \in Thread, Refresh(t) PROVE TypeOK'
  BY <1>6, SMT DEF TypeOK, Refresh, Registered, EpochRead
<1>7. ASSUME NEW t \in Thread, PollStops(t) PROVE TypeOK'
  BY <1>7, SMT DEF TypeOK, PollStops, Park, Registered, NotifyAndWait
<1>8. ASSUME NEW t \in Thread, PollPasses(t) PROVE TypeOK'
  BY <1>8, SMT DEF TypeOK, PollPasses, Registered, EpochRead
<1>9. ASSUME NEW t \in Thread, AwaitRequest(t) PROVE TypeOK'
  BY <1>9, SMT DEF TypeOK, AwaitRequest, Registered
<1>10. ASSUME NEW t \in Thread, Notified(t) PROVE TypeOK'
  <2>1. CASE requestedBy = NoOne
    BY <1>10, <2>1, SMT DEF TypeOK, Notified
  <2>2. CASE requestedBy # NoOne
    <3>1. pc[t] = "awaiting" /\ Park(t)
      BY <1>10, <2>2 DEF Notified
    <3> QED
      BY <3>1, SMT DEF TypeOK, Park, NotifyAndWait
  <2> QED
    BY <2>1, <2>2
<1>11. ASSUME NEW t \in Thread, Unpark(t) PROVE TypeOK'
  <2>1. parked' \in [{m \in Thread : pc'[m] # "out"} -> BOOLEAN]
    BY <1>11, SMT DEF TypeOK, Unpark
  <2>2. seen' \in [Thread -> 0..MaxEpoch]
    BY <1>11, SMT DEF TypeOK, Unpark, EpochRead
  <2> QED
    BY <1>11, <2>1, <2>2, SMT DEF TypeOK, Unpark
<1>12. CASE UNCHANGED vars
  BY <1>12, SMT DEF TypeOK, vars, Registered
<1> QED
  BY <1>1, <1>2, <1>3, <1>4, <1>5, <1>6, <1>7, <1>8, <1>9, <1>10, <1>11, <1>12 DEF Next

LEMMA ParkedStep == IInv /\ TypeOK' /\ [Next]_vars => ParkedAreParked'
<1> SUFFICES ASSUME IInv, TypeOK', [Next]_vars PROVE ParkedAreParked'
  OBVIOUS
<1> USE DEF IInv, TypeOK, ParkedAreParked, Registered
<1>1. ASSUME NEW t \in Thread, Register(t) PROVE ParkedAreParked'
  BY <1>1, SMT DEF Register
<1>2. ASSUME NEW t \in Thread, Unregister(t) PROVE ParkedAreParked'
  BY <1>2, SMT DEF Unregister, Removed
<1>3. ASSUME NEW t \in Thread, Request(t) \/ Recheck(t) \/ Refresh(t) PROVE ParkedAreParked'
  BY <1>3, SMT DEF Request, Recheck, Refresh
<1>4. ASSUME NEW t \in Thread, Release(t) PROVE ParkedAreParked'
  BY <1>4, SMT DEF Release
<1>5. ASSUME NEW t \in Thread, PollStops(t) \/ Notified(t) PROVE ParkedAreParked'
  BY <1>5, SMT DEF PollStops, Notified, Park
<1>6. ASSUME NEW t \in Thread, PollPasses(t) \/ AwaitRequest(t) PROVE ParkedAreParked'
  BY <1>6, SMT DEF PollPasses, AwaitRequest
<1>7. ASSUME NEW t \in Thread, Unpark(t) PROVE ParkedAreParked'
  <2>1. CASE requestedBy # NoOne
    BY <1>7, <2>1, SMT DEF Unpark, Resumes
  <2>2. CASE requestedBy = NoOne
    BY <1>7, <2>2, SMT DEF Unpark, Resumes, ReleasedUnparked
  <2> QED
    BY <1>7, <2>1, <2>2
<1>8. CASE UNCHANGED vars
  BY <1>8, SMT DEF vars
<1> QED
  BY <1>1, <1>2, <1>3, <1>4, <1>5, <1>6, <1>7, <1>8 DEF Next

LEMMA ReleasedStep == IInv /\ TypeOK' /\ [Next]_vars => ReleasedUnparked'
<1> SUFFICES ASSUME IInv, TypeOK', [Next]_vars PROVE ReleasedUnparked'
  OBVIOUS
<1> USE DEF IInv, TypeOK, ReleasedUnparked, Registered
<1>1. ASSUME NEW t \in Thread, Register(t) PROVE ReleasedUnparked'
  BY <1>1, SMT DEF Register
<1>2. ASSUME NEW t \in Thread, Unregister(t) PROVE ReleasedUnparked'
  BY <1>2, SMT DEF Unregister, Removed
<1>3. ASSUME NEW t \in Thread, Request(t) PROVE ReleasedUnparked'
  BY <1>3, SMT DEF Request
<1>4. ASSUME NEW t \in Thread, Recheck(t) \/ Refresh(t) \/ PollPasses(t) \/ AwaitRequest(t)
      PROVE ReleasedUnparked'
  BY <1>4, SMT DEF Recheck, Refresh, PollPasses, AwaitRequest
<1>5. ASSUME NEW t \in Thread, Release(t) PROVE ReleasedUnparked'
  BY <1>5, SMT DEF Release
<1>6. ASSUME NEW t \in Thread, PollStops(t) \/ Notified(t) PROVE ReleasedUnparked'
  BY <1>6, SMT DEF PollStops, Notified, Park
<1>7. ASSUME NEW t \in Thread, Unpark(t) PROVE ReleasedUnparked'
  BY <1>7, SMT DEF Unpark
<1>8. CASE UNCHANGED vars
  BY <1>8, SMT DEF vars
<1> QED
  BY <1>1, <1>2, <1>3, <1>4, <1>5, <1>6, <1>7, <1>8 DEF Next

LEMMA StopStep == IInv /\ TypeOK' /\ [Next]_vars => StopHolds' /\ OneOperation'
<1> SUFFICES ASSUME IInv, TypeOK', [Next]_vars PROVE StopHolds' /\ OneOperation'
  OBVIOUS
<1> USE DEF IInv, TypeOK, StopHolds, OneOperation, Operating, Registered
<1>1. ASSUME NEW t \in Thread, Register(t) PROVE StopHolds' /\ OneOperation'
  <2>1. ASSUME NEW s \in Operating' PROVE s \in Operating
    BY <1>1, <2>1, SMT DEF Register
  <2>2. ASSUME NEW s \in Operating, NEW m \in Registered' \ ({s} \cup late')
        PROVE parked'[m]
    <3>1. late' = late \cup {t}
      BY <1>1 DEF Register
    <3>2. m # t /\ m \in Registered \ ({s} \cup late)
      BY <1>1, <3>1, SMT DEF Register
    <3> QED
      BY <1>1, <3>2, SMT DEF Register
  <2>3. StopHolds'
    BY <2>1, <2>2
  <2>4. OneOperation'
    BY <2>1
  <2> QED
    BY <2>3, <2>4
<1>2. ASSUME NEW t \in Thread, Unregister(t) PROVE StopHolds' /\ OneOperation'
  BY <1>2, SMT DEF Unregister, Removed
<1>3. ASSUME NEW t \in Thread, Request(t) \/ Recheck(t) PROVE StopHolds' /\ OneOperation'
  <2>1. CASE OthersParked(t)
    <3>1. ASSUME NEW s \in Operating PROVE s = t
      BY <2>1, SMT DEF OthersParked, ParkedAreParked
    <3>2. Operating' \subseteq {t} /\ UNCHANGED <<parked, late>>
      BY <1>3, <3>1, SMT DEF Request, Recheck
    <3> QED
      BY <2>1, <3>2, SMT DEF OthersParked
  <2>2. CASE ~OthersParked(t)
    BY <1>3, <2>2, SMT DEF Request, Recheck
  <2> QED
    BY <2>1, <2>2
<1>4. ASSUME NEW t \in Thread, Release(t) PROVE StopHolds' /\ OneOperation'
  BY <1>4, SMT DEF Release
<1>5. ASSUME NEW t \in Thread, PollStops(t) \/ Notified(t) PROVE StopHolds' /\ OneOperation'
  BY <1>5, SMT DEF PollStops, Notified, Park
<1>6. ASSUME NEW t \in Thread, Refresh(t) \/ PollPasses(t) \/ AwaitRequest(t) \/ Unpark(t)
      PROVE StopHolds' /\ OneOperation'
  BY <1>6, SMT DEF Refresh, PollPasses, AwaitRequest, Unpark
<1>7. CASE UNCHANGED vars
  BY <1>7, SMT DEF vars
<1> QED
  BY <1>1, <1>2, <1>3, <1>4, <1>5, <1>6, <1>7 DEF Next

LEMMA EpochStep == IInv /\ TypeOK' /\ [Next]_vars => EpochsOrdered'
<1> SUFFICES ASSUME IInv, TypeOK', [Next]_vars PROVE EpochsOrdered'
  OBVIOUS
<1> USE DEF IInv, TypeOK, EpochsOrdered
<1>1. ASSUME NEW t \in Thread, Register(t) PROVE EpochsOrdered'
  BY <1>1, SMT DEF Register, EpochRead
<1>2. ASSUME NEW t \in Thread, Unregister(t) \/ Request(t) \/ Recheck(t) PROVE EpochsOrdered'
  BY <1>2, SMT DEF Unregister, Request, Recheck
<1>3. ASSUME NEW t \in Thread, Release(t) PROVE EpochsOrdered'
  BY <1>3, SMT DEF Release
<1>4. ASSUME NEW t \in Thread, Refresh(t) \/ PollPasses(t) PROVE EpochsOrdered'
  BY <1>4, SMT DEF Refresh, PollPasses, EpochRead
<1>5. ASSUME NEW t \in Thread, PollStops(t) \/ Notified(t) \/ AwaitRequest(t)
      PROVE EpochsOrdered'
  BY <1>5, SMT DEF PollStops, Notified, AwaitRequest, Park
<1>6. ASSUME NEW t \in Thread, Unpark(t) PROVE EpochsOrdered'
  BY <1>6, SMT DEF Unpark, EpochRead
<1>7. CASE UNCHANGED vars
  BY <1>7, SMT DEF vars
<1> QED
  BY <1>1, <1>2, <1>3, <1>4, <1>5, <1>6, <1>7 DEF Next

THEOREM Invariance == Spec => []IInv
<1>1. IInv /\ [Next]_vars => IInv'
  BY TypeStep, ParkedStep, ReleasedStep, StopStep, EpochStep DEF IInv
<1> QED
  BY <1>1, InitIInv, PTL DEF Spec

-----------------------------------------------------------------------------
\* register, request_with, poll and Drop keep the control record well formed.
THEOREM SafepointTypeCorrect == Spec => []TypeOK
<1>1. IInv => TypeOK
  BY DEF IInv
<1> QED
  BY <1>1, Invariance, PTL

\* request_with runs its operation only once every mutator registered by then waits in
\* poll, and none of them leaves before the operation is over.
THEOREM WorldStaysStopped == Spec => []WorldStopped
<1>1. IInv => WorldStopped
  BY SMT DEF IInv, StopHolds, ParkedAreParked, WorldStopped, Operating, TypeOK, Registered
<1> QED
  BY <1>1, Invariance, PTL

\* Two calls of request_with never run their operations at the same time.
THEOREM OperationsExclude == Spec => []OneOperation
<1>1. IInv => OneOperation
  BY DEF IInv
<1> QED
  BY <1>1, Invariance, PTL

\* A mutator that poll parked for a stop leaves poll with that stop's epoch or a later one.
THEOREM ParkedSeeTheStop == Spec => []PeersSeeTheStop
<1>1. IInv => PeersSeeTheStop
  BY SMT DEF IInv, EpochsOrdered, PeersSeeTheStop, Running
<1> QED
  BY <1>1, Invariance, PTL
=============================================================================
