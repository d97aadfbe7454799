----------------------------- MODULE Safepoint -----------------------------
(***************************************************************************)
(* The stop-the-world handshake.  One action is what a thread does between *)
(* taking the control lock and releasing it or going to sleep on the       *)
(* condition variable.  A thread owns at most one Mutator at a time, so    *)
(* threads stand for the registered ids; a new registration is a new id.   *)
(***************************************************************************)
EXTENDS Naturals, FiniteSets

CONSTANTS
  Thread,
  Initiator,    \* the threads that ask for stops
  NoOne,        \* requested_by is None
  MaxEpoch,     \* bound: stops requested in all
  MaxIds        \* bound: mutators registered in all

ASSUME NoOneAssumption == NoOne \notin Thread
ASSUME InitiatorAssumption == Initiator \subseteq Thread
ASSUME BoundAssumption == MaxEpoch \in Nat /\ MaxIds \in Nat

VARIABLES
  epoch,
  nextId,
  requestedBy,
  parked,      \* the registered mutators, and whether each is parked
  pc,          \* where each thread is
  asleep,      \* the threads waiting on the condition variable
  seen,        \* the epoch each mutator last read
  late,        \* history: who registered while the world was stopped
  stoppedAt    \* history: the epoch of the last stop each mutator was parked for

vars == <<epoch, nextId, requestedBy, parked, pc, asleep, seen, late, stoppedAt>>

Registered == DOMAIN parked
Running == {t \in Thread : pc[t] = "running"}
Operating == {t \in Thread : pc[t] = "operating"}

\* As if request_with waited for the peers that never initiate only.
PeersParked(t) == \A m \in Registered \ ({t} \cup Initiator) : parked[m]

\* The condition request_with waits for.
OthersParked(t) == \A m \in Registered \ {t} : parked[m]

\* As if notify_all were forgotten.
NotifyNobody == asleep

\* Who still sleeps after a notify_all.
NotifyAll == {}

\* As if the parking thread went to sleep without a notify_all.
WaitOnly(t) == asleep \cup {t}

\* Who sleeps after a notify_all and a wait.
NotifyAndWait(t) == {t}

\* As if the mutator kept the epoch it had read before.
EpochKept(t) == seen

\* The mutator reads the epoch.
EpochRead(t) == [seen EXCEPT ![t] = epoch]

\* As if Drop left the mutator registered.
Retained(t) == parked

\* The mutators left when t is dropped.
Removed(t) == [m \in Registered \ {t} |-> parked[m]]

-----------------------------------------------------------------------------
Init ==
  /\ epoch = 0
  /\ nextId = 0
  /\ requestedBy = NoOne
  /\ parked = [t \in {} |-> FALSE]
  /\ pc = [t \in Thread |-> "out"]
  /\ asleep = {}
  /\ seen = [t \in Thread |-> 0]
  /\ late = {}
  /\ stoppedAt = [t \in Thread |-> 0]

Register(t) ==
  /\ pc[t] = "out"
  /\ nextId < MaxIds
  /\ nextId' = nextId + 1
  /\ parked' = [m \in Registered \cup {t} |-> IF m = t THEN FALSE ELSE parked[m]]
  /\ seen' = EpochRead(t)
  /\ pc' = [pc EXCEPT ![t] = "running"]
  /\ late' = IF Operating = {} THEN late ELSE late \cup {t}
  /\ stoppedAt' = [stoppedAt EXCEPT ![t] = 0]
  /\ UNCHANGED <<epoch, requestedBy, asleep>>

\* Drop of a Mutator.
Unregister(t) ==
  /\ pc[t] = "running"
  /\ parked' = Removed(t)
  /\ asleep' = NotifyAll
  /\ pc' = [pc EXCEPT ![t] = "out"]
  /\ late' = late \ {t}
  /\ UNCHANGED <<epoch, nextId, requestedBy, seen, stoppedAt>>

\* request_with, up to the first wait or, if nobody else is left running, to the
\* operation itself.
Request(t) ==
  /\ pc[t] = "running"
  /\ t \in Initiator
  /\ epoch < MaxEpoch
  /\ epoch' = epoch + 1
  /\ requestedBy' = t
  /\ IF OthersParked(t)
     THEN asleep' = NotifyAll /\ pc' = [pc EXCEPT ![t] = "operating"]
     ELSE asleep' = NotifyAndWait(t) /\ pc' = [pc EXCEPT ![t] = "stopping"]
  /\ UNCHANGED <<nextId, parked, seen, late, stoppedAt>>

\* The waiting initiator was notified and looks again.
Recheck(t) ==
  /\ pc[t] = "stopping"
  /\ t \notin asleep
  /\ IF OthersParked(t)
     THEN pc' = [pc EXCEPT ![t] = "operating"] /\ UNCHANGED asleep
     ELSE asleep' = asleep \cup {t} /\ UNCHANGED pc
  /\ UNCHANGED <<epoch, nextId, requestedBy, parked, seen, late, stoppedAt>>

\* The operation is over, by returning or by a panic that is caught and rethrown.
Release(t) ==
  /\ pc[t] = "operating"
  /\ requestedBy' = NoOne
  /\ parked' = [m \in Registered |-> FALSE]
  /\ asleep' = NotifyAll
  /\ pc' = [pc EXCEPT ![t] = "refreshing"]
  /\ late' = {}
  /\ stoppedAt' = [m \in Thread |-> IF pc[m] = "parked" THEN epoch ELSE stoppedAt[m]]
  /\ UNCHANGED <<epoch, nextId, seen>>

\* minor_collect_at ends by reading the epoch again.
Refresh(t) ==
  /\ pc[t] = "refreshing"
  /\ seen' = EpochRead(t)
  /\ pc' = [pc EXCEPT ![t] = "running"]
  /\ UNCHANGED <<epoch, nextId, requestedBy, parked, asleep, late, stoppedAt>>

\* What poll and park_for_next_request do once they have found a request.
Park(t) ==
  /\ parked' = [parked EXCEPT ![t] = TRUE]
  /\ asleep' = NotifyAndWait(t)
  /\ pc' = [pc EXCEPT ![t] = "parked"]
  /\ UNCHANGED <<epoch, nextId, requestedBy, seen, late, stoppedAt>>

PollStops(t) ==
  /\ pc[t] = "running"
  /\ requestedBy \notin {NoOne, t}
  /\ Park(t)

PollPasses(t) ==
  /\ pc[t] = "running"
  /\ requestedBy \in {NoOne, t}
  /\ seen' = EpochRead(t)
  /\ UNCHANGED <<epoch, nextId, requestedBy, parked, pc, asleep, late, stoppedAt>>

\* park_for_next_request with no request pending.
AwaitRequest(t) ==
  /\ pc[t] = "running"
  /\ requestedBy = NoOne
  /\ asleep' = asleep \cup {t}
  /\ pc' = [pc EXCEPT ![t] = "awaiting"]
  /\ UNCHANGED <<epoch, nextId, requestedBy, parked, seen, late, stoppedAt>>

Notified(t) ==
  /\ pc[t] = "awaiting"
  /\ t \notin asleep
  /\ IF requestedBy = NoOne
     THEN /\ asleep' = asleep \cup {t}
          /\ UNCHANGED <<epoch, nextId, requestedBy, parked, pc, seen, late, stoppedAt>>
     ELSE Park(t)

\* As if a wake-up were enough to go on.
ResumesAtOnce(t) == TRUE

\* A parked thread was notified: it goes on once nobody asks for a stop.
Resumes(t) == requestedBy = NoOne

Unpark(t) ==
  /\ pc[t] = "parked"
  /\ t \notin asleep
  /\ IF Resumes(t)
     THEN /\ seen' = EpochRead(t)
          /\ pc' = [pc EXCEPT ![t] = "running"]
          /\ UNCHANGED asleep
     ELSE asleep' = asleep \cup {t} /\ UNCHANGED <<seen, pc>>
  /\ UNCHANGED <<epoch, nextId, requestedBy, parked, late, stoppedAt>>

Next ==
  \E t \in Thread :
    \/ Register(t) \/ Unregister(t)
    \/ Request(t) \/ Recheck(t) \/ Release(t) \/ Refresh(t)
    \/ PollStops(t) \/ PollPasses(t) \/ AwaitRequest(t) \/ Notified(t) \/ Unpark(t)

Spec == Init /\ [][Next]_vars

\* A woken thread gets the lock sooner or later, an operation ends, and a registered
\* mutator that keeps running polls when a stop is asked for.
Fairness ==
  \A t \in Thread :
    WF_vars(Recheck(t) \/ Release(t) \/ Refresh(t) \/ Notified(t) \/ Unpark(t)
            \/ PollStops(t))

FairSpec == Spec /\ Fairness

-----------------------------------------------------------------------------
TypeOK ==
  /\ epoch \in 0..MaxEpoch
  /\ nextId \in 0..MaxIds
  /\ requestedBy \in Thread \cup {NoOne}
  /\ parked \in [{t \in Thread : pc[t] # "out"} -> BOOLEAN]
  /\ pc \in [Thread -> {"out", "running", "stopping", "operating", "refreshing",
                        "parked", "awaiting"}]
  /\ asleep \subseteq Thread
  /\ seen \in [Thread -> 0..MaxEpoch]
  /\ late \subseteq Thread
  /\ stoppedAt \in [Thread -> 0..MaxEpoch]

\* While an operation runs, every mutator that was registered when it began is parked,
\* and stays so: only one that registered since can run under it.
WorldStopped ==
  \A t \in Operating : \A m \in Registered \ ({t} \cup late) : pc[m] = "parked"

\* Two operations never overlap, though a second initiator may register and ask while
\* the first operates.
OneOperation == \A s, t \in Operating : s = t

\* A mutator that was parked for a stop does not run on with an epoch from before it,
\* which is what a scoped borrow is checked against.
PeersSeeTheStop == \A t \in Running : stoppedAt[t] <= seen[t]

\* A request that another one, or the end of another one's operation, has overwritten
\* is lost; so is one that comes in before every mutator has left the stop before it.
RequestLost == \E t \in Thread : pc[t] = "stopping" /\ requestedBy # t
ParkForgotten == \E m \in Registered : pc[m] = "parked" /\ ~parked[m] /\ requestedBy # NoOne
RequestsClash == RequestLost \/ ParkForgotten

\* A stop comes about if the others poll and the request does not clash with another,
\* whoever registers, goes, waits for a request or wakes up meanwhile.
LoneStopFinishes ==
  \A t \in Thread : pc[t] = "stopping" ~> (pc[t] # "stopping" \/ RequestsClash)

\* A parked mutator is released when the stop is over, under the same condition.
ParkedReleased ==
  \A t \in Thread : pc[t] = "parked" ~> (pc[t] # "parked" \/ RequestsClash)
=============================================================================
