------------------------------ MODULE MCDelivery ------------------------------
(* One instance for the way of a task to its worker: admission and scheduling, *)
(* the outbox and the queues, and the connection to the broker.  They share no *)
(* state (the relay's answers already include a connection that is gone), so a *)
(* behaviour runs one of them.  It extends the connection, whose properties    *)
(* keep their names.                                                           *)
EXTENDS BrokerConnection

CONSTANTS Users, Tasks, Callers, Schedulers, Routes(_), Enterprise, Subscribers,
          Concurrency(_), MaxQueued(_), BatchUsers, BatchTasksPerUser, MaxRecoveries,
          Events, Publishers, Receivers, Nobody, Batch, MaxAttempts, MaxRetries, MaxCopies,
          MaxFaults

VARIABLES line, task, expired, lock, call, round, recoveries,
          row, claimant, batch, answer, broker, delivery, handled, dead, happened,
          running

admissionVars == <<line, task, expired, lock, call, round, recoveries>>
relayVars == <<row, claimant, batch, answer, broker, delivery, handled, dead, happened>>

Admitting == INSTANCE Admission
Relay == INSTANCE OutboxRelay WITH Consumers <- Receivers

ASSUME DeliveryAssumption ==
    Admitting!AdmissionAssumption /\ Relay!RelayAssumption /\ ConnectionAssumption

\* The first user's images wait for the scheduler; the second one's may be sent out
\* by the request itself, if there is room when it is admitted.
OneAtATime(u) == 1
ImageOrCanary(u) == IF u = "first" THEN {"image"} ELSE {"canary"}

MCInit == /\ Admitting!Init /\ Relay!Init /\ Init
          /\ running \in {"admission", "relay", "connection"}

MCNext ==
    \/ running = "admission" /\ Admitting!Next /\ UNCHANGED <<relayVars, vars, running>>
    \/ running = "relay" /\ Relay!Next /\ UNCHANGED <<admissionVars, vars, running>>
    \/ running = "connection" /\ Next /\ UNCHANGED <<admissionVars, relayVars, running>>

MCSpec == /\ MCInit /\ [][MCNext]_<<admissionVars, relayVars, vars, running>>
          /\ \/ running = "admission" /\ Admitting!Fairness
             \/ running = "relay" /\ Relay!Fairness
             \/ running = "connection" /\ Fairness

\* The properties of admission, stated in Admission: the plan's limit holds, ...
SentWithinPlan == Admitting!SentWithinPlan
\* ... and every accepted task gets its turn.
EventuallyServed == Admitting!EventuallyServed

\* The properties of the relay, stated in OutboxRelay: a published event is always
\* with somebody, ...
NothingLost == Relay!NothingLost
\* ... a claim is ended only by its holder, ...
ClaimsAreRespected == Relay!ClaimsAreRespected
\* ... and every event is handled, dead-lettered or given up.
EventuallyConsumed == Relay!EventuallyConsumed

\* The promise of the connection, stated in BrokerConnection: a consumer that nobody
\* stops consumes again and again.
ConsumesAgain == running = "connection" => EventuallyConsumes
=============================================================================
