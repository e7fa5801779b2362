----------------------------- MODULE Generation -----------------------------
(***************************************************************************)
(* An image generation task from its reservation to its settlement, with   *)
(* every actor of the system working on it at once.                        *)
(***************************************************************************)
EXTENDS GenerationScheduler, GenerationRecovery

vars == <<rowVars, run, wd, op>>

Init == RowInit /\ WorkerInit /\ WatchdogInit /\ RecoveryInit

\* startGenerationHeartbeat: from its claim until it returns, the owner renews
\* its lease; the scheduler never does.
HeartbeatAlive ==
    \/ /\ task.owner \in Workers
       /\ run[task.owner].gen = task.gen
       /\ run[task.owner].pc \notin {"idle", "claim", "finish", "nack"}
    \/ task.owner = Reaper /\ wd.pc \in {"complete", "relinquish"}

Environment ==
    \/ ("stall" \in Faults \/ ~HeartbeatAlive) /\ LeaseExpires
    \/ Cancel
    \/ \E a \in Attempts : ProviderDecides(a)

Next ==
    \/ (Environment \/ SchedulerNext) /\ UNCHANGED <<run, wd, op>>
    \/ WorkerNext /\ UNCHANGED <<wd, op>>
    \/ (WatchdogStep \/ WatchdogCrash) /\ UNCHANGED op
    \/ RecoveryNext

Spec == Init /\ [][Next]_vars

-----------------------------------------------------------------------------
(* Safety.                                                                 *)

TypeOK == RowTypeOK /\ WorkerTypeOK /\ WatchdogTypeOK /\ RecoveryTypeOK

\* The provider is never asked for a second attempt while an earlier one was,
\* or may still be, carried out: guardedImage blocks every automatic resubmission.
NoDoubleSubmission ==
    \A a, b \in Attempts : {sent[a], sent[b]} \subseteq {"sent", "rendered"} => a = b

\* All attempts but the newest are failed: the unique index on active
\* executions and CreatePrepared never meet a second active attempt.
OlderAttemptsFailed == \A a \in 1..attempt : a < attempt => exec[a].status = "failed"

\* Between claiming an attempt and the provider's answer a run is alone with
\* it, and it submits what nobody submitted: a lease that expires under one
\* run never lets the next one repeat the call.
SoleSubmitter ==
    \A w \in Workers :
        run[w].pc \in {"validate", "submit", "calling"} =>
            /\ \A v \in Workers \ {w} :
                  run[v].pc \in {"validate", "submit", "calling"} => run[v].att # run[w].att
            /\ At(w, "submit") => sent[run[w].att] = "unsent"

\* No released reservation has a durable provider result: what the provider
\* delivered and the store kept is paid for, however the runs, the watchdog and
\* a cancellation race.
NoResultReleased == task.billing = "RELEASED" => LatestStatus # "succeeded"

\* Points are captured only by the execution of the generation that settles:
\* never from an older generation's late success.
CapturesCurrentAttempt ==
    [][task.billing # "CAPTURED" /\ task'.billing = "CAPTURED"
          => LatestStatus = "succeeded" /\ LatestGen = task.gen]_vars

\* While a lease is live, only its holder or the user settles the task:
\* watchdog and redelivered messages respect every live owner.
LiveOwnerSettles ==
    [][task.billing = "RESERVED" /\ task'.billing # "RESERVED" /\ Live
          => \/ task'.status = "CANCELLED"
             \/ /\ \E w \in Workers : OwnsRow(w) /\ \A v \in Workers \ {w} : run'[v] = run[v]
                /\ UNCHANGED wd
             \/ task.owner = Reaper /\ wd.pc = "complete" /\ wd' # wd]_vars

\* A message is marked consumed only once its task is settled: until then it
\* stays a recovery trigger.
ConsumedMeansSettled == \A e \in Events : inbox[e] = "done" => ~Running

\* The scheduler withdraws only events nobody can have received: no message and
\* no delivery outlives its outbox row.
WithdrawnNeverDelivered ==
    \A e \in Events : outbox[e] = "absent" => e \notin queue /\ \A w \in Workers : run[w].msg # e

\* Points are settled once, even when an operator reopens a task for review.
PointsSettleOnce == [][task.billing # "RESERVED" => task'.billing = task.billing]_vars

\* Nobody pays for work the provider did not do, whoever settles: run, watchdog
\* or an operator resolving an unknown outcome.
CapturedWorkWasRendered == task.billing = "CAPTURED" => \E a \in Attempts : sent[a] = "rendered"

-----------------------------------------------------------------------------
(* What comments and design documents say, and the code does not do.       *)

\* generation_worker.go:179 "Ambiguous/deferred states remain active and retryable."
AmbiguousStaysActive ==
    [][Running /\ LatestStatus \in {"submitting", "unknown"} => task'.status # "FAILED"]_vars

\* GENERATION-TASK-LIFECYCLE-DESIGN.md, principle 1: a settled task never
\* becomes active again.
SettledStaysSettled == [][task.status \in Terminal => task'.status = task.status]_vars

-----------------------------------------------------------------------------
(* The promise to the user.                                                *)

Promise == INSTANCE Reservation WITH
    outcome <- IF task.status \in Terminal THEN task.status ELSE "open",
    billing <- task.billing,
    work    <- sent

\* The whole system implements the abstract reservation.
ImplementsReservation == Promise!Spec

-----------------------------------------------------------------------------
(* Liveness.                                                               *)

\* The tickers of scheduler, publisher and watchdog keep firing, runs keep
\* running, a lease nobody renews passes, and the provider answers.  The broker
\* retries a message, and the publisher an event, a bounded number of times
\* (topology.go, retry.go): what keeps being refused is given up.
Fairness ==
    /\ \A w \in Workers : WF_vars(RunStep(w) /\ UNCHANGED <<wd, op>>)
    /\ SF_vars((\E w \in Workers : Nack(w) /\ queue' = queue) /\ UNCHANGED <<wd, op>>)
    /\ WF_vars((\E w \in Workers, e \in Events : Deliver(w, e)) /\ UNCHANGED <<wd, op>>)
    /\ WF_vars((\E e \in Events : ClaimEvent(e)) /\ UNCHANGED <<run, wd, op>>)
    /\ WF_vars((\E e \in Events : PublishEvent(e)) /\ UNCHANGED <<run, wd, op>>)
    /\ WF_vars((\E e \in Events : MarkPublished(e)) /\ UNCHANGED <<run, wd, op>>)
    /\ SF_vars((\E e \in Events : MarkFailure(e) /\ outbox'[e] = "failed") /\ UNCHANGED <<run, wd, op>>)
    /\ WF_vars((Dispatch \/ RecoverStale) /\ UNCHANGED <<run, wd, op>>)
    /\ WF_vars(~HeartbeatAlive /\ LeaseExpires /\ UNCHANGED <<run, wd, op>>)
    /\ \A a \in Attempts : WF_vars(ProviderDecides(a) /\ UNCHANGED <<run, wd, op>>)
    /\ WF_vars(WatchdogStep /\ UNCHANGED op)

FairSpec == Spec /\ Fairness

\* A reservation is never held forever: messages that are lost or dead-lettered,
\* a provider that answers ambiguously and a broker that refuses events all end
\* in a capture or a release.
EventuallySettled == <>(task.billing # "RESERVED")

=============================================================================
