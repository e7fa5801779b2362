------------------------ MODULE GenerationScheduler ------------------------
(***************************************************************************)
(* The fair scheduler (dispatch and stale recovery) and the outbox         *)
(* publisher.  They keep no state of their own: everything is in the row.  *)
(***************************************************************************)
EXTENDS GenerationRow

\* Reconcile-only tasks keep the generation their execution is bound to.
ReconcileOnly == task.reconcile > 0

HasExec(statuses) == \E a \in 1..attempt : exec[a].status \in statuses

\* dispatchUserTx: eligibility, bump, owner, lease and the outbox event in one transaction.
Dispatch ==
    /\ Mode = "fair"
    /\ task.taskStatus = "QUEUED" /\ Running /\ ~Live
    /\ task.owner = NoOwner \/ task.lease = "expired"
    /\ \/ attempt = 0
       \/ /\ ReconcileOnly
          /\ \E a \in 1..attempt :
                exec[a].gen = task.gen /\ exec[a].status \in {"prepared", "succeeded"}
    /\ LET bump == IF ReconcileOnly THEN 0 ELSE 1
           e == [gen |-> task.gen + bump, seq |-> IF ReconcileOnly THEN task.reconcile ELSE 0]
       IN  /\ e.gen <= MaxGen
           /\ task' = [task EXCEPT !.taskStatus = "DISPATCHING", !.gen = e.gen,
                                   !.owner = Scheduler, !.lease = "live"]
           /\ outbox' = [outbox EXCEPT ![e] = IF @ = "absent" THEN "virgin" ELSE @]
    /\ UNCHANGED <<attempt, exec, sent, queue, inbox>>

\* The candidate query of RecoverStaleDispatches for an image task.
StaleCandidate ==
    /\ Mode = "fair"
    /\ ~Live
    /\ \/ task.taskStatus = "DISPATCHING"
       \/ task.taskStatus = "RUNNING" /\ HasExec({"prepared", "succeeded"})
    /\ attempt > 0 => LatestGen = task.gen
    /\ \/ /\ attempt = 0
          /\ \/ Present = {}
             \/ \E e \in Events : /\ Present = {e} /\ outbox[e] = "virgin"
                                  /\ inbox[e] = "none"
       \/ HasExec({"prepared", "succeeded"})

\* Mutant of Withdrawn: the event is deleted whatever became of it.
WithdrawnAnyState(e) == IsLatest(e)

\* The conditions of the DELETE: pending, never claimed, never attempted.
Withdrawn(e) == IsLatest(e) /\ outbox[e] = "virgin"

NextReconcile == task.reconcile + 1

\* RecoverStaleDispatches: delete the never-claimed event, requeue with a new
\* generation, or with the same one when a durable execution is to be reconciled.
RecoverStale ==
    /\ StaleCandidate
    /\ outbox' = [e \in Events |-> IF Withdrawn(e) THEN "absent" ELSE outbox[e]]
    /\ LET requeued == [task EXCEPT !.taskStatus = "QUEUED", !.owner = NoOwner, !.lease = "none"]
       IN  \/ /\ HasExec({"prepared", "succeeded"}) /\ NextReconcile <= MaxReconciles
              /\ task' = [requeued EXCEPT !.reconcile = NextReconcile]
           \/ /\ ~HasExec({"prepared", "succeeded"}) /\ task.gen < MaxGen
              /\ task' = [requeued EXCEPT !.gen = @ + 1]
    /\ UNCHANGED <<attempt, exec, sent, queue, inbox>>

-----------------------------------------------------------------------------
(* OutboxStore and OutboxPublisher.                                        *)

OutboxUnchanged == UNCHANGED <<task, attempt, exec, sent, inbox>>

\* OutboxStore.Claim
ClaimEvent(e) ==
    /\ outbox[e] \in {"virgin", "retry"}
    /\ outbox' = [outbox EXCEPT ![e] = "publishing"]
    /\ UNCHANGED queue /\ OutboxUnchanged

\* Publish with a broker confirm: the message is in the broker before the row
\* is marked ("confirmed" is still status 'publishing' in the database).
PublishEvent(e) ==
    /\ outbox[e] = "publishing"
    /\ queue' = queue \cup {e}
    /\ outbox' = [outbox EXCEPT ![e] = "confirmed"]
    /\ OutboxUnchanged

MarkPublished(e) ==
    /\ outbox[e] = "confirmed"
    /\ outbox' = [outbox EXCEPT ![e] = "published"]
    /\ UNCHANGED queue /\ OutboxUnchanged

\* The publisher crashed before MarkPublished: its claim goes stale and the
\* event is claimed, and published, again.
ReclaimEvent(e) ==
    /\ "publisher" \in Faults
    /\ outbox[e] = "confirmed"
    /\ outbox' = [outbox EXCEPT ![e] = "publishing"]
    /\ UNCHANGED queue /\ OutboxUnchanged

\* MarkFailure, which also runs when the confirm was lost after delivery.
MarkFailure(e) ==
    /\ "broker" \in Faults
    /\ outbox[e] \in {"publishing", "confirmed"}
    /\ \E s \in {"retry", "failed"} : outbox' = [outbox EXCEPT ![e] = s]
    /\ UNCHANGED queue /\ OutboxUnchanged

SchedulerNext ==
    \/ Dispatch
    \/ RecoverStale
    \/ \E e \in Events :
          \/ ClaimEvent(e) \/ PublishEvent(e) \/ MarkPublished(e)
          \/ ReclaimEvent(e) \/ MarkFailure(e)

=============================================================================
