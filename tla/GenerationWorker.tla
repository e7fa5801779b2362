-------------------------- MODULE GenerationWorker --------------------------
(***************************************************************************)
(* The runs that execute an image task: a broker delivery or a direct      *)
(* goroutine enters runGenerationTaskForDispatch, claims ownership, goes   *)
(* through guardedImage around the provider call, and settles.  Every      *)
(* database transaction and every unlocked read is a step of its own.      *)
(***************************************************************************)
EXTENDS GenerationRow

CONSTANT Fallback     \* TRUE when another channel can serve the model

VARIABLE run          \* run[w]: the local state of run slot w

\* Each pc is named for what the run does next.
Steps == {"idle", "claim", "inspect", "create", "claimPrepared", "validate", "submit", "calling",
          "markUnknown", "save", "complete", "fail", "relinquish", "finish", "nack"}

Runs == [pc : Steps, gen : Generations, msg : Events \cup {NoEvent},
         att : 0..MaxAttempts, route : Routes]
Idle == [pc |-> "idle", gen |-> 0, msg |-> NoEvent, att |-> 0, route |-> "primary"]

WorkerTypeOK == run \in [Workers -> Runs]

\* The direct path starts its only run with the task.
WorkerInit ==
    IF Mode = "direct"
    THEN \E w \in Workers : run = [v \in Workers |-> IF v = w THEN [Idle EXCEPT !.pc = "claim"] ELSE Idle]
    ELSE run = [w \in Workers |-> Idle]

At(w, pc) == run[w].pc = pc
\* A run forgets what the rest of its code does not read.
Settling == {"complete", "fail", "relinquish"}
Goto(w, pc) ==
    LET r == [run[w] EXCEPT !.pc = pc]
    IN  run' = [run EXCEPT ![w] = CASE pc \in Settling           -> [r EXCEPT !.att = 0, !.route = "primary"]
                                    [] pc \in {"finish", "nack"} -> [Idle EXCEPT !.pc = pc, !.msg = r.msg]
                                    [] OTHER                     -> r]
OwnsRow(w) == Owns(w, run[w].gen)

OnlyTask   == UNCHANGED <<attempt, exec, sent, outbox, queue, inbox>>
OnlyExec   == UNCHANGED <<task, attempt, sent, outbox, queue, inbox>>
OnlyBroker == UNCHANGED <<task, attempt, exec, sent, outbox>>

-----------------------------------------------------------------------------
(* The broker delivery: processGenerationImageMessage up to its commit.    *)

\* A sole succeeded attempt bound to an older generation is refused before the inbox claim.
StaleSuccess == attempt = 1 /\ exec[1].status = "succeeded" /\ task.gen > exec[1].gen
LiveElsewhere == task.taskStatus = "RUNNING" /\ Live /\ task.owner # NoOwner

Deliver(w, e) ==
    /\ At(w, "idle") /\ e \in queue
    /\ queue' = queue \ {e}
    /\ \/ /\ inbox[e] = "done"                       \* duplicate: acknowledged
          /\ UNCHANGED <<inbox, run>>
       \/ /\ inbox[e] # "done" /\ ~Running           \* terminal: completed and acknowledged
          /\ inbox' = [inbox EXCEPT ![e] = "done"]
          /\ UNCHANGED run
       \/ /\ inbox[e] # "done" /\ Running /\ (StaleSuccess \/ LiveElsewhere)
          /\ run' = [run EXCEPT ![w] = [Idle EXCEPT !.pc = "nack", !.msg = e]]
          /\ UNCHANGED inbox                         \* rolled back
       \/ /\ inbox[e] # "done" /\ Running /\ ~StaleSuccess /\ ~LiveElsewhere
          /\ inbox' = [inbox EXCEPT ![e] = "claimed"]
          /\ run' = [run EXCEPT ![w] = [Idle EXCEPT !.pc = "claim", !.msg = e]]
    /\ UNCHANGED <<task, attempt, exec, sent, outbox>>

Expected(w) == IF run[w].msg = NoEvent THEN 0 ELSE run[w].msg.gen

\* claimGenerationTaskOwnershipForDispatch: a run that meets a settled task ends without work.
Claim(w) ==
    /\ At(w, "claim")
    /\ \/ /\ CanClaim(Expected(w))
          /\ task' = Claimed(w)
          /\ run' = [run EXCEPT ![w] = [@ EXCEPT !.pc = "inspect", !.gen = task'.gen]]
       \/ /\ ~Running
          /\ Goto(w, "finish") /\ UNCHANGED task
       \/ /\ Running
          /\ ~ClaimAllowed(Expected(w)) \/ (ClaimKeepsGeneration /\ LatestGen # task.gen)
          /\ Goto(w, "nack") /\ UNCHANGED task
    /\ OnlyTask

-----------------------------------------------------------------------------
(* guardedImage.                                                           *)

\* The request fingerprint covers the channel the request is routed to.
FingerprintMatches(w) == exec[attempt].route = run[w].route

\* Mutant of NeedsAttempt: an unknown outcome is tried again.
NeedsAttemptAfterUnknown == LatestStatus \in {"absent", "failed", "unknown"}

\* providerExecutionForRetry: only a definitively failed attempt has a successor.
NeedsAttempt == LatestStatus \in {"absent", "failed"}

\* Mutant of Resume: a submission that was begun is taken over and repeated.
ResumeSubmission(w) == IF LatestStatus = "submitting" THEN "validate" ELSE "relinquish"

\* What a run does about the attempt it finds.
Resume(w) ==
    CASE LatestStatus = "prepared"   -> "claimPrepared"
      [] LatestStatus = "submitting" -> "markUnknown"
      [] LatestStatus = "succeeded" /\ exec[attempt].result /\ LatestGen = task.gen /\ OwnsRow(w)
                                     -> "complete"
      [] OTHER                       -> "relinquish"

\* The unlocked read of the latest execution decides what this run may do.
Inspect(w) ==
    /\ At(w, "inspect")
    /\ \/ /\ NeedsAttempt /\ attempt < MaxAttempts
          /\ run' = [run EXCEPT ![w] = [@ EXCEPT !.pc = "create", !.att = attempt + 1]]
       \/ /\ ~NeedsAttempt /\ ~FingerprintMatches(w)
          /\ Goto(w, "fail")
       \/ /\ ~NeedsAttempt /\ FingerprintMatches(w)
          /\ LET next == Resume(w)
             IN  IF next \in Settling THEN Goto(w, next)
                 ELSE run' = [run EXCEPT ![w] = [@ EXCEPT !.pc = next, !.att = attempt]]
    /\ UNCHANGED rowVars

\* CreatePreparedForGenerationTask: the new attempt is bound to the generation under the row lock.
CreatePrepared(w) ==
    /\ At(w, "create")
    /\ \/ /\ OwnsRow(w) /\ run[w].att = attempt + 1
          /\ attempt' = attempt + 1
          /\ exec' = [exec EXCEPT ![attempt + 1] =
                         [status |-> "prepared", gen |-> task.gen, route |-> run[w].route, result |-> FALSE]]
          /\ Goto(w, "claimPrepared")
       \/ /\ ~(OwnsRow(w) /\ run[w].att = attempt + 1)    \* fenced, or the attempt exists
          /\ Goto(w, IF OwnsRow(w) THEN "fail" ELSE "relinquish")
          /\ UNCHANGED <<attempt, exec>>
    /\ UNCHANGED <<task, sent, outbox, queue, inbox>>

\* ClaimPreparedForGenerationTask: prepared becomes submitting under both row locks.
ClaimPrepared(w) ==
    /\ At(w, "claimPrepared")
    /\ IF OwnsRow(w) /\ LatestStatus = "prepared" /\ LatestGen = task.gen
       THEN /\ SetExec(attempt, "submitting")
            /\ run' = [run EXCEPT ![w] = [@ EXCEPT !.pc = "validate", !.att = attempt]]
       ELSE /\ Goto(w, IF OwnsRow(w) /\ LatestStatus # "prepared" THEN "fail" ELSE "relinquish")
            /\ UNCHANGED exec
    /\ OnlyExec

\* ValidateGenerationOwnership immediately before the network submission ...
ValidateOwnership(w) ==
    /\ At(w, "validate")
    /\ Goto(w, IF OwnsRow(w) THEN "submit" ELSE "relinquish")
    /\ UNCHANGED rowVars

\* ... which is not atomic with it.
Submit(w) ==
    /\ At(w, "submit")
    /\ sent' = [sent EXCEPT ![run[w].att] = "sent"]
    /\ Goto(w, "calling")
    /\ UNCHANGED <<task, attempt, exec, outbox, queue, inbox>>

\* Generate returns images.
CallSucceeds(w) ==
    /\ At(w, "calling") /\ sent[run[w].att] = "rendered"
    /\ Goto(w, "save")
    /\ UNCHANGED rowVars

\* Mutant of Definitive: every provider error counts as never submitted.
DefinitiveAnyError(w) == sent[run[w].att] # "unsent"

\* Classify: the provider's refusal proves that nothing was done.
Definitive(w) == sent[run[w].att] = "rejected"

\* Generate returns an error classified as never submitted: the attempt fails
\* (an error of that transition is ignored), and another channel may be tried.
CallRejected(w) ==
    /\ At(w, "calling") /\ Definitive(w)
    /\ \/ IF CanTransition(exec[run[w].att].status, "failed")
          THEN SetExec(run[w].att, "failed") ELSE UNCHANGED exec
       \/ "database" \in Faults /\ UNCHANGED exec
    /\ \/ Goto(w, "fail")
       \/ Fallback /\ run' = [run EXCEPT ![w] = [@ EXCEPT !.pc = "inspect", !.route = "fallback"]]
    /\ OnlyExec

\* Any other error, a timeout or an empty answer: the outcome is unknown.
CallAmbiguous(w) ==
    /\ At(w, "calling")
    /\ Goto(w, "markUnknown")
    /\ UNCHANGED rowVars

\* MarkUnknown; its own failure is ignored by every caller.
MarkUnknown(w) ==
    /\ At(w, "markUnknown")
    /\ \/ IF CanTransition(exec[run[w].att].status, "unknown")
          THEN SetExec(run[w].att, "unknown") ELSE UNCHANGED exec
       \/ "database" \in Faults /\ UNCHANGED exec
    /\ Goto(w, "relinquish")
    /\ OnlyExec

\* SaveSucceededResult checks the transition only: no generation, no owner.
SaveResult(w) ==
    /\ At(w, "save")
    /\ IF CanTransition(exec[run[w].att].status, "succeeded")
       THEN /\ exec' = [exec EXCEPT ![run[w].att] = [@ EXCEPT !.status = "succeeded", !.result = TRUE]]
            /\ Goto(w, "complete")
       ELSE Goto(w, "fail") /\ UNCHANGED exec
    /\ OnlyExec

-----------------------------------------------------------------------------
(* Settlement.                                                             *)

\* completeGenerationTaskOwned.  Audit and artifact storage come before it and
\* may fail, which keeps the reservation.
Complete(w) ==
    /\ At(w, "complete")
    /\ \/ /\ OwnsRow(w)
          /\ Capture /\ Goto(w, "finish")
       \/ /\ task.gen = run[w].gen /\ task.status \in Terminal
          /\ Goto(w, "finish") /\ UNCHANGED task
       \/ /\ ~OwnsRow(w) /\ ~(task.gen = run[w].gen /\ task.status \in Terminal)
          /\ Goto(w, "relinquish") /\ UNCHANGED task
       \/ "database" \in Faults /\ Goto(w, "relinquish") /\ UNCHANGED task
    /\ OnlyTask

\* failGenerationTaskOwned: fenced by generation and owner, but it does not
\* look at the provider execution.
FailOwned(w) ==
    /\ At(w, "fail")
    /\ task' = IF OwnsRow(w) THEN Released(task, "FAILED") ELSE task
    /\ Goto(w, "relinquish")
    /\ OnlyTask

\* The run's own deadline passes: every call that carries its context fails,
\* MarkUnknown and SaveSucceededResult included, and so does the ownership
\* check that would have let the run fail the task.
DeadlinePasses(w) ==
    /\ "deadline" \in Faults
    /\ run[w].pc \in {"inspect", "create", "claimPrepared", "validate", "submit", "calling", "markUnknown", "save"}
    /\ Goto(w, "relinquish")
    /\ UNCHANGED rowVars

\* convergeGenerationTaskDeadline, when the run's own deadline has passed.
ConvergeDeadline(w) ==
    /\ "deadline" \in Faults
    /\ At(w, "relinquish")
    /\ OwnsRow(w) /\ ~ProviderBlocksFailure
    /\ task' = Released(task, "FAILED")
    /\ UNCHANGED run /\ OnlyTask

\* relinquishGenerationOwnership; the owner column is cleared, the lease ends now.
Relinquish(w) ==
    /\ At(w, "relinquish")
    /\ task' = IF task.gen = run[w].gen /\ task.owner = w
               THEN [task EXCEPT !.owner = NoOwner, !.lease = "expired"] ELSE task
    /\ Goto(w, "nack")
    /\ OnlyTask

\* A store call of the provider path fails before it changes anything; the
\* error is none of the sentinels, so the run goes on to fail the task.
StoreFails(w) ==
    /\ "database" \in Faults
    /\ run[w].pc \in {"inspect", "create", "claimPrepared", "validate", "save"}
    /\ Goto(w, "fail")
    /\ UNCHANGED rowVars

-----------------------------------------------------------------------------
(* The end of a delivery.                                                  *)

\* InboxStore.CompleteTx and the ack.
Finish(w) ==
    /\ At(w, "finish")
    /\ run' = [run EXCEPT ![w] = Idle]
    /\ inbox' = IF run[w].msg = NoEvent THEN inbox ELSE [inbox EXCEPT ![run[w].msg] = "done"]
    /\ UNCHANGED <<queue>> /\ OnlyBroker

\* Mutant of InboxCompletes: a settled execution is taken for a settled task.
InboxCompletesOnExecution == LatestStatus \in {"succeeded", "failed"}

\* completeImageInboxIfTerminal
InboxCompletes == ~Running

\* The inbox marker is completed if the task is settled; otherwise the consumer republishes the message
\* to the retry queue or, its retries used up, rejects it to the DLQ.
Nack(w) ==
    /\ At(w, "nack")
    /\ run' = [run EXCEPT ![w] = Idle]
    /\ \/ run[w].msg = NoEvent /\ UNCHANGED <<queue, inbox>>
       \/ /\ run[w].msg # NoEvent /\ InboxCompletes
          /\ inbox' = [inbox EXCEPT ![run[w].msg] = "done"] /\ UNCHANGED <<queue>>
       \/ /\ run[w].msg # NoEvent /\ ~InboxCompletes
          /\ queue' = queue \cup {run[w].msg} \/ UNCHANGED queue    \* retried, or dead-lettered
          /\ UNCHANGED inbox
    /\ OnlyBroker

\* The process dies: the broker redelivers what it had not acknowledged, the
\* lease and the provider call live on.
Crash(w) ==
    /\ "crash" \in Faults
    /\ ~At(w, "idle")
    /\ run' = [run EXCEPT ![w] = Idle]
    /\ queue' = IF run[w].msg = NoEvent THEN queue ELSE queue \cup {run[w].msg}
    /\ UNCHANGED <<inbox>> /\ OnlyBroker

RunStep(w) ==
    \/ Claim(w) \/ Inspect(w) \/ CreatePrepared(w) \/ ClaimPrepared(w)
    \/ ValidateOwnership(w) \/ Submit(w) \/ CallSucceeds(w) \/ CallRejected(w)
    \/ CallAmbiguous(w) \/ MarkUnknown(w) \/ SaveResult(w) \/ Complete(w) \/ FailOwned(w)
    \/ Relinquish(w) \/ Finish(w) \/ Nack(w)

WorkerNext ==
    \E w \in Workers :
        \/ \E e \in Events : Deliver(w, e)
        \/ RunStep(w)
        \/ DeadlinePasses(w)
        \/ ConvergeDeadline(w)
        \/ StoreFails(w)
        \/ Crash(w)

=============================================================================
