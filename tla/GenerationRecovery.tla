------------------------- MODULE GenerationRecovery -------------------------
(***************************************************************************)
(* The operator recovery API.  A request is allowed or refused by a        *)
(* diagnosis read without any lock; the action then runs in transactions   *)
(* of its own.  Operators present evidence about the provider: it is       *)
(* assumed true.                                                           *)
(***************************************************************************)
EXTENDS GenerationWatchdog

VARIABLE op           \* the operator's request

Requests == [pc : {"idle", "manualReview", "redrive", "capture", "captureResolve", "captureSettle",
                    "release", "releaseObserve", "releaseSettle"},
             observed : Generations]      \* the generation the action presents
NoRequest == [pc |-> "idle", observed |-> 0]

RecoveryTypeOK == op \in Requests
RecoveryInit == op = NoRequest

Open == task.status \in {"PROCESSING", "MANUAL_REVIEW"}

\* Mutant of EvidenceSucceeded: the provider outcome in the evidence is not checked.
EvidenceUnchecked == TRUE

EvidenceSucceeded == sent[attempt] = "rendered"
\* Never submitted, or definitely failed: no run can submit the attempt any more.
EvidenceNotSubmitted == sent[attempt] = "rejected" \/ (sent[attempt] = "unsent" /\ GraceElapsed)

\* allowedRecoveryActions and validateRecoveryAction
Allowed(action) ==
    CASE action = "manualReview" -> Open
      [] action = "redrive" -> Running /\ LatestStatus = "failed"
      [] action = "capture" ->
            \/ LatestStatus = "succeeded" /\ Open /\ task.billing = "RESERVED"
            \/ LatestStatus = "unknown" /\ EvidenceSucceeded
      [] action = "release" ->
            \/ attempt = 0 /\ Open /\ task.billing = "RESERVED"
            \/ LatestStatus = "unknown" /\ EvidenceNotSubmitted

Diagnose ==
    /\ "operator" \in Actors
    /\ op.pc = "idle"
    /\ \E action \in {"manualReview", "redrive", "capture", "release"} :
          Allowed(action) /\ op' = [pc |-> action, observed |-> 0]
    /\ UNCHANGED <<rowVars, run, wd>>

OthersUnchanged == UNCHANGED <<run, wd>>

\* updateGenerationRecoveryState presents the generation it reads under its own lock.
ManualReview ==
    /\ op.pc = "manualReview"
    /\ task' = [task EXCEPT !.status = "MANUAL_REVIEW", !.taskStatus = "MANUAL_REVIEW"]
    /\ op' = NoRequest
    /\ OnlyTask /\ OthersUnchanged

\* redriveGenerationEvent: requeueGenerationTx keeps task_status; the newest
\* event is pending again, whatever the row has become since the diagnosis.
Redrive ==
    /\ op.pc = "redrive"
    /\ \/ /\ ~Live /\ task.gen < MaxGen
          /\ task' = [task EXCEPT !.gen = @ + 1, !.owner = NoOwner, !.lease = "none"]
          /\ \E e \in Present : \E s \in IF "broker" \in Faults THEN {"virgin", "retry"} ELSE {"virgin"} :
                IsLatest(e) /\ outbox' = [outbox EXCEPT ![e] = s]
       \/ UNCHANGED <<task, outbox>>         \* deferred: a live worker, or no event
    /\ op' = NoRequest
    /\ UNCHANGED <<attempt, exec, sent, queue, inbox>> /\ OthersUnchanged

Observes(from, to) ==
    /\ op.pc = from
    /\ op' = [op EXCEPT !.pc = to, !.observed = task.gen]
    /\ UNCHANGED rowVars /\ OthersUnchanged

ResolvesUnknown(from, to, outcome) ==
    /\ op.pc = from
    /\ op' = [op EXCEPT !.pc = to]
    /\ IF LatestStatus = "unknown" THEN SetExec(attempt, outcome) ELSE UNCHANGED exec
    /\ OnlyExec /\ OthersUnchanged

\* resolveGenerationCapture observes the generation itself, after the
\* diagnosis, and then turns an UNKNOWN execution into a success.
ObserveCapture == Observes("capture", "captureResolve")
ResolveCapture == ResolvesUnknown("captureResolve", "captureSettle", "succeeded")

\* Mutant of CaptureFenced: a released task is captured again.
CaptureFencedByGeneration == task.gen = op.observed

\* CompleteGenerationTaskFenced: no owner is presented.
CaptureFenced == task.gen = op.observed /\ Open /\ task.billing # "RELEASED"

SettleCapture ==
    /\ op.pc = "captureSettle"
    /\ IF CaptureFenced THEN Capture ELSE UNCHANGED task
    /\ op' = NoRequest
    /\ OnlyTask /\ OthersUnchanged

\* resolveGenerationRelease first turns an UNKNOWN execution into a failure
\* and observes the generation only then.
ResolveRelease == ResolvesUnknown("release", "releaseObserve", "failed")
ObserveRelease == Observes("releaseObserve", "releaseSettle")

\* FailGenerationTaskDurableFenced
SettleRelease ==
    /\ op.pc = "releaseSettle"
    /\ task' = IF task.gen = op.observed /\ Open /\ ~ProviderBlocksFailure
               THEN Released(task, "FAILED") ELSE task
    /\ op' = NoRequest
    /\ OnlyTask /\ OthersUnchanged

RecoveryNext ==
    \/ Diagnose \/ ManualReview \/ Redrive
    \/ ObserveCapture \/ ResolveCapture \/ SettleCapture
    \/ ResolveRelease \/ ObserveRelease \/ SettleRelease

=============================================================================
