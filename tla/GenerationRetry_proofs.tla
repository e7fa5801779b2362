----------------------- MODULE GenerationRetry_proofs -----------------------
(***************************************************************************)
(* Machine-checked proofs about retries without an operator: a provider is *)
(* asked again only after it definitely refused, a run that calls it works *)
(* on the newest attempt, and, unless runs stall, it owns the task while   *)
(* it does.  An operator can declare an unknown attempt failed, and a run  *)
(* that is still waiting for the answer can then bring in a second one.    *)
(***************************************************************************)
EXTENDS Generation_proofs

USE BoundsAssumption, OwnersDistinct

\* Only an attempt the provider refused has failed.
OnlyRefusedFail == \A a \in Attempts : exec[a].status = "failed" => sent[a] = "rejected"

\* Only a run that saw every attempt fail begins the next one.
CreatorsSawFailure ==
    \A w \in Workers :
        run[w].pc = "create" =>
            /\ run[w].att <= attempt + 1
            /\ \A a \in Attempts : a < run[w].att => exec[a].status = "failed"

RetryInv == op = NoRequest /\ OlderAttemptsFailed /\ OnlyRefusedFail /\ CreatorsSawFailure

-----------------------------------------------------------------------------
(* The steps that begin no attempt.                                        *)

FailuresStay ==
    \A a \in Attempts :
        /\ exec[a].status = "failed" => exec'[a].status = "failed"
        /\ exec'[a].status = "failed" => exec[a].status = "failed" \/ sent[a] = "rejected"

CreatorsStayOrLeave == \A v \in Workers : run'[v] = run[v] \/ run'[v].pc # "create"

Patient ==
    /\ UNCHANGED <<attempt, op>> /\ FailuresStay /\ CreatorsStayOrLeave
    /\ \A a \in Attempts : sent[a] = "rejected" => sent'[a] = "rejected"

LEMMA PatientKeepsRetry ==
    ASSUME TypeOK, RetryInv, Patient
    PROVE  RetryInv'
<1>1. attempt' = attempt /\ attempt \in 0..MaxAttempts
    BY DEF Patient, TypeOK, RowTypeOK
<1>2. OlderAttemptsFailed'
    <2> SUFFICES ASSUME NEW a \in 1..attempt, a < attempt PROVE exec'[a].status = "failed"
        BY <1>1 DEF OlderAttemptsFailed
    <2>1. a \in Attempts
        BY <1>1 DEF Attempts
    <2> QED
        BY <2>1 DEF Patient, FailuresStay, RetryInv, OlderAttemptsFailed
<1>3. OnlyRefusedFail'
    BY DEF Patient, FailuresStay, RetryInv, OnlyRefusedFail
<1>4. CreatorsSawFailure'
    <2> SUFFICES ASSUME NEW w \in Workers, run'[w].pc = "create"
                 PROVE  /\ run'[w].att <= attempt + 1
                        /\ \A a \in Attempts : a < run'[w].att => exec'[a].status = "failed"
        BY <1>1 DEF CreatorsSawFailure
    <2>1. run'[w] = run[w]
        BY DEF Patient, CreatorsStayOrLeave
    <2> QED
        BY <2>1 DEF RetryInv, CreatorsSawFailure, Patient, FailuresStay
<1> QED
    BY <1>2, <1>3, <1>4 DEF RetryInv, Patient

LEMMA SetExecFailuresStay ==
    ASSUME RowTypeOK, NEW a, NEW to \in ExecStatuses, SetExec(a, to),
           a \in Attempts => exec[a].status # "failed" \/ to = "failed",
           a \in Attempts /\ to = "failed" => sent[a] = "rejected"
    PROVE  FailuresStay
<1> SUFFICES ASSUME NEW b \in Attempts
             PROVE  /\ exec[b].status = "failed" => exec'[b].status = "failed"
                    /\ exec'[b].status = "failed" => exec[b].status = "failed" \/ sent[b] = "rejected"
    BY DEF FailuresStay
<1>1. exec[b] \in ExecRows
    BY DEF RowTypeOK
<1>2. CASE a = b
    <2>1. exec'[b] = [exec[b] EXCEPT !.status = to]
        BY <1>2 DEF SetExec, RowTypeOK
    <2> QED
        BY <1>1, <1>2, <2>1 DEF ExecRows
<1>3. CASE a # b
    BY <1>3 DEF SetExec, RowTypeOK
<1> QED
    BY <1>2, <1>3

LEMMA GotoStaysOrLeaves ==
    ASSUME WorkerTypeOK, NEW w \in Workers, NEW pc \in Steps \ {"create"}, Goto(w, pc)
    PROVE  CreatorsStayOrLeave
BY GotoEffect DEF CreatorsStayOrLeave

LEMMA UpdateStaysOrLeaves ==
    ASSUME WorkerTypeOK, NEW w \in Workers, NEW r, r.pc # "create", run' = [run EXCEPT ![w] = r]
    PROVE  CreatorsStayOrLeave
BY DEF CreatorsStayOrLeave, WorkerTypeOK

LEMMA OutsideIsPatient ==
    ASSUME TypeOK, UNCHANGED <<attempt, exec, run, op>>,
           \A a \in Attempts : sent[a] = "rejected" => sent'[a] = "rejected"
    PROVE  Patient
BY DEF Patient, FailuresStay, CreatorsStayOrLeave

\* The runs' steps besides Inspect and CreatePrepared, up to what they do to the executions.
LEMMA WorkerCreatorsStay ==
    ASSUME TypeOK, NEW w \in Workers,
           \/ \E e \in Events : Deliver(w, e)
           \/ RunStep(w) /\ ~Inspect(w)
           \/ DeadlinePasses(w) \/ ConvergeDeadline(w) \/ StoreFails(w) \/ Crash(w)
    PROVE  CreatorsStayOrLeave
<1>1. WorkerTypeOK /\ run[w] \in Runs
    BY DEF TypeOK, WorkerTypeOK
<1>2. {"finish", "nack", "fail", "relinquish", "claimPrepared", "submit", "calling", "markUnknown", "save", "complete"}
          \subseteq Steps \ {"create"}
    BY DEF Steps
<1>3. /\ Idle.pc # "create"
      /\ \A e : [Idle EXCEPT !.pc = "nack", !.msg = e].pc = "nack" /\ [Idle EXCEPT !.pc = "claim", !.msg = e].pc = "claim"
    BY DEF Idle
<1>4. /\ [run[w] EXCEPT !.pc = "inspect", !.gen = task'.gen].pc = "inspect"
      /\ [run[w] EXCEPT !.pc = "validate", !.att = attempt].pc = "validate"
      /\ [run[w] EXCEPT !.pc = "inspect", !.route = "fallback"].pc = "inspect"
    BY <1>1 DEF Runs
<1>5. \/ UNCHANGED run
      \/ \E pc \in {"finish", "nack", "fail", "relinquish", "claimPrepared", "submit", "calling", "markUnknown", "save",
                    "complete"} : Goto(w, pc)
      \/ \E r : r.pc # "create" /\ run' = [run EXCEPT ![w] = r]
    <2>1. ASSUME NEW e \in Events, Deliver(w, e)
          PROVE  UNCHANGED run \/ \E r : r.pc # "create" /\ run' = [run EXCEPT ![w] = r]
        BY <1>3, <2>1 DEF Deliver
    <2>2. CASE Claim(w) \/ ClaimPrepared(w) \/ CallRejected(w)
        BY <1>4, <2>2 DEF Claim, ClaimPrepared, CallRejected
    <2>3. CASE Finish(w) \/ Nack(w) \/ Crash(w)
        BY <1>3, <2>3 DEF Finish, Nack, Crash
    <2>4. CASE CreatePrepared(w) \/ ValidateOwnership(w) \/ Submit(w) \/ CallSucceeds(w) \/ CallAmbiguous(w) \/ MarkUnknown(w)
        BY <2>4 DEF CreatePrepared, ValidateOwnership, Submit, CallSucceeds, CallAmbiguous, MarkUnknown
    <2>5. CASE \/ SaveResult(w) \/ Complete(w) \/ FailOwned(w) \/ DeadlinePasses(w) \/ ConvergeDeadline(w)
               \/ Relinquish(w) \/ StoreFails(w)
        BY <2>5 DEF SaveResult, Complete, FailOwned, DeadlinePasses, ConvergeDeadline, Relinquish, StoreFails
    <2> QED
        BY <2>1, <2>2, <2>3, <2>4, <2>5 DEF RunStep
<1>6. CASE UNCHANGED run
    BY <1>6 DEF CreatorsStayOrLeave
<1> QED
    BY <1>1, <1>2, <1>5, <1>6, GotoStaysOrLeaves, UpdateStaysOrLeaves

LEMMA CallIsPatient ==
    ASSUME TypeOK, SubmissionInv, NEW w \in Workers, UNCHANGED op, CreatorsStayOrLeave,
           ClaimPrepared(w) \/ CallRejected(w) \/ MarkUnknown(w) \/ SaveResult(w)
    PROVE  Patient
<1>1. RowTypeOK /\ {"submitting", "failed", "unknown"} \subseteq ExecStatuses
    BY DEF TypeOK, ExecStatuses
<1>2. UNCHANGED <<attempt, sent>>
    BY DEF ClaimPrepared, CallRejected, MarkUnknown, SaveResult, OnlyExec
<1>3. CASE UNCHANGED exec
    BY <1>2, <1>3 DEF Patient, FailuresStay
<1>4. CASE ClaimPrepared(w) /\ SetExec(attempt, "submitting") /\ LatestStatus = "prepared"
    <2>1. exec[attempt].status # "failed"
        BY <1>4 DEF LatestStatus
    <2>2. FailuresStay
        BY <1>1, <1>4, <2>1, SetExecFailuresStay
    <2> QED
        BY <1>2, <2>2 DEF Patient
<1>5. CASE CallRejected(w) /\ SetExec(run[w].att, "failed")
    <2>1. sent[run[w].att] = "rejected"
        BY <1>5 DEF CallRejected, Definitive
    <2>2. FailuresStay
        BY <1>1, <1>5, <2>1, SetExecFailuresStay
    <2> QED
        BY <1>2, <2>2 DEF Patient
<1>6. CASE MarkUnknown(w) /\ SetExec(run[w].att, "unknown") /\ CanTransition(exec[run[w].att].status, "unknown")
    <2>1. FailuresStay
        BY <1>1, <1>6, SetExecFailuresStay DEF CanTransition
    <2> QED
        BY <1>2, <2>1 DEF Patient
<1>7. CASE SaveResult(w) /\ CanTransition(exec[run[w].att].status, "succeeded")
    <2>1. ASSUME NEW b \in Attempts
          PROVE  exec'[b].status = exec[b].status \/ (exec[b].status # "failed" /\ exec'[b].status = "succeeded")
        <3>1. exec[b] \in ExecRows
            BY <1>1 DEF RowTypeOK
        <3>2. exec'[b] = IF b = run[w].att THEN [exec[b] EXCEPT !.status = "succeeded", !.result = TRUE] ELSE exec[b]
            BY ZenonT(40), <1>1, <1>7 DEF SaveResult, RowTypeOK
        <3> QED
            BY <1>7, <3>1, <3>2 DEF CanTransition, ExecRows
    <2> QED
        BY <1>2, <2>1 DEF Patient, FailuresStay
<1> QED
    BY <1>3, <1>4, <1>5, <1>6, <1>7 DEF ClaimPrepared, CallRejected, MarkUnknown, SaveResult

-----------------------------------------------------------------------------
(* The steps that begin an attempt.                                        *)

LEMMA InspectKeepsRetry ==
    ASSUME TypeOK, SubmissionInv, RetryInv, UNCHANGED op, NEW w \in Workers, Inspect(w)
    PROVE  RetryInv'
<1>1. /\ RowTypeOK /\ WorkerTypeOK /\ run[w] \in Runs /\ attempt \in 0..MaxAttempts
      /\ UNCHANGED <<attempt, exec, sent>>
    BY DEF TypeOK, RowTypeOK, WorkerTypeOK, Inspect, rowVars
<1>2. CASE NeedsAttempt /\ run' = [run EXCEPT ![w] = [@ EXCEPT !.pc = "create", !.att = attempt + 1]]
    <2>1. \A a \in 1..attempt : exec[a].status = "failed"
        <3>1. attempt = 0 \/ exec[attempt].status = "failed"
            BY <1>1, <1>2 DEF NeedsAttempt, LatestStatus, SubmissionInv, AttemptsInOrder, Attempts
        <3> QED
            BY <1>1, <3>1 DEF RetryInv, OlderAttemptsFailed
    <2>2. run'[w].att = attempt + 1 /\ \A v \in Workers \ {w} : run'[v] = run[v]
        BY <1>1, <1>2 DEF WorkerTypeOK, Runs
    <2>3. CreatorsSawFailure'
        BY <1>1, <2>1, <2>2 DEF RetryInv, CreatorsSawFailure, Attempts
    <2> QED
        BY <1>1, <2>3 DEF RetryInv, OlderAttemptsFailed, OnlyRefusedFail
<1>3. CASE ~NeedsAttempt
    <2>1. Resume(w) \in Steps \ {"create"} /\ "fail" \in Steps \ {"create"}
        BY DEF Resume, Steps
    <2>2. [run[w] EXCEPT !.pc = Resume(w), !.att = attempt].pc = Resume(w)
        BY <1>1 DEF Runs
    <2>3. \/ Goto(w, "fail") \/ Goto(w, Resume(w))
          \/ \E r : r.pc # "create" /\ run' = [run EXCEPT ![w] = r]
        BY <1>3, <2>1, <2>2 DEF Inspect
    <2>4. CreatorsStayOrLeave
        BY <1>1, <2>1, <2>3, GotoStaysOrLeaves, UpdateStaysOrLeaves
    <2> QED
        BY <1>1, <2>4, PatientKeepsRetry DEF Patient, FailuresStay
<1> QED
    BY <1>2, <1>3 DEF Inspect

LEMMA CreateKeepsRetry ==
    ASSUME TypeOK, RetryInv, UNCHANGED op, NEW w \in Workers, CreatePrepared(w), CreatorsStayOrLeave
    PROVE  RetryInv'
<1>1. RowTypeOK /\ WorkerTypeOK /\ run[w] \in Runs /\ attempt \in 0..MaxAttempts /\ UNCHANGED sent
    BY DEF TypeOK, RowTypeOK, WorkerTypeOK, CreatePrepared
<1>2. CASE UNCHANGED <<attempt, exec>>
    BY <1>1, <1>2, PatientKeepsRetry DEF Patient, FailuresStay
<1>3. CASE /\ run[w].att = attempt + 1 /\ attempt' = attempt + 1
           /\ exec' = [exec EXCEPT ![attempt + 1] =
                          [status |-> "prepared", gen |-> task.gen, route |-> run[w].route, result |-> FALSE]]
    <2>1. attempt + 1 \in Attempts
        BY <1>1, <1>3 DEF Runs, Attempts
    <2>2. exec'[attempt + 1].status = "prepared" /\ \A a \in Attempts : a # attempt + 1 => exec'[a] = exec[a]
        BY <1>1, <1>3, <2>1 DEF RowTypeOK
    <2>3. \A a \in 1..attempt : exec[a].status = "failed"
        <3> SUFFICES ASSUME NEW a \in 1..attempt PROVE exec[a].status = "failed"
            OBVIOUS
        <3>1. a \in Attempts /\ a < run[w].att
            BY <1>1, <1>3 DEF Attempts
        <3> QED
            BY <3>1 DEF CreatePrepared, At, RetryInv, CreatorsSawFailure
    <2>4. OlderAttemptsFailed'
        BY <1>1, <1>3, <2>2, <2>3 DEF OlderAttemptsFailed, Attempts
    <2>5. OnlyRefusedFail'
        BY <1>1, <2>2 DEF RetryInv, OnlyRefusedFail
    <2>6. CreatorsSawFailure'
        <3> SUFFICES ASSUME NEW v \in Workers, run'[v].pc = "create"
                     PROVE  /\ run'[v].att <= attempt' + 1
                            /\ \A a \in Attempts : a < run'[v].att => exec'[a].status = "failed"
            BY DEF CreatorsSawFailure
        <3>1. run'[v] = run[v] /\ run[v].att \in 0..MaxAttempts
            BY <1>1 DEF CreatorsStayOrLeave, WorkerTypeOK, Runs
        <3> QED
            BY <1>1, <1>3, <2>2, <3>1 DEF RetryInv, CreatorsSawFailure, Attempts
    <2> QED
        BY <2>4, <2>5, <2>6 DEF RetryInv
<1> QED
    BY <1>2, <1>3 DEF CreatePrepared

-----------------------------------------------------------------------------
(* Attempts follow each other.                                             *)

LEMMA NextKeepsRetry ==
    ASSUME "operator" \notin Actors, TypeOK, SubmissionInv, RetryInv, [Next]_vars
    PROVE  RetryInv'
<1>1. CASE Environment /\ UNCHANGED <<run, wd, op>>
    <2>1. UNCHANGED <<attempt, exec>> /\ \A a \in Attempts : sent[a] = "rejected" => sent'[a] = "rejected"
        BY <1>1 DEF Environment, LeaseExpires, Cancel, ProviderDecides, TypeOK, RowTypeOK
    <2> QED
        BY <1>1, <2>1, OutsideIsPatient, PatientKeepsRetry
<1>2. CASE SchedulerNext /\ UNCHANGED <<run, wd, op>>
    <2>1. UNCHANGED <<attempt, exec, sent>>
        BY <1>2 DEF SchedulerNext, Dispatch, RecoverStale, ClaimEvent, PublishEvent, MarkPublished, ReclaimEvent,
           MarkFailure, OutboxUnchanged
    <2> QED
        BY <1>2, <2>1, OutsideIsPatient, PatientKeepsRetry
<1>3. CASE WorkerNext /\ UNCHANGED <<wd, op>>
    <2>1. PICK w \in Workers :
              \/ \E e \in Events : Deliver(w, e)
              \/ RunStep(w) \/ DeadlinePasses(w) \/ ConvergeDeadline(w) \/ StoreFails(w) \/ Crash(w)
        BY <1>3 DEF WorkerNext
    <2>2. CASE Inspect(w)
        BY <1>3, <2>2, InspectKeepsRetry
    <2>3. CASE ~Inspect(w)
        <3>1. CreatorsStayOrLeave
            BY <2>1, <2>3, WorkerCreatorsStay
        <3>2. CASE CreatePrepared(w)
            BY <1>3, <3>1, <3>2, CreateKeepsRetry
        <3>3. CASE ClaimPrepared(w) \/ CallRejected(w) \/ MarkUnknown(w) \/ SaveResult(w)
            BY <1>3, <3>1, <3>3, CallIsPatient, PatientKeepsRetry
        <3>4. CASE Submit(w)
            <4>1. sent[run[w].att] = "unsent" /\ UNCHANGED <<attempt, exec>>
                BY <3>4 DEF Submit, At, SubmissionInv, RunsKnowTheirAttempt
            <4>2. \A a \in Attempts : sent[a] = "rejected" => sent'[a] = "rejected"
                BY <3>4, <4>1 DEF Submit, TypeOK, RowTypeOK
            <4> QED
                BY <1>3, <3>1, <4>1, <4>2, PatientKeepsRetry DEF Patient, FailuresStay
        <3>5. CASE ~(CreatePrepared(w) \/ ClaimPrepared(w) \/ CallRejected(w) \/ MarkUnknown(w) \/ SaveResult(w) \/ Submit(w))
            <4>1. UNCHANGED <<attempt, exec, sent>>
                BY <2>1, <2>3, <3>5 DEF RunStep, Deliver, Claim, ValidateOwnership, CallSucceeds, CallAmbiguous,
                   Complete, FailOwned, DeadlinePasses, ConvergeDeadline, Relinquish, StoreFails, Finish, Nack, Crash,
                   OnlyTask, OnlyBroker, rowVars
            <4> QED
                BY <1>3, <3>1, <4>1, PatientKeepsRetry DEF Patient, FailuresStay
        <3> QED
            BY <3>2, <3>3, <3>4, <3>5
    <2> QED
        BY <2>2, <2>3
<1>4. CASE (WatchdogStep \/ WatchdogCrash) /\ UNCHANGED op
    <2>1. UNCHANGED <<attempt, exec, sent, run>>
        BY <1>4 DEF WatchdogStep, WatchdogCrash, Observe, InspectExecution, FailStale, FailAfterGrace, Fail,
           RecoverClaim, RecoverComplete, RecoverRelinquish, OnlyTask, rowVars
    <2> QED
        BY <1>4, <2>1, OutsideIsPatient, PatientKeepsRetry
<1>5. ~RecoveryNext
    <2>1. op.pc = "idle"
        BY DEF RetryInv, NoRequest
    <2> QED
        BY <2>1 DEF RecoveryNext, Diagnose, ManualReview, Redrive, ObserveCapture, ResolveCapture, SettleCapture,
                    ResolveRelease, ObserveRelease, SettleRelease, Observes, ResolvesUnknown
<1>6. CASE UNCHANGED vars
    BY <1>6, OutsideIsPatient, PatientKeepsRetry DEF vars, rowVars
<1> QED
    BY <1>1, <1>2, <1>3, <1>4, <1>5, <1>6 DEF Next

LEMMA InitRetry == Init => RetryInv
<1> SUFFICES ASSUME Init PROVE RetryInv
    OBVIOUS
<1>1. OlderAttemptsFailed /\ OnlyRefusedFail /\ op = NoRequest
    BY DEF Init, RowInit, RecoveryInit, AbsentExec, OlderAttemptsFailed, OnlyRefusedFail
<1> QED
    BY <1>1, InitRuns DEF RetryInv, CreatorsSawFailure

LEMMA RetryInvariant ==
    ASSUME "operator" \notin Actors
    PROVE  Spec => [](SubmissionInv /\ RetryInv /\ TypeOK)
<1>1. TypeOK /\ SubmissionInv /\ RetryInv /\ [Next]_vars => RetryInv'
    BY NextKeepsRetry
<1> QED
    BY <1>1, InitRetry, SubmissionInvariant, PTL DEF Spec

\* Whatever runs, retries and the watchdog do, all attempts but the newest have
\* failed: the unique index on active executions is never hit.
THEOREM OnlyTheNewestIsActive ==
    ASSUME "operator" \notin Actors
    PROVE  Spec => []OlderAttemptsFailed
<1>1. RetryInv => OlderAttemptsFailed
    BY DEF RetryInv
<1> QED
    BY <1>1, RetryInvariant, PTL

\* Without an operator the provider never has two attempts of one task to carry
\* out, for every number of runs, attempts and generations and under every fault.
THEOREM NeverSubmittedTwice ==
    ASSUME "operator" \notin Actors
    PROVE  Spec => []NoDoubleSubmission
<1>1. SubmissionInv /\ RetryInv /\ TypeOK => NoDoubleSubmission
    <2> SUFFICES ASSUME SubmissionInv, RetryInv, TypeOK, NEW a \in Attempts,
                        sent[a] \in {"sent", "rendered"}
                 PROVE  a = attempt
        BY DEF NoDoubleSubmission
    <2>1. a <= attempt /\ attempt \in 0..MaxAttempts
        BY DEF SubmissionInv, AttemptsInOrder, Attempts, TypeOK, RowTypeOK
    <2>2. exec[a].status # "failed"
        BY DEF RetryInv, OnlyRefusedFail
    <2> QED
        BY <2>1, <2>2 DEF RetryInv, OlderAttemptsFailed, Attempts
<1> QED
    BY <1>1, RetryInvariant, PTL

-----------------------------------------------------------------------------
(* What a step without an operator does to the executions.                 *)

\* The steps that write an execution.
LEMMA ExecSteps ==
    ASSUME op = NoRequest, "operator" \notin Actors, [Next]_vars
    PROVE  \/ UNCHANGED <<attempt, exec>>
           \/ \E w \in Workers : \/ CreatePrepared(w) \/ ClaimPrepared(w) \/ CallRejected(w)
                                 \/ MarkUnknown(w) \/ SaveResult(w)
<1>1. CASE (Environment \/ SchedulerNext) \/ WatchdogStep \/ WatchdogCrash \/ UNCHANGED vars
    BY <1>1 DEF Environment, LeaseExpires, Cancel, ProviderDecides, SchedulerNext, Dispatch, RecoverStale,
           ClaimEvent, PublishEvent, MarkPublished, ReclaimEvent, MarkFailure, OutboxUnchanged, WatchdogStep,
           WatchdogCrash, Observe, InspectExecution, FailStale, FailAfterGrace, Fail, RecoverClaim,
           RecoverComplete, RecoverRelinquish, OnlyTask, rowVars, vars
<1>2. CASE WorkerNext
    BY <1>2 DEF WorkerNext, RunStep, Deliver, Claim, Inspect, ValidateOwnership, Submit, CallSucceeds, CallAmbiguous,
           Complete, FailOwned, DeadlinePasses, ConvergeDeadline, Relinquish, StoreFails, Finish, Nack, Crash,
           OnlyTask, OnlyBroker, rowVars
<1>3. ~RecoveryNext
    BY DEF NoRequest, RecoveryNext, Diagnose, ManualReview, Redrive, ObserveCapture, ResolveCapture, SettleCapture,
           ResolveRelease, ObserveRelease, SettleRelease, Observes, ResolvesUnknown
<1> QED
    BY <1>1, <1>2, <1>3 DEF Next

\* SaveSucceededResult writes one row.
LEMMA SaveEffect ==
    ASSUME RowTypeOK, NEW w \in Workers, SaveResult(w), NEW a \in Attempts
    PROVE  \/ exec'[a] = exec[a]
           \/ /\ a = run[w].att /\ CanTransition(exec[a].status, "succeeded")
              /\ exec'[a].status = "succeeded" /\ exec'[a].gen = exec[a].gen /\ exec'[a].route = exec[a].route
<1>1. exec[a] \in ExecRows
    BY DEF RowTypeOK
<1>2. [exec[a] EXCEPT !.status = "succeeded", !.result = TRUE].status = "succeeded"
    BY <1>1 DEF ExecRows
<1>3. /\ [exec[a] EXCEPT !.status = "succeeded", !.result = TRUE].gen = exec[a].gen
      /\ [exec[a] EXCEPT !.status = "succeeded", !.result = TRUE].route = exec[a].route
    BY <1>1 DEF ExecRows
<1>4. \/ exec'[a] = exec[a]
      \/ /\ a = run[w].att /\ CanTransition(exec[a].status, "succeeded")
         /\ exec'[a] = [exec[a] EXCEPT !.status = "succeeded", !.result = TRUE]
    BY ZenonT(40) DEF SaveResult, RowTypeOK
<1> QED
    BY <1>2, <1>3, <1>4

\* A change of status leaves generation and route alone.
LEMMA SetExecEffect ==
    ASSUME RowTypeOK, NEW b, NEW to, SetExec(b, to), NEW a \in Attempts
    PROVE  \/ exec'[a] = exec[a] /\ a # b
           \/ /\ a = b /\ exec'[a].status = to
              /\ exec'[a].gen = exec[a].gen /\ exec'[a].route = exec[a].route
<1>1. exec[a] \in ExecRows
    BY DEF RowTypeOK
<1>2. IF a = b THEN exec'[a] = [exec[a] EXCEPT !.status = to] ELSE exec'[a] = exec[a]
    BY DEF SetExec, RowTypeOK
<1> QED
    BY <1>1, <1>2 DEF ExecRows

\* An execution keeps its generation and, once it succeeded, its status; it is
\* prepared only when it is created, and it fails only by a refusal.
ExecKept(a) ==
    /\ exec'[a].gen = exec[a].gen /\ exec'[a].route = exec[a].route
    /\ exec[a].status = "succeeded" => exec'[a].status = "succeeded"
    /\ exec'[a].status = "succeeded" =>
          exec[a].status = "succeeded" \/ \E w \in Workers : SaveResult(w) /\ run[w].att = a
    /\ exec[a].status # "prepared" => exec'[a].status # "prepared"
    /\ exec'[a].status = "failed" =>
          exec[a].status = "failed" \/ \E w \in Workers : CallRejected(w) /\ run[w].att = a

LEMMA ExecutionsKept ==
    ASSUME "operator" \notin Actors, TypeOK, RetryInv, [Next]_vars, NEW a \in 1..attempt
    PROVE  ExecKept(a)
<1>1. RowTypeOK /\ attempt \in 0..MaxAttempts /\ a \in Attempts /\ a # attempt + 1
    BY DEF TypeOK, RowTypeOK, Attempts
<1>2. CASE exec'[a] = exec[a]
    BY <1>2 DEF ExecKept
<1>3. ASSUME NEW w \in Workers, CreatePrepared(w) PROVE exec'[a] = exec[a]
    BY <1>1, <1>3 DEF CreatePrepared, RowTypeOK
<1>4. ASSUME NEW w \in Workers, ClaimPrepared(w), exec'[a] # exec[a] PROVE ExecKept(a)
    <2>1. SetExec(attempt, "submitting") /\ LatestStatus = "prepared"
        BY <1>4 DEF ClaimPrepared
    <2>2. exec'[a].status = "submitting" /\ a = attempt
        BY <1>1, <1>4, <2>1, SetExecEffect
    <2>3. exec[a].status = "prepared"
        BY <2>1, <2>2 DEF LatestStatus
    <2> QED
        BY <1>1, <1>4, <2>1, <2>2, <2>3, SetExecEffect DEF ExecKept
<1>5. ASSUME NEW w \in Workers, CallRejected(w), exec'[a] # exec[a] PROVE ExecKept(a)
    <2>1. SetExec(run[w].att, "failed") /\ CanTransition(exec[run[w].att].status, "failed")
        BY <1>5 DEF CallRejected
    <2>2. exec'[a].status = "failed" /\ a = run[w].att
        BY <1>1, <1>5, <2>1, SetExecEffect
    <2> QED
        BY <1>1, <1>5, <2>1, <2>2, SetExecEffect DEF ExecKept, CanTransition
<1>6. ASSUME NEW w \in Workers, MarkUnknown(w), exec'[a] # exec[a] PROVE ExecKept(a)
    <2>1. SetExec(run[w].att, "unknown") /\ CanTransition(exec[run[w].att].status, "unknown")
        BY <1>6 DEF MarkUnknown
    <2>2. exec'[a].status = "unknown" /\ a = run[w].att
        BY <1>1, <1>6, <2>1, SetExecEffect
    <2> QED
        BY <1>1, <1>6, <2>1, <2>2, SetExecEffect DEF ExecKept, CanTransition
<1>7. ASSUME NEW w \in Workers, SaveResult(w), exec'[a] # exec[a] PROVE ExecKept(a)
    BY <1>1, <1>7, SaveEffect DEF ExecKept
<1> QED
    BY <1>2, <1>3, <1>4, <1>5, <1>6, <1>7, ExecSteps DEF RetryInv

\* A new attempt follows a failed one, and is prepared.
LEMMA AttemptsGrow ==
    ASSUME "operator" \notin Actors, TypeOK, RetryInv, [Next]_vars, attempt' # attempt
    PROVE  /\ attempt' = attempt + 1 /\ LatestStatus \in {"absent", "failed"}
           /\ LatestStatus' = "prepared" /\ UNCHANGED task
<1>1. PICK w \in Workers : CreatePrepared(w)
    BY ExecSteps DEF RetryInv, ClaimPrepared, CallRejected, MarkUnknown, SaveResult, OnlyExec
<1>2. RowTypeOK /\ attempt \in 0..MaxAttempts /\ run[w] \in Runs
    BY DEF TypeOK, RowTypeOK, WorkerTypeOK
<1>3. /\ run[w].att = attempt + 1 /\ run[w].pc = "create"
      /\ attempt' = attempt + 1 /\ UNCHANGED task
      /\ exec' = [exec EXCEPT ![attempt + 1] =
                    [status |-> "prepared", gen |-> task.gen, route |-> run[w].route, result |-> FALSE]]
    BY <1>1 DEF CreatePrepared, At
<1>4. attempt + 1 \in Attempts
    BY <1>2, <1>3 DEF Runs, Attempts
<1>5. exec'[attempt + 1].status = "prepared"
    BY <1>2, <1>3, <1>4 DEF RowTypeOK
<1>6. LatestStatus \in {"absent", "failed"}
    BY <1>1, <1>2, <1>3 DEF RetryInv, CreatorsSawFailure, LatestStatus, Attempts
<1> QED
    BY <1>2, <1>3, <1>5, <1>6 DEF LatestStatus

-----------------------------------------------------------------------------
(* How runs come to call the provider and to settle a result.              *)

Callers == Submitters \cup {"save"}

BeginsCall(w) ==
    /\ ClaimPrepared(w) /\ OwnsRow(w) /\ LatestStatus = "prepared" /\ LatestGen = task.gen
    /\ run'[w].pc = "validate" /\ run'[w].att = attempt /\ run'[w].gen = run[w].gen

GoesOn(w) ==
    /\ run[w].pc \in Submitters /\ run'[w].pc \in Callers
    /\ run'[w].att = run[w].att /\ run'[w].gen = run[w].gen
    /\ run'[w].pc = "save" => sent'[run[w].att] = "rendered"
    /\ UNCHANGED <<task, attempt, exec>>

FindsResult(w) ==
    /\ LatestStatus = "succeeded" /\ LatestGen = task.gen /\ OwnsRow(w)
    /\ run'[w].gen = run[w].gen /\ run'[w].pc = "complete"
    /\ UNCHANGED <<task, attempt, exec>>

SavesResult(w) ==
    /\ SaveResult(w) /\ CanTransition(exec[run[w].att].status, "succeeded")
    /\ run'[w].gen = run[w].gen /\ run'[w].pc = "complete"

\* What the other steps do to their run.
LEMMA OtherRunSteps ==
    ASSUME TypeOK, NEW w \in Workers,
           \/ \E e \in Events : Deliver(w, e)
           \/ Claim(w) \/ CreatePrepared(w) \/ CallRejected(w) \/ CallAmbiguous(w) \/ MarkUnknown(w)
           \/ Complete(w) \/ FailOwned(w) \/ Relinquish(w) \/ Finish(w) \/ Nack(w)
           \/ DeadlinePasses(w) \/ ConvergeDeadline(w) \/ StoreFails(w) \/ Crash(w)
    PROVE  \A v \in Workers : run'[v] = run[v] \/ run'[v].pc \notin Callers \cup {"complete"}
<1>1. WorkerTypeOK /\ run[w] \in Runs
    BY DEF TypeOK, WorkerTypeOK
<1>2. {"finish", "nack", "fail", "relinquish", "claimPrepared", "markUnknown"}
          \subseteq Steps \ (Callers \cup {"complete"})
    BY DEF Steps, Callers, Submitters
<1>3. /\ Idle.pc \notin Callers \cup {"complete"}
      /\ \A e : /\ [Idle EXCEPT !.pc = "nack", !.msg = e].pc \notin Callers \cup {"complete"}
                /\ [Idle EXCEPT !.pc = "claim", !.msg = e].pc \notin Callers \cup {"complete"}
    BY DEF Idle, Callers, Submitters
<1>4. /\ [run[w] EXCEPT !.pc = "inspect", !.gen = task'.gen].pc \notin Callers \cup {"complete"}
      /\ [run[w] EXCEPT !.pc = "inspect", !.route = "fallback"].pc \notin Callers \cup {"complete"}
    BY <1>1 DEF Runs, Callers, Submitters
<1>5. \/ UNCHANGED run
      \/ \E pc \in {"finish", "nack", "fail", "relinquish", "claimPrepared", "markUnknown"} : Goto(w, pc)
      \/ \E r : r.pc \notin Callers \cup {"complete"} /\ run' = [run EXCEPT ![w] = r]
    <2>1. ASSUME NEW e \in Events, Deliver(w, e)
          PROVE  UNCHANGED run \/ \E r : r.pc \notin Callers \cup {"complete"} /\ run' = [run EXCEPT ![w] = r]
        BY <1>3, <2>1 DEF Deliver
    <2>2. CASE Claim(w) \/ CallRejected(w)
        BY <1>4, <2>2 DEF Claim, CallRejected
    <2>3. CASE Finish(w) \/ Nack(w) \/ Crash(w)
        BY <1>3, <2>3 DEF Finish, Nack, Crash
    <2>4. CASE CreatePrepared(w) \/ CallAmbiguous(w) \/ MarkUnknown(w)
        BY <2>4 DEF CreatePrepared, CallAmbiguous, MarkUnknown
    <2>5. CASE \/ Complete(w) \/ FailOwned(w) \/ DeadlinePasses(w) \/ ConvergeDeadline(w)
               \/ Relinquish(w) \/ StoreFails(w)
        BY <2>5 DEF Complete, FailOwned, DeadlinePasses, ConvergeDeadline, Relinquish, StoreFails
    <2> QED
        BY <2>1, <2>2, <2>3, <2>4, <2>5
<1>6. ASSUME NEW pc \in Steps \ (Callers \cup {"complete"}), Goto(w, pc)
      PROVE  \A v \in Workers : run'[v] = run[v] \/ run'[v].pc \notin Callers \cup {"complete"}
    BY <1>1, <1>6, GotoEffect
<1>7. ASSUME NEW r, r.pc \notin Callers \cup {"complete"}, run' = [run EXCEPT ![w] = r]
      PROVE  \A v \in Workers : run'[v] = run[v] \/ run'[v].pc \notin Callers \cup {"complete"}
    BY <1>1, <1>7 DEF WorkerTypeOK
<1> QED
    BY <1>2, <1>5, <1>6, <1>7

\* The ways a run comes to call the provider, to hold its answer, or to complete.
LEMMA RunEntries ==
    ASSUME TypeOK, [Next]_vars, NEW v \in Workers, run'[v].pc \in Callers \cup {"complete"}
    PROVE  \/ run'[v] = run[v]
           \/ BeginsCall(v) \/ GoesOn(v) \/ FindsResult(v) \/ SavesResult(v)
<1>1. CASE UNCHANGED run
    BY <1>1
<1>2. CASE WorkerNext
    <2>1. PICK w \in Workers :
              \/ \E e \in Events : Deliver(w, e)
              \/ RunStep(w) \/ DeadlinePasses(w) \/ ConvergeDeadline(w) \/ StoreFails(w) \/ Crash(w)
        BY <1>2 DEF WorkerNext
    <2>2. /\ WorkerTypeOK /\ RowTypeOK /\ run[w] \in Runs
          /\ {"submit", "relinquish", "calling", "save", "complete", "fail"} \subseteq Steps
        BY DEF TypeOK, WorkerTypeOK, Steps
    <2>3. CASE Inspect(w)
        <3>1. Resume(w) \in Steps /\ "fail" \in Steps /\ UNCHANGED <<task, attempt, exec>>
            BY <2>3 DEF Resume, Steps, Inspect, rowVars
        <3>2. CASE Resume(w) = "complete" /\ Goto(w, "complete") /\ ~NeedsAttempt
            <4>1. /\ run'[w].pc = "complete" /\ run'[w].gen = run[w].gen
                  /\ \A u \in Workers \ {w} : run'[u] = run[u]
                BY <2>2, <3>2, GotoEffect, GotoKeeps
            <4>2. LatestStatus = "succeeded" /\ LatestGen = task.gen /\ OwnsRow(w)
                BY <3>2 DEF Resume
            <4> QED
                BY <3>1, <4>1, <4>2 DEF FindsResult
        <3>3. CASE ~(Resume(w) = "complete" /\ Goto(w, "complete") /\ ~NeedsAttempt)
            <4>1. /\ [run[w] EXCEPT !.pc = "create", !.att = attempt + 1].pc = "create"
                  /\ [run[w] EXCEPT !.pc = Resume(w), !.att = attempt].pc = Resume(w)
                BY <2>2 DEF Runs
            <4>2. \E pc \in Steps \ (Callers \cup {"complete"}) :
                      Goto(w, pc) \/ \E r : r.pc = pc /\ run' = [run EXCEPT ![w] = r]
                BY <2>3, <3>3, <4>1 DEF Inspect, Resume, Settling, Steps, Callers, Submitters
            <4>3. \A u \in Workers : run'[u] = run[u] \/ run'[u].pc \notin Callers \cup {"complete"}
                BY <2>2, <4>2, GotoEffect DEF WorkerTypeOK
            <4> QED
                BY <4>3
        <3> QED
            BY <3>2, <3>3
    <2>4. CASE ClaimPrepared(w)
        <3>1. CASE Goto(w, "fail") \/ Goto(w, "relinquish")
            BY <2>2, <3>1, GotoEffect DEF Callers, Submitters
        <3>2. CASE /\ OwnsRow(w) /\ LatestStatus = "prepared" /\ LatestGen = task.gen
                   /\ run' = [run EXCEPT ![w] = [@ EXCEPT !.pc = "validate", !.att = attempt]]
            <4> DEFINE r == [run[w] EXCEPT !.pc = "validate", !.att = attempt]
            <4>1. r.pc = "validate" /\ r.att = attempt /\ r.gen = run[w].gen
                BY <2>2 DEF Runs
            <4>2. run'[w] = r /\ \A u \in Workers \ {w} : run'[u] = run[u]
                BY <2>2, <3>2 DEF WorkerTypeOK
            <4> QED
                BY <2>4, <3>2, <4>1, <4>2 DEF BeginsCall
        <3> QED
            BY <2>4, <3>1, <3>2 DEF ClaimPrepared
    <2>5. CASE ValidateOwnership(w) \/ Submit(w) \/ CallSucceeds(w)
        <3>1. /\ run[w].pc \in Submitters /\ UNCHANGED <<task, attempt, exec>>
              /\ \E pc \in {"submit", "relinquish", "calling", "save"} :
                    /\ Goto(w, pc)
                    /\ pc = "save" => sent'[run[w].att] = "rendered"
            BY <2>5 DEF ValidateOwnership, Submit, CallSucceeds, At, Submitters, rowVars
        <3>2. PICK pc \in {"submit", "relinquish", "calling", "save"} :
                  /\ Goto(w, pc)
                  /\ pc = "save" => sent'[run[w].att] = "rendered"
            BY <3>1
        <3>3. /\ run'[w].pc = pc /\ run'[w].gen = run[w].gen
              /\ pc # "relinquish" => run'[w].att = run[w].att
              /\ \A u \in Workers \ {w} : run'[u] = run[u]
            BY <2>2, <3>2, GotoEffect, GotoKeeps
        <3> QED
            BY <3>1, <3>2, <3>3 DEF GoesOn, Callers, Submitters
    <2>6. CASE SaveResult(w)
        <3>1. CASE Goto(w, "fail")
            BY <2>2, <3>1, GotoEffect DEF Callers, Submitters
        <3>2. CASE Goto(w, "complete") /\ CanTransition(exec[run[w].att].status, "succeeded")
            <4>1. /\ run'[w].pc = "complete" /\ run'[w].gen = run[w].gen
                  /\ \A u \in Workers \ {w} : run'[u] = run[u]
                BY <2>2, <3>2, GotoEffect, GotoKeeps
            <4> QED
                BY <2>6, <3>2, <4>1 DEF SavesResult
        <3> QED
            BY <2>6, <3>1, <3>2 DEF SaveResult
    <2>7. CASE ~(\/ Inspect(w) \/ ClaimPrepared(w) \/ ValidateOwnership(w) \/ Submit(w)
                 \/ CallSucceeds(w) \/ SaveResult(w))
        BY <2>1, <2>7, OtherRunSteps DEF RunStep
    <2> QED
        BY <2>3, <2>4, <2>5, <2>6, <2>7
<1>3. CASE WatchdogStep \/ WatchdogCrash \/ RecoveryNext
    <2>1. UNCHANGED run
        BY <1>3 DEF WatchdogStep, WatchdogCrash, Observe, InspectExecution, FailStale, FailAfterGrace, Fail,
           RecoverClaim, RecoverComplete, RecoverRelinquish, RecoveryNext, Diagnose, ManualReview, Redrive,
           ObserveCapture, ResolveCapture, SettleCapture, ResolveRelease, ObserveRelease, SettleRelease,
           Observes, ResolvesUnknown, OthersUnchanged
    <2> QED
        BY <2>1
<1> QED
    BY <1>1, <1>2, <1>3 DEF Next, vars

-----------------------------------------------------------------------------
(* Who writes the task.                                                    *)

RunWritesTask(w) ==
    \/ Claim(w) /\ CanClaim(Expected(w)) /\ task' = Claimed(w)
    \/ Complete(w) /\ OwnsRow(w) /\ Capture
    \/ FailOwned(w) /\ OwnsRow(w) /\ task' = Released(task, "FAILED")
    \/ ConvergeDeadline(w)
    \/ Relinquish(w) /\ task.owner = w /\ task' = [task EXCEPT !.owner = NoOwner, !.lease = "expired"]

WatchdogWritesTask ==
    \/ FailStale /\ ~ProviderBlocksFailure /\ ReaperMatches(wd.obs) /\ task' = Released(task, "FAILED")
    \/ FailAfterGrace /\ GraceEligible /\ ReaperMatches(wd.obs) /\ task' = Released(task, "FAILED")
    \/ RecoverClaim /\ ReaperMatches(wd.obs) /\ CanClaim(wd.obs.gen) /\ task' = Claimed(Reaper)
    \/ RecoverComplete /\ Owns(Reaper, wd.obs.gen) /\ Capture
    \/ RecoverRelinquish /\ task.owner = Reaper /\ task' = [task EXCEPT !.owner = NoOwner, !.lease = "expired"]

\* Every step that writes the task, with the condition it writes it under.
LEMMA TaskSteps ==
    ASSUME [Next]_vars
    PROVE  \/ UNCHANGED task
           \/ ("stall" \in Faults \/ ~HeartbeatAlive) /\ LeaseExpires
           \/ Cancel \/ Dispatch \/ RecoverStale
           \/ (\E w \in Workers : RunWritesTask(w)) /\ UNCHANGED <<wd, op>>
           \/ WatchdogWritesTask /\ UNCHANGED <<run, op>>
           \/ RecoveryNext
<1>1. CASE (Environment \/ SchedulerNext) /\ UNCHANGED <<run, wd, op>>
    BY <1>1 DEF Environment, ProviderDecides, SchedulerNext, ClaimEvent, PublishEvent, MarkPublished,
           ReclaimEvent, MarkFailure, OutboxUnchanged
<1>2. CASE WorkerNext /\ UNCHANGED <<wd, op>>
    <2>1. PICK w \in Workers :
              \/ \E e \in Events : Deliver(w, e)
              \/ RunStep(w) \/ DeadlinePasses(w) \/ ConvergeDeadline(w) \/ StoreFails(w) \/ Crash(w)
        BY <1>2 DEF WorkerNext
    <2>2. UNCHANGED task \/ RunWritesTask(w)
        BY <2>1 DEF RunStep, Deliver, Claim, Inspect, CreatePrepared, ClaimPrepared, ValidateOwnership, Submit,
           CallSucceeds, CallRejected, CallAmbiguous, MarkUnknown, SaveResult, Complete, FailOwned,
           DeadlinePasses, Relinquish, StoreFails, Finish, Nack, Crash, OnlyExec, OnlyBroker,
           rowVars, RunWritesTask
    <2> QED
        BY <1>2, <2>2
<1>3. CASE (WatchdogStep \/ WatchdogCrash) /\ UNCHANGED op
    <2>1. UNCHANGED run
        BY <1>3 DEF WatchdogStep, WatchdogCrash, Observe, InspectExecution, FailStale, FailAfterGrace, Fail,
           RecoverClaim, RecoverComplete, RecoverRelinquish
    <2>2. UNCHANGED task \/ WatchdogWritesTask
        BY <1>3 DEF WatchdogStep, WatchdogCrash, Observe, InspectExecution, FailStale, FailAfterGrace, Fail,
           RecoverClaim, RecoverComplete, RecoverRelinquish, rowVars, WatchdogWritesTask
    <2> QED
        BY <1>3, <2>1, <2>2
<1> QED
    BY <1>1, <1>2, <1>3 DEF Next, vars, rowVars

LEMMA NoOperatorSteps ==
    ASSUME "operator" \notin Actors, op = NoRequest
    PROVE  ~RecoveryNext
BY DEF NoRequest, RecoveryNext, Diagnose, ManualReview, Redrive, ObserveCapture, ResolveCapture, SettleCapture,
       ResolveRelease, ObserveRelease, SettleRelease, Observes, ResolvesUnknown

\* Only the user cancels.
LEMMA CancelledByUser ==
    ASSUME TypeOK, RetryInv, "operator" \notin Actors, [Next]_vars, task'.status = "CANCELLED"
    PROVE  task.status = "CANCELLED" \/ Cancel
<1>1. task \in TaskRows
    BY DEF TypeOK, RowTypeOK
<1>2. \A o : Claimed(o).status = task.status
    BY <1>1 DEF Claimed, TaskRows
<1>3. Released(task, "FAILED").status = "FAILED"
    BY <1>1 DEF Released, TaskRows
<1>4. CASE Dispatch \/ RecoverStale \/ LeaseExpires
    BY <1>1, <1>4 DEF Dispatch, RecoverStale, LeaseExpires, TaskRows
<1>5. ASSUME NEW w \in Workers, RunWritesTask(w) PROVE task.status = "CANCELLED"
    BY <1>1, <1>2, <1>3, <1>5 DEF RunWritesTask, Capture, ConvergeDeadline, TaskRows
<1>6. CASE WatchdogWritesTask
    BY <1>1, <1>2, <1>3, <1>6 DEF WatchdogWritesTask, Capture, TaskRows
<1>7. ~RecoveryNext
    BY NoOperatorSteps DEF RetryInv
<1> QED
    BY <1>4, <1>5, <1>6, <1>7, TaskSteps

-----------------------------------------------------------------------------
(* What a run that calls the provider, or settles its result, relies on.   *)

\* The newest attempt has succeeded, in generation g.
Result(g) == LatestStatus = "succeeded" /\ LatestGen = g

CallerSafe(w) ==
    run[w].pc \in Callers =>
        /\ run[w].att \in 1..attempt /\ exec[run[w].att].gen = run[w].gen
        /\ exec[run[w].att].status \notin {"prepared", "failed"}
        /\ run[w].pc = "save" => sent[run[w].att] = "rendered"
        /\ task.status # "CANCELLED"

CallerInv ==
    /\ \A w \in Workers : CallerSafe(w) /\ (run[w].pc = "complete" => Result(run[w].gen))
    /\ wd.pc \in {"recover", "complete"} => Result(wd.obs.gen)

\* A result is final.
LEMMA ResultStays ==
    ASSUME "operator" \notin Actors, TypeOK, RetryInv, [Next]_vars, LatestStatus = "succeeded"
    PROVE  LatestStatus' = "succeeded" /\ LatestGen' = LatestGen
<1>1. attempt' = attempt /\ attempt # 0 /\ attempt \in 1..attempt
    BY AttemptsGrow DEF LatestStatus, TypeOK, RowTypeOK
<1>2. ExecKept(attempt)
    BY <1>1, ExecutionsKept
<1> QED
    BY <1>1, <1>2 DEF ExecKept, LatestStatus, LatestGen

\* An attempt somebody calls the provider for is the newest one, and it blocks
\* every local failure.
LEMMA CallerHasNewest ==
    ASSUME TypeOK, SubmissionInv, RetryInv, NEW w \in Workers, run[w].pc \in Callers, CallerSafe(w)
    PROVE  run[w].att = attempt /\ LatestStatus \in {"submitting", "unknown", "succeeded"}
<1>1. run[w].att \in Attempts /\ attempt \in 0..MaxAttempts /\ run[w].att = attempt
    BY DEF CallerSafe, TypeOK, RowTypeOK, Attempts, RetryInv, OlderAttemptsFailed
<1>2. exec[attempt].status \in ExecStatuses
    BY <1>1 DEF TypeOK, RowTypeOK, ExecRows
<1> QED
    BY <1>1, <1>2 DEF CallerSafe, SubmissionInv, AttemptsInOrder, LatestStatus, ExecStatuses, Attempts

\* Whatever the others do, a caller's attempt stays its own and the task uncancelled.
LEMMA CallerStaysSafe ==
    ASSUME "operator" \notin Actors, TypeOK, SubmissionInv, RetryInv, [Next]_vars,
           NEW v \in Workers, CallerSafe(v)
    PROVE  CallerSafe(v)'
<1> SUFFICES ASSUME run'[v].pc \in Callers
             PROVE  /\ run'[v].att \in 1..attempt' /\ exec'[run'[v].att].gen = run'[v].gen
                    /\ exec'[run'[v].att].status \notin {"prepared", "failed"}
                    /\ run'[v].pc = "save" => sent'[run'[v].att] = "rendered"
                    /\ task'.status # "CANCELLED"
    BY DEF CallerSafe
<1>1. RowTypeOK /\ WorkerTypeOK /\ attempt \in 0..MaxAttempts /\ (attempt' = attempt \/ attempt' = attempt + 1)
    BY AttemptsGrow DEF TypeOK, RowTypeOK
<1>2. CASE run'[v] = run[v]
    <2>1. /\ run[v].att \in 1..attempt /\ run[v].att = attempt /\ run[v].att \in Attempts
          /\ LatestStatus \in {"submitting", "unknown", "succeeded"}
        BY <1>1, <1>2, CallerHasNewest DEF CallerSafe, Attempts
    <2>2. ExecKept(run[v].att)
        BY <2>1, ExecutionsKept
    <2>3. ASSUME NEW u \in Workers, CallRejected(u), run[u].att = run[v].att PROVE FALSE
        <3>1. sent[run[v].att] = "rejected" /\ run[u].pc = "calling"
            BY <2>3 DEF CallRejected, Definitive, At
        <3>2. run[v].pc \in Submitters
            BY <1>2, <3>1 DEF CallerSafe, Callers
        <3>3. u = v
            BY <2>3, <3>1, <3>2 DEF SubmissionInv, AloneWithAttempt, Submitters
        <3>4. run'[v].pc \notin Callers
            <4>1. [run[v] EXCEPT !.pc = "inspect", !.route = "fallback"].pc = "inspect"
                BY <1>1 DEF WorkerTypeOK, Runs
            <4>2. Goto(v, "fail") => run'[v].pc = "fail"
                BY <1>1, GotoEffect DEF Steps
            <4>3. run' = [run EXCEPT ![v] = [@ EXCEPT !.pc = "inspect", !.route = "fallback"]]
                      => run'[v].pc = "inspect"
                BY <1>1, <4>1 DEF WorkerTypeOK
            <4> QED
                BY <2>3, <3>3, <4>2, <4>3 DEF CallRejected, Callers, Submitters
        <3> QED
            BY <3>4
    <2>4. ~Cancel
        BY <2>1 DEF Cancel, ProviderBlocksFailure
    <2>5. task'.status # "CANCELLED"
        BY <1>2, <2>4, CancelledByUser DEF CallerSafe
    <2>6. run[v].pc = "save" => sent'[run[v].att] = "rendered"
        BY <1>2, <2>1, RenderedStays DEF CallerSafe
    <2> QED
        BY <1>1, <1>2, <2>1, <2>2, <2>3, <2>5, <2>6 DEF CallerSafe, ExecKept
<1>3. CASE BeginsCall(v)
    <2>1. SetExec(attempt, "submitting") /\ UNCHANGED <<task, attempt>>
        BY <1>3 DEF BeginsCall, ClaimPrepared, OnlyExec
    <2>2. attempt \in 1..attempt /\ attempt \in Attempts /\ exec[attempt].gen = task.gen
        BY <1>1, <1>3 DEF BeginsCall, LatestStatus, LatestGen, Attempts
    <2>3. exec'[attempt].status = "submitting" /\ exec'[attempt].gen = task.gen
        BY <1>1, <2>1, <2>2, SetExecEffect
    <2>4. run[v].gen = task.gen /\ task.status = "PROCESSING"
        BY <1>3 DEF BeginsCall, OwnsRow, Owns, Running
    <2> QED
        BY <1>3, <2>1, <2>2, <2>3, <2>4 DEF BeginsCall
<1>4. CASE GoesOn(v)
    BY <1>4 DEF GoesOn, CallerSafe, Callers
<1>5. ~FindsResult(v) /\ ~SavesResult(v)
    BY DEF FindsResult, SavesResult, Callers, Submitters
<1> QED
    BY <1>2, <1>3, <1>4, <1>5, RunEntries

\* A run completes a task only with the result of its own generation ...
LEMMA SettlerHasResult ==
    ASSUME "operator" \notin Actors, TypeOK, SubmissionInv, RetryInv, [Next]_vars,
           NEW v \in Workers, CallerSafe(v), run[v].pc = "complete" => Result(run[v].gen),
           run'[v].pc = "complete"
    PROVE  Result(run[v].gen)'
<1>1. RowTypeOK /\ attempt \in 0..MaxAttempts /\ ("complete" \notin Callers)
    BY DEF TypeOK, RowTypeOK, Callers, Submitters
<1>2. CASE run'[v] = run[v]
    BY <1>2, ResultStays DEF Result
<1>3. CASE FindsResult(v)
    BY <1>3 DEF FindsResult, OwnsRow, Owns, Result, LatestStatus, LatestGen
<1>4. CASE SavesResult(v)
    <2>1. run[v].pc \in Callers /\ UNCHANGED attempt
        BY <1>4 DEF SavesResult, SaveResult, At, Callers, OnlyExec
    <2>2. run[v].att = attempt /\ attempt \in Attempts /\ attempt # 0 /\ exec[attempt].gen = run[v].gen
        BY <1>1, <2>1, CallerHasNewest DEF CallerSafe, Attempts
    <2>3. exec'[attempt] = [exec[attempt] EXCEPT !.status = "succeeded", !.result = TRUE]
        BY <1>1, <1>4, <2>2 DEF SavesResult, SaveResult, RowTypeOK
    <2>4. exec'[attempt].status = "succeeded" /\ exec'[attempt].gen = run[v].gen
        BY <1>1, <2>2, <2>3 DEF RowTypeOK, ExecRows
    <2> QED
        BY <1>4, <2>1, <2>2, <2>4 DEF SavesResult, Result, LatestStatus, LatestGen
<1>5. ~BeginsCall(v) /\ ~GoesOn(v)
    BY <1>1 DEF BeginsCall, GoesOn
<1> QED
    BY <1>2, <1>3, <1>4, <1>5, RunEntries

\* ... and so does the watchdog.
LEMMA ReaperHasResult ==
    ASSUME "operator" \notin Actors, TypeOK, RetryInv, [Next]_vars,
           wd.pc \in {"recover", "complete"} => Result(wd.obs.gen), wd'.pc \in {"recover", "complete"}
    PROVE  Result(wd.obs.gen)'
<1>1. wd \in [pc : WatchdogSteps, obs : Observations] /\ WatchdogIdle.pc = "idle" /\ task \in TaskRows
    BY DEF TypeOK, WatchdogTypeOK, WatchdogIdle, RowTypeOK
<1>2. CASE UNCHANGED wd
    BY <1>2, ResultStays DEF Result
<1>3. CASE InspectExecution
    <2>1. LatestStatus = "succeeded" /\ LatestGen = wd.obs.gen /\ wd' = [wd EXCEPT !.pc = "recover"]
        BY <1>1, <1>3 DEF InspectExecution, GraceEligible
    <2>2. wd'.obs.gen = wd.obs.gen /\ UNCHANGED <<attempt, exec>>
        BY <1>1, <1>3, <2>1 DEF InspectExecution, rowVars
    <2> QED
        BY <2>1, <2>2 DEF Result, LatestStatus, LatestGen
<1>4. CASE RecoverClaim
    <2>1. /\ wd.pc = "recover" /\ ReaperMatches(wd.obs) /\ task' = Claimed(Reaper)
          /\ wd' = [wd EXCEPT !.pc = "complete", !.obs.gen = task'.gen]
          /\ UNCHANGED <<attempt, exec>>
        BY <1>1, <1>4 DEF RecoverClaim, OnlyTask
    <2>2. Result(wd.obs.gen) /\ ClaimKeepsGeneration
        BY <2>1 DEF Result, ClaimKeepsGeneration
    <2>3. wd'.obs.gen = wd.obs.gen
        BY <1>1, <2>1, <2>2 DEF Claimed, ReaperMatches, TaskRows, Observations
    <2> QED
        BY <2>1, <2>2, <2>3 DEF Result, LatestStatus, LatestGen
<1>5. CASE \/ Observe \/ FailStale \/ FailAfterGrace \/ RecoverComplete \/ RecoverRelinquish \/ WatchdogCrash
    BY <1>1, <1>5 DEF Observe, FailStale, FailAfterGrace, Fail, RecoverComplete, RecoverRelinquish, WatchdogCrash
<1> QED
    BY <1>2, <1>3, <1>4, <1>5, NoOperatorSteps DEF Next, vars, WatchdogStep, RetryInv

LEMMA NextKeepsCallers ==
    ASSUME "operator" \notin Actors, TypeOK, SubmissionInv, RetryInv, CallerInv, [Next]_vars
    PROVE  CallerInv'
<1>1. ASSUME NEW v \in Workers PROVE (CallerSafe(v) /\ (run[v].pc = "complete" => Result(run[v].gen)))'
    BY CallerStaysSafe, SettlerHasResult DEF CallerInv
<1>2. wd'.pc \in {"recover", "complete"} => Result(wd.obs.gen)'
    BY ReaperHasResult DEF CallerInv
<1> QED
    BY <1>1, <1>2 DEF CallerInv

LEMMA InitCallers == Init => CallerInv
<1> SUFFICES ASSUME Init PROVE CallerInv
    OBVIOUS
<1>1. wd.pc = "idle"
    BY DEF Init, WatchdogInit, WatchdogIdle
<1> QED
    BY <1>1, InitRuns DEF CallerInv, CallerSafe, Callers, Submitters

LEMMA CallerInvariant ==
    ASSUME "operator" \notin Actors
    PROVE  Spec => [](SubmissionInv /\ RetryInv /\ TypeOK /\ CallerInv)
<1>1. TypeOK /\ SubmissionInv /\ RetryInv /\ CallerInv /\ [Next]_vars => CallerInv'
    BY NextKeepsCallers
<1> QED
    BY <1>1, InitCallers, RetryInvariant, PTL DEF Spec

-----------------------------------------------------------------------------
(* Ownership of the task.                                                  *)

\* What a release, a cancellation and a claim leave in the row.
LEMMA ReleasedEffect ==
    ASSUME NEW row \in TaskRows, NEW final
    PROVE  /\ Released(row, final).status = final /\ Released(row, final).taskStatus = final
           /\ Released(row, final).gen = row.gen /\ Released(row, final).owner = row.owner
           /\ Released(row, final).lease = row.lease
           /\ Released(row, final).billing = IF row.billing = "RESERVED" THEN "RELEASED" ELSE row.billing
BY DEF Released, TaskRows

LEMMA CancelEffect ==
    ASSUME RowTypeOK, Cancel
    PROVE  /\ task'.status = "CANCELLED" /\ task'.taskStatus = "CANCELLED"
           /\ task'.gen = task.gen + 1 /\ task'.owner = NoOwner
           /\ task'.billing = IF task.billing = "RESERVED" THEN "RELEASED" ELSE task.billing
<1> DEFINE row == [task EXCEPT !.gen = @ + 1, !.owner = NoOwner, !.lease = "none"]
<1>1. task \in TaskRows /\ task.gen + 1 \in Generations \ {0}
    BY NextGeneration DEF RowTypeOK, Cancel
<1>2. row \in TaskRows /\ row.billing = task.billing /\ row.gen = task.gen + 1 /\ row.owner = NoOwner
    BY <1>1 DEF TaskRows
<1>3. task' = Released(row, "CANCELLED")
    BY DEF Cancel
<1> HIDE DEF row
<1> QED
    BY <1>2, <1>3, ReleasedEffect

LEMMA ClaimedEffect ==
    ASSUME RowTypeOK, NEW o, task' = Claimed(o)
    PROVE  /\ task'.owner = o /\ task'.status = task.status /\ task'.billing = task.billing
           /\ task'.taskStatus = "RUNNING" /\ task'.lease = "live"
BY DEF Claimed, RowTypeOK, TaskRows
\* Without stalls, a run that is at work keeps the task until it settles it or
\* lets it go itself; only the user can take it away.
LEMMA OwnerKeepsTask ==
    ASSUME "operator" \notin Actors, "stall" \notin Faults, op = NoRequest, TypeOK, [Next]_vars,
           NEW w \in Workers, OwnsRow(w), run[w].pc \notin {"idle", "claim", "finish", "nack"}
    PROVE  UNCHANGED task \/ Cancel \/ RunWritesTask(w)
<1>1. /\ task.owner = w /\ task.gen = run[w].gen /\ Live /\ task.taskStatus = "RUNNING"
      /\ task.owner # NoOwner /\ task.owner # Reaper
    BY DEF OwnsRow, Owns
<1>2. HeartbeatAlive
    BY <1>1 DEF HeartbeatAlive
<1>3. ~Dispatch /\ ~RecoverStale
    BY <1>1 DEF Dispatch, RecoverStale, StaleCandidate
<1>4. ASSUME NEW v \in Workers, RunWritesTask(v) PROVE v = w
    <2>1. ~CanClaim(Expected(v))
        BY <1>1 DEF CanClaim, ClaimAllowed
    <2> QED
        BY <1>1, <1>4, <2>1 DEF RunWritesTask, ConvergeDeadline, OwnsRow, Owns
<1>5. ~WatchdogWritesTask
    BY <1>1 DEF WatchdogWritesTask, ReaperMatches, Owns
<1> QED
    BY <1>2, <1>3, <1>4, <1>5, TaskSteps, NoOperatorSteps

\* A run becomes the owner by claiming the task.
LEMMA OwnershipIsClaimed ==
    ASSUME "operator" \notin Actors, op = NoRequest, TypeOK, [Next]_vars, NEW w \in Workers,
           run'[w].gen = run[w].gen, OwnsRow(w)', ~Claim(w)
    PROVE  OwnsRow(w)
<1>1. RowTypeOK /\ task \in TaskRows
    BY DEF TypeOK, RowTypeOK
<1>2. /\ task'.owner = w /\ task'.status = "PROCESSING" /\ task'.lease = "live" /\ task'.taskStatus = "RUNNING"
    BY DEF OwnsRow, Owns, Running, Live
<1>3. CASE UNCHANGED task
    BY <1>3 DEF OwnsRow, Owns, Running, Live
<1>4. ~LeaseExpires /\ ~Cancel /\ ~Dispatch /\ ~RecoverStale
    <2>1. ~LeaseExpires
        BY <1>1, <1>2 DEF LeaseExpires, TaskRows
    <2>2. ~Cancel
        BY <1>1, <1>2, CancelEffect
    <2>3. ~Dispatch /\ ~RecoverStale
        BY <1>1, <1>2 DEF Dispatch, RecoverStale, TaskRows
    <2> QED
        BY <2>1, <2>2, <2>3
<1>5. task' # Released(task, "FAILED") /\ ~Capture
    <2>1. Released(task, "FAILED").status = "FAILED"
        BY <1>1, ReleasedEffect
    <2> QED
        BY <1>1, <1>2, <2>1 DEF Capture, TaskRows
<1>6. task' # [task EXCEPT !.owner = NoOwner, !.lease = "expired"]
    BY <1>1, <1>2 DEF TaskRows
<1>7. ASSUME NEW v \in Workers PROVE ~RunWritesTask(v)
    <2>1. ~(Claim(v) /\ task' = Claimed(v))
        BY <1>1, <1>2, ClaimedEffect
    <2> QED
        BY <1>5, <1>6, <2>1 DEF RunWritesTask, ConvergeDeadline
<1>8. ~WatchdogWritesTask
    BY <1>1, <1>2, <1>5, <1>6, ClaimedEffect DEF WatchdogWritesTask
<1> QED
    BY <1>3, <1>4, <1>7, <1>8, TaskSteps, NoOperatorSteps

\* Whoever calls the provider, or holds its answer, owns the task.
CallersOwn == \A w \in Workers : run[w].pc \in Callers => OwnsRow(w)

LEMMA NextKeepsCallersOwn ==
    ASSUME "operator" \notin Actors, "stall" \notin Faults,
           SubmissionInv, RetryInv, TypeOK, CallerInv, CallersOwn, [Next]_vars
    PROVE  CallersOwn'
<1> SUFFICES ASSUME NEW v \in Workers, run'[v].pc \in Callers PROVE OwnsRow(v)'
    BY DEF CallersOwn
<1>1. CASE run'[v] = run[v]
    <2>1. OwnsRow(v) /\ CallerSafe(v) /\ run[v].pc \in Callers
        BY <1>1 DEF CallersOwn, CallerInv
    <2>2. ~Cancel
        BY <2>1, CallerHasNewest DEF Cancel, ProviderBlocksFailure
    <2>3. ~RunWritesTask(v)
        BY <2>1 DEF RunWritesTask, Claim, Complete, FailOwned, ConvergeDeadline, Relinquish, At, Callers, Submitters
    <2>4. UNCHANGED task
        BY <2>1, <2>2, <2>3, OwnerKeepsTask DEF RetryInv, Callers, Submitters
    <2> QED
        BY <1>1, <2>1, <2>4 DEF OwnsRow, Owns, Running, Live
<1>2. CASE BeginsCall(v)
    BY <1>2 DEF BeginsCall, ClaimPrepared, OnlyExec, OwnsRow, Owns, Running, Live
<1>3. CASE GoesOn(v)
    BY <1>3 DEF GoesOn, CallersOwn, Callers, OwnsRow, Owns, Running, Live
<1>4. ~FindsResult(v) /\ ~SavesResult(v)
    BY DEF FindsResult, SavesResult, Callers, Submitters
<1> QED
    BY <1>1, <1>2, <1>3, <1>4, RunEntries

LEMMA CallersOwnInvariant ==
    ASSUME "operator" \notin Actors, "stall" \notin Faults
    PROVE  Spec => [](SubmissionInv /\ RetryInv /\ TypeOK /\ CallerInv /\ CallersOwn)
<1>1. Init => CallersOwn
    BY InitRuns DEF CallersOwn, Callers, Submitters
<1>2. SubmissionInv /\ RetryInv /\ TypeOK /\ CallerInv /\ CallersOwn /\ [Next]_vars => CallersOwn'
    BY NextKeepsCallersOwn
<1> QED
    BY <1>1, <1>2, CallerInvariant, PTL DEF Spec

\* Unless a run stalls past its lease, the provider is called, and its answer
\* saved, by the run that owns the task: no submission after a takeover, a
\* cancellation or a settlement, for every number of runs and attempts.
THEOREM OnlyTheOwnerSubmits ==
    ASSUME "operator" \notin Actors, "stall" \notin Faults
    PROVE  Spec => []CallersOwn
BY CallersOwnInvariant, PTL

=============================================================================
