-------------------- MODULE GenerationSettlement_proofs --------------------
(***************************************************************************)
(* Machine-checked proofs about how an image task is settled: the points   *)
(* reserved for it are settled once, captured only for work done in the    *)
(* current generation, and released only when no result is kept; a message *)
(* is consumed, and an event withdrawn, only when nobody needs it; and the *)
(* whole system implements the abstract reservation.                       *)
(***************************************************************************)
EXTENDS GenerationRetry_proofs

USE BoundsAssumption, OwnersDistinct

-----------------------------------------------------------------------------
(* Points settle once.                                                     *)

\* A task is in progress only while its points are still reserved.
RunningIsReserved == Running => task.billing = "RESERVED"

\* Whoever writes the row either leaves status and points alone or ends the
\* task, and then settles only points that are still reserved.
SettlesReserved ==
    \/ task'.status = task.status /\ task'.billing = task.billing
    \/ ~Running' /\ (task.billing = "RESERVED" \/ task'.billing = task.billing)

LEMMA ReleasedSettles ==
    ASSUME NEW row \in TaskRows, row.status = task.status, row.billing = task.billing,
           NEW final \in Terminal, task' = Released(row, final)
    PROVE  SettlesReserved
BY DEF SettlesReserved, Released, TaskRows, Terminal, Running

LEMMA CaptureSettles ==
    ASSUME RowTypeOK, Capture, task.billing # "RELEASED"
    PROVE  SettlesReserved
BY DEF SettlesReserved, Capture, RowTypeOK, TaskRows, Running

LEMMA ClaimedSettles ==
    ASSUME RowTypeOK, NEW o, task' = Claimed(o)
    PROVE  SettlesReserved
BY DEF SettlesReserved, Claimed, RowTypeOK, TaskRows

LEMMA EnvironmentSettles == ASSUME RowTypeOK, Environment PROVE SettlesReserved
<1>1. task \in TaskRows /\ "CANCELLED" \in Terminal
    BY DEF RowTypeOK, Terminal
<1>2. CASE LeaseExpires \/ \E a \in Attempts : ProviderDecides(a)
    BY <1>1, <1>2 DEF LeaseExpires, ProviderDecides, SettlesReserved, TaskRows
<1>3. CASE Cancel
    <2> DEFINE row == [task EXCEPT !.gen = @ + 1, !.owner = NoOwner, !.lease = "none"]
    <2>1. task.gen + 1 \in Generations \ {0}
        BY <1>3, NextGeneration DEF Cancel
    <2>2. row \in TaskRows /\ row.status = task.status /\ row.billing = task.billing
        BY <1>1, <2>1 DEF TaskRows
    <2>3. task' = Released(row, "CANCELLED")
        BY <1>3 DEF Cancel
    <2> QED
        BY <1>1, <2>2, <2>3, ReleasedSettles
<1> QED
    BY <1>2, <1>3 DEF Environment

LEMMA SchedulerSettles == ASSUME RowTypeOK, SchedulerNext PROVE SettlesReserved
<1>1. task \in TaskRows
    BY DEF RowTypeOK
<1>2. CASE Dispatch
    BY <1>1, <1>2 DEF Dispatch, SettlesReserved, TaskRows
<1>3. CASE RecoverStale
    BY <1>1, <1>3 DEF RecoverStale, SettlesReserved, TaskRows
<1>4. CASE \E e \in Events : \/ ClaimEvent(e) \/ PublishEvent(e) \/ MarkPublished(e)
                             \/ ReclaimEvent(e) \/ MarkFailure(e)
    BY <1>4 DEF ClaimEvent, PublishEvent, MarkPublished, ReclaimEvent, MarkFailure, OutboxUnchanged, SettlesReserved
<1> QED
    BY <1>2, <1>3, <1>4 DEF SchedulerNext

LEMMA WorkerSettles == ASSUME RowTypeOK, RunningIsReserved, WorkerNext PROVE SettlesReserved
<1>1. task \in TaskRows /\ "FAILED" \in Terminal
    BY DEF RowTypeOK, Terminal
<1>2. PICK w \in Workers :
          \/ \E e \in Events : Deliver(w, e)
          \/ RunStep(w) \/ DeadlinePasses(w) \/ ConvergeDeadline(w) \/ StoreFails(w) \/ Crash(w)
    BY DEF WorkerNext
<1>3. CASE UNCHANGED task
    BY <1>3 DEF SettlesReserved
<1>4. CASE Claim(w) /\ task' = Claimed(w)
    BY <1>4, ClaimedSettles
<1>5. CASE Complete(w) /\ OwnsRow(w) /\ Capture
    BY <1>5, CaptureSettles DEF OwnsRow, Owns, RunningIsReserved
<1>6. CASE (FailOwned(w) \/ ConvergeDeadline(w)) /\ task' = Released(task, "FAILED")
    BY <1>1, <1>6, ReleasedSettles
<1>7. CASE Relinquish(w)
    BY <1>1, <1>7 DEF Relinquish, SettlesReserved, TaskRows
<1>8. \/ UNCHANGED task \/ Relinquish(w)
      \/ Claim(w) /\ task' = Claimed(w)
      \/ Complete(w) /\ OwnsRow(w) /\ Capture
      \/ (FailOwned(w) \/ ConvergeDeadline(w)) /\ task' = Released(task, "FAILED")
    BY <1>2 DEF RunStep, Deliver, Claim, Inspect, CreatePrepared, ClaimPrepared, ValidateOwnership, Submit,
           CallSucceeds, CallRejected, CallAmbiguous, MarkUnknown, SaveResult, Complete, FailOwned,
           DeadlinePasses, ConvergeDeadline, StoreFails, Finish, Nack, Crash, OnlyExec, OnlyBroker, rowVars
<1> QED
    BY <1>3, <1>4, <1>5, <1>6, <1>7, <1>8

LEMMA WatchdogSettles ==
    ASSUME RowTypeOK, RunningIsReserved, WatchdogStep \/ WatchdogCrash
    PROVE  SettlesReserved
<1>1. task \in TaskRows /\ "FAILED" \in Terminal
    BY DEF RowTypeOK, Terminal
<1>2. CASE FailStale \/ FailAfterGrace
    BY <1>1, <1>2, ReleasedSettles DEF FailStale, FailAfterGrace, Fail, SettlesReserved
<1>3. CASE RecoverClaim
    BY <1>3, ClaimedSettles DEF RecoverClaim, SettlesReserved
<1>4. CASE RecoverComplete
    BY <1>4, CaptureSettles DEF RecoverComplete, Owns, RunningIsReserved, SettlesReserved
<1>5. CASE RecoverRelinquish
    BY <1>1, <1>5 DEF RecoverRelinquish, SettlesReserved, TaskRows
<1>6. CASE Observe \/ InspectExecution \/ WatchdogCrash
    BY <1>6 DEF Observe, InspectExecution, WatchdogCrash, rowVars, SettlesReserved
<1> QED
    BY <1>2, <1>3, <1>4, <1>5, <1>6 DEF WatchdogStep

LEMMA OperatorSettles == ASSUME RowTypeOK, RecoveryNext PROVE SettlesReserved
<1>1. task \in TaskRows /\ "FAILED" \in Terminal
    BY DEF RowTypeOK, Terminal
<1>2. CASE ManualReview
    BY <1>1, <1>2 DEF ManualReview, SettlesReserved, TaskRows, Running
<1>3. CASE Redrive
    BY <1>1, <1>3 DEF Redrive, SettlesReserved, TaskRows
<1>4. CASE SettleCapture
    BY <1>4, CaptureSettles DEF SettleCapture, CaptureFenced, SettlesReserved
<1>5. CASE SettleRelease
    BY <1>1, <1>5, ReleasedSettles DEF SettleRelease, SettlesReserved
<1>6. CASE Diagnose \/ ObserveCapture \/ ResolveCapture \/ ResolveRelease \/ ObserveRelease
    BY <1>6 DEF Diagnose, ObserveCapture, ResolveCapture, ResolveRelease, ObserveRelease, Observes,
                ResolvesUnknown, OnlyExec, rowVars, SettlesReserved
<1> QED
    BY <1>2, <1>3, <1>4, <1>5, <1>6 DEF RecoveryNext

LEMMA NextSettles == ASSUME RowTypeOK, RunningIsReserved, [Next]_vars PROVE SettlesReserved
<1>1. CASE UNCHANGED vars
    BY <1>1 DEF vars, rowVars, SettlesReserved
<1> QED
    BY <1>1, EnvironmentSettles, SchedulerSettles, WorkerSettles, WatchdogSettles, OperatorSettles DEF Next

\* Points are settled once, whoever settles them and in whatever order, even
\* when an operator reopens a settled task for review and captures it again.
THEOREM PointsAreSettledOnce == Spec => PointsSettleOnce
<1>1. Init => RunningIsReserved
    BY DEF Init, RowInit, RunningIsReserved
<1>2. TypeOK /\ RunningIsReserved /\ [Next]_vars => RunningIsReserved'
    BY NextSettles DEF TypeOK, RunningIsReserved, SettlesReserved, Running
<1>3. TypeOK /\ RunningIsReserved /\ [Next]_vars =>
          [task.billing # "RESERVED" => task'.billing = task.billing]_vars
    BY NextSettles DEF TypeOK, SettlesReserved
<1> QED
    BY <1>1, <1>2, <1>3, TypeCorrect, PTL DEF Spec, PointsSettleOnce

-----------------------------------------------------------------------------
(* Nobody pays for work that was not done.                                 *)

Rendered == \E a \in Attempts : sent[a] = "rendered"

\* Nobody holds a proof that the provider did the work: a capture, a durable
\* result, an answer of the provider, or an operator's evidence.
NothingClaimed ==
    /\ task.billing # "CAPTURED"
    /\ \A a \in Attempts : exec[a].status # "succeeded"
    /\ \A w \in Workers : run[w].pc \notin {"save", "complete"}
    /\ wd.pc \notin {"recover", "complete"}
    /\ op.pc \notin {"capture", "captureResolve", "captureSettle"}

CaptureInv == Rendered \/ NothingClaimed

LEMMA RenderingStays == ASSUME TypeOK, SubmissionInv, Rendered, [Next]_vars PROVE Rendered'
BY RenderedStays DEF Rendered

LEMMA ReleasedClaimsNothing ==
    ASSUME NEW row \in TaskRows, row.billing # "CAPTURED", NEW final
    PROVE  Released(row, final).billing # "CAPTURED"
BY DEF Released, TaskRows

\* The row without a proof stays without one.
RowClaimsNothing ==
    task.billing # "CAPTURED" /\ \A a \in Attempts : exec[a].status # "succeeded"

LEMMA EnvironmentClaimsNothing ==
    ASSUME RowTypeOK, RowClaimsNothing, Environment \/ SchedulerNext
    PROVE  RowClaimsNothing'
<1>1. task \in TaskRows
    BY DEF RowTypeOK
<1>2. UNCHANGED exec
    BY DEF Environment, LeaseExpires, Cancel, ProviderDecides, SchedulerNext, Dispatch, RecoverStale, ClaimEvent,
           PublishEvent, MarkPublished, ReclaimEvent, MarkFailure, OutboxUnchanged
<1>3. CASE Cancel
    <2> DEFINE row == [task EXCEPT !.gen = @ + 1, !.owner = NoOwner, !.lease = "none"]
    <2>1. task.gen + 1 \in Generations \ {0}
        BY <1>3, NextGeneration DEF Cancel
    <2>2. row \in TaskRows /\ row.billing = task.billing
        BY <1>1, <2>1 DEF TaskRows
    <2>3. task'.billing # "CAPTURED"
        BY <1>3, <2>2, ReleasedClaimsNothing DEF Cancel, RowClaimsNothing
    <2> QED
        BY <1>2, <2>3 DEF RowClaimsNothing
<1>4. CASE LeaseExpires \/ \E a \in Attempts : ProviderDecides(a)
    BY <1>1, <1>2, <1>4 DEF LeaseExpires, ProviderDecides, RowClaimsNothing, TaskRows
<1>5. CASE SchedulerNext
    BY <1>1, <1>2, <1>5 DEF SchedulerNext, Dispatch, RecoverStale, ClaimEvent, PublishEvent, MarkPublished,
                            ReclaimEvent, MarkFailure, OutboxUnchanged, RowClaimsNothing, TaskRows
<1> QED
    BY <1>3, <1>4, <1>5 DEF Environment

LEMMA SetExecClaimsNothing ==
    ASSUME RowTypeOK, RowClaimsNothing, NEW a, NEW to, to # "succeeded",
           UNCHANGED task, SetExec(a, to) \/ UNCHANGED exec
    PROVE  RowClaimsNothing'
<1> SUFFICES ASSUME NEW b \in Attempts PROVE exec'[b].status # "succeeded"
    BY DEF RowClaimsNothing
<1>1. exec[b] \in ExecRows /\ exec[b].status # "succeeded"
    BY DEF RowTypeOK, RowClaimsNothing
<1>2. exec'[b] = exec[b] \/ exec'[b] = [exec[b] EXCEPT !.status = to]
    BY DEF SetExec, RowTypeOK
<1> QED
    BY <1>1, <1>2 DEF ExecRows

LEMMA WorkerClaimsNothing ==
    ASSUME TypeOK, SubmissionInv, ~Rendered, NothingClaimed, WorkerNext
    PROVE  RowClaimsNothing' /\ \A v \in Workers : run'[v].pc \notin {"save", "complete"}
<1> DEFINE Unproved == \A v \in Workers : run'[v].pc \notin {"save", "complete"}
<1>1. /\ RowTypeOK /\ WorkerTypeOK /\ task \in TaskRows /\ RowClaimsNothing
      /\ \A v \in Workers : run[v] \in Runs /\ run[v].pc \notin {"save", "complete"}
    BY DEF TypeOK, RowTypeOK, WorkerTypeOK, NothingClaimed, RowClaimsNothing
<1>2. PICK w \in Workers :
          \/ \E e \in Events : Deliver(w, e)
          \/ RunStep(w) \/ DeadlinePasses(w) \/ ConvergeDeadline(w) \/ StoreFails(w) \/ Crash(w)
    BY DEF WorkerNext
<1>3. ASSUME NEW pc \in Steps \ {"save", "complete"}, Goto(w, pc) PROVE Unproved
    BY <1>1, <1>3, GotoEffect
<1>4. ASSUME NEW r, r.pc \notin {"save", "complete"}, run' = [run EXCEPT ![w] = r] PROVE Unproved
    BY <1>1, <1>4 DEF WorkerTypeOK
<1>5. /\ {"finish", "nack", "fail", "relinquish", "claimPrepared", "submit", "calling", "markUnknown"}
           \subseteq Steps \ {"save", "complete"}
      /\ Idle.pc = "idle"
      /\ \A e : [Idle EXCEPT !.pc = "nack", !.msg = e].pc = "nack" /\ [Idle EXCEPT !.pc = "claim", !.msg = e].pc = "claim"
    BY DEF Steps, Idle
<1>6. ASSUME UNCHANGED <<task, exec>> PROVE RowClaimsNothing'
    BY <1>1, <1>6 DEF RowClaimsNothing
<1>7. ASSUME NEW e \in Events, Deliver(w, e) PROVE RowClaimsNothing' /\ Unproved
    <2>1. UNCHANGED run \/ \E r : r.pc \notin {"save", "complete"} /\ run' = [run EXCEPT ![w] = r]
        BY <1>5, <1>7 DEF Deliver
    <2> QED
        BY <1>1, <1>4, <1>6, <1>7, <2>1 DEF Deliver
<1>8. CASE Claim(w)
    <2>1. [run[w] EXCEPT !.pc = "inspect", !.gen = task'.gen].pc = "inspect"
        BY <1>1 DEF Runs
    <2>2. Unproved
        BY <1>3, <1>4, <1>5, <1>8, <2>1 DEF Claim
    <2>3. (UNCHANGED task \/ task' = Claimed(w)) /\ UNCHANGED exec
        BY <1>8 DEF Claim, OnlyTask
    <2> QED
        BY <1>1, <2>2, <2>3 DEF Claimed, TaskRows, RowClaimsNothing
<1>9. CASE Inspect(w)
    <2>1. LatestStatus # "succeeded"
        BY <1>1 DEF LatestStatus, RowClaimsNothing, TypeOK, RowTypeOK, Attempts
    <2>2. Resume(w) \in {"claimPrepared", "markUnknown", "relinquish"}
        BY <2>1 DEF Resume
    <2>3. /\ [run[w] EXCEPT !.pc = "create", !.att = attempt + 1].pc = "create"
          /\ [run[w] EXCEPT !.pc = Resume(w), !.att = attempt].pc = Resume(w)
        BY <1>1 DEF Runs
    <2>4. \/ Goto(w, "fail") \/ Goto(w, Resume(w))
          \/ \E r : r.pc \notin {"save", "complete"} /\ run' = [run EXCEPT ![w] = r]
        BY <1>9, <2>2, <2>3 DEF Inspect
    <2>5. Unproved
        BY <1>3, <1>4, <1>5, <2>2, <2>4
    <2> QED
        BY <1>6, <1>9, <2>5 DEF Inspect, rowVars
<1>10. CASE CreatePrepared(w)
    <2>1. Unproved
        BY <1>3, <1>5, <1>10 DEF CreatePrepared
    <2>2. \A b \in Attempts : exec'[b] = exec[b] \/ exec'[b].status = "prepared"
        BY <1>1, <1>10 DEF CreatePrepared, RowTypeOK
    <2> QED
        BY <1>1, <1>10, <2>1, <2>2 DEF CreatePrepared, RowClaimsNothing
<1>11. CASE ClaimPrepared(w)
    <2>1. [run[w] EXCEPT !.pc = "validate", !.att = attempt].pc = "validate"
        BY <1>1 DEF Runs
    <2>2. Unproved
        BY <1>3, <1>4, <1>5, <1>11, <2>1 DEF ClaimPrepared
    <2> QED
        BY <1>1, <1>11, <2>2, SetExecClaimsNothing DEF ClaimPrepared, OnlyExec
<1>12. CASE ValidateOwnership(w) \/ CallAmbiguous(w) \/ DeadlinePasses(w) \/ StoreFails(w)
    <2>1. Goto(w, "submit") \/ Goto(w, "relinquish") \/ Goto(w, "markUnknown") \/ Goto(w, "fail")
        BY <1>12 DEF ValidateOwnership, CallAmbiguous, DeadlinePasses, StoreFails
    <2> QED
        BY <1>3, <1>5, <1>6, <1>12, <2>1 DEF ValidateOwnership, CallAmbiguous, DeadlinePasses, StoreFails, rowVars
<1>13. CASE Submit(w)
    BY <1>3, <1>5, <1>6, <1>13 DEF Submit
<1>14. ~CallSucceeds(w)
    <2> SUFFICES ASSUME CallSucceeds(w) PROVE FALSE
        OBVIOUS
    <2>1. run[w].pc \in Submitters /\ sent[run[w].att] = "rendered"
        BY DEF CallSucceeds, At, Submitters
    <2>2. run[w].att \in 1..attempt /\ attempt \in 0..MaxAttempts
        BY <1>1, <2>1 DEF SubmissionInv, RunsKnowTheirAttempt, RowTypeOK
    <2>3. run[w].att \in Attempts
        BY <2>2 DEF Attempts
    <2> QED
        BY <2>1, <2>3 DEF Rendered
<1>15. CASE CallRejected(w)
    <2>1. [run[w] EXCEPT !.pc = "inspect", !.route = "fallback"].pc = "inspect"
        BY <1>1 DEF Runs
    <2>2. Unproved
        BY <1>3, <1>4, <1>5, <1>15, <2>1 DEF CallRejected
    <2> QED
        BY <1>1, <1>15, <2>2, SetExecClaimsNothing DEF CallRejected, OnlyExec
<1>16. CASE MarkUnknown(w)
    BY <1>1, <1>3, <1>5, <1>16, SetExecClaimsNothing DEF MarkUnknown, OnlyExec
<1>17. ~SaveResult(w) /\ ~Complete(w)
    BY <1>1 DEF SaveResult, Complete, At
<1>18. CASE FailOwned(w) \/ ConvergeDeadline(w) \/ Relinquish(w)
    <2>1. Unproved
        BY <1>1, <1>3, <1>5, <1>18 DEF FailOwned, ConvergeDeadline, Relinquish
    <2>2. task'.billing # "CAPTURED"
        BY ZenonT(40), <1>1, <1>18, ReleasedClaimsNothing DEF FailOwned, ConvergeDeadline, Relinquish, RowClaimsNothing, TaskRows
    <2> QED
        BY <1>1, <1>18, <2>1, <2>2 DEF FailOwned, ConvergeDeadline, Relinquish, OnlyTask, RowClaimsNothing
<1>19. CASE Finish(w) \/ Nack(w) \/ Crash(w)
    BY <1>4, <1>5, <1>6, <1>19 DEF Finish, Nack, Crash, OnlyBroker
<1> QED
    BY <1>2, <1>7, <1>8, <1>9, <1>10, <1>11, <1>12, <1>13, <1>14, <1>15, <1>16, <1>17, <1>18, <1>19 DEF RunStep

LEMMA WatchdogClaimsNothing ==
    ASSUME TypeOK, NothingClaimed, WatchdogStep \/ WatchdogCrash
    PROVE  RowClaimsNothing' /\ wd'.pc \notin {"recover", "complete"}
<1>1. RowTypeOK /\ task \in TaskRows /\ RowClaimsNothing /\ wd \in [pc : WatchdogSteps, obs : Observations]
    BY DEF TypeOK, RowTypeOK, NothingClaimed, RowClaimsNothing, WatchdogTypeOK
<1>2. wd.pc \notin {"recover", "complete"} /\ WatchdogIdle.pc = "idle"
    BY DEF NothingClaimed, WatchdogIdle
<1>3. LatestStatus # "succeeded"
    BY <1>1 DEF LatestStatus, RowClaimsNothing, RowTypeOK, Attempts
<1>4. wd'.pc \notin {"recover", "complete"}
    BY <1>1, <1>2, <1>3 DEF WatchdogStep, WatchdogCrash, Observe, InspectExecution, FailStale, FailAfterGrace, Fail,
           RecoverClaim, RecoverComplete, RecoverRelinquish
<1>5. UNCHANGED exec
    BY DEF WatchdogStep, WatchdogCrash, Observe, InspectExecution, FailStale, FailAfterGrace, Fail,
           RecoverClaim, RecoverComplete, RecoverRelinquish, OnlyTask, rowVars
<1>6. \/ UNCHANGED task \/ task' = Released(task, "FAILED") \/ RecoverRelinquish
    BY <1>2 DEF WatchdogStep, WatchdogCrash, Observe, InspectExecution, FailStale, FailAfterGrace, Fail,
           RecoverClaim, RecoverComplete, rowVars
<1>7. task'.billing # "CAPTURED"
    BY ZenonT(40), <1>1, <1>6, ReleasedClaimsNothing DEF RecoverRelinquish, RowClaimsNothing, TaskRows
<1> QED
    BY <1>1, <1>4, <1>5, <1>7 DEF RowClaimsNothing

LEMMA OperatorClaimsNothing ==
    ASSUME TypeOK, ~Rendered, NothingClaimed, RecoveryNext
    PROVE  RowClaimsNothing' /\ op'.pc \notin {"capture", "captureResolve", "captureSettle"}
<1>1. RowTypeOK /\ task \in TaskRows /\ RowClaimsNothing /\ op \in Requests
    BY DEF TypeOK, RowTypeOK, NothingClaimed, RowClaimsNothing, RecoveryTypeOK
<1>2. op.pc \notin {"capture", "captureResolve", "captureSettle"} /\ NoRequest.pc = "idle"
    BY DEF NothingClaimed, NoRequest
<1>3. LatestStatus # "succeeded" /\ (LatestStatus = "unknown" => attempt \in Attempts)
    BY <1>1 DEF LatestStatus, RowClaimsNothing, RowTypeOK, Attempts
<1>4. ~Allowed("capture")
    BY <1>3 DEF Allowed, EvidenceSucceeded, Rendered
<1>5. CASE Diagnose
    BY <1>1, <1>4, <1>5 DEF Diagnose, rowVars, RowClaimsNothing
<1>6. CASE ManualReview \/ Redrive \/ SettleRelease
    <2>1. task'.billing # "CAPTURED"
        BY ZenonT(40), <1>1, <1>6, ReleasedClaimsNothing DEF ManualReview, Redrive, SettleRelease, RowClaimsNothing, TaskRows
    <2> QED
        BY <1>1, <1>2, <1>6, <2>1 DEF ManualReview, Redrive, SettleRelease, OnlyTask, RowClaimsNothing
<1>7. CASE ResolveRelease
    <2>1. op'.pc = "releaseObserve"
        BY <1>1, <1>7 DEF ResolveRelease, ResolvesUnknown, Requests
    <2> QED
        BY <1>1, <1>7, <2>1, SetExecClaimsNothing DEF ResolveRelease, ResolvesUnknown, OnlyExec
<1>8. CASE ObserveRelease
    BY <1>1, <1>8 DEF ObserveRelease, Observes, rowVars, Requests, RowClaimsNothing
<1>9. ~ObserveCapture /\ ~ResolveCapture /\ ~SettleCapture
    BY <1>2 DEF ObserveCapture, ResolveCapture, SettleCapture, Observes, ResolvesUnknown
<1> QED
    BY <1>5, <1>6, <1>7, <1>8, <1>9 DEF RecoveryNext

LEMMA NextKeepsCapture == TypeOK /\ SubmissionInv /\ CaptureInv /\ [Next]_vars => CaptureInv'
<1> SUFFICES ASSUME TypeOK, SubmissionInv, ~Rendered, NothingClaimed, [Next]_vars
             PROVE  NothingClaimed'
    BY RenderingStays DEF CaptureInv
<1>1. RowTypeOK /\ RowClaimsNothing
    BY DEF TypeOK, NothingClaimed, RowClaimsNothing
<1>2. CASE (Environment \/ SchedulerNext) /\ UNCHANGED <<run, wd, op>>
    BY <1>1, <1>2, EnvironmentClaimsNothing DEF NothingClaimed, RowClaimsNothing
<1>3. CASE WorkerNext /\ UNCHANGED <<wd, op>>
    BY <1>3, WorkerClaimsNothing DEF NothingClaimed, RowClaimsNothing
<1>4. CASE (WatchdogStep \/ WatchdogCrash) /\ UNCHANGED op
    <2>1. UNCHANGED run
        BY <1>4 DEF WatchdogStep, WatchdogCrash, Observe, InspectExecution, FailStale, FailAfterGrace, Fail,
                    RecoverClaim, RecoverComplete, RecoverRelinquish
    <2> QED
        BY <1>4, <2>1, WatchdogClaimsNothing DEF NothingClaimed, RowClaimsNothing
<1>5. CASE RecoveryNext
    <2>1. UNCHANGED <<run, wd>>
        BY <1>5 DEF RecoveryNext, Diagnose, ManualReview, Redrive, ObserveCapture, ResolveCapture, SettleCapture,
                    ResolveRelease, ObserveRelease, SettleRelease, Observes, ResolvesUnknown, OthersUnchanged
    <2> QED
        BY <1>5, <2>1, OperatorClaimsNothing DEF NothingClaimed, RowClaimsNothing
<1>6. CASE UNCHANGED vars
    BY <1>6 DEF vars, rowVars, NothingClaimed
<1> QED
    BY <1>2, <1>3, <1>4, <1>5, <1>6 DEF Next

LEMMA InitCapture == Init => CaptureInv
<1> SUFFICES ASSUME Init PROVE NothingClaimed
    BY DEF CaptureInv
<1>1. RowClaimsNothing
    BY DEF Init, RowInit, AbsentExec, RowClaimsNothing
<1>2. wd.pc = "idle" /\ op.pc = "idle"
    BY DEF Init, WatchdogInit, WatchdogIdle, RecoveryInit, NoRequest
<1> QED
    BY <1>1, <1>2, InitRuns DEF NothingClaimed, RowClaimsNothing

\* Nobody pays for work the provider did not do, whoever settles the task: a
\* run, the watchdog's recovery, or an operator with truthful evidence.
THEOREM OnlyRenderedWorkIsCaptured == Spec => []CapturedWorkWasRendered
<1>1. CaptureInv => CapturedWorkWasRendered
    BY DEF CaptureInv, NothingClaimed, Rendered, CapturedWorkWasRendered
<1>2. TypeOK /\ SubmissionInv /\ CaptureInv /\ [Next]_vars => CaptureInv'
    BY NextKeepsCapture
<1> QED
    BY <1>1, <1>2, InitCapture, SubmissionInvariant, PTL DEF Spec

-----------------------------------------------------------------------------
(* Who settles.                                                            *)

\* A step that captures is a run's or the watchdog's completion.
LEMMA CaptureSteps ==
    ASSUME "operator" \notin Actors, op = NoRequest, TypeOK, [Next]_vars,
           task.billing # "CAPTURED", task'.billing = "CAPTURED"
    PROVE  \/ \E w \in Workers : Complete(w) /\ OwnsRow(w) /\ Capture
           \/ RecoverComplete /\ Owns(Reaper, wd.obs.gen) /\ Capture
<1>1. task \in TaskRows
    BY DEF TypeOK, RowTypeOK
<1>2. \A o : Claimed(o).billing = task.billing
    BY <1>1 DEF Claimed, TaskRows
<1>3. Released(task, "FAILED").billing # "CAPTURED"
    BY <1>1, ReleasedClaimsNothing
<1>4. ~(Dispatch \/ RecoverStale \/ LeaseExpires)
    BY <1>1 DEF Dispatch, RecoverStale, LeaseExpires, TaskRows
<1>5. ~Cancel
    BY <1>1, CancelEffect DEF TypeOK
<1>6. ASSUME NEW w \in Workers, RunWritesTask(w) PROVE Complete(w) /\ OwnsRow(w) /\ Capture
    BY <1>1, <1>2, <1>3, <1>6 DEF RunWritesTask, ConvergeDeadline, TaskRows
<1>7. CASE WatchdogWritesTask
    BY <1>1, <1>2, <1>3, <1>7 DEF WatchdogWritesTask, TaskRows
<1>8. ~RecoveryNext
    BY NoOperatorSteps
<1> QED
    BY <1>4, <1>5, <1>6, <1>7, <1>8, TaskSteps

\* Points are captured only with a result of the generation that settles, never
\* from an older generation's late success, under every fault.
THEOREM CapturesCurrent ==
    ASSUME "operator" \notin Actors
    PROVE  Spec => CapturesCurrentAttempt
<1>1. ASSUME RetryInv, TypeOK, CallerInv, [Next]_vars, task.billing # "CAPTURED", task'.billing = "CAPTURED"
      PROVE  LatestStatus = "succeeded" /\ LatestGen = task.gen
    <2>1. CASE \E w \in Workers : Complete(w) /\ OwnsRow(w) /\ Capture
        BY <1>1, <2>1 DEF CallerInv, Result, Complete, At, OwnsRow, Owns
    <2>2. CASE RecoverComplete /\ Owns(Reaper, wd.obs.gen) /\ Capture
        BY <1>1, <2>2 DEF CallerInv, Result, RecoverComplete, Owns
    <2> QED
        BY <1>1, <2>1, <2>2, CaptureSteps DEF RetryInv
<1>2. SubmissionInv /\ RetryInv /\ TypeOK /\ CallerInv /\ [Next]_vars
          => [task.billing # "CAPTURED" /\ task'.billing = "CAPTURED"
                 => LatestStatus = "succeeded" /\ LatestGen = task.gen]_vars
    BY <1>1
<1> QED
    BY <1>2, CallerInvariant, PTL DEF Spec, CapturesCurrentAttempt

\* The runs' steps are their own.
LEMMA OthersStand ==
    ASSUME WorkerTypeOK, NEW w \in Workers, RunWritesTask(w), NEW v \in Workers \ {w}
    PROVE  run'[v] = run[v]
<1>1. {"finish", "relinquish", "nack"} \subseteq Steps
    BY DEF Steps
<1>2. \/ UNCHANGED run \/ (\E pc \in {"finish", "relinquish", "nack"} : Goto(w, pc))
      \/ \E r : run' = [run EXCEPT ![w] = r]
    BY DEF RunWritesTask, Claim, Complete, FailOwned, ConvergeDeadline, Relinquish
<1> QED
    BY <1>1, <1>2, GotoEffect DEF WorkerTypeOK

\* While a lease is live only its holder or the user settles the task, whatever
\* redelivered messages and the watchdog do, under every fault.
THEOREM OwnersSettle ==
    ASSUME "operator" \notin Actors
    PROVE  Spec => LiveOwnerSettles
<1>1. ASSUME RetryInv, TypeOK, [Next]_vars, task.billing = "RESERVED", task'.billing # "RESERVED", Live
      PROVE  \/ task'.status = "CANCELLED"
             \/ /\ \E w \in Workers : OwnsRow(w) /\ \A v \in Workers \ {w} : run'[v] = run[v]
                /\ UNCHANGED wd
             \/ task.owner = Reaper /\ wd.pc = "complete" /\ wd' # wd
    <2>1. task \in TaskRows /\ WorkerTypeOK
        BY <1>1 DEF TypeOK, RowTypeOK
    <2>2. \A o : Claimed(o).billing = task.billing
        BY <2>1 DEF Claimed, TaskRows
    <2>3. ~(Dispatch \/ RecoverStale \/ LeaseExpires)
        BY <1>1, <2>1 DEF Dispatch, RecoverStale, LeaseExpires, TaskRows
    <2>4. CASE Cancel
        BY <1>1, <2>4, CancelEffect DEF TypeOK
    <2>5. ASSUME NEW w \in Workers, RunWritesTask(w), UNCHANGED <<wd, op>>
          PROVE  /\ OwnsRow(w) /\ \A v \in Workers \ {w} : run'[v] = run[v]
                 /\ UNCHANGED wd
        <3>1. OwnsRow(w)
            BY <1>1, <2>1, <2>2, <2>5 DEF RunWritesTask, ConvergeDeadline, TaskRows
        <3> QED
            BY <2>1, <2>5, <3>1, OthersStand
    <2>6. CASE WatchdogWritesTask
        <3>1. RecoverComplete /\ Owns(Reaper, wd.obs.gen)
            BY <1>1, <2>1, <2>2, <2>6 DEF WatchdogWritesTask, ReaperMatches, TaskRows
        <3>2. wd'.pc # "complete"
            BY <1>1, <3>1 DEF RecoverComplete, WatchdogIdle, TypeOK, WatchdogTypeOK
        <3> QED
            BY <3>1, <3>2 DEF RecoverComplete, Owns
    <2>7. ~RecoveryNext
        BY <1>1, NoOperatorSteps DEF RetryInv
    <2> QED
        BY <1>1, <2>3, <2>4, <2>5, <2>6, <2>7, TaskSteps
<1>2. SubmissionInv /\ RetryInv /\ TypeOK /\ [Next]_vars
          => [task.billing = "RESERVED" /\ task'.billing # "RESERVED" /\ Live
                 => \/ task'.status = "CANCELLED"
                    \/ /\ \E w \in Workers : OwnsRow(w) /\ \A v \in Workers \ {w} : run'[v] = run[v]
                       /\ UNCHANGED wd
                    \/ task.owner = Reaper /\ wd.pc = "complete" /\ wd' # wd]_vars
    BY <1>1
<1> QED
    BY <1>2, RetryInvariant, PTL DEF Spec, LiveOwnerSettles

-----------------------------------------------------------------------------
(* A consumed message belongs to a settled task.                           *)

\* A run that is about to complete its inbox marker has seen the task settled.
FinishSettled == \A w \in Workers : run[w].pc = "finish" => ~Running

ConsumedInv == RunningIsReserved /\ FinishSettled /\ ConsumedMeansSettled

\* A run ends its delivery when the task is settled.
LEMMA FinishEntries ==
    ASSUME TypeOK, [Next]_vars, NEW v \in Workers, run'[v].pc = "finish"
    PROVE  run'[v] = run[v] \/ ~Running \/ ~Running'
<1>1. CASE UNCHANGED run
    BY <1>1
<1>2. CASE WorkerNext
    <2>1. PICK w \in Workers :
              \/ \E e \in Events : Deliver(w, e)
              \/ RunStep(w) \/ DeadlinePasses(w) \/ ConvergeDeadline(w) \/ StoreFails(w) \/ Crash(w)
        BY <1>2 DEF WorkerNext
    <2>2. WorkerTypeOK /\ run[w] \in Runs /\ task \in TaskRows
        BY DEF TypeOK, WorkerTypeOK, RowTypeOK
    <2>3. ASSUME NEW pc \in Steps \ {"finish"}, Goto(w, pc) PROVE run'[v] = run[v]
        BY <2>2, <2>3, GotoEffect
    <2>4. ASSUME NEW r, r.pc # "finish", run' = [run EXCEPT ![w] = r] PROVE run'[v] = run[v]
        BY <2>2, <2>4 DEF WorkerTypeOK
    <2>5. /\ {"nack", "fail", "relinquish", "claimPrepared", "submit", "calling", "markUnknown", "save", "complete"}
                \subseteq Steps \ {"finish"}
          /\ Idle.pc = "idle"
          /\ \A e : /\ [Idle EXCEPT !.pc = "nack", !.msg = e].pc = "nack"
                    /\ [Idle EXCEPT !.pc = "claim", !.msg = e].pc = "claim"
        BY DEF Steps, Idle
    <2>6. ASSUME NEW e \in Events, Deliver(w, e) PROVE run'[v] = run[v]
        <3>1. UNCHANGED run \/ \E r : r.pc # "finish" /\ run' = [run EXCEPT ![w] = r]
            BY <2>5, <2>6 DEF Deliver
        <3> QED
            BY <2>4, <3>1
    <2>7. CASE Claim(w)
        <3>1. [run[w] EXCEPT !.pc = "inspect", !.gen = task'.gen].pc = "inspect"
            BY <2>2 DEF Runs
        <3> QED
            BY <2>3, <2>4, <2>5, <2>7, <3>1 DEF Claim
    <2>8. CASE Inspect(w)
        <3>1. Resume(w) \in Steps \ {"finish"}
            BY DEF Resume, Steps
        <3>2. /\ [run[w] EXCEPT !.pc = "create", !.att = attempt + 1].pc = "create"
              /\ [run[w] EXCEPT !.pc = Resume(w), !.att = attempt].pc = Resume(w)
            BY <2>2 DEF Runs
        <3>3. \/ Goto(w, "fail") \/ Goto(w, Resume(w))
              \/ \E r : r.pc # "finish" /\ run' = [run EXCEPT ![w] = r]
            BY <2>8, <3>1, <3>2 DEF Inspect
        <3> QED
            BY <2>3, <2>4, <2>5, <3>1, <3>3
    <2>9. CASE ClaimPrepared(w) \/ CallRejected(w)
        <3>1. /\ [run[w] EXCEPT !.pc = "validate", !.att = attempt].pc = "validate"
              /\ [run[w] EXCEPT !.pc = "inspect", !.route = "fallback"].pc = "inspect"
            BY <2>2 DEF Runs
        <3> QED
            BY <2>3, <2>4, <2>5, <2>9, <3>1 DEF ClaimPrepared, CallRejected
    <2>10. CASE \/ CreatePrepared(w) \/ ValidateOwnership(w) \/ Submit(w) \/ CallSucceeds(w)
                \/ CallAmbiguous(w) \/ MarkUnknown(w)
        BY <2>3, <2>5, <2>10 DEF CreatePrepared, ValidateOwnership, Submit, CallSucceeds, CallAmbiguous, MarkUnknown
    <2>11. CASE SaveResult(w) \/ FailOwned(w) \/ DeadlinePasses(w) \/ ConvergeDeadline(w) \/ Relinquish(w) \/ StoreFails(w)
        BY <2>3, <2>5, <2>11 DEF SaveResult, FailOwned, DeadlinePasses, ConvergeDeadline, Relinquish, StoreFails
    <2>12. CASE Complete(w)
        <3>1. CASE Goto(w, "relinquish")
            BY <2>3, <2>5, <3>1
        <3>2. CASE Capture
            BY <2>2, <3>2 DEF Capture, Running, TaskRows
        <3>3. CASE task.status \in Terminal
            BY <3>3 DEF Terminal, Running
        <3> QED
            BY <2>12, <3>1, <3>2, <3>3 DEF Complete
    <2>13. CASE Finish(w) \/ Nack(w) \/ Crash(w)
        <3>1. \E r : r.pc # "finish" /\ run' = [run EXCEPT ![w] = r]
            BY <2>5, <2>13 DEF Finish, Nack, Crash
        <3> QED
            BY <2>4, <3>1
    <2> QED
        BY <2>1, <2>6, <2>7, <2>8, <2>9, <2>10, <2>11, <2>12, <2>13 DEF RunStep
<1>3. CASE WatchdogStep \/ WatchdogCrash \/ RecoveryNext
    BY <1>3 DEF WatchdogStep, WatchdogCrash, Observe, InspectExecution, FailStale, FailAfterGrace, Fail,
       RecoverClaim, RecoverComplete, RecoverRelinquish, RecoveryNext, Diagnose, ManualReview, Redrive,
       ObserveCapture, ResolveCapture, SettleCapture, ResolveRelease, ObserveRelease, SettleRelease,
       Observes, ResolvesUnknown, OthersUnchanged
<1> QED
    BY <1>1, <1>2, <1>3 DEF Next, vars

\* An inbox marker is completed by a run that knows the task is settled.
LEMMA InboxSteps ==
    ASSUME TypeOK, [Next]_vars, NEW e \in Events, inbox'[e] = "done"
    PROVE  inbox[e] = "done" \/ ~Running \/ \E w \in Workers : run[w].pc = "finish"
<1>1. inbox \in [Events -> {"none", "claimed", "done"}]
    BY DEF TypeOK, RowTypeOK
<1>2. CASE UNCHANGED inbox
    BY <1>2
<1>3. ASSUME NEW w \in Workers, NEW f \in Events, Deliver(w, f) PROVE inbox[e] = "done" \/ ~Running
    BY <1>1, <1>3 DEF Deliver
<1>4. ASSUME NEW w \in Workers, Finish(w) PROVE run[w].pc = "finish"
    BY <1>4 DEF Finish, At
<1>5. ASSUME NEW w \in Workers, Nack(w) PROVE inbox[e] = "done" \/ ~Running
    BY <1>1, <1>5 DEF Nack, InboxCompletes
<1>6. \/ UNCHANGED inbox
      \/ \E w \in Workers : Finish(w) \/ Nack(w) \/ \E f \in Events : Deliver(w, f)
    BY ZenonT(40) DEF Next, Environment, LeaseExpires, Cancel, ProviderDecides, SchedulerNext, Dispatch, RecoverStale,
           ClaimEvent, PublishEvent, MarkPublished, ReclaimEvent, MarkFailure, OutboxUnchanged, WorkerNext, RunStep,
           Claim, Inspect, CreatePrepared, ClaimPrepared, ValidateOwnership, Submit, CallSucceeds,
           CallRejected, CallAmbiguous, MarkUnknown, SaveResult, Complete, FailOwned, DeadlinePasses,
           ConvergeDeadline, Relinquish, StoreFails, Crash, WatchdogStep, WatchdogCrash,
           Observe, InspectExecution, FailStale, FailAfterGrace, Fail, RecoverClaim, RecoverComplete,
           RecoverRelinquish, RecoveryNext, Diagnose, ManualReview, Redrive, ObserveCapture, ResolveCapture,
           SettleCapture, ResolveRelease, ObserveRelease, SettleRelease, Observes, ResolvesUnknown,
           OnlyTask, OnlyExec, OnlyBroker, rowVars, vars
<1> QED
    BY <1>2, <1>3, <1>4, <1>5, <1>6

\* A message is marked consumed only once its task is settled: for every actor,
\* the operator included, and under every fault.
THEOREM ConsumedIsSettled == Spec => []ConsumedMeansSettled
<1>1. Init => ConsumedInv
    <2> SUFFICES ASSUME Init PROVE ConsumedInv
        OBVIOUS
    <2>1. RunningIsReserved /\ ConsumedMeansSettled
        BY DEF Init, RowInit, RunningIsReserved, ConsumedMeansSettled
    <2>2. FinishSettled
        BY InitRuns DEF FinishSettled
    <2> QED
        BY <2>1, <2>2 DEF ConsumedInv
<1>2. TypeOK /\ ConsumedInv /\ [Next]_vars => ConsumedInv'
    <2> SUFFICES ASSUME TypeOK, ConsumedInv, [Next]_vars PROVE ConsumedInv'
        OBVIOUS
    <2>1. SettlesReserved
        BY NextSettles DEF TypeOK, ConsumedInv
    <2>2. RunningIsReserved' /\ (~Running => ~Running')
        BY <2>1 DEF ConsumedInv, RunningIsReserved, SettlesReserved, Running
    <2>3. FinishSettled'
        BY <2>2, FinishEntries DEF ConsumedInv, FinishSettled
    <2>4. ConsumedMeansSettled'
        <3> SUFFICES ASSUME NEW e \in Events, inbox'[e] = "done" PROVE ~Running'
            BY DEF ConsumedMeansSettled
        <3> QED
            BY <2>2, InboxSteps DEF ConsumedInv, FinishSettled, ConsumedMeansSettled
    <2> QED
        BY <2>2, <2>3, <2>4 DEF ConsumedInv
<1>3. ConsumedInv => ConsumedMeansSettled
    BY DEF ConsumedInv
<1> QED
    BY <1>1, <1>2, <1>3, TypeCorrect, PTL DEF Spec

-----------------------------------------------------------------------------
(* Only an event nobody can have received is withdrawn.                    *)

\* An event that was never claimed for publication has no message.
MessagesHaveRows ==
    \A e \in Events :
        outbox[e] \in {"absent", "virgin"} => e \notin queue /\ \A w \in Workers : run[w].msg # e

\* A run gets its message from the broker.
LEMMA MessageSteps ==
    ASSUME TypeOK, [Next]_vars, NEW v \in Workers, NEW e \in Events, run'[v].msg = e
    PROVE  run[v].msg = e \/ e \in queue
<1>1. CASE UNCHANGED run
    BY <1>1
<1>2. CASE WorkerNext
    <2>1. PICK w \in Workers :
              \/ \E f \in Events : Deliver(w, f)
              \/ RunStep(w) \/ DeadlinePasses(w) \/ ConvergeDeadline(w) \/ StoreFails(w) \/ Crash(w)
        BY <1>2 DEF WorkerNext
    <2>2. WorkerTypeOK /\ run[w] \in Runs
        BY DEF TypeOK, WorkerTypeOK
    <2>3. ASSUME NEW pc \in Steps, Goto(w, pc) PROVE run[v].msg = e
        BY <2>2, <2>3, GotoEffect, GotoKeeps
    <2>4. ASSUME NEW r, r.msg \notin Events \/ r.msg = run[w].msg, run' = [run EXCEPT ![w] = r]
          PROVE run[v].msg = e
        BY <2>2, <2>4 DEF WorkerTypeOK
    <2>5. {"finish", "nack", "fail", "relinquish", "claimPrepared", "submit", "calling", "markUnknown", "save", "complete"}
              \subseteq Steps
        BY DEF Steps
    <2>6. Idle.msg \notin Events
        BY DEF Idle, NoEvent, Events, Generations
    <2>7. ASSUME NEW f \in Events, Deliver(w, f) PROVE run[v].msg = e \/ e \in queue
        <3>1. /\ [Idle EXCEPT !.pc = "nack", !.msg = f].msg = f
              /\ [Idle EXCEPT !.pc = "claim", !.msg = f].msg = f
            BY DEF Idle
        <3>2. PICK r : r.msg = f /\ (UNCHANGED run \/ run' = [run EXCEPT ![w] = r])
            BY <2>7, <3>1 DEF Deliver
        <3>3. run'[v] = run[v] \/ run'[v] = r
            BY <2>2, <3>2 DEF WorkerTypeOK
        <3> QED
            BY <2>7, <3>2, <3>3 DEF Deliver
    <2>8. CASE Claim(w)
        <3>1. [run[w] EXCEPT !.pc = "inspect", !.gen = task'.gen].msg = run[w].msg
            BY <2>2 DEF Runs
        <3> QED
            BY <2>3, <2>4, <2>5, <2>8, <3>1 DEF Claim
    <2>9. CASE Inspect(w)
        <3>1. Resume(w) \in Steps
            BY DEF Resume, Steps
        <3>2. /\ [run[w] EXCEPT !.pc = "create", !.att = attempt + 1].msg = run[w].msg
              /\ [run[w] EXCEPT !.pc = Resume(w), !.att = attempt].msg = run[w].msg
            BY <2>2 DEF Runs
        <3>3. \/ Goto(w, "fail") \/ Goto(w, Resume(w))
              \/ \E r : r.msg = run[w].msg /\ run' = [run EXCEPT ![w] = r]
            BY <2>9, <3>1, <3>2 DEF Inspect
        <3> QED
            BY <2>3, <2>4, <2>5, <3>1, <3>3
    <2>10. CASE ClaimPrepared(w) \/ CallRejected(w)
        <3>1. /\ [run[w] EXCEPT !.pc = "validate", !.att = attempt].msg = run[w].msg
              /\ [run[w] EXCEPT !.pc = "inspect", !.route = "fallback"].msg = run[w].msg
            BY <2>2 DEF Runs
        <3> QED
            BY <2>3, <2>4, <2>5, <2>10, <3>1 DEF ClaimPrepared, CallRejected
    <2>11. CASE \/ CreatePrepared(w) \/ ValidateOwnership(w) \/ Submit(w) \/ CallSucceeds(w)
                \/ CallAmbiguous(w) \/ MarkUnknown(w)
        BY <2>3, <2>5, <2>11 DEF CreatePrepared, ValidateOwnership, Submit, CallSucceeds, CallAmbiguous, MarkUnknown
    <2>12. CASE \/ SaveResult(w) \/ FailOwned(w) \/ DeadlinePasses(w) \/ ConvergeDeadline(w) \/ Relinquish(w)
                \/ StoreFails(w) \/ Complete(w)
        BY <2>3, <2>5, <2>12 DEF SaveResult, FailOwned, DeadlinePasses, ConvergeDeadline, Relinquish, StoreFails, Complete
    <2>13. CASE Finish(w) \/ Nack(w) \/ Crash(w)
        BY <2>4, <2>6, <2>13 DEF Finish, Nack, Crash
    <2> QED
        BY <2>1, <2>7, <2>8, <2>9, <2>10, <2>11, <2>12, <2>13 DEF RunStep
<1>3. CASE WatchdogStep \/ WatchdogCrash \/ RecoveryNext
    BY <1>3 DEF WatchdogStep, WatchdogCrash, Observe, InspectExecution, FailStale, FailAfterGrace, Fail,
       RecoverClaim, RecoverComplete, RecoverRelinquish, RecoveryNext, Diagnose, ManualReview, Redrive,
       ObserveCapture, ResolveCapture, SettleCapture, ResolveRelease, ObserveRelease, SettleRelease,
       Observes, ResolvesUnknown, OthersUnchanged
<1> QED
    BY <1>1, <1>2, <1>3 DEF Next, vars

\* The broker gets its messages from the publisher and from runs that return them.
LEMMA QueueSteps ==
    ASSUME TypeOK, [Next]_vars, NEW e \in Events, e \in queue'
    PROVE  e \in queue \/ PublishEvent(e) \/ \E w \in Workers : run[w].msg = e
<1>1. CASE UNCHANGED queue
    BY <1>1
<1>2. ASSUME NEW w \in Workers, NEW f \in Events, Deliver(w, f) PROVE e \in queue
    BY <1>2 DEF Deliver
<1>3. ASSUME NEW w \in Workers, Nack(w) \/ Crash(w) PROVE e \in queue \/ run[w].msg = e
    BY <1>3 DEF Nack, Crash
<1>4. ASSUME NEW f \in Events, PublishEvent(f) PROVE e \in queue \/ PublishEvent(e)
    BY <1>4 DEF PublishEvent
<1>5. \/ UNCHANGED queue \/ \E f \in Events : PublishEvent(f)
      \/ \E w \in Workers : Nack(w) \/ Crash(w) \/ \E f \in Events : Deliver(w, f)
    BY ZenonT(40) DEF Next, Environment, LeaseExpires, Cancel, ProviderDecides, SchedulerNext, Dispatch, RecoverStale,
           ClaimEvent, MarkPublished, ReclaimEvent, MarkFailure, OutboxUnchanged, WorkerNext, RunStep,
           Claim, Inspect, CreatePrepared, ClaimPrepared, ValidateOwnership, Submit, CallSucceeds,
           CallRejected, CallAmbiguous, MarkUnknown, SaveResult, Complete, FailOwned, DeadlinePasses, Finish,
           ConvergeDeadline, Relinquish, StoreFails, WatchdogStep, WatchdogCrash,
           Observe, InspectExecution, FailStale, FailAfterGrace, Fail, RecoverClaim, RecoverComplete,
           RecoverRelinquish, RecoveryNext, Diagnose, ManualReview, Redrive, ObserveCapture, ResolveCapture,
           SettleCapture, ResolveRelease, ObserveRelease, SettleRelease, Observes, ResolvesUnknown,
           OnlyTask, OnlyExec, OnlyBroker, rowVars, vars
<1> QED
    BY <1>1, <1>2, <1>3, <1>4, <1>5

\* Without an operator an event that was claimed once is never again as new.
LEMMA OutboxSteps ==
    ASSUME "operator" \notin Actors, op = NoRequest, TypeOK, [Next]_vars,
           NEW e \in Events, outbox'[e] \in {"absent", "virgin"}
    PROVE  outbox[e] \in {"absent", "virgin"} /\ ~PublishEvent(e)
<1>1. outbox \in [Events -> OutboxStatuses]
    BY DEF TypeOK, RowTypeOK
<1>2. CASE UNCHANGED outbox
    BY <1>1, <1>2 DEF PublishEvent
<1>3. CASE Dispatch
    BY <1>1, <1>3 DEF Dispatch, PublishEvent
<1>4. CASE RecoverStale
    BY <1>1, <1>4 DEF RecoverStale, Withdrawn, PublishEvent
<1>5. ASSUME NEW f \in Events, ClaimEvent(f) \/ PublishEvent(f) \/ MarkPublished(f) \/ ReclaimEvent(f) \/ MarkFailure(f)
      PROVE  outbox[e] \in {"absent", "virgin"} /\ ~PublishEvent(e)
    <2>1. outbox'[f] \notin {"absent", "virgin"} /\ \A g \in Events \ {f} : outbox'[g] = outbox[g]
        BY <1>1, <1>5 DEF ClaimEvent, PublishEvent, MarkPublished, ReclaimEvent, MarkFailure
    <2>2. e # f /\ outbox'[e] = outbox[e]
        BY <2>1
    <2> QED
        BY <1>1, <2>2 DEF PublishEvent
<1>6. \/ UNCHANGED outbox \/ Dispatch \/ RecoverStale \/ RecoveryNext
      \/ \E f \in Events : ClaimEvent(f) \/ PublishEvent(f) \/ MarkPublished(f) \/ ReclaimEvent(f) \/ MarkFailure(f)
    BY ZenonT(40) DEF Next, Environment, LeaseExpires, Cancel, ProviderDecides, SchedulerNext, WorkerNext, RunStep,
           Deliver, Claim, Inspect, CreatePrepared, ClaimPrepared, ValidateOwnership, Submit, CallSucceeds,
           CallRejected, CallAmbiguous, MarkUnknown, SaveResult, Complete, FailOwned, DeadlinePasses, Finish,
           ConvergeDeadline, Relinquish, StoreFails, Nack, Crash, WatchdogStep, WatchdogCrash,
           Observe, InspectExecution, FailStale, FailAfterGrace, Fail, RecoverClaim, RecoverComplete,
           RecoverRelinquish, OnlyTask, OnlyExec, OnlyBroker, rowVars, vars
<1> QED
    BY <1>2, <1>3, <1>4, <1>5, <1>6, NoOperatorSteps

\* The scheduler withdraws only events that no broker message and no delivery
\* carries, unless an operator makes an old event pending again.
THEOREM WithdrawnIsUnseen ==
    ASSUME "operator" \notin Actors
    PROVE  Spec => []WithdrawnNeverDelivered
<1>1. Init => MessagesHaveRows
    <2> SUFFICES ASSUME Init PROVE queue = {} /\ \A w \in Workers : run[w].msg \notin Events
        BY DEF MessagesHaveRows
    <2>1. Idle.msg = NoEvent /\ [Idle EXCEPT !.pc = "claim"].msg = NoEvent
        BY DEF Idle
    <2>2. \A w \in Workers : run[w].msg = NoEvent
        BY <2>1 DEF Init, WorkerInit
    <2>3. NoEvent \notin Events
        BY DEF NoEvent, Events, Generations
    <2> QED
        BY <2>2, <2>3 DEF Init, RowInit
<1>2. SubmissionInv /\ RetryInv /\ TypeOK /\ MessagesHaveRows /\ [Next]_vars => MessagesHaveRows'
    <2> SUFFICES ASSUME RetryInv, TypeOK, MessagesHaveRows, [Next]_vars,
                        NEW e \in Events, outbox'[e] \in {"absent", "virgin"}
                 PROVE  e \notin queue' /\ \A w \in Workers : run'[w].msg # e
        BY DEF MessagesHaveRows
    <2>1. outbox[e] \in {"absent", "virgin"} /\ ~PublishEvent(e)
        BY OutboxSteps DEF RetryInv
    <2>2. e \notin queue /\ \A w \in Workers : run[w].msg # e
        BY <2>1 DEF MessagesHaveRows
    <2> QED
        BY <2>1, <2>2, MessageSteps, QueueSteps
<1>3. MessagesHaveRows => WithdrawnNeverDelivered
    BY DEF MessagesHaveRows, WithdrawnNeverDelivered
<1> QED
    BY <1>1, <1>2, <1>3, RetryInvariant, PTL DEF Spec

-----------------------------------------------------------------------------
(* No released reservation has a durable result.                           *)

\* With one channel every fingerprint matches.
OneRoute ==
    /\ \A w \in Workers : run[w].route = "primary"
    /\ \A a \in 1..attempt : exec[a].route = "primary"

\* Only another channel takes a run off the primary route.
LEMMA RouteSteps ==
    ASSUME ~Fallback, TypeOK, [Next]_vars, NEW v \in Workers
    PROVE  run'[v].route = run[v].route \/ run'[v].route = "primary"
<1>1. CASE UNCHANGED run
    BY <1>1
<1>2. CASE WorkerNext
    <2>1. PICK w \in Workers :
              \/ \E f \in Events : Deliver(w, f)
              \/ RunStep(w) \/ DeadlinePasses(w) \/ ConvergeDeadline(w) \/ StoreFails(w) \/ Crash(w)
        BY <1>2 DEF WorkerNext
    <2>2. WorkerTypeOK /\ run[w] \in Runs
        BY DEF TypeOK, WorkerTypeOK
    <2>3. ASSUME NEW pc \in Steps, Goto(w, pc) PROVE run'[v].route = run[v].route \/ run'[v].route = "primary"
        BY <2>2, <2>3, GotoEffect, GotoKeeps
    <2>4. ASSUME NEW r, r.route = run[w].route \/ r.route = "primary", run' = [run EXCEPT ![w] = r]
          PROVE run'[v].route = run[v].route \/ run'[v].route = "primary"
        BY <2>2, <2>4 DEF WorkerTypeOK
    <2>5. {"finish", "nack", "fail", "relinquish", "claimPrepared", "submit", "calling", "markUnknown", "save", "complete"}
              \subseteq Steps
        BY DEF Steps
    <2>6. /\ Idle.route = "primary"
          /\ \A f : /\ [Idle EXCEPT !.pc = "nack", !.msg = f].route = "primary"
                    /\ [Idle EXCEPT !.pc = "claim", !.msg = f].route = "primary"
        BY DEF Idle
    <2>7. ASSUME NEW f \in Events, Deliver(w, f) PROVE run'[v].route = run[v].route \/ run'[v].route = "primary"
        BY <2>4, <2>6, <2>7 DEF Deliver
    <2>8. CASE Claim(w)
        <3>1. [run[w] EXCEPT !.pc = "inspect", !.gen = task'.gen].route = run[w].route
            BY <2>2 DEF Runs
        <3> QED
            BY <2>3, <2>4, <2>5, <2>8, <3>1 DEF Claim
    <2>9. CASE Inspect(w)
        <3>1. Resume(w) \in Steps
            BY DEF Resume, Steps
        <3>2. /\ [run[w] EXCEPT !.pc = "create", !.att = attempt + 1].route = run[w].route
              /\ [run[w] EXCEPT !.pc = Resume(w), !.att = attempt].route = run[w].route
            BY <2>2 DEF Runs
        <3>3. \/ Goto(w, "fail") \/ Goto(w, Resume(w))
              \/ \E r : r.route = run[w].route /\ run' = [run EXCEPT ![w] = r]
            BY <2>9, <3>1, <3>2 DEF Inspect
        <3> QED
            BY <2>3, <2>4, <2>5, <3>1, <3>3
    <2>10. CASE ClaimPrepared(w) \/ CallRejected(w)
        <3>1. [run[w] EXCEPT !.pc = "validate", !.att = attempt].route = run[w].route
            BY <2>2 DEF Runs
        <3> QED
            BY <2>3, <2>4, <2>5, <2>10, <3>1 DEF ClaimPrepared, CallRejected
    <2>11. CASE \/ CreatePrepared(w) \/ ValidateOwnership(w) \/ Submit(w) \/ CallSucceeds(w)
                \/ CallAmbiguous(w) \/ MarkUnknown(w)
        BY <2>3, <2>5, <2>11 DEF CreatePrepared, ValidateOwnership, Submit, CallSucceeds, CallAmbiguous, MarkUnknown
    <2>12. CASE \/ SaveResult(w) \/ FailOwned(w) \/ DeadlinePasses(w) \/ ConvergeDeadline(w) \/ Relinquish(w)
                \/ StoreFails(w) \/ Complete(w)
        BY <2>3, <2>5, <2>12 DEF SaveResult, FailOwned, DeadlinePasses, ConvergeDeadline, Relinquish, StoreFails, Complete
    <2>13. CASE Finish(w) \/ Nack(w) \/ Crash(w)
        BY <2>4, <2>6, <2>13 DEF Finish, Nack, Crash
    <2> QED
        BY <2>1, <2>7, <2>8, <2>9, <2>10, <2>11, <2>12, <2>13 DEF RunStep
<1>3. CASE WatchdogStep \/ WatchdogCrash \/ RecoveryNext
    BY <1>3 DEF WatchdogStep, WatchdogCrash, Observe, InspectExecution, FailStale, FailAfterGrace, Fail,
       RecoverClaim, RecoverComplete, RecoverRelinquish, RecoveryNext, Diagnose, ManualReview, Redrive,
       ObserveCapture, ResolveCapture, SettleCapture, ResolveRelease, ObserveRelease, SettleRelease,
       Observes, ResolvesUnknown, OthersUnchanged
<1> QED
    BY <1>1, <1>2, <1>3 DEF Next, vars

LEMMA NextKeepsOneRoute ==
    ASSUME ~Fallback, "operator" \notin Actors, TypeOK, RetryInv, OneRoute, [Next]_vars
    PROVE  OneRoute'
<1>1. \A w \in Workers : run'[w].route = "primary"
    BY RouteSteps DEF OneRoute
<1>2. RowTypeOK /\ attempt \in 0..MaxAttempts
    BY DEF TypeOK, RowTypeOK
<1>3. ASSUME NEW a \in 1..attempt PROVE exec'[a].route = "primary"
    BY <1>3, ExecutionsKept DEF ExecKept, OneRoute
<1>4. ASSUME attempt' # attempt PROVE attempt' = attempt + 1 /\ exec'[attempt + 1].route = "primary"
    <2>1. PICK w \in Workers : CreatePrepared(w)
        BY <1>4, ExecSteps DEF RetryInv, ClaimPrepared, CallRejected, MarkUnknown, SaveResult, OnlyExec
    <2>2. /\ attempt' = attempt + 1 /\ attempt' \in 0..MaxAttempts
          /\ exec' = [exec EXCEPT ![attempt + 1] =
                        [status |-> "prepared", gen |-> task.gen, route |-> run[w].route, result |-> FALSE]]
        BY <1>4, <2>1, NextType DEF CreatePrepared, TypeOK, RowTypeOK
    <2>3. exec'[attempt + 1].route = run[w].route
        BY <1>2, <2>2 DEF RowTypeOK, Attempts
    <2> QED
        BY <2>2, <2>3 DEF OneRoute
<1> QED
    BY <1>1, <1>2, <1>3, <1>4 DEF OneRoute

\* Where a run still works towards a result, or gives up.
Working == {"create", "claimPrepared", "validate", "submit", "calling", "markUnknown", "save", "fail"}

\* How a run comes to such a step: from another one, or by finding no result.
LEMMA WorkingEntries ==
    ASSUME ~Fallback, "database" \notin Faults, TypeOK, OneRoute, [Next]_vars,
           NEW v \in Workers, run'[v].pc \in Working
    PROVE  \/ run'[v] = run[v]
           \/ /\ run[v].pc \in Working /\ run'[v].gen = run[v].gen /\ UNCHANGED task
              /\ run'[v].pc = "fail" \/ ~SaveResult(v)
           \/ Inspect(v) /\ LatestStatus # "succeeded" /\ UNCHANGED <<attempt, exec>>
<1>1. CASE UNCHANGED run
    BY <1>1
<1>2. CASE WorkerNext
    <2>1. PICK w \in Workers :
              \/ \E f \in Events : Deliver(w, f)
              \/ RunStep(w) \/ DeadlinePasses(w) \/ ConvergeDeadline(w) \/ StoreFails(w) \/ Crash(w)
        BY <1>2 DEF WorkerNext
    <2>2. WorkerTypeOK /\ RowTypeOK /\ run[w] \in Runs
        BY DEF TypeOK, WorkerTypeOK
    <2>3. ASSUME NEW r, r.pc \notin Working, run' = [run EXCEPT ![w] = r] PROVE run'[v] = run[v]
        BY <2>2, <2>3 DEF WorkerTypeOK
    <2>4. ASSUME NEW pc \in Steps \ Working, Goto(w, pc) PROVE run'[v] = run[v]
        BY <2>2, <2>4, GotoEffect
    <2>5. {"finish", "nack", "relinquish", "complete"} \subseteq Steps \ Working
        BY DEF Steps, Working
    <2>6. /\ Idle.pc \notin Working
          /\ \A f : /\ [Idle EXCEPT !.pc = "nack", !.msg = f].pc \notin Working
                    /\ [Idle EXCEPT !.pc = "claim", !.msg = f].pc \notin Working
        BY DEF Idle, Working
    <2>7. ASSUME NEW f \in Events, Deliver(w, f) PROVE run'[v] = run[v]
        BY <2>3, <2>6, <2>7 DEF Deliver
    <2>8. CASE Claim(w)
        <3>1. [run[w] EXCEPT !.pc = "inspect", !.gen = task'.gen].pc \notin Working
            BY <2>2 DEF Runs, Working
        <3> QED
            BY <2>3, <2>4, <2>5, <2>8, <3>1 DEF Claim
    <2>9. CASE Inspect(w)
        <3>1. CASE v # w
            <4>1. Resume(w) \in Steps /\ "fail" \in Steps
                BY DEF Resume, Steps
            <4>2. \/ Goto(w, "fail") \/ Goto(w, Resume(w)) \/ \E r : run' = [run EXCEPT ![w] = r]
                BY <2>9 DEF Inspect
            <4> QED
                BY <2>2, <3>1, <4>1, <4>2, GotoEffect DEF WorkerTypeOK
        <3>2. CASE v = w
            <4>1. ~NeedsAttempt => FingerprintMatches(w)
                BY <2>2, <3>2 DEF NeedsAttempt, FingerprintMatches, OneRoute, LatestStatus, RowTypeOK
            <4>2. LatestStatus # "succeeded"
                <5> SUFFICES ASSUME LatestStatus = "succeeded" PROVE run'[v].pc \notin Working
                    OBVIOUS
                <5>1. ~NeedsAttempt /\ Resume(w) \in {"complete", "relinquish"}
                    BY DEF NeedsAttempt, Resume
                <5>2. Goto(w, Resume(w)) /\ Resume(w) \in Steps \ Working
                    BY <2>9, <4>1, <5>1 DEF Inspect, Settling, Steps, Working
                <5> QED
                    BY <2>2, <3>2, <5>2, GotoEffect
            <4> QED
                BY <2>9, <3>2, <4>2 DEF Inspect, rowVars
        <3> QED
            BY <3>1, <3>2
    <2>10. CASE \/ CreatePrepared(w) \/ ClaimPrepared(w) \/ ValidateOwnership(w) \/ Submit(w) \/ CallSucceeds(w)
                \/ CallRejected(w) \/ CallAmbiguous(w) \/ MarkUnknown(w) \/ SaveResult(w)
        <3>1. run[w].pc \in Working /\ UNCHANGED task
            BY <2>10 DEF CreatePrepared, ClaimPrepared, ValidateOwnership, Submit, CallSucceeds, CallRejected,
               CallAmbiguous, MarkUnknown, SaveResult, At, Working, OnlyExec, rowVars
        <3>2. ASSUME NEW pc \in Steps, Goto(w, pc)
              PROVE  run'[v] = run[v] \/ (v = w /\ run'[v].pc = pc /\ (pc \in Working => run'[v].gen = run[v].gen))
            BY <2>2, <3>2, GotoEffect, GotoKeeps DEF Working
        <3>3. CASE ClaimPrepared(w) /\ run' = [run EXCEPT ![w] = [@ EXCEPT !.pc = "validate", !.att = attempt]]
            <4>1. [run[w] EXCEPT !.pc = "validate", !.att = attempt].gen = run[w].gen
                BY <2>2 DEF Runs
            <4>2. run'[v] = run[v] \/ (v = w /\ run'[v].gen = run[v].gen)
                BY <2>2, <3>3, <4>1 DEF WorkerTypeOK
            <4>3. ~SaveResult(w)
                BY <3>3 DEF ClaimPrepared, SaveResult, At
            <4> QED
                BY <3>1, <4>2, <4>3
        <3>4. CASE SaveResult(w)
            <4>1. {"complete", "fail"} \subseteq Steps /\ "complete" \notin Working /\ (Goto(w, "complete") \/ Goto(w, "fail"))
                BY <3>4 DEF SaveResult, Steps, Working
            <4> QED
                BY <3>1, <3>2, <4>1
        <3>5. CASE /\ ~SaveResult(w)
                   /\ \E pc \in {"claimPrepared", "fail", "relinquish", "submit", "calling", "save", "markUnknown"} : Goto(w, pc)
            <4>1. {"claimPrepared", "fail", "relinquish", "submit", "calling", "save", "markUnknown"} \subseteq Steps
                BY DEF Steps
            <4> QED
                BY <3>1, <3>2, <3>5, <4>1
        <3> QED
            BY <2>10, <3>3, <3>4, <3>5 DEF CreatePrepared, ClaimPrepared, ValidateOwnership, Submit, CallSucceeds,
               CallRejected, CallAmbiguous, MarkUnknown
    <2>11. CASE Complete(w) \/ FailOwned(w) \/ DeadlinePasses(w) \/ ConvergeDeadline(w) \/ Relinquish(w)
        BY <2>4, <2>5, <2>11 DEF Complete, FailOwned, DeadlinePasses, ConvergeDeadline, Relinquish
    <2>12. CASE Finish(w) \/ Nack(w) \/ Crash(w)
        BY <2>3, <2>6, <2>12 DEF Finish, Nack, Crash
    <2>13. ~StoreFails(w)
        BY DEF StoreFails
    <2> QED
        BY <2>1, <2>7, <2>8, <2>9, <2>10, <2>11, <2>12, <2>13 DEF RunStep
<1>3. CASE WatchdogStep \/ WatchdogCrash \/ RecoveryNext
    BY <1>3 DEF WatchdogStep, WatchdogCrash, Observe, InspectExecution, FailStale, FailAfterGrace, Fail,
       RecoverClaim, RecoverComplete, RecoverRelinquish, RecoveryNext, Diagnose, ManualReview, Redrive,
       ObserveCapture, ResolveCapture, SettleCapture, ResolveRelease, ObserveRelease, SettleRelease,
       Observes, ResolvesUnknown, OthersUnchanged
<1> QED
    BY <1>1, <1>2, <1>3 DEF Next, vars

\* The owner of a task that still works towards a result, or gives up, finds none.
OwnerSeesNoResult ==
    \A w \in Workers : run[w].pc \in Working /\ OwnsRow(w) => LatestStatus # "succeeded"

\* A result is saved by the run that owns the task.
LEMMA ResultSteps ==
    ASSUME "operator" \notin Actors, TypeOK, SubmissionInv, RetryInv, CallerInv, CallersOwn, [Next]_vars,
           LatestStatus # "succeeded", LatestStatus' = "succeeded"
    PROVE  \E v \in Workers : SaveResult(v) /\ OwnsRow(v) /\ UNCHANGED task /\ run'[v].pc = "complete"
                              /\ \A w \in Workers \ {v} : run'[w] = run[w]
<1>1. attempt' = attempt /\ attempt # 0 /\ attempt \in 1..attempt /\ RowTypeOK /\ WorkerTypeOK
    BY AttemptsGrow DEF LatestStatus, TypeOK, RowTypeOK
<1>2. ExecKept(attempt)
    BY <1>1, ExecutionsKept
<1>3. PICK v \in Workers : SaveResult(v) /\ run[v].att = attempt
    BY <1>1, <1>2 DEF ExecKept, LatestStatus
<1>4. OwnsRow(v) /\ UNCHANGED task
    BY <1>3 DEF SaveResult, At, CallersOwn, Callers, OnlyExec
<1>5. Goto(v, "complete")
    BY <1>1, <1>3 DEF SaveResult, LatestStatus
<1>6. run'[v].pc = "complete" /\ \A w \in Workers \ {v} : run'[w] = run[w]
    BY <1>1, <1>5, GotoEffect DEF Steps
<1> QED
    BY <1>3, <1>4, <1>6

LEMMA NextKeepsOwnerSees ==
    ASSUME ~Fallback, "operator" \notin Actors, "database" \notin Faults,
           TypeOK, SubmissionInv, RetryInv, CallerInv, CallersOwn, OneRoute, OwnerSeesNoResult, [Next]_vars
    PROVE  OwnerSeesNoResult'
<1> SUFFICES ASSUME NEW w \in Workers, run'[w].pc \in Working, OwnsRow(w)', LatestStatus' = "succeeded"
             PROVE  FALSE
    BY DEF OwnerSeesNoResult
<1>1. CASE LatestStatus = "succeeded"
    <2>1. CASE run'[w] = run[w]
        <3>1. ~Claim(w) /\ run[w].pc \in Working
            BY <2>1 DEF Claim, At, Working
        <3>2. OwnsRow(w)
            BY <2>1, <3>1, OwnershipIsClaimed DEF RetryInv
        <3> QED
            BY <1>1, <3>1, <3>2 DEF OwnerSeesNoResult
    <2>2. CASE run[w].pc \in Working /\ run'[w].gen = run[w].gen /\ UNCHANGED task
        <3>1. OwnsRow(w)
            BY <2>2 DEF OwnsRow, Owns, Running, Live
        <3> QED
            BY <1>1, <2>2, <3>1 DEF OwnerSeesNoResult
    <2> QED
        BY <1>1, <2>1, <2>2, WorkingEntries
<1>2. CASE LatestStatus # "succeeded"
    <2>1. PICK v \in Workers : /\ OwnsRow(v) /\ UNCHANGED task /\ run'[v].pc = "complete"
                               /\ \A u \in Workers \ {v} : run'[u] = run[u]
        BY <1>2, ResultSteps
    <2>2. v # w
        BY <2>1 DEF Working
    <2> QED
        BY <2>1, <2>2 DEF OwnsRow, Owns
<1> QED
    BY <1>1, <1>2

ResultInv == CallersOwn /\ OneRoute /\ OwnerSeesNoResult /\ RunningIsReserved /\ NoResultReleased

\* A step that releases finds no result.
LEMMA ReleaseSteps ==
    ASSUME "operator" \notin Actors, RetryInv, TypeOK, OwnerSeesNoResult, [Next]_vars,
           task.billing # "RELEASED", task'.billing = "RELEASED"
    PROVE  LatestStatus # "succeeded" /\ UNCHANGED <<attempt, exec>>
<1>1. RowTypeOK /\ task \in TaskRows
    BY DEF TypeOK, RowTypeOK
<1>2. \A o : Claimed(o).billing = task.billing
    BY <1>1 DEF Claimed, TaskRows
<1>3. ~Dispatch /\ ~RecoverStale /\ ~LeaseExpires /\ ~Capture
    BY <1>1 DEF Dispatch, RecoverStale, LeaseExpires, Capture, TaskRows
<1>4. CASE Cancel
    BY <1>4 DEF Cancel, ProviderBlocksFailure
<1>5. ASSUME NEW w \in Workers, RunWritesTask(w) PROVE LatestStatus # "succeeded" /\ UNCHANGED <<attempt, exec>>
    <2>1. \/ FailOwned(w) /\ OwnsRow(w)
          \/ ConvergeDeadline(w)
        BY <1>1, <1>2, <1>3, <1>5 DEF RunWritesTask, TaskRows
    <2>2. CASE FailOwned(w) /\ OwnsRow(w)
        BY <2>2 DEF FailOwned, At, OwnerSeesNoResult, Working, OnlyTask
    <2>3. CASE ConvergeDeadline(w)
        BY <2>3 DEF ConvergeDeadline, ProviderBlocksFailure, OnlyTask
    <2> QED
        BY <2>1, <2>2, <2>3
<1>6. CASE WatchdogWritesTask
    <2>1. \/ FailStale /\ ~ProviderBlocksFailure
          \/ FailAfterGrace /\ GraceEligible
        BY <1>1, <1>2, <1>3, <1>6 DEF WatchdogWritesTask, TaskRows
    <2> QED
        BY <2>1 DEF FailStale, FailAfterGrace, Fail, ProviderBlocksFailure, GraceEligible, OnlyTask
<1> QED
    BY <1>3, <1>4, <1>5, <1>6, TaskSteps, NoOperatorSteps DEF RetryInv

LEMMA NextKeepsResult ==
    ASSUME ~Fallback, "operator" \notin Actors, {"stall", "database"} \cap Faults = {},
           SubmissionInv, RetryInv, TypeOK, CallerInv, ResultInv, [Next]_vars
    PROVE  ResultInv'
<1>1. CallersOwn' /\ OneRoute' /\ OwnerSeesNoResult'
    BY NextKeepsCallersOwn, NextKeepsOneRoute, NextKeepsOwnerSees DEF ResultInv
<1>2. RunningIsReserved'
    BY NextSettles DEF TypeOK, ResultInv, RunningIsReserved, SettlesReserved, Running
<1>3. NoResultReleased'
    <2> SUFFICES ASSUME task'.billing = "RELEASED", LatestStatus' = "succeeded" PROVE FALSE
        BY DEF NoResultReleased
    <2>1. CASE task.billing = "RELEASED"
        <3>1. \E v \in Workers : OwnsRow(v)
            BY <2>1, ResultSteps DEF ResultInv, NoResultReleased
        <3> QED
            BY <2>1, <3>1 DEF OwnsRow, Owns, ResultInv, RunningIsReserved
    <2>2. CASE task.billing # "RELEASED"
        BY <2>2, ReleaseSteps DEF ResultInv, LatestStatus
    <2> QED
        BY <2>1, <2>2
<1> QED
    BY <1>1, <1>2, <1>3 DEF ResultInv

\* No reservation is released while a durable result is kept: with one channel,
\* and with stores that answer and runs that do not stall past their lease.
THEOREM ResultsArePaidFor ==
    ASSUME ~Fallback, "operator" \notin Actors, {"stall", "database"} \cap Faults = {}
    PROVE  Spec => []NoResultReleased
<1>1. Init => ResultInv
    <2> SUFFICES ASSUME Init PROVE ResultInv
        OBVIOUS
    <2>1. CallersOwn /\ OwnerSeesNoResult
        BY InitRuns DEF CallersOwn, Callers, Submitters, OwnerSeesNoResult, Working
    <2>2. OneRoute
        <3>1. Idle.route = "primary" /\ [Idle EXCEPT !.pc = "claim"].route = "primary"
            BY DEF Idle
        <3>2. \A w \in Workers : run[w].route = "primary"
            BY <3>1 DEF Init, WorkerInit
        <3> QED
            BY <3>2 DEF Init, RowInit, OneRoute
    <2>3. RunningIsReserved /\ NoResultReleased
        BY DEF Init, RowInit, RunningIsReserved, NoResultReleased
    <2> QED
        BY <2>1, <2>2, <2>3 DEF ResultInv
<1>2. SubmissionInv /\ RetryInv /\ TypeOK /\ CallerInv /\ ResultInv /\ [Next]_vars => ResultInv'
    BY NextKeepsResult
<1>3. ResultInv => NoResultReleased
    BY DEF ResultInv
<1> QED
    BY <1>1, <1>2, <1>3, CallerInvariant, PTL DEF Spec

-----------------------------------------------------------------------------
(* The promise to the user.                                                *)

Captures == Running /\ task'.status = "SUCCEEDED" /\ task'.billing = "CAPTURED"

Releases ==
    /\ Running /\ task'.status \in {"FAILED", "CANCELLED"}
    /\ task'.billing = IF task.billing = "RESERVED" THEN "RELEASED" ELSE task.billing

\* A step leaves the outcome alone, captures, or releases.
LEMMA OutcomeSteps ==
    ASSUME "operator" \notin Actors, op = NoRequest, TypeOK, [Next]_vars
    PROVE  \/ task'.status = task.status /\ task'.billing = task.billing
           \/ Captures \/ Releases
<1>1. RowTypeOK /\ task \in TaskRows
    BY DEF TypeOK, RowTypeOK
<1>2. ASSUME LeaseExpires \/ Dispatch \/ RecoverStale PROVE task'.status = task.status /\ task'.billing = task.billing
    BY <1>1, <1>2 DEF LeaseExpires, Dispatch, RecoverStale, TaskRows
<1>3. CASE Cancel
    BY <1>1, <1>3, CancelEffect DEF Releases, Cancel
<1>4. ASSUME task' = Released(task, "FAILED"), Running PROVE Releases
    BY <1>1, <1>4, ReleasedEffect DEF Releases
<1>5. ASSUME Capture, Running PROVE Captures
    BY <1>1, <1>5 DEF Capture, Captures, TaskRows
<1>6. ASSUME NEW o, task' = Claimed(o) PROVE task'.status = task.status /\ task'.billing = task.billing
    BY <1>1, <1>6, ClaimedEffect
<1>7. ASSUME task' = [task EXCEPT !.owner = NoOwner, !.lease = "expired"]
      PROVE  task'.status = task.status /\ task'.billing = task.billing
    BY <1>1, <1>7 DEF TaskRows
<1>8. ASSUME NEW w \in Workers, RunWritesTask(w)
      PROVE  \/ task'.status = task.status /\ task'.billing = task.billing
             \/ Captures \/ Releases
    BY <1>4, <1>5, <1>6, <1>7, <1>8 DEF RunWritesTask, ConvergeDeadline, OwnsRow, Owns
<1>9. ASSUME WatchdogWritesTask
      PROVE  \/ task'.status = task.status /\ task'.billing = task.billing
             \/ Captures \/ Releases
    BY <1>4, <1>5, <1>6, <1>7, <1>9 DEF WatchdogWritesTask, ReaperMatches, Owns
<1> QED
    BY <1>2, <1>3, <1>8, <1>9, TaskSteps, NoOperatorSteps

\* A task that succeeded is paid for.
PaidSuccess == task.status = "SUCCEEDED" => task.billing = "CAPTURED"

PromiseInv == NoDoubleSubmission /\ CallerInv /\ CaptureInv /\ RunningIsReserved /\ PaidSuccess

LEMMA NextKeepsPromise ==
    ASSUME "operator" \notin Actors, SubmissionInv, RetryInv, TypeOK, PromiseInv, [Next]_vars
    PROVE  PaidSuccess'
<1>1. task \in TaskRows
    BY DEF TypeOK, RowTypeOK
<1> QED
    BY <1>1, OutcomeSteps DEF RetryInv, PromiseInv, PaidSuccess, Captures, Releases, Running, RunningIsReserved

LEMMA InitPromised == Init => Promise!Init
BY DEF Init, RowInit, Promise!Init, Terminal

\* A submission is allowed: no other attempt is outstanding, and the task is neither paid nor cancelled.
LEMMA SubmitIsPromised ==
    ASSUME SubmissionInv, TypeOK, PromiseInv, NoDoubleSubmission', NEW w \in Workers, Submit(w)
    PROVE  Promise!Next
<1> DEFINE a == run[w].att
<1>1. a \in Attempts /\ sent[a] = "unsent" /\ sent \in [Attempts -> {"unsent", "sent", "rendered", "rejected"}]
    BY DEF Submit, At, SubmissionInv, RunsKnowTheirAttempt, Submitters, TypeOK, RowTypeOK, Attempts
<1>2. sent' = [sent EXCEPT ![a] = "sent"] /\ UNCHANGED task
    BY DEF Submit
<1>3. ASSUME NEW b \in Attempts PROVE sent[b] \notin {"sent", "rendered"}
    <2>1. b # a => sent'[b] = sent[b]
        BY <1>1, <1>2
    <2>2. sent'[a] = "sent"
        BY <1>1, <1>2
    <2> QED
        BY <1>1, <1>3, <2>1, <2>2 DEF NoDoubleSubmission
<1>4. Promise!Outstanding = {}
    BY <1>3 DEF Promise!Outstanding
<1>5. task.status # "SUCCEEDED"
    BY <1>3 DEF PromiseInv, PaidSuccess, CaptureInv, NothingClaimed, Rendered
<1>6. task.status # "CANCELLED"
    BY DEF Submit, At, PromiseInv, CallerInv, CallerSafe, Callers, Submitters
<1> HIDE DEF a
<1>7. Promise!Submit(a)
    BY <1>1, <1>2, <1>4, <1>5, <1>6 DEF Promise!Submit, Terminal
<1> QED
    BY <1>1, <1>7 DEF Promise!Next

LEMMA AnswerIsPromised ==
    ASSUME NEW a \in Attempts, ProviderDecides(a)
    PROVE  Promise!Next
BY DEF ProviderDecides, Promise!Answer, Promise!Next

LEMMA SettlementIsPromised ==
    ASSUME PromiseInv, CaptureInv', UNCHANGED sent, Captures \/ Releases
    PROVE  Promise!Next
<1>1. Running /\ task.billing = "RESERVED"
    BY DEF Captures, Releases, PromiseInv, RunningIsReserved
<1>2. CASE Captures
    <2>1. \E a \in Attempts : sent[a] = "rendered"
        BY <1>2 DEF Captures, CaptureInv, NothingClaimed, Rendered
    <2> QED
        BY <1>1, <1>2, <2>1 DEF Captures, Running, Terminal, Promise!Capture, Promise!Next
<1>3. CASE Releases
    BY <1>1, <1>3 DEF Releases, Running, Terminal, Promise!Release, Promise!Next
<1> QED
    BY <1>2, <1>3

LEMMA NextIsPromised ==
    ASSUME "operator" \notin Actors, SubmissionInv, RetryInv, TypeOK, PromiseInv, PromiseInv', [Next]_vars
    PROVE  [Promise!Next]_(Promise!vars)
<1>1. ASSUME NEW w \in Workers, Submit(w) PROVE Promise!Next
    BY <1>1, SubmitIsPromised DEF PromiseInv
<1>2. ASSUME NEW a \in Attempts, ProviderDecides(a) PROVE Promise!Next
    BY <1>2, AnswerIsPromised
<1>3. CASE UNCHANGED sent
    <2>1. CASE task'.status = task.status /\ task'.billing = task.billing
        BY <1>3, <2>1 DEF Promise!vars
    <2>2. CASE Captures \/ Releases
        BY <1>3, <2>2, SettlementIsPromised DEF PromiseInv
    <2> QED
        BY <2>1, <2>2, OutcomeSteps DEF RetryInv
<1> QED
    BY <1>1, <1>2, <1>3, SentSteps

LEMMA PromiseInvariant ==
    ASSUME "operator" \notin Actors
    PROVE  Spec => [](SubmissionInv /\ RetryInv /\ TypeOK /\ PromiseInv)
<1>1. Init => RunningIsReserved /\ PaidSuccess
    BY DEF Init, RowInit, RunningIsReserved, PaidSuccess
<1>2. TypeOK /\ RunningIsReserved /\ [Next]_vars => RunningIsReserved'
    BY NextSettles DEF TypeOK, RunningIsReserved, SettlesReserved, Running
<1>3. SubmissionInv /\ RetryInv /\ TypeOK /\ PromiseInv /\ [Next]_vars => PaidSuccess'
    BY NextKeepsPromise
<1>4. TypeOK /\ SubmissionInv /\ CaptureInv /\ [Next]_vars => CaptureInv'
    BY NextKeepsCapture
<1>5. PromiseInv <=> NoDoubleSubmission /\ CallerInv /\ CaptureInv /\ RunningIsReserved /\ PaidSuccess
    BY DEF PromiseInv
<1> QED
    BY <1>1, <1>2, <1>3, <1>4, <1>5, InitCapture, CallerInvariant, NeverSubmittedTwice, PTL DEF Spec

\* The whole system implements the abstract reservation, for every number of
\* runs, attempts, generations and reconciliations, and under every fault.
THEOREM KeepsThePromise ==
    ASSUME "operator" \notin Actors
    PROVE  Spec => ImplementsReservation
<1>1. SubmissionInv /\ RetryInv /\ TypeOK /\ PromiseInv /\ PromiseInv' /\ [Next]_vars
          => [Promise!Next]_(Promise!vars)
    BY NextIsPromised
<1> QED
    BY <1>1, InitPromised, PromiseInvariant, PTL DEF Spec, ImplementsReservation, Promise!Spec

=============================================================================
