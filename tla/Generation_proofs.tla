------------------------- MODULE Generation_proofs -------------------------
(***************************************************************************)
(* Machine-checked proofs about Generation, for every set of run slots and *)
(* every bound.                                                            *)
(***************************************************************************)
EXTENDS Generation, TLAPS

USE BoundsAssumption, OwnersDistinct

-----------------------------------------------------------------------------
(* Type correctness.                                                       *)

\* Goto only moves a run to a step that exists.
LEMMA GotoType ==
    ASSUME WorkerTypeOK, NEW w \in Workers, NEW pc \in Steps, Goto(w, pc)
    PROVE  WorkerTypeOK'
<1>1. run[w] \in Runs
    BY DEF WorkerTypeOK
<1>2. NoEvent \in Events \cup {NoEvent} /\ 0 \in Generations /\ 0 \in 0..MaxAttempts /\ "primary" \in Routes
    BY DEF Generations, Routes
<1> DEFINE r == [run[w] EXCEPT !.pc = pc]
<1>3. r \in Runs
    BY <1>1 DEF Runs
<1>4. [r EXCEPT !.att = 0, !.route = "primary"] \in Runs
    BY <1>2, <1>3 DEF Runs
<1>5. [Idle EXCEPT !.pc = pc, !.msg = r.msg] \in Runs
    BY <1>2, <1>3 DEF Runs, Idle
<1>6. \E x \in Runs : run' = [run EXCEPT ![w] = x]
    BY <1>3, <1>4, <1>5 DEF Goto
<1> QED
    BY <1>6 DEF WorkerTypeOK

LEMMA InitType == Init => TypeOK
<1> SUFFICES ASSUME Init PROVE TypeOK
    OBVIOUS
<1>1. RowTypeOK
    BY DEF Init, RowInit, RowTypeOK, TaskRows, ExecRows, AbsentExec, Statuses, TaskStatuses, Terminal,
           ExecStatuses, Routes, OutboxStatuses, Events, Generations, Owners, Attempts, Requested
<1>2. Idle \in Runs
    BY DEF Idle, Runs, Steps, Generations, Routes
<1>3. [Idle EXCEPT !.pc = "claim"] \in Runs
    BY <1>2 DEF Runs, Steps
<1>4. WorkerTypeOK
    BY <1>2, <1>3 DEF Init, WorkerInit, WorkerTypeOK
<1>5. WatchdogTypeOK
    BY DEF Init, WatchdogInit, WatchdogIdle, WatchdogTypeOK, NoObservation, Observations, WatchdogSteps, Generations
<1>6. RecoveryTypeOK
    BY DEF Init, RecoveryInit, RecoveryTypeOK, NoRequest, Requests, Generations
<1> QED
    BY <1>1, <1>4, <1>5, <1>6 DEF TypeOK

\* What the row transactions write into the task row.
LEMMA ReleasedType ==
    ASSUME NEW row \in TaskRows, NEW final \in Terminal
    PROVE  Released(row, final) \in TaskRows
<1>1. final \in Statuses /\ final \in TaskStatuses
    BY DEF Statuses, TaskStatuses
<1> QED
    BY <1>1 DEF Released, TaskRows

LEMMA NextGeneration ==
    ASSUME RowTypeOK, task.gen < MaxGen
    PROVE  task.gen + 1 \in Generations \ {0}
BY DEF RowTypeOK, TaskRows, Generations

LEMMA ClaimedType ==
    ASSUME RowTypeOK, NEW expected, CanClaim(expected), NEW o \in Owners
    PROVE  Claimed(o) \in TaskRows
<1>1. task \in TaskRows
    BY DEF RowTypeOK
<1>2. ~ClaimKeepsGeneration => task.gen + 1 \in Generations \ {0}
    BY NextGeneration DEF CanClaim
<1>3. "RUNNING" \in TaskStatuses
    BY DEF TaskStatuses
<1> QED
    BY <1>1, <1>2, <1>3 DEF Claimed, TaskRows

LEMMA CaptureType ==
    ASSUME RowTypeOK, Capture
    PROVE  task' \in TaskRows
<1>1. "SUCCEEDED" \in Statuses /\ "SUCCEEDED" \in TaskStatuses
    BY DEF Statuses, TaskStatuses, Terminal
<1> QED
    BY <1>1 DEF RowTypeOK, Capture, TaskRows

LEMMA SetExecType ==
    ASSUME RowTypeOK, NEW a, NEW to \in ExecStatuses, SetExec(a, to)
    PROVE  exec' \in [Attempts -> ExecRows]
<1>1. CASE a \in Attempts
    <2>1. exec[a] \in ExecRows
        BY <1>1 DEF RowTypeOK
    <2>2. [exec[a] EXCEPT !.status = to] \in ExecRows
        BY <2>1 DEF ExecRows
    <2> QED
        BY <2>2 DEF SetExec, RowTypeOK
<1>2. CASE a \notin Attempts
    BY <1>2 DEF SetExec, RowTypeOK
<1> QED
    BY <1>1, <1>2

LEMMA EnvironmentType ==
    ASSUME RowTypeOK, Environment
    PROVE  RowTypeOK'
<1>1. CASE LeaseExpires
    BY <1>1 DEF LeaseExpires, RowTypeOK, TaskRows
<1>2. CASE Cancel
    <2>1. [task EXCEPT !.gen = @ + 1, !.owner = NoOwner, !.lease = "none"] \in TaskRows
        BY <1>2, NextGeneration DEF Cancel, RowTypeOK, TaskRows
    <2>2. task' \in TaskRows
        BY <1>2, <2>1, ReleasedType DEF Cancel, Terminal
    <2> QED
        BY <1>2, <2>2 DEF Cancel, RowTypeOK
<1>3. ASSUME NEW a \in Attempts, ProviderDecides(a) PROVE RowTypeOK'
    BY <1>3 DEF ProviderDecides, RowTypeOK
<1> QED
    BY <1>1, <1>2, <1>3 DEF Environment

LEMMA SchedulerType ==
    ASSUME RowTypeOK, SchedulerNext
    PROVE  RowTypeOK'
<1>1. CASE Dispatch
    <2> DEFINE bump == IF ReconcileOnly THEN 0 ELSE 1
               e == [gen |-> task.gen + bump, seq |-> IF ReconcileOnly THEN task.reconcile ELSE 0]
    <2>1. e.gen \in Generations \ {0} /\ e.seq \in 0..MaxReconciles
        BY <1>1 DEF Dispatch, RowTypeOK, TaskRows, Generations
    <2>2. "DISPATCHING" \in TaskStatuses /\ Scheduler \in Owners \cup {NoOwner}
        BY DEF TaskStatuses, Owners
    <2>3. task' \in TaskRows
        BY <1>1, <2>1, <2>2 DEF Dispatch, RowTypeOK, TaskRows
    <2>4. outbox' \in [Events -> OutboxStatuses]
        BY <1>1 DEF Dispatch, RowTypeOK, OutboxStatuses
    <2> QED
        BY <1>1, <2>3, <2>4 DEF Dispatch, RowTypeOK
<1>2. CASE RecoverStale
    <2>1. outbox' \in [Events -> OutboxStatuses]
        BY <1>2 DEF RecoverStale, RowTypeOK, OutboxStatuses
    <2>2. [task EXCEPT !.taskStatus = "QUEUED", !.owner = NoOwner, !.lease = "none"] \in TaskRows
        BY DEF RowTypeOK, TaskRows, TaskStatuses
    <2>3. NextReconcile <= MaxReconciles => NextReconcile \in 0..MaxReconciles
        BY DEF RowTypeOK, TaskRows, NextReconcile
    <2>4. task' \in TaskRows
        BY ZenonT(40), <1>2, <2>2, <2>3, NextGeneration DEF RecoverStale, TaskRows
    <2> QED
        BY <1>2, <2>1, <2>4 DEF RecoverStale, RowTypeOK
<1>3. ASSUME NEW e \in Events,
             ClaimEvent(e) \/ PublishEvent(e) \/ MarkPublished(e) \/ ReclaimEvent(e) \/ MarkFailure(e)
      PROVE  RowTypeOK'
    <2>1. \E s \in OutboxStatuses : outbox' = [outbox EXCEPT ![e] = s]
        BY <1>3 DEF ClaimEvent, PublishEvent, MarkPublished, ReclaimEvent, MarkFailure, OutboxStatuses
    <2>2. queue' = queue \/ queue' = queue \cup {e}
        BY <1>3 DEF ClaimEvent, PublishEvent, MarkPublished, ReclaimEvent, MarkFailure
    <2>3. OutboxUnchanged
        BY <1>3 DEF ClaimEvent, PublishEvent, MarkPublished, ReclaimEvent, MarkFailure
    <2> QED
        BY <2>1, <2>2, <2>3 DEF OutboxUnchanged, RowTypeOK
<1> QED
    BY <1>1, <1>2, <1>3 DEF SchedulerNext

\* A run's record stays typed when one step replaces it by another typed record.
LEMMA RunUpdateType ==
    ASSUME WorkerTypeOK, NEW w \in Workers, NEW r \in Runs, run' = [run EXCEPT ![w] = r]
    PROVE  WorkerTypeOK'
BY DEF WorkerTypeOK

LEMMA IdleType == Idle \in Runs
BY DEF Idle, Runs, Steps, Generations, Routes

\* The steps that leave the row, or all of it but the task, alone.
LEMMA OnlyTaskType ==
    ASSUME RowTypeOK, OnlyTask, task' \in TaskRows
    PROVE  RowTypeOK'
BY DEF RowTypeOK, OnlyTask

LEMMA OnlyExecType ==
    ASSUME RowTypeOK, OnlyExec, exec' \in [Attempts -> ExecRows]
    PROVE  RowTypeOK'
BY DEF RowTypeOK, OnlyExec

LEMMA RowUnchangedType ==
    ASSUME RowTypeOK, UNCHANGED rowVars
    PROVE  RowTypeOK'
BY DEF RowTypeOK, rowVars

LEMMA DeliverType ==
    ASSUME RowTypeOK, WorkerTypeOK, NEW w \in Workers, NEW e \in Events, Deliver(w, e)
    PROVE  RowTypeOK' /\ WorkerTypeOK'
<1>1. queue' \subseteq Events /\ inbox' \in [Events -> {"none", "claimed", "done"}]
    BY DEF Deliver, RowTypeOK
<1>2. RowTypeOK'
    BY <1>1 DEF Deliver, RowTypeOK
<1>3. [Idle EXCEPT !.pc = "nack", !.msg = e] \in Runs /\ [Idle EXCEPT !.pc = "claim", !.msg = e] \in Runs
    BY IdleType DEF Runs, Steps
<1>4. UNCHANGED run \/ \E r \in Runs : run' = [run EXCEPT ![w] = r]
    BY <1>3 DEF Deliver
<1>5. WorkerTypeOK'
    BY <1>4 DEF WorkerTypeOK
<1> QED
    BY <1>2, <1>5

LEMMA ClaimType ==
    ASSUME RowTypeOK, WorkerTypeOK, NEW w \in Workers, Claim(w)
    PROVE  RowTypeOK' /\ WorkerTypeOK'
<1>1. run[w] \in Runs /\ "finish" \in Steps /\ "nack" \in Steps /\ "inspect" \in Steps
    BY DEF WorkerTypeOK, Steps
<1>2. CASE /\ CanClaim(Expected(w)) /\ task' = Claimed(w)
           /\ run' = [run EXCEPT ![w] = [@ EXCEPT !.pc = "inspect", !.gen = task'.gen]]
    <2>1. task' \in TaskRows
        BY <1>2, ClaimedType DEF Owners
    <2>2. [run[w] EXCEPT !.pc = "inspect", !.gen = task'.gen] \in Runs
        BY <1>1, <2>1 DEF Runs, TaskRows
    <2>3. WorkerTypeOK'
        BY <1>2, <2>2 DEF WorkerTypeOK
    <2> QED
        BY <2>1, <2>3, OnlyTaskType DEF Claim
<1>3. CASE UNCHANGED task /\ (Goto(w, "finish") \/ Goto(w, "nack"))
    BY <1>1, <1>3, GotoType, OnlyTaskType DEF Claim, RowTypeOK
<1> QED
    BY <1>2, <1>3 DEF Claim

LEMMA InspectType ==
    ASSUME RowTypeOK, WorkerTypeOK, NEW w \in Workers, Inspect(w)
    PROVE  RowTypeOK' /\ WorkerTypeOK'
<1>1. run[w] \in Runs
    BY DEF WorkerTypeOK
<1>2. Resume(w) \in Steps
    BY DEF Resume, Steps
<1>3. attempt \in 0..MaxAttempts /\ (attempt < MaxAttempts => attempt + 1 \in 0..MaxAttempts)
    BY DEF RowTypeOK
<1>4. [run[w] EXCEPT !.pc = Resume(w), !.att = attempt] \in Runs
    BY <1>1, <1>2, <1>3 DEF Runs
<1>5. attempt < MaxAttempts => [run[w] EXCEPT !.pc = "create", !.att = attempt + 1] \in Runs
    BY <1>1, <1>3 DEF Runs, Steps
<1>6. \/ Goto(w, "fail") \/ Goto(w, Resume(w))
      \/ \E r \in Runs : run' = [run EXCEPT ![w] = r]
    BY <1>4, <1>5 DEF Inspect, Settling
<1>7. "fail" \in Steps
    BY DEF Steps
<1>8. WorkerTypeOK'
    BY <1>2, <1>6, <1>7, GotoType, RunUpdateType
<1> QED
    BY <1>8, RowUnchangedType DEF Inspect

LEMMA CreatePreparedType ==
    ASSUME RowTypeOK, WorkerTypeOK, NEW w \in Workers, CreatePrepared(w)
    PROVE  RowTypeOK' /\ WorkerTypeOK'
<1>1. run[w] \in Runs /\ {"claimPrepared", "fail", "relinquish"} \subseteq Steps
    BY DEF WorkerTypeOK, Steps
<1>2. WorkerTypeOK'
    BY <1>1, GotoType DEF CreatePrepared
<1>3. CASE OwnsRow(w) /\ run[w].att = attempt + 1
    <2>1. attempt + 1 \in Attempts /\ attempt + 1 \in 0..MaxAttempts
        BY <1>1, <1>3 DEF Runs, RowTypeOK, Attempts
    <2>2. [status |-> "prepared", gen |-> task.gen, route |-> run[w].route, result |-> FALSE] \in ExecRows
        BY <1>1 DEF RowTypeOK, TaskRows, Runs, ExecRows, ExecStatuses
    <2>3. exec' \in [Attempts -> ExecRows] /\ attempt' \in 0..MaxAttempts
        BY <1>3, <2>1, <2>2 DEF CreatePrepared, RowTypeOK
    <2> QED
        BY <1>2, <2>3 DEF CreatePrepared, RowTypeOK
<1>4. CASE ~(OwnsRow(w) /\ run[w].att = attempt + 1)
    BY <1>2, <1>4 DEF CreatePrepared, RowTypeOK
<1> QED
    BY <1>3, <1>4

LEMMA ClaimPreparedType ==
    ASSUME RowTypeOK, WorkerTypeOK, NEW w \in Workers, ClaimPrepared(w)
    PROVE  RowTypeOK' /\ WorkerTypeOK'
<1>1. run[w] \in Runs /\ {"validate", "fail", "relinquish"} \subseteq Steps /\ "submitting" \in ExecStatuses
    BY DEF WorkerTypeOK, Steps, ExecStatuses
<1>2. attempt \in 0..MaxAttempts
    BY DEF RowTypeOK
<1>3. [run[w] EXCEPT !.pc = "validate", !.att = attempt] \in Runs
    BY <1>1, <1>2 DEF Runs
<1>4. \/ SetExec(attempt, "submitting") /\ run' = [run EXCEPT ![w] = [@ EXCEPT !.pc = "validate", !.att = attempt]]
      \/ UNCHANGED exec /\ (Goto(w, "fail") \/ Goto(w, "relinquish"))
    BY DEF ClaimPrepared
<1>5. WorkerTypeOK'
    BY <1>1, <1>3, <1>4, GotoType, RunUpdateType
<1>6. exec' \in [Attempts -> ExecRows]
    BY <1>1, <1>4, SetExecType DEF RowTypeOK
<1> QED
    BY <1>5, <1>6, OnlyExecType DEF ClaimPrepared

\* The steps around the provider call.
LEMMA CallType ==
    ASSUME RowTypeOK, WorkerTypeOK, NEW w \in Workers,
           \/ ValidateOwnership(w) \/ Submit(w) \/ CallSucceeds(w) \/ CallRejected(w)
           \/ CallAmbiguous(w) \/ MarkUnknown(w) \/ SaveResult(w)
    PROVE  RowTypeOK' /\ WorkerTypeOK'
<1>1. /\ run[w] \in Runs
      /\ {"submit", "relinquish", "calling", "save", "fail", "inspect", "markUnknown", "complete"} \subseteq Steps
      /\ {"failed", "unknown"} \subseteq ExecStatuses
    BY DEF WorkerTypeOK, Steps, ExecStatuses
<1>2. CASE ValidateOwnership(w)
    BY <1>1, <1>2, GotoType, RowUnchangedType DEF ValidateOwnership
<1>3. CASE Submit(w)
    <2>1. WorkerTypeOK'
        BY <1>1, <1>3, GotoType DEF Submit
    <2> QED
        BY <1>3, <2>1 DEF Submit, RowTypeOK
<1>4. CASE CallSucceeds(w)
    BY <1>1, <1>4, GotoType, RowUnchangedType DEF CallSucceeds
<1>5. CASE CallRejected(w)
    <2>1. [run[w] EXCEPT !.pc = "inspect", !.route = "fallback"] \in Runs
        BY <1>1 DEF Runs, Routes
    <2>2. Goto(w, "fail") \/ run' = [run EXCEPT ![w] = [@ EXCEPT !.pc = "inspect", !.route = "fallback"]]
        BY <1>5 DEF CallRejected
    <2>3. WorkerTypeOK'
        BY <1>1, <2>1, <2>2, GotoType, RunUpdateType
    <2>4. SetExec(run[w].att, "failed") \/ UNCHANGED exec
        BY <1>5 DEF CallRejected
    <2>5. exec' \in [Attempts -> ExecRows]
        BY <1>1, <2>4, SetExecType DEF RowTypeOK
    <2> QED
        BY <1>5, <2>3, <2>5, OnlyExecType DEF CallRejected
<1>6. CASE CallAmbiguous(w)
    BY <1>1, <1>6, GotoType, RowUnchangedType DEF CallAmbiguous
<1>7. CASE MarkUnknown(w)
    <2>1. WorkerTypeOK'
        BY <1>1, <1>7, GotoType DEF MarkUnknown
    <2>2. SetExec(run[w].att, "unknown") \/ UNCHANGED exec
        BY <1>7 DEF MarkUnknown
    <2>3. exec' \in [Attempts -> ExecRows]
        BY <1>1, <2>2, SetExecType DEF RowTypeOK
    <2> QED
        BY <1>7, <2>1, <2>3, OnlyExecType DEF MarkUnknown
<1>8. CASE SaveResult(w)
    <2>1. WorkerTypeOK'
        BY <1>1, <1>8, GotoType DEF SaveResult
    <2>2. \A a \in Attempts : [exec[a] EXCEPT !.status = "succeeded", !.result = TRUE] \in ExecRows
        BY ZenonT(40) DEF RowTypeOK, ExecRows, ExecStatuses
    <2>3. exec' \in [Attempts -> ExecRows]
        <3>1. CASE UNCHANGED exec
            BY <3>1 DEF RowTypeOK
        <3>2. CASE exec' = [exec EXCEPT ![run[w].att] = [@ EXCEPT !.status = "succeeded", !.result = TRUE]]
            <4>1. CASE run[w].att \in Attempts
                BY <2>2, <3>2, <4>1 DEF RowTypeOK
            <4>2. CASE run[w].att \notin Attempts
                BY <3>2, <4>2 DEF RowTypeOK
            <4> QED
                BY <4>1, <4>2
        <3> QED
            BY <1>8, <3>1, <3>2 DEF SaveResult
    <2> QED
        BY <1>8, <2>1, <2>3, OnlyExecType DEF SaveResult
<1> QED
    BY <1>2, <1>3, <1>4, <1>5, <1>6, <1>7, <1>8

LEMMA SettleType ==
    ASSUME RowTypeOK, WorkerTypeOK, NEW w \in Workers,
           \/ Complete(w) \/ FailOwned(w) \/ DeadlinePasses(w) \/ ConvergeDeadline(w)
           \/ Relinquish(w) \/ StoreFails(w)
    PROVE  RowTypeOK' /\ WorkerTypeOK'
<1>1. {"finish", "relinquish", "nack", "fail"} \subseteq Steps /\ "FAILED" \in Terminal /\ task \in TaskRows
    BY DEF Steps, Terminal, RowTypeOK
<1>2. CASE Complete(w)
    <2>1. task' \in TaskRows
        BY <1>1, <1>2, CaptureType DEF Complete
    <2>2. WorkerTypeOK'
        BY <1>1, <1>2, GotoType DEF Complete
    <2> QED
        BY <1>2, <2>1, <2>2, OnlyTaskType DEF Complete
<1>3. CASE FailOwned(w)
    <2>1. task' \in TaskRows
        BY <1>1, <1>3, ReleasedType DEF FailOwned
    <2> QED
        BY <1>1, <1>3, <2>1, GotoType, OnlyTaskType DEF FailOwned
<1>4. CASE DeadlinePasses(w)
    BY <1>1, <1>4, GotoType, RowUnchangedType DEF DeadlinePasses
<1>5. CASE ConvergeDeadline(w)
    <2>1. task' \in TaskRows
        BY <1>1, <1>5, ReleasedType DEF ConvergeDeadline
    <2> QED
        BY <1>5, <2>1, OnlyTaskType DEF ConvergeDeadline, WorkerTypeOK
<1>6. CASE Relinquish(w)
    <2>1. task' \in TaskRows
        BY <1>1, <1>6 DEF Relinquish, TaskRows
    <2> QED
        BY <1>1, <1>6, <2>1, GotoType, OnlyTaskType DEF Relinquish
<1>7. CASE StoreFails(w)
    BY <1>1, <1>7, GotoType, RowUnchangedType DEF StoreFails
<1> QED
    BY <1>2, <1>3, <1>4, <1>5, <1>6, <1>7

LEMMA EndOfDeliveryType ==
    ASSUME RowTypeOK, WorkerTypeOK, NEW w \in Workers, Finish(w) \/ Nack(w) \/ Crash(w)
    PROVE  RowTypeOK' /\ WorkerTypeOK'
<1>1. run[w].msg \in Events \cup {NoEvent}
    BY DEF WorkerTypeOK, Runs
<1>2. run' = [run EXCEPT ![w] = Idle]
    BY DEF Finish, Nack, Crash
<1>3. WorkerTypeOK'
    BY <1>2, IdleType, RunUpdateType
<1>4. inbox' \in [Events -> {"none", "claimed", "done"}]
    BY <1>1 DEF Finish, Nack, Crash, RowTypeOK
<1>5. queue' \subseteq Events
    BY <1>1 DEF Finish, Nack, Crash, RowTypeOK
<1> QED
    BY <1>3, <1>4, <1>5 DEF Finish, Nack, Crash, OnlyBroker, RowTypeOK

LEMMA WorkerType ==
    ASSUME RowTypeOK, WorkerTypeOK, WorkerNext
    PROVE  RowTypeOK' /\ WorkerTypeOK'
<1>1. PICK w \in Workers :
          \/ \E e \in Events : Deliver(w, e)
          \/ RunStep(w) \/ DeadlinePasses(w) \/ ConvergeDeadline(w) \/ StoreFails(w) \/ Crash(w)
    BY DEF WorkerNext
<1> QED
    BY <1>1, DeliverType, ClaimType, InspectType, CreatePreparedType, ClaimPreparedType,
       CallType, SettleType, EndOfDeliveryType DEF RunStep

LEMMA WatchdogType ==
    ASSUME TypeOK, WatchdogStep \/ WatchdogCrash
    PROVE  RowTypeOK' /\ WorkerTypeOK' /\ WatchdogTypeOK'
<1>1. /\ RowTypeOK /\ WorkerTypeOK /\ WatchdogTypeOK
      /\ task \in TaskRows /\ "FAILED" \in Terminal
    BY DEF TypeOK, RowTypeOK, Terminal
<1>2. WatchdogIdle \in [pc : WatchdogSteps, obs : Observations]
    BY DEF WatchdogIdle, WatchdogSteps, NoObservation, Observations, Generations
<1>3. UNCHANGED run
    BY DEF WatchdogStep, WatchdogCrash, Observe, InspectExecution, FailStale, FailAfterGrace, Fail,
           RecoverClaim, RecoverComplete, RecoverRelinquish
<1>4. WorkerTypeOK'
    BY <1>1, <1>3 DEF WorkerTypeOK
<1>5. CASE Observe
    <2>1. [gen |-> task.gen, owner |-> task.owner, lease |-> task.lease] \in Observations
        BY <1>1, <1>5 DEF Observe, Live, TaskRows, Observations
    <2>2. WatchdogTypeOK'
        BY <1>5, <2>1 DEF Observe, WatchdogTypeOK, WatchdogSteps
    <2> QED
        BY <1>1, <1>4, <1>5, <2>2, RowUnchangedType DEF Observe
<1>6. CASE InspectExecution \/ WatchdogCrash
    <2>1. WatchdogTypeOK'
        BY <1>1, <1>2, <1>6 DEF InspectExecution, WatchdogCrash, WatchdogTypeOK, WatchdogSteps
    <2> QED
        BY <1>1, <1>4, <1>6, <2>1, RowUnchangedType DEF InspectExecution, WatchdogCrash
<1>7. CASE FailStale \/ FailAfterGrace
    <2>1. task' \in TaskRows
        BY <1>1, <1>7, ReleasedType DEF FailStale, FailAfterGrace, Fail
    <2>2. WatchdogTypeOK'
        BY <1>2, <1>7 DEF FailStale, FailAfterGrace, Fail, WatchdogTypeOK
    <2> QED
        BY <1>1, <1>4, <1>7, <2>1, <2>2, OnlyTaskType DEF FailStale, FailAfterGrace, Fail
<1>8. CASE RecoverClaim
    <2>1. task' \in TaskRows
        BY <1>1, <1>8, ClaimedType DEF RecoverClaim, Owners
    <2>2. [wd EXCEPT !.pc = "complete", !.obs.gen = task'.gen] \in [pc : WatchdogSteps, obs : Observations]
        BY <1>1, <2>1 DEF WatchdogTypeOK, WatchdogSteps, Observations, TaskRows
    <2>3. WatchdogTypeOK'
        BY <1>2, <1>8, <2>2 DEF RecoverClaim, WatchdogTypeOK
    <2> QED
        BY <1>1, <1>4, <1>8, <2>1, <2>3, OnlyTaskType DEF RecoverClaim
<1>9. CASE RecoverComplete \/ RecoverRelinquish
    <2>1. task' \in TaskRows
        BY ZenonT(40), <1>1, <1>9, CaptureType DEF RecoverComplete, RecoverRelinquish, TaskRows
    <2>2. WatchdogTypeOK'
        BY <1>1, <1>2, <1>9 DEF RecoverComplete, RecoverRelinquish, WatchdogTypeOK, WatchdogSteps
    <2> QED
        BY <1>1, <1>4, <1>9, <2>1, <2>2, OnlyTaskType DEF RecoverComplete, RecoverRelinquish
<1> QED
    BY <1>5, <1>6, <1>7, <1>8, <1>9 DEF WatchdogStep

LEMMA OperatorType ==
    ASSUME TypeOK, RecoveryNext
    PROVE  TypeOK'
<1>1. /\ RowTypeOK /\ WorkerTypeOK /\ WatchdogTypeOK /\ RecoveryTypeOK
      /\ task \in TaskRows /\ "FAILED" \in Terminal /\ {"succeeded", "failed"} \subseteq ExecStatuses
    BY DEF TypeOK, RowTypeOK, Terminal, ExecStatuses
<1>2. NoRequest \in Requests
    BY DEF NoRequest, Requests, Generations
<1>3. WorkerTypeOK' /\ WatchdogTypeOK'
    BY <1>1 DEF RecoveryNext, Diagnose, ManualReview, Redrive, ObserveCapture, ResolveCapture, SettleCapture,
                ResolveRelease, ObserveRelease, SettleRelease, Observes, ResolvesUnknown, OthersUnchanged,
                WorkerTypeOK, WatchdogTypeOK
<1>4. CASE Diagnose
    <2>1. RecoveryTypeOK'
        BY <1>1, <1>4 DEF Diagnose, RecoveryTypeOK, Requests, TaskRows, Generations
    <2> QED
        BY <1>1, <1>3, <1>4, <2>1, RowUnchangedType DEF Diagnose, TypeOK
<1>5. CASE ManualReview
    <2>1. task' \in TaskRows
        BY <1>1, <1>5 DEF ManualReview, TaskRows, Statuses, TaskStatuses
    <2> QED
        BY <1>1, <1>2, <1>3, <1>5, <2>1, OnlyTaskType DEF ManualReview, TypeOK, RecoveryTypeOK
<1>6. CASE Redrive
    <2>1. task' \in TaskRows
        BY <1>1, <1>6, NextGeneration DEF Redrive, TaskRows
    <2>2. outbox' \in [Events -> OutboxStatuses]
        BY <1>1, <1>6 DEF Redrive, RowTypeOK, OutboxStatuses, Present
    <2>3. RowTypeOK'
        BY <1>1, <1>6, <2>1, <2>2 DEF Redrive, RowTypeOK
    <2> QED
        BY <1>2, <1>3, <1>6, <2>3 DEF Redrive, TypeOK, RecoveryTypeOK
<1>7. CASE ObserveCapture \/ ObserveRelease
    <2>1. RecoveryTypeOK'
        BY <1>1, <1>7 DEF ObserveCapture, ObserveRelease, Observes, RecoveryTypeOK, Requests, TaskRows
    <2> QED
        BY <1>1, <1>3, <1>7, <2>1, RowUnchangedType DEF ObserveCapture, ObserveRelease, Observes, TypeOK
<1>8. CASE ResolveCapture \/ ResolveRelease
    <2>1. \E to \in ExecStatuses : SetExec(attempt, to) \/ UNCHANGED exec
        BY <1>1, <1>8 DEF ResolveCapture, ResolveRelease, ResolvesUnknown
    <2>2. exec' \in [Attempts -> ExecRows]
        BY <1>1, <2>1, SetExecType DEF RowTypeOK
    <2>3. RecoveryTypeOK'
        BY <1>1, <1>8 DEF ResolveCapture, ResolveRelease, ResolvesUnknown, RecoveryTypeOK, Requests
    <2> QED
        BY <1>1, <1>3, <1>8, <2>2, <2>3, OnlyExecType DEF ResolveCapture, ResolveRelease, ResolvesUnknown, TypeOK
<1>9. CASE SettleCapture \/ SettleRelease
    <2>1. task' \in TaskRows
        BY <1>1, <1>9, CaptureType, ReleasedType DEF SettleCapture, SettleRelease
    <2> QED
        BY <1>1, <1>2, <1>3, <1>9, <2>1, OnlyTaskType DEF SettleCapture, SettleRelease, TypeOK, RecoveryTypeOK
<1> QED
    BY <1>4, <1>5, <1>6, <1>7, <1>8, <1>9 DEF RecoveryNext

LEMMA NextType == TypeOK /\ [Next]_vars => TypeOK'
<1> SUFFICES ASSUME TypeOK, [Next]_vars PROVE TypeOK'
    OBVIOUS
<1> USE DEF TypeOK
<1>1. CASE (Environment \/ SchedulerNext) /\ UNCHANGED <<run, wd, op>>
    <2>1. RowTypeOK'
        BY <1>1, EnvironmentType, SchedulerType
    <2> QED
        BY <1>1, <2>1 DEF WorkerTypeOK, WatchdogTypeOK, RecoveryTypeOK
<1>2. CASE WorkerNext /\ UNCHANGED <<wd, op>>
    BY <1>2, WorkerType DEF WatchdogTypeOK, RecoveryTypeOK
<1>3. CASE (WatchdogStep \/ WatchdogCrash) /\ UNCHANGED op
    BY <1>3, WatchdogType DEF RecoveryTypeOK
<1>4. CASE RecoveryNext
    BY <1>4, OperatorType
<1>5. CASE UNCHANGED vars
    BY <1>5 DEF vars, rowVars, RowTypeOK, WorkerTypeOK, WatchdogTypeOK, RecoveryTypeOK
<1> QED
    BY <1>1, <1>2, <1>3, <1>4, <1>5 DEF Next

\* Every state the system can reach is well typed: all fencing observations,
\* run records and outbox rows stay in the ranges the other results use.
THEOREM TypeCorrect == Spec => []TypeOK
<1>1. Init => TypeOK
    BY InitType
<1>2. TypeOK /\ [Next]_vars => TypeOK'
    BY NextType
<1> QED
    BY <1>1, <1>2, PTL DEF Spec

-----------------------------------------------------------------------------
(* The inductive invariants.                                               *)

Submitters == {"validate", "submit", "calling"}

\* Attempts are used in order, and a prepared attempt was never submitted.
AttemptsInOrder ==
    \A a \in Attempts :
        /\ a > attempt => exec[a].status = "absent" /\ sent[a] = "unsent"
        /\ a <= attempt => exec[a].status # "absent"
        /\ exec[a].status = "prepared" => sent[a] = "unsent"

\* A run works on an attempt that is claimed, and submits what nobody submitted.
RunsKnowTheirAttempt ==
    \A w \in Workers :
        /\ run[w].pc \in Submitters => run[w].att \in 1..attempt /\ exec[run[w].att].status # "prepared"
        /\ run[w].pc \in {"validate", "submit"} => sent[run[w].att] = "unsent"
        /\ run[w].pc = "calling" => sent[run[w].att] # "unsent"

AloneWithAttempt ==
    \A v, w \in Workers :
        v # w /\ run[v].pc \in Submitters /\ run[w].pc \in Submitters => run[v].att # run[w].att

SubmissionInv == AttemptsInOrder /\ RunsKnowTheirAttempt /\ AloneWithAttempt

-----------------------------------------------------------------------------
(* Submission.                                                             *)

\* What Goto does to its run and to the others.
LEMMA GotoEffect ==
    ASSUME WorkerTypeOK, NEW w \in Workers, NEW pc \in Steps, Goto(w, pc)
    PROVE  /\ run'[w].pc = pc
           /\ pc \in {"claimPrepared", "validate", "submit", "calling", "save", "markUnknown"} =>
                 run'[w].att = run[w].att
           /\ \A v \in Workers \ {w} : run'[v] = run[v]
<1>1. run[w] \in Runs
    BY DEF WorkerTypeOK
<1> DEFINE r == [run[w] EXCEPT !.pc = pc]
<1>2. r \in Runs /\ r.pc = pc /\ r.att = run[w].att
    BY <1>1 DEF Runs
<1>3. [r EXCEPT !.att = 0, !.route = "primary"].pc = pc
    BY <1>2 DEF Runs
<1>4. [Idle EXCEPT !.pc = pc, !.msg = r.msg].pc = pc
    BY DEF Idle
<1>5. PICK x : run' = [run EXCEPT ![w] = x] /\ x.pc = pc /\ (pc \notin Settling \cup {"finish", "nack"} => x = r)
    BY ZenonT(40), <1>2, <1>3, <1>4 DEF Goto
<1>6. run'[w] = x /\ \A v \in Workers \ {w} : run'[v] = run[v]
    BY <1>5 DEF WorkerTypeOK
<1> QED
    BY <1>2, <1>5, <1>6 DEF Settling

\* What Goto leaves of a run's record.
LEMMA GotoKeeps ==
    ASSUME WorkerTypeOK, NEW w \in Workers, NEW pc \in Steps, Goto(w, pc)
    PROVE  /\ run'[w].msg = run[w].msg
           /\ pc \notin {"finish", "nack"} => run'[w].gen = run[w].gen
           /\ run'[w].route \in {run[w].route, "primary"}
<1>1. run[w] \in Runs
    BY DEF WorkerTypeOK
<1> DEFINE r == [run[w] EXCEPT !.pc = pc]
           settling == [r EXCEPT !.att = 0, !.route = "primary"]
           ended == [Idle EXCEPT !.pc = pc, !.msg = r.msg]
<1>2. r.msg = run[w].msg /\ r.gen = run[w].gen /\ r.route = run[w].route
    BY <1>1 DEF Runs
<1>3. settling.msg = run[w].msg /\ settling.gen = run[w].gen /\ settling.route = "primary"
    BY <1>1 DEF Runs
<1>4. ended.msg = run[w].msg /\ ended.route = "primary"
    BY <1>2 DEF Idle
<1>5. \/ run' = [run EXCEPT ![w] = r]
      \/ run' = [run EXCEPT ![w] = settling]
      \/ run' = [run EXCEPT ![w] = ended] /\ pc \in {"finish", "nack"}
    <2>1. CASE pc \in Settling
        BY <2>1 DEF Goto, Settling
    <2>2. CASE pc \in {"finish", "nack"}
        BY <2>2 DEF Goto, Settling
    <2>3. CASE pc \notin Settling \cup {"finish", "nack"}
        BY <2>3 DEF Goto
    <2> QED
        BY <2>1, <2>2, <2>3
<1>6. \A x : run' = [run EXCEPT ![w] = x] => run'[w] = x
    BY DEF WorkerTypeOK
<1> HIDE DEF r, settling, ended
<1> QED
    BY <1>2, <1>3, <1>4, <1>5, <1>6

\* The steps that neither begin nor make a submission.
StatusesStay ==
    \A a \in Attempts :
        \/ exec'[a].status = exec[a].status
        \/ exec[a].status \notin {"absent", "prepared"} /\ exec'[a].status \notin {"absent", "prepared"}

RunsStayOrLeave == \A v \in Workers : run'[v] = run[v] \/ run'[v].pc \notin Submitters

Quiet == UNCHANGED <<attempt, sent>> /\ StatusesStay /\ RunsStayOrLeave

LEMMA QuietKeepsSubmission ==
    ASSUME TypeOK, SubmissionInv, Quiet
    PROVE  SubmissionInv'
<1>1. attempt' = attempt /\ sent' = sent /\ attempt \in 0..MaxAttempts
    BY DEF Quiet, TypeOK, RowTypeOK
<1>2. AttemptsInOrder'
    BY <1>1 DEF Quiet, StatusesStay, SubmissionInv, AttemptsInOrder
<1>3. RunsKnowTheirAttempt'
    <2> SUFFICES ASSUME NEW w \in Workers, run'[w].pc \in Submitters
                 PROVE  /\ run'[w].att \in 1..attempt /\ exec'[run'[w].att].status # "prepared"
                        /\ run'[w].pc \in {"validate", "submit"} => sent[run'[w].att] = "unsent"
                        /\ run'[w].pc = "calling" => sent[run'[w].att] # "unsent"
        BY <1>1 DEF RunsKnowTheirAttempt, Submitters
    <2>1. run'[w] = run[w]
        BY DEF Quiet, RunsStayOrLeave
    <2>2. run[w].att \in 1..attempt /\ exec[run[w].att].status # "prepared" /\ run[w].att \in Attempts
        BY <1>1, <2>1 DEF SubmissionInv, RunsKnowTheirAttempt, Attempts
    <2>3. exec'[run[w].att].status # "prepared"
        BY <2>2 DEF Quiet, StatusesStay
    <2> QED
        BY <2>1, <2>2, <2>3 DEF SubmissionInv, RunsKnowTheirAttempt
<1>4. AloneWithAttempt'
    BY DEF Quiet, RunsStayOrLeave, SubmissionInv, AloneWithAttempt
<1> QED
    BY <1>2, <1>3, <1>4 DEF SubmissionInv

LEMMA SetExecStays ==
    ASSUME RowTypeOK, NEW a, NEW to \in ExecStatuses \ {"absent", "prepared"}, SetExec(a, to),
           a \in Attempts => exec[a].status \notin {"absent", "prepared"}
    PROVE  StatusesStay
<1> SUFFICES ASSUME NEW b \in Attempts
             PROVE  \/ exec'[b].status = exec[b].status
                    \/ exec[b].status \notin {"absent", "prepared"} /\ exec'[b].status \notin {"absent", "prepared"}
    BY DEF StatusesStay
<1>1. exec[b] \in ExecRows
    BY DEF RowTypeOK
<1>2. CASE a = b
    <2>1. exec'[b] = [exec[b] EXCEPT !.status = to]
        BY <1>2 DEF SetExec, RowTypeOK
    <2> QED
        BY <1>1, <1>2, <2>1 DEF ExecRows
<1>3. CASE a # b
    BY <1>3 DEF SetExec, RowTypeOK
<1> QED
    BY <1>2, <1>3

\* Two ways in which one run leaves the submission to the others.
LEMMA GotoLeaves ==
    ASSUME WorkerTypeOK, NEW w \in Workers, NEW pc \in Steps \ Submitters, Goto(w, pc)
    PROVE  RunsStayOrLeave
BY GotoEffect DEF RunsStayOrLeave

LEMMA UpdateLeaves ==
    ASSUME WorkerTypeOK, NEW w \in Workers, NEW r, r.pc \notin Submitters, run' = [run EXCEPT ![w] = r]
    PROVE  RunsStayOrLeave
BY DEF RunsStayOrLeave, WorkerTypeOK

LEMMA OutsideIsQuiet ==
    ASSUME TypeOK, UNCHANGED <<attempt, exec, sent, run>>
    PROVE  Quiet
BY DEF Quiet, StatusesStay, RunsStayOrLeave

LEMMA DeliverIsQuiet ==
    ASSUME TypeOK, NEW w \in Workers, NEW e \in Events, Deliver(w, e)
    PROVE  Quiet
<1>1. [Idle EXCEPT !.pc = "nack", !.msg = e].pc = "nack" /\ [Idle EXCEPT !.pc = "claim", !.msg = e].pc = "claim"
    BY DEF Idle
<1>2. UNCHANGED run \/ \E r : r.pc \notin Submitters /\ run' = [run EXCEPT ![w] = r]
    BY <1>1 DEF Deliver, Submitters
<1>3. RunsStayOrLeave
    BY <1>2, UpdateLeaves DEF TypeOK, RunsStayOrLeave
<1> QED
    BY <1>3 DEF Deliver, Quiet, StatusesStay

LEMMA PrepareIsQuiet ==
    ASSUME TypeOK, NEW w \in Workers, Claim(w) \/ Inspect(w)
    PROVE  Quiet
<1>1. WorkerTypeOK /\ run[w] \in Runs
    BY DEF TypeOK, WorkerTypeOK
<1>2. {"finish", "nack", "fail", "relinquish", "complete"} \subseteq Steps \ Submitters
    BY DEF Steps, Submitters
<1>3. CASE Claim(w)
    <2>1. [run[w] EXCEPT !.pc = "inspect", !.gen = task'.gen].pc = "inspect"
        BY <1>1 DEF Runs
    <2>2. \/ Goto(w, "finish") \/ Goto(w, "nack")
          \/ \E r : r.pc \notin Submitters /\ run' = [run EXCEPT ![w] = r]
        BY <1>3, <2>1 DEF Claim, Submitters
    <2>3. RunsStayOrLeave
        BY <1>1, <1>2, <2>2, GotoLeaves, UpdateLeaves
    <2> QED
        BY <1>3, <2>3 DEF Claim, OnlyTask, Quiet, StatusesStay
<1>4. CASE Inspect(w)
    <2>1. Resume(w) \in Steps \ Submitters
        BY DEF Resume, Steps, Submitters
    <2>2. /\ [run[w] EXCEPT !.pc = "create", !.att = attempt + 1].pc = "create"
          /\ [run[w] EXCEPT !.pc = Resume(w), !.att = attempt].pc = Resume(w)
        BY <1>1 DEF Runs
    <2>3. \/ Goto(w, "fail") \/ Goto(w, Resume(w))
          \/ \E r : r.pc \notin Submitters /\ run' = [run EXCEPT ![w] = r]
        BY <1>4, <2>1, <2>2 DEF Inspect, Submitters
    <2>4. RunsStayOrLeave
        BY <1>1, <1>2, <2>1, <2>3, GotoLeaves, UpdateLeaves
    <2> QED
        BY <1>4, <2>4 DEF Inspect, rowVars, Quiet, StatusesStay
<1> QED
    BY <1>3, <1>4

LEMMA AnswerIsQuiet ==
    ASSUME TypeOK, SubmissionInv, NEW w \in Workers,
           CallSucceeds(w) \/ CallRejected(w) \/ CallAmbiguous(w) \/ MarkUnknown(w) \/ SaveResult(w)
    PROVE  Quiet
<1>1. RowTypeOK /\ WorkerTypeOK /\ run[w] \in Runs
    BY DEF TypeOK, WorkerTypeOK
<1>2. {"save", "fail", "markUnknown", "relinquish", "complete"} \subseteq Steps \ Submitters
    BY DEF Steps, Submitters
<1>3. {"failed", "unknown"} \subseteq ExecStatuses \ {"absent", "prepared"}
    BY DEF ExecStatuses
<1>4. CASE CallSucceeds(w)
    BY <1>1, <1>2, <1>4, GotoLeaves DEF CallSucceeds, rowVars, Quiet, StatusesStay
<1>5. CASE CallAmbiguous(w)
    BY <1>1, <1>2, <1>5, GotoLeaves DEF CallAmbiguous, rowVars, Quiet, StatusesStay
<1>6. CASE CallRejected(w)
    <2>1. exec[run[w].att].status \notin {"absent", "prepared"}
        BY <1>1, <1>6 DEF CallRejected, At, SubmissionInv, RunsKnowTheirAttempt, AttemptsInOrder,
                          Submitters, Attempts, RowTypeOK
    <2>2. SetExec(run[w].att, "failed") \/ UNCHANGED exec
        BY <1>6 DEF CallRejected
    <2>3. StatusesStay
        BY <1>1, <1>3, <2>1, <2>2, SetExecStays DEF StatusesStay
    <2>4. [run[w] EXCEPT !.pc = "inspect", !.route = "fallback"].pc = "inspect"
        BY <1>1 DEF Runs
    <2>5. Goto(w, "fail") \/ \E r : r.pc \notin Submitters /\ run' = [run EXCEPT ![w] = r]
        BY <1>6, <2>4 DEF CallRejected, Submitters
    <2>6. RunsStayOrLeave
        BY <1>1, <1>2, <2>5, GotoLeaves, UpdateLeaves
    <2> QED
        BY <1>6, <2>3, <2>6 DEF CallRejected, OnlyExec, Quiet
<1>7. CASE MarkUnknown(w)
    <2>1. UNCHANGED exec \/ (SetExec(run[w].att, "unknown") /\ CanTransition(exec[run[w].att].status, "unknown"))
        BY <1>7 DEF MarkUnknown
    <2>2. StatusesStay
        BY <1>1, <1>3, <2>1, SetExecStays DEF StatusesStay, CanTransition
    <2>3. RunsStayOrLeave
        BY <1>1, <1>2, <1>7, GotoLeaves DEF MarkUnknown
    <2> QED
        BY <1>7, <2>2, <2>3 DEF MarkUnknown, OnlyExec, Quiet
<1>8. CASE SaveResult(w)
    <2>1. RunsStayOrLeave
        BY <1>1, <1>2, <1>8, GotoLeaves DEF SaveResult
    <2>2. ASSUME NEW a \in Attempts
          PROVE  \/ exec'[a].status = exec[a].status
                 \/ exec[a].status \notin {"absent", "prepared"} /\ exec'[a].status \notin {"absent", "prepared"}
        <3>1. exec[a] \in ExecRows
            BY <1>1 DEF RowTypeOK
        <3>2. CASE a = run[w].att
            <4>1. \/ UNCHANGED exec
                  \/ /\ CanTransition(exec[a].status, "succeeded")
                     /\ exec'[a] = [exec[a] EXCEPT !.status = "succeeded", !.result = TRUE]
                BY <1>1, <1>8, <3>2 DEF SaveResult, RowTypeOK
            <4> QED
                BY <3>1, <4>1 DEF CanTransition, ExecRows
        <3>3. CASE a # run[w].att
            BY <1>1, <1>8, <3>3 DEF SaveResult, RowTypeOK
        <3> QED
            BY <3>2, <3>3
    <2> QED
        BY <1>8, <2>1, <2>2 DEF SaveResult, OnlyExec, Quiet, StatusesStay
<1> QED
    BY <1>4, <1>5, <1>6, <1>7, <1>8

LEMMA EndIsQuiet ==
    ASSUME TypeOK, NEW w \in Workers,
           \/ Complete(w) \/ FailOwned(w) \/ DeadlinePasses(w) \/ ConvergeDeadline(w)
           \/ Relinquish(w) \/ StoreFails(w) \/ Finish(w) \/ Nack(w) \/ Crash(w)
    PROVE  Quiet
<1>1. WorkerTypeOK /\ {"finish", "relinquish", "nack", "fail"} \subseteq Steps \ Submitters
    BY DEF TypeOK, Steps, Submitters
<1>2. Idle.pc \notin Submitters
    BY DEF Idle, Submitters
<1>3. UNCHANGED <<attempt, exec, sent>>
    BY DEF Complete, FailOwned, DeadlinePasses, ConvergeDeadline, Relinquish, StoreFails, Finish, Nack, Crash,
           OnlyTask, OnlyBroker, rowVars
<1>4. \/ UNCHANGED run \/ run' = [run EXCEPT ![w] = Idle]
      \/ Goto(w, "finish") \/ Goto(w, "relinquish") \/ Goto(w, "nack") \/ Goto(w, "fail")
    BY DEF Complete, FailOwned, DeadlinePasses, ConvergeDeadline, Relinquish, StoreFails, Finish, Nack, Crash
<1>5. RunsStayOrLeave
    <2>1. CASE UNCHANGED run
        BY <2>1 DEF RunsStayOrLeave
    <2> QED
        BY <1>1, <1>2, <1>4, <2>1, GotoLeaves, UpdateLeaves
<1> QED
    BY <1>3, <1>5 DEF Quiet, StatusesStay

LEMMA OperatorIsQuiet ==
    ASSUME TypeOK, RecoveryNext
    PROVE  Quiet
<1>1. RowTypeOK /\ {"succeeded", "failed"} \subseteq ExecStatuses \ {"absent", "prepared"}
    BY DEF TypeOK, ExecStatuses
<1>2. CASE ResolveCapture \/ ResolveRelease
    <2>1. UNCHANGED <<attempt, sent, run>>
        BY <1>2 DEF ResolveCapture, ResolveRelease, ResolvesUnknown, OnlyExec, OthersUnchanged
    <2>2. \/ UNCHANGED exec
          \/ LatestStatus = "unknown" /\ (SetExec(attempt, "succeeded") \/ SetExec(attempt, "failed"))
        BY <1>2 DEF ResolveCapture, ResolveRelease, ResolvesUnknown
    <2>3. LatestStatus = "unknown" => exec[attempt].status \notin {"absent", "prepared"}
        BY DEF LatestStatus
    <2>4. StatusesStay
        BY <1>1, <2>2, <2>3, SetExecStays DEF StatusesStay
    <2> QED
        BY <2>1, <2>4 DEF Quiet, RunsStayOrLeave
<1>3. CASE ~(ResolveCapture \/ ResolveRelease)
    <2>1. UNCHANGED <<attempt, exec, sent, run>>
        BY <1>3 DEF RecoveryNext, Diagnose, ManualReview, Redrive, ObserveCapture, SettleCapture,
                    ObserveRelease, SettleRelease, Observes, OthersUnchanged, OnlyTask, rowVars
    <2> QED
        BY <2>1, OutsideIsQuiet
<1> QED
    BY <1>2, <1>3

LEMMA WatchdogIsQuiet ==
    ASSUME TypeOK, WatchdogStep \/ WatchdogCrash
    PROVE  Quiet
<1>1. UNCHANGED <<attempt, exec, sent, run>>
    BY DEF WatchdogStep, WatchdogCrash, Observe, InspectExecution, FailStale, FailAfterGrace, Fail,
           RecoverClaim, RecoverComplete, RecoverRelinquish, OnlyTask, rowVars
<1> QED
    BY <1>1, OutsideIsQuiet

\* The steps that begin an attempt, claim it and submit it.
LEMMA CreateKeepsSubmission ==
    ASSUME TypeOK, SubmissionInv, NEW w \in Workers, CreatePrepared(w)
    PROVE  SubmissionInv'
<1>1. /\ RowTypeOK /\ WorkerTypeOK /\ run[w] \in Runs /\ attempt \in 0..MaxAttempts
      /\ {"claimPrepared", "fail", "relinquish"} \subseteq Steps \ Submitters
    BY DEF TypeOK, RowTypeOK, WorkerTypeOK, Steps, Submitters
<1>2. RunsStayOrLeave /\ sent' = sent
    BY <1>1, GotoLeaves DEF CreatePrepared
<1>3. CASE ~(OwnsRow(w) /\ run[w].att = attempt + 1)
    BY <1>2, <1>3, QuietKeepsSubmission DEF CreatePrepared, Quiet, StatusesStay
<1>4. CASE OwnsRow(w) /\ run[w].att = attempt + 1
    <2> DEFINE row == [status |-> "prepared", gen |-> task.gen, route |-> run[w].route, result |-> FALSE]
    <2>1. attempt' = attempt + 1 /\ exec' = [exec EXCEPT ![attempt + 1] = row] /\ attempt + 1 \in Attempts
        BY <1>1, <1>4 DEF CreatePrepared, Runs, Attempts
    <2>2. exec'[attempt + 1].status = "prepared" /\ \A a \in Attempts : a # attempt + 1 => exec'[a] = exec[a]
        BY <1>1, <2>1 DEF RowTypeOK
    <2>3. AttemptsInOrder'
        BY <1>1, <1>2, <2>1, <2>2 DEF SubmissionInv, AttemptsInOrder, Attempts
    <2>4. ASSUME NEW v \in Workers, run'[v].pc \in Submitters
          PROVE  run'[v] = run[v] /\ run[v].att \in 1..attempt /\ run[v].att \in Attempts
        BY <1>1, <1>2, <2>4 DEF RunsStayOrLeave, SubmissionInv, RunsKnowTheirAttempt, Attempts
    <2>5. RunsKnowTheirAttempt'
        BY <1>1, <1>2, <2>1, <2>2, <2>4 DEF SubmissionInv, RunsKnowTheirAttempt, Submitters
    <2>6. AloneWithAttempt'
        BY <2>4 DEF SubmissionInv, AloneWithAttempt
    <2> QED
        BY <2>3, <2>5, <2>6 DEF SubmissionInv
<1> QED
    BY <1>3, <1>4

LEMMA ClaimKeepsSubmission ==
    ASSUME TypeOK, SubmissionInv, NEW w \in Workers, ClaimPrepared(w)
    PROVE  SubmissionInv'
<1>1. /\ RowTypeOK /\ WorkerTypeOK /\ run[w] \in Runs /\ attempt \in 0..MaxAttempts
      /\ {"fail", "relinquish"} \subseteq Steps \ Submitters
    BY DEF TypeOK, RowTypeOK, WorkerTypeOK, Steps, Submitters
<1>2. UNCHANGED <<attempt, sent>>
    BY DEF ClaimPrepared, OnlyExec
<1>3. CASE ~(OwnsRow(w) /\ LatestStatus = "prepared" /\ LatestGen = task.gen)
    <2>1. RunsStayOrLeave /\ UNCHANGED exec
        BY <1>1, <1>3, GotoLeaves DEF ClaimPrepared
    <2> QED
        BY <1>2, <2>1, QuietKeepsSubmission DEF Quiet, StatusesStay
<1>4. CASE OwnsRow(w) /\ LatestStatus = "prepared" /\ LatestGen = task.gen
    <2>1. /\ attempt \in Attempts /\ attempt \in 1..attempt /\ exec[attempt].status = "prepared"
          /\ sent[attempt] = "unsent"
        BY <1>1, <1>4 DEF LatestStatus, Attempts, SubmissionInv, AttemptsInOrder
    <2>2. /\ exec' = [exec EXCEPT ![attempt].status = "submitting"]
          /\ run' = [run EXCEPT ![w] = [@ EXCEPT !.pc = "validate", !.att = attempt]]
        BY <1>4 DEF ClaimPrepared, SetExec
    <2>3. exec[attempt] \in ExecRows
        BY <1>1, <2>1 DEF RowTypeOK
    <2>4. exec'[attempt].status = "submitting" /\ \A a \in Attempts : a # attempt => exec'[a] = exec[a]
        BY <1>1, <2>1, <2>2, <2>3 DEF RowTypeOK, ExecRows
    <2>5. /\ run'[w].pc = "validate" /\ run'[w].att = attempt
          /\ \A v \in Workers \ {w} : run'[v] = run[v]
        BY <1>1, <2>2 DEF WorkerTypeOK, Runs
    <2>6. ASSUME NEW v \in Workers \ {w}, run[v].pc \in Submitters
          PROVE  run[v].att \in Attempts /\ run[v].att # attempt
        BY <1>1, <2>1, <2>6 DEF SubmissionInv, RunsKnowTheirAttempt, Attempts
    <2>7. AttemptsInOrder'
        BY <1>1, <1>2, <2>1, <2>4 DEF SubmissionInv, AttemptsInOrder
    <2>8. RunsKnowTheirAttempt'
        BY <1>2, <2>1, <2>4, <2>5, <2>6 DEF SubmissionInv, RunsKnowTheirAttempt, Submitters
    <2>9. AloneWithAttempt'
        BY <2>5, <2>6 DEF SubmissionInv, AloneWithAttempt
    <2> QED
        BY <2>7, <2>8, <2>9 DEF SubmissionInv
<1> QED
    BY <1>3, <1>4

LEMMA SubmitKeepsSubmission ==
    ASSUME TypeOK, SubmissionInv, NEW w \in Workers, ValidateOwnership(w) \/ Submit(w)
    PROVE  SubmissionInv'
<1>1. /\ RowTypeOK /\ WorkerTypeOK /\ run[w] \in Runs /\ attempt \in 0..MaxAttempts
      /\ {"submit", "calling", "relinquish"} \subseteq Steps /\ "relinquish" \notin Submitters
    BY DEF TypeOK, RowTypeOK, WorkerTypeOK, Steps, Submitters
<1>2. run[w].pc \in {"validate", "submit"} /\ run[w].pc \in Submitters
    BY DEF ValidateOwnership, Submit, At, Submitters
<1>3. run[w].att \in 1..attempt /\ run[w].att \in Attempts /\ exec[run[w].att].status # "prepared"
    BY <1>1, <1>2 DEF SubmissionInv, RunsKnowTheirAttempt, Attempts
<1>4. CASE ValidateOwnership(w)
    <2>1. UNCHANGED <<attempt, exec, sent>>
        BY <1>4 DEF ValidateOwnership, rowVars
    <2>2. CASE Goto(w, "relinquish")
        BY <1>1, <2>1, <2>2, GotoLeaves, QuietKeepsSubmission DEF Quiet, StatusesStay
    <2>3. CASE Goto(w, "submit")
        <3>1. /\ run'[w].pc = "submit" /\ run'[w].att = run[w].att
              /\ \A v \in Workers \ {w} : run'[v] = run[v]
            BY <1>1, <2>3, GotoEffect
        <3>2. AttemptsInOrder'
            BY <2>1 DEF SubmissionInv, AttemptsInOrder
        <3>3. RunsKnowTheirAttempt'
            BY <1>2, <1>3, <2>1, <3>1 DEF SubmissionInv, RunsKnowTheirAttempt
        <3>4. AloneWithAttempt'
            BY <1>2, <3>1 DEF SubmissionInv, AloneWithAttempt
        <3> QED
            BY <3>2, <3>3, <3>4 DEF SubmissionInv
    <2> QED
        BY <1>4, <2>2, <2>3 DEF ValidateOwnership
<1>5. CASE Submit(w)
    <2>1. UNCHANGED <<attempt, exec>> /\ sent' = [sent EXCEPT ![run[w].att] = "sent"]
        BY <1>5 DEF Submit
    <2>2. /\ run'[w].pc = "calling" /\ run'[w].att = run[w].att
          /\ \A v \in Workers \ {w} : run'[v] = run[v]
        BY <1>1, <1>5, GotoEffect DEF Submit
    <2>3. sent'[run[w].att] = "sent" /\ \A a \in Attempts : a # run[w].att => sent'[a] = sent[a]
        BY <1>1, <1>3, <2>1 DEF RowTypeOK
    <2>4. AttemptsInOrder'
        BY <1>1, <1>3, <2>1, <2>3 DEF SubmissionInv, AttemptsInOrder
    <2>5. ASSUME NEW v \in Workers \ {w}, run[v].pc \in Submitters
          PROVE  run[v].att \in Attempts /\ run[v].att # run[w].att
        BY <1>1, <1>2, <2>5 DEF SubmissionInv, RunsKnowTheirAttempt, AloneWithAttempt, Attempts
    <2>6. RunsKnowTheirAttempt'
        BY <1>3, <2>1, <2>2, <2>3, <2>5 DEF SubmissionInv, RunsKnowTheirAttempt, Submitters
    <2>7. AloneWithAttempt'
        BY <1>2, <2>2, <2>5 DEF SubmissionInv, AloneWithAttempt
    <2> QED
        BY <2>4, <2>6, <2>7 DEF SubmissionInv
<1> QED
    BY <1>4, <1>5

LEMMA ProviderKeepsSubmission ==
    ASSUME TypeOK, SubmissionInv, UNCHANGED run, NEW a \in Attempts, ProviderDecides(a)
    PROVE  SubmissionInv'
<1>1. UNCHANGED <<attempt, exec>> /\ sent[a] = "sent" /\ sent \in [Attempts -> {"unsent", "sent", "rendered", "rejected"}]
    BY DEF ProviderDecides, TypeOK, RowTypeOK
<1>2. \A b \in Attempts : sent'[b] = "unsent" <=> sent[b] = "unsent"
    BY <1>1 DEF ProviderDecides
<1>3. AttemptsInOrder'
    BY <1>1, <1>2 DEF SubmissionInv, AttemptsInOrder
<1>4. \A w \in Workers : run[w].pc \in Submitters => run[w].att \in Attempts
    BY DEF SubmissionInv, RunsKnowTheirAttempt, TypeOK, RowTypeOK, Attempts
<1>5. RunsKnowTheirAttempt'
    BY <1>1, <1>2, <1>4 DEF SubmissionInv, RunsKnowTheirAttempt, Submitters
<1>6. AloneWithAttempt'
    BY DEF SubmissionInv, AloneWithAttempt
<1> QED
    BY <1>3, <1>5, <1>6 DEF SubmissionInv

LEMMA NextKeepsSubmission == TypeOK /\ SubmissionInv /\ [Next]_vars => SubmissionInv'
<1> SUFFICES ASSUME TypeOK, SubmissionInv, [Next]_vars PROVE SubmissionInv'
    OBVIOUS
<1>1. CASE Environment /\ UNCHANGED <<run, wd, op>>
    <2>1. CASE LeaseExpires \/ Cancel
        BY <1>1, <2>1, OutsideIsQuiet, QuietKeepsSubmission DEF LeaseExpires, Cancel
    <2>2. CASE \E a \in Attempts : ProviderDecides(a)
        BY <1>1, <2>2, ProviderKeepsSubmission
    <2> QED
        BY <1>1, <2>1, <2>2 DEF Environment
<1>2. CASE SchedulerNext /\ UNCHANGED <<run, wd, op>>
    BY <1>2, OutsideIsQuiet, QuietKeepsSubmission
       DEF SchedulerNext, Dispatch, RecoverStale, ClaimEvent, PublishEvent, MarkPublished, ReclaimEvent,
           MarkFailure, OutboxUnchanged
<1>3. CASE WorkerNext
    <2>1. PICK w \in Workers :
              \/ \E e \in Events : Deliver(w, e)
              \/ RunStep(w) \/ DeadlinePasses(w) \/ ConvergeDeadline(w) \/ StoreFails(w) \/ Crash(w)
        BY <1>3 DEF WorkerNext
    <2> QED
        BY <2>1, DeliverIsQuiet, PrepareIsQuiet, AnswerIsQuiet, EndIsQuiet, QuietKeepsSubmission,
           CreateKeepsSubmission, ClaimKeepsSubmission, SubmitKeepsSubmission DEF RunStep
<1>4. CASE WatchdogStep \/ WatchdogCrash
    BY <1>4, WatchdogIsQuiet, QuietKeepsSubmission
<1>5. CASE RecoveryNext
    BY <1>5, OperatorIsQuiet, QuietKeepsSubmission
<1>6. CASE UNCHANGED vars
    BY <1>6, OutsideIsQuiet, QuietKeepsSubmission DEF vars, rowVars
<1> QED
    BY <1>1, <1>2, <1>3, <1>4, <1>5, <1>6 DEF Next

\* No run is under way, but for the one the direct path starts.
LEMMA InitRuns == ASSUME Init PROVE \A w \in Workers : run[w].pc \in {"idle", "claim"}
<1>1. Idle.pc = "idle" /\ [Idle EXCEPT !.pc = "claim"].pc = "claim"
    BY DEF Idle
<1> QED
    BY <1>1 DEF Init, WorkerInit

LEMMA InitSubmission == Init => SubmissionInv
<1> SUFFICES ASSUME Init PROVE SubmissionInv
    OBVIOUS
<1>1. AttemptsInOrder
    BY DEF Init, RowInit, AbsentExec, AttemptsInOrder, Attempts
<1>2. \A w \in Workers : run[w].pc \notin Submitters
    BY InitRuns DEF Submitters
<1>3. RunsKnowTheirAttempt
    BY <1>2 DEF RunsKnowTheirAttempt, Submitters
<1> QED
    BY <1>1, <1>2, <1>3 DEF SubmissionInv, AloneWithAttempt

LEMMA SubmissionInvariant == Spec => [](TypeOK /\ SubmissionInv)
<1>1. Init => TypeOK /\ SubmissionInv
    BY InitType, InitSubmission
<1>2. TypeOK /\ SubmissionInv /\ [Next]_vars => (TypeOK /\ SubmissionInv)'
    BY NextType, NextKeepsSubmission
<1> QED
    BY <1>1, <1>2, PTL DEF Spec

\* Between claiming an attempt and the provider's answer a run is alone with
\* it, and it submits what nobody submitted, for every number of runs and
\* whatever expires, crashes or is redelivered.
THEOREM RunsSubmitAlone == Spec => []SoleSubmitter
<1>1. SubmissionInv => SoleSubmitter
    BY DEF SubmissionInv, RunsKnowTheirAttempt, AloneWithAttempt, Submitters, SoleSubmitter, At
<1> QED
    BY <1>1, SubmissionInvariant, PTL

-----------------------------------------------------------------------------
(* What the provider did.                                                  *)

\* Only a submission and the provider change what the provider did.
LEMMA SentSteps ==
    ASSUME [Next]_vars
    PROVE  \/ UNCHANGED sent
           \/ \E w \in Workers : Submit(w)
           \/ \E a \in Attempts : ProviderDecides(a)
BY ZenonT(40) DEF Next, Environment, LeaseExpires, Cancel, SchedulerNext, Dispatch, RecoverStale, ClaimEvent,
       PublishEvent, MarkPublished, ReclaimEvent, MarkFailure, OutboxUnchanged, WorkerNext, RunStep,
       Deliver, Claim, Inspect, CreatePrepared, ClaimPrepared, ValidateOwnership, CallSucceeds,
       CallRejected, CallAmbiguous, MarkUnknown, SaveResult, Complete, FailOwned, DeadlinePasses,
       ConvergeDeadline, Relinquish, StoreFails, Finish, Nack, Crash, WatchdogStep, WatchdogCrash,
       Observe, InspectExecution, FailStale, FailAfterGrace, Fail, RecoverClaim, RecoverComplete,
       RecoverRelinquish, RecoveryNext, Diagnose, ManualReview, Redrive, ObserveCapture, ResolveCapture,
       SettleCapture, ResolveRelease, ObserveRelease, SettleRelease, Observes, ResolvesUnknown,
       OnlyTask, OnlyExec, OnlyBroker, rowVars, vars

\* What was rendered stays rendered.
LEMMA RenderedStays ==
    ASSUME TypeOK, SubmissionInv, [Next]_vars, NEW a \in Attempts, sent[a] = "rendered"
    PROVE  sent'[a] = "rendered"
<1>1. ASSUME NEW w \in Workers, Submit(w) PROVE sent'[a] = "rendered"
    <2>1. sent[run[w].att] = "unsent"
        BY <1>1 DEF Submit, At, SubmissionInv, RunsKnowTheirAttempt
    <2> QED
        BY <1>1, <2>1 DEF Submit, TypeOK, RowTypeOK
<1>2. ASSUME NEW b \in Attempts, ProviderDecides(b) PROVE sent'[a] = "rendered"
    BY <1>2 DEF ProviderDecides, TypeOK, RowTypeOK
<1> QED
    BY <1>1, <1>2, SentSteps

=============================================================================
