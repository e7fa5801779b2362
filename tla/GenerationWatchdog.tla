------------------------- MODULE GenerationWatchdog -------------------------
(***************************************************************************)
(* repairStaleGenerationTasksWithContext: the watchdog of an API process.  *)
(* It observes the fencing columns, then the latest execution, and acts on *)
(* both observations later, in a transaction that checks the row again.    *)
(***************************************************************************)
EXTENDS GenerationWorker

VARIABLE wd     \* the watchdog's step and its fencing observation

Observations == [gen : Generations, owner : Owners \cup {NoOwner}, lease : {"none", "expired"}]
WatchdogSteps == {"idle", "inspect", "fail", "grace", "recover", "complete", "relinquish"}

WatchdogTypeOK == wd \in [pc : WatchdogSteps, obs : Observations]

NoObservation == [gen |-> 0, owner |-> NoOwner, lease |-> "none"]
WatchdogIdle  == [pc |-> "idle", obs |-> NoObservation]
WatchdogInit  == wd = WatchdogIdle

\* A running task old enough whose lease is absent or expired.
Observe ==
    /\ "watchdog" \in Actors
    /\ wd.pc = "idle"
    /\ Running /\ ~Live
    /\ wd' = [pc |-> "inspect", obs |-> [gen |-> task.gen, owner |-> task.owner, lease |-> task.lease]]
    /\ UNCHANGED <<rowVars, run>>

\* The unknown grace (45 minutes) outlasts the deadline (12 minutes) of every
\* run that worked on the attempt.
GraceElapsed == \A w \in Workers : run[w].pc = "idle" \/ run[w].att # attempt

\* Mutant of GraceEligible: an unknown outcome is never given up.
GraceNever == FALSE

\* unknownExecutionEligibleForGraceTx
GraceEligible == LatestStatus = "unknown" /\ ~exec[attempt].result /\ GraceElapsed

\* What the watchdog decides from the latest execution; the others it skips.
InspectExecution ==
    /\ wd.pc = "inspect"
    /\ wd' = CASE LatestStatus \in {"absent", "failed"}                    -> [wd EXCEPT !.pc = "fail"]
               [] GraceEligible                                             -> [wd EXCEPT !.pc = "grace"]
               [] LatestStatus = "succeeded" /\ exec[attempt].result
                     /\ LatestGen = wd.obs.gen                              -> [wd EXCEPT !.pc = "recover"]
               [] OTHER                                                     -> WatchdogIdle
    /\ UNCHANGED <<rowVars, run>>

\* failGenerationTaskForWatchdog: generation, owner, lease and execution are
\* checked again under the row lock.
Fail(pc, eligible) ==
    /\ wd.pc = pc
    /\ task' = IF eligible /\ ReaperMatches(wd.obs) THEN Released(task, "FAILED") ELSE task
    /\ wd' = WatchdogIdle
    /\ UNCHANGED run /\ OnlyTask

FailStale == Fail("fail", ~ProviderBlocksFailure)
FailAfterGrace == Fail("grace", GraceEligible)

\* claimImageRecoveryOwnership of recoverSucceededGenerationTask
RecoverClaim ==
    /\ wd.pc = "recover"
    /\ IF ReaperMatches(wd.obs) /\ CanClaim(wd.obs.gen)
       THEN task' = Claimed(Reaper) /\ wd' = [wd EXCEPT !.pc = "complete", !.obs.gen = task'.gen]
       ELSE UNCHANGED task /\ wd' = WatchdogIdle
    /\ UNCHANGED run /\ OnlyTask

\* Audit, storage and completion from the durable manifest; no provider call.
RecoverComplete ==
    /\ wd.pc = "complete"
    /\ \/ Owns(Reaper, wd.obs.gen) /\ Capture /\ wd' = WatchdogIdle
       \/ task.gen = wd.obs.gen /\ task.status \in Terminal /\ UNCHANGED task /\ wd' = WatchdogIdle
       \/ /\ ~Owns(Reaper, wd.obs.gen) \/ "database" \in Faults
          /\ ~(task.gen = wd.obs.gen /\ task.status \in Terminal)
          /\ UNCHANGED task /\ wd' = [wd EXCEPT !.pc = "relinquish"]
    /\ UNCHANGED run /\ OnlyTask

RecoverRelinquish ==
    /\ wd.pc = "relinquish"
    /\ task' = IF task.gen = wd.obs.gen /\ task.owner = Reaper
               THEN [task EXCEPT !.owner = NoOwner, !.lease = "expired"] ELSE task
    /\ wd' = WatchdogIdle
    /\ UNCHANGED run /\ OnlyTask

WatchdogCrash ==
    /\ "crash" \in Faults
    /\ wd.pc # "idle"
    /\ wd' = WatchdogIdle
    /\ UNCHANGED <<rowVars, run>>

WatchdogStep ==
    \/ Observe \/ InspectExecution \/ FailStale \/ FailAfterGrace
    \/ RecoverClaim \/ RecoverComplete \/ RecoverRelinquish

=============================================================================
