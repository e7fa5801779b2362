--------------------------- MODULE GenerationRow ---------------------------
(***************************************************************************)
(* The durable state of ONE image generation task, and the row-locked      *)
(* database transactions every actor goes through: the xz_generation_tasks *)
(* row with its fencing columns, its provider_executions, its outbox       *)
(* events, broker messages and inbox markers.  The actors live in          *)
(* GenerationWorker, GenerationScheduler, GenerationWatchdog and           *)
(* GenerationRecovery; Generation composes them.                           *)
(*                                                                         *)
(* Time is abstracted: a lease is none, live or expired.                   *)
(***************************************************************************)
EXTENDS Naturals

CONSTANTS
    Workers,        \* run slots of the API and worker processes
    Scheduler,      \* owner identity of the fair scheduler
    Reaper,         \* owner identity the watchdog allocates for a recovery
    NoOwner,        \* worker_id IS NULL
    Mode,           \* how tasks are dispatched: "fair", "canary" or "direct"
    Actors,         \* who besides the runs, scheduler and publisher is at work
    Faults,         \* faults the environment may inject
    MaxGen,         \* bound on execution_generation
    MaxAttempts,    \* bound on provider_executions.attempt
    MaxReconciles   \* bound on _generation_reconcile_sequence

ASSUME OwnersDistinct ==
    /\ Scheduler \notin Workers /\ Reaper \notin Workers /\ NoOwner \notin Workers
    /\ Scheduler # Reaper /\ Scheduler # NoOwner /\ Reaper # NoOwner

ASSUME BoundsAssumption ==
    /\ MaxGen \in Nat /\ MaxGen >= 1
    /\ MaxAttempts \in Nat /\ MaxAttempts >= 1
    /\ MaxReconciles \in Nat
    /\ Mode \in {"fair", "canary", "direct"}
    /\ Actors \subseteq {"user", "watchdog", "operator"}
    /\ Faults \subseteq {"crash", "publisher", "broker", "database", "deadline", "stall"}

VARIABLES
    task,      \* the xz_generation_tasks row
    attempt,   \* highest provider_executions.attempt, 0 when there is none
    exec,      \* exec[a]: the provider_executions row of attempt a <= attempt
    sent,      \* sent[a]: what the provider itself did with operation key a
    outbox,    \* outbox_events rows of the task
    queue,     \* events the broker still has to deliver
    inbox      \* consumer_inbox markers

rowVars == <<task, attempt, exec, sent, outbox, queue, inbox>>

Owners     == Workers \cup {Scheduler, Reaper}
Attempts   == 1..MaxAttempts
Generations == 0..MaxGen

\* generation.image.requested:<id> carries no generation: [gen |-> 0].
\* generation.dispatched:<id>:<gen> has seq 0, generation.reconcile:<id>:<gen>:<seq> has seq > 0.
Events   == [gen : Generations, seq : 0..MaxReconciles]
Requested == [gen |-> 0, seq |-> 0]
NoEvent  == [gen |-> MaxGen + 1, seq |-> 0]   \* a run that no message started

Terminal == {"SUCCEEDED", "FAILED", "CANCELLED"}
Statuses == Terminal \cup {"PROCESSING", "MANUAL_REVIEW"}
TaskStatuses == Statuses \cup {"QUEUED", "DISPATCHING", "RUNNING"}
\* An image provider answers synchronously and has no Get, so an image
\* execution is never submitted or processing.
ExecStatuses == {"absent", "prepared", "submitting", "unknown", "succeeded", "failed"}
Routes == {"primary", "fallback"}
\* "virgin" is a pending event nobody claimed yet; "retry" is pending again after a failed publish.
OutboxStatuses == {"absent", "virgin", "publishing", "confirmed", "published", "retry", "failed"}

TaskRows == [status : Statuses, taskStatus : TaskStatuses, gen : Generations \ {0},
             owner : Owners \cup {NoOwner}, lease : {"none", "live", "expired"},
             reconcile : 0..MaxReconciles, billing : {"RESERVED", "CAPTURED", "RELEASED"}]
ExecRows == [status : ExecStatuses, gen : Generations, route : Routes, result : BOOLEAN]
AbsentExec == [status |-> "absent", gen |-> 0, route |-> "primary", result |-> FALSE]

RowTypeOK ==
    /\ task \in TaskRows
    /\ attempt \in 0..MaxAttempts
    /\ exec \in [Attempts -> ExecRows]
    /\ sent \in [Attempts -> {"unsent", "sent", "rendered", "rejected"}]
    /\ outbox \in [Events -> OutboxStatuses]
    /\ queue \subseteq Events
    /\ inbox \in [Events -> {"none", "claimed", "done"}]

\* The reservation is taken and the row inserted in one transaction; only the
\* canary path also inserts an event, unless the user is at the concurrency
\* cap, and only the direct path starts at once.
RowInit ==
    /\ task = [status |-> "PROCESSING", taskStatus |-> "QUEUED", gen |-> 1, owner |-> NoOwner,
               lease |-> "none", reconcile |-> 0, billing |-> "RESERVED"]
    /\ attempt = 0
    /\ exec = [a \in Attempts |-> AbsentExec]
    /\ sent = [a \in Attempts |-> "unsent"]
    /\ \E announced \in IF Mode = "canary" THEN BOOLEAN ELSE {FALSE} :
          outbox = [e \in Events |-> IF announced /\ e = Requested THEN "virgin" ELSE "absent"]
    /\ queue = {}
    /\ inbox = [e \in Events |-> "none"]

-----------------------------------------------------------------------------
(* Predicates of the row-locked transactions.                              *)

Running == task.status = "PROCESSING"

Present == {e \in Events : outbox[e] # "absent"}
\* ORDER BY created_at DESC: events of a task are inserted in (gen, seq) order.
IsLatest(e) ==
    /\ e \in Present
    /\ \A f \in Present : f.gen < e.gen \/ (f.gen = e.gen /\ f.seq <= e.seq)

LatestStatus == IF attempt = 0 THEN "absent" ELSE exec[attempt].status
LatestGen    == IF attempt = 0 THEN 0 ELSE exec[attempt].gen

Live == task.lease = "live"

\* providerexecution.verifyGenerationOwnership: the presented claim still owns the row.
Owns(o, g) ==
    /\ Running
    /\ task.taskStatus = "RUNNING"
    /\ task.gen = g
    /\ task.owner = o
    /\ Live

\* Mutant of ClaimKeepsGeneration: every claim bumps, as for a task without execution.
ClaimAlwaysBumps == FALSE

\* validateGenerationClaim for an image task; expected = 0 when the caller has no dispatch generation.
ClaimAllowed(expected) ==
    /\ expected <= task.gen
    /\ \/ /\ task.taskStatus = "DISPATCHING"
          /\ expected > 0
          /\ expected = task.gen
          /\ task.owner = Scheduler
       \/ /\ task.taskStatus \in {"RUNNING", "QUEUED"}
          /\ ~(Live /\ task.owner # NoOwner)
          /\ task.taskStatus = "QUEUED" /\ expected > 0 => expected = task.gen

\* An execution that has not failed keeps its generation and must match it.
ClaimKeepsGeneration == LatestStatus \notin {"absent", "failed"}

CanClaim(expected) ==
    /\ Running
    /\ ClaimAllowed(expected)
    /\ IF ClaimKeepsGeneration THEN LatestGen = task.gen ELSE task.gen < MaxGen

\* Mutant of Claimed: the legacy status column follows task_status.
ClaimedInStatus(o) ==
    [task EXCEPT !.gen = IF ClaimKeepsGeneration THEN @ ELSE @ + 1, !.status = "RUNNING",
                 !.taskStatus = "RUNNING", !.owner = o, !.lease = "live"]

Claimed(o) ==
    [task EXCEPT !.gen = IF ClaimKeepsGeneration THEN @ ELSE @ + 1,
                 !.taskStatus = "RUNNING", !.owner = o, !.lease = "live"]

\* completeGenerationTaskOwned: capture the reservation with the artifacts.
Capture == task' = [task EXCEPT !.status = "SUCCEEDED", !.taskStatus = "SUCCEEDED",
                                !.billing = "CAPTURED"]

\* Mutant of Released: only a failure gives the points back.
ReleasedOnFailure(row, final) ==
    [row EXCEPT !.status = final, !.taskStatus = final,
                !.billing = IF @ = "RESERVED" /\ final = "FAILED" THEN "RELEASED" ELSE @]

\* mutatePostgresGenerationFailureTx and failGenerationTaskDurableChecked:
\* release whatever is still reserved with the terminal status.
Released(row, final) ==
    [row EXCEPT !.status = final, !.taskStatus = final,
                !.billing = IF @ = "RESERVED" THEN "RELEASED" ELSE @]

\* Mutant of ProviderBlocksFailure: only work in flight blocks a local failure.
ProviderBlocksInFlight == LatestStatus \in {"prepared", "submitting", "unknown"}

\* providerExecutionBlocksLocalFailureTx
ProviderBlocksFailure == LatestStatus \in {"prepared", "submitting", "unknown", "succeeded"}

\* Mutant of ReaperMatches: fenced by the generation alone.
ReaperMatchesGeneration(obs) == task.gen = obs.gen /\ Running

\* assertGenerationReaperTx against an observation [gen, owner, lease]: lease
\* instants are abstracted to their class.
ReaperMatches(obs) ==
    /\ task.gen = obs.gen /\ task.owner = obs.owner /\ task.lease = obs.lease
    /\ ~Live
    /\ Running
    /\ task.taskStatus \in {"QUEUED", "RUNNING", "DISPATCHING"}

\* CanTransition on the statuses an image execution takes.
CanTransition(from, to) ==
    \/ from = to
    \/ from = "prepared" /\ to \in {"submitting", "failed"}
    \/ from \in {"submitting", "unknown"} /\ to \in {"succeeded", "failed"}
    \/ from = "submitting" /\ to = "unknown"

SetExec(a, to) == exec' = [exec EXCEPT ![a].status = to]

-----------------------------------------------------------------------------
(* Environment: time, the provider, and the user.                          *)

\* now() passes lease_until; a heartbeat only keeps a live lease live.
LeaseExpires ==
    /\ Live
    /\ task' = [task EXCEPT !.lease = "expired"]
    /\ UNCHANGED <<attempt, exec, sent, outbox, queue, inbox>>

\* The provider carries out, or refuses before any work, a submission it received.
ProviderDecides(a) ==
    /\ sent[a] = "sent"
    /\ \/ sent' = [sent EXCEPT ![a] = "rendered"]
       \/ a < MaxAttempts /\ sent' = [sent EXCEPT ![a] = "rejected"]
    /\ UNCHANGED <<task, attempt, exec, outbox, queue, inbox>>

\* CancelGenerationTaskForUser
Cancel ==
    /\ "user" \in Actors
    /\ Running
    /\ ~ProviderBlocksFailure
    /\ task.gen < MaxGen
    /\ task' = Released([task EXCEPT !.gen = @ + 1, !.owner = NoOwner, !.lease = "none"], "CANCELLED")
    /\ UNCHANGED <<attempt, exec, sent, outbox, queue, inbox>>

=============================================================================
