------------------------------ MODULE RefundSaga ------------------------------
(* The refund of an operation center's service order.  A first transaction    *)
(* revokes the center and reverses its rewards, the provider is called with   *)
(* no transaction open, a second one records its answer.  Schedulers retry    *)
(* what failed and verify what is unknown, administrators start and repeat a  *)
(* refund, and what the channel cannot do is paid back by hand.               *)
EXTENDS ReferralReward

CONSTANTS Retriers, Verifiers, Administrators,   \* who drives a refund
          Group,             \* their transaction groups: a worker name, a request's key
          MaxAttempts,       \* calls before a retry gives up
          MaxChecks,         \* queries before a verification gives up
          MaxClicks          \* bound: refunds administrators start or repeat

Drivers == Retriers \cup Verifiers \cup Administrators

SagaAssumption ==
    /\ DOMAIN Group = Drivers
    /\ MaxAttempts \in Nat \ {0} /\ MaxChecks \in Nat \ {0} /\ MaxClicks \in Nat

VARIABLES service,           \* xz_operation_center_service_orders: status
          shown,             \* its refund_status, what everybody sees
          task,              \* xz_operation_center_refund_tasks
          provider,          \* the refund as the provider has it, under its one number
          byHand,            \* orders whose money was paid back by hand
          run,               \* what a driver does
          late,              \* history: a lease ended before its answer was recorded
          clicks             \* bound

sagaVars == <<service, shown, task, provider, byHand, run, late, clicks>>
vars == <<rewardVars, sagaVars>>

NoTask == [status |-> "NONE", owner |-> None, live |-> FALSE, waiting |-> FALSE,
           aged |-> FALSE, attempts |-> 0, checks |-> 0]
Idle == [at |-> "idle", on |-> None, answer |-> None]

Init ==
    /\ RewardInit
    /\ service = [o \in Orders |-> "PENDING_PAYMENT"]
    /\ shown = [o \in Orders |-> "NONE"]
    /\ task = [o \in Orders |-> NoTask]
    /\ provider = [o \in Orders |-> "none"]
    /\ byHand = {}
    /\ run = [d \in Drivers |-> Idle]
    /\ late = {}
    /\ clicks = 0

Least(a, b) == IF a < b THEN a ELSE b

At(d, at, o, answer) == run' = [run EXCEPT ![d] = [at |-> at, on |-> o, answer |-> answer]]
Rest(d) == run' = [run EXCEPT ![d] = Idle]
On(d, at, o) == run[d].at = at /\ run[d].on = o

-----------------------------------------------------------------------------
(* The service order.                                                        *)

RecordPaymentSucceeded(o) ==
    /\ service[o] = "PENDING_PAYMENT"
    /\ service' = [service EXCEPT ![o] = "REVIEW_REQUIRED"]
    /\ UNCHANGED <<rewardVars, shown, task, provider, byHand, run, late, clicks>>

\* The activation grants the rewards of the referral, if there is one.
Approve(o) ==
    /\ service[o] = "REVIEW_REQUIRED" /\ shown[o] = "NONE"
    /\ service' = [service EXCEPT ![o] = "ACTIVE"]
    /\ Grant(o) \/ UNCHANGED <<reward, release, wallet>>
    /\ UNCHANGED <<thawed, commission, job, shown, task, provider, byHand, run, late, clicks>>

NewTask(o) ==
    /\ task' = [task EXCEPT ![o] = [NoTask EXCEPT !.status = "PENDING"]]
    /\ shown' = [shown EXCEPT ![o] = "PENDING"]

Reject(o) ==
    /\ service[o] = "REVIEW_REQUIRED" /\ shown[o] = "NONE"
    /\ service' = [service EXCEPT ![o] = "REJECTED"]
    /\ NewTask(o)
    /\ UNCHANGED <<rewardVars, provider, byHand, run, late, clicks>>

RequestActiveRefund(o) ==
    /\ service[o] = "ACTIVE" /\ shown[o] = "NONE"
    /\ NewTask(o)
    /\ UNCHANGED <<rewardVars, service, provider, byHand, run, late, clicks>>

-----------------------------------------------------------------------------
(* Execute: prepare, call, finalize.                                         *)

\* An administrator starts or repeats the refund; nobody else does that for a
\* task that is PENDING or PROVIDER_PENDING.
Click(d, o) ==
    /\ run[d] = Idle /\ task[o].status # "NONE" /\ clicks < MaxClicks
    /\ clicks' = clicks + 1
    /\ At(d, "execute", o, None)
    /\ UNCHANGED <<rewardVars, service, shown, task, provider, byHand, late>>

\* Mutant: a call in progress is not waited for.
CallableAnyway(o) ==
    \/ task[o].status \in {"PENDING", "PROVIDER_PENDING"}
    \/ task[o].status = "RETRYABLE" /\ ~task[o].waiting

\* Whether prepare leads to a call: the lease a scheduler has claimed a
\* RETRYABLE task under is not asked for.
Callable(o) ==
    \/ task[o].status = "PENDING"
    \/ task[o].status = "RETRYABLE" /\ ~task[o].waiting
    \/ task[o].status = "PROVIDER_PENDING" /\ ~task[o].live

\* Mutant: the rewards are left to somebody else.
RevokeOnly(o) ==
    /\ IF task[o].status = "PENDING" /\ service[o] # "REJECTED"
       THEN service[o] = "ACTIVE" /\ service' = [service EXCEPT ![o] = "REVOKED"]
       ELSE UNCHANGED service
    /\ UNCHANGED <<reward, release, wallet>>

\* The center is revoked and its rewards are reversed before anybody is paid;
\* a rejected one never had any.
Revoke(o) ==
    IF task[o].status = "PENDING" /\ service[o] # "REJECTED"
    THEN /\ service[o] = "ACTIVE"
         /\ Reverse(o)
         /\ service' = [service EXCEPT ![o] = "REVOKED"]
    ELSE UNCHANGED <<service, reward, release, wallet>>

\* The service order shows the new status if it was revoked here or rejected;
\* of a revoked one that is called again it shows the old status.
Prepare(d, o) ==
    /\ On(d, "execute", o) /\ Callable(o)
    /\ Revoke(o)
    /\ task' = [task EXCEPT ![o].status = "PROVIDER_PENDING", ![o].owner = Group[d],
                            ![o].live = TRUE, ![o].attempts = Least(@ + 1, MaxAttempts)]
    /\ shown' = IF task[o].status = "PENDING" \/ service[o] = "REJECTED"
                THEN [shown EXCEPT ![o] = "PROVIDER_PENDING"] ELSE shown
    /\ At(d, "calling", o, None)
    /\ UNCHANGED <<thawed, commission, job, provider, byHand, late, clicks>>

\* Done, not due or in progress; or rolled back, on an error or as the victim
\* of a deadlock with the release of a reward.
PrepareEndsIdle(d, o) ==
    /\ On(d, "execute", o)
    /\ Rest(d)
    /\ UNCHANGED <<rewardVars, service, shown, task, provider, byHand, late, clicks>>

\* What the provider may answer and do: a number it has paid on is paid on once.
Answers(o) ==
    {<<"SUCCESS", "refunded">>, <<"TEMPORARY", provider[o]>>, <<"UNKNOWN", provider[o]>>}
       \cup (IF provider[o] = "none" THEN {<<"UNSUPPORTED", "none">>} ELSE {})
       \cup (IF provider[o] = "refunded" THEN {}
             ELSE {<<"UNKNOWN", "processing">>, <<"UNKNOWN", "refunded">>})

CallProvider(d, o) ==
    /\ On(d, "calling", o)
    /\ \E a \in Answers(o) :
          /\ At(d, "answered", o, a[1])
          /\ provider' = [provider EXCEPT ![o] = a[2]]
    /\ UNCHANGED <<rewardVars, service, shown, task, byHand, late, clicks>>

ProviderSettles(o) ==
    /\ provider[o] = "processing"
    /\ \E s \in {"refunded", "failed"} : provider' = [provider EXCEPT ![o] = s]
    /\ UNCHANGED <<rewardVars, service, shown, task, byHand, run, late, clicks>>

Outcome(answer) ==
    CASE answer = "SUCCESS" -> "SUCCEEDED"
      [] answer = "TEMPORARY" -> "RETRYABLE"
      [] answer = "UNSUPPORTED" -> "MANUAL_REQUIRED"
      [] answer = "UNKNOWN" -> "UNKNOWN_VERIFYING"

\* Mutant: the service order is not told.
SettleUnseen(o, status, waiting) ==
    /\ task' = [task EXCEPT ![o].status = status, ![o].owner = None, ![o].live = FALSE,
                            ![o].waiting = waiting,
                            ![o].aged = IF status = task[o].status THEN @ ELSE FALSE]
    /\ UNCHANGED shown

\* What every transaction that ends a lease writes.
Settle(o, status, waiting) ==
    /\ task' = [task EXCEPT ![o].status = status, ![o].owner = None, ![o].live = FALSE,
                            ![o].waiting = waiting,
                            ![o].aged = IF status = task[o].status THEN @ ELSE FALSE]
    /\ shown' = [shown EXCEPT ![o] = status]

\* Only the group that prepared the call records its answer.
Finalizable(d, o) == task[o].status = "PROVIDER_PENDING" /\ task[o].owner = Group[d]

Finalize(d, o) ==
    /\ On(d, "answered", o)
    /\ IF Finalizable(d, o)
       THEN Settle(o, Outcome(run[d].answer), run[d].answer = "TEMPORARY")
       ELSE UNCHANGED <<task, shown>>
    /\ Rest(d)
    /\ UNCHANGED <<rewardVars, service, provider, byHand, late, clicks>>

-----------------------------------------------------------------------------
(* The schedulers.                                                           *)

ClaimTask(d, o, status) ==
    /\ run[d] = Idle
    /\ task[o].status = status /\ ~task[o].waiting /\ ~task[o].live
    /\ task' = [task EXCEPT ![o].owner = Group[d], ![o].live = TRUE]
    /\ UNCHANGED <<rewardVars, service, shown, provider, byHand, late, clicks>>

ClaimRetry(d, o) ==
    /\ ClaimTask(d, o, "RETRYABLE")
    /\ At(d, IF task[o].attempts >= MaxAttempts THEN "limit" ELSE "execute", o, None)

\* Mutant: the limit is left to the check after the query.
ClaimVerificationUnlimited(d, o) ==
    /\ ClaimTask(d, o, "UNKNOWN_VERIFYING")
    /\ At(d, "verify", o, None)

ClaimVerification(d, o) ==
    /\ ClaimTask(d, o, "UNKNOWN_VERIFYING")
    /\ At(d, IF task[o].checks >= MaxChecks THEN "limit" ELSE "verify", o, None)

PrepareVerification(d, o) ==
    /\ On(d, "verify", o)
    /\ IF /\ task[o].status = "UNKNOWN_VERIFYING" /\ ~task[o].waiting
          /\ task[o].live => task[o].owner = Group[d]
       THEN /\ task' = [task EXCEPT ![o].owner = Group[d], ![o].live = TRUE,
                                    ![o].checks = Least(@ + 1, MaxChecks)]
            /\ At(d, "querying", o, None)
       ELSE Rest(d) /\ UNCHANGED task
    /\ UNCHANGED <<rewardVars, service, shown, provider, byHand, late, clicks>>

\* What a query may answer; a channel may have none.
Findings(o) ==
    {"UNKNOWN", "UNSUPPORTED", CASE provider[o] = "none" -> "NOT_FOUND"
                                 [] provider[o] = "processing" -> "PROCESSING"
                                 [] provider[o] = "refunded" -> "SUCCEEDED"
                                 [] provider[o] = "failed" -> "FAILED"}

QueryProvider(d, o) ==
    /\ On(d, "querying", o)
    /\ \E f \in Findings(o) : At(d, "queried", o, f)
    /\ UNCHANGED <<rewardVars, service, shown, task, provider, byHand, late, clicks>>

\* A refund that is not found is tried again when it is unknown for long enough:
\* it goes back to PROVIDER_PENDING, under nobody's lease.
Verified(o, f) ==
    CASE f = "SUCCEEDED" -> Settle(o, "SUCCEEDED", FALSE)
      [] f = "FAILED" -> Settle(o, "RETRYABLE", TRUE)
      [] f = "UNSUPPORTED" -> Settle(o, "MANUAL_REQUIRED", FALSE)
      [] f = "NOT_FOUND" /\ task[o].aged -> Settle(o, "PROVIDER_PENDING", FALSE)
      [] OTHER -> Settle(o, "UNKNOWN_VERIFYING", TRUE)

\* After the last query the scheduler turns to the operator at once, if it still
\* holds the lease that this transaction gives up.
FinalizeVerification(d, o) ==
    /\ On(d, "queried", o)
    /\ IF task[o].status = "UNKNOWN_VERIFYING" /\ task[o].owner = Group[d]
       THEN /\ Verified(o, run[d].answer)
            /\ IF task'[o].status = "UNKNOWN_VERIFYING" /\ task[o].checks >= MaxChecks
               THEN At(d, "limit", o, None) ELSE Rest(d)
       ELSE Rest(d) /\ UNCHANGED <<task, shown>>
    /\ UNCHANGED <<rewardVars, service, provider, byHand, late, clicks>>

MarkManualRequired(d, o) ==
    /\ On(d, "limit", o)
    /\ IF task[o].owner = Group[d] /\ task[o].status \in {"RETRYABLE", "UNKNOWN_VERIFYING"}
       THEN Settle(o, "MANUAL_REQUIRED", FALSE)
       ELSE UNCHANGED <<task, shown>>
    /\ Rest(d)
    /\ UNCHANGED <<rewardVars, service, provider, byHand, late, clicks>>

-----------------------------------------------------------------------------
(* By hand.                                                                  *)

\* One operator reports the refund made outside, another one approves it.  They
\* do so when the channel shows neither a refund nor one under way.
SubmitManualRefund(o) ==
    /\ provider[o] \in {"none", "failed"}
    /\ task[o].status = "MANUAL_REQUIRED" /\ service[o] # "ACTIVE"
    /\ Settle(o, "MANUAL_SUBMITTED", FALSE)
    /\ UNCHANGED <<rewardVars, service, provider, byHand, run, late, clicks>>

ReviewManualRefund(o) ==
    /\ task[o].status = "MANUAL_SUBMITTED" /\ service[o] # "ACTIVE"
    /\ \/ Settle(o, "SUCCEEDED", FALSE) /\ byHand' = byHand \cup {o}
       \/ Settle(o, "MANUAL_REQUIRED", FALSE) /\ UNCHANGED byHand
    /\ UNCHANGED <<rewardVars, service, provider, run, late, clicks>>

-----------------------------------------------------------------------------
(* Time and crashes.                                                         *)

\* The retry or the next query is due; the safety wait of an unknown is over.
Elapse(o) ==
    /\ \/ task[o].waiting /\ task' = [task EXCEPT ![o].waiting = FALSE]
       \/ task[o].status = "UNKNOWN_VERIFYING" /\ ~task[o].aged
          /\ task' = [task EXCEPT ![o].aged = TRUE]
    /\ UNCHANGED <<rewardVars, service, shown, provider, byHand, run, late, clicks>>

RefundLeaseExpires(o) ==
    /\ task[o].live
    /\ task' = [task EXCEPT ![o].live = FALSE]
    /\ late' = IF \E d \in Drivers : On(d, "calling", o) \/ On(d, "answered", o)
               THEN late \cup {o} ELSE late
    /\ UNCHANGED <<rewardVars, service, shown, provider, byHand, run, clicks>>

DriverCrash(d) ==
    /\ run[d] # Idle
    /\ Rest(d)
    /\ UNCHANGED <<rewardVars, service, shown, task, provider, byHand, late, clicks>>

-----------------------------------------------------------------------------
Proceed(d, o) == \/ Prepare(d, o) \/ CallProvider(d, o) \/ Finalize(d, o)
                 \/ PrepareVerification(d, o) \/ QueryProvider(d, o)
                 \/ FinalizeVerification(d, o) \/ MarkManualRequired(d, o)

Claim(o) == \/ \E d \in Retriers : ClaimRetry(d, o)
            \/ \E d \in Verifiers : ClaimVerification(d, o)

SagaStep(o) ==
    \/ RecordPaymentSucceeded(o) \/ Approve(o) \/ Reject(o) \/ RequestActiveRefund(o)
    \/ \E d \in Administrators : Click(d, o)
    \/ Claim(o)
    \/ \E d \in Drivers : Proceed(d, o) \/ PrepareEndsIdle(d, o)
    \/ ProviderSettles(o) \/ SubmitManualRefund(o) \/ ReviewManualRefund(o)
    \/ Elapse(o) \/ RefundLeaseExpires(o)

\* The others who move the wallet are left to ReferralReward: no step here
\* depends on more than the frozen bucket, which they leave covered.
Next == \/ RewardStep /\ UNCHANGED sagaVars
        \/ \E o \in Orders : SagaStep(o)
        \/ \E d \in Drivers : DriverCrash(d)

\* Schedulers look again and again, what is begun again and again does not always
\* crash, time passes; nobody has to click, review or pay.
Fairness ==
    \A o \in Orders :
       /\ SF_vars(Claim(o)) /\ SF_vars(\E d \in Drivers : Proceed(d, o))
       /\ WF_vars(\E d \in Drivers : PrepareEndsIdle(d, o))
       /\ WF_vars(Elapse(o)) /\ WF_vars(RefundLeaseExpires(o))

Spec == Init /\ [][Next]_vars /\ Fairness

-----------------------------------------------------------------------------
Refunded(o) == provider[o] \in {"processing", "refunded"} \/ o \in byHand

\* Once money may have gone back, the center is out of business for good and
\* nobody earns on it: neither a release in flight nor a repeated refund leaves a
\* reward (the prepare transaction, refund_orchestrator_postgres.go:125).
RefundedEarnsNothing ==
    \A o \in Orders : Refunded(o) => /\ service[o] \in {"REVOKED", "REJECTED"}
                                     /\ reward[o] \in {"NONE", "REVERSED"}

\* The service order shows the status of its refund, except that a revoked one
\* that is called again still shows what it waited for.
ProjectionFollows ==
    \A o \in Orders :
       \/ shown[o] = task[o].status
       \/ /\ task[o].status = "PROVIDER_PENDING" /\ service[o] = "REVOKED"
          /\ shown[o] = "RETRYABLE"

\* The customer is paid back by the provider or by hand and not by both, unless a
\* lease ended before the answer of its call was recorded: whatever schedulers and
\* administrators do, a task waits for the operator only when nobody is calling.
\* (After such a lease the call of another process of the same name is settled by
\* the older answer: the owner finalize asks for is only a name.)
PaidBackOnce ==
    \A o \in Orders : o \in byHand /\ o \notin late => provider[o] \in {"none", "failed"}

\* What is retried or verified comes to an end: the limits are reached although
\* leases, crashes and administrators interfere.
EventuallyConcluded ==
    \A o \in Orders : <>[](task[o].status \notin {"RETRYABLE", "UNKNOWN_VERIFYING"})

\* As the design says (section 6), the scheduler takes what waits for the provider.
PendingIsTaken ==
    \A o \in Orders : (task[o].status = "PROVIDER_PENDING" /\ ~task[o].live)
                         ~> (task[o].status # "PROVIDER_PENDING" \/ task[o].live)
=============================================================================
