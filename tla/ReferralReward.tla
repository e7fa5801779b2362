---------------------------- MODULE ReferralReward ----------------------------
(* Referral rewards of operation centers: an activation grants a frozen       *)
(* reward with its release task, workers under leases make due rewards        *)
(* available, a refund reverses them.  All of them move one commission wallet *)
(* row, which commissions of another settlement engine and payouts share.     *)
EXTENDS Integers, FiniteSets

CONSTANTS Orders,          \* orders with a referral, one reward each
          Workers,         \* processes that run the release scheduler
          WorkerName,      \* their configured names: by default all the same
          BatchLimit,
          Amount,          \* of a reward
          Commission,      \* of the commission that shares the wallet
          None

RewardAssumption ==
    /\ Amount \in Nat \ {0} /\ Commission \in Nat \ {0} /\ BatchLimit \in Nat \ {0}
    /\ DOMAIN WorkerName = Workers
    /\ None \notin Orders

VARIABLES reward,          \* xz_referral_rewards: status, "NONE" before the grant
          thawed,          \* freeze_until has passed
          release,         \* xz_referral_reward_release_tasks: status, lease, failure class
          wallet,          \* xz_commission_wallet_accounts
          commission,      \* a commission record of the V1.3.2 engine
          job              \* what a worker holds: its batch, the failure it has to record

rewardVars == <<reward, thawed, release, wallet, commission, job>>

NoRelease == [status |-> "NONE", owner |-> None, live |-> FALSE, class |-> None]
Resting == [batch |-> {}, failed |-> None, class |-> None]

RewardInit ==
    /\ reward = [o \in Orders |-> "NONE"]
    /\ thawed = {}
    /\ release = [o \in Orders |-> NoRelease]
    /\ wallet = [frozen |-> 0, available |-> 0, settled |-> 0, recoverable |-> 0]
    /\ commission = "NONE"
    /\ job = [w \in Workers |-> Resting]

-----------------------------------------------------------------------------
(* What the activation and the refund do, in their own transactions.         *)

\* An event that has its rewards is a replay.
Grant(o) ==
    IF reward[o] = "NONE"
    THEN /\ reward' = [reward EXCEPT ![o] = "FROZEN"]
         /\ release' = [release EXCEPT ![o].status = "PENDING"]
         /\ wallet' = [wallet EXCEPT !.frozen = @ + Amount]
    ELSE UNCHANGED <<reward, release, wallet>>

\* Mutant: the whole reward is taken, whatever is left.
DebitWhole(b) == Amount

\* What a reversal takes from the available bucket; the rest is owed.
Debit(b) == IF b < Amount THEN b ELSE Amount

Reversible(o) ==
    \/ reward[o] = "NONE"                     \* no referral event
    \/ reward[o] = "REVERSED"                 \* a replay
    \/ /\ reward[o] = "FROZEN" /\ wallet.frozen >= Amount
       /\ release[o].status \notin {"SUCCEEDED", "CANCELLED"}
    \/ reward[o] = "AVAILABLE" /\ release[o].status = "SUCCEEDED"

Reverse(o) ==
    /\ Reversible(o)
    /\ reward' = [reward EXCEPT ![o] = IF @ = "NONE" THEN @ ELSE "REVERSED"]
    /\ release' = IF reward[o] = "FROZEN"
                  THEN [release EXCEPT ![o] = [NoRelease EXCEPT !.status = "CANCELLED"]]
                  ELSE release
    /\ wallet' = CASE reward[o] = "FROZEN" -> [wallet EXCEPT !.frozen = @ - Amount]
                   [] reward[o] = "AVAILABLE" ->
                        [wallet EXCEPT !.available = @ - Debit(wallet.available),
                                       !.recoverable = @ + (Amount - Debit(wallet.available))]
                   [] OTHER -> wallet

-----------------------------------------------------------------------------
(* The release scheduler.                                                    *)

\* The freeze ends.
Thaw(o) ==
    /\ reward[o] # "NONE"
    /\ thawed' = thawed \cup {o}
    /\ UNCHANGED <<reward, release, wallet, commission, job>>

\* Mutant: what failed for the time being is left alone.
DueUnlessFailed(o) ==
    /\ reward[o] = "FROZEN" /\ o \in thawed
    /\ \/ release[o].status = "PENDING"
       \/ release[o].status = "PROCESSING" /\ ~release[o].live

\* The query of a claim: waiting, failed for the time being, or left behind by
\* a worker whose lease is over.
Due(o) ==
    /\ reward[o] = "FROZEN" /\ o \in thawed
    /\ \/ release[o].status = "PENDING"
       \/ release[o].status = "FAILED" /\ release[o].class = "TEMPORARY"
       \/ release[o].status = "PROCESSING" /\ ~release[o].live

\* SKIP LOCKED: rows of other transactions are passed over.
ClaimDue(w) ==
    /\ job[w] = Resting
    /\ \E claimed \in SUBSET {o \in Orders : Due(o)} :
          /\ claimed # {} /\ Cardinality(claimed) <= BatchLimit
          /\ release' = [o \in Orders |->
                           IF o \in claimed
                           THEN [status |-> "PROCESSING", owner |-> WorkerName[w],
                                 live |-> TRUE, class |-> None]
                           ELSE release[o]]
          /\ job' = [job EXCEPT ![w].batch = claimed]
    /\ UNCHANGED <<reward, thawed, wallet, commission>>

LeaseHeld(w, o) ==
    release[o].status = "PROCESSING" /\ release[o].owner = WorkerName[w] /\ release[o].live

Finish(w, o) == job' = [job EXCEPT ![w].batch = @ \ {o}]

\* One transaction under the locks of task, reward and wallet.
Release(w, o) ==
    /\ job[w].failed = None /\ o \in job[w].batch
    /\ LeaseHeld(w, o) /\ reward[o] = "FROZEN" /\ wallet.frozen >= Amount
    /\ wallet' = [wallet EXCEPT !.frozen = @ - Amount, !.available = @ + Amount]
    /\ reward' = [reward EXCEPT ![o] = "AVAILABLE"]
    /\ release' = [release EXCEPT ![o] = [NoRelease EXCEPT !.status = "SUCCEEDED"]]
    /\ Finish(w, o)
    /\ UNCHANGED <<thawed, commission>>

\* Another worker was there first.
Replay(w, o) ==
    /\ job[w].failed = None /\ o \in job[w].batch
    /\ release[o].status = "SUCCEEDED"
    /\ Finish(w, o)
    /\ UNCHANGED <<reward, thawed, release, wallet, commission>>

\* The transaction is rolled back: for good when the lease was lost or the
\* task taken away, for the time being on a deadlock with a reversal (which
\* locks reward before task) or a timeout.
ReleaseFails(w, o) ==
    /\ job[w].failed = None /\ o \in job[w].batch
    /\ release[o].status # "SUCCEEDED"
    /\ \E class \in {"TEMPORARY"} \cup (IF LeaseHeld(w, o) THEN {} ELSE {"VALIDATION"}) :
          job' = [job EXCEPT ![w] = [batch |-> @.batch \ {o}, failed |-> o, class |-> class]]
    /\ UNCHANGED <<reward, thawed, release, wallet, commission>>

\* The failure is recorded by a second transaction, which asks for the owner
\* but not for the lease.
RecordFailure(w) ==
    LET o == job[w].failed IN
    /\ o # None
    /\ release' = IF release[o].status = "PROCESSING" /\ release[o].owner = WorkerName[w]
                  THEN [release EXCEPT ![o] = [status |-> "FAILED", owner |-> None, live |-> FALSE,
                                               class |-> job[w].class]]
                  ELSE release
    /\ job' = [job EXCEPT ![w].failed = None, ![w].class = None]
    /\ UNCHANGED <<reward, thawed, wallet, commission>>

LeaseExpires(o) ==
    /\ release[o].live
    /\ release' = [release EXCEPT ![o].live = FALSE]
    /\ UNCHANGED <<reward, thawed, wallet, commission, job>>

Crash(w) ==
    /\ job' = [job EXCEPT ![w] = Resting]
    /\ UNCHANGED <<reward, thawed, release, wallet, commission>>

-----------------------------------------------------------------------------
(* Who else moves the wallet.                                                *)

PostCommission(status) ==
    /\ commission = "NONE"
    /\ commission' = status
    /\ wallet' = IF status = "FROZEN" THEN [wallet EXCEPT !.frozen = @ + Commission]
                                      ELSE [wallet EXCEPT !.available = @ + Commission]
    /\ UNCHANGED <<reward, thawed, release, job>>

\* A commission that is no longer covered is an error, and the refund of its
\* order with it; a reward would become a debt.
ReverseCommission ==
    /\ \/ /\ commission = "FROZEN" /\ wallet.frozen >= Commission
          /\ wallet' = [wallet EXCEPT !.frozen = @ - Commission]
       \/ /\ commission = "AVAILABLE" /\ wallet.available >= Commission
          /\ wallet' = [wallet EXCEPT !.available = @ - Commission]
    /\ commission' = "REVERSED"
    /\ UNCHANGED <<reward, thawed, release, job>>

\* The payout of what is available.
PayOut ==
    /\ wallet.available > 0
    /\ wallet' = [wallet EXCEPT !.available = 0, !.settled = @ + wallet.available]
    /\ UNCHANGED <<reward, thawed, release, commission, job>>

-----------------------------------------------------------------------------
Go(w) == \/ ClaimDue(w) \/ RecordFailure(w)
         \/ \E o \in Orders : Release(w, o) \/ Replay(w, o) \/ ReleaseFails(w, o)

RewardStep == \/ \E w \in Workers : Go(w) \/ Crash(w)
              \/ \E o \in Orders : Thaw(o) \/ LeaseExpires(o)

OthersStep == \/ \E status \in {"FROZEN", "AVAILABLE"} : PostCommission(status)
              \/ ReverseCommission \/ PayOut

RewardNext == \/ RewardStep \/ OthersStep
              \/ \E o \in Orders : (Grant(o) \/ Reverse(o)) /\ UNCHANGED <<thawed, commission, job>>

\* The scheduler's loop runs and locks expire; transactions that are tried
\* again and again do not all fail.
RewardFairness ==
    /\ \A w \in Workers : WF_rewardVars(Go(w))
    /\ SF_rewardVars(\E w \in Workers, o \in Orders : Release(w, o))
    /\ \A o \in Orders : WF_rewardVars(LeaseExpires(o))

RewardSpec == RewardInit /\ [][RewardNext]_rewardVars /\ RewardFairness

-----------------------------------------------------------------------------
Count(status) == Cardinality({o \in Orders : reward[o] = status})
CommissionIn(status) == IF commission = status THEN Commission ELSE 0

\* The buckets of the shared wallet are explained by the rewards and the
\* commission that are in them, whoever moved it, and nobody owes more than was
\* paid out (referral_reward_reversal.go:96, commerce_v132_wallet.go:65).
WalletExplained ==
    /\ wallet.frozen = Amount * Count("FROZEN") + CommissionIn("FROZEN")
    /\ wallet.available + wallet.settled - wallet.recoverable
         = Amount * Count("AVAILABLE") + CommissionIn("AVAILABLE")
    /\ wallet.recoverable <= wallet.settled
    /\ \A b \in DOMAIN wallet : wallet[b] >= 0

\* A release that is given up is the one whose worker was slower than its lease
\* and recorded that before anybody claimed the task again; nobody tries it once
\* more.
GivenUp(o) == release[o].status = "FAILED" /\ release[o].class = "VALIDATION"

\* Unless its release is given up, a reward whose freeze is over becomes available
\* or is reversed, however often workers crash and transactions collide
\* (ClaimDueRewardReleaseTasks, ReleaseReferralReward).
EventuallyReleased ==
    \A o \in Orders : (reward[o] = "FROZEN" /\ o \in thawed)
                         ~> (reward[o] \in {"AVAILABLE", "REVERSED"} \/ GivenUp(o))

=============================================================================
