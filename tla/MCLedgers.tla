------------------------------ MODULE MCLedgers ------------------------------
(* One instance for who owns what and who is owed what: personal points,      *)
(* merging accounts, referral rewards, and the refund of a service order with *)
(* its reward.  Each of them is complete in itself, so a behaviour runs one.  *)
(* It extends the refund, whose properties keep their names.                  *)
EXTENDS MCRefundSaga

CONSTANTS Accounts, Jobs, NoAccount, Amounts, Reservations, Validity, Keys,
          MaxGrants, MaxLots, MaxTime, Skew,
          Users, Tasks, Requests, Executors, Pair(_), Stores, MaxReopens,
          Referrals, Releasers

VARIABLES lots, account, reservation, allocated, ledger, recorded, refilled, remerged, now,
          status, owned, holder, order, request, snapshot, reopens, store,
          earned, free, releases, balance, other, work,
          running

pointsVars == <<lots, account, reservation, allocated, ledger, recorded, refilled, remerged, now>>
mergeVars == <<status, owned, holder, order, request, snapshot, reopens, store>>
earnedVars == <<earned, free, releases, balance, other, work>>

Points == INSTANCE PersonalPoints WITH Requests <- Reservations, MergeRequests <- Requests
Merging == INSTANCE AccountMerge WITH task <- owned, reservation <- holder
Rewards == INSTANCE ReferralReward
             WITH Orders <- Referrals, Workers <- Releasers,
                  WorkerName <- [w \in Releasers |-> "reward-release"],
                  reward <- earned, thawed <- free, release <- releases,
                  wallet <- balance, commission <- other, job <- work

ASSUME LedgersAssumption ==
    /\ Points!PointsAssumption /\ Merging!MergeAssumption
    /\ Rewards!RewardAssumption /\ RewardAssumption /\ SagaAssumption

\* Every merge request names the same two users.
FirstTwo(r) == {"first", "second"}

MCInit ==
    /\ Points!Init /\ Merging!Init /\ Rewards!RewardInit /\ Init
    /\ running \in {"points", "merging", "rewards", "refund"}
    /\ running # "merging" => store = CHOOSE s \in Stores : TRUE

MCNext ==
    \/ /\ running = "points" /\ Points!Next
       /\ UNCHANGED <<mergeVars, earnedVars, vars, running>>
    \/ /\ running = "merging" /\ Merging!Next
       /\ UNCHANGED <<pointsVars, earnedVars, vars, running>>
    \/ /\ running = "rewards" /\ Rewards!RewardNext
       /\ UNCHANGED <<pointsVars, mergeVars, vars, running>>
    \/ /\ running = "refund" /\ Next
       /\ UNCHANGED <<pointsVars, mergeVars, earnedVars, running>>

\* Where the others start, nothing is due and nobody waits: what does not run
\* owes no step.
MCSpec == /\ MCInit /\ [][MCNext]_<<pointsVars, mergeVars, earnedVars, vars, running>>
          /\ \/ running \in {"points", "merging"} /\ Points!Fairness
             \/ running = "rewards" /\ Rewards!RewardFairness
             \/ running = "refund" /\ Fairness

\* The properties of personal points, stated in PersonalPoints: the projections of
\* the lots agree, ...
ProjectionsAgree == Points!ProjectionsAgree
\* ... the wallet rows add up to the balance, ...
LedgerExplainsBalance == Points!LedgerExplainsBalance
\* ... what has expired does not come back, ...
NoResurrection == Points!NoResurrection
\* ... all of it implements the abstract ledger, ...
ImplementsLedger == Points!ImplementsLedger
\* ... and what is due expires although nobody reads the balance.
EventuallyExpired == Points!EventuallyExpired

\* The property of merging, stated in AccountMerge: tasks stay with their
\* reservations.
ReservedWithOwner == Merging!ReservedWithOwner

\* The properties of the rewards, stated in ReferralReward: every bucket of the
\* wallet is explained, ...
RewardsExplained == Rewards!WalletExplained
\* ... and a reward whose freeze is over is released, reversed or given up.
RewardsReleased == Rewards!EventuallyReleased
=============================================================================
