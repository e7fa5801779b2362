--------------------------- MODULE PersonalPoints ---------------------------
(* Personal points: lots of points that may expire, reservations for jobs   *)
(* that take points from lots, the balance of an account and its wallet     *)
(* ledger.  Every command is one transaction under the lock of the account, *)
(* but the time it acts at is read before the lock is granted.              *)
EXTENDS Integers, Sequences, FiniteSets

CONSTANTS Accounts, Jobs, NoAccount,
          Amounts,      \* points of a grant or a correction
          Requests,     \* points of a reservation
          Validity,     \* time units a gift stays valid
          Keys,         \* idempotency keys of a job's captures and releases
          MergeRequests,
          MaxGrants,    \* lots that grants and corrections create
          MaxLots, MaxTime,
          Skew          \* how late a command may be when it gets the lock

PointsAssumption ==
    /\ NoAccount \notin Accounts /\ IsFiniteSet(Jobs)
    /\ Amounts \subseteq Nat \ {0} /\ Requests \subseteq Nat \ {0}
    /\ Validity \subseteq 1 .. MaxTime
    /\ MaxLots \in Nat /\ MaxGrants \in 0 .. MaxLots
    /\ MaxTime \in Nat /\ Skew \in Nat

VARIABLES lots,         \* xz_personal_point_lots, in the order of their ids
          account,      \* xz_point_accounts
          reservation,  \* xz_personal_point_reservations, by job
          allocated,    \* points a job still holds of each lot
          ledger,       \* xz_wallet_ledger: balance its rows add up to
          recorded,     \* and the idempotency keys of its rows
          refilled,     \* history: lots that got points back after they expired
          remerged,     \* history: accounts whose points a merge request moved twice
          now

histories == <<refilled, remerged>>
vars == <<lots, account, reservation, allocated, ledger, recorded, histories, now>>

-----------------------------------------------------------------------------
(* Sums, counted point by point: proofs reason about cardinalities, not folds. *)

Units(f) == UNION {{x} \X (1 .. f[x]) : x \in DOMAIN f}
Total(f) == Cardinality(Units(f))

-----------------------------------------------------------------------------
(* Lots.                                                                     *)

Never == 2 * MaxTime + 1        \* expires_at IS NULL, ordered last

Lot(a, n, granted, expires) ==
    [account |-> a, original |-> n, available |-> n, reserved |-> 0,
     consumed |-> 0, expired |-> 0, reversed |-> 0,
     grantedAt |-> granted, expiresAt |-> expires]

LotsOf(a) == {l \in DOMAIN lots : lots[l].account = a}

Available(L, S) == Total([l \in S |-> L[l].available])

\* As if only lots without reserved points were swept.
DueUnreserved(a, t) ==
    {l \in LotsOf(a) : /\ lots[l].expiresAt <= t /\ lots[l].available > 0
                       /\ lots[l].reserved = 0}

Due(a, t) == {l \in LotsOf(a) : lots[l].expiresAt <= t /\ lots[l].available > 0}

\* As if the expired points were not accounted for in the lot.
LapsedUnbooked(D) == [l \in DOMAIN lots |->
                        IF l \in D THEN [lots[l] EXCEPT !.available = 0] ELSE lots[l]]

Lapsed(D) == [l \in DOMAIN lots |->
                IF l \in D THEN [lots[l] EXCEPT !.available = 0,
                                                !.expired = @ + lots[l].available]
                           ELSE lots[l]]

\* First expired first out.
Before(k, l) ==
    \/ lots[k].expiresAt < lots[l].expiresAt
    \/ /\ lots[k].expiresAt = lots[l].expiresAt
       /\ \/ lots[k].grantedAt < lots[l].grantedAt
          \/ lots[k].grantedAt = lots[l].grantedAt /\ k < l

\* What n points of account a are taken from: a lot gives points only when all lots
\* before it give everything.
Takes(L, a, n) ==
    {s \in [DOMAIN L -> 0 .. n] :
        /\ \A l \in DOMAIN L : s[l] > 0 => L[l].account = a /\ s[l] <= L[l].available
        /\ \A k, l \in DOMAIN L :
              s[l] > 0 /\ L[k].account = a /\ Before(k, l) => s[k] = L[k].available
        /\ Total(s) = n}

\* A command's n points over the allocations of a job: in the order of their
\* ids, each taken as far as it goes, so that at most one is taken in part.
\* The ids are hashes: any order.
Splits(j, n) ==
    {s \in [DOMAIN lots -> 0 .. n] :
        /\ \A l \in DOMAIN lots : s[l] <= allocated[j][l]
        /\ \A k, l \in DOMAIN lots :
              s[k] \in 1 .. allocated[j][k] - 1 /\ s[l] \in 1 .. allocated[j][l] - 1
                 => k = l
        /\ Total(s) = n}

\* The time a command read before it waited for the lock.
CommandTimes == {t \in 0 .. now : now <= t + Skew}

-----------------------------------------------------------------------------
(* The balance and the wallet ledger.                                        *)

\* Expiring the lots D writes one ledger row per lot, keyed by the lot alone:
\* a second row for the same lot is dropped (ON CONFLICT DO NOTHING).
ExpiryKeys(D) == {<<"expire", l>> : l \in D}
Unrecorded(D) == {l \in D : <<"expire", l>> \notin recorded}

Balance(books, a, free, frozen) ==
    [books EXCEPT ![a] = [available |-> @.available + free,
                          frozen |-> @.frozen + frozen]]

\* As if a repeated command were not recognised.
FreshAlways(key) == TRUE

\* The command with this key has not been executed yet.
Fresh(key) == key \notin recorded

\* The command moves (free, frozen) after the lots D have expired.
Book(a, D, free, frozen) ==
    /\ account' = Balance(account, a, free - Available(lots, D), frozen)
    /\ ledger' = Balance(ledger, a, free - Available(lots, Unrecorded(D)), frozen)

-----------------------------------------------------------------------------
(* Commands.  A command whose key is already recorded reads and returns.     *)

Init ==
    /\ lots = <<>>
    /\ account = [a \in Accounts |-> [available |-> 0, frozen |-> 0]]
    /\ ledger = account
    /\ reservation = [j \in Jobs |-> [account |-> NoAccount, requested |-> 0,
                                      reserved |-> 0, captured |-> 0, released |-> 0]]
    /\ allocated = [j \in Jobs |-> [l \in 1 .. MaxLots |-> 0]]
    /\ recorded = {}
    /\ refilled = {} /\ remerged = {}
    /\ now = 1

\* A gift expires by the policy in force or by the validity an administrator
\* chose; everything else is permanent.
Grant(a, n, expires, t) ==
    /\ Len(lots) < MaxGrants
    /\ lots' = Append(lots, Lot(a, n, t, expires))
    /\ Book(a, {}, n, 0)
    /\ UNCHANGED <<reservation, allocated, recorded, histories, now>>

\* An administrator adds points: a permanent lot.
CorrectUp(a, n, t) ==
    /\ Len(lots) < MaxGrants
    /\ LET D == Due(a, t)
       IN /\ lots' = Append(Lapsed(D), Lot(a, n, t, Never))
          /\ Book(a, D, n, 0)
          /\ recorded' = recorded \cup ExpiryKeys(D)
    /\ UNCHANGED <<reservation, allocated, histories, now>>

\* As if the balance were checked before the due lots are expired.
CoversBeforeExpiry(a, D, n) == account[a].available >= n

Covers(a, D, n) == account[a].available - Available(lots, D) >= n

\* An administrator takes points away, first expired first.
CorrectDown(a, n, t) ==
    LET D == Due(a, t)
        L == Lapsed(D)
    IN /\ Covers(a, D, n)
       /\ \E debit \in Takes(L, a, n) :
             lots' = [l \in DOMAIN lots |->
                        [L[l] EXCEPT !.available = @ - debit[l], !.reversed = @ + debit[l]]]
       /\ Book(a, D, -n, 0)
       /\ recorded' = recorded \cup ExpiryKeys(D)
       /\ UNCHANGED <<reservation, allocated, histories, now>>

Reserve(j, a, n, t) ==
    LET D == Due(a, t)
        L == Lapsed(D)
    IN /\ reservation[j].account = NoAccount
       /\ Covers(a, D, n)
       /\ \E take \in Takes(L, a, n) :
             /\ lots' = [l \in DOMAIN lots |->
                           [L[l] EXCEPT !.available = @ - take[l], !.reserved = @ + take[l]]]
             /\ allocated' = [allocated EXCEPT ![j] =
                                [l \in 1 .. MaxLots |-> IF l \in DOMAIN lots THEN take[l] ELSE 0]]
       /\ reservation' = [reservation EXCEPT ![j] =
                            [account |-> a, requested |-> n, reserved |-> n,
                             captured |-> 0, released |-> 0]]
       /\ Book(a, D, -n, n)
       /\ recorded' = recorded \cup ExpiryKeys(D)
       /\ UNCHANGED <<histories, now>>

\* As if the allocation rows were left alone.
DeallocatedNothing(j, split) == allocated

Deallocated(j, split) ==
    [allocated EXCEPT ![j] =
        [l \in 1 .. MaxLots |-> @[l] - IF l \in DOMAIN lots THEN split[l] ELSE 0]]

\* A row of the ledger is written once per key.
Recorded(a, key, free, frozen) ==
    /\ recorded' = recorded \cup {key}
    /\ account' = Balance(account, a, free, frozen)
    /\ ledger' = IF key \in recorded THEN ledger ELSE Balance(ledger, a, free, frozen)

Capture(j, n, key) ==
    /\ Fresh(<<"capture", j, key>>)
    /\ n \in 1 .. reservation[j].reserved
    /\ \E split \in Splits(j, n) :
          /\ lots' = [l \in DOMAIN lots |->
                        [lots[l] EXCEPT !.reserved = @ - split[l],
                                        !.consumed = @ + split[l]]]
          /\ allocated' = Deallocated(j, split)
    /\ reservation' = [reservation EXCEPT ![j].reserved = @ - n, ![j].captured = @ + n]
    /\ Recorded(reservation[j].account, <<"capture", j, key>>, 0, -n)
    /\ UNCHANGED <<histories, now>>

\* As if a release never looked at the expiry of the lot.
LapsesNever(l, split, t) == FALSE

\* What goes back to a lot that has expired by then lapses, together with
\* everything else available in that lot.
Lapses(l, split, t) == split[l] > 0 /\ lots[l].expiresAt <= t

Returned(l, split, t) ==
    LET back == lots[l].available + split[l]
    IN  IF Lapses(l, split, t)
        THEN [lots[l] EXCEPT !.reserved = @ - split[l], !.available = 0,
                             !.expired = @ + back]
        ELSE [lots[l] EXCEPT !.reserved = @ - split[l], !.available = back]

\* A command for 0 points releases everything the job still holds.
Release(j, n, key, t) ==
    /\ Fresh(<<"release", j, key>>)
    /\ n \in 1 .. reservation[j].reserved
    /\ \E split \in Splits(j, n) :
          LET lapsed == {l \in DOMAIN lots : Lapses(l, split, t)}
              back == n - Total([l \in lapsed |-> lots[l].available + split[l]])
          IN /\ lots' = [l \in DOMAIN lots |-> Returned(l, split, t)]
             /\ allocated' = Deallocated(j, split)
             /\ Recorded(reservation[j].account, <<"release", j, key>>, back, -n)
             /\ refilled' = refilled \cup {l \in DOMAIN lots \ lapsed :
                                             split[l] > 0 /\ lots[l].expiresAt <= now}
    /\ reservation' = [reservation EXCEPT ![j].reserved = @ - n, ![j].released = @ + n]
    /\ UNCHANGED <<remerged, now>>

\* Every read of a balance, an explicit expiry and the expiry worker.
Expire(a, t) ==
    LET D == Due(a, t)
    IN /\ D # {}
       /\ lots' = Lapsed(D)
       /\ Book(a, D, 0, 0)
       /\ recorded' = recorded \cup ExpiryKeys(D)
       /\ UNCHANGED <<reservation, allocated, histories, now>>

Mergeable(from, to) ==
    /\ from # to
    /\ account[from].frozen = 0 /\ account[to].frozen = 0
    /\ \A j \in Jobs : reservation[j].account \in {from, to} => reservation[j].reserved = 0

\* The rows of a merge are keyed by its request: when a reopened request is executed
\* again, what moves then has no row.
OutKey(from, request) == <<"out", from, request>>
InKey(to, request) == <<"in", to, request>>
Written(key, n) == IF key \in recorded THEN 0 ELSE n

\* Merging two users: what is left of every lot moves to a new lot of the
\* surviving account, with its dates.
Merge(from, to, request, t) ==
    LET D == Due(from, t) \cup Due(to, t)
        L == Lapsed(D)
        moving == {l \in LotsOf(from) : L[l].available > 0}
        moved == Available(L, moving)
        copy(l) == Lot(to, L[l].available, L[l].grantedAt, L[l].expiresAt)
        lapsed(S, a) == Available(lots, S \cap LotsOf(a))
    IN /\ Mergeable(from, to)
       /\ Len(lots) + Cardinality(moving) <= MaxLots
       /\ \E sorted \in [1 .. Cardinality(moving) -> moving] :
             /\ \A i, k \in DOMAIN sorted : i < k => sorted[i] < sorted[k]
             /\ lots' = [l \in DOMAIN lots |->
                           IF l \in moving THEN [L[l] EXCEPT !.available = 0,
                                                             !.reversed = @ + L[l].available]
                                           ELSE L[l]]
                        \o [i \in DOMAIN sorted |-> copy(sorted[i])]
       /\ account' = [account EXCEPT
                        ![from].available = @ - lapsed(D, from) - moved,
                        ![to].available = @ - lapsed(D, to) + moved]
       /\ ledger' = [ledger EXCEPT
                       ![from].available = @ - lapsed(Unrecorded(D), from)
                                             - Written(OutKey(from, request), moved),
                       ![to].available = @ - lapsed(Unrecorded(D), to)
                                           + Written(InKey(to, request), moved)]
       /\ recorded' = recorded \cup ExpiryKeys(D)
                        \cup IF moving = {} THEN {}
                                           ELSE {OutKey(from, request), InKey(to, request)}
       /\ remerged' = remerged \cup {a \in {from, to} :
                                       /\ moving # {}
                                       /\ \/ a = from /\ OutKey(from, request) \in recorded
                                          \/ a = to /\ InKey(to, request) \in recorded}
       /\ UNCHANGED <<reservation, allocated, refilled, now>>

Tick == /\ now < MaxTime
        /\ now' = now + 1
        /\ UNCHANGED <<lots, account, reservation, allocated, ledger, recorded, histories>>

Next ==
    \/ \E a \in Accounts, t \in CommandTimes :
          \/ \E n \in Amounts :
                \/ Grant(a, n, Never, t)
                \/ \E v \in Validity : Grant(a, n, t + v, t)
                \/ CorrectUp(a, n, t)
                \/ CorrectDown(a, n, t)
          \/ \E j \in Jobs, n \in Requests : Reserve(j, a, n, t)
          \/ Expire(a, t)
          \/ \E b \in Accounts, r \in MergeRequests : Merge(a, b, r, t)
    \/ \E j \in Jobs, key \in Keys : \E n \in 1 .. reservation[j].reserved :
          \/ Capture(j, n, key)
          \/ \E t \in CommandTimes : Release(j, n, key, t)
    \/ Tick

\* The expiry worker's ticker keeps firing.
Fairness == \A a \in Accounts : WF_vars(Expire(a, now))

Spec == Init /\ [][Next]_vars /\ Fairness

-----------------------------------------------------------------------------
(* Properties.                                                               *)

\* The balance of an account is what its lots hold, the reserved points of a
\* lot are what jobs hold of it, and a job holds of lots what its reservation
\* says.  pgUpdateAccount aborts a command that would break the first of them;
\* no command ever does.
ProjectionsAgree ==
    /\ \A a \in Accounts :
          /\ account[a].available = Available(lots, LotsOf(a))
          /\ account[a].frozen = Total([l \in LotsOf(a) |-> lots[l].reserved])
    /\ \A l \in DOMAIN lots :
          lots[l].reserved = Total([j \in Jobs |-> allocated[j][l]])
    /\ \A j \in Jobs :
          reservation[j].reserved = Total(allocated[j])

\* The rows of the wallet ledger add up to the balance, however many commands are
\* repeated, wait for each other and merge accounts.  Two rows can be missing: of
\* points that a command which had waited for the lock gave back to a lot after its
\* expiry was recorded (they expire without a row), and of points that a merge
\* request moves when it is executed once more.
LedgerExplainsBalance ==
    \A a \in Accounts :
        /\ ledger[a].frozen = account[a].frozen
        /\ \/ ledger[a].available = account[a].available
           \/ a \in remerged
           \/ \E l \in LotsOf(a) : l \in refilled

\* Points of a lot that has expired are never taken for a job and never come
\* back to the lot, whatever was reserved before it expired: only a command that
\* read its time before the expiry still does so, as long as it waited.
NoResurrection ==
    [][\A l \in DOMAIN lots :
          lots'[l].available > lots[l].available \/ lots'[l].reserved > lots[l].reserved
             => lots[l].expiresAt + Skew > now]_vars

Overdue(l) == /\ l \in DOMAIN lots
              /\ lots[l].expiresAt <= now /\ lots[l].available > 0

\* Expired points do not stay in the balance of a user who never comes back: again
\* and again nothing is overdue.
EventuallyExpired == []<>(\A l \in 1 .. MaxLots : ~Overdue(l))

\* Lots, allocations and wallet rows implement the abstract ledger.
Lost(a) == Total([l \in LotsOf(a) |-> lots[l].expired + lots[l].reversed])

Abstract == INSTANCE PointsLedger WITH
    free <- [a \in Accounts |-> account[a].available],
    holder <- [j \in Jobs |-> reservation[j].account],
    held <- [j \in Jobs |-> reservation[j].reserved],
    spent <- [j \in Jobs |-> reservation[j].captured],
    gone <- [a \in Accounts |-> Lost(a)]

ImplementsLedger == Abstract!Spec

=============================================================================
