---------------------------- MODULE Delivery_proofs ----------------------------
(* Admission and the scheduler, the outbox and its queues, the connection to  *)
(* the broker: the safety properties of the run of MCDelivery, for every value *)
(* of the constants.                                                           *)
EXTENDS MCDelivery, Sequences, TLAPS, FiniteSetTheorems

-----------------------------------------------------------------------------
(* Counting.                                                                *)

\* The instances count with the Cardinality of their own FiniteSets.
LEMMA SameCardinality ==
  /\ \A S : Admitting!Cardinality(S) = Cardinality(S)
  /\ \A S : Relay!Cardinality(S) = Cardinality(S)
  /\ \A S : Relay!IsFiniteSet(S) <=> IsFiniteSet(S)
  BY DEF Admitting!Cardinality, Relay!Cardinality, Cardinality, Relay!IsFiniteSet, IsFiniteSet

\* How many members of S come before i.
Before(S, i) == Cardinality({h \in S : h < i})

\* Of two members of a set of numbers the greater one has more before it.
LEMMA BeforeGrows ==
  ASSUME NEW S, S \subseteq Nat, NEW i \in S, NEW j \in S, i < j
  PROVE  Before(S, i) \in Nat /\ Before(S, j) \in Nat /\ Before(S, i) < Before(S, j)
<1> DEFINE below == {h \in S : h < i}
           belowJ == {h \in S : h < j}
<1>1. i \in Nat /\ j \in Nat /\ \A h \in S : h \in Nat
  OBVIOUS
<1>2. IsFiniteSet(below) /\ IsFiniteSet(belowJ)
  <2>1. below \in SUBSET Nat /\ belowJ \in SUBSET Nat
    BY Zenon
  <2>2. \A h \in below : h <= i
    BY <1>1
  <2>3. \A h \in belowJ : h <= j
    BY <1>1
  <2> HIDE DEF below, belowJ
  <2> QED
    BY <1>1, <2>1, <2>2, <2>3, FS_BoundedSetOfNaturals
<1>3. below \cup {i} \in SUBSET belowJ /\ i \notin below
  <2>1. i \in belowJ /\ i \notin below
    BY <1>1
  <2>2. \A h \in below : h \in belowJ
    BY <1>1
  <2> HIDE DEF below, belowJ
  <2> QED
    BY <2>1, <2>2
<1> HIDE DEF below, belowJ
<1>4. /\ IsFiniteSet(below \cup {i})
      /\ Cardinality(below \cup {i}) = Cardinality(below) + 1
  BY <1>2, <1>3, FS_AddElement
<1>5. Cardinality(below \cup {i}) <= Cardinality(belowJ)
  BY <1>2, <1>3, FS_Subset
<1>6. Cardinality(below) \in Nat /\ Cardinality(belowJ) \in Nat
  BY <1>2, FS_CardinalityType
<1>7. Cardinality(below) < Cardinality(belowJ)
  BY <1>4, <1>5, <1>6
<1> QED
  BY <1>6, <1>7 DEF Before, below, belowJ

\* No two members of a set of numbers have as many before them.
LEMMA BeforeIsDistinct ==
  ASSUME NEW S, S \subseteq Nat
  PROVE  /\ \A i \in S : Before(S, i) \in Nat
         /\ \A i \in S, j \in S : Before(S, i) = Before(S, j) => i = j
<1>1. ASSUME NEW i \in S PROVE Before(S, i) \in Nat
  <2> DEFINE below == {h \in S : h < i}
  <2>1. \A h \in S : h \in Nat
    OBVIOUS
  <2>2. i \in Nat /\ below \in SUBSET Nat
    BY Zenon
  <2>4. \A h \in below : h <= i
    BY <2>1
  <2>3. IsFiniteSet(below)
    <3> HIDE DEF below
    <3> QED
      BY <2>2, <2>4, FS_BoundedSetOfNaturals
  <2> QED
    BY <2>3, FS_CardinalityType DEF Before
<1>2. ASSUME NEW i \in S, NEW j \in S, Before(S, i) = Before(S, j) PROVE i = j
  <2>1. i \in Nat /\ j \in Nat
    OBVIOUS
  <2>2. ASSUME i < j PROVE FALSE
    <3>1. Before(S, i) < Before(S, j) /\ Before(S, i) \in Nat
      BY <2>2, BeforeGrows, Zenon
    <3> QED
      BY <3>1, <1>2
  <2>3. ASSUME j < i PROVE FALSE
    <3>1. Before(S, j) < Before(S, i) /\ Before(S, j) \in Nat
      BY <2>3, BeforeGrows, Zenon
    <3> QED
      BY <3>1, <1>2
  <2> QED
    BY <2>1, <2>2, <2>3
<1> QED
  BY <1>1, <1>2

\* At most n members of a set of numbers have fewer than n before them.
LEMMA FirstFew ==
  ASSUME NEW S, S \subseteq Nat, NEW n \in Nat
  PROVE  LET few == {j \in S : Before(S, j) < n}
         IN  IsFiniteSet(few) /\ Cardinality(few) <= n
<1> DEFINE few == {j \in S : Before(S, j) < n}
           place == [j \in few |-> Before(S, j)]
<1>1. IsFiniteSet(0 .. n - 1) /\ Cardinality(0 .. n - 1) = n
  BY FS_Interval
<1>2. \A j \in few : Before(S, j) \in 0 .. n - 1
  <2> SUFFICES ASSUME NEW j \in few PROVE Before(S, j) \in 0 .. n - 1
    OBVIOUS
  <2>1. j \in S /\ Before(S, j) < n
    OBVIOUS
  <2>2. Before(S, j) \in Nat
    BY <2>1, BeforeIsDistinct
  <2> HIDE DEF few
  <2> QED
    BY <2>1, <2>2
<1>3. place \in [few -> 0 .. n - 1]
  BY <1>2
<1>4. \A i \in few, j \in few : place[i] = place[j] => i = j
  <2>1. few \subseteq S
    OBVIOUS
  <2> QED
    BY <2>1, BeforeIsDistinct
<1> HIDE DEF few, place
<1>5. place \in Injection(few, 0 .. n - 1)
  BY <1>3, <1>4 DEF Injection, IsInjective
<1> QED
  BY <1>1, <1>5, FS_Injection DEF few

-----------------------------------------------------------------------------
(* Admission and the scheduler.                                             *)

\* What the scheduler selects are tasks of the user that wait, no more of them
\* than the quota, whatever rows others hold.
LEMMA SelectedIsSmall ==
  ASSUME NEW u, NEW quota \in Nat, NEW held, line \in Seq(Tasks)
  PROVE  LET chosen == Admitting!Selected(u, quota, held)
         IN  /\ IsFiniteSet(chosen) /\ Cardinality(chosen) <= quota
             /\ \A k \in chosen : task[k].user = u
<1> DEFINE places == Admitting!Places(u) \ held
           few == {j \in places : Before(places, j) < quota}
           chosen == Admitting!Selected(u, quota, held)
           taken == [j \in few |-> line[j]]
<1>1. places \subseteq Nat
  BY DEF Admitting!Places
<1>2. IsFiniteSet(few) /\ Cardinality(few) <= quota
  <2> HIDE DEF places
  <2> QED
    BY <1>1, FirstFew
<1>3. chosen = {line[i] : i \in few}
  <2>1. \A j : Before(places, j) = Admitting!Cardinality({h \in places : h < j})
    BY SameCardinality DEF Before
  <2> DEFINE first == {j \in places : Admitting!Cardinality({h \in places : h < j}) < quota}
  <2>2. few = first
    <3> HIDE DEF places
    <3> QED
      BY <2>1
  <2>3. chosen = {line[i] : i \in first}
    BY Zenon DEF Admitting!Selected
  <2> HIDE DEF few, first, chosen
  <2> QED
    BY <2>2, <2>3
<1>4. \A k \in chosen : task[k].user = u
  <2> SUFFICES ASSUME NEW i \in few PROVE task[line[i]].user = u
    BY <1>3
  <2> QED
    BY DEF Admitting!Places
<1> HIDE DEF few, chosen
<1>5. taken \in Surjection(few, chosen)
  BY <1>3 DEF Surjection
<1>6. IsFiniteSet(chosen) /\ Cardinality(chosen) <= Cardinality(few)
  BY <1>2, <1>5, FS_Surjection
<1>7. Cardinality(chosen) \in Nat /\ Cardinality(few) \in Nat
  BY <1>2, <1>6, FS_CardinalityType
<1> QED
  BY <1>2, <1>4, <1>6, <1>7 DEF chosen

\* The shape of the state.
RouteNames == {"image", "canary", "direct", "video", "ppt"}
Cues == {"none", "event", "goroutine"}
TaskRows == [user : Users \cup {"none"}, route : RouteNames \cup {"none"},
             state : {"none", "queued", "dispatching", "running"}, cue : Cues,
             execution : {"none", "open", "closed"}, past : BOOLEAN]
Decisions == [user : Users, route : RouteNames, cue : Cues]

AdmissionShape ==
    /\ line \in Seq(Tasks)
    /\ task \in [Tasks -> TaskRows]
    /\ lock \in [Users -> Callers \cup Schedulers \cup {"free"}]
    /\ DOMAIN call = Callers
    /\ \A c \in Callers : \/ call[c] = Admitting!Idle
                          \/ call[c] \in Decisions
    /\ DOMAIN round = Schedulers
    /\ \A s \in Schedulers : round[s] = [todo |-> round[s].todo, quota |-> round[s].quota]
    /\ \A k \in Tasks : task[k].past => task[k].state = "running"

\* The tasks of a user at work that a scheduler sent there.
Sent(u) == {k \in Admitting!Running(u) : ~task[k].past}

\* A quota is used under the lock of the user it was counted for ...
QuotaIsLocked ==
    \A s \in Schedulers :
        round[s].quota > 0 => /\ round[s].todo # <<>>
                              /\ \A u \in Users : Head(round[s].todo) = u => lock[u] = s

\* ... and is still there then: what was sent and the quota are within the plan.
WithinPlan(u, quota) ==
    /\ IsFiniteSet(Admitting!Running(u))
    /\ Cardinality(Sent(u)) + quota <= Admitting!PlanConcurrency(u)

QuotaIsFree ==
    \A s \in Schedulers, u \in Users :
        round[s].quota > 0 /\ Head(round[s].todo) = u
            => round[s].quota \in Nat /\ WithinPlan(u, round[s].quota)

PlanIsKept == \A u \in Users : WithinPlan(u, 0)

AdmissionInv == AdmissionShape /\ QuotaIsLocked /\ QuotaIsFree /\ PlanIsKept

LEMMA PlanConcurrencyType ==
  ASSUME NEW u \in Users PROVE Admitting!PlanConcurrency(u) \in Nat
  BY DeliveryAssumption DEF Admitting!AdmissionAssumption, Admitting!PlanConcurrency,
     Admitting!EnterpriseCap

\* Fewer tasks that were sent leave at least as much room.
LEMMA FewerRun ==
  ASSUME NEW u \in Users, NEW quota \in Nat, WithinPlan(u, quota), Sent(u)' \subseteq Sent(u),
         NEW k, Admitting!Running(u)' \subseteq Admitting!Running(u) \cup {k}
  PROVE  WithinPlan(u, quota)'
<1> DEFINE run == Admitting!Running(u)
           runP == Admitting!Running(u)'
           sent == Sent(u)
           sentP == Sent(u)'
<1>1. IsFiniteSet(run) /\ Cardinality(sent) + quota <= Admitting!PlanConcurrency(u)
  BY Zenon DEF WithinPlan
<1>2. sentP \in SUBSET sent /\ runP \in SUBSET (run \cup {k}) /\ sent \in SUBSET run
  <2>1. sent \in SUBSET run
    BY DEF Sent
  <2> QED
    BY <2>1, Zenon
<1>3. Admitting!PlanConcurrency(u)' = Admitting!PlanConcurrency(u)
  BY DEF Admitting!PlanConcurrency
<1> HIDE DEF run, runP, sent, sentP
<1>4. IsFiniteSet(runP)
  BY <1>1, <1>2, FS_AddElement, FS_Subset
<1>5. IsFiniteSet(sent)
  BY <1>1, <1>2, FS_Subset
<1>6. IsFiniteSet(sentP) /\ Cardinality(sentP) <= Cardinality(sent)
  BY <1>2, <1>5, FS_Subset
<1>7. Cardinality(sentP) \in Nat /\ Cardinality(sent) \in Nat
  BY <1>5, <1>6, FS_CardinalityType
<1>8. Cardinality(sentP) + quota <= Admitting!PlanConcurrency(u)
  BY <1>1, <1>6, <1>7, PlanConcurrencyType
<1> QED
  BY <1>3, <1>4, <1>8, Zenon DEF WithinPlan, runP, sentP

\* A step that sends no task out, sets at most one going, leaves a lock to whoever has
\* a quota for it and gives no quota keeps the plans.
NobodySent ==
    \A u \in Users : /\ Sent(u)' \subseteq Sent(u)
                     /\ \E k : Admitting!Running(u)' \subseteq Admitting!Running(u) \cup {k}

LocksKept ==
    \A s \in Schedulers, u \in Users : lock[u] = s => lock'[u] = s

LEMMA NobodySentInv ==
  ASSUME QuotaIsLocked, QuotaIsFree, PlanIsKept, NobodySent, LocksKept, UNCHANGED round
  PROVE  QuotaIsLocked' /\ QuotaIsFree' /\ PlanIsKept'
<1>1. QuotaIsLocked'
  BY DEF QuotaIsLocked, LocksKept
<1>2. QuotaIsFree'
  <2> SUFFICES ASSUME NEW s \in Schedulers, NEW u \in Users, round[s].quota > 0,
                      Head(round[s].todo) = u, NEW q, q = round[s].quota
               PROVE  q \in Nat /\ WithinPlan(u, q)'
    BY DEF QuotaIsFree, WithinPlan
  <2>1. q \in Nat /\ WithinPlan(u, q)
    BY DEF QuotaIsFree
  <2>2. /\ Sent(u)' \subseteq Sent(u)
        /\ \E k : Admitting!Running(u)' \subseteq Admitting!Running(u) \cup {k}
    BY DEF NobodySent
  <2> QED
    BY <2>1, <2>2, FewerRun
<1>3. PlanIsKept'
  BY FewerRun DEF PlanIsKept, NobodySent
<1> QED
  BY <1>1, <1>2, <1>3

LEMMA AdmissionInit == Admitting!Init => AdmissionInv
<1> SUFFICES ASSUME Admitting!Init PROVE AdmissionInv
  OBVIOUS
<1>1. AdmissionShape
  <2> USE DEF Admitting!Init
  <2>1. line \in Seq(Tasks)
    OBVIOUS
  <2>2. task \in [Tasks -> TaskRows] /\ \A k \in Tasks : ~task[k].past
    BY DEF Admitting!NoTask, TaskRows, Cues
  <2>3. lock \in [Users -> Callers \cup Schedulers \cup {"free"}]
    OBVIOUS
  <2>4. DOMAIN call = Callers /\ \A c \in Callers : call[c] = Admitting!Idle
    OBVIOUS
  <2>5. /\ DOMAIN round = Schedulers
        /\ \A s \in Schedulers : round[s] = [todo |-> round[s].todo, quota |-> round[s].quota]
    BY DEF Admitting!NoRound
  <2> QED
    BY <2>1, <2>2, <2>3, <2>4, <2>5 DEF AdmissionShape
<1>3. QuotaIsLocked /\ QuotaIsFree
  BY DEF Admitting!Init, Admitting!NoRound, QuotaIsLocked, QuotaIsFree
<1>4. PlanIsKept
  <2> SUFFICES ASSUME NEW u \in Users PROVE WithinPlan(u, 0)
    BY DEF PlanIsKept
  <2>1. Admitting!Running(u) = {} /\ Sent(u) = {}
    BY DEF Admitting!Init, Admitting!NoTask, Admitting!Running, Sent
  <2>2. IsFiniteSet({}) /\ Cardinality({}) = 0
    BY FS_EmptySet
  <2> QED
    BY <2>1, <2>2, PlanConcurrencyType DEF WithinPlan
<1> QED
  BY <1>1, <1>3, <1>4 DEF AdmissionInv

\* Giving up a lock leaves the locks of the others.
LEMMA OthersKeepTheirLocks ==
  ASSUME NEW h, AdmissionShape, lock' = Admitting!Unlocked(h)
  PROVE  \A s : \A u \in Users : s # h /\ lock[u] = s => lock'[u] = s
  BY DEF Admitting!Unlocked

LEMMA CallersAreNoSchedulers ==
  /\ \A c \in Callers : c \notin Schedulers /\ c # "free"
  /\ \A s \in Schedulers : s \notin Callers /\ s # "free"
  BY DeliveryAssumption DEF Admitting!AdmissionAssumption

LEMMA UnlockedType ==
  ASSUME NEW h, AdmissionShape
  PROVE  Admitting!Unlocked(h) \in [Users -> Callers \cup Schedulers \cup {"free"}]
  BY DEF Admitting!Unlocked, AdmissionShape

LEMMA ExpireInv ==
  ASSUME AdmissionInv, NEW v, Admitting!Expire(v)
  PROVE  AdmissionInv'
<1> USE DEF Admitting!Expire
<1>1. AdmissionShape'
  BY DEF AdmissionInv, AdmissionShape
<1>2. NobodySent /\ LocksKept
  BY DEF NobodySent, Sent, LocksKept, Admitting!Running
<1> QED
  BY <1>1, <1>2, NobodySentInv DEF AdmissionInv

LEMMA CheckAdmissionInv ==
  ASSUME AdmissionInv, NEW c \in Callers, NEW v \in Users, NEW route \in Routes(v),
         Admitting!CheckAdmission(c, v, route)
  PROVE  AdmissionInv'
<1> DEFINE cue == call'[c].cue
           decided == [user |-> v, route |-> route, cue |-> cue]
<1>1. \E can : call' = [call EXCEPT ![c] = [user |-> v, route |-> route,
                                            cue |-> Admitting!Cue(route, can)]]
  BY DEF Admitting!CheckAdmission
<1>2. PICK can : call' = [call EXCEPT ![c] = [user |-> v, route |-> route,
                                             cue |-> Admitting!Cue(route, can)]]
  BY <1>1
<1>3. UNCHANGED <<line, task, expired, round, recoveries>>
  BY DEF Admitting!CheckAdmission
<1>4. lock' = lock \/ (lock[v] = "free" /\ lock' = [lock EXCEPT ![v] = c])
  BY DEF Admitting!CheckAdmission, Admitting!Free
<1>5. route \in RouteNames /\ Admitting!Cue(route, can) \in Cues
  <2>1. Routes(v) \subseteq RouteNames
    BY DeliveryAssumption, Zenon DEF Admitting!AdmissionAssumption, RouteNames
  <2>2. Admitting!Cue(route, can) \in Cues
    BY <2>1 DEF Admitting!Cue, RouteNames, Cues
  <2> QED
    BY <2>1, <2>2
<1>6. AdmissionShape'
  <2>1. [user |-> v, route |-> route, cue |-> Admitting!Cue(route, can)] \in Decisions
    BY <1>5 DEF Decisions
  <2> QED
    BY <1>2, <1>3, <1>4, <2>1 DEF AdmissionInv, AdmissionShape
<1>8. NobodySent
  BY <1>3 DEF NobodySent, Sent, Admitting!Running
<1>9. LocksKept
  BY <1>4, CallersAreNoSchedulers DEF LocksKept, AdmissionInv, AdmissionShape
<1> QED
  BY <1>3, <1>6, <1>8, <1>9, NobodySentInv DEF AdmissionInv

LEMMA CommitTaskInv ==
  ASSUME AdmissionInv, NEW c \in Callers, NEW k \in Tasks, Admitting!CommitTask(c, k)
  PROVE  AdmissionInv'
<1> USE DEF Admitting!CommitTask
<1>1. call[c] \in Decisions
  BY DEF AdmissionInv, AdmissionShape
<1>2. AdmissionShape'
  <2>1. line' \in Seq(Tasks)
    BY DEF AdmissionInv, AdmissionShape
  <2>2. task' \in [Tasks -> TaskRows]
    <3> DEFINE new == [user |-> call[c].user, route |-> call[c].route,
                       state |-> "queued", cue |-> call[c].cue,
                       execution |-> "none", past |-> FALSE]
    <3>1. new \in TaskRows
      BY <1>1 DEF Decisions, TaskRows
    <3>2. task' = [task EXCEPT ![k] = new]
      OBVIOUS
    <3> HIDE DEF new
    <3> QED
      BY <3>1, <3>2 DEF AdmissionInv, AdmissionShape
  <2>3. lock' \in [Users -> Callers \cup Schedulers \cup {"free"}]
    BY UnlockedType DEF AdmissionInv
  <2> QED
    BY <2>1, <2>2, <2>3 DEF AdmissionInv, AdmissionShape
<1>4. NobodySent
  BY DEF AdmissionInv, AdmissionShape, NobodySent, Sent, Admitting!Running
<1>5. LocksKept
  BY OthersKeepTheirLocks, CallersAreNoSchedulers DEF AdmissionInv, LocksKept
<1> QED
  BY <1>2, <1>4, <1>5, NobodySentInv DEF AdmissionInv

LEMMA RollBackInv ==
  ASSUME AdmissionInv, NEW c \in Callers, Admitting!RollBack(c)
  PROVE  AdmissionInv'
<1> USE DEF Admitting!RollBack
<1>1. AdmissionShape'
  BY UnlockedType DEF AdmissionInv, AdmissionShape
<1>3. NobodySent
  BY DEF NobodySent, Sent, Admitting!Running
<1>4. LocksKept
  BY OthersKeepTheirLocks, CallersAreNoSchedulers DEF AdmissionInv, LocksKept
<1> QED
  BY <1>1, <1>3, <1>4, NobodySentInv DEF AdmissionInv

\* The candidates of a round have no quota yet.
LEMMA TickInv ==
  ASSUME AdmissionInv, NEW s \in Schedulers, Admitting!Tick(s)
  PROVE  AdmissionInv'
<1> USE DEF Admitting!Tick
<1>1. AdmissionShape'
  BY DEF AdmissionInv, AdmissionShape
<1>3. round[s].quota > 0 => FALSE
  BY DEF AdmissionInv, QuotaIsLocked
<1>4. \A r \in Schedulers : round'[r].quota > 0 => r # s /\ round'[r] = round[r]
  BY <1>3 DEF AdmissionInv, AdmissionShape
<1>5. QuotaIsLocked'
  BY <1>4 DEF AdmissionInv, QuotaIsLocked
<1>6. \A u : Admitting!Running(u)' = Admitting!Running(u) /\ Sent(u)' = Sent(u)
  BY DEF Admitting!Running, Sent
<1>7. \A u, q : WithinPlan(u, q)' <=> WithinPlan(u, q)
  BY <1>6 DEF WithinPlan, Admitting!PlanConcurrency
<1>8. QuotaIsFree' /\ PlanIsKept'
  BY <1>4, <1>7 DEF AdmissionInv, QuotaIsFree, PlanIsKept
<1> QED
  BY <1>1, <1>5, <1>8 DEF AdmissionInv

\* A quota is counted under the lock.
LEMMA LockUserInv ==
  ASSUME AdmissionInv, NEW s \in Schedulers, Admitting!LockUser(s)
  PROVE  AdmissionInv'
<1> DEFINE v == Head(round[s].todo)
           room == Admitting!Available(v)
           quota == IF BatchTasksPerUser < room THEN BatchTasksPerUser ELSE room
<1>1. /\ round[s].todo # <<>> /\ round[s].quota = 0 /\ lock[v] = "free"
      /\ UNCHANGED <<line, task, expired, call, recoveries>>
  BY DEF Admitting!LockUser, Admitting!Free
<1>2. \/ round' = [round EXCEPT ![s].todo = Tail(@)] /\ lock' = lock
      \/ /\ ~(room <= 0) /\ round' = [round EXCEPT ![s].quota = quota]
         /\ lock' = [lock EXCEPT ![v] = s]
  BY DEF Admitting!LockUser
<1>3. AdmissionShape'
  BY <1>1, <1>2 DEF AdmissionInv, AdmissionShape
<1>4. \A u, q : WithinPlan(u, q)' <=> WithinPlan(u, q)
  <2>1. \A u : Admitting!Running(u)' = Admitting!Running(u) /\ Sent(u)' = Sent(u)
    BY <1>1 DEF Admitting!Running, Sent
  <2> QED
    BY <2>1 DEF WithinPlan, Admitting!PlanConcurrency
<1>5. PlanIsKept'
  BY <1>4 DEF AdmissionInv, PlanIsKept
<1>6. CASE round' = [round EXCEPT ![s].todo = Tail(@)] /\ lock' = lock
  <2>1. \A r \in Schedulers : round'[r].quota > 0 => r # s /\ round'[r] = round[r]
    BY <1>1, <1>6 DEF AdmissionInv, AdmissionShape
  <2>2. QuotaIsLocked'
    BY <1>6, <2>1 DEF AdmissionInv, QuotaIsLocked
  <2>3. QuotaIsFree'
    BY <1>4, <2>1 DEF AdmissionInv, QuotaIsFree
  <2> QED
    BY <1>3, <1>5, <2>2, <2>3 DEF AdmissionInv
<1>7. CASE /\ ~(room <= 0) /\ round' = [round EXCEPT ![s].quota = quota]
           /\ lock' = [lock EXCEPT ![v] = s]
  <2>1. /\ round'[s].todo = round[s].todo /\ round'[s].quota = quota
        /\ \A r \in Schedulers : r # s => round'[r] = round[r]
    BY <1>7 DEF AdmissionInv, AdmissionShape
  <2> HIDE DEF quota
  <2>2. QuotaIsLocked'
    <3> SUFFICES ASSUME NEW r \in Schedulers, round'[r].quota > 0
                 PROVE  /\ round'[r].todo # <<>>
                        /\ \A u \in Users : Head(round'[r].todo) = u => lock'[u] = r
      BY DEF QuotaIsLocked
    <3>1. CASE r = s
      BY <1>1, <1>7, <2>1, <3>1 DEF AdmissionInv, AdmissionShape
    <3>2. CASE r # s
      <4>1. /\ round[r].todo # <<>>
            /\ \A u \in Users : Head(round[r].todo) = u => lock[u] = r
        BY <2>1, <3>2 DEF AdmissionInv, QuotaIsLocked
      <4>2. \A u \in Users : lock[u] = r => lock'[u] = r
        BY <1>1, <1>7, CallersAreNoSchedulers DEF AdmissionInv, AdmissionShape
      <4> QED
        BY <2>1, <3>2, <4>1, <4>2
    <3> QED
      BY <3>1, <3>2
  <2>3. QuotaIsFree'
    <3> SUFFICES ASSUME NEW r \in Schedulers, NEW u \in Users, round'[r].quota > 0,
                        Head(round'[r].todo) = u
                 PROVE  round'[r].quota \in Nat /\ WithinPlan(u, round'[r].quota)
      BY <1>4 DEF QuotaIsFree
    <3>1. CASE r # s
      BY <2>1, <3>1 DEF AdmissionInv, QuotaIsFree
    <3>2. CASE r = s
      <4>1. u = v
        BY <2>1, <3>2
      <4>2. WithinPlan(u, 0)
        BY DEF AdmissionInv, PlanIsKept
      <4>3. /\ IsFiniteSet(Admitting!Running(u))
            /\ Cardinality(Admitting!Running(u)) \in Nat /\ Cardinality(Sent(u)) \in Nat
            /\ Cardinality(Sent(u)) <= Cardinality(Admitting!Running(u))
        <5>1. IsFiniteSet(Admitting!Running(u)) /\ Sent(u) \in SUBSET Admitting!Running(u)
          BY <4>2 DEF WithinPlan, Sent
        <5> QED
          BY <5>1, FS_CardinalityType, FS_Subset
      <4>4. room \in Int /\ room <= Admitting!PlanConcurrency(u) - Cardinality(Admitting!Running(u))
        <5>1. Concurrency(u) \in Nat
          BY DeliveryAssumption DEF Admitting!AdmissionAssumption
        <5>2. Admitting!Cardinality(Admitting!Running(u)) = Cardinality(Admitting!Running(u))
          BY SameCardinality
        <5> QED
          BY <4>1, <4>3, <5>1, <5>2
          DEF Admitting!Available, Admitting!Profile, Admitting!PlanConcurrency,
              Admitting!EnterpriseCap, Admitting!FreeConcurrency
      <4>5. BatchTasksPerUser \in Nat /\ BatchTasksPerUser > 0
        BY DeliveryAssumption DEF Admitting!AdmissionAssumption
      <4> HIDE DEF room, v
      <4>6. quota \in Nat /\ quota <= room
        BY <1>7, <4>4, <4>5 DEF quota
      <4>7. Cardinality(Sent(u)) + quota <= Admitting!PlanConcurrency(u)
        BY <4>3, <4>4, <4>6, PlanConcurrencyType
      <4> QED
        BY <2>1, <3>2, <4>3, <4>6, <4>7 DEF WithinPlan
    <3> QED
      BY <3>1, <3>2
  <2> QED
    BY <1>3, <1>5, <2>2, <2>3 DEF AdmissionInv
<1> QED
  BY <1>2, <1>6, <1>7

\* What the scheduler selects for a user fits into his quota, and the quota is gone
\* with the lock.
LEMMA DispatchUserInv ==
  ASSUME AdmissionInv, NEW s \in Schedulers, Admitting!DispatchUser(s)
  PROVE  AdmissionInv'
<1>1. PICK v \in Users : \E held \in SUBSET Admitting!Places(v) : Admitting!DispatchExcept(s, v, held)
  BY Zenon DEF Admitting!DispatchUser
<1>2. PICK held : Admitting!DispatchExcept(s, v, held)
  BY <1>1, Zenon
<1> DEFINE quota == round[s].quota
           chosen == Admitting!Selected(v, quota, held)
<1>3. /\ quota > 0 /\ v = Head(round[s].todo) /\ lock' = Admitting!Unlocked(s)
      /\ task' = [k \in Tasks |-> IF k \in chosen THEN [task[k] EXCEPT !.state = "dispatching"]
                                                  ELSE task[k]]
      /\ round' = [round EXCEPT ![s] = [todo |-> Tail(@.todo), quota |-> 0]]
      /\ UNCHANGED <<line, expired, call, recoveries>>
  BY <1>2 DEF Admitting!DispatchExcept
<1> HIDE DEF chosen
<1>4. AdmissionShape'
  <2>1. \A k \in Tasks : task'[k] \in TaskRows
    <3> SUFFICES ASSUME NEW k \in Tasks PROVE task'[k] \in TaskRows
      OBVIOUS
    <3>1. task[k] \in TaskRows
      BY DEF AdmissionInv, AdmissionShape
    <3>2. [task[k] EXCEPT !.state = "dispatching"] \in TaskRows
      BY <3>1 DEF TaskRows
    <3> QED
      BY <1>3, <3>1, <3>2
  <2>2. task' \in [Tasks -> TaskRows]
    BY <1>3, <2>1
  <2>3. lock' \in [Users -> Callers \cup Schedulers \cup {"free"}]
    BY <1>3, UnlockedType DEF AdmissionInv
  <2>4. \A k \in Tasks : task'[k].past => task'[k].state = "running"
    <3>1. \A k \in chosen : task[k].state = "queued"
      BY DEF chosen, Admitting!Selected, Admitting!Places, Admitting!Schedulable,
         Admitting!Waiting
    <3>2. \A k \in Tasks : task[k] \in TaskRows /\ (task[k].past => task[k].state = "running")
      BY DEF AdmissionInv, AdmissionShape
    <3> QED
      BY <1>3, <3>1, <3>2 DEF TaskRows
  <2> QED
    BY <1>3, <2>2, <2>3, <2>4 DEF AdmissionInv, AdmissionShape
<1>5. \A k \in Tasks : task'[k].user = task[k].user /\ task'[k].past = task[k].past
  BY <1>3 DEF AdmissionInv, AdmissionShape, TaskRows
<1>6. \A r \in Schedulers : round'[r].quota > 0 => r # s /\ round'[r] = round[r]
  BY <1>3 DEF AdmissionInv, AdmissionShape
<1>7. \A r \in Schedulers, u \in Users : r # s /\ lock[u] = r => lock'[u] = r
  BY <1>3, OthersKeepTheirLocks DEF AdmissionInv
<1>8. QuotaIsLocked'
  BY <1>6, <1>7 DEF AdmissionInv, QuotaIsLocked
<1>9. \A k \in chosen : task[k].user = v
  BY DEF chosen, Admitting!Selected, Admitting!Places
<1>10. \A u \in Users : u # v => /\ Admitting!Running(u)' \subseteq Admitting!Running(u)
                              /\ Sent(u)' \subseteq Sent(u)
  <2> SUFFICES ASSUME NEW u \in Users, u # v
               PROVE  /\ Admitting!Running(u)' \subseteq Admitting!Running(u)
                      /\ Sent(u)' \subseteq Sent(u)
    OBVIOUS
  <2>1. \A k \in Admitting!Running(u)' : k \in Tasks /\ task'[k].user = u
    BY DEF Admitting!Running
  <2>2. \A k \in Admitting!Running(u)' : task'[k] = task[k]
    BY <1>3, <1>5, <1>9, <2>1
  <2>3. Admitting!Running(u)' \subseteq Admitting!Running(u)
    BY <2>1, <2>2 DEF Admitting!Running
  <2> QED
    BY <2>2, <2>3 DEF Sent
<1>11. QuotaIsFree'
  <2> SUFFICES ASSUME NEW r \in Schedulers, NEW u \in Users, round'[r].quota > 0,
                      Head(round'[r].todo) = u, NEW q, q = round'[r].quota
               PROVE  q \in Nat /\ WithinPlan(u, q)'
    BY DEF QuotaIsFree, WithinPlan
  <2>1. r # s /\ round'[r] = round[r]
    BY <1>6
  <2>2. q \in Nat /\ WithinPlan(u, q) /\ lock[u] = r
    BY <2>1 DEF AdmissionInv, QuotaIsFree, QuotaIsLocked
  <2>3. u # v
    BY <1>3, <2>1, <2>2 DEF AdmissionInv, QuotaIsLocked
  <2> QED
    BY <1>10, <2>2, <2>3, FewerRun
<1>12. PlanIsKept'
  <2> SUFFICES ASSUME NEW u \in Users PROVE WithinPlan(u, 0)'
    BY DEF PlanIsKept
  <2>1. WithinPlan(u, 0)
    BY DEF AdmissionInv, PlanIsKept
  <2>2. CASE u # v
    BY <1>10, <2>1, <2>2, FewerRun
  <2>3. CASE u = v
    <3> DEFINE run == Admitting!Running(u)
               runP == Admitting!Running(u)'
               sent == Sent(u)
               sentP == Sent(u)'
               plan == Admitting!PlanConcurrency(u)
    <3>1. quota \in Nat /\ IsFiniteSet(run) /\ Cardinality(sent) + quota <= plan
      BY <1>3, <2>3 DEF AdmissionInv, QuotaIsFree, WithinPlan
    <3>2. IsFiniteSet(chosen) /\ Cardinality(chosen) <= quota
      <4>1. line \in Seq(Tasks)
        BY DEF AdmissionInv, AdmissionShape
      <4> QED
        BY <3>1, <4>1, SelectedIsSmall DEF chosen
    <3>3. /\ runP \in SUBSET (run \cup chosen) /\ sentP \in SUBSET (sent \cup chosen)
          /\ sent \in SUBSET run
      <4>1. \A k \in runP : k \notin chosen => k \in Tasks /\ task'[k] = task[k]
        BY <1>3 DEF Admitting!Running
      <4>2. \A k \in runP : k \notin chosen => k \in run
        BY <4>1 DEF Admitting!Running
      <4> QED
        BY <4>1, <4>2 DEF Sent
    <3>4. Admitting!PlanConcurrency(u)' = plan /\ plan \in Nat
      BY PlanConcurrencyType DEF Admitting!PlanConcurrency
    <3> HIDE DEF run, runP, sent, sentP, plan, quota
    <3>5. IsFiniteSet(sent)
      BY <3>1, <3>3, FS_Subset
    <3>6. /\ IsFiniteSet(sent \cup chosen)
          /\ Cardinality(sent \cup chosen)
               = Cardinality(sent) + Cardinality(chosen) - Cardinality(sent \cap chosen)
          /\ IsFiniteSet(sent \cap chosen) /\ IsFiniteSet(run \cup chosen)
      BY <3>1, <3>2, <3>5, FS_Union, FS_Intersection
    <3>7. /\ IsFiniteSet(sentP) /\ Cardinality(sentP) <= Cardinality(sent \cup chosen)
          /\ IsFiniteSet(runP)
      BY <3>3, <3>6, FS_Subset
    <3>8. /\ Cardinality(sent) \in Nat /\ Cardinality(chosen) \in Nat
          /\ Cardinality(sent \cap chosen) \in Nat /\ Cardinality(sentP) \in Nat
      BY <3>2, <3>5, <3>6, <3>7, FS_CardinalityType
    <3>9. Cardinality(sentP) + 0 <= plan
      BY <3>1, <3>2, <3>4, <3>6, <3>7, <3>8
    <3> QED
      BY <3>4, <3>7, <3>9, Zenon DEF WithinPlan, runP, sentP
  <2> QED
    BY <2>2, <2>3
<1> QED
  BY <1>4, <1>8, <1>11, <1>12 DEF AdmissionInv

\* Steps of one task that is neither sent by a scheduler nor counted for one.
OneTask(k, new) ==
    /\ task' = [task EXCEPT ![k] = new]
    /\ UNCHANGED <<line, expired, lock, call, round>>

LEMMA OneTaskInv ==
  ASSUME AdmissionInv, NEW k \in Tasks, NEW new \in TaskRows, OneTask(k, new),
         new.user = task[k].user \/ new.state = "none",
         \/ new.state \in {"none", "queued"} \/ new.past
         \/ task[k].state \in {"dispatching", "running"} /\ new.past = task[k].past,
         new.past => new.state = "running"
  PROVE  AdmissionInv'
<1>1. /\ task' \in [Tasks -> TaskRows] /\ task'[k] = new
      /\ \A j \in Tasks : j # k => task'[j] = task[j]
  BY DEF OneTask, AdmissionInv, AdmissionShape
<1>2. AdmissionShape' /\ UNCHANGED round
  BY <1>1 DEF OneTask, AdmissionInv, AdmissionShape
<1>3. LocksKept
  BY DEF OneTask, LocksKept
<1>4. NobodySent
  <2> SUFFICES ASSUME NEW u \in Users
               PROVE  /\ Sent(u)' \subseteq Sent(u)
                      /\ Admitting!Running(u)' \subseteq Admitting!Running(u) \cup {k}
    BY DEF NobodySent
  <2>1. \A j \in Admitting!Running(u)' : j = k \/ j \in Admitting!Running(u)
    BY <1>1 DEF Admitting!Running
  <2>2. \A j \in Sent(u)' : j # k => j \in Sent(u)
    BY <1>1 DEF Sent, Admitting!Running
  <2>3. k \in Sent(u)' => k \in Sent(u)
    BY <1>1 DEF Sent, Admitting!Running
  <2> QED
    BY <2>1, <2>2, <2>3
<1> QED
  BY <1>2, <1>3, <1>4, NobodySentInv DEF AdmissionInv

\* The fields of a row stay what they are.
LEMMA RowOf ==
  ASSUME AdmissionInv, NEW k \in Tasks
  PROVE  /\ task[k] \in TaskRows /\ task \in [Tasks -> TaskRows]
         /\ task[k] = [user |-> task[k].user, route |-> task[k].route, state |-> task[k].state,
                       cue |-> task[k].cue, execution |-> task[k].execution,
                       past |-> task[k].past]
         /\ task[k].past => task[k].state = "running"
  BY DEF AdmissionInv, AdmissionShape, TaskRows

LEMMA RecoverStaleInv ==
  ASSUME AdmissionInv, NEW k \in Tasks, Admitting!RecoverStale(k)
  PROVE  AdmissionInv'
<1> DEFINE new == [task[k] EXCEPT !.state = "queued", !.past = FALSE]
<1>1. OneTask(k, new)
  BY RowOf DEF OneTask, Admitting!RecoverStale
<1>2. /\ new \in TaskRows /\ new.user = task[k].user
      /\ new.state = "queued"
      /\ new.past => new.state = "running"
  BY RowOf DEF TaskRows, Admitting!RecoverStale
<1> HIDE DEF new
<1> QED
  BY <1>1, <1>2, OneTaskInv

\* A task that is claimed was counted by the scheduler, or comes past it.
LEMMA ClaimInv ==
  ASSUME AdmissionInv, NEW k \in Tasks, Admitting!Claim(k)
  PROVE  AdmissionInv'
<1> DEFINE new == [task[k] EXCEPT !.state = "running", !.past = (task[k].state = "queued")]
<1>1. OneTask(k, new)
  BY RowOf DEF OneTask, Admitting!Claim
<1>2. /\ new \in TaskRows /\ new.user = task[k].user
      /\ \/ new.past
         \/ task[k].state = "dispatching" /\ new.past = task[k].past
      /\ new.past => new.state = "running"
  <2>1. task[k].state \in {"dispatching", "queued"} /\ task[k] \in TaskRows
    BY RowOf DEF Admitting!Claim
  <2>2. task[k].past => task[k].state = "running"
    BY DEF AdmissionInv, AdmissionShape
  <2>3. /\ new.user = task[k].user /\ new.state = "running"
        /\ new.past = (task[k].state = "queued") /\ task[k].past \in BOOLEAN
    BY <2>1 DEF TaskRows
  <2>4. new \in TaskRows
    BY <2>1 DEF TaskRows
  <2> HIDE DEF new
  <2> QED
    BY <2>1, <2>2, <2>3, <2>4
<1> HIDE DEF new
<1> QED
  BY <1>1, <1>2, OneTaskInv

LEMMA ClaimAgainInv ==
  ASSUME AdmissionInv, NEW k \in Tasks, Admitting!ClaimAgain(k)
  PROVE  AdmissionInv'
<1> DEFINE new == [task[k] EXCEPT !.state = "running", !.past = TRUE]
<1>1. OneTask(k, new)
  BY RowOf DEF OneTask, Admitting!ClaimAgain
<1>2. /\ new \in TaskRows /\ new.user = task[k].user
      /\ new.past
      /\ new.past => new.state = "running"
  BY RowOf DEF TaskRows, Admitting!ClaimAgain
<1> HIDE DEF new
<1> QED
  BY <1>1, <1>2, OneTaskInv

LEMMA ExecuteInv ==
  ASSUME AdmissionInv, NEW k \in Tasks, Admitting!Execute(k)
  PROVE  AdmissionInv'
<1> DEFINE new == [task[k] EXCEPT !.execution = "open"]
<1>1. OneTask(k, new)
  BY RowOf DEF OneTask, Admitting!Execute
<1>2. /\ new \in TaskRows /\ new.user = task[k].user
      /\ task[k].state = "running" /\ new.past = task[k].past
      /\ new.past => new.state = "running"
  BY RowOf DEF TaskRows, Admitting!Execute
<1> HIDE DEF new
<1> QED
  BY <1>1, <1>2, OneTaskInv

LEMMA ExecutionEndsInv ==
  ASSUME AdmissionInv, NEW k \in Tasks, Admitting!ExecutionEnds(k)
  PROVE  AdmissionInv'
<1> DEFINE new == [task[k] EXCEPT !.execution = "closed"]
<1>1. OneTask(k, new)
  BY RowOf DEF OneTask, Admitting!ExecutionEnds
<1>2. /\ new \in TaskRows /\ new.user = task[k].user
      /\ new.state = "queued"
      /\ new.past => new.state = "running"
  BY RowOf DEF TaskRows, Admitting!ExecutionEnds
<1> HIDE DEF new
<1> QED
  BY <1>1, <1>2, OneTaskInv

LEMMA FinishInv ==
  ASSUME AdmissionInv, NEW k \in Tasks, Admitting!Finish(k)
  PROVE  AdmissionInv'
<1>1. /\ task' = [task EXCEPT ![k] = Admitting!NoTask]
      /\ UNCHANGED <<expired, lock, call, round, recoveries>>
  BY DEF Admitting!Finish
<1>2. line' \in Seq(Tasks)
  <2>1. line \in Seq(Tasks)
    BY DEF AdmissionInv, AdmissionShape
  <2>2. PICK i \in DOMAIN line : line' = Admitting!RemoveAt(line, i)
    BY DEF Admitting!Finish
  <2>3. line' = SubSeq(line, 1, i - 1) \o SubSeq(line, i + 1, Len(line))
    BY <2>2 DEF Admitting!RemoveAt
  <2>4. i \in 1 .. Len(line) /\ Len(line) \in Nat
    BY <2>1
  <2>5. SubSeq(line, 1, i - 1) \in Seq(Tasks) /\ SubSeq(line, i + 1, Len(line)) \in Seq(Tasks)
    BY <2>1, <2>4
  <2> QED
    BY <2>3, <2>5
<1>3. AdmissionShape'
  BY <1>1, <1>2 DEF AdmissionInv, AdmissionShape, TaskRows, Cues, Admitting!NoTask
<1>4. NobodySent /\ LocksKept
  BY <1>1 DEF AdmissionInv, AdmissionShape, NobodySent, Sent, LocksKept, Admitting!Running,
     Admitting!NoTask
<1> QED
  BY <1>1, <1>3, <1>4, NobodySentInv DEF AdmissionInv

LEMMA AdmissionNext ==
  AdmissionInv /\ [Admitting!Next]_admissionVars => AdmissionInv'
<1> SUFFICES ASSUME AdmissionInv, [Admitting!Next]_admissionVars PROVE AdmissionInv'
  OBVIOUS
<1>1. CASE UNCHANGED admissionVars
  <2>1. AdmissionShape'
    BY <1>1 DEF admissionVars, AdmissionInv, AdmissionShape
  <2>2. NobodySent /\ LocksKept /\ UNCHANGED round
    BY <1>1 DEF admissionVars, NobodySent, LocksKept, Sent, Admitting!Running
  <2> QED
    BY <2>1, <2>2, NobodySentInv DEF AdmissionInv
<1>2. CASE Admitting!Next
  <2>1. ASSUME NEW c \in Callers, NEW u \in Users, NEW route \in Routes(u),
               Admitting!CheckAdmission(c, u, route)
        PROVE  AdmissionInv'
    BY <2>1, CheckAdmissionInv
  <2>2. ASSUME NEW k \in Tasks,
               \/ Admitting!RecoverStale(k) \/ Admitting!Claim(k) \/ Admitting!ClaimAgain(k)
               \/ Admitting!Execute(k) \/ Admitting!ExecutionEnds(k) \/ Admitting!Finish(k)
        PROVE  AdmissionInv'
    BY <2>2, RecoverStaleInv, ClaimInv, ClaimAgainInv, ExecuteInv, ExecutionEndsInv, FinishInv
  <2>3. ASSUME NEW s \in Schedulers,
               Admitting!Tick(s) \/ Admitting!LockUser(s) \/ Admitting!DispatchUser(s)
        PROVE  AdmissionInv'
    BY <2>3, TickInv, LockUserInv, DispatchUserInv
  <2>4. ASSUME NEW u \in Users, Admitting!Expire(u) PROVE AdmissionInv'
    BY <2>4, ExpireInv
  <2>5. ASSUME NEW c \in Callers,
               Admitting!RollBack(c) \/ \E k \in Tasks : Admitting!CommitTask(c, k)
        PROVE  AdmissionInv'
    BY <2>5, RollBackInv, CommitTaskInv
  <2> QED
    BY <1>2, <2>1, <2>2, <2>3, <2>4, <2>5, Zenon DEF Admitting!Next
<1> QED
  BY <1>1, <1>2

\* A user never has more tasks at work that a scheduler sent there than his plan
\* allows (checkPostgresGenerationAdmissionTx, dispatchUserTx,
\* RecoverStaleDispatches, claimGenerationDispatchOwnershipTx).
THEOREM SentWithinPlanTheorem == Admitting!Spec => []SentWithinPlan
<1>1. AdmissionInv /\ [Admitting!Next]_(Admitting!vars) => AdmissionInv'
  BY AdmissionNext DEF Admitting!vars, admissionVars
<1>2. AdmissionInv => SentWithinPlan
  <2> SUFFICES ASSUME AdmissionInv, NEW u \in Users
               PROVE  Admitting!Cardinality({k \in Admitting!Running(u) : ~task[k].past})
                        <= Admitting!PlanConcurrency(u)
    BY Zenon DEF SentWithinPlan, Admitting!SentWithinPlan
  <2>1. WithinPlan(u, 0)
    BY DEF AdmissionInv, PlanIsKept
  <2>2. Sent(u) \in SUBSET Admitting!Running(u)
    BY DEF Sent
  <2>3. Cardinality(Sent(u)) \in Nat
    BY <2>1, <2>2, FS_CardinalityType, FS_Subset DEF WithinPlan
  <2>4. Cardinality(Sent(u)) <= Admitting!PlanConcurrency(u)
    BY <2>1, <2>3, PlanConcurrencyType DEF WithinPlan
  <2> QED
    BY <2>4, SameCardinality DEF Sent
<1> QED
  BY <1>1, <1>2, AdmissionInit, PTL DEF Admitting!Spec

-----------------------------------------------------------------------------
(* The outbox and the queues.                                               *)

\* In a finite set of numbers some member has exactly i members before it.
LEMMA EveryPlaceIsTaken ==
  ASSUME NEW S, S \subseteq Nat, IsFiniteSet(S), NEW i \in 1 .. Cardinality(S)
  PROVE  \E e \in S : Before(S, e) = i - 1
<1> DEFINE n == Cardinality(S)
           place == [e \in S |-> Before(S, e)]
<1>1. n \in Nat
  BY FS_CardinalityType
<1>2. IsFiniteSet(0 .. n - 1) /\ Cardinality(0 .. n - 1) = n
  <2> HIDE DEF n
  <2> QED
    BY <1>1, FS_Interval
<1>3. ASSUME NEW e \in S PROVE Before(S, e) \in 0 .. n - 1
  <2> DEFINE below == {h \in S : h < e}
  <2>1. below \in SUBSET S /\ e \notin below
    <3>1. e \in Nat
      OBVIOUS
    <3> QED
      BY <3>1
  <2> HIDE DEF below
  <2>2. IsFiniteSet(below) /\ Cardinality(below) <= n
    BY <2>1, FS_Subset
  <2>3. Cardinality(below) # n
    BY <2>1, FS_Subset
  <2>4. Cardinality(below) \in Nat
    BY <2>2, FS_CardinalityType
  <2> QED
    BY <1>1, <2>2, <2>3, <2>4 DEF Before, below
<1>4. \A d \in S, e \in S : place[d] = place[e] => d = e
  BY BeforeIsDistinct
<1>5. place \in [S -> 0 .. n - 1]
  BY <1>3
<1> HIDE DEF place
<1>6. place \in Injection(S, 0 .. n - 1)
  BY <1>4, <1>5 DEF Injection, IsInjective
<1>7. place \in Surjection(S, 0 .. n - 1)
  BY <1>2, <1>6, FS_Injection
<1>8. i - 1 \in 0 .. n - 1
  BY <1>1
<1>9. PICK e \in S : place[e] = i - 1
  BY <1>7, <1>8 DEF Surjection
<1> QED
  BY <1>9 DEF place

\* A batch in order holds exactly the claimed rows, each once.
LEMMA InOrderIsRight ==
  ASSUME NEW S, S \subseteq Events
  PROVE  LET s == Relay!InOrder(S)
         IN  /\ s \in Seq(S)
             /\ \A i \in DOMAIN s, j \in DOMAIN s : s[i] = s[j] => i = j
<1> DEFINE s == Relay!InOrder(S)
           n == Cardinality(S)
           Rank(e) == Relay!Cardinality({f \in S : f < e})
           At(i) == CHOOSE e \in S : Rank(e) = i - 1
<1>1. S \subseteq Nat /\ IsFiniteSet(S)
  <2>1. IsFiniteSet(Events) /\ Events \subseteq Nat
    BY DeliveryAssumption, SameCardinality DEF Relay!RelayAssumption
  <2> QED
    BY <2>1, FS_Subset
<1>2. s = [i \in 1 .. n |-> At(i)]
  <2>1. s = [i \in 1 .. Relay!Cardinality(S) |-> At(i)]
    BY Zenon DEF Relay!InOrder
  <2>2. Relay!Cardinality(S) = n
    BY SameCardinality
  <2> HIDE DEF At, n, s
  <2> QED
    BY <2>1, <2>2
<1>3. \A i \in 1 .. n : At(i) \in S /\ Rank(At(i)) = i - 1
  <2> SUFFICES ASSUME NEW i \in 1 .. n PROVE At(i) \in S /\ Rank(At(i)) = i - 1
    OBVIOUS
  <2>1. \E e \in S : Before(S, e) = i - 1
    BY <1>1, EveryPlaceIsTaken
  <2>2. \A e : Rank(e) = Before(S, e)
    BY SameCardinality DEF Before
  <2>3. \E e \in S : Rank(e) = i - 1
    BY <2>1, <2>2
  <2> HIDE DEF Rank
  <2> QED
    BY <2>3, Zenon
<1>4. n \in Nat
  BY <1>1, FS_CardinalityType
<1> HIDE DEF s, n, At, Rank
<1>5. s \in Seq(S)
  <2>1. s \in [1 .. n -> S]
    BY <1>2, <1>3
  <2> QED
    BY <1>4, <2>1
<1>6. ASSUME NEW i \in DOMAIN s, NEW j \in DOMAIN s, s[i] = s[j] PROVE i = j
  <2>1. i \in 1 .. n /\ j \in 1 .. n /\ s[i] = At(i) /\ s[j] = At(j)
    BY <1>2
  <2>2. i - 1 = j - 1
    BY <1>3, <1>6, <2>1
  <2> QED
    BY <1>4, <2>1, <2>2
<1> QED
  BY <1>5, <1>6 DEF s

Tries == 0 .. MaxRetries

OutboxRows == [status : {"none", "pending", "publishing", "published", "failed"},
               attempts : Nat, stale : BOOLEAN]

RelayShape ==
    /\ row \in [Events -> OutboxRows]
    /\ DOMAIN claimant = Events
    /\ batch \in [Publishers -> Seq(Events)]
    /\ answer \in [Publishers -> {"none", "confirmed", "error"}]
    /\ broker \in [Events \X Tries -> Nat]
    /\ DOMAIN delivery = Receivers
    /\ \A c \in Receivers :
          \/ delivery[c] = Relay!Idle
          \/ delivery[c] \in [step : {"handle", "ack", "republish", "nack"},
                              event : Events, retries : Tries]

\* A message is retried at most as often as the queue allows.
RetriesLeft ==
    \A c \in Receivers : delivery[c].step = "republish" => delivery[c].retries < MaxRetries

\* A copy of the event is stored, a consumer works on it that has not finished with it,
\* or some consumer has finished it.
InQueue(e) == \E n \in Tries : broker[<<e, n>>] > 0
AtWork(e) == \E c \in Receivers : /\ delivery[c].step \in {"handle", "republish", "nack"}
                                  /\ delivery[c].event = e
Finished(e) == e \in handled \/ e \in dead
Safe(e) == InQueue(e) \/ AtWork(e) \/ Finished(e)

\* A confirmed event is safe before its row says so, and after.
ConfirmedIsSafe ==
    \A p \in Publishers :
        /\ answer[p] # "none" => batch[p] # <<>>
        /\ \A e \in Events : answer[p] = "confirmed" /\ Head(batch[p]) = e => Safe(e)
PublishedIsSafe == \A e \in Events : row[e].status = "published" => Safe(e)

\* Every row of a batch is claimed by its publisher, and once, until a batch outlives its
\* lease.
Once(s) == \A i \in DOMAIN s, j \in DOMAIN s : s[i] = s[j] => i = j
Held(p, e) == row[e].status = "publishing" /\ ~row[e].stale /\ claimant[e] = p
BatchesAreHeld ==
    \A p \in Publishers :
        /\ Once(batch[p])
        /\ "slow" \notin happened => \A i \in DOMAIN batch[p] : Held(p, batch[p][i])

RelayInv == RelayShape /\ RetriesLeft /\ ConfirmedIsSafe /\ PublishedIsSafe /\ BatchesAreHeld

LEMMA RelayConstants ==
  /\ MaxRetries \in Nat /\ Nobody \notin Publishers /\ Events \subseteq Nat
  /\ 0 \in Tries
  BY DeliveryAssumption DEF Relay!RelayAssumption, Tries

LEMMA MessagesAre == Relay!Messages = Events \X Tries
  BY DEF Relay!Messages, Tries

LEMMA RelayInit == Relay!Init => RelayInv
<1> SUFFICES ASSUME Relay!Init PROVE RelayInv
  OBVIOUS
<1> USE DEF Relay!Init
<1>1. RelayShape
  <2>1. row \in [Events -> OutboxRows]
    BY DEF OutboxRows
  <2>2. broker \in [Events \X Tries -> Nat]
    BY MessagesAre
  <2>3. batch \in [Publishers -> Seq(Events)]
    OBVIOUS
  <2> QED
    BY <2>1, <2>2, <2>3 DEF RelayShape
<1>2. RetriesLeft
  BY DEF RetriesLeft, Relay!Idle
<1>3. ConfirmedIsSafe /\ PublishedIsSafe
  BY DEF ConfirmedIsSafe, PublishedIsSafe
<1>4. BatchesAreHeld
  BY DEF BatchesAreHeld, Once
<1> QED
  BY <1>1, <1>2, <1>3, <1>4 DEF RelayInv

\* What keeps every safe event safe and touches neither rows nor batches keeps the
\* invariant.
SafetyKept == \A e \in Events : Safe(e) => Safe(e)'

LEMMA ConsumerStep ==
  ASSUME RelayInv, UNCHANGED <<row, claimant, batch, answer>>, happened \subseteq happened',
         SafetyKept, RelayShape', RetriesLeft'
  PROVE  RelayInv'
<1>1. ConfirmedIsSafe'
  BY DEF RelayInv, ConfirmedIsSafe, SafetyKept
<1>2. PublishedIsSafe'
  BY DEF RelayInv, PublishedIsSafe, SafetyKept
<1>3. BatchesAreHeld'
  BY DEF RelayInv, BatchesAreHeld, Held
<1> QED
  BY <1>1, <1>2, <1>3 DEF RelayInv

\* One more copy of a message.
LEMMA OneMoreCopy ==
  ASSUME RelayShape, NEW m \in Relay!Messages, broker' = [broker EXCEPT ![m] = @ + 1]
  PROVE  /\ broker' \in [Events \X Tries -> Nat]
         /\ \A e \in Events : InQueue(e) => InQueue(e)'
         /\ InQueue(m[1])'
<1>1. broker \in [Events \X Tries -> Nat] /\ m \in Events \X Tries
  BY MessagesAre DEF RelayShape
<1>2. broker' \in [Events \X Tries -> Nat]
  BY <1>1
<1>3. \A x \in Events \X Tries : broker'[x] >= broker[x]
  BY <1>1
<1>4. broker'[m] > 0
  BY <1>1
<1>5. \A e \in Events : InQueue(e) => InQueue(e)'
  BY <1>1, <1>2, <1>3 DEF InQueue
<1>6. InQueue(m[1])'
  <2>1. m = <<m[1], m[2]>> /\ m[2] \in Tries
    BY <1>1
  <2>2. broker'[<<m[1], m[2]>>] > 0
    BY <1>4, <2>1
  <2> QED
    BY <2>1, <2>2 DEF InQueue
<1> QED
  BY <1>2, <1>5, <1>6

\* What a consumer does with its delivery.
Working == [step : {"handle", "ack", "republish", "nack"}, event : Events, retries : Tries]

LEMMA DeliveryType ==
  ASSUME RelayShape, NEW c \in Receivers, delivery[c].step # "idle"
  PROVE  delivery[c] \in Working
  BY DEF RelayShape, Relay!Idle, Working

\* The other deliveries stay as they are.
LEMMA ThenIs ==
  ASSUME RelayShape, NEW c \in Receivers, NEW step \in {"idle", "ack", "republish", "nack"},
         delivery[c].step # "idle", Relay!Then(c, step)
  PROVE  /\ DOMAIN delivery' = Receivers
         /\ \A d \in Receivers : d # c => delivery'[d] = delivery[d]
         /\ step = "idle" => delivery'[c] = Relay!Idle
         /\ step # "idle" => /\ delivery'[c] \in Working
                             /\ delivery'[c].step = step
                             /\ delivery'[c].event = delivery[c].event
                             /\ delivery'[c].retries = delivery[c].retries
<1>1. delivery[c] \in Working
  BY DeliveryType
<1>2. [delivery[c] EXCEPT !.step = step] \in Working \/ step = "idle"
  BY <1>1 DEF Working
<1>3. /\ [delivery[c] EXCEPT !.step = step].step = step
      /\ [delivery[c] EXCEPT !.step = step].event = delivery[c].event
      /\ [delivery[c] EXCEPT !.step = step].retries = delivery[c].retries
  BY <1>1 DEF Working
<1>4. DOMAIN delivery = Receivers
  BY DEF RelayShape
<1>5. delivery' = [delivery EXCEPT ![c] = IF step = "idle" THEN Relay!Idle
                                          ELSE [delivery[c] EXCEPT !.step = step]]
  BY Zenon DEF Relay!Then
<1> DEFINE next == [delivery[c] EXCEPT !.step = step]
<1> HIDE DEF next
<1>6. delivery'[c] = (IF step = "idle" THEN Relay!Idle ELSE next)
  BY <1>4, <1>5 DEF next
<1>7. /\ DOMAIN delivery' = Receivers
      /\ \A d \in Receivers : d # c => delivery'[d] = delivery[d]
  BY <1>4, <1>5
<1> QED
  BY <1>2, <1>3, <1>6, <1>7 DEF next

\* The shape after a step that changes one delivery.
LEMMA ShapeAfter ==
  ASSUME RelayShape, NEW c \in Receivers, UNCHANGED <<row, claimant, batch, answer>>,
         broker' \in [Events \X Tries -> Nat],
         DOMAIN delivery' = Receivers,
         \A d \in Receivers : d # c => delivery'[d] = delivery[d],
         delivery'[c] = Relay!Idle \/ delivery'[c] \in Working
  PROVE  RelayShape'
  BY DEF RelayShape, Working, Relay!Idle

\* A consumer takes a copy.
LEMMA ReceiveInv ==
  ASSUME RelayInv, NEW c \in Receivers, NEW m \in Relay!Messages, Relay!Receive(c, m)
  PROVE  RelayInv'
<1> DEFINE taken == [step |-> "handle", event |-> m[1], retries |-> m[2]]
<1>1. /\ delivery[c] = Relay!Idle /\ broker[m] > 0
      /\ broker' = [broker EXCEPT ![m] = @ - 1]
      /\ delivery' = [delivery EXCEPT ![c] = taken]
      /\ UNCHANGED <<row, claimant, batch, answer, handled, dead, happened>>
  BY DEF Relay!Receive, Relay!relayVars
<1>2. m \in Events \X Tries /\ m = <<m[1], m[2]>> /\ m[1] \in Events /\ m[2] \in Tries
  BY MessagesAre
<1>3. RelayShape
  BY DEF RelayInv
<1>4. /\ broker' \in [Events \X Tries -> Nat]
      /\ \A x \in Events \X Tries : x # m => broker'[x] = broker[x]
  BY <1>1, <1>2, <1>3 DEF RelayShape
<1>5. taken \in Working
  BY <1>2 DEF Working
<1>6. /\ DOMAIN delivery' = Receivers /\ delivery'[c] = taken
      /\ \A d \in Receivers : d # c => delivery'[d] = delivery[d]
  BY <1>1, <1>3 DEF RelayShape
<1>7. RelayShape'
  <2> HIDE DEF taken
  <2> QED
    BY <1>1, <1>3, <1>4, <1>5, <1>6, ShapeAfter
<1>8. RetriesLeft'
  BY <1>6 DEF RelayInv, RetriesLeft
<1>9. AtWork(m[1])'
  BY <1>6 DEF AtWork
<1>10. \A e \in Events : AtWork(e) => AtWork(e)'
  BY <1>1, <1>6 DEF AtWork, Relay!Idle
<1>11. \A e \in Events : InQueue(e) => InQueue(e)' \/ AtWork(e)'
  <2> SUFFICES ASSUME NEW e \in Events, NEW n \in Tries, broker[<<e, n>>] > 0, e # m[1]
               PROVE  broker'[<<e, n>>] > 0
    BY <1>9 DEF InQueue
  <2>1. <<e, n>> \in Events \X Tries /\ <<e, n>> # m
    BY <1>2
  <2> QED
    BY <1>4, <2>1
<1>12. SafetyKept
  BY <1>1, <1>10, <1>11 DEF SafetyKept, Safe, Finished
<1> QED
  BY <1>1, <1>7, <1>8, <1>12, ConsumerStep

LEMMA HandleInv ==
  ASSUME RelayInv, NEW c \in Receivers, Relay!Handle(c)
  PROVE  RelayInv'
<1>1. /\ delivery[c].step = "handle"
      /\ UNCHANGED <<row, claimant, batch, answer, broker, happened>>
      /\ \/ /\ handled' = handled \cup {delivery[c].event} /\ Relay!Then(c, "ack")
            /\ dead' = dead
         \/ /\ dead' = dead \cup {delivery[c].event} /\ Relay!Then(c, "idle")
            /\ handled' = handled
         \/ /\ delivery[c].retries < MaxRetries /\ Relay!Then(c, "republish")
            /\ handled' = handled /\ dead' = dead
  BY DEF Relay!Handle, Relay!relayVars
<1>2. PICK step \in {"idle", "ack", "republish"} :
         /\ Relay!Then(c, step)
         /\ step = "republish" => delivery[c].retries < MaxRetries
         /\ step # "republish" => delivery[c].event \in handled' \cup dead'
  BY <1>1
<1>3. handled \subseteq handled' /\ dead \subseteq dead'
  BY <1>1
<1>4. RelayShape
  BY DEF RelayInv
<1>5. /\ DOMAIN delivery' = Receivers
      /\ \A r \in Receivers : r # c => delivery'[r] = delivery[r]
      /\ step = "idle" => delivery'[c] = Relay!Idle
      /\ step # "idle" => /\ delivery'[c] \in Working
                          /\ delivery'[c].step = step
                          /\ delivery'[c].event = delivery[c].event
                          /\ delivery'[c].retries = delivery[c].retries
  BY <1>1, <1>2, <1>4, ThenIs
<1>6. RelayShape'
  <2>1. broker' \in [Events \X Tries -> Nat]
    BY <1>1, <1>4 DEF RelayShape
  <2> QED
    BY <1>1, <1>4, <1>5, <2>1, ShapeAfter
<1>7. RetriesLeft'
  BY <1>2, <1>5 DEF RelayInv, RetriesLeft, Relay!Idle
<1>8. SafetyKept
  <2> SUFFICES ASSUME NEW e \in Events, Safe(e) PROVE Safe(e)'
    BY DEF SafetyKept
  <2>1. CASE InQueue(e)
    BY <1>1, <2>1 DEF InQueue, Safe
  <2>2. CASE Finished(e)
    BY <1>3, <2>2 DEF Finished, Safe
  <2>3. CASE AtWork(e)
    <3>1. PICK r \in Receivers : /\ delivery[r].step \in {"handle", "republish", "nack"}
                                 /\ delivery[r].event = e
      BY <2>3 DEF AtWork
    <3>2. CASE r # c
      BY <1>5, <3>1, <3>2 DEF AtWork, Safe
    <3>3. CASE r = c /\ step = "republish"
      BY <1>5, <3>1, <3>3 DEF AtWork, Safe
    <3>4. CASE r = c /\ step # "republish"
      BY <1>2, <3>1, <3>4 DEF Finished, Safe
    <3> QED
      BY <3>2, <3>3, <3>4
  <2> QED
    BY <2>1, <2>2, <2>3 DEF Safe
<1> QED
  BY <1>1, <1>6, <1>7, <1>8, ConsumerStep

\* A consumer ends its delivery or goes on with it, the queue loses nothing, and what it
\* stops working on is in the queue or finished.
LEMMA DeliveryStep ==
  ASSUME RelayInv, NEW c \in Receivers, NEW step \in {"idle", "ack", "nack"},
         NEW f, f = delivery[c].event,
         delivery[c].step # "idle", Relay!Then(c, step),
         UNCHANGED <<row, claimant, batch, answer, handled, dead>>,
         happened \subseteq happened',
         broker' \in [Events \X Tries -> Nat],
         \A e \in Events : InQueue(e) => InQueue(e)',
         \/ step = "nack"
         \/ delivery[c].step = "ack"
         \/ InQueue(f)'
  PROVE  RelayInv'
<1>1. RelayShape
  BY DEF RelayInv
<1>2. /\ DOMAIN delivery' = Receivers
      /\ \A r \in Receivers : r # c => delivery'[r] = delivery[r]
      /\ step = "idle" => delivery'[c] = Relay!Idle
      /\ step # "idle" => /\ delivery'[c] \in Working
                          /\ delivery'[c].step = step
                          /\ delivery'[c].event = delivery[c].event
  BY <1>1, ThenIs
<1>3. RelayShape'
  BY <1>1, <1>2, ShapeAfter
<1>4. RetriesLeft'
  BY <1>2 DEF RelayInv, RetriesLeft, Relay!Idle
<1>5. SafetyKept
  <2> SUFFICES ASSUME NEW e \in Events, Safe(e) PROVE Safe(e)'
    BY DEF SafetyKept
  <2>1. CASE InQueue(e) \/ Finished(e)
    BY <2>1 DEF Safe, Finished
  <2>2. CASE AtWork(e)
    <3>1. PICK r \in Receivers : /\ delivery[r].step \in {"handle", "republish", "nack"}
                                 /\ delivery[r].event = e
      BY <2>2 DEF AtWork
    <3>2. CASE r # c \/ step = "nack"
      BY <1>2, <3>1, <3>2 DEF AtWork, Safe
    <3>3. CASE r = c /\ step # "nack"
      BY <3>1, <3>3 DEF Safe
    <3> QED
      BY <3>2, <3>3
  <2> QED
    BY <2>1, <2>2 DEF Safe
<1> QED
  BY <1>3, <1>4, <1>5, ConsumerStep

LEMMA AcknowledgeInv ==
  ASSUME RelayInv, NEW c \in Receivers, Relay!Acknowledge(c)
  PROVE  RelayInv'
<1>1. /\ delivery[c].step = "ack" /\ Relay!Then(c, "idle")
      /\ UNCHANGED <<row, claimant, batch, answer, broker, handled, dead, happened>>
  BY DEF Relay!Acknowledge, Relay!relayVars
<1>2. broker' \in [Events \X Tries -> Nat] /\ \A e \in Events : InQueue(e) => InQueue(e)'
  BY <1>1 DEF RelayInv, RelayShape, InQueue
<1> QED
  BY <1>1, <1>2, DeliveryStep

LEMMA RequeuedInv ==
  ASSUME RelayInv, NEW c \in Receivers, delivery[c].step # "idle", Relay!Requeued(c),
         happened \subseteq happened'
  PROVE  RelayInv'
<1>1. PICK m : m = <<delivery[c].event, delivery[c].retries>>
  OBVIOUS
<1>2. /\ broker' = [broker EXCEPT ![m] = @ + 1] /\ Relay!Then(c, "idle")
      /\ UNCHANGED <<row, claimant, batch, answer, handled, dead>>
  BY <1>1 DEF Relay!Requeued, Relay!relayVars
<1>3. m \in Relay!Messages
  <2>1. delivery[c] \in Working
    BY DeliveryType DEF RelayInv
  <2> QED
    BY <1>1, <2>1, MessagesAre DEF Working
<1>4. /\ broker' \in [Events \X Tries -> Nat] /\ \A e \in Events : InQueue(e) => InQueue(e)'
      /\ InQueue(m[1])'
  BY <1>2, <1>3, OneMoreCopy DEF RelayInv
<1>5. PICK f : f = m[1]
  OBVIOUS
<1>6. f = delivery[c].event /\ InQueue(f)'
  BY <1>1, <1>4, <1>5
<1> QED
  BY <1>2, <1>4, <1>6, DeliveryStep

LEMMA NackInv ==
  ASSUME RelayInv, NEW c \in Receivers, Relay!Nack(c) PROVE RelayInv'
<1>1. delivery[c].step # "idle" /\ Relay!Requeued(c) /\ happened \subseteq happened'
  BY DEF Relay!Nack
<1> QED
  BY <1>1, RequeuedInv

LEMMA DropInv ==
  ASSUME RelayInv, NEW c \in Receivers, Relay!Drop(c) PROVE RelayInv'
<1>1. Relay!Requeued(c) /\ delivery[c] # Relay!Idle /\ happened \subseteq happened'
  BY DEF Relay!Drop, Relay!Strikes
<1>2. delivery[c].step # "idle"
  BY <1>1 DEF RelayInv, RelayShape
<1> QED
  BY <1>1, <1>2, RequeuedInv

\* The copy that is sent to the retry queue has a retry count the queue knows, and the
\* original goes only when the copy is there.
LEMMA RepublishInv ==
  ASSUME RelayInv, NEW c \in Receivers, Relay!Republish(c)
  PROVE  RelayInv'
<1>1. PICK f : f = delivery[c].event
  OBVIOUS
<1>2. PICK m : m = <<f, delivery[c].retries + 1>>
  OBVIOUS
<1>3. /\ delivery[c].step = "republish"
      /\ UNCHANGED <<row, claimant, batch, answer, handled, dead, happened>>
  BY DEF Relay!Republish, Relay!relayVars
<1>4. \/ /\ broker' = [broker EXCEPT ![m] = @ + 1]
         /\ Relay!Then(c, "ack") \/ Relay!Then(c, "nack")
      \/ Relay!Then(c, "nack") /\ UNCHANGED broker
  BY <1>1, <1>2 DEF Relay!Republish, Relay!NextCount, Relay!AfterRepublish
<1>5. m \in Relay!Messages
  <2>1. delivery[c] \in Working /\ delivery[c].retries < MaxRetries
    BY <1>3, DeliveryType DEF RelayInv, RetriesLeft
  <2>2. f \in Events /\ delivery[c].retries + 1 \in Tries
    BY <1>1, <2>1, RelayConstants DEF Working, Tries
  <2> QED
    BY <1>2, <2>2, MessagesAre
<1>6. CASE broker' = [broker EXCEPT ![m] = @ + 1]
  <2>1. /\ broker' \in [Events \X Tries -> Nat] /\ \A e \in Events : InQueue(e) => InQueue(e)'
        /\ InQueue(m[1])'
    BY <1>5, <1>6, OneMoreCopy DEF RelayInv
  <2>2. InQueue(f)'
    <3>1. m[1] = f
      BY <1>2
    <3> QED
      BY <2>1, <3>1
  <2>3. CASE Relay!Then(c, "ack")
    BY <1>1, <1>3, <2>1, <2>2, <2>3, DeliveryStep
  <2>4. CASE Relay!Then(c, "nack")
    BY <1>1, <1>3, <2>1, <2>4, DeliveryStep
  <2> QED
    BY <1>4, <2>3, <2>4
<1>7. CASE UNCHANGED broker /\ Relay!Then(c, "nack")
  <2>1. broker' \in [Events \X Tries -> Nat] /\ \A e \in Events : InQueue(e) => InQueue(e)'
    BY <1>7 DEF RelayInv, RelayShape, InQueue
  <2> QED
    BY <1>1, <1>3, <1>7, <2>1, DeliveryStep
<1> QED
  BY <1>4, <1>6, <1>7

\* A publisher takes nothing from the queue and nothing from a consumer.
LEMMA PublisherStep ==
  ASSUME RelayInv, UNCHANGED <<delivery, handled, dead>>,
         \A e \in Events : InQueue(e) => InQueue(e)'
  PROVE  RetriesLeft' /\ SafetyKept
<1>1. RetriesLeft'
  BY DEF RelayInv, RetriesLeft
<1>2. SafetyKept
  BY DEF SafetyKept, Safe, AtWork, Finished
<1> QED
  BY <1>1, <1>2

\* The same for the publishers' steps that leave the queue alone.
LEMMA QuietStep ==
  ASSUME RelayInv, UNCHANGED <<broker, delivery, handled, dead>>
  PROVE  RetriesLeft' /\ SafetyKept
<1>1. \A e \in Events : InQueue(e) => InQueue(e)'
  BY DEF InQueue
<1> QED
  BY <1>1, PublisherStep

LEMMA InsertInv ==
  ASSUME RelayInv, NEW e \in Events, Relay!Insert(e)
  PROVE  RelayInv'
<1>1. /\ row[e].status = "none" /\ row' = [row EXCEPT ![e].status = "pending"]
      /\ UNCHANGED <<claimant, batch, answer, broker, delivery, handled, dead, happened>>
  BY DEF Relay!Insert, Relay!consumerVars
<1>2. RetriesLeft' /\ SafetyKept
  BY <1>1, QuietStep
<1>3. RelayShape'
  <2>1. row' \in [Events -> OutboxRows]
    BY <1>1 DEF RelayInv, RelayShape, OutboxRows
  <2> QED
    BY <1>1, <2>1 DEF RelayInv, RelayShape
<1>4. ConfirmedIsSafe'
  BY <1>1, <1>2 DEF RelayInv, ConfirmedIsSafe, SafetyKept
<1>5. PublishedIsSafe'
  BY <1>1, <1>2 DEF RelayInv, RelayShape, OutboxRows, PublishedIsSafe, SafetyKept
<1>6. BatchesAreHeld'
  BY <1>1 DEF RelayInv, RelayShape, OutboxRows, BatchesAreHeld, Held
<1> QED
  BY <1>2, <1>3, <1>4, <1>5, <1>6 DEF RelayInv

\* A claim in somebody's batch goes stale only when that publisher is slow.
LEMMA ClaimGoesStaleInv ==
  ASSUME RelayInv, NEW e \in Events, Relay!ClaimGoesStale(e)
  PROVE  RelayInv'
<1>1. /\ row[e].status = "publishing" /\ row' = [row EXCEPT ![e].stale = TRUE]
      /\ UNCHANGED <<claimant, batch, answer, broker, delivery, handled, dead>>
      /\ happened \subseteq happened'
      /\ "slow" \notin happened' => ~Relay!InBatch(e)
  BY DEF Relay!ClaimGoesStale, Relay!Strikes, Relay!consumerVars
<1>2. RetriesLeft' /\ SafetyKept
  BY <1>1, QuietStep
<1>3. RelayShape'
  <2>1. row' \in [Events -> OutboxRows]
    BY <1>1 DEF RelayInv, RelayShape, OutboxRows
  <2> QED
    BY <1>1, <2>1 DEF RelayInv, RelayShape
<1>4. ConfirmedIsSafe'
  BY <1>1, <1>2 DEF RelayInv, ConfirmedIsSafe, SafetyKept
<1>5. PublishedIsSafe'
  BY <1>1, <1>2 DEF RelayInv, RelayShape, OutboxRows, PublishedIsSafe, SafetyKept
<1>6. BatchesAreHeld'
  <2> SUFFICES ASSUME NEW p \in Publishers
               PROVE  /\ Once(batch[p])
                      /\ "slow" \notin happened' =>
                            \A i \in DOMAIN batch[p] : Held(p, batch[p][i])'
    BY <1>1 DEF BatchesAreHeld, Held
  <2>1. Once(batch[p])
    BY DEF RelayInv, BatchesAreHeld
  <2>2. ASSUME "slow" \notin happened', NEW i \in DOMAIN batch[p] PROVE Held(p, batch[p][i])'
    <3>1. batch[p][i] # e
      BY <1>1, <2>2 DEF Relay!InBatch
    <3>2. Held(p, batch[p][i]) /\ batch[p][i] \in Events
      BY <1>1, <2>2 DEF RelayInv, RelayShape, BatchesAreHeld
    <3> QED
      BY <1>1, <3>1, <3>2 DEF RelayInv, RelayShape, OutboxRows, Held
  <2> QED
    BY <2>1, <2>2
<1> QED
  BY <1>2, <1>3, <1>4, <1>5, <1>6 DEF RelayInv

LEMMA PublisherCrashInv ==
  ASSUME RelayInv, NEW p \in Publishers, Relay!PublisherCrash(p)
  PROVE  RelayInv'
<1>1. /\ batch' = [batch EXCEPT ![p] = <<>>] /\ answer' = [answer EXCEPT ![p] = "none"]
      /\ UNCHANGED <<row, claimant, broker, delivery, handled, dead>>
      /\ happened \subseteq happened'
  BY DEF Relay!PublisherCrash, Relay!Strikes, Relay!consumerVars
<1>2. RetriesLeft' /\ SafetyKept
  BY <1>1, QuietStep
<1>3. RelayShape'
  BY <1>1 DEF RelayInv, RelayShape
<1>4. ConfirmedIsSafe'
  BY <1>1, <1>2 DEF RelayInv, RelayShape, ConfirmedIsSafe, SafetyKept
<1>5. PublishedIsSafe'
  BY <1>1, <1>2 DEF RelayInv, PublishedIsSafe, SafetyKept
<1>6. BatchesAreHeld'
  BY <1>1 DEF RelayInv, RelayShape, BatchesAreHeld, Held, Once
<1> QED
  BY <1>2, <1>3, <1>4, <1>5, <1>6 DEF RelayInv

\* A confirmed message is in the queue.
LEMMA PublishInv ==
  ASSUME RelayInv, NEW p \in Publishers, Relay!Publish(p)
  PROVE  RelayInv'
<1>1. PICK e : e = Head(batch[p])
  OBVIOUS
<1>2. /\ batch[p] # <<>> /\ answer[p] = "none"
      /\ UNCHANGED <<row, claimant, batch, delivery, handled, dead, happened>>
  BY DEF Relay!Publish, Relay!consumerVars
<1>3. PICK a \in {"confirmed", "error"} :
         /\ answer' = [answer EXCEPT ![p] = a]
         /\ \/ broker' = [broker EXCEPT ![<<e, 0>>] = @ + 1]
            \/ a = "error" /\ UNCHANGED broker
  BY <1>1 DEF Relay!Publish
<1>4. e \in Events
  BY <1>1, <1>2 DEF RelayInv, RelayShape
<1>5. PICK m : m = <<e, 0>>
  OBVIOUS
<1>6. m \in Relay!Messages /\ m[1] = e
  BY <1>4, <1>5, MessagesAre, RelayConstants
<1>7. /\ broker' \in [Events \X Tries -> Nat] /\ \A f \in Events : InQueue(f) => InQueue(f)'
      /\ a = "confirmed" => InQueue(e)'
  <2>1. CASE broker' = [broker EXCEPT ![m] = @ + 1]
    BY <1>6, <2>1, OneMoreCopy DEF RelayInv
  <2>2. CASE a = "error" /\ UNCHANGED broker
    BY <2>2 DEF RelayInv, RelayShape, InQueue
  <2> QED
    BY <1>3, <1>5, <2>1, <2>2
<1>8. RetriesLeft' /\ SafetyKept
  BY <1>2, <1>7, PublisherStep
<1>9. RelayShape'
  BY <1>2, <1>3, <1>7 DEF RelayInv, RelayShape
<1>10. ConfirmedIsSafe'
  <2> SUFFICES ASSUME NEW q \in Publishers
               PROVE  /\ answer'[q] # "none" => batch[q] # <<>>
                      /\ \A f \in Events :
                            answer'[q] = "confirmed" /\ Head(batch[q]) = f => Safe(f)'
    BY <1>2 DEF ConfirmedIsSafe
  <2>1. CASE q = p
    <3>1. answer'[p] = a /\ Head(batch[q]) = e /\ batch[q] # <<>>
      BY <1>1, <1>2, <1>3, <2>1 DEF RelayInv, RelayShape
    <3>2. a = "confirmed" => Safe(e)'
      BY <1>7 DEF Safe
    <3> QED
      BY <2>1, <3>1, <3>2
  <2>2. CASE q # p
    <3>1. answer'[q] = answer[q]
      BY <1>3, <2>2 DEF RelayInv, RelayShape
    <3> QED
      BY <1>8, <3>1 DEF RelayInv, ConfirmedIsSafe, SafetyKept
  <2> QED
    BY <2>1, <2>2
<1>11. PublishedIsSafe'
  BY <1>2, <1>8 DEF RelayInv, PublishedIsSafe, SafetyKept
<1>12. BatchesAreHeld'
  BY <1>2 DEF RelayInv, BatchesAreHeld, Held
<1> QED
  BY <1>8, <1>9, <1>10, <1>11, <1>12 DEF RelayInv

\* What may be claimed is in nobody's batch, as long as no batch has outlived its lease.
LEMMA RelayClaimInv ==
  ASSUME RelayInv, NEW p \in Publishers, Relay!Claim(p)
  PROVE  RelayInv'
<1>1. PICK S : /\ S = Relay!Oldest({e \in Events : Relay!Claimable(e)})
               /\ batch[p] = <<>>
               /\ row' = [e \in Events |-> IF e \in S THEN [row[e] EXCEPT !.status = "publishing",
                                                                          !.stale = FALSE]
                                           ELSE row[e]]
               /\ claimant' = [e \in Events |-> IF e \in S THEN p ELSE claimant[e]]
               /\ batch' = [batch EXCEPT ![p] = Relay!InOrder(S)]
               /\ UNCHANGED <<answer, broker, delivery, handled, dead, happened>>
  BY Zenon DEF Relay!Claim, Relay!consumerVars
<1>2. S \subseteq Events /\ \A e \in S : Relay!Claimable(e)
  BY <1>1 DEF Relay!Oldest
<1>3. PICK s : s = Relay!InOrder(S)
  OBVIOUS
<1>4. s \in Seq(S) /\ Once(s) /\ batch' = [batch EXCEPT ![p] = s]
  BY <1>1, <1>2, <1>3, InOrderIsRight DEF Once
<1>5. RetriesLeft' /\ SafetyKept
  BY <1>1, QuietStep
<1>6. \A e \in S : /\ row'[e].status = "publishing" /\ ~row'[e].stale /\ claimant'[e] = p
  <2> SUFFICES ASSUME NEW e \in S
               PROVE  row'[e].status = "publishing" /\ ~row'[e].stale /\ claimant'[e] = p
    OBVIOUS
  <2>1. e \in Events /\ row[e] \in OutboxRows
    BY <1>2 DEF RelayInv, RelayShape
  <2>2. row'[e] = [row[e] EXCEPT !.status = "publishing", !.stale = FALSE] /\ claimant'[e] = p
    BY <1>1, <2>1
  <2> QED
    BY <2>1, <2>2 DEF OutboxRows
<1>7. \A e \in Events : e \notin S => row'[e] = row[e] /\ claimant'[e] = claimant[e]
  BY <1>1
<1>8. RelayShape'
  <2>1. row' \in [Events -> OutboxRows]
    <3> SUFFICES ASSUME NEW e \in Events PROVE row'[e] \in OutboxRows
      BY <1>1
    <3>1. row[e] \in OutboxRows
      BY DEF RelayInv, RelayShape
    <3>2. [row[e] EXCEPT !.status = "publishing", !.stale = FALSE] \in OutboxRows
      BY <3>1 DEF OutboxRows
    <3> QED
      BY <1>1, <3>1, <3>2
  <2>2. batch' \in [Publishers -> Seq(Events)]
    <3>1. s \in Seq(Events)
      BY <1>2, <1>4
    <3> QED
      BY <1>4, <3>1 DEF RelayInv, RelayShape
  <2> QED
    BY <1>1, <2>1, <2>2 DEF RelayInv, RelayShape
<1>9. ConfirmedIsSafe'
  <2>1. answer[p] = "none"
    BY <1>1 DEF RelayInv, RelayShape, ConfirmedIsSafe
  <2> QED
    BY <1>1, <1>5, <2>1 DEF RelayInv, RelayShape, ConfirmedIsSafe, SafetyKept
<1>10. PublishedIsSafe'
  BY <1>5, <1>6, <1>7 DEF RelayInv, PublishedIsSafe, SafetyKept
<1>11. BatchesAreHeld'
  <2> SUFFICES ASSUME NEW q \in Publishers
               PROVE  /\ Once(batch'[q])
                      /\ "slow" \notin happened =>
                            \A i \in DOMAIN batch'[q] :
                               LET e == batch'[q][i]
                               IN  /\ row'[e].status = "publishing" /\ ~row'[e].stale
                                   /\ claimant'[e] = q
    BY <1>1 DEF BatchesAreHeld, Held, Once
  <2>1. CASE q = p
    <3>1. batch'[q] = s
      BY <1>4, <2>1 DEF RelayInv, RelayShape
    <3>2. \A i \in DOMAIN s : s[i] \in S
      BY <1>4
    <3> QED
      BY <1>4, <1>6, <2>1, <3>1, <3>2
  <2>2. CASE q # p
    <3>1. batch'[q] = batch[q] /\ batch[q] \in Seq(Events) /\ Once(batch[q])
      BY <1>4, <2>2 DEF RelayInv, RelayShape, BatchesAreHeld
    <3>2. ASSUME "slow" \notin happened, NEW i \in DOMAIN batch[q]
          PROVE  LET e == batch[q][i]
                 IN  row'[e].status = "publishing" /\ ~row'[e].stale /\ claimant'[e] = q
      <4>1. batch[q][i] \in Events /\ Held(q, batch[q][i])
        BY <3>1, <3>2 DEF RelayInv, BatchesAreHeld
      <4>2. batch[q][i] \notin S
        BY <1>2, <4>1 DEF Held, Relay!Claimable
      <4> QED
        BY <1>7, <4>1, <4>2 DEF Held
    <3> QED
      BY <3>1, <3>2
  <2> QED
    BY <2>1, <2>2
<1> QED
  BY <1>5, <1>8, <1>9, <1>10, <1>11 DEF RelayInv

\* The first row of the batch gets its mark, or the mark is lost; the rest is still held.
LEMMA MarkInv ==
  ASSUME RelayInv, NEW p \in Publishers, Relay!Mark(p)
  PROVE  RelayInv'
<1>1. PICK e : e = Head(batch[p])
  OBVIOUS
<1>2. /\ answer[p] # "none"
      /\ \/ /\ row' = [row EXCEPT ![e] = Relay!Marked(row[e], answer[p])]
            /\ \A f \in Events : f # e => claimant'[f] = claimant[f]
            /\ DOMAIN claimant' = Events
         \/ UNCHANGED <<row, claimant>>
      /\ happened \subseteq happened'
      /\ batch' = [batch EXCEPT ![p] = Tail(batch[p])]
      /\ answer' = [answer EXCEPT ![p] = "none"]
      /\ UNCHANGED <<broker, delivery, handled, dead>>
  BY <1>1 DEF Relay!Mark, Relay!Strikes, Relay!consumerVars, RelayInv, RelayShape
<1>3. batch[p] # <<>> /\ batch[p] \in Seq(Events) /\ e \in Events /\ e = batch[p][1]
  BY <1>1, <1>2 DEF RelayInv, RelayShape, ConfirmedIsSafe
<1>4. RetriesLeft' /\ SafetyKept
  BY <1>2, QuietStep
<1>5. \A f \in Events : f # e => row'[f] = row[f] /\ claimant'[f] = claimant[f]
  BY <1>2 DEF RelayInv, RelayShape
<1>6. row' \in [Events -> OutboxRows]
  <2>1. Relay!Marked(row[e], answer[p])
          \in OutboxRows
    <3>1. row[e] \in OutboxRows
      BY <1>3 DEF RelayInv, RelayShape
    <3>2. Relay!MarkedPublished(row[e]) \in OutboxRows
      BY <3>1 DEF OutboxRows, Relay!MarkedPublished
    <3>3. Relay!MarkedFailure(row[e]) \in OutboxRows
      BY <3>1 DEF OutboxRows, Relay!MarkedFailure
    <3> QED
      BY <3>2, <3>3 DEF Relay!Marked
  <2>2. row \in [Events -> OutboxRows]
    BY DEF RelayInv, RelayShape
  <2>3. CASE row' = [row EXCEPT ![e] = Relay!Marked(row[e], answer[p])]
    BY <2>1, <2>2, <2>3
  <2>4. CASE row' = row
    BY <2>2, <2>4
  <2> QED
    BY <1>2, <2>3, <2>4
<1>7. RelayShape'
  <2>1. Tail(batch[p]) \in Seq(Events)
    BY <1>3
  <2> QED
    BY <1>2, <1>6, <2>1 DEF RelayInv, RelayShape
<1>8. ConfirmedIsSafe'
  BY <1>2, <1>4 DEF RelayInv, RelayShape, ConfirmedIsSafe, SafetyKept
<1>9. PublishedIsSafe'
  <2> SUFFICES ASSUME NEW f \in Events, row'[f].status = "published" PROVE Safe(f)'
    BY DEF PublishedIsSafe
  <2>1. CASE row[f].status = "published"
    BY <1>4, <2>1 DEF RelayInv, PublishedIsSafe, SafetyKept
  <2>2. CASE row[f].status # "published"
    <3>1. f = e /\ row'[e] = Relay!Marked(row[e], answer[p])
      BY <1>2, <1>5, <2>2 DEF RelayInv, RelayShape
    <3>2. answer[p] = "confirmed"
      BY <1>3, <2>2, <3>1 DEF RelayInv, RelayShape, Relay!Marked, Relay!MarkedFailure
    <3>3. Safe(f)
      BY <1>1, <3>1, <3>2 DEF RelayInv, ConfirmedIsSafe
    <3> QED
      BY <1>4, <3>3 DEF SafetyKept
  <2> QED
    BY <2>1, <2>2
<1>10. BatchesAreHeld'
  <2> SUFFICES ASSUME NEW q \in Publishers
               PROVE  /\ Once(batch'[q])
                      /\ "slow" \notin happened' =>
                            \A i \in DOMAIN batch'[q] :
                               LET f == batch'[q][i]
                               IN  /\ row'[f].status = "publishing" /\ ~row'[f].stale
                                   /\ claimant'[f] = q
    BY DEF BatchesAreHeld, Held, Once
  <2>1. CASE q = p
    <3>1. batch'[q] = Tail(batch[p])
      BY <1>2, <2>1 DEF RelayInv, RelayShape
    <3>2. \A i \in DOMAIN Tail(batch[p]) :
             i + 1 \in DOMAIN batch[p] /\ i + 1 # 1 /\ Tail(batch[p])[i] = batch[p][i + 1]
      BY <1>3
    <3>3. Once(batch[p]) /\ 1 \in DOMAIN batch[p]
      BY <1>3 DEF RelayInv, BatchesAreHeld
    <3>4. \A i \in DOMAIN Tail(batch[p]) : i \in Nat
      BY <1>3
    <3>5. Once(Tail(batch[p]))
      <4> SUFFICES ASSUME NEW i \in DOMAIN Tail(batch[p]), NEW j \in DOMAIN Tail(batch[p]),
                          Tail(batch[p])[i] = Tail(batch[p])[j]
                   PROVE  i = j
        BY DEF Once
      <4>1. i + 1 = j + 1
        BY <3>2, <3>3 DEF Once
      <4> QED
        BY <3>4, <4>1
    <3>6. ASSUME "slow" \notin happened', NEW i \in DOMAIN Tail(batch[p])
          PROVE  LET f == Tail(batch[p])[i]
                 IN  row'[f].status = "publishing" /\ ~row'[f].stale /\ claimant'[f] = p
      <4>1. PICK f : f = batch[p][i + 1]
        OBVIOUS
      <4>2. f # e
        BY <1>3, <3>2, <3>3, <4>1 DEF Once
      <4>3. f \in Events /\ Held(p, f)
        BY <1>2, <1>3, <3>2, <3>6, <4>1 DEF RelayInv, BatchesAreHeld
      <4> QED
        BY <1>5, <3>2, <4>1, <4>2, <4>3 DEF Held
    <3> QED
      BY <2>1, <3>1, <3>5, <3>6
  <2>2. CASE q # p
    <3>1. batch'[q] = batch[q] /\ batch[q] \in Seq(Events) /\ Once(batch[q])
      BY <1>2, <2>2 DEF RelayInv, RelayShape, BatchesAreHeld
    <3>2. ASSUME "slow" \notin happened', NEW i \in DOMAIN batch[q]
          PROVE  LET f == batch[q][i]
                 IN  row'[f].status = "publishing" /\ ~row'[f].stale /\ claimant'[f] = q
      <4>1. batch[q][i] \in Events /\ Held(q, batch[q][i])
        BY <1>2, <3>1, <3>2 DEF RelayInv, BatchesAreHeld
      <4>2. Held(p, e)
        BY <1>2, <1>3, <3>2 DEF RelayInv, BatchesAreHeld
      <4>3. batch[q][i] # e
        BY <2>2, <4>1, <4>2 DEF Held
      <4> QED
        BY <1>5, <4>1, <4>3 DEF Held
    <3> QED
      BY <3>1, <3>2
  <2> QED
    BY <2>1, <2>2
<1> QED
  BY <1>4, <1>7, <1>8, <1>9, <1>10 DEF RelayInv

LEMMA RelayNext == RelayInv /\ [Relay!Next]_relayVars => RelayInv'
<1> SUFFICES ASSUME RelayInv, [Relay!Next]_relayVars PROVE RelayInv'
  OBVIOUS
<1>1. CASE UNCHANGED relayVars
  <2>1. RetriesLeft' /\ SafetyKept
    BY <1>1, QuietStep DEF relayVars
  <2>2. RelayShape'
    BY <1>1 DEF relayVars, RelayInv, RelayShape
  <2> QED
    BY <1>1, <2>1, <2>2, ConsumerStep DEF relayVars
<1>2. CASE Relay!Next
  BY <1>2, InsertInv, ClaimGoesStaleInv, RelayClaimInv, PublishInv, MarkInv, PublisherCrashInv,
     ReceiveInv, HandleInv, RepublishInv, AcknowledgeInv, NackInv, DropInv, Zenon
  DEF Relay!Next
<1> QED
  BY <1>1, <1>2

\* An event marked as published is with the broker or a consumer until some handler has
\* finished it or it is in the dead-letter queue, for any number of publishers, consumers,
\* batches, retries and faults (PublishPending, MarkPublished, handleDelivery).
THEOREM NothingLostTheorem == Relay!Spec => []NothingLost
<1>1. RelayInv => NothingLost
  <2> SUFFICES ASSUME RelayInv, NEW e \in Events, row[e].status = "published"
               PROVE  Relay!InBroker(e) \/ e \in handled \/ e \in dead
    BY Zenon DEF NothingLost, Relay!NothingLost
  <2>1. InQueue(e) \/ AtWork(e) \/ Finished(e)
    BY DEF RelayInv, PublishedIsSafe, Safe
  <2>2. InQueue(e) => Relay!InBroker(e)
    BY DEF InQueue, Tries, Relay!InBroker
  <2>3. AtWork(e) => Relay!InBroker(e)
    BY DEF AtWork, Relay!InBroker, Relay!Idle
  <2> QED
    BY <2>1, <2>2, <2>3 DEF Finished
<1>2. RelayInv /\ [Relay!Next]_(Relay!vars) => RelayInv'
  BY RelayNext DEF Relay!vars, relayVars
<1> QED
  BY <1>1, <1>2, RelayInit, PTL DEF Relay!Spec

\* As long as no batch has outlived its lease, a row leaves the claim of a publisher only
\* by that publisher's own mark, whatever the size of the batches and whoever crashes
\* (ClaimPending, MarkPublished, MarkFailure).
THEOREM ClaimsAreRespectedTheorem == Relay!Spec => ClaimsAreRespected
<1> DEFINE Respected ==
             "slow" \notin happened => \A p \in Publishers, e \in Events :
                /\ claimant[e] = p /\ row[e].status = "publishing" /\ ~row[e].stale
                /\ row'[e].status # "publishing"
                => /\ batch[p] # <<>> /\ Head(batch[p]) = e
                   /\ batch'[p] # batch[p]
<1>1. RelayInv /\ [Relay!Next]_(Relay!vars) => RelayInv'
  BY RelayNext DEF Relay!vars, relayVars
<1>2. RelayInv /\ [Relay!Next]_(Relay!vars) => [Respected]_(Relay!vars)
  <2> SUFFICES ASSUME RelayInv, Relay!Next, "slow" \notin happened,
                      NEW p \in Publishers, NEW e \in Events,
                      claimant[e] = p, row[e].status = "publishing", ~row[e].stale,
                      row'[e].status # "publishing"
               PROVE  batch[p] # <<>> /\ Head(batch[p]) = e /\ batch'[p] # batch[p]
    BY Zenon
  <2>1. row \in [Events -> OutboxRows]
    BY DEF RelayInv, RelayShape
  <2>2. ASSUME NEW f \in Events, Relay!Insert(f) PROVE FALSE
    BY <2>1, <2>2 DEF Relay!Insert, OutboxRows
  <2>3. ASSUME NEW f \in Events, Relay!ClaimGoesStale(f) PROVE FALSE
    BY <2>1, <2>3 DEF Relay!ClaimGoesStale, OutboxRows
  <2>4. ASSUME NEW q \in Publishers, Relay!Claim(q) PROVE FALSE
    <3>1. PICK S : row' = [f \in Events |-> IF f \in S THEN [row[f] EXCEPT !.status = "publishing",
                                                                          !.stale = FALSE]
                                            ELSE row[f]]
      BY <2>4, Zenon DEF Relay!Claim
    <3> QED
      BY <2>1, <3>1 DEF OutboxRows
  <2>5. ASSUME row' = row PROVE FALSE
    BY <2>5
  <2>6. ASSUME NEW q \in Publishers, Relay!Mark(q)
        PROVE  batch[p] # <<>> /\ Head(batch[p]) = e /\ batch'[p] # batch[p]
    <3>1. /\ answer[q] # "none" /\ batch' = [batch EXCEPT ![q] = Tail(@)]
          /\ \A f \in Events : f # Head(batch[q]) => row'[f] = row[f]
      BY <2>1, <2>6 DEF Relay!Mark
    <3>2. batch[q] # <<>> /\ batch[q] \in Seq(Events)
      BY <3>1 DEF RelayInv, RelayShape, ConfirmedIsSafe
    <3>3. Head(batch[q]) = e
      BY <3>1
    <3>4. claimant[e] = q
      <4>1. 1 \in DOMAIN batch[q] /\ batch[q][1] = e
        BY <3>2, <3>3
      <4> QED
        BY <4>1 DEF RelayInv, BatchesAreHeld, Held
    <3>5. Tail(batch[q]) # batch[q]
      <4>1. Len(Tail(batch[q])) # Len(batch[q])
        BY <3>2
      <4> QED
        BY <4>1
    <3>6. batch'[q] = Tail(batch[q])
      BY <3>1 DEF RelayInv, RelayShape
    <3> QED
      BY <3>2, <3>3, <3>4, <3>5, <3>6
  <2>7. ASSUME NEW q \in Publishers, Relay!Publish(q) \/ Relay!PublisherCrash(q) PROVE FALSE
    BY <2>5, <2>7 DEF Relay!Publish, Relay!PublisherCrash
  <2>8. ASSUME NEW c \in Receivers,
               \/ \E m \in Relay!Messages : Relay!Receive(c, m)
               \/ Relay!Handle(c) \/ Relay!Republish(c) \/ Relay!Acknowledge(c)
               \/ Relay!Nack(c) \/ Relay!Drop(c)
        PROVE  FALSE
    <3>1. row' = row
      BY <2>8, Zenon DEF Relay!Receive, Relay!Handle, Relay!Republish, Relay!Acknowledge,
         Relay!Nack, Relay!Drop, Relay!Requeued, Relay!relayVars
    <3> QED
      BY <2>5, <3>1
  <2> QED
    BY <2>2, <2>3, <2>4, <2>6, <2>7, <2>8, Zenon DEF Relay!Next
<1> QED
  BY <1>1, <1>2, RelayInit, PTL DEF Relay!Spec, ClaimsAreRespected, Relay!ClaimsAreRespected

-----------------------------------------------------------------------------
(* The connection to the broker.                                            *)

\* There is no connection but the one dialled last, run() holds it only while it
\* installs and watches it, and Close has returned only after run().
ConnectionInv ==
    /\ open \subseteq {dialled}
    /\ manager \in {"dial", "dialling", "returned"} => open = {}
    /\ closing = "returned" => manager = "returned" /\ conn = None

LEMMA InitInv == Init => ConnectionInv
  BY DEF Init, ConnectionInv, None

\* SetState keeps the connection.
LEMMA StateOnly == ASSUME NEW s, SetState(s) PROVE conn' = conn
  BY DEF SetState, Install, lockVars

LEMMA RunInv == ConnectionInv /\ Run => ConnectionInv'
<1> SUFFICES ASSUME ConnectionInv, Run PROVE ConnectionInv'
  OBVIOUS
<1> USE DEF ConnectionInv
<1>1. CASE BeginDial
  BY <1>1 DEF BeginDial, lockVars
<1>2. CASE Dial
  BY <1>2 DEF Dial, lockVars
<1>3. CASE InstallConnection
  BY <1>3 DEF InstallConnection, lockVars
<1>4. CASE WatchConnection
  BY <1>4 DEF WatchConnection, Lost
<1> QED
  BY <1>1, <1>2, <1>3, <1>4 DEF Run

LEMMA CloseInv == ConnectionInv /\ Close => ConnectionInv'
<1> SUFFICES ASSUME ConnectionInv, Close PROVE ConnectionInv'
  OBVIOUS
<1> USE DEF ConnectionInv
<1>1. CASE CloseAnnounces
  BY <1>1 DEF CloseAnnounces, managerVars
<1>2. CASE CloseStops
  BY <1>2 DEF CloseStops, managerVars, lockVars
<1>3. CASE CloseReturns
  BY <1>3 DEF CloseReturns, Returned, Install, managerVars
<1> QED
  BY <1>1, <1>2, <1>3 DEF Close

\* Consumers only read the connection.
LEMMA ConsumerInv ==
  ASSUME NEW c, ConnectionInv, Supervise(c) \/ StopConsumer(c)
  PROVE  ConnectionInv'
<1>1. UNCHANGED <<managerVars, open, conn, closing>>
  BY DEF Supervise, StopConsumer, ReadConnection, WakeUp, OpenChannel, SetUp, DispatchReturns,
         lockVars
<1> QED
  BY <1>1 DEF ConnectionInv, managerVars

LEMMA NextInv == ConnectionInv /\ [Next]_vars => ConnectionInv'
<1> SUFFICES ASSUME ConnectionInv, [Next]_vars PROVE ConnectionInv'
  OBVIOUS
<1>1. CASE BrokerCloses
  BY <1>1 DEF BrokerCloses, ConnectionInv, managerVars, lockVars
<1>2. CASE UNCHANGED vars
  BY <1>2 DEF ConnectionInv, vars
<1> QED
  BY <1>1, <1>2, RunInv, CloseInv, ConsumerInv DEF Next

\* When Close has returned no connection is open and the manager has none, however
\* dialling, losing and stopping interleave (Close, run).
THEOREM ClosedForGoodTheorem == Spec => []ClosedForGood
<1>1. ConnectionInv => ClosedForGood
  BY DEF ConnectionInv, ClosedForGood
<1> QED
  BY <1>1, InitInv, NextInv, PTL DEF Spec

=============================================================================
