--------------------------- MODULE RefundSaga_proofs ---------------------------
(* Nobody earns on a center that was refunded, everybody sees the status of   *)
(* its refund, and nobody is paid back twice, for any number of orders,       *)
(* schedulers, administrators, calls and lost leases.                         *)
EXTENDS RefundSaga, TLAPS

Services == {"PENDING_PAYMENT", "REVIEW_REQUIRED", "ACTIVE", "REVOKED", "REJECTED"}
Rewards == {"NONE", "FROZEN", "AVAILABLE", "REVERSED"}
TaskStatuses == {"NONE", "PENDING", "PROVIDER_PENDING", "RETRYABLE", "UNKNOWN_VERIFYING",
                 "MANUAL_REQUIRED", "MANUAL_SUBMITTED", "SUCCEEDED"}
Begun == TaskStatuses \ {"NONE", "PENDING"}
TaskRecord == [status : TaskStatuses, owner : {Group[d] : d \in Drivers} \cup {None},
               live : BOOLEAN, waiting : BOOLEAN, aged : BOOLEAN, attempts : Int, checks : Int]
ProviderStates == {"none", "processing", "refunded", "failed"}
Places == {"idle", "execute", "calling", "answered", "limit", "verify", "querying", "queried"}
Answered == {None, "SUCCESS", "TEMPORARY", "UNKNOWN", "UNSUPPORTED", "NOT_FOUND", "PROCESSING",
             "SUCCEEDED", "FAILED"}
Called == {"SUCCESS", "TEMPORARY", "UNKNOWN", "UNSUPPORTED"}
RunRecord == {r \in [at : Places, on : Orders \cup {None}, answer : Answered] :
                 r.at = "answered" => r.answer \in Called}

Shape ==
    /\ service \in [Orders -> Services]
    /\ reward \in [Orders -> Rewards]
    /\ task \in [Orders -> TaskRecord]
    /\ provider \in [Orders -> ProviderStates]
    /\ run \in [Drivers -> RunRecord]

Out(o) == service[o] \in {"REVOKED", "REJECTED"}

\* Only an active center has a reward that is not reversed.  A refund is called,
\* paid or handed to the operator only when the center is out of business.
OutOfBusiness ==
    /\ \A o \in Orders : service[o] # "ACTIVE" => reward[o] \in {"NONE", "REVERSED"}
    /\ \A o \in Orders : task[o].status \in Begun => Out(o)
    /\ \A o \in Orders : provider[o] # "none" \/ o \in byHand => Out(o)
    /\ \A d \in Drivers, o \in Orders : On(d, "calling", o) => Out(o)

RefundInv == Shape /\ OutOfBusiness

LEMMA InvImplies == RefundInv => RefundedEarnsNothing
  BY DEF RefundInv, OutOfBusiness, RefundedEarnsNothing, Refunded, Out

LEMMA InitInv == Init => RefundInv
<1> SUFFICES ASSUME Init PROVE RefundInv
  OBVIOUS
<1>1. NoTask \in TaskRecord /\ NoTask.status = "NONE"
  BY DEF NoTask, TaskRecord, TaskStatuses
<1>2. Idle \in RunRecord /\ Idle.at = "idle"
  BY DEF Idle, RunRecord, Places, Answered
<1> QED
  BY <1>1, <1>2 DEF Init, RewardInit, RefundInv, Shape, OutOfBusiness, Services, Rewards, Begun,
                    ProviderStates, On

-----------------------------------------------------------------------------
(* What the writes do.                                                       *)

LEMMA RunEffect ==
  ASSUME Shape, NEW d \in Drivers, NEW at \in Places, NEW o \in Orders \cup {None},
         NEW answer \in Answered, at = "answered" => answer \in Called,
         At(d, at, o, answer) \/ Rest(d)
  PROVE  /\ run' \in [Drivers -> RunRecord]
         /\ \A e \in Drivers, p \in Orders :
               On(e, "calling", p)' => On(e, "calling", p) \/ (at = "calling" /\ p = o /\ ~Rest(d))
<1>1. [at |-> at, on |-> o, answer |-> answer] \in RunRecord
  BY DEF RunRecord
<1>2. Idle \in RunRecord /\ Idle.at = "idle"
  BY DEF Idle, RunRecord, Places, Answered
<1>3. CASE Rest(d)
  BY <1>2, <1>3 DEF Rest, On, Shape
<1>4. CASE At(d, at, o, answer) /\ ~Rest(d)
  <2>1. run' = [run EXCEPT ![d] = [at |-> at, on |-> o, answer |-> answer]]
    BY <1>4 DEF At
  <2> QED
    BY <1>1, <1>4, <2>1 DEF On, Shape
<1> QED
  BY <1>3, <1>4

LEMMA SettleEffect ==
  ASSUME Shape, NEW o \in Orders, NEW s \in Begun, NEW w \in BOOLEAN, Settle(o, s, w)
  PROVE  /\ task' \in [Orders -> TaskRecord] /\ task'[o].status = s
         /\ \A p \in Orders \ {o} : task'[p] = task[p]
<1>1. task[o] \in TaskRecord
  BY DEF Shape
<1> DEFINE a == IF s = task[o].status THEN task[o].aged ELSE FALSE
           t(b) == [task[o] EXCEPT !.status = s, !.owner = None, !.live = FALSE, !.waiting = w,
                                   !.aged = b]
<1>2. a \in BOOLEAN
  BY <1>1 DEF TaskRecord
<1>3. task' = [task EXCEPT ![o] = t(a)]
  BY <1>1 DEF Settle, Shape, TaskRecord
<1>4. ASSUME NEW b \in BOOLEAN
      PROVE  t(b) \in TaskRecord /\ t(b).status = s
  <2>1. s \in TaskStatuses
    BY DEF Begun
  <2> QED
    BY <1>1, <2>1 DEF TaskRecord
<1> HIDE DEF t, a
<1>5. t(a) \in TaskRecord /\ t(a).status = s
  BY <1>2, <1>4
<1> QED
  BY <1>3, <1>5 DEF Shape

\* Whoever changes a task but not its status, or nothing of it.
SameStatus ==
    /\ task' \in [Orders -> TaskRecord]
    /\ \A o \in Orders : task'[o].status \in Begun => task[o].status \in Begun

LEMMA SettleSame ==
  ASSUME Shape, NEW o \in Orders, task[o].status \in Begun,
         \E s \in Begun, w \in BOOLEAN : Settle(o, s, w)
  PROVE  SameStatus
  BY SettleEffect DEF SameStatus

LEMMA LeaseWrite ==
  ASSUME NEW r \in TaskRecord, NEW w \in {Group[d] : d \in Drivers} \cup {None}, NEW l \in BOOLEAN
  PROVE  LET t == [r EXCEPT !.owner = w, !.live = l]
         IN t \in TaskRecord /\ t.status = r.status
  BY DEF TaskRecord

\* A step that leaves service, rewards and refunds alone.
LEMMA QuietStep ==
  ASSUME RefundInv, UNCHANGED <<service, reward, provider, byHand>>, SameStatus,
         run' \in [Drivers -> RunRecord],
         \A d \in Drivers, o \in Orders : On(d, "calling", o)' => On(d, "calling", o)
  PROVE  RefundInv'
<1>1. \A o \in Orders : Out(o)' <=> Out(o)
  BY DEF Out
<1>2. Shape'
  BY DEF RefundInv, Shape, SameStatus
<1>3. \A o \in Orders : task'[o].status \in Begun => Out(o)'
  BY <1>1 DEF RefundInv, OutOfBusiness, SameStatus
<1>4. \A d \in Drivers, o \in Orders : On(d, "calling", o)' => Out(o)'
  BY <1>1 DEF RefundInv, OutOfBusiness
<1>5. /\ \A o \in Orders : service'[o] # "ACTIVE" => reward'[o] \in {"NONE", "REVERSED"}
      /\ \A o \in Orders : provider'[o] # "none" \/ o \in byHand' => Out(o)'
  BY <1>1 DEF RefundInv, OutOfBusiness
<1> QED
  BY <1>2, <1>3, <1>4, <1>5 DEF RefundInv, OutOfBusiness

-----------------------------------------------------------------------------
(* One lemma for each kind of step.                                          *)

LEMMA RewardInv ==
  ASSUME RefundInv, RewardStep, UNCHANGED sagaVars
  PROVE  RefundInv'
<1>1. reward' = reward \/ \E o \in Orders : reward[o] = "FROZEN"
                                            /\ reward' = [reward EXCEPT ![o] = "AVAILABLE"]
  <2>1. CASE \E w \in Workers, o \in Orders : Release(w, o)
    <3>1. PICK w \in Workers, o \in Orders : Release(w, o)
      BY <2>1
    <3>2. o \in Orders /\ reward[o] = "FROZEN" /\ reward' = [reward EXCEPT ![o] = "AVAILABLE"]
      BY <3>1 DEF Release
    <3> QED
      BY <3>2
  <2>2. CASE ~\E w \in Workers, o \in Orders : Release(w, o)
    BY <2>2 DEF RewardStep, Go, ClaimDue, RecordFailure, Replay, ReleaseFails, Crash, Thaw,
                LeaseExpires
  <2> QED
    BY <2>1, <2>2
<1>2. UNCHANGED <<service, task, provider, byHand, run>>
  BY DEF sagaVars
<1>3. /\ reward' \in [Orders -> Rewards]
      /\ \A o \in Orders : service[o] # "ACTIVE" => reward'[o] \in {"NONE", "REVERSED"}
  BY <1>1 DEF RefundInv, Shape, OutOfBusiness, Rewards
<1> QED
  BY <1>2, <1>3 DEF RefundInv, Shape, OutOfBusiness, Out, On

LEMMA NewTaskEffect ==
  ASSUME Shape, NEW o \in Orders, NewTask(o)
  PROVE  SameStatus
<1>1. NoTask \in TaskRecord
  BY DEF NoTask, TaskRecord, TaskStatuses
<1>2. /\ [NoTask EXCEPT !.status = "PENDING"] \in TaskRecord
      /\ [NoTask EXCEPT !.status = "PENDING"].status = "PENDING"
  BY <1>1 DEF TaskRecord, TaskStatuses
<1>3. task' = [task EXCEPT ![o] = [NoTask EXCEPT !.status = "PENDING"]]
  BY DEF NewTask
<1> HIDE DEF NoTask
<1> QED
  BY <1>2, <1>3 DEF SameStatus, Shape, Begun

LEMMA OrderInv ==
  ASSUME RefundInv, NEW o \in Orders,
         RecordPaymentSucceeded(o) \/ Approve(o) \/ Reject(o) \/ RequestActiveRefund(o)
  PROVE  RefundInv'
<1>1. Shape /\ OutOfBusiness
  BY DEF RefundInv
<1>2. UNCHANGED <<provider, byHand, run>>
  BY DEF RecordPaymentSucceeded, Approve, Reject, RequestActiveRefund
<1>3. SameStatus
  BY <1>1, NewTaskEffect
     DEF RecordPaymentSucceeded, Approve, Reject, RequestActiveRefund, SameStatus, Shape
<1>4. service[o] \notin {"REVOKED", "REJECTED"}
  BY DEF RecordPaymentSucceeded, Approve, Reject, RequestActiveRefund
<1>5. service' = service \/ \E s \in Services : service' = [service EXCEPT ![o] = s]
  BY DEF RecordPaymentSucceeded, Approve, Reject, RequestActiveRefund, Services
<1>6. /\ reward' \in [Orders -> Rewards]
      /\ \A p \in Orders : service'[p] # "ACTIVE" => reward'[p] \in {"NONE", "REVERSED"}
  <2>1. CASE Approve(o)
    <3>1. reward' = reward \/ reward' = [reward EXCEPT ![o] = "FROZEN"]
      BY <2>1 DEF Approve, Grant
    <3>2. service' = [service EXCEPT ![o] = "ACTIVE"]
      BY <2>1 DEF Approve
    <3> QED
      BY <1>1, <3>1, <3>2 DEF Shape, OutOfBusiness, Rewards
  <2>2. CASE RequestActiveRefund(o)
    BY <1>1, <2>2 DEF RequestActiveRefund, rewardVars, Shape, OutOfBusiness
  <2>3. CASE RecordPaymentSucceeded(o) \/ Reject(o)
    <3>1. UNCHANGED reward /\ service[o] # "ACTIVE"
      BY <2>3 DEF RecordPaymentSucceeded, Reject, rewardVars
    <3> QED
      BY <1>1, <1>5, <3>1 DEF Shape, OutOfBusiness
  <2> QED
    BY <2>1, <2>2, <2>3
<1>7. \A p \in Orders : Out(p) => Out(p)'
  BY <1>1, <1>4, <1>5 DEF Out, Shape
<1>8. Shape'
  BY <1>1, <1>2, <1>3, <1>5, <1>6 DEF Shape, SameStatus
<1>9. OutOfBusiness'
  BY <1>1, <1>2, <1>3, <1>6, <1>7 DEF OutOfBusiness, SameStatus, On
<1> QED
  BY <1>8, <1>9 DEF RefundInv

\* The rewards of a center are reversed before its refund is called.
LEMMA PrepareInv ==
  ASSUME RefundInv, SagaAssumption, NEW d \in Drivers, NEW o \in Orders, Prepare(d, o)
  PROVE  RefundInv'
<1>1. Shape /\ OutOfBusiness
  BY DEF RefundInv
<1>2. UNCHANGED <<provider, byHand>> /\ Revoke(o) /\ Callable(o) /\ At(d, "calling", o, None)
  BY DEF Prepare
<1>3. /\ service' \in [Orders -> Services] /\ reward' \in [Orders -> Rewards]
      /\ \A p \in Orders \ {o} : service'[p] = service[p] /\ reward'[p] = reward[p]
      /\ Out(o)' /\ reward'[o] \in {"NONE", "REVERSED"}
  <2>1. CASE task[o].status = "PENDING" /\ service[o] # "REJECTED"
    <3>1. service' = [service EXCEPT ![o] = "REVOKED"]
          /\ reward' = [reward EXCEPT ![o] = IF @ = "NONE" THEN @ ELSE "REVERSED"]
      BY <1>2, <2>1 DEF Revoke, Reverse
    <3> QED
      BY <1>1, <3>1 DEF Shape, Services, Rewards, Out
  <2>2. CASE ~(task[o].status = "PENDING" /\ service[o] # "REJECTED")
    <3>1. UNCHANGED <<service, reward>>
      BY <1>2, <2>2 DEF Revoke
    <3>2. Out(o)
      <4>1. CASE service[o] = "REJECTED"
        BY <4>1 DEF Out
      <4>2. CASE task[o].status # "PENDING"
        <5>1. task[o].status \in Begun
          BY <1>2, <4>2 DEF Callable, Begun, TaskStatuses
        <5> QED
          BY <1>1, <5>1 DEF OutOfBusiness
      <4> QED
        BY <2>2, <4>1, <4>2
    <3>3. service[o] # "ACTIVE"
      BY <3>2 DEF Out
    <3> QED
      BY <1>1, <3>1, <3>2, <3>3 DEF Shape, OutOfBusiness, Out
  <2> QED
    BY <2>1, <2>2
<1>4. task' \in [Orders -> TaskRecord] /\ \A p \in Orders \ {o} : task'[p] = task[p]
  <2> DEFINE n == Least(task[o].attempts + 1, MaxAttempts)
             t == [task[o] EXCEPT !.status = "PROVIDER_PENDING", !.owner = Group[d],
                                  !.live = TRUE, !.attempts = n]
  <2>1. task[o] \in TaskRecord
    BY <1>1 DEF Shape
  <2>2. n \in Int
    BY <2>1 DEF TaskRecord, Least, SagaAssumption
  <2>3. task' = [task EXCEPT ![o] = t]
    BY <1>1, <2>1 DEF Prepare, Shape, TaskRecord
  <2> HIDE DEF n
  <2>4. t \in TaskRecord
    BY <2>1, <2>2 DEF TaskRecord, TaskStatuses
  <2> HIDE DEF t
  <2> QED
    BY <1>1, <2>3, <2>4 DEF Shape
<1>5. /\ run' \in [Drivers -> RunRecord]
      /\ \A e \in Drivers, p \in Orders : On(e, "calling", p)' => On(e, "calling", p) \/ p = o
  BY <1>1, <1>2, RunEffect DEF Places, Answered
<1>6. \A p \in Orders : Out(p) => Out(p)'
  BY <1>3 DEF Out
<1>7. Shape'
  BY <1>1, <1>2, <1>3, <1>4, <1>5 DEF Shape
<1>8. OutOfBusiness'
  <2>1. \A p \in Orders : service'[p] # "ACTIVE" => reward'[p] \in {"NONE", "REVERSED"}
    BY <1>1, <1>3 DEF OutOfBusiness
  <2>2. \A p \in Orders : task'[p].status \in Begun => Out(p)'
    BY <1>1, <1>3, <1>4, <1>6 DEF OutOfBusiness
  <2>3. \A p \in Orders : provider'[p] # "none" \/ p \in byHand' => Out(p)'
    BY <1>1, <1>2, <1>6 DEF OutOfBusiness
  <2>4. \A e \in Drivers, p \in Orders : On(e, "calling", p)' => Out(p)'
    BY <1>1, <1>3, <1>5, <1>6 DEF OutOfBusiness
  <2> QED
    BY <2>1, <2>2, <2>3, <2>4 DEF OutOfBusiness
<1> QED
  BY <1>7, <1>8 DEF RefundInv

\* The provider does something only for a refund that is called or was called.
LEMMA ProviderInv ==
  ASSUME RefundInv, NEW o \in Orders, UNCHANGED <<service, reward, task, byHand>>, Out(o),
         NEW s \in ProviderStates, provider' = [provider EXCEPT ![o] = s],
         run' \in [Drivers -> RunRecord],
         \A d \in Drivers, p \in Orders : On(d, "calling", p)' => On(d, "calling", p)
  PROVE  RefundInv'
<1>1. \A p \in Orders : Out(p)' <=> Out(p)
  BY DEF Out
<1>2. Shape'
  BY DEF RefundInv, Shape
<1>3. \A p \in Orders : provider'[p] # "none" \/ p \in byHand' => Out(p)'
  BY <1>1 DEF RefundInv, Shape, OutOfBusiness
<1>4. \A d \in Drivers, p \in Orders : On(d, "calling", p)' => Out(p)'
  BY <1>1 DEF RefundInv, OutOfBusiness
<1>5. /\ \A p \in Orders : service'[p] # "ACTIVE" => reward'[p] \in {"NONE", "REVERSED"}
      /\ \A p \in Orders : task'[p].status \in Begun => Out(p)'
  BY <1>1 DEF RefundInv, OutOfBusiness
<1> QED
  BY <1>2, <1>3, <1>4, <1>5 DEF RefundInv, OutOfBusiness

LEMMA CallInv ==
  ASSUME RefundInv, NEW o \in Orders,
         ProviderSettles(o) \/ \E d \in Drivers : CallProvider(d, o)
  PROVE  RefundInv'
<1>1. Shape /\ OutOfBusiness
  BY DEF RefundInv
<1>2. CASE ProviderSettles(o)
  <2>1. PICK s \in {"refunded", "failed"} : provider' = [provider EXCEPT ![o] = s]
    BY <1>2 DEF ProviderSettles
  <2>2. /\ UNCHANGED <<service, reward, task, byHand, run>> /\ provider[o] # "none"
    BY <1>2 DEF ProviderSettles, rewardVars
  <2>3. /\ Out(o) /\ run' \in [Drivers -> RunRecord]
        /\ \A d \in Drivers, p \in Orders : On(d, "calling", p)' => On(d, "calling", p)
    BY <1>1, <2>2 DEF Shape, OutOfBusiness, On
  <2> QED
    BY <2>1, <2>2, <2>3, ProviderInv DEF ProviderStates
<1>3. CASE \E d \in Drivers : CallProvider(d, o)
  <2>1. PICK d \in Drivers : CallProvider(d, o)
    BY <1>3
  <2>2. PICK a \in Answers(o) : /\ At(d, "answered", o, a[1])
                                /\ provider' = [provider EXCEPT ![o] = a[2]]
    BY <2>1 DEF CallProvider
  <2>3. provider[o] \in ProviderStates
    BY <1>1 DEF Shape
  <2>4. a[1] \in Called /\ a[1] \in Answered /\ a[2] \in ProviderStates
    BY <2>2, <2>3 DEF Answers, Called, Answered, ProviderStates
  <2>5. UNCHANGED <<service, reward, task, byHand>> /\ On(d, "calling", o)
    BY <2>1 DEF CallProvider, rewardVars
  <2>6. Out(o)
    BY <1>1, <2>5 DEF OutOfBusiness
  <2>7. /\ run' \in [Drivers -> RunRecord]
        /\ \A e \in Drivers, p \in Orders : On(e, "calling", p)' => On(e, "calling", p)
    BY <1>1, <2>2, <2>4, RunEffect DEF Places
  <2> QED
    BY <2>2, <2>4, <2>5, <2>6, <2>7, ProviderInv
<1> QED
  BY <1>2, <1>3

\* Who takes a lease, or an attempt, leaves the status.
LEMMA LeaseInv ==
  ASSUME RefundInv, SagaAssumption, NEW d \in Drivers, NEW o \in Orders,
         \/ Click(d, o) \/ PrepareEndsIdle(d, o) \/ PrepareVerification(d, o)
         \/ ClaimRetry(d, o) \/ ClaimVerification(d, o) \/ QueryProvider(d, o)
  PROVE  RefundInv'
<1>1. Shape
  BY DEF RefundInv
<1>2. UNCHANGED <<service, reward, provider, byHand>>
  BY DEF Click, PrepareEndsIdle, PrepareVerification, ClaimRetry, ClaimVerification, ClaimTask,
         QueryProvider, rewardVars
<1>3. SameStatus
  <2>1. task[o] \in TaskRecord
    BY <1>1 DEF Shape
  <2>2. CASE UNCHANGED task
    BY <1>1, <2>2 DEF SameStatus, Shape
  <2>3. ASSUME NEW t \in TaskRecord, t.status = task[o].status, task' = [task EXCEPT ![o] = t]
        PROVE  SameStatus
    BY <1>1, <2>3 DEF SameStatus, Shape
  <2>4. CASE ClaimRetry(d, o) \/ ClaimVerification(d, o)
    <3>1. task' = [task EXCEPT ![o] = [task[o] EXCEPT !.owner = Group[d], !.live = TRUE]]
      BY <1>1, <2>1, <2>4 DEF ClaimRetry, ClaimVerification, ClaimTask, Shape, TaskRecord
    <3>2. LET t == [task[o] EXCEPT !.owner = Group[d], !.live = TRUE]
          IN t \in TaskRecord /\ t.status = task[o].status
      BY <2>1 DEF TaskRecord
    <3> QED
      BY <2>3, <3>1, <3>2
  <2>5. CASE PrepareVerification(d, o) /\ ~UNCHANGED task
    <3> DEFINE n == Least(task[o].checks + 1, MaxChecks)
    <3>1. n \in Int
      BY <2>1 DEF TaskRecord, Least, SagaAssumption
    <3>2. task' = [task EXCEPT ![o] = [task[o] EXCEPT !.owner = Group[d], !.live = TRUE,
                                                      !.checks = n]]
      BY <1>1, <2>1, <2>5 DEF PrepareVerification, Shape, TaskRecord
    <3> HIDE DEF n
    <3>3. LET t == [task[o] EXCEPT !.owner = Group[d], !.live = TRUE, !.checks = n]
          IN t \in TaskRecord /\ t.status = task[o].status
      BY <2>1, <3>1 DEF TaskRecord
    <3> QED
      BY <2>3, <3>2, <3>3
  <2>6. CASE Click(d, o) \/ PrepareEndsIdle(d, o) \/ QueryProvider(d, o)
    BY <2>2, <2>6 DEF Click, PrepareEndsIdle, QueryProvider
  <2> QED
    BY <2>2, <2>4, <2>5, <2>6
<1>4. \/ UNCHANGED run \/ Rest(d)
      \/ \E at \in Places \ {"calling", "answered"}, f \in Answered : At(d, at, o, f)
  <2>1. CASE QueryProvider(d, o)
    <3>1. PICK f \in Findings(o) : At(d, "queried", o, f)
      BY <2>1 DEF QueryProvider
    <3>2. provider[o] \in ProviderStates
      BY <1>1 DEF Shape
    <3>3. f \in Answered
      BY <3>2 DEF Findings, Answered, ProviderStates
    <3> QED
      BY <3>1, <3>3 DEF Places
  <2>2. CASE Click(d, o) \/ PrepareEndsIdle(d, o) \/ PrepareVerification(d, o)
    BY <2>2 DEF Click, PrepareEndsIdle, PrepareVerification, Places, Answered
  <2>3. CASE ClaimRetry(d, o) \/ ClaimVerification(d, o)
    BY <2>3 DEF ClaimRetry, ClaimVerification, Places, Answered
  <2> QED
    BY <2>1, <2>2, <2>3
<1>5. /\ run' \in [Drivers -> RunRecord]
      /\ \A e \in Drivers, p \in Orders : On(e, "calling", p)' => On(e, "calling", p)
  <2>1. CASE UNCHANGED run
    BY <1>1, <2>1 DEF Shape, On
  <2>2. CASE Rest(d)
    <3>1. "idle" \in Places /\ None \in Answered
      BY DEF Places, Answered
    <3> QED
      BY <1>1, <2>2, <3>1, RunEffect
  <2>3. CASE \E at \in Places \ {"calling", "answered"}, f \in Answered : At(d, at, o, f)
    BY <1>1, <2>3, RunEffect
  <2> QED
    BY <1>4, <2>1, <2>2, <2>3
<1> QED
  BY <1>2, <1>3, <1>5, QuietStep

LEMMA TimeInv ==
  ASSUME RefundInv, NEW o \in Orders, Elapse(o) \/ RefundLeaseExpires(o)
  PROVE  RefundInv'
<1>1. Shape
  BY DEF RefundInv
<1>2. task[o] \in TaskRecord
  BY <1>1 DEF Shape
<1>3. UNCHANGED <<service, reward, provider, byHand, run>>
  BY DEF Elapse, RefundLeaseExpires, rewardVars
<1>4. PICK t \in TaskRecord : t.status = task[o].status /\ task' = [task EXCEPT ![o] = t]
  <2>1. \/ task' = [task EXCEPT ![o] = [task[o] EXCEPT !.waiting = FALSE]]
        \/ task' = [task EXCEPT ![o] = [task[o] EXCEPT !.aged = TRUE]]
        \/ task' = [task EXCEPT ![o] = [task[o] EXCEPT !.live = FALSE]]
    BY DEF Elapse, RefundLeaseExpires
  <2>2. /\ [task[o] EXCEPT !.waiting = FALSE] \in TaskRecord
        /\ [task[o] EXCEPT !.waiting = FALSE].status = task[o].status
        /\ [task[o] EXCEPT !.aged = TRUE] \in TaskRecord
        /\ [task[o] EXCEPT !.aged = TRUE].status = task[o].status
        /\ [task[o] EXCEPT !.live = FALSE] \in TaskRecord
        /\ [task[o] EXCEPT !.live = FALSE].status = task[o].status
    BY <1>2 DEF TaskRecord
  <2> QED
    BY <2>1, <2>2
<1>5. SameStatus
  BY <1>1, <1>4 DEF SameStatus, Shape
<1>6. /\ run' \in [Drivers -> RunRecord]
      /\ \A e \in Drivers, p \in Orders : On(e, "calling", p)' => On(e, "calling", p)
  BY <1>1, <1>3 DEF Shape, On
<1> QED
  BY <1>3, <1>5, <1>6, QuietStep

LEMMA CrashInv ==
  ASSUME RefundInv, NEW d \in Drivers, DriverCrash(d)
  PROVE  RefundInv'
<1>1. Shape
  BY DEF RefundInv
<1>2. UNCHANGED <<service, reward, provider, byHand, task>> /\ Rest(d)
  BY DEF DriverCrash, rewardVars
<1>3. SameStatus
  BY <1>1, <1>2 DEF SameStatus, Shape
<1>4. "idle" \in Places /\ None \in Answered
  BY DEF Places, Answered
<1>5. /\ run' \in [Drivers -> RunRecord]
      /\ \A e \in Drivers, p \in Orders : On(e, "calling", p)' => On(e, "calling", p)
  BY <1>1, <1>2, <1>4, RunEffect
<1> QED
  BY <1>2, <1>3, <1>5, QuietStep

\* Answers and findings settle only what has begun.
LEMMA SettlementInv ==
  ASSUME RefundInv, NEW d \in Drivers, NEW o \in Orders,
         Finalize(d, o) \/ FinalizeVerification(d, o) \/ MarkManualRequired(d, o)
  PROVE  RefundInv'
<1>1. Shape
  BY DEF RefundInv
<1>2. UNCHANGED <<service, reward, provider, byHand>>
  BY DEF Finalize, FinalizeVerification, MarkManualRequired, rewardVars
<1>3. UNCHANGED task \/ (task[o].status \in Begun /\ \E s \in Begun, w \in BOOLEAN : Settle(o, s, w))
  <2>1. CASE Finalize(d, o) /\ ~UNCHANGED task
    <3>1. Settle(o, Outcome(run[d].answer), run[d].answer = "TEMPORARY") /\ Finalizable(d, o)
      BY <2>1 DEF Finalize
    <3>2. run[d].answer \in Called
      BY <1>1, <2>1 DEF Finalize, On, Shape, RunRecord
    <3> QED
      BY <3>1, <3>2 DEF Outcome, Called, Finalizable, Begun, TaskStatuses
  <2>2. CASE FinalizeVerification(d, o) /\ ~UNCHANGED task
    <3>1. Verified(o, run[d].answer) /\ task[o].status = "UNKNOWN_VERIFYING"
      BY <2>2 DEF FinalizeVerification
    <3> QED
      BY <3>1 DEF Verified, Begun, TaskStatuses
  <2>3. CASE MarkManualRequired(d, o) /\ ~UNCHANGED task
    BY <2>3 DEF MarkManualRequired, Begun, TaskStatuses
  <2> QED
    BY <2>1, <2>2, <2>3
<1>4. SameStatus
  <2>1. CASE UNCHANGED task
    BY <1>1, <2>1 DEF SameStatus, Shape
  <2> QED
    BY <1>1, <1>3, <2>1, SettleSame
<1>5. Rest(d) \/ At(d, "limit", o, None)
  BY DEF Finalize, FinalizeVerification, MarkManualRequired
<1>6. /\ run' \in [Drivers -> RunRecord]
      /\ \A e \in Drivers, p \in Orders : On(e, "calling", p)' => On(e, "calling", p)
  <2>1. "limit" \in Places /\ None \in Answered
    BY DEF Places, Answered
  <2> QED
    BY <1>1, <1>5, <2>1, RunEffect
<1> QED
  BY <1>2, <1>4, <1>6, QuietStep

LEMMA ByHandInv ==
  ASSUME RefundInv, NEW o \in Orders, SubmitManualRefund(o) \/ ReviewManualRefund(o)
  PROVE  RefundInv'
<1>1. Shape /\ OutOfBusiness
  BY DEF RefundInv
<1>2. task[o].status \in Begun /\ \E s \in Begun, w \in BOOLEAN : Settle(o, s, w)
  BY DEF SubmitManualRefund, ReviewManualRefund, Begun, TaskStatuses
<1>3. SameStatus /\ Out(o)
  BY <1>1, <1>2, SettleSame DEF OutOfBusiness
<1>4. UNCHANGED <<service, reward, provider, run>> /\ byHand' \subseteq byHand \cup {o}
  BY DEF SubmitManualRefund, ReviewManualRefund, rewardVars
<1>5. \A p \in Orders : Out(p)' <=> Out(p)
  BY <1>4 DEF Out
<1>6. Shape'
  BY <1>1, <1>3, <1>4 DEF Shape, SameStatus
<1>7. /\ \A p \in Orders : task'[p].status \in Begun => Out(p)'
      /\ \A p \in Orders : provider'[p] # "none" \/ p \in byHand' => Out(p)'
  BY <1>1, <1>3, <1>4, <1>5 DEF OutOfBusiness, SameStatus
<1>8. /\ \A p \in Orders : service'[p] # "ACTIVE" => reward'[p] \in {"NONE", "REVERSED"}
      /\ \A d \in Drivers, p \in Orders : On(d, "calling", p)' => Out(p)'
  BY <1>1, <1>4, <1>5 DEF OutOfBusiness, On
<1> QED
  BY <1>6, <1>7, <1>8 DEF RefundInv, OutOfBusiness

LEMMA NextInv == ASSUME SagaAssumption PROVE RefundInv /\ [Next]_vars => RefundInv'
<1> SUFFICES ASSUME RefundInv, [Next]_vars PROVE RefundInv'
  OBVIOUS
<1>1. CASE RewardStep /\ UNCHANGED sagaVars
  BY <1>1, RewardInv
<1>2. ASSUME NEW o \in Orders, SagaStep(o) PROVE RefundInv'
  <2>1. ASSUME NEW d \in Drivers, Proceed(d, o) \/ PrepareEndsIdle(d, o)
        PROVE  RefundInv'
    BY <2>1, PrepareInv, CallInv, SettlementInv, LeaseInv DEF Proceed
  <2>2. CASE Claim(o) \/ \E d \in Administrators : Click(d, o)
    BY <2>2, LeaseInv DEF Claim, Drivers
  <2>3. CASE Elapse(o) \/ RefundLeaseExpires(o)
    BY <2>3, TimeInv
  <2> QED
    BY <1>2, <2>1, <2>2, <2>3, OrderInv, CallInv, ByHandInv DEF SagaStep
<1>3. CASE \E d \in Drivers : DriverCrash(d)
  BY <1>3, CrashInv
<1>4. CASE UNCHANGED vars
  BY <1>4 DEF vars, sagaVars, rewardVars, RefundInv, Shape, OutOfBusiness, Out, On
<1> QED
  BY <1>1, <1>2, <1>3, <1>4 DEF Next

\* Once a refund may have been paid, by the provider or by hand, the center is out
\* of business and has no reward that is not reversed, whatever schedulers,
\* administrators, late answers and releases do (Execute, ReverseReferralRewards).
THEOREM RefundedEarnsNothingTheorem ==
  ASSUME SagaAssumption
  PROVE  Spec => []RefundedEarnsNothing
<1> QED
  BY InitInv, NextInv, InvImplies, PTL DEF Spec

-----------------------------------------------------------------------------
(* What everybody sees, and who is paid back by hand.                        *)

InCall(d, o) == On(d, "calling", o) \/ On(d, "answered", o)

\* The service order of o shows the status of its refund.
Follows(o) ==
    \/ shown[o] = task[o].status
    \/ /\ task[o].status = "PROVIDER_PENDING" /\ service[o] = "REVOKED"
       /\ shown[o] = "RETRYABLE"

\* Unless a lease ended early, who calls or has an answer holds the lease, alone.
Attended(o) ==
    o \notin late =>
       \A d \in Drivers : InCall(d, o) =>
          /\ task[o].status = "PROVIDER_PENDING" /\ task[o].live
          /\ \A e \in Drivers : InCall(e, o) => e = d

\* What was paid by hand is done with; while it is reported and when it is paid,
\* the provider has nothing of it.
Handed(o) ==
    /\ o \in byHand => task[o].status = "SUCCEEDED"
    /\ o \notin late /\ (o \in byHand \/ task[o].status = "MANUAL_SUBMITTED")
          => provider[o] \in {"none", "failed"}

Repaid(o) == Follows(o) /\ Attended(o) /\ Handed(o)

RepaidInv ==
    /\ RefundInv
    /\ shown \in [Orders -> TaskStatuses]
    /\ \A o \in Orders : Repaid(o)

LEMMA RepaidImplies == RepaidInv => ProjectionFollows /\ PaidBackOnce
  BY DEF RepaidInv, Repaid, Follows, Handed, ProjectionFollows, PaidBackOnce

LEMMA RepaidInit == Init => RepaidInv
<1> SUFFICES ASSUME Init PROVE RepaidInv
  OBVIOUS
<1>1. \A o \in Orders : task[o].status = "NONE" /\ shown[o] = "NONE" /\ provider[o] = "none"
  BY DEF Init, NoTask
<1>2. \A d \in Drivers, o \in Orders : ~InCall(d, o)
  BY DEF Init, Idle, InCall, On
<1>3. byHand = {} /\ late = {} /\ shown \in [Orders -> TaskStatuses]
  BY DEF Init, TaskStatuses
<1> QED
  BY <1>1, <1>2, <1>3, InitInv DEF RepaidInv, Repaid, Follows, Attended, Handed

\* Nothing about p changes but who waits for what; its lease ends late or uncalled.
Quiet(p) ==
    /\ task'[p].status = task[p].status /\ shown'[p] = shown[p] /\ provider'[p] = provider[p]
    /\ service'[p] = service[p] \/ service[p] # "REVOKED"
    /\ task'[p].live = task[p].live \/ p \in late' \/ \A d \in Drivers : ~InCall(d, p)
    /\ p \in byHand' <=> p \in byHand
    /\ p \in late => p \in late'
    /\ \A d \in Drivers : InCall(d, p)' => InCall(d, p)

LEMMA QuietRepaid ==
  ASSUME NEW p \in Orders, Repaid(p), Quiet(p)
  PROVE  Repaid(p)'
<1>1. Follows(p)'
  BY DEF Repaid, Follows, Quiet
<1>2. Attended(p)'
  BY DEF Repaid, Attended, Quiet
<1>3. Handed(p)'
  BY DEF Repaid, Handed, Quiet
<1> QED
  BY <1>1, <1>2, <1>3 DEF Repaid

LEMMA CallEffect ==
  ASSUME Shape, NEW d \in Drivers, NEW at, NEW o, NEW answer,
         At(d, at, o, answer) \/ Rest(d)
  PROVE  /\ \A e \in Drivers, p \in Orders :
               InCall(e, p)' => InCall(e, p) \/ (e = d /\ p = o /\ at \in {"calling", "answered"})
         /\ Rest(d) => \A p \in Orders : ~InCall(d, p)'
<1>1. Idle.at = "idle"
  BY DEF Idle
<1>2. CASE Rest(d)
  BY <1>1, <1>2 DEF Rest, InCall, On, Shape
<1>3. CASE At(d, at, o, answer) /\ ~Rest(d)
  <2>1. run' = [run EXCEPT ![d] = [at |-> at, on |-> o, answer |-> answer]]
    BY <1>3 DEF At
  <2> QED
    BY <1>3, <2>1 DEF InCall, On, Shape
<1> QED
  BY <1>2, <1>3

\* A step on one order, by one driver at most, leaves the others alone.
OnlyOn(o) ==
    \A p \in Orders \ {o} :
       /\ task'[p] = task[p] /\ shown'[p] = shown[p] /\ provider'[p] = provider[p]
       /\ service'[p] = service[p]
       /\ p \in byHand' <=> p \in byHand
       /\ p \in late <=> p \in late'
       /\ \A d \in Drivers : InCall(d, p)' => InCall(d, p)

LEMMA OthersRepaid ==
  ASSUME NEW o \in Orders, \A p \in Orders : Repaid(p), OnlyOn(o), Repaid(o)'
  PROVE  \A p \in Orders : Repaid(p)'
<1>1. \A p \in Orders \ {o} : Quiet(p)
  BY DEF OnlyOn, Quiet
<1> QED
  BY <1>1, QuietRepaid

-----------------------------------------------------------------------------
(* The steps, once more.                                                     *)

\* Orders, claims, queries, time and crashes: the statuses stay.
LEMMA OrderQuiet ==
  ASSUME RepaidInv, NEW o \in Orders, RecordPaymentSucceeded(o) \/ Approve(o)
  PROVE  \A p \in Orders : Quiet(p)
<1>1. UNCHANGED <<shown, task, provider, byHand, run, late>>
  BY DEF RecordPaymentSucceeded, Approve
<1>2. /\ service[o] # "REVOKED"
      /\ \E s \in Services : service' = [service EXCEPT ![o] = s]
  BY DEF RecordPaymentSucceeded, Approve, Services
<1>3. \A p \in Orders : service'[p] = service[p] \/ service[p] # "REVOKED"
  BY <1>2 DEF RepaidInv, RefundInv, Shape
<1> QED
  BY <1>1, <1>3 DEF Quiet, InCall, On

\* Nobody who calls has his task claimed, verified or given up by somebody else.
LEMMA LeaseQuiet ==
  ASSUME RepaidInv, NEW d \in Drivers, NEW o \in Orders,
         \/ Click(d, o) \/ PrepareEndsIdle(d, o) \/ PrepareVerification(d, o)
         \/ ClaimRetry(d, o) \/ ClaimVerification(d, o) \/ QueryProvider(d, o)
  PROVE  \A p \in Orders : Quiet(p)
<1>1. Shape /\ Attended(o)
  BY DEF RepaidInv, RefundInv, Repaid
<1>2. UNCHANGED <<service, shown, provider, byHand, late>>
  BY DEF Click, PrepareEndsIdle, PrepareVerification, ClaimRetry, ClaimVerification, ClaimTask,
         QueryProvider
<1>3. \E at \in Places \ {"calling", "answered"} :
         \E f : At(d, at, o, f) \/ Rest(d)
  BY DEF Click, PrepareEndsIdle, PrepareVerification, ClaimRetry, ClaimVerification,
         QueryProvider, Places
<1>4. \A e \in Drivers, p \in Orders : InCall(e, p)' => InCall(e, p)
  BY <1>1, <1>3, CallEffect
<1>5. \A p \in Orders :
         \/ task'[p] = task[p]
         \/ /\ task'[p].status = task[p].status /\ p = o
            /\ task[p].status \in {"RETRYABLE", "UNKNOWN_VERIFYING"}
  <2>1. task[o] \in TaskRecord
    BY <1>1 DEF Shape
  <2>2. ASSUME NEW t, t.status = task[o].status, task' = [task EXCEPT ![o] = t],
               task[o].status \in {"RETRYABLE", "UNKNOWN_VERIFYING"}
        PROVE  \A p \in Orders :
                  \/ task'[p] = task[p]
                  \/ /\ task'[p].status = task[p].status /\ p = o
                     /\ task[p].status \in {"RETRYABLE", "UNKNOWN_VERIFYING"}
    BY <1>1, <2>2 DEF Shape
  <2>3. CASE ClaimRetry(d, o) \/ ClaimVerification(d, o)
    <3>1. /\ task' = [task EXCEPT ![o] = [task[o] EXCEPT !.owner = Group[d], !.live = TRUE]]
          /\ task[o].status \in {"RETRYABLE", "UNKNOWN_VERIFYING"}
      BY <1>1, <2>1, <2>3 DEF ClaimRetry, ClaimVerification, ClaimTask, Shape, TaskRecord
    <3>2. [task[o] EXCEPT !.owner = Group[d], !.live = TRUE].status = task[o].status
      BY <2>1 DEF TaskRecord
    <3> QED
      BY <2>2, <3>1, <3>2
  <2>4. CASE PrepareVerification(d, o) /\ ~UNCHANGED task
    <3> DEFINE n == Least(task[o].checks + 1, MaxChecks)
    <3>1. /\ task' = [task EXCEPT ![o] = [task[o] EXCEPT !.owner = Group[d], !.live = TRUE,
                                                         !.checks = n]]
          /\ task[o].status \in {"RETRYABLE", "UNKNOWN_VERIFYING"}
      BY <1>1, <2>1, <2>4 DEF PrepareVerification, Shape, TaskRecord
    <3> HIDE DEF n
    <3>2. [task[o] EXCEPT !.owner = Group[d], !.live = TRUE, !.checks = n].status = task[o].status
      BY <2>1 DEF TaskRecord
    <3> QED
      BY <2>2, <3>1, <3>2
  <2> QED
    BY <2>3, <2>4 DEF Click, PrepareEndsIdle, QueryProvider
<1>6. \A p \in Orders : \/ task'[p].live = task[p].live \/ p \in late'
                        \/ \A e \in Drivers : ~InCall(e, p)
  BY <1>1, <1>2, <1>5 DEF Attended
<1> QED
  BY <1>2, <1>4, <1>5, <1>6 DEF Quiet

LEMMA TimeQuiet ==
  ASSUME RepaidInv, NEW o \in Orders, Elapse(o) \/ RefundLeaseExpires(o)
  PROVE  \A p \in Orders : Quiet(p)
<1>1. Shape /\ task[o] \in TaskRecord
  BY DEF RepaidInv, RefundInv, Shape
<1>2. UNCHANGED <<service, shown, provider, byHand, run>> /\ late \subseteq late'
  BY DEF Elapse, RefundLeaseExpires
<1>3. \A p \in Orders \ {o} : task'[p] = task[p]
  BY <1>1 DEF Elapse, RefundLeaseExpires, Shape
<1>4. /\ task'[o].status = task[o].status
      /\ task'[o].live = task[o].live \/ o \in late' \/ \A d \in Drivers : ~InCall(d, o)
  <2>1. CASE Elapse(o)
    <3>1. \/ task' = [task EXCEPT ![o] = [task[o] EXCEPT !.waiting = FALSE]]
          \/ task' = [task EXCEPT ![o] = [task[o] EXCEPT !.aged = TRUE]]
      BY <2>1 DEF Elapse
    <3> QED
      BY <1>1, <3>1 DEF Shape, TaskRecord
  <2>2. CASE RefundLeaseExpires(o)
    <3>1. task' = [task EXCEPT ![o] = [task[o] EXCEPT !.live = FALSE]]
      BY <2>2 DEF RefundLeaseExpires
    <3>2. o \in late' \/ \A d \in Drivers : ~InCall(d, o)
      BY <2>2 DEF RefundLeaseExpires, InCall
    <3> QED
      BY <1>1, <3>1, <3>2 DEF Shape, TaskRecord
  <2> QED
    BY <2>1, <2>2
<1> QED
  BY <1>2, <1>3, <1>4 DEF Quiet, InCall, On

LEMMA OutsideQuiet ==
  ASSUME RepaidInv, (RewardStep /\ UNCHANGED sagaVars) \/ \E d \in Drivers : DriverCrash(d)
  PROVE  \A p \in Orders : Quiet(p)
<1>1. UNCHANGED <<service, shown, task, provider, byHand, late>>
  BY DEF sagaVars, DriverCrash
<1>2. \A e \in Drivers, p \in Orders : InCall(e, p)' => InCall(e, p)
  <2>1. CASE UNCHANGED sagaVars
    BY <2>1 DEF sagaVars, InCall, On
  <2>2. CASE \E d \in Drivers : DriverCrash(d)
    <3>1. PICK d \in Drivers : Rest(d)
      BY <2>2 DEF DriverCrash
    <3> QED
      BY <3>1, CallEffect DEF RepaidInv, RefundInv
  <2> QED
    BY <2>1, <2>2
<1> QED
  BY <1>1, <1>2 DEF Quiet

\* A refund begins when nobody has heard of it.
LEMMA NewTaskRepaid ==
  ASSUME RepaidInv, NEW o \in Orders, Reject(o) \/ RequestActiveRefund(o)
  PROVE  shown' \in [Orders -> TaskStatuses] /\ \A p \in Orders : Repaid(p)'
<1>1. Shape /\ Repaid(o) /\ shown \in [Orders -> TaskStatuses]
  BY DEF RepaidInv, RefundInv
<1>2. /\ NewTask(o) /\ shown[o] = "NONE"
      /\ UNCHANGED <<provider, byHand, run, late>>
      /\ service' = service \/ service' = [service EXCEPT ![o] = "REJECTED"]
  BY DEF Reject, RequestActiveRefund
<1>3. task[o].status = "NONE"
  BY <1>1, <1>2 DEF Repaid, Follows
<1>4. task'[o].status = "PENDING" /\ \A p \in Orders \ {o} : task'[p] = task[p]
  BY <1>1, <1>2 DEF NewTask, NoTask, Shape
<1>5. /\ shown' \in [Orders -> TaskStatuses] /\ shown'[o] = "PENDING"
      /\ \A p \in Orders \ {o} : shown'[p] = shown[p]
  BY <1>1, <1>2 DEF NewTask, TaskStatuses
<1>6. o \notin byHand /\ (o \notin late => \A d \in Drivers : ~InCall(d, o))
  BY <1>1, <1>3 DEF Repaid, Attended, Handed
<1>7. \A d \in Drivers, p \in Orders : InCall(d, p)' <=> InCall(d, p)
  BY <1>2 DEF InCall, On
<1>8. OnlyOn(o)
  BY <1>1, <1>2, <1>4, <1>5, <1>7 DEF OnlyOn, Shape
<1>9. Repaid(o)'
  BY <1>2, <1>4, <1>5, <1>6, <1>7 DEF Repaid, Follows, Attended, Handed
<1> QED
  BY <1>5, <1>8, <1>9, OthersRepaid DEF RepaidInv

\* A call begins when nobody calls, or a lease has ended before an answer.
LEMMA PrepareRepaid ==
  ASSUME RepaidInv, NEW d \in Drivers, NEW o \in Orders, Prepare(d, o)
  PROVE  shown' \in [Orders -> TaskStatuses] /\ \A p \in Orders : Repaid(p)'
<1>1. Shape /\ OutOfBusiness /\ Repaid(o) /\ shown \in [Orders -> TaskStatuses]
  BY DEF RepaidInv, RefundInv
<1>2. /\ UNCHANGED <<provider, byHand, late>>
      /\ Revoke(o) /\ Callable(o) /\ At(d, "calling", o, None)
  BY DEF Prepare
<1>3. /\ task'[o].status = "PROVIDER_PENDING" /\ task'[o].live
      /\ \A p \in Orders \ {o} : task'[p] = task[p]
  <2> DEFINE n == Least(task[o].attempts + 1, MaxAttempts)
             t == [task[o] EXCEPT !.status = "PROVIDER_PENDING", !.owner = Group[d],
                                  !.live = TRUE, !.attempts = n]
  <2>1. task[o] \in TaskRecord
    BY <1>1 DEF Shape
  <2>2. task' = [task EXCEPT ![o] = t]
    BY <1>1, <2>1 DEF Prepare, Shape, TaskRecord
  <2> HIDE DEF n
  <2>3. t.status = "PROVIDER_PENDING" /\ t.live = TRUE
    BY <2>1 DEF TaskRecord
  <2> HIDE DEF t
  <2> QED
    BY <1>1, <2>2, <2>3 DEF Shape
<1>4. /\ shown' = shown \/ shown' = [shown EXCEPT ![o] = "PROVIDER_PENDING"]
      /\ task[o].status = "PENDING" \/ service[o] = "REJECTED" => shown'[o] = "PROVIDER_PENDING"
  BY <1>1 DEF Prepare
<1>5. \A p \in Orders \ {o} : service'[p] = service[p] /\ shown'[p] = shown[p]
  BY <1>1, <1>2, <1>4 DEF Revoke, Shape
<1>6. /\ \A e \in Drivers, p \in Orders :
            InCall(e, p)' => InCall(e, p) \/ (e = d /\ p = o)
      /\ o \notin late => \A e \in Drivers : ~InCall(e, o)
  <2>1. o \notin late => \A e \in Drivers : ~InCall(e, o)
    BY <1>1, <1>2 DEF Repaid, Attended, Callable
  <2> QED
    BY <1>1, <1>2, <2>1, CallEffect
<1>7. OnlyOn(o)
  BY <1>2, <1>3, <1>5, <1>6 DEF OnlyOn
<1>8. Follows(o)'
  <2>1. CASE task[o].status = "PENDING" \/ service[o] = "REJECTED"
    BY <1>3, <1>4, <2>1 DEF Follows
  <2>2. CASE ~(task[o].status = "PENDING" \/ service[o] = "REJECTED")
    <3>1. task[o].status \in Begun /\ task[o].status \in {"RETRYABLE", "PROVIDER_PENDING"}
      BY <1>2, <2>2 DEF Callable, Begun, TaskStatuses
    <3>2. service[o] = "REVOKED" /\ service' = service /\ shown' = shown
      BY <1>1, <1>2, <2>2, <3>1 DEF OutOfBusiness, Out, Revoke, Prepare
    <3> QED
      BY <1>1, <1>3, <3>1, <3>2 DEF Repaid, Follows
  <2> QED
    BY <2>1, <2>2
<1>9. o \notin byHand
  BY <1>1, <1>2 DEF Repaid, Handed, Callable
<1>10. Attended(o)' /\ Handed(o)'
  BY <1>2, <1>3, <1>6, <1>9 DEF Attended, Handed
<1>11. shown' \in [Orders -> TaskStatuses]
  BY <1>1, <1>4 DEF TaskStatuses
<1> QED
  BY <1>7, <1>8, <1>10, <1>11, OthersRepaid DEF RepaidInv, Repaid

\* The provider pays what is called, and what is called is not with the operator.
LEMMA CallRepaid ==
  ASSUME RepaidInv, NEW o \in Orders,
         ProviderSettles(o) \/ \E d \in Drivers : CallProvider(d, o)
  PROVE  shown' \in [Orders -> TaskStatuses] /\ \A p \in Orders : Repaid(p)'
<1>1. Shape /\ Repaid(o) /\ shown \in [Orders -> TaskStatuses]
  BY DEF RepaidInv, RefundInv
<1>2. UNCHANGED <<service, shown, task, byHand, late>>
  BY DEF ProviderSettles, CallProvider
<1>3. \A p \in Orders \ {o} : provider'[p] = provider[p]
  BY <1>1 DEF ProviderSettles, CallProvider, Shape
<1>4. \A d \in Drivers, p \in Orders : InCall(d, p)' => InCall(d, p)
  <2>1. CASE ProviderSettles(o)
    BY <2>1 DEF ProviderSettles, InCall, On
  <2>2. CASE \E d \in Drivers : CallProvider(d, o)
    <3>1. PICK d \in Drivers : CallProvider(d, o)
      BY <2>2
    <3>2. InCall(d, o) /\ \E f : At(d, "answered", o, f)
      BY <3>1 DEF CallProvider, InCall
    <3> QED
      BY <1>1, <3>2, CallEffect
  <2> QED
    BY <2>1, <2>2
<1>5. o \notin late /\ (o \in byHand \/ task[o].status = "MANUAL_SUBMITTED")
         => provider'[o] \in {"none", "failed"}
  <2> SUFFICES ASSUME o \notin late, o \in byHand \/ task[o].status = "MANUAL_SUBMITTED"
               PROVE  FALSE
    OBVIOUS
  <2>1. task[o].status # "PROVIDER_PENDING" /\ provider[o] # "processing"
    BY <1>1 DEF Repaid, Handed
  <2>2. PICK d \in Drivers : CallProvider(d, o)
    BY <2>1 DEF ProviderSettles
  <2>3. InCall(d, o)
    BY <2>2 DEF CallProvider, InCall
  <2> QED
    BY <1>1, <2>1, <2>3 DEF Repaid, Attended
<1>6. OnlyOn(o)
  BY <1>2, <1>3, <1>4 DEF OnlyOn
<1>7. Repaid(o)'
  BY <1>1, <1>2, <1>4, <1>5 DEF Repaid, Follows, Attended, Handed
<1> QED
  BY <1>1, <1>2, <1>6, <1>7, OthersRepaid DEF RepaidInv

\* Who settles o leaves nobody calling for it: he was alone, or nobody was.
LEMMA SettleRepaid ==
  ASSUME RepaidInv, NEW o \in Orders, NEW s \in Begun, NEW w \in BOOLEAN, Settle(o, s, w),
         UNCHANGED <<service, provider, late>>,
         task[o].status # "SUCCEEDED",
         s = "MANUAL_SUBMITTED" => provider[o] \in {"none", "failed"},
         \/ UNCHANGED byHand
         \/ task[o].status = "MANUAL_SUBMITTED" /\ s = "SUCCEEDED" /\ byHand' = byHand \cup {o},
         \A d \in Drivers, p \in Orders : InCall(d, p)' => InCall(d, p),
         o \notin late => \A d \in Drivers : ~InCall(d, o)'
  PROVE  shown' \in [Orders -> TaskStatuses] /\ \A p \in Orders : Repaid(p)'
<1>1. Shape /\ Repaid(o) /\ shown \in [Orders -> TaskStatuses]
  BY DEF RepaidInv, RefundInv
<1>2. task'[o].status = s /\ \A p \in Orders \ {o} : task'[p] = task[p]
  BY <1>1, SettleEffect
<1>3. /\ shown' \in [Orders -> TaskStatuses] /\ shown'[o] = s
      /\ \A p \in Orders \ {o} : shown'[p] = shown[p]
  BY <1>1 DEF Settle, Begun
<1>4. OnlyOn(o)
  BY <1>2, <1>3 DEF OnlyOn
<1>5. Follows(o)' /\ Attended(o)'
  BY <1>2, <1>3 DEF Follows, Attended
<1>6. Handed(o)'
  <2>1. o \notin byHand
    BY <1>1 DEF Repaid, Handed
  <2> QED
    BY <1>1, <1>2, <2>1 DEF Repaid, Handed
<1> QED
  BY <1>3, <1>4, <1>5, <1>6, OthersRepaid DEF RepaidInv, Repaid

LEMMA AnswerRepaid ==
  ASSUME RepaidInv, NEW d \in Drivers, NEW o \in Orders,
         Finalize(d, o) \/ FinalizeVerification(d, o) \/ MarkManualRequired(d, o)
  PROVE  shown' \in [Orders -> TaskStatuses] /\ \A p \in Orders : Repaid(p)'
<1>1. Shape /\ Repaid(o) /\ shown \in [Orders -> TaskStatuses]
  BY DEF RepaidInv, RefundInv
<1>2. UNCHANGED <<service, provider, byHand, late>>
  BY DEF Finalize, FinalizeVerification, MarkManualRequired
<1>3. Rest(d) \/ At(d, "limit", o, None)
  BY DEF Finalize, FinalizeVerification, MarkManualRequired
<1>4. /\ \A e \in Drivers, p \in Orders : InCall(e, p)' => InCall(e, p)
      /\ \A p \in Orders : ~InCall(d, p)' \/ ~Rest(d)
  BY <1>1, <1>3, CallEffect
<1>5. CASE UNCHANGED <<task, shown>>
  <2>1. \A p \in Orders : Quiet(p)
    BY <1>2, <1>4, <1>5 DEF Quiet
  <2> QED
    BY <1>1, <1>5, <2>1, QuietRepaid DEF RepaidInv
<1>6. CASE ~UNCHANGED <<task, shown>>
  <2>1. /\ \E s \in Begun \ {"MANUAL_SUBMITTED"}, w \in BOOLEAN : Settle(o, s, w)
        /\ task[o].status # "SUCCEEDED"
        /\ o \notin late => \A e \in Drivers : ~InCall(e, o)'
    <3>1. CASE Finalize(d, o)
      <4>1. /\ Settle(o, Outcome(run[d].answer), run[d].answer = "TEMPORARY")
            /\ Finalizable(d, o) /\ InCall(d, o) /\ Rest(d)
        BY <1>6, <3>1 DEF Finalize, InCall
      <4>2. run[d].answer \in Called
        BY <1>1, <3>1 DEF Finalize, On, Shape, RunRecord
      <4>3. o \notin late => \A e \in Drivers : ~InCall(e, o)'
        BY <1>1, <1>4, <4>1 DEF Repaid, Attended
      <4> QED
        BY <4>1, <4>2, <4>3 DEF Outcome, Called, Finalizable, Begun, TaskStatuses
    <3>2. CASE FinalizeVerification(d, o)
      <4>1. Verified(o, run[d].answer) /\ task[o].status = "UNKNOWN_VERIFYING"
        BY <1>6, <3>2 DEF FinalizeVerification
      <4>2. o \notin late => \A e \in Drivers : ~InCall(e, o)'
        BY <1>1, <1>4, <4>1 DEF Repaid, Attended
      <4>3. \E s \in Begun \ {"MANUAL_SUBMITTED"}, w \in BOOLEAN : Settle(o, s, w)
        BY <4>1 DEF Verified, Begun, TaskStatuses
      <4> QED
        BY <4>1, <4>2, <4>3
    <3>3. CASE MarkManualRequired(d, o)
      <4>1. /\ Settle(o, "MANUAL_REQUIRED", FALSE)
            /\ task[o].status \in {"RETRYABLE", "UNKNOWN_VERIFYING"}
        BY <1>6, <3>3 DEF MarkManualRequired
      <4>2. o \notin late => \A e \in Drivers : ~InCall(e, o)'
        BY <1>1, <1>4, <4>1 DEF Repaid, Attended
      <4> QED
        BY <4>1, <4>2 DEF Begun, TaskStatuses
    <3> QED
      BY <3>1, <3>2, <3>3
  <2>2. PICK s \in Begun \ {"MANUAL_SUBMITTED"}, w \in BOOLEAN : Settle(o, s, w)
    BY <2>1
  <2> QED
    BY <1>2, <1>4, <2>1, <2>2, SettleRepaid
<1> QED
  BY <1>5, <1>6

\* Reported and approved while the provider has nothing of it, and nobody calls.
LEMMA ByHandRepaid ==
  ASSUME RepaidInv, NEW o \in Orders, SubmitManualRefund(o) \/ ReviewManualRefund(o)
  PROVE  shown' \in [Orders -> TaskStatuses] /\ \A p \in Orders : Repaid(p)'
<1>1. Attended(o)
  BY DEF RepaidInv, Repaid
<1>2. UNCHANGED <<service, provider, run, late>>
      /\ task[o].status \in {"MANUAL_REQUIRED", "MANUAL_SUBMITTED"}
  BY DEF SubmitManualRefund, ReviewManualRefund
<1>3. /\ \A d \in Drivers, p \in Orders : InCall(d, p)' => InCall(d, p)
      /\ o \notin late => \A d \in Drivers : ~InCall(d, o)'
  BY <1>1, <1>2 DEF InCall, On, Attended
<1>4. CASE SubmitManualRefund(o)
  <2>1. /\ Settle(o, "MANUAL_SUBMITTED", FALSE) /\ UNCHANGED byHand
        /\ provider[o] \in {"none", "failed"} /\ "MANUAL_SUBMITTED" \in Begun
    BY <1>4 DEF SubmitManualRefund, Begun, TaskStatuses
  <2> QED
    BY <1>2, <1>3, <2>1, SettleRepaid
<1>5. CASE ReviewManualRefund(o)
  <2>1. /\ task[o].status = "MANUAL_SUBMITTED"
        /\ \/ Settle(o, "SUCCEEDED", FALSE) /\ byHand' = byHand \cup {o}
           \/ Settle(o, "MANUAL_REQUIRED", FALSE) /\ UNCHANGED byHand
        /\ "SUCCEEDED" \in Begun /\ "MANUAL_REQUIRED" \in Begun
    BY <1>5 DEF ReviewManualRefund, Begun, TaskStatuses
  <2> QED
    BY <1>2, <1>3, <2>1, SettleRepaid
<1> QED
  BY <1>4, <1>5

LEMMA RepaidNext ==
  ASSUME SagaAssumption
  PROVE  RepaidInv /\ [Next]_vars => RepaidInv'
<1> SUFFICES ASSUME RepaidInv, [Next]_vars PROVE RepaidInv'
  OBVIOUS
<1>1. RefundInv'
  BY NextInv DEF RepaidInv
<1>2. shown \in [Orders -> TaskStatuses] /\ \A p \in Orders : Repaid(p)
  BY DEF RepaidInv
<1>3. ASSUME \A p \in Orders : Quiet(p), UNCHANGED shown
      PROVE  shown' \in [Orders -> TaskStatuses] /\ \A p \in Orders : Repaid(p)'
  BY <1>2, <1>3, QuietRepaid
<1>4. CASE (RewardStep /\ UNCHANGED sagaVars) \/ \E d \in Drivers : DriverCrash(d)
  BY <1>1, <1>3, <1>4, OutsideQuiet DEF sagaVars, DriverCrash, RepaidInv
<1>5. ASSUME NEW o \in Orders, SagaStep(o) PROVE RepaidInv'
  <2>1. CASE \/ RecordPaymentSucceeded(o) \/ Approve(o) \/ Elapse(o) \/ RefundLeaseExpires(o)
    BY <1>1, <1>3, <2>1, OrderQuiet, TimeQuiet
       DEF RecordPaymentSucceeded, Approve, Elapse, RefundLeaseExpires, RepaidInv
  <2>2. ASSUME NEW d \in Drivers,
               \/ Click(d, o) \/ PrepareEndsIdle(d, o) \/ PrepareVerification(d, o)
               \/ ClaimRetry(d, o) \/ ClaimVerification(d, o) \/ QueryProvider(d, o)
        PROVE  RepaidInv'
    <3>1. UNCHANGED shown
      BY <2>2 DEF Click, PrepareEndsIdle, PrepareVerification, ClaimRetry, ClaimVerification,
                  ClaimTask, QueryProvider
    <3>2. \A p \in Orders : Quiet(p)
      BY <2>2, LeaseQuiet
    <3> QED
      BY <1>1, <1>3, <3>1, <3>2 DEF RepaidInv
  <2>3. ASSUME NEW d \in Drivers, Proceed(d, o) \/ PrepareEndsIdle(d, o)
        PROVE  RepaidInv'
    BY <1>1, <2>2, <2>3, PrepareRepaid, CallRepaid, AnswerRepaid DEF Proceed, RepaidInv
  <2>4. CASE Claim(o) \/ \E d \in Administrators : Click(d, o)
    BY <2>2, <2>4 DEF Claim, Drivers
  <2>5. CASE \/ Reject(o) \/ RequestActiveRefund(o) \/ ProviderSettles(o)
             \/ SubmitManualRefund(o) \/ ReviewManualRefund(o)
    BY <1>1, <2>5, NewTaskRepaid, CallRepaid, ByHandRepaid DEF RepaidInv
  <2> QED
    BY <1>5, <2>1, <2>3, <2>4, <2>5 DEF SagaStep
<1>6. CASE UNCHANGED vars
  BY <1>1, <1>2, <1>6
     DEF vars, sagaVars, RepaidInv, Repaid, Follows, Attended, Handed, InCall, On
<1> QED
  BY <1>4, <1>5, <1>6 DEF Next

\* Everybody sees the status of the refund on the service order, except that a
\* revoked one that is called again shows what it waited for (the updates of
\* refund_status beside every one of the task's, refund_orchestrator_postgres.go).
THEOREM ProjectionFollowsTheorem ==
  ASSUME SagaAssumption
  PROVE  Spec => []ProjectionFollows
<1> QED
  BY RepaidInit, RepaidNext, RepaidImplies, PTL DEF Spec

\* Nobody is paid back twice, by the provider and by hand, unless a lease ended
\* before the answer of its call was recorded: a task is handed to the operator
\* only when nobody calls (the lease prepare takes and finalize gives up).
THEOREM PaidBackOnceTheorem ==
  ASSUME SagaAssumption
  PROVE  Spec => []PaidBackOnce
<1> QED
  BY RepaidInit, RepaidNext, RepaidImplies, PTL DEF Spec

================================================================================
