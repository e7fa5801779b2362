---------------------------- MODULE Payments_proofs ----------------------------
(* The two ways to pay grant what was paid for, once: the payment centre, for *)
(* any number of orders, transactions, handlers and duplicate deliveries, and *)
(* WeChat orders, for any number of orders, handlers, coupons and failures.   *)
EXTENDS MCPayments, TLAPS, FiniteSetTheorems

TransactionOrNone == Transactions \cup {NoTransaction}
OrderStatuses == {"none", "PAYING", "PAID", "FAILED", "FULFILLING", "COMPLETED"}
Results == {"none", "PENDING", "SUCCESS", "FAILED"}
OrderRecord == [key : Keys \cup {"none"}, status : OrderStatuses, fulfillment : Results]
PaymentRecord == [status : Results, transaction : TransactionOrNone]
Busy == [at : {"success", "failure", "persist"}, order : Orders,
         transaction : TransactionOrNone, notified : BOOLEAN, stale : BOOLEAN]

Shape ==
    /\ order \in [Orders -> OrderRecord]
    /\ payment \in [Orders -> PaymentRecord]
    /\ grants \in [Orders -> {0, 1}]
    /\ outcome \in [Orders -> PaymentRecord]
    /\ call \in [Handlers -> Busy \cup {Idle}]

\* What is delivered was decided for an order that exists, and what is recorded
\* as paid names its transaction.
HandledOrders ==
    /\ \A h \in Handlers : call[h] \in Busy =>
          /\ order[call[h].order].status # "none"
          /\ call[h].at \in {"success", "persist"} => call[h].transaction \in Transactions
    /\ \A o \in Orders : outcome[o].status = "SUCCESS" => outcome[o].transaction \in Transactions
    /\ \A o \in Orders : order[o].status = "none" => /\ order[o] = Absent /\ outcome[o] = Undecided
                                                     /\ payment[o].status # "SUCCESS"

RecordedPayments ==
    /\ \A o \in Orders : payment[o].status = "SUCCESS" => payment[o].transaction \in Transactions
    /\ \A o, p \in Orders : payment[o].transaction \in Transactions /\ o # p
                               => payment[p].transaction # payment[o].transaction
    /\ \A o \in Orders : grants[o] = 1 \/ order[o].fulfillment = "FAILED"
                            => payment[o].status = "SUCCESS"

PaymentInv == Shape /\ HandledOrders /\ RecordedPayments

LEMMA InvImplies == PaymentInv => GrantedOncePerPayment
<1> SUFFICES ASSUME PaymentInv PROVE GrantedOncePerPayment
  OBVIOUS
<1>1. \A o \in Orders : grants[o] <= 1
  BY DEF PaymentInv, Shape
<1>2. ASSUME NEW o \in Orders, grants[o] = 1
      PROVE  payment[o].status = "SUCCESS" /\ ~BoundElsewhere(payment[o].transaction, o)
  BY <1>2 DEF PaymentInv, RecordedPayments, BoundElsewhere
<1> QED
  BY <1>1, <1>2 DEF GrantedOncePerPayment

LEMMA InitInv == ASSUME PaymentAssumption PROVE Init => PaymentInv
<1> SUFFICES ASSUME Init PROVE PaymentInv
  OBVIOUS
<1>1. Absent \in OrderRecord /\ Absent.status = "none" /\ Absent.fulfillment = "none"
  BY DEF Absent, OrderRecord, OrderStatuses, Results
<1>2. /\ Undecided \in PaymentRecord /\ Undecided.status = "none"
      /\ Undecided.transaction = NoTransaction
  BY DEF Undecided, PaymentRecord, Results, TransactionOrNone
<1>3. Idle \notin Busy
  BY DEF Idle, Busy
<1>4. NoTransaction \notin Transactions
  BY DEF PaymentAssumption
<1> QED
  BY <1>1, <1>2, <1>3, <1>4 DEF Init, PaymentInv, Shape, HandledOrders, RecordedPayments

-----------------------------------------------------------------------------
(* What the writes do.                                                       *)

LEMMA IdleIsNotBusy == Idle \notin Busy
  BY DEF Idle, Busy

LEMMA BusyHandler ==
  ASSUME Shape, NEW h \in Handlers, call[h].at \in {"success", "failure", "persist"}
  PROVE  /\ call[h] \in Busy /\ call[h].order \in Orders
         /\ call[h].transaction \in TransactionOrNone
<1>1. call[h] \in Busy \cup {Idle} /\ Idle.at = "idle"
  BY DEF Shape, Idle
<1>2. call[h] \in Busy
  BY <1>1
<1> QED
  BY <1>2 DEF Busy

LEMMA StatusEffect ==
  ASSUME Shape, NEW o \in Orders, NEW s \in OrderStatuses, order' = [order EXCEPT ![o].status = s]
  PROVE  /\ order' \in [Orders -> OrderRecord]
         /\ order'[o].status = s /\ order'[o].fulfillment = order[o].fulfillment
         /\ \A p \in Orders \ {o} : order'[p] = order[p]
<1>1. order[o] \in OrderRecord /\ order' = [order EXCEPT ![o] = [order[o] EXCEPT !.status = s]]
  BY DEF Shape
<1>2. /\ [order[o] EXCEPT !.status = s] \in OrderRecord
      /\ [order[o] EXCEPT !.status = s].status = s
      /\ [order[o] EXCEPT !.status = s].fulfillment = order[o].fulfillment
  BY <1>1 DEF OrderRecord
<1> QED
  BY <1>1, <1>2 DEF Shape

LEMMA OrderEffect ==
  ASSUME Shape, NEW o \in Orders, NEW s \in OrderStatuses, NEW f \in Results,
         order' = [order EXCEPT ![o].status = s, ![o].fulfillment = f]
  PROVE  /\ order' \in [Orders -> OrderRecord]
         /\ order'[o].status = s /\ order'[o].fulfillment = f
         /\ \A p \in Orders \ {o} : order'[p] = order[p]
<1> DEFINE r == [[order[o] EXCEPT !.status = s] EXCEPT !.fulfillment = f]
<1>1. order[o] \in OrderRecord /\ order' = [order EXCEPT ![o] = r]
  BY DEF Shape
<1>2. r \in OrderRecord /\ r.status = s /\ r.fulfillment = f
  BY <1>1 DEF OrderRecord
<1> HIDE DEF r
<1> QED
  BY <1>1, <1>2 DEF Shape

LEMMA PaymentStatusEffect ==
  ASSUME Shape, NEW o \in Orders, NEW s \in Results, payment' = [payment EXCEPT ![o].status = s]
  PROVE  /\ payment' \in [Orders -> PaymentRecord]
         /\ payment'[o].status = s /\ payment'[o].transaction = payment[o].transaction
         /\ \A p \in Orders \ {o} : payment'[p] = payment[p]
<1>1. payment[o] \in PaymentRecord
      /\ payment' = [payment EXCEPT ![o] = [payment[o] EXCEPT !.status = s]]
  BY DEF Shape
<1>2. /\ [payment[o] EXCEPT !.status = s] \in PaymentRecord
      /\ [payment[o] EXCEPT !.status = s].status = s
      /\ [payment[o] EXCEPT !.status = s].transaction = payment[o].transaction
  BY <1>1 DEF PaymentRecord
<1> QED
  BY <1>1, <1>2 DEF Shape

\* A handler that stays busy is busy with the same.
SameOrIdle(g) ==
    \/ call'[g] = Idle
    \/ /\ call[g] \in Busy /\ call'[g] \in Busy
       /\ call'[g].order = call[g].order /\ call'[g].transaction = call[g].transaction
       /\ call'[g].at \in {"success", "persist"} => call[g].at \in {"success", "persist"}

LEMMA ReturnedEffect ==
  ASSUME Shape, NEW h \in Handlers, NEW o, NEW wrote, call' = Returned(h, o, wrote)
  PROVE  /\ call' \in [Handlers -> Busy \cup {Idle}]
         /\ \A g \in Handlers : SameOrIdle(g)
<1>1. ASSUME NEW g \in Handlers
      PROVE  call'[g] \in Busy \cup {Idle} /\ SameOrIdle(g)
  <2>1. call[g] \in Busy \cup {Idle}
    BY DEF Shape
  <2>2. CASE call[g] \in Busy
    <3>1. /\ [call[g] EXCEPT !.stale = TRUE] \in Busy
          /\ [call[g] EXCEPT !.stale = TRUE].at = call[g].at
          /\ [call[g] EXCEPT !.stale = TRUE].order = call[g].order
          /\ [call[g] EXCEPT !.stale = TRUE].transaction = call[g].transaction
      BY <2>2 DEF Busy
    <3>2. call'[g] \in {Idle, call[g], [call[g] EXCEPT !.stale = TRUE]}
      BY DEF Returned
    <3> QED
      BY <2>2, <3>1, <3>2 DEF SameOrIdle
  <2>3. CASE call[g] = Idle
    <3>1. Idle.at # "success"
      BY DEF Idle
    <3>2. call'[g] = Idle
      BY <2>3, <3>1 DEF Returned
    <3> QED
      BY <3>2 DEF SameOrIdle
  <2> QED
    BY <2>1, <2>2, <2>3
<1>2. call' = [g \in Handlers |-> call'[g]]
  BY DEF Returned
<1> QED
  BY <1>1, <1>2

\* Handlers keep to what they began as long as no order disappears.
LEMMA CallsKept ==
  ASSUME PaymentInv, \A g \in Handlers : SameOrIdle(g),
         \A o \in Orders : order[o].status # "none" => order'[o].status # "none"
  PROVE  \A h \in Handlers : call'[h] \in Busy =>
            /\ order'[call'[h].order].status # "none"
            /\ call'[h].at \in {"success", "persist"} => call'[h].transaction \in Transactions
<1> SUFFICES ASSUME NEW h \in Handlers, call'[h] \in Busy
             PROVE  /\ order'[call'[h].order].status # "none"
                    /\ call'[h].at \in {"success", "persist"} => call'[h].transaction \in Transactions
  OBVIOUS
<1>1. call[h] \in Busy /\ SameOrIdle(h)
  BY IdleIsNotBusy DEF SameOrIdle
<1>2. call[h].order \in Orders
  BY <1>1 DEF Busy
<1> QED
  BY <1>1, <1>2, IdleIsNotBusy DEF SameOrIdle, PaymentInv, HandledOrders

-----------------------------------------------------------------------------
(* One lemma for each kind of step.                                          *)

LEMMA OrderInv ==
  ASSUME PaymentInv, NEW o \in Orders, ProviderDecides(o) \/ \E k \in Keys : CreateOrder(o, k)
  PROVE  PaymentInv'
<1>1. CASE \E k \in Keys : CreateOrder(o, k)
  <2>1. PICK k \in Keys : CreateOrder(o, k)
    BY <1>1
  <2> DEFINE r == [key |-> k, status |-> "PAYING", fulfillment |-> "PENDING"]
  <2>2. r \in OrderRecord /\ r.status = "PAYING" /\ r.fulfillment = "PENDING"
    BY DEF OrderRecord, OrderStatuses, Results
  <2>3. /\ order' = [order EXCEPT ![o] = r] /\ payment' = [payment EXCEPT ![o].status = "PENDING"]
        /\ order[o].status = "none" /\ UNCHANGED <<grants, outcome, call>>
    BY <2>1 DEF CreateOrder, Absent
  <2> HIDE DEF r
  <2>4. /\ payment' \in [Orders -> PaymentRecord]
        /\ payment'[o].status = "PENDING" /\ payment'[o].transaction = payment[o].transaction
        /\ \A p \in Orders \ {o} : payment'[p] = payment[p]
    BY <2>3, PaymentStatusEffect DEF PaymentInv, Results
  <2>5. /\ order' \in [Orders -> OrderRecord]
        /\ order'[o].status = "PAYING" /\ order'[o].fulfillment = "PENDING"
        /\ \A p \in Orders \ {o} : order'[p] = order[p]
    BY <2>2, <2>3 DEF PaymentInv, Shape
  <2>6. Shape'
    BY <2>3, <2>4, <2>5 DEF PaymentInv, Shape
  <2>7. HandledOrders'
    <3>1. \A h \in Handlers : call[h] \in Busy => call[h].order \in Orders
      BY DEF Busy
    <3> QED
      BY <2>3, <2>4, <2>5, <3>1 DEF PaymentInv, HandledOrders
  <2>8. grants[o] # 1
    BY <2>3 DEF PaymentInv, HandledOrders, RecordedPayments
  <2>9. RecordedPayments'
    <3>1. \A p \in Orders : payment'[p].transaction = payment[p].transaction
      BY <2>4
    <3> QED
      BY <2>3, <2>4, <2>5, <2>8, <3>1 DEF PaymentInv, RecordedPayments
  <2> QED
    BY <2>6, <2>7, <2>9 DEF PaymentInv
<1>2. CASE ProviderDecides(o)
  <2>1. UNCHANGED <<order, payment, grants, call>> /\ order[o].status # "none"
    BY <1>2 DEF ProviderDecides, PaymentInv, HandledOrders
  <2>2. CASE \E t \in Transactions : outcome' = [outcome EXCEPT ![o] = [status |-> "SUCCESS",
                                                                       transaction |-> t]]
    <3>1. PICK t \in Transactions : outcome' = [outcome EXCEPT ![o] = [status |-> "SUCCESS",
                                                                      transaction |-> t]]
      BY <2>2
    <3>2. [status |-> "SUCCESS", transaction |-> t] \in PaymentRecord
      BY DEF PaymentRecord, Results, TransactionOrNone
    <3> QED
      BY <2>1, <3>1, <3>2 DEF PaymentInv, Shape, HandledOrders, RecordedPayments
  <2>3. CASE outcome' = [outcome EXCEPT ![o].status = "FAILED"]
    <3>1. outcome[o] \in PaymentRecord /\ outcome \in [Orders -> PaymentRecord]
      BY DEF PaymentInv, Shape
    <3>2. /\ [outcome[o] EXCEPT !.status = "FAILED"] \in PaymentRecord
          /\ [outcome[o] EXCEPT !.status = "FAILED"].status = "FAILED"
      BY <3>1 DEF PaymentRecord, Results
    <3> QED
      BY <2>1, <2>3, <3>1, <3>2 DEF PaymentInv, Shape, HandledOrders, RecordedPayments
  <2> QED
    BY <1>2, <2>2, <2>3 DEF ProviderDecides
<1> QED
  BY <1>1, <1>2

LEMMA BeginInv ==
  ASSUME PaymentInv, NEW h \in Handlers, NEW o \in Orders, Deliver(h, o) \/ Retry(h, o)
  PROVE  PaymentInv'
<1> DEFINE Handles(at, t, n) ==
      call' = [call EXCEPT ![h] = [at |-> at, order |-> o, transaction |-> t, notified |-> n,
                                   stale |-> FALSE]]
<1>1. UNCHANGED <<order, payment, grants, outcome>>
  BY DEF Deliver, Retry
<1>2. \E at \in {"success", "failure"}, t \in TransactionOrNone, n \in BOOLEAN :
         Handles(at, t, n) /\ (at = "success" => t \in Transactions)
  <2>1. CASE Deliver(h, o)
    <3>1. outcome[o].transaction \in TransactionOrNone
      BY DEF PaymentInv, Shape, PaymentRecord
    <3>2. Handles(IF outcome[o].status = "SUCCESS" THEN "success" ELSE "failure",
                  outcome[o].transaction, TRUE)
      BY <2>1 DEF Deliver, Handling
    <3>3. outcome[o].status = "SUCCESS" => outcome[o].transaction \in Transactions
      BY DEF PaymentInv, HandledOrders
    <3> HIDE DEF Handles
    <3> QED
      BY <3>1, <3>2, <3>3
  <2>2. CASE Retry(h, o)
    <3>1. payment[o].transaction \in Transactions
      BY <2>2 DEF Retry, PaymentInv, RecordedPayments
    <3>2. Handles("success", payment[o].transaction, FALSE)
      BY <2>2 DEF Retry, Handling
    <3> HIDE DEF Handles
    <3> QED
      BY <3>1, <3>2 DEF TransactionOrNone
  <2> QED
    BY <2>1, <2>2
<1>3. order[o].status # "none"
  BY DEF Deliver, Retry, PaymentInv, HandledOrders, RecordedPayments
<1>4. PICK at \in {"success", "failure"}, t \in TransactionOrNone, n \in BOOLEAN :
         Handles(at, t, n) /\ (at = "success" => t \in Transactions)
  BY <1>2
<1> DEFINE r == [at |-> at, order |-> o, transaction |-> t, notified |-> n, stale |-> FALSE]
<1>5. r \in Busy /\ r.order = o /\ r.transaction = t /\ r.at = at
  BY DEF Busy
<1>6. call' = [call EXCEPT ![h] = r]
  BY <1>4
<1> HIDE DEF r
<1>7. call' \in [Handlers -> Busy \cup {Idle}] /\ call'[h] = r /\ \A g \in Handlers \ {h} : call'[g] = call[g]
  BY <1>5, <1>6 DEF PaymentInv, Shape
<1>8. Shape'
  BY <1>1, <1>7 DEF PaymentInv, Shape
<1>9. HandledOrders'
  <2>1. ASSUME NEW g \in Handlers, call'[g] \in Busy
        PROVE  /\ order'[call'[g].order].status # "none"
               /\ call'[g].at \in {"success", "persist"} => call'[g].transaction \in Transactions
    <3>1. CASE g = h
      BY <1>1, <1>3, <1>4, <1>5, <1>7, <3>1
    <3>2. CASE g # h
      BY <1>1, <1>7, <2>1, <3>2 DEF PaymentInv, HandledOrders
    <3> QED
      BY <3>1, <3>2
  <2> QED
    BY <1>1, <2>1 DEF PaymentInv, HandledOrders
<1>10. RecordedPayments'
  BY <1>1 DEF PaymentInv, RecordedPayments
<1> QED
  BY <1>8, <1>9, <1>10 DEF PaymentInv

\* Both transactions that record a payment ask whether another order has it.
LEMMA PaidInv ==
  ASSUME PaymentInv, PaymentAssumption, NEW o \in Orders, NEW t \in Transactions,
         NEW s \in OrderStatuses \ {"none"}, NEW f \in Results, NEW h \in Handlers,
         ~BoundElsewhere(t, o), Paid(o, t), call' = Returned(h, o, TRUE),
         order' = [order EXCEPT ![o].status = s, ![o].fulfillment = f],
         UNCHANGED grants \/ grants' = [grants EXCEPT ![o] = Granted(@)],
         UNCHANGED outcome
  PROVE  PaymentInv'
<1>1. Shape
  BY DEF PaymentInv
<1> DEFINE r == [status |-> "SUCCESS", transaction |-> t]
<1>2. r \in PaymentRecord /\ r.status = "SUCCESS" /\ r.transaction = t
  BY DEF PaymentRecord, Results, TransactionOrNone
<1>3. payment' = [payment EXCEPT ![o] = r]
  BY DEF Paid
<1> HIDE DEF r
<1>4. /\ payment' \in [Orders -> PaymentRecord]
      /\ payment'[o].status = "SUCCESS" /\ payment'[o].transaction = t
      /\ \A p \in Orders \ {o} : payment'[p] = payment[p] /\ payment[p].transaction # t
  BY <1>1, <1>2, <1>3 DEF Shape, BoundElsewhere
<1>5. /\ order' \in [Orders -> OrderRecord] /\ order'[o].status = s
      /\ \A p \in Orders \ {o} : order'[p] = order[p]
  BY <1>1, OrderEffect
<1>6. /\ grants' \in [Orders -> {0, 1}]
      /\ \A p \in Orders \ {o} : grants'[p] = grants[p]
  BY <1>1 DEF Shape, Granted
<1>7. call' \in [Handlers -> Busy \cup {Idle}] /\ \A g \in Handlers : SameOrIdle(g)
  BY <1>1, ReturnedEffect
<1>8. Shape'
  BY <1>1, <1>4, <1>5, <1>6, <1>7 DEF Shape
<1>9. HandledOrders'
  <2>1. \A p \in Orders : order[p].status # "none" => order'[p].status # "none"
    BY <1>5
  <2>2. \A g \in Handlers : call'[g] \in Busy =>
            /\ order'[call'[g].order].status # "none"
            /\ call'[g].at \in {"success", "persist"} => call'[g].transaction \in Transactions
    BY <1>7, <2>1, CallsKept
  <2> QED
    BY <1>4, <1>5, <2>2 DEF PaymentInv, HandledOrders
<1>10. RecordedPayments'
  <2>1. ASSUME NEW p \in Orders, NEW q \in Orders, p # q, payment'[p].transaction \in Transactions
        PROVE  payment'[q].transaction # payment'[p].transaction
    BY <1>4, <2>1 DEF PaymentInv, RecordedPayments
  <2>2. \A p \in Orders : payment'[p].status = "SUCCESS" => payment'[p].transaction \in Transactions
    BY <1>4 DEF PaymentInv, RecordedPayments
  <2>3. ASSUME NEW p \in Orders, grants'[p] = 1 \/ order'[p].fulfillment = "FAILED"
        PROVE  payment'[p].status = "SUCCESS"
    <3>1. CASE p = o
      BY <1>4, <3>1
    <3>2. CASE p # o
      BY <1>4, <1>5, <1>6, <2>3, <3>2 DEF PaymentInv, RecordedPayments
    <3> QED
      BY <3>1, <3>2
  <2> QED
    BY <2>1, <2>2, <2>3 DEF RecordedPayments
<1> QED
  BY <1>8, <1>9, <1>10 DEF PaymentInv

\* A step that records nothing.
LEMMA NothingRecorded ==
  ASSUME PaymentInv, UNCHANGED <<order, payment, grants, outcome>>,
         call' \in [Handlers -> Busy \cup {Idle}], \A g \in Handlers : SameOrIdle(g)
  PROVE  PaymentInv'
<1>1. \A g \in Handlers : call'[g] \in Busy =>
            /\ order'[call'[g].order].status # "none"
            /\ call'[g].at \in {"success", "persist"} => call'[g].transaction \in Transactions
  BY CallsKept
<1> QED
  BY <1>1 DEF PaymentInv, Shape, HandledOrders, RecordedPayments

LEMMA SuccessInv ==
  ASSUME PaymentInv, PaymentAssumption, NEW h \in Handlers,
         CommitSuccess(h) \/ RejectSuccess(h) \/ FailSuccess(h) \/ Persist(h)
  PROVE  PaymentInv'
<1>1. Shape
  BY DEF PaymentInv
<1>2. call[h].at \in {"success", "persist"}
  BY DEF CommitSuccess, RejectSuccess, FailSuccess, Persist
<1>3. call[h] \in Busy /\ call[h].order \in Orders /\ call[h].transaction \in Transactions
  BY <1>1, <1>2, BusyHandler DEF PaymentInv, HandledOrders
<1>4. CASE CommitSuccess(h)
  BY <1>3, <1>4, PaidInv DEF CommitSuccess, OrderStatuses, Results
<1>5. CASE RejectSuccess(h)
  BY <1>1, <1>5, ReturnedEffect, NothingRecorded DEF RejectSuccess
<1>6. CASE FailSuccess(h)
  <2>1. /\ [call[h] EXCEPT !.at = "persist"] \in Busy
        /\ [call[h] EXCEPT !.at = "persist"].order = call[h].order
        /\ [call[h] EXCEPT !.at = "persist"].transaction = call[h].transaction
    BY <1>3 DEF Busy
  <2>2. call' = [call EXCEPT ![h] = [call[h] EXCEPT !.at = "persist"]]
        /\ UNCHANGED <<order, payment, grants, outcome>>
    BY <1>6 DEF FailSuccess
  <2>3. call' \in [Handlers -> Busy \cup {Idle}] /\ \A g \in Handlers : SameOrIdle(g)
    BY <1>1, <1>2, <1>3, <2>1, <2>2 DEF Shape, SameOrIdle
  <2> QED
    BY <2>2, <2>3, NothingRecorded
<1>7. CASE Persist(h)
  <2>1. CASE /\ ~BoundElsewhere(call[h].transaction, call[h].order)
             /\ Paid(call[h].order, call[h].transaction)
             /\ order' = [order EXCEPT ![call[h].order].status = "FULFILLING",
                                       ![call[h].order].fulfillment = "FAILED"]
             /\ call' = Returned(h, call[h].order, TRUE)
    BY <1>3, <1>7, <2>1, PaidInv DEF Persist, OrderStatuses, Results
  <2>2. CASE call' = Returned(h, call[h].order, FALSE) /\ UNCHANGED <<order, payment>>
    BY <1>1, <1>7, <2>2, ReturnedEffect, NothingRecorded DEF Persist
  <2> QED
    BY <1>7, <2>1, <2>2 DEF Persist
<1> QED
  BY <1>4, <1>5, <1>6, <1>7

\* A payment that is recorded never fails afterwards.
LEMMA FailureInv ==
  ASSUME PaymentInv, NEW h \in Handlers, Failure(h)
  PROVE  PaymentInv'
<1> DEFINE o == call[h].order
<1>1. Shape
  BY DEF PaymentInv
<1>2. call[h].at = "failure" /\ UNCHANGED <<grants, outcome>>
  BY DEF Failure
<1>3. call[h] \in Busy /\ o \in Orders /\ order[o].status # "none"
  BY <1>1, <1>2, BusyHandler DEF PaymentInv, HandledOrders
<1>4. CASE UNCHANGED <<payment, order>> /\ call' = Returned(h, o, FALSE)
  BY <1>1, <1>2, <1>4, ReturnedEffect, NothingRecorded
<1>5. CASE /\ PaymentTransition(payment[o].status, "FAILED") /\ payment[o].status # "FAILED"
           /\ payment' = [payment EXCEPT ![o].status = "FAILED"]
           /\ order' = [order EXCEPT ![o].status = "FAILED"]
           /\ call' = Returned(h, o, TRUE)
  <2> HIDE DEF o
  <2>1. payment[o].status # "SUCCESS"
    BY <1>5 DEF PaymentTransition
  <2>2. /\ payment' \in [Orders -> PaymentRecord]
        /\ payment'[o].status = "FAILED" /\ payment'[o].transaction = payment[o].transaction
        /\ \A p \in Orders \ {o} : payment'[p] = payment[p]
    BY <1>1, <1>3, <1>5, PaymentStatusEffect DEF Results
  <2>3. /\ order' \in [Orders -> OrderRecord]
        /\ order'[o].status = "FAILED" /\ order'[o].fulfillment = order[o].fulfillment
        /\ \A p \in Orders \ {o} : order'[p] = order[p]
    BY <1>1, <1>3, <1>5, StatusEffect DEF OrderStatuses
  <2>4. call' \in [Handlers -> Busy \cup {Idle}] /\ \A g \in Handlers : SameOrIdle(g)
    BY <1>1, <1>5, ReturnedEffect
  <2>5. Shape'
    BY <1>1, <1>2, <2>2, <2>3, <2>4 DEF Shape
  <2>6. HandledOrders'
    <3>1. \A p \in Orders : order[p].status # "none" => order'[p].status # "none"
      BY <2>3
    <3>2. \A g \in Handlers : call'[g] \in Busy =>
            /\ order'[call'[g].order].status # "none"
            /\ call'[g].at \in {"success", "persist"} => call'[g].transaction \in Transactions
      BY <2>4, <3>1, CallsKept
    <3> QED
      BY <1>2, <2>2, <2>3, <3>2 DEF PaymentInv, HandledOrders
  <2>7. RecordedPayments'
    <3>1. \A p \in Orders : /\ payment'[p].transaction = payment[p].transaction
                            /\ order'[p].fulfillment = order[p].fulfillment
      BY <2>2, <2>3
    <3> QED
      BY <1>2, <2>1, <2>2, <3>1 DEF PaymentInv, RecordedPayments
  <2> QED
    BY <2>5, <2>6, <2>7 DEF PaymentInv
<1> QED
  BY <1>4, <1>5 DEF Failure

LEMMA NextInv == ASSUME PaymentAssumption PROVE PaymentInv /\ [Next]_vars => PaymentInv'
<1> SUFFICES ASSUME PaymentInv, [Next]_vars PROVE PaymentInv'
  OBVIOUS
<1>1. CASE Next
  BY <1>1, OrderInv, BeginInv, SuccessInv, FailureInv DEF Next
<1>2. CASE UNCHANGED vars
  BY <1>2 DEF vars, PaymentInv, Shape, HandledOrders, RecordedPayments
<1> QED
  BY <1>1, <1>2

\* An order gets its points once, for a recorded payment with a transaction of its
\* own, whatever notifications are delivered twice, fail half-way and are retried
\* (HandlePaymentNotification, persistPaidFulfillmentFailure, RetryFulfillment).
THEOREM GrantedOnceTheorem ==
  ASSUME PaymentAssumption
  PROVE  Spec => []GrantedOncePerPayment
<1> QED
  BY InitInv, NextInv, InvImplies, PTL DEF Spec

-----------------------------------------------------------------------------
(* WeChat orders.                                                            *)

RightsRecord ==
    [status : {"none", "PENDING", "PAID", "CLOSED", "REFUNDED"},
     entitlement : {"none", "PENDING", "SUCCESS", "FAILED"},
     coupon : {"none", "RESERVED", "APPLIED", "CANCELLED"},
     request : {"none", "PENDING", "SUCCEEDED", "CANCELLED", "REFUNDED", "REFUND_PENDING"},
     fulfillment : {"none", "SUCCESS", "FAILED"},
     rights : {0, 1}, bonus : {0, 1}]
Stations == {"confirm", "refundpush", "query", "grant", "selected", "claimed", "expire", "release",
             "unlock", "close", "refundquery", "persist", "record", "mark", "markrecord"}
Working == [at : Stations, order : VirtualOrders, then : {"idle", "expire", "unlock"}]

\* The record r of order o agrees with itself: rights come with their records, the
\* bonus with an applied redemption, and an order that can still be paid for with
\* its coupon has, or had, a reservation.
Sound(o, r) ==
    /\ r.entitlement = "SUCCESS" <=> r.rights = 1
    /\ r.rights = 1 => /\ r.coupon \in {"none", "APPLIED"}
                       /\ r.request \in {"SUCCEEDED", "REFUNDED", "REFUND_PENDING"}
    /\ r.bonus = 1 => r.coupon = "APPLIED"
    /\ o \in Coupons /\ r.status \in {"PENDING", "PAID"} => r.coupon # "none"
    /\ o \notin Coupons => r.coupon = "none"

Holds(r) == r.coupon \in {"RESERVED", "APPLIED"}
Holding == {o \in VirtualOrders : virtualOrder[o].coupon \in {"RESERVED", "APPLIED"}}

RightsInv ==
    /\ virtualOrder \in [VirtualOrders -> RightsRecord]
    /\ \A o \in VirtualOrders : Sound(o, virtualOrder[o])
    /\ virtualCall \in [Handlers -> Working \cup {Virtual!Idle}]
    /\ elsewhere \in Nat /\ IsFiniteSet(Holding) /\ elsewhere + Cardinality(Holding) <= Limit

LEMMA CountedAlike == \A S : Virtual!Cardinality(S) = Cardinality(S)
  BY DEF Virtual!Cardinality, Cardinality

LEMMA RightsImplies ==
  ASSUME RightsInv, Virtual!VirtualAssumption
  PROVE  RightsOnce /\ GrantedIsBilled
<1>1. \A o \in VirtualOrders : virtualOrder[o] \in RightsRecord /\ Sound(o, virtualOrder[o])
  BY DEF RightsInv
<1>2. \A o \in VirtualOrders : virtualOrder[o].rights \in {0, 1} /\ virtualOrder[o].bonus \in {0, 1}
  BY <1>1 DEF RightsRecord
<1> DEFINE B == {o \in VirtualOrders : virtualOrder[o].bonus > 0}
<1>3. B \in SUBSET Holding
  BY <1>1, <1>2 DEF Holding, Sound
<1>4. Cardinality(B) <= Cardinality(Holding) /\ Cardinality(B) \in Nat /\ Cardinality(Holding) \in Nat
  BY <1>3, FS_Subset, FS_CardinalityType DEF RightsInv
<1>5. elsewhere + Cardinality(B) <= Limit
  BY <1>4 DEF RightsInv, Virtual!VirtualAssumption
<1>6. RightsOnce
  BY <1>2, <1>5, CountedAlike DEF RightsOnce, Virtual!RightsOnce
<1>7. GrantedIsBilled
  BY <1>1, <1>2 DEF GrantedIsBilled, Virtual!GrantedIsBilled, Sound
<1> QED
  BY <1>6, <1>7

LEMMA RightsInit ==
  ASSUME Virtual!VirtualAssumption
  PROVE  Virtual!Init => RightsInv
<1> SUFFICES ASSUME Virtual!Init PROVE RightsInv
  OBVIOUS
<1>1. Virtual!Absent \in RightsRecord /\ \A o \in VirtualOrders : Sound(o, Virtual!Absent)
  BY DEF Virtual!Absent, RightsRecord, Sound
<1>2. virtualOrder = [o \in VirtualOrders |-> Virtual!Absent]
  BY DEF Virtual!Init
<1>3. Holding = {}
  BY <1>2 DEF Holding, Virtual!Absent
<1>4. virtualCall \in [Handlers -> Working \cup {Virtual!Idle}] /\ elsewhere = 0
  BY DEF Virtual!Init
<1> QED
  BY <1>1, <1>2, <1>3, <1>4, FS_EmptySet DEF RightsInv, Virtual!VirtualAssumption

\* A record is written that is sound and reserves nothing.
LEMMA Written ==
  ASSUME RightsInv, NEW o \in VirtualOrders, NEW r \in RightsRecord, Sound(o, r),
         Holds(r) => Holds(virtualOrder[o]),
         virtualOrder' = [virtualOrder EXCEPT ![o] = r], UNCHANGED elsewhere,
         Virtual!VirtualAssumption,
         virtualCall' \in [Handlers -> Working \cup {Virtual!Idle}]
  PROVE  RightsInv'
<1>1. /\ virtualOrder' \in [VirtualOrders -> RightsRecord]
      /\ \A p \in VirtualOrders : Sound(p, virtualOrder[p])'
  BY DEF RightsInv, Sound
<1>2. Holding' \in SUBSET Holding
  BY DEF RightsInv, Holding, Holds
<1>3. IsFiniteSet(Holding') /\ Cardinality(Holding') <= Cardinality(Holding)
  BY <1>2, FS_Subset DEF RightsInv
<1>4. Cardinality(Holding) \in Nat /\ Cardinality(Holding') \in Nat
  BY <1>3, FS_CardinalityType DEF RightsInv
<1> QED
  BY <1>1, <1>3, <1>4 DEF RightsInv, Virtual!VirtualAssumption

LEMMA NothingWritten ==
  ASSUME RightsInv, UNCHANGED <<virtualOrder, elsewhere>>,
         virtualCall' \in [Handlers -> Working \cup {Virtual!Idle}]
  PROVE  RightsInv'
<1>1. Holding' = Holding
  BY DEF Holding
<1> QED
  BY <1>1 DEF RightsInv, Sound

\* Where a handler goes.
LEMMA CallKept ==
  ASSUME RightsInv, NEW h \in Handlers,
         \/ UNCHANGED virtualCall
         \/ virtualCall' = [virtualCall EXCEPT ![h] = Virtual!Idle]
         \/ \E at \in Stations, o \in VirtualOrders, then \in {"idle", "expire", "unlock"} :
               Virtual!Asked(h, at, o, then)
         \/ virtualCall[h].at # "idle" /\ \E at \in Stations : Virtual!Goto(h, at)
         \/ virtualCall[h].at # "idle" /\ Virtual!Return(h)
  PROVE  virtualCall' \in [Handlers -> Working \cup {Virtual!Idle}]
<1>1. virtualCall \in [Handlers -> Working \cup {Virtual!Idle}]
  BY DEF RightsInv
<1>2. virtualCall[h].at # "idle" => virtualCall[h] \in Working
  BY <1>1 DEF Virtual!Idle
<1>3. CASE \E at \in Stations, o \in VirtualOrders, then \in {"idle", "expire", "unlock"} :
               Virtual!Asked(h, at, o, then)
  <2>1. PICK at \in Stations, o \in VirtualOrders, then \in {"idle", "expire", "unlock"} :
               virtualCall' = [virtualCall EXCEPT ![h] = [at |-> at, order |-> o, then |-> then]]
    BY <1>3 DEF Virtual!Asked
  <2>2. [at |-> at, order |-> o, then |-> then] \in Working
    BY DEF Working
  <2> QED
    BY <1>1, <2>1, <2>2
<1>4. CASE virtualCall[h].at # "idle" /\ \E at \in Stations : Virtual!Goto(h, at)
  <2>1. PICK at \in Stations : virtualCall' = [virtualCall EXCEPT ![h] = [virtualCall[h] EXCEPT !.at = at]]
    BY <1>1, <1>4 DEF Virtual!Goto
  <2>2. [virtualCall[h] EXCEPT !.at = at] \in Working
    BY <1>2, <1>4 DEF Working
  <2> QED
    BY <1>1, <2>1, <2>2
<1>5. CASE virtualCall[h].at # "idle" /\ Virtual!Return(h)
  <2>1. CASE virtualCall[h].then = "idle"
    <3>1. virtualCall' = [virtualCall EXCEPT ![h] = Virtual!Idle]
      BY <1>5, <2>1 DEF Virtual!Return
    <3> QED
      BY <1>1, <3>1
  <2>2. CASE virtualCall[h].then # "idle"
    <3>1. virtualCall' = [virtualCall EXCEPT ![h] = [virtualCall[h] EXCEPT !.at = virtualCall[h].then]]
      BY <1>1, <1>5, <2>2 DEF Virtual!Return
    <3>2. virtualCall[h].then \in Stations
      BY <1>2, <1>5, <2>2 DEF Working, Stations
    <3>3. [virtualCall[h] EXCEPT !.at = virtualCall[h].then] \in Working
      BY <1>2, <1>5, <3>2 DEF Working
    <3> QED
      BY <1>1, <3>1, <3>3
  <2> QED
    BY <2>1, <2>2
<1>6. CASE virtualCall' = [virtualCall EXCEPT ![h] = Virtual!Idle]
  BY <1>1, <1>6
<1> QED
  BY <1>1, <1>3, <1>4, <1>5, <1>6

\* A handler that is not idle works on an order.
LEMMA AtWork ==
  ASSUME RightsInv, NEW h \in Handlers, virtualCall[h].at # "idle"
  PROVE  virtualCall[h] \in Working /\ virtualCall[h].order \in VirtualOrders
<1>1. virtualCall[h] \in Working \cup {Virtual!Idle}
  BY DEF RightsInv
<1>2. virtualCall[h] \in Working
  BY <1>1 DEF Virtual!Idle
<1> QED
  BY <1>2 DEF Working

-----------------------------------------------------------------------------
(* One lemma for each kind of step on them.                                  *)

\* A redemption is reserved while there is one left.
LEMMA ReserveInv ==
  ASSUME RightsInv, Virtual!VirtualAssumption,
         Virtual!OthersRedeem \/ \E o \in VirtualOrders : Virtual!CreateOrder(o)
  PROVE  RightsInv'
<1>1. virtualOrder \in [VirtualOrders -> RightsRecord] /\ Limit \in Nat
  BY DEF RightsInv, Virtual!VirtualAssumption
<1>2. Virtual!InUse = elsewhere + Cardinality(Holding)
  BY CountedAlike DEF Virtual!InUse, Holding
<1>3. IsFiniteSet(Holding) /\ Cardinality(Holding) \in Nat
  BY FS_CardinalityType DEF RightsInv
<1>4. CASE Virtual!OthersRedeem
  <2>1. elsewhere' = elsewhere + 1 /\ UNCHANGED <<virtualOrder, virtualCall>>
        /\ Virtual!InUse < Limit
    BY <1>4 DEF Virtual!OthersRedeem
  <2>2. Holding' = Holding
    BY <2>1 DEF Holding
  <2>3. elsewhere' \in Nat /\ elsewhere' + Cardinality(Holding) <= Limit
    BY <1>1, <1>2, <1>3, <2>1 DEF RightsInv
  <2> QED
    BY <2>1, <2>2, <2>3 DEF RightsInv, Sound
<1>5. ASSUME NEW o \in VirtualOrders, Virtual!CreateOrder(o)
      PROVE  RightsInv'
  <2> DEFINE r == [Virtual!Absent EXCEPT !.status = "PENDING", !.entitlement = "PENDING",
                                         !.request = "PENDING",
                                         !.coupon = IF o \in Coupons THEN "RESERVED" ELSE "none"]
  <2>1. r \in RightsRecord /\ Sound(o, r) /\ (o \notin Coupons => ~Holds(r))
    <3>1. ASSUME NEW c \in {"none", "RESERVED"}
          PROVE  LET t == [Virtual!Absent EXCEPT !.status = "PENDING", !.entitlement = "PENDING",
                                                 !.request = "PENDING", !.coupon = c]
                 IN /\ t \in RightsRecord /\ t.coupon = c /\ t.rights = 0 /\ t.bonus = 0
                    /\ t.entitlement = "PENDING"
      BY DEF Virtual!Absent, RightsRecord
    <3>2. /\ r \in RightsRecord /\ r.coupon = IF o \in Coupons THEN "RESERVED" ELSE "none"
          /\ r.rights = 0 /\ r.bonus = 0 /\ r.entitlement = "PENDING"
      BY <3>1
    <3> HIDE DEF r
    <3> QED
      BY <3>2 DEF Sound, Holds
  <2>2. /\ virtualOrder' = [virtualOrder EXCEPT ![o] = r]
        /\ UNCHANGED <<virtualCall, elsewhere>>
        /\ o \in Coupons => Virtual!InUse < Limit
    BY <1>5 DEF Virtual!CreateOrder
  <2> HIDE DEF r
  <2>3. CASE o \notin Coupons
    BY <1>1, <2>1, <2>2, <2>3, Written DEF RightsInv
  <2>4. CASE o \in Coupons
    <3>1. Holding' \in SUBSET (Holding \cup {o})
      BY <1>1, <2>2 DEF Holding
    <3>2. /\ IsFiniteSet(Holding \cup {o})
          /\ Cardinality(Holding \cup {o}) <= Cardinality(Holding) + 1
          /\ Cardinality(Holding \cup {o}) \in Nat
      BY <1>3, FS_AddElement, FS_CardinalityType
    <3>3. /\ IsFiniteSet(Holding') /\ Cardinality(Holding') \in Nat
          /\ Cardinality(Holding') <= Cardinality(Holding \cup {o})
      BY <3>1, <3>2, FS_Subset, FS_CardinalityType
    <3>4. elsewhere' + Cardinality(Holding') <= Limit /\ elsewhere' \in Nat
      BY <1>1, <1>2, <1>3, <2>2, <2>4, <3>2, <3>3 DEF RightsInv
    <3>5. /\ virtualOrder' \in [VirtualOrders -> RightsRecord]
          /\ \A p \in VirtualOrders : Sound(p, virtualOrder[p])'
      BY <2>1, <2>2 DEF RightsInv, Sound
    <3> QED
      BY <2>2, <3>3, <3>4, <3>5 DEF RightsInv
  <2> QED
    BY <2>3, <2>4
<1> QED
  BY <1>4, <1>5

\* Whoever learns of a payment, asks, claims, queries or dies writes no order.
LEMMA UnwrittenInv ==
  ASSUME RightsInv, NEW h \in Handlers, NEW o \in VirtualOrders,
         \/ Virtual!ProviderMoves(o) \/ Virtual!ClaimLapses(o)
         \/ Virtual!Push(h, o) \/ Virtual!RefundPush(h, o) \/ Virtual!Sync(h, o)
         \/ Virtual!AdminGrants(h, o) \/ Virtual!Select(h, o)
         \/ Virtual!Claim(h) \/ Virtual!View(h) \/ Virtual!Unlock(h) \/ Virtual!Query(h)
         \/ Virtual!ConfirmFails(h) \/ Virtual!GrantFails(h) \/ Virtual!Record(h)
         \/ Virtual!Crash(h)
  PROVE  RightsInv'
<1>1. UNCHANGED <<virtualOrder, elsewhere>>
  BY DEF Virtual!ProviderMoves, Virtual!ClaimLapses, Virtual!Push, Virtual!RefundPush,
         Virtual!Sync, Virtual!AdminGrants, Virtual!Select, Virtual!Claim, Virtual!View,
         Virtual!Unlock, Virtual!Query, Virtual!ConfirmFails, Virtual!GrantFails,
         Virtual!Record, Virtual!Crash
<1>2. virtualCall' \in [Handlers -> Working \cup {Virtual!Idle}]
  <2>1. CASE Virtual!ProviderMoves(o) \/ Virtual!ClaimLapses(o)
    BY <2>1 DEF Virtual!ProviderMoves, Virtual!ClaimLapses, RightsInv
  <2>2. CASE \/ Virtual!Push(h, o) \/ Virtual!RefundPush(h, o) \/ Virtual!Sync(h, o)
             \/ Virtual!AdminGrants(h, o) \/ Virtual!Select(h, o)
    <3>1. UNCHANGED virtualCall \/ \E at \in Stations : Virtual!Asked(h, at, o, "idle")
      BY <2>2 DEF Virtual!Push, Virtual!RefundPush, Virtual!Sync, Virtual!AdminGrants,
                  Virtual!Select, Stations
    <3> QED
      BY <3>1, CallKept
  <2>3. CASE \/ Virtual!Claim(h) \/ Virtual!Query(h) \/ Virtual!ConfirmFails(h)
             \/ Virtual!GrantFails(h) \/ Virtual!Record(h)
    <3>1. virtualCall[h].at # "idle"
          /\ (Virtual!Return(h) \/ \E at \in Stations : Virtual!Goto(h, at))
      BY <2>3 DEF Virtual!Claim, Virtual!Query, Virtual!ConfirmFails, Virtual!GrantFails,
                  Virtual!Record, Stations
    <3> QED
      BY <3>1, CallKept
  <2>4. CASE Virtual!View(h)
    <3>1. virtualCall[h].order \in VirtualOrders
      BY <2>4, AtWork DEF Virtual!View
    <3>2. \E at \in Stations, then \in {"idle", "expire", "unlock"} :
             Virtual!Asked(h, at, virtualCall[h].order, then)
      BY <2>4 DEF Virtual!View, Stations
    <3> QED
      BY <3>1, <3>2, CallKept
  <2>5. CASE Virtual!Unlock(h) \/ Virtual!Crash(h)
    BY <2>5, CallKept DEF Virtual!Unlock, Virtual!Crash
  <2> QED
    BY <2>1, <2>2, <2>3, <2>4, <2>5
<1> QED
  BY <1>1, <1>2, NothingWritten

\* What is written about an order apart from granting it.
LEMMA NotedInv ==
  ASSUME RightsInv, Virtual!VirtualAssumption, NEW h \in Handlers,
         \/ Virtual!Expire(h) \/ Virtual!Release(h) \/ Virtual!CloseUnpaid(h)
         \/ Virtual!Refund(h) \/ Virtual!Persist(h) \/ Virtual!MarkOrder(h)
         \/ Virtual!MarkRecord(h)
  PROVE  RightsInv'
<1> DEFINE o == virtualCall[h].order
           q == virtualOrder[o]
<1>1. virtualCall[h].at # "idle" /\ UNCHANGED elsewhere
  BY DEF Virtual!Expire, Virtual!Release, Virtual!CloseUnpaid, Virtual!Refund, Virtual!Persist,
         Virtual!MarkOrder, Virtual!MarkRecord
<1>2. o \in VirtualOrders
  BY <1>1, AtWork
<1>3. q \in RightsRecord /\ Sound(o, q) /\ virtualOrder \in [VirtualOrders -> RightsRecord]
  BY <1>2 DEF RightsInv
<1>4. virtualCall' \in [Handlers -> Working \cup {Virtual!Idle}]
  <2>1. \/ Virtual!Return(h)
        \/ \E at \in Stations : Virtual!Goto(h, at)
        \/ Virtual!Asked(h, "release", o, "unlock")
    BY DEF Virtual!Expire, Virtual!Release, Virtual!CloseUnpaid, Virtual!Refund,
           Virtual!Persist, Virtual!MarkOrder, Virtual!MarkRecord, Stations
  <2>2. "release" \in Stations
    BY DEF Stations
  <2> QED
    BY <1>1, <1>2, <2>1, <2>2, CallKept
<1>5. ASSUME NEW r \in RightsRecord, virtualOrder' = [virtualOrder EXCEPT ![o] = r],
             Sound(o, r), Holds(r) => Holds(q)
      PROVE  RightsInv'
  BY <1>1, <1>2, <1>4, <1>5, Written
<1>6. CASE UNCHANGED virtualOrder
  BY <1>1, <1>4, <1>6, NothingWritten
<1> HIDE DEF o, q
<1>7. CASE (Virtual!Expire(h) \/ Virtual!CloseUnpaid(h)) /\ ~UNCHANGED virtualOrder
  <2>1. virtualOrder' = [virtualOrder EXCEPT ![o] = [q EXCEPT !.status = "CLOSED"]]
    BY <1>3, <1>7 DEF Virtual!Expire, Virtual!CloseUnpaid, o, q
  <2>2. LET r == [q EXCEPT !.status = "CLOSED"]
        IN r \in RightsRecord /\ Sound(o, r) /\ (Holds(r) => Holds(q))
    BY <1>3 DEF RightsRecord, Sound, Holds
  <2> QED
    BY <1>5, <2>1, <2>2
<1>8. ASSUME NEW t \in {"none", "PENDING", "SUCCEEDED", "CANCELLED", "REFUNDED",
                         "REFUND_PENDING"},
             NEW c \in {"none", "RESERVED", "APPLIED", "CANCELLED"},
             NEW s \in {"none", "PENDING", "PAID", "CLOSED", "REFUNDED"},
             s \in {q.status, "REFUNDED"},
             q.request \in {"SUCCEEDED", "REFUNDED", "REFUND_PENDING"} =>
                t \in {"SUCCEEDED", "REFUNDED", "REFUND_PENDING"},
             c = q.coupon \/ (c = "CANCELLED" /\ q.coupon = "RESERVED"),
             virtualOrder' = [virtualOrder EXCEPT ![o] = [q EXCEPT !.status = s, !.request = t,
                                                                   !.coupon = c]]
      PROVE  RightsInv'
  <2> DEFINE r == [q EXCEPT !.status = s, !.request = t, !.coupon = c]
  <2>1. r \in RightsRecord
    BY <1>3 DEF RightsRecord
  <2>2. /\ r.status = s /\ r.request = t /\ r.coupon = c
        /\ r.entitlement = q.entitlement /\ r.rights = q.rights /\ r.bonus = q.bonus
    BY <1>3 DEF RightsRecord
  <2> HIDE DEF r
  <2>3. Sound(o, r) /\ (Holds(r) => Holds(q))
    BY <1>3, <1>8, <2>2 DEF Sound, Holds
  <2>4. virtualOrder' = [virtualOrder EXCEPT ![o] = r]
    BY <1>8 DEF r
  <2> QED
    BY <1>5, <2>1, <2>3, <2>4
<1>9. CASE Virtual!Release(h) \/ Virtual!Refund(h)
  <2>1. /\ q.status \in {"none", "PENDING", "PAID", "CLOSED", "REFUNDED"}
        /\ q.coupon \in {"none", "RESERVED", "APPLIED", "CANCELLED"}
        /\ q.request \in {"none", "PENDING", "SUCCEEDED", "CANCELLED", "REFUNDED",
                          "REFUND_PENDING"}
    BY <1>3 DEF RightsRecord
  <2>2. CASE Virtual!Release(h)
    <3> DEFINE t == Virtual!Cancelled(q.request)
               c == IF q.coupon = "RESERVED" THEN "CANCELLED" ELSE q.coupon
    <3>1. virtualOrder' = [virtualOrder EXCEPT ![o] = [q EXCEPT !.status = q.status,
                                                                !.request = t, !.coupon = c]]
      <4>1. virtualOrder' = [virtualOrder EXCEPT ![o] = [q EXCEPT !.request = t, !.coupon = c]]
        BY <1>2, <1>3, <2>2 DEF Virtual!Release, o, q
      <4>2. [q EXCEPT !.request = t, !.coupon = c]
              = [q EXCEPT !.status = q.status, !.request = t, !.coupon = c]
        BY <1>3 DEF RightsRecord
      <4> QED
        BY <4>1, <4>2
    <3>2. t = q.request \/ (t = "CANCELLED" /\ q.request = "PENDING")
      BY DEF Virtual!Cancelled
    <3>3. c = q.coupon \/ (c = "CANCELLED" /\ q.coupon = "RESERVED")
      OBVIOUS
    <3> HIDE DEF t, c
    <3> QED
      BY <1>8, <2>1, <3>1, <3>2, <3>3
  <2>3. CASE Virtual!Refund(h)
    <3> DEFINE w(x, y) ==
          virtualOrder' = [virtualOrder EXCEPT ![o] = [q EXCEPT !.status = x, !.request = y]]
    <3>1. PICK s \in {q.status, "REFUNDED"}, t \in {"REFUNDED", "REFUND_PENDING"} : w(s, t)
      <4>1. CASE provider[o] = "refunded"
        <5>1. w("REFUNDED", "REFUNDED")
          BY <1>2, <1>3, <2>3, <4>1 DEF Virtual!Refund, o, q
        <5> QED
          BY <5>1
      <4>2. CASE provider[o] # "refunded"
        <5>1. w(q.status, "REFUND_PENDING")
          BY <1>2, <1>3, <2>3, <4>2 DEF Virtual!Refund, o, q
        <5> HIDE DEF w
        <5> QED
          BY <5>1
      <4> QED
        BY <4>1, <4>2
    <3>2. [q EXCEPT !.status = s, !.request = t]
            = [q EXCEPT !.status = s, !.request = t, !.coupon = q.coupon]
      BY <1>3 DEF RightsRecord
    <3>3. virtualOrder' = [virtualOrder EXCEPT ![o] = [q EXCEPT !.status = s, !.request = t,
                                                                !.coupon = q.coupon]]
      BY <3>1, <3>2
    <3>4. /\ s \in {"none", "PENDING", "PAID", "CLOSED", "REFUNDED"}
          /\ t \in {"none", "PENDING", "SUCCEEDED", "CANCELLED", "REFUNDED", "REFUND_PENDING"}
      BY <2>1
    <3> HIDE DEF w
    <3> QED
      BY <1>8, <2>1, <3>3, <3>4
  <2> QED
    BY <1>9, <2>2, <2>3
<1>10. CASE Virtual!Persist(h) /\ ~UNCHANGED virtualOrder
  <2> DEFINE r == [[q EXCEPT !.status = "PAID"] EXCEPT !.entitlement = "FAILED"]
  <2>1. virtualOrder' = [virtualOrder EXCEPT ![o] = r] /\ Virtual!Failable(o)
    BY <1>2, <1>3, <1>10 DEF Virtual!Persist, o, q
  <2>2. q.entitlement # "SUCCESS" /\ q.status \in {"PENDING", "PAID"}
    BY <2>1 DEF Virtual!Failable, Virtual!Payable, q
  <2>3. r \in RightsRecord /\ Sound(o, r) /\ (Holds(r) => Holds(q))
    BY <1>3, <2>2 DEF RightsRecord, Sound, Holds
  <2> QED
    BY <1>5, <2>1, <2>3
<1>11. CASE Virtual!MarkOrder(h) /\ ~UNCHANGED virtualOrder
  <2> DEFINE r == [q EXCEPT !.entitlement = "FAILED"]
  <2>1. virtualOrder' = [virtualOrder EXCEPT ![o] = r] /\ q.entitlement # "SUCCESS"
    BY <1>3, <1>11 DEF Virtual!MarkOrder, o, q
  <2>2. r \in RightsRecord /\ Sound(o, r) /\ (Holds(r) => Holds(q))
    BY <1>3, <2>1 DEF RightsRecord, Sound, Holds
  <2> QED
    BY <1>5, <2>1, <2>2
<1>12. CASE Virtual!MarkRecord(h)
  <2> DEFINE r == [q EXCEPT !.fulfillment = "FAILED"]
  <2>1. virtualOrder' = [virtualOrder EXCEPT ![o] = r]
    BY <1>3, <1>12 DEF Virtual!MarkRecord, o, q
  <2>2. r \in RightsRecord /\ Sound(o, r) /\ (Holds(r) => Holds(q))
    BY <1>3 DEF RightsRecord, Sound, Holds
  <2> QED
    BY <1>5, <2>1, <2>2
<1> QED
  BY <1>6, <1>7, <1>9, <1>10, <1>11, <1>12

\* Rights are granted with everything that belongs to them, to an order that can
\* still be paid for and whose reservation is still there.
LEMMA GrantedInv ==
  ASSUME RightsInv, Virtual!VirtualAssumption, NEW h \in Handlers,
         Virtual!Confirm(h) \/ Virtual!Grant(h)
  PROVE  RightsInv'
<1> DEFINE o == virtualCall[h].order
           q == virtualOrder[o]
<1>1. virtualCall[h].at # "idle" /\ UNCHANGED elsewhere /\ Virtual!Return(h)
  BY DEF Virtual!Confirm, Virtual!Grant
<1>2. o \in VirtualOrders
  BY <1>1, AtWork
<1>3. q \in RightsRecord /\ Sound(o, q) /\ virtualOrder \in [VirtualOrders -> RightsRecord]
  BY <1>2 DEF RightsInv
<1>4. virtualCall' \in [Handlers -> Working \cup {Virtual!Idle}]
  BY <1>1, CallKept
<1>5. ASSUME NEW r \in RightsRecord, virtualOrder' = [virtualOrder EXCEPT ![o] = r],
             Sound(o, r), Holds(r) => Holds(q)
      PROVE  RightsInv'
  BY <1>1, <1>2, <1>4, <1>5, Written
<1> HIDE DEF o, q
<1>6. CASE virtualOrder' = [virtualOrder EXCEPT ![o] = Virtual!Entitled(o)]
           /\ q.status \in {"PENDING", "PAID"} /\ Virtual!Redeemable(o)
  <2> DEFINE r == [q EXCEPT !.status = "PAID", !.entitlement = "SUCCESS",
                            !.fulfillment = "SUCCESS", !.request = "SUCCEEDED",
                            !.rights = Virtual!Granted(@),
                            !.bonus = IF o \in Coupons THEN Virtual!Granted(@) ELSE @,
                            !.coupon = IF o \in Coupons THEN "APPLIED" ELSE @]
  <2>1. Virtual!Entitled(o) = r
    BY DEF Virtual!Entitled, q
  <2>2. q.coupon # "CANCELLED"
    BY <1>6 DEF Virtual!Redeemable, q
  <2>3. r \in RightsRecord /\ Sound(o, r) /\ (Holds(r) => Holds(q))
    BY <1>3, <1>6, <2>2 DEF RightsRecord, Sound, Holds, Virtual!Granted
  <2> HIDE DEF r
  <2> QED
    BY <1>5, <1>6, <2>1, <2>3
<1>7. CASE virtualOrder' = [virtualOrder EXCEPT ![o].fulfillment = "SUCCESS",
                                                ![o].request = "SUCCEEDED"]
           /\ q.entitlement = "SUCCESS"
  <2> DEFINE r == [[q EXCEPT !.fulfillment = "SUCCESS"] EXCEPT !.request = "SUCCEEDED"]
  <2>1. virtualOrder' = [virtualOrder EXCEPT ![o] = r]
    BY <1>2, <1>3, <1>7 DEF q
  <2>2. r \in RightsRecord /\ Sound(o, r) /\ (Holds(r) => Holds(q))
    BY <1>3, <1>7 DEF RightsRecord, Sound, Holds
  <2> QED
    BY <1>5, <2>1, <2>2
<1> QED
  BY <1>6, <1>7 DEF Virtual!Confirm, Virtual!Grant, Virtual!Payable, o, q

LEMMA RightsNext ==
  ASSUME Virtual!VirtualAssumption
  PROVE  RightsInv /\ [Virtual!Next]_(Virtual!vars) => RightsInv'
<1> SUFFICES ASSUME RightsInv, [Virtual!Next]_(Virtual!vars) PROVE RightsInv'
  OBVIOUS
<1>1. CASE UNCHANGED Virtual!vars
  BY <1>1, NothingWritten DEF Virtual!vars, RightsInv
<1>2. ASSUME NEW o \in VirtualOrders, Virtual!ProviderMoves(o) \/ Virtual!ClaimLapses(o)
      PROVE  RightsInv'
  BY <1>2, NothingWritten DEF Virtual!ProviderMoves, Virtual!ClaimLapses, RightsInv
<1>3. ASSUME NEW h \in Handlers, NEW o \in VirtualOrders,
             \/ Virtual!Push(h, o) \/ Virtual!RefundPush(h, o) \/ Virtual!Sync(h, o)
             \/ Virtual!AdminGrants(h, o) \/ Virtual!Select(h, o)
      PROVE  RightsInv'
  BY <1>3, UnwrittenInv
<1>4. ASSUME NEW h \in Handlers, Virtual!Step(h) \/ Virtual!Crash(h)
      PROVE  RightsInv'
  <2>1. virtualCall[h].at # "idle" => virtualCall[h].order \in VirtualOrders
    BY AtWork
  <2>2. CASE virtualCall[h].at = "idle"
    <3>1. virtualCall[h] \notin Working
      BY <2>2 DEF Working, Stations
    <3>2. virtualCall[h] = Virtual!Idle
      BY <3>1 DEF RightsInv
    <3> QED
      BY <1>4, <2>2, <3>2
         DEF Virtual!Step, Virtual!Compensation, Virtual!Aftermath, Virtual!Claim, Virtual!View,
             Virtual!Expire, Virtual!Release, Virtual!Unlock, Virtual!Persist, Virtual!Record,
             Virtual!MarkOrder, Virtual!MarkRecord, Virtual!Query, Virtual!CloseUnpaid,
             Virtual!Refund, Virtual!ConfirmFails, Virtual!GrantFails, Virtual!Crash
  <2>3. CASE virtualCall[h].at # "idle"
    BY <1>4, <2>1, <2>3, UnwrittenInv, NotedInv
       DEF Virtual!Step, Virtual!Compensation, Virtual!Aftermath
  <2> QED
    BY <2>2, <2>3
<1> QED
  BY <1>1, <1>2, <1>3, <1>4, ReserveInv, GrantedInv DEF Virtual!Next

\* Rights and bonus of a WeChat order are granted once, and no interleaving of
\* reservations, closings, late payments, failures and retries redeems a coupon
\* more often than its limit (reserveCoupon, applyVirtualCouponBonusTx,
\* grantOrderEntitlementsTx).
THEOREM RightsOnceTheorem ==
  ASSUME Virtual!VirtualAssumption
  PROVE  Virtual!Spec => []RightsOnce
<1> QED
  BY RightsInit, RightsNext, RightsImplies, PTL DEF Virtual!Spec

\* An order with its rights says so, its redemption is applied and its payment
\* request is not open or cancelled, whatever a stale handler writes afterwards
\* (markCommercialOrderClosed, markEntitlementFailed, persistPaidEntitlementFailure).
THEOREM GrantedIsBilledTheorem ==
  ASSUME Virtual!VirtualAssumption
  PROVE  Virtual!Spec => []GrantedIsBilled
<1> QED
  BY RightsInit, RightsNext, RightsImplies, PTL DEF Virtual!Spec

================================================================================
