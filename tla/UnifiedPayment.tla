---------------------------- MODULE UnifiedPayment ----------------------------
(* The payment centre: an order is created under an idempotency key, the     *)
(* provider notifies success or failure at least once, and a success is      *)
(* recorded and fulfilled in one serializable transaction.  When that fails, *)
(* a second transaction records that the order was paid and not fulfilled.   *)
EXTENDS Integers, FiniteSets

CONSTANTS Orders, Keys, Transactions,
          Handlers,        \* notifications and retries being handled
          MaxDuplicates    \* bound: deliveries after one was acknowledged

NoTransaction == "none"

PaymentAssumption == NoTransaction \notin Transactions /\ MaxDuplicates \in Nat

VARIABLES order,           \* xz_orders: key, status, fulfilment
          payment,         \* xz_payment_records: status, transaction
          grants,          \* points granted, per order
          outcome,         \* what the provider decided
          acknowledged,    \* orders whose notification was answered without an error
          call,            \* what a handler does
          duplicates       \* bound

vars == <<order, payment, grants, outcome, acknowledged, call, duplicates>>

Absent == [key |-> "none", status |-> "none", fulfillment |-> "none"]
Idle == [at |-> "idle", stale |-> FALSE]
Undecided == [status |-> "none", transaction |-> NoTransaction]

Init ==
    /\ order = [o \in Orders |-> Absent]
    /\ payment = [o \in Orders |-> Undecided]
    /\ grants = [o \in Orders |-> 0]
    /\ outcome = [o \in Orders |-> Undecided]
    /\ acknowledged = {}
    /\ call = [h \in Handlers |-> Idle]
    /\ duplicates = 0

-----------------------------------------------------------------------------
(* state_machine.go.                                                         *)

OrderTransition(from, to) ==
    \/ from = to
    \/ <<from, to>> \in {<<"PAYING", "PAID">>, <<"PAYING", "FAILED">>, <<"PAID", "FULFILLING">>,
                         <<"FULFILLING", "COMPLETED">>}

PaymentTransition(from, to) == from = to \/ (from = "PENDING" /\ to \in {"SUCCESS", "FAILED"})

-----------------------------------------------------------------------------
(* Orders and what becomes of them at the provider.                          *)

\* The provider is called inside the transaction: what it refuses leaves no
\* trace, and a key that is in use meanwhile is a conflict.
CreateOrder(o, k) ==
    /\ order[o] = Absent
    /\ \A p \in Orders : order[p].key # k
    /\ order' = [order EXCEPT ![o] = [key |-> k, status |-> "PAYING", fulfillment |-> "PENDING"]]
    /\ payment' = [payment EXCEPT ![o].status = "PENDING"]
    /\ UNCHANGED <<grants, outcome, acknowledged, call, duplicates>>

ProviderDecides(o) ==
    /\ order[o] # Absent /\ outcome[o] = Undecided
    /\ \/ \E t \in Transactions : outcome' = [outcome EXCEPT ![o] = [status |-> "SUCCESS",
                                                                     transaction |-> t]]
       \/ outcome' = [outcome EXCEPT ![o].status = "FAILED"]
    /\ UNCHANGED <<order, payment, grants, acknowledged, call, duplicates>>

-----------------------------------------------------------------------------
(* HandlePaymentNotification.                                                *)

Handling(h, at, o, t, notified) ==
    call' = [call EXCEPT ![h] = [at |-> at, order |-> o, transaction |-> t, notified |-> notified,
                                 stale |-> FALSE]]

\* A delivery: a success begins a serializable transaction, which fails when its
\* rows are written by another one before it has them locked.
Deliver(h, o) ==
    /\ call[h] = Idle
    /\ outcome[o] # Undecided
    /\ o \in acknowledged => duplicates < MaxDuplicates
    /\ Handling(h, IF outcome[o].status = "SUCCESS" THEN "success" ELSE "failure",
                o, outcome[o].transaction, TRUE)
    /\ duplicates' = IF o \in acknowledged THEN duplicates + 1 ELSE duplicates
    /\ UNCHANGED <<order, payment, grants, outcome, acknowledged>>

\* RetryFulfillment: an administrator repeats what the payment record says.
Retry(h, o) ==
    /\ call[h] = Idle
    /\ order[o].fulfillment = "FAILED"
    /\ duplicates < MaxDuplicates
    /\ duplicates' = duplicates + 1
    /\ Handling(h, "success", o, payment[o].transaction, FALSE)
    /\ UNCHANGED <<order, payment, grants, outcome, acknowledged>>

\* Whoever began a serializable transaction on the rows of o has to give up.
Returned(h, o, wrote) ==
    [g \in Handlers |-> IF g = h THEN Idle
                        ELSE IF wrote /\ call[g].at = "success" /\ call[g].order = o
                        THEN [call[g] EXCEPT !.stale = TRUE]
                        ELSE call[g]]

Answered(h, ok) ==
    acknowledged' = IF ok /\ call[h].notified THEN acknowledged \cup {call[h].order} ELSE acknowledged

\* As if a transaction could pay for any number of orders.
BoundNowhere(t, o) == FALSE

BoundElsewhere(t, o) == \E p \in Orders \ {o} : payment[p].transaction = t

\* As if fulfilment could only start from a payment that was just recorded.
PayableOnce(o) == PaymentTransition(payment[o].status, "SUCCESS") /\ payment[o].status # "SUCCESS"

\* Of an order whose payment was recorded before, the status does not matter.
Payable(o) ==
    payment[o].status # "SUCCESS" =>
        PaymentTransition(payment[o].status, "SUCCESS") /\ OrderTransition(order[o].status, "PAID")

\* As if the ledger were not asked whether the points were granted.
GrantedAgain(n) == n + 1

\* ApplyPaidPointFulfillment: once per order, by the key of the ledger row.
Granted(n) == IF n = 0 THEN 1 ELSE n

Paid(o, t) == payment' = [payment EXCEPT ![o] = [status |-> "SUCCESS", transaction |-> t]]

CommitSuccess(h) ==
    LET o == call[h].order
        t == call[h].transaction
    IN /\ call[h].at = "success" /\ ~call[h].stale
       /\ ~BoundElsewhere(t, o) /\ Payable(o)
       /\ Paid(o, t)
       /\ order' = [order EXCEPT ![o].status = "COMPLETED", ![o].fulfillment = "SUCCESS"]
       /\ grants' = [grants EXCEPT ![o] = Granted(@)]
       /\ Answered(h, TRUE)
       /\ call' = Returned(h, o, TRUE)
       /\ UNCHANGED <<outcome, duplicates>>

\* Another order has the transaction, or the order is not payable: the answer is
\* an error and nothing else.
RejectSuccess(h) ==
    LET o == call[h].order
    IN /\ call[h].at = "success" /\ ~call[h].stale
       /\ BoundElsewhere(call[h].transaction, o) \/ ~Payable(o)
       /\ call' = Returned(h, o, FALSE)
       /\ UNCHANGED <<order, payment, grants, outcome, acknowledged, duplicates>>

\* Serialization, the grant or the commission snapshot failed.
FailSuccess(h) ==
    /\ call[h].at = "success"
    /\ call[h].stale \/ Payable(call[h].order)
    /\ call' = [call EXCEPT ![h].at = "persist"]
    /\ UNCHANGED <<order, payment, grants, outcome, acknowledged, duplicates>>

\* persistPaidFulfillmentFailure looks at no status.  It fails on the unique
\* index, or because the database does.
Persist(h) ==
    LET o == call[h].order
    IN /\ call[h].at = "persist"
       /\ \/ /\ ~BoundElsewhere(call[h].transaction, o)
             /\ Paid(o, call[h].transaction)
             /\ order' = [order EXCEPT ![o].status = "FULFILLING", ![o].fulfillment = "FAILED"]
             /\ call' = Returned(h, o, TRUE)
          \/ call' = Returned(h, o, FALSE) /\ UNCHANGED <<order, payment>>
       /\ UNCHANGED <<grants, outcome, acknowledged, duplicates>>

\* handlePaymentFailure, under the row locks from the start.
Failure(h) ==
    LET o == call[h].order
        allowed == /\ PaymentTransition(payment[o].status, "FAILED")
                   /\ OrderTransition(order[o].status, "FAILED")
    IN /\ call[h].at = "failure"
       /\ IF payment[o].status # "FAILED" /\ allowed
          THEN /\ payment' = [payment EXCEPT ![o].status = "FAILED"]
               /\ order' = [order EXCEPT ![o].status = "FAILED"]
               /\ call' = Returned(h, o, TRUE)
          ELSE call' = Returned(h, o, FALSE) /\ UNCHANGED <<payment, order>>
       /\ Answered(h, payment[o].status = "FAILED" \/ allowed)
       /\ UNCHANGED <<grants, outcome, duplicates>>

Next ==
    \/ \E o \in Orders : ProviderDecides(o) \/ \E k \in Keys : CreateOrder(o, k)
    \/ \E h \in Handlers :
          \/ \E o \in Orders : Deliver(h, o) \/ Retry(h, o)
          \/ CommitSuccess(h) \/ RejectSuccess(h) \/ FailSuccess(h) \/ Persist(h) \/ Failure(h)

\* The provider delivers until it gets an answer, a handler goes on, and neither
\* the grant nor the database fails every time.
Fairness ==
    /\ \A o \in Orders : SF_vars(\E h \in Handlers : o \notin acknowledged /\ Deliver(h, o))
    /\ \A o \in Orders : SF_vars(\E h \in Handlers : CommitSuccess(h) /\ call[h].order = o)
    /\ \A h \in Handlers : WF_vars(FailSuccess(h) \/ RejectSuccess(h) \/ Persist(h) \/ Failure(h))

Spec == Init /\ [][Next]_vars /\ Fairness

-----------------------------------------------------------------------------
(* Properties.                                                               *)

\* Points are granted once per order, and only for a payment that is recorded
\* with a transaction that pays for no other order: whatever the interleaving of
\* duplicate notifications, failed attempts, the record of a failure that comes
\* after another handler's success, and retries.
GrantedOncePerPayment ==
    /\ \A o \in Orders : grants[o] <= 1
    /\ \A o \in Orders : grants[o] = 1 => /\ payment[o].status = "SUCCESS"
                                          /\ ~BoundElsewhere(payment[o].transaction, o)

Shared(o) == \E p \in Orders \ {o} : outcome[p].transaction = outcome[o].transaction

\* An order the provider was paid for gets its points in the end.
EventuallyGranted ==
    \A o \in Orders : outcome[o].status = "SUCCESS" ~> grants[o] > 0 \/ Shared(o)

=============================================================================
