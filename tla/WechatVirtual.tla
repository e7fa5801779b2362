----------------------------- MODULE WechatVirtual -----------------------------
(* Orders paid through WeChat virtual payment.  A payment is learnt from a      *)
(* notification, from a query by its user, or from the compensation loop of any *)
(* instance; whoever learns it grants the rights, in one transaction that holds *)
(* the order's row.  What follows a failure is written by transactions of its   *)
(* own, and so is the closing of an order that was not paid in time.            *)
EXTENDS Integers, FiniteSets

CONSTANTS Orders,
          Coupons,         \* orders that ask for the coupon
          Limit,           \* redemptions the coupon allows, these orders' and all other ones'
          Handlers,        \* requests and compensation loops at work
          MaxRepeats       \* bound: crashes and repeated deliveries

VirtualAssumption == Coupons \subseteq Orders /\ Limit \in Nat /\ MaxRepeats \in Nat

VARIABLES order,           \* xz_orders and the rows that hang on it
          event,           \* processing status of the payment's events, per order
          refundEvent,     \* and of the refund notification
          provider,        \* what WeChat knows of the order
          locked,          \* compensation_locked_until is in the future
          call,            \* what a handler does
          elsewhere,       \* redemptions of the coupon by other orders
          repeats          \* bound

vars == <<order, event, refundEvent, provider, locked, call, elsewhere, repeats>>

Absent == [status |-> "none", entitlement |-> "none", coupon |-> "none",
           request |-> "none", fulfillment |-> "none", rights |-> 0, bonus |-> 0]
Idle == [at |-> "idle"]

Init ==
    /\ order = [o \in Orders |-> Absent]
    /\ event = [o \in Orders |-> "none"] /\ refundEvent = [o \in Orders |-> "none"]
    /\ provider = [o \in Orders |-> "unpaid"]
    /\ locked = {}
    /\ call = [h \in Handlers |-> Idle]
    /\ elsewhere = 0
    /\ repeats = 0

-----------------------------------------------------------------------------
(* Orders, time, and what happens at WeChat.                                 *)

InUse == elsewhere + Cardinality({o \in Orders : order[o].coupon \in {"RESERVED", "APPLIED"}})

\* The limit is counted again under the coupon's row lock.
CreateOrder(o) ==
    /\ order[o] = Absent
    /\ o \in Coupons => InUse < Limit
    /\ order' = [order EXCEPT ![o] = [Absent EXCEPT !.status = "PENDING", !.entitlement = "PENDING",
                                                    !.request = "PENDING",
                                                    !.coupon = IF o \in Coupons THEN "RESERVED" ELSE "none"]]
    /\ UNCHANGED <<event, refundEvent, provider, locked, call, elsewhere, repeats>>

OthersRedeem ==
    /\ InUse < Limit
    /\ elsewhere' = elsewhere + 1
    /\ UNCHANGED <<order, event, refundEvent, provider, locked, call, repeats>>

ProviderMoves(o) ==
    /\ order[o] # Absent
    /\ \/ provider[o] = "unpaid" /\ \E p \in {"paid", "closed"} : provider' = [provider EXCEPT ![o] = p]
       \/ provider[o] = "paid" /\ \E p \in {"refunded", "unrefunded"} : provider' = [provider EXCEPT ![o] = p]
    /\ UNCHANGED <<order, event, refundEvent, locked, call, elsewhere, repeats>>

HasBeenPaid(o) == provider[o] \in {"paid", "refunded", "unrefunded"}

-----------------------------------------------------------------------------
(* What a handler is asked to do.  then: where it goes on when this is over. *)

Asked(h, at, o, then) == call' = [call EXCEPT ![h] = [at |-> at, order |-> o, then |-> then]]

Goto(h, at) == call' = [call EXCEPT ![h].at = at]

Return(h) ==
    call' = [call EXCEPT ![h] = IF @.then = "idle" THEN Idle ELSE [@ EXCEPT !.at = call[h].then]]

\* upsertVirtualPaymentEventTx: all rows of a payment are found by its
\* transaction; one that is SUCCESS ends the matter.
Repeated(events, o) == events[o] = "SUCCESS"

Push(h, o) ==
    /\ call[h] = Idle /\ HasBeenPaid(o)
    /\ IF Repeated(event, o)
       THEN repeats < MaxRepeats /\ repeats' = repeats + 1 /\ UNCHANGED call
       ELSE Asked(h, "confirm", o, "idle") /\ UNCHANGED repeats
    /\ UNCHANGED <<order, event, refundEvent, provider, locked, elsewhere>>

RefundPush(h, o) ==
    /\ call[h] = Idle /\ provider[o] \in {"refunded", "unrefunded"}
    /\ ~Repeated(refundEvent, o)
    /\ Asked(h, "refundpush", o, "idle")
    /\ UNCHANGED <<order, event, refundEvent, provider, locked, elsewhere, repeats>>

\* syncOwnedOrder.
Sync(h, o) ==
    /\ call[h] = Idle /\ order[o] # Absent
    /\ ~(order[o].status = "PAID" /\ order[o].entitlement = "SUCCESS")
    /\ Asked(h, "query", o, "idle")
    /\ UNCHANGED <<order, event, refundEvent, provider, locked, elsewhere, repeats>>

AdminGrants(h, o) ==
    /\ call[h] = Idle /\ order[o] # Absent /\ repeats < MaxRepeats
    /\ repeats' = repeats + 1
    /\ Asked(h, "grant", o, "idle")
    /\ UNCHANGED <<order, event, refundEvent, provider, locked, elsewhere>>

-----------------------------------------------------------------------------
(* compensateOrders: candidates are read, claimed and read again.            *)

\* As if an order whose grant failed were nobody's business.
CandidateUnlessFailed(o) ==
    order[o].status = "PENDING" \/ (order[o].status = "PAID" /\ order[o].entitlement = "PENDING")

Candidate(o) ==
    \/ order[o].status = "PENDING"
    \/ order[o].status = "PAID" /\ order[o].entitlement \in {"PENDING", "FAILED"}

Select(h, o) ==
    /\ call[h] = Idle
    /\ Candidate(o)
    /\ o \notin locked
    /\ Asked(h, "selected", o, "idle")
    /\ UNCHANGED <<order, event, refundEvent, provider, locked, elsewhere, repeats>>

Claim(h) ==
    /\ call[h].at = "selected"
    /\ IF call[h].order \in locked
       THEN Return(h) /\ UNCHANGED locked
       ELSE Goto(h, "claimed") /\ locked' = locked \cup {call[h].order}
    /\ UNCHANGED <<order, event, refundEvent, provider, elsewhere, repeats>>

View(h) ==
    LET paid == order[call[h].order].status = "PAID"
    IN /\ call[h].at = "claimed"
       /\ Asked(h, IF paid THEN "grant" ELSE "query", call[h].order, IF paid THEN "unlock" ELSE "expire")
       /\ UNCHANGED <<order, event, refundEvent, provider, locked, elsewhere, repeats>>

\* Whether an order has expired, its clock says: one that has is no longer pending.
Expire(h) ==
    LET o == call[h].order
    IN /\ call[h].at = "expire"
       /\ \/ order[o].status = "PENDING" /\ order' = [order EXCEPT ![o].status = "CLOSED"]
          \/ UNCHANGED order
       /\ Asked(h, "release", o, "unlock")
       /\ UNCHANGED <<event, refundEvent, provider, locked, elsewhere, repeats>>

\* As if the payment request were cancelled whatever became of it.
CancelledAlways(r) == "CANCELLED"

Cancelled(r) == IF r = "PENDING" THEN "CANCELLED" ELSE r

\* markCommercialOrderClosed.
Release(h) ==
    LET o == call[h].order
    IN /\ call[h].at = "release"
       /\ order' = [order EXCEPT ![o].request = Cancelled(@),
                                 ![o].coupon = IF @ = "RESERVED" THEN "CANCELLED" ELSE @]
       /\ Return(h)
       /\ UNCHANGED <<event, refundEvent, provider, locked, elsewhere, repeats>>

Unlock(h) ==
    /\ call[h].at = "unlock"
    /\ locked' = locked \ {call[h].order}
    /\ call' = [call EXCEPT ![h] = Idle]
    /\ UNCHANGED <<order, event, refundEvent, provider, elsewhere, repeats>>

\* A claim holds for 90 seconds.
ClaimLapses(o) ==
    /\ o \in locked
    /\ locked' = locked \ {o}
    /\ UNCHANGED <<order, event, refundEvent, provider, call, elsewhere, repeats>>

-----------------------------------------------------------------------------
(* syncOrder.                                                                *)

Query(h) ==
    LET o == call[h].order
    IN /\ call[h].at = "query"
       /\ \/ Return(h)                       \* no session, no answer, or nothing new
          \/ HasBeenPaid(o) /\ provider[o] = "paid" /\ IF Repeated(event, o) THEN Return(h)
                                                       ELSE Goto(h, "confirm")
          \/ /\ provider[o] \in {"refunded", "unrefunded"}
             /\ IF Repeated(event, o) THEN Return(h) ELSE Goto(h, "refundquery")
          \/ provider[o] = "closed" /\ Goto(h, "close")
       /\ UNCHANGED <<order, event, refundEvent, provider, locked, elsewhere, repeats>>

CloseUnpaid(h) ==
    LET o == call[h].order
    IN /\ call[h].at = "close"
       /\ order' = IF order[o].status = "PENDING" THEN [order EXCEPT ![o].status = "CLOSED"] ELSE order
       /\ Goto(h, "release")
       /\ UNCHANGED <<event, refundEvent, provider, locked, elsewhere, repeats>>

\* recordRefundNotification looks at no status; a refund that failed is noted.
Refund(h) ==
    LET o == call[h].order
        refunded == provider[o] = "refunded"
    IN /\ call[h].at \in {"refundquery", "refundpush"}
       /\ order' = [order EXCEPT ![o].status = IF refunded THEN "REFUNDED" ELSE @,
                                 ![o].request = IF refunded THEN "REFUNDED" ELSE "REFUND_PENDING"]
       /\ IF call[h].at = "refundquery"
          THEN event' = [event EXCEPT ![o] = "SUCCESS"] /\ UNCHANGED refundEvent
          ELSE refundEvent' = [refundEvent EXCEPT ![o] = "SUCCESS"] /\ UNCHANGED event
       /\ Return(h)
       /\ UNCHANGED <<provider, locked, elsewhere, repeats>>

-----------------------------------------------------------------------------
(* confirmPaidAndGrant and GrantOrderEntitlements.                           *)

Payable(o) == order[o].status \in {"PENDING", "PAID"}

\* As if the ledgers had no idempotency key.
GrantedAgain(n) == n + 1

\* Each right has a row under the key of the order.
Granted(n) == IF n = 0 THEN 1 ELSE n

\* As if a redemption that was cancelled could still be applied.
AnyRedemption(o) == TRUE

\* applyVirtualCouponBonusTx: the reservation has to be there.
Redeemable(o) == order[o].coupon # "CANCELLED"

\* grantOrderEntitlementsTx.
Entitled(o) ==
    [order[o] EXCEPT !.status = "PAID", !.entitlement = "SUCCESS", !.fulfillment = "SUCCESS",
                     !.request = "SUCCEEDED", !.rights = Granted(@),
                     !.bonus = IF o \in Coupons THEN Granted(@) ELSE @,
                     !.coupon = IF o \in Coupons THEN "APPLIED" ELSE @]

\* The event counts again as new: what was granted is granted under its keys.
Confirm(h) ==
    LET o == call[h].order
    IN /\ call[h].at = "confirm" /\ Payable(o) /\ Redeemable(o)
       /\ order' = [order EXCEPT ![o] = Entitled(o)]
       /\ event' = [event EXCEPT ![o] = "SUCCESS"]
       /\ Return(h)
       /\ UNCHANGED <<refundEvent, provider, locked, elsewhere, repeats>>

ConfirmFails(h) ==
    LET o == call[h].order
    IN /\ call[h].at = "confirm"
       /\ Goto(h, IF Payable(o) THEN "persist" ELSE "record")
       /\ UNCHANGED <<order, event, refundEvent, provider, locked, elsewhere, repeats>>

\* As if the order were not looked at again.
FailableAlways(o) == Payable(o)

Failable(o) == order[o].entitlement # "SUCCESS" /\ Payable(o)

\* persistPaidEntitlementFailure.
Persist(h) ==
    LET o == call[h].order
    IN /\ call[h].at = "persist"
       /\ order' = IF Failable(o)
                   THEN [order EXCEPT ![o].status = "PAID", ![o].entitlement = "FAILED"] ELSE order
       /\ Goto(h, "record")
       /\ UNCHANGED <<event, refundEvent, provider, locked, elsewhere, repeats>>

\* recordFailedNotification: also over the success of another delivery.
Record(h) ==
    /\ call[h].at = "record"
    /\ event' = [event EXCEPT ![call[h].order] = "FAILED"]
    /\ Return(h)
    /\ UNCHANGED <<order, refundEvent, provider, locked, elsewhere, repeats>>

Grant(h) ==
    LET o == call[h].order
    IN /\ call[h].at = "grant" /\ order[o].status = "PAID"
       /\ IF order[o].entitlement = "SUCCESS"
          THEN order' = [order EXCEPT ![o].fulfillment = "SUCCESS", ![o].request = "SUCCEEDED"]
          ELSE Redeemable(o) /\ order' = [order EXCEPT ![o] = Entitled(o)]
       /\ Return(h)
       /\ UNCHANGED <<event, refundEvent, provider, locked, elsewhere, repeats>>

GrantFails(h) ==
    /\ call[h].at = "grant"
    /\ IF order[call[h].order].status = "PAID" THEN Goto(h, "mark") ELSE Return(h)
    /\ UNCHANGED <<order, event, refundEvent, provider, locked, elsewhere, repeats>>

\* markEntitlementFailed writes the order, then the fulfilment record.
MarkOrder(h) ==
    LET o == call[h].order
    IN /\ call[h].at = "mark"
       /\ order' = IF order[o].entitlement # "SUCCESS"
                   THEN [order EXCEPT ![o].entitlement = "FAILED"] ELSE order
       /\ Goto(h, "markrecord")
       /\ UNCHANGED <<event, refundEvent, provider, locked, elsewhere, repeats>>

MarkRecord(h) ==
    /\ call[h].at = "markrecord"
    /\ order' = [order EXCEPT ![call[h].order].fulfillment = "FAILED"]
    /\ Return(h)
    /\ UNCHANGED <<event, refundEvent, provider, locked, elsewhere, repeats>>

\* The process dies, or a write after a failure does: nobody tries it again.
Crash(h) ==
    /\ call[h] # Idle /\ repeats < MaxRepeats
    /\ repeats' = repeats + 1
    /\ call' = [call EXCEPT ![h] = Idle]
    /\ UNCHANGED <<order, event, refundEvent, provider, locked, elsewhere>>

-----------------------------------------------------------------------------

Compensation(h) == Claim(h) \/ View(h) \/ Expire(h) \/ Release(h) \/ Unlock(h)

Aftermath(h) == Persist(h) \/ Record(h) \/ MarkOrder(h) \/ MarkRecord(h)

Step(h) ==
    \/ Compensation(h) \/ Aftermath(h)
    \/ Query(h) \/ CloseUnpaid(h) \/ Refund(h) \/ ConfirmFails(h) \/ GrantFails(h)

Next ==
    \/ OthersRedeem
    \/ \E o \in Orders : CreateOrder(o) \/ ProviderMoves(o) \/ ClaimLapses(o)
    \/ \E h \in Handlers :
          \/ \E o \in Orders : Push(h, o) \/ RefundPush(h, o) \/ Sync(h, o) \/ AdminGrants(h, o) \/ Select(h, o)
          \/ Step(h) \/ Confirm(h) \/ Grant(h) \/ Crash(h)

\* What runs goes on, claims lapse, the loop comes back to an order that waits
\* for it, and the database does not fail every grant.
Fairness ==
    /\ \A h \in Handlers : WF_vars(Step(h))
    /\ \A o \in Orders :
          /\ WF_vars(ClaimLapses(o))
          /\ SF_vars(\E h \in Handlers : Select(h, o))
          /\ SF_vars(\E h \in Handlers : call[h].at = "selected" /\ call[h].order = o
                                         /\ o \notin locked /\ Claim(h))
          /\ SF_vars(\E h \in Handlers : call[h].at = "grant" /\ call[h].order = o /\ Grant(h))

Spec == Init /\ [][Next]_vars /\ Fairness

-----------------------------------------------------------------------------
(* Properties.                                                               *)

\* What an order bought is granted once, and so is its coupon's bonus: whoever
\* learns of the payment, how often, and after which failures.  No interleaving
\* of reservations, closings and late payments redeems a coupon more often than
\* its limit says.
RightsOnce ==
    /\ \A o \in Orders : order[o].rights <= 1 /\ order[o].bonus <= 1
    /\ elsewhere + Cardinality({o \in Orders : order[o].bonus > 0}) <= Limit

\* Whatever a stale handler writes afterwards, an order with its rights is one
\* that says so, whose redemption is applied and whose payment request is not
\* open or cancelled.
GrantedIsBilled ==
    \A o \in Orders :
       /\ order[o].entitlement = "SUCCESS" <=> order[o].rights > 0
       /\ order[o].rights > 0 => /\ order[o].coupon \in {"none", "APPLIED"}
                                 /\ order[o].request \in {"SUCCEEDED", "REFUNDED", "REFUND_PENDING"}

\* An order that is recorded as paid gets its rights, unless it is refunded or
\* the reservation of its coupon was cancelled under it.
EventuallyEntitled ==
    \A o \in Orders :
       order[o].status = "PAID" ~> \/ order[o].entitlement = "SUCCESS"
                                   \/ order[o].status = "REFUNDED"
                                   \/ order[o].coupon = "CANCELLED"

\* The workflow document: a reservation is cancelled by closing the order.
CancelledByClosing ==
    \A o \in Orders : order[o].coupon = "CANCELLED" => order[o].status \notin {"PENDING", "PAID"}

=============================================================================
