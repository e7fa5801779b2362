------------------------------ MODULE MCPayments ------------------------------
(* One instance for the two ways to pay.  An order belongs to one of them and   *)
(* they share no row, so a behaviour runs one while nothing happens in the      *)
(* other.  It extends the payment centre, whose properties keep their names.    *)
EXTENDS UnifiedPayment

CONSTANTS VirtualOrders, Coupons, Limit, MaxRepeats

VARIABLES virtualOrder, event, refundEvent, provider, locked, virtualCall, elsewhere, repeats

virtualVars == <<virtualOrder, event, refundEvent, provider, locked, virtualCall, elsewhere, repeats>>

Virtual == INSTANCE WechatVirtual WITH Orders <- VirtualOrders, order <- virtualOrder, call <- virtualCall

ASSUME PaymentsAssumption == PaymentAssumption /\ Virtual!VirtualAssumption

\* Which of the two runs: the other one has no handler left to act for it.
VARIABLE running

MCInit == Init /\ Virtual!Init /\ running \in {"centre", "virtual"}

MCNext ==
    \/ running = "centre" /\ Next /\ UNCHANGED <<virtualVars, running>>
    \/ running = "virtual" /\ Virtual!Next /\ UNCHANGED <<vars, running>>

MCFairness == IF running = "centre" THEN Fairness ELSE Virtual!Fairness

MCSpec == MCInit /\ [][MCNext]_<<vars, virtualVars, running>> /\ MCFairness

\* The properties of WeChat orders, stated in WechatVirtual: rights and bonus are
\* granted once and within the coupon's limit, ...
RightsOnce == Virtual!RightsOnce
\* ... always together with their records, ...
GrantedIsBilled == Virtual!GrantedIsBilled
\* ... and for every order recorded as paid.
EventuallyEntitled == Virtual!EventuallyEntitled
=============================================================================
