----------------------------- MODULE MCRefundSaga -----------------------------
(* The refund with the default names: processes of one kind share a name, and *)
(* a request is repeated under its own key.                                   *)
EXTENDS RefundSaga

OneName == [w \in Workers |-> "reward-release"]
ByRole == [d \in Drivers |-> IF d \in Retriers THEN "refund-retry"
                             ELSE IF d \in Verifiers THEN "refund-verification" ELSE "request"]
=============================================================================
