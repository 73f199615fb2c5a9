---------------------------- MODULE MCPaymentSaga ----------------------------
(* One demo, one payment request or two competing ones, and their payments. *)
EXTENDS PaymentSaga

CONSTANTS d1, r1, r2, p1, p2, c1, Statuses

MCDemoOf == [r \in Requests |-> d1]

\* Every payment is on the first request's order.
MCOrderOf == [p \in Payments |-> r1]

\* Each request's order has its own payment.
MCOrderOfEach == [p \in Payments |-> IF p = p1 THEN r1 ELSE r2]

\* A mismatching payment is reported once, when it succeeds.
MCReportable ==
  [p \in Payments |-> IF p \in BadPayments THEN {"SUCCESS"} ELSE Statuses]
=============================================================================
