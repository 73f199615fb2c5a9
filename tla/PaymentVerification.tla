------------------------- MODULE PaymentVerification -------------------------
(***************************************************************************)
(* verify_payment of modules/paid_transition/domain/verification.py, as a  *)
(* pure operator.  An order and a piece of evidence carry an abstract      *)
(* "binding", which stands for the six fields the code compares one by one *)
(* (provider order, amount, currency, customer, purpose, environment):     *)
(* two bindings are equal when all six fields are.                         *)
(***************************************************************************)

\* The classes into which PaymentVerificationPolicy sorts provider statuses.
\* The policy refuses overlapping classes; "PENDING" is any status in none.
StatusClasses == {"SUCCESS", "FAILED", "EXPIRED", "REVIEW", "PENDING"}

DecisionKinds ==
  {"transition_paid", "duplicate", "review", "reconcile", "failed",
   "expired", "pending", "rejected_evidence"}

\* A webhook needs its signature and replay window verified, a reconciliation
\* the provider's authentication; nothing else is evidence.
Authoritative(evidence) ==
  \/ evidence.source = "signed_webhook" /\ evidence.verified
  \/ evidence.source = "authenticated_reconciliation" /\ evidence.authenticated

\* The decision for one piece of evidence.  lapsed stands for
\* now >= order.expires_at, applied for paid_activation_already_applied.
VerifyPayment(order, evidence, processed, applied, lapsed) ==
  IF evidence.event \in processed THEN "duplicate"
  ELSE IF ~ Authoritative(evidence) THEN "rejected_evidence"
  ELSE IF evidence.binding # order.binding THEN "review"
  ELSE IF evidence.status = "SUCCESS"
    THEN IF applied THEN "duplicate" ELSE "transition_paid"
  ELSE IF evidence.status = "FAILED" THEN "failed"
  ELSE IF evidence.status = "EXPIRED" \/ lapsed THEN "expired"
  ELSE IF evidence.status = "REVIEW" THEN "review"
  ELSE IF evidence.source = "signed_webhook" THEN "reconcile"
  ELSE "pending"

\* _operation_key: one key per purpose and order, distinct for distinct
\* purposes (the code hashes the purpose together with the order's ids).
OperationKey(prefix, order) == <<prefix, order>>
=============================================================================
