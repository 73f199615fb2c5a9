-------------------------- MODULE PaymentSagaProofs --------------------------
(***************************************************************************)
(* Machine-checked proofs about PaymentSaga, for every number of demos,    *)
(* requests, payments and reconciliation runs and every attempt limit.     *)
(***************************************************************************)
EXTENDS PaymentSaga, TLAPS

USE SagaAssumption DEF vars, requestVars, outboxVars, providerVars, inboxVars,
                       paymentVars, recVars, demoVars

-----------------------------------------------------------------------------
(* Operators. *)

\* The webhook decision is the paid transition exactly for the first success
\* on the order's terms.
LEMMA DecisionPaid ==
  ASSUME NEW p \in Payments, NEW s \in StatusClasses
  PROVE  WebhookDecision(p, s) = "transition_paid" <=>
           /\ s = "SUCCESS"
           /\ p \notin BadPayments
           /\ paidBy[OrderOf[p]] = NoPayment
  BY DEF WebhookDecision, VerifyPayment, Authoritative

\* A decision without paid transition never writes "paid", nor removes the row.
LEMMA StatusAfterType ==
  ASSUME NEW decision, NEW status \in OrderStatuses
  PROVE  /\ StatusAfter(decision, status) \in OrderStatuses
         /\ StatusAfter(decision, status) = "paid" => status = "paid"
         /\ status # "none" => StatusAfter(decision, status) # "none"
  BY DEF StatusAfter, OrderStatuses, ActiveOrder

\* A snapshot writes a status of an existing, unpaid order.
LEMMA SnapshotStatusType ==
  ASSUME NEW snap
  PROVE  SnapshotStatus(snap) \in OrderStatuses \ {"none", "paid"}
  BY DEF SnapshotStatus, OrderStatuses, ActiveOrder

-----------------------------------------------------------------------------
(* The type invariant.  Counting attempts needs one more fact: a delivery   *)
(* that is under way has an attempt left.                                   *)

SentHasAttempt == \A x \in Rows : row[x] = "sent" => tries[x] < MaxAttempts

\* A failed delivery keeps the outbox in its type.
LEMMA DeliveryFailedType ==
  ASSUME TypeOK, NEW k \in Kinds, NEW r \in Requests,
         tries[<<k, r>>] < MaxAttempts, DeliveryFailed(k, r)
  PROVE  /\ row' \in [Rows -> {"absent", "ready", "sent", "published"}]
         /\ tries' \in [Rows -> 0 .. MaxAttempts]
         /\ SentHasAttempt => SentHasAttempt'
  BY DEF TypeOK, DeliveryFailed, Rows, SentHasAttempt

\* Every step keeps the types.
LEMMA TypeStep ==
  TypeOK /\ SentHasAttempt /\ [Next]_vars => TypeOK' /\ SentHasAttempt'
<1> SUFFICES ASSUME TypeOK, SentHasAttempt, [Next]_vars
             PROVE  TypeOK' /\ SentHasAttempt'
  OBVIOUS
<1> USE DEF TypeOK
<1>1. ASSUME NEW d \in Demos, StartConversion(d) \/ RunDemo(d)
      PROVE  TypeOK' /\ SentHasAttempt'
  BY <1>1 DEF StartConversion, RunDemo, DemoStates, SentHasAttempt
<1>2. ASSUME NEW r \in Requests, RequestPayment(r)
      PROVE  TypeOK' /\ SentHasAttempt'
  BY <1>2 DEF RequestPayment, Rows, Kinds, SentHasAttempt
<1>3. ASSUME NEW r \in Requests, Lapse(r)
      PROVE  TypeOK' /\ SentHasAttempt'
  BY <1>3 DEF Lapse, SentHasAttempt
<1>4. ASSUME NEW r \in Requests, NEW s, ProviderCloses(r, s)
      PROVE  TypeOK' /\ SentHasAttempt'
  BY <1>4 DEF ProviderCloses, ProviderOrderStatuses, SentHasAttempt
<1>5. ASSUME NEW p \in Payments, NEW s \in StatusClasses, ProviderReports(p, s)
      PROVE  TypeOK' /\ SentHasAttempt'
  BY <1>5 DEF ProviderReports, ProviderOrderStatuses, SentHasAttempt
<1>6. ASSUME NEW p \in Payments, NEW s \in StatusClasses, AcceptWebhook(p, s)
      PROVE  TypeOK' /\ SentHasAttempt'
  BY <1>6 DEF AcceptWebhook, Webhooks, SentHasAttempt
<1>7. ASSUME NEW r \in Requests, PublishQuote(r)
      PROVE  TypeOK' /\ SentHasAttempt'
  <2>1. CASE InFollowUp(r)
    <3>1. /\ <<"quote", r>> \in Rows
          /\ <<"cashfree", r>> \in Rows
          /\ DemoOf[r] \in Demos
      BY DEF Rows, Kinds
    <3> DEFINE outbox == [row EXCEPT ![<<"quote", r>>] = "published",
                                     ![<<"cashfree", r>>] = "ready"]
    <3>a. row' = outbox /\ tries' = tries
      BY <1>7, <2>1 DEF PublishQuote
    <3>b. /\ outbox \in [Rows -> {"absent", "ready", "sent", "published"}]
          /\ \A x \in Rows : outbox[x] = "sent" => row[x] = "sent"
      BY <3>1
    <3> HIDE DEF outbox
    <3>2. /\ row' \in [Rows -> {"absent", "ready", "sent", "published"}]
          /\ SentHasAttempt'
      BY <3>a, <3>b DEF SentHasAttempt
    <3>3. /\ demo' \in [Demos -> DemoStates]
          /\ preq' \in [Requests -> {"none", "queued", "quote_verified", "ready"}]
          /\ order' \in [Requests -> OrderStatuses]
      <4>1. demo' \in [Demos -> DemoStates]
        BY <1>7, <2>1, <3>1 DEF PublishQuote, DemoStates
      <4>2. preq' \in [Requests -> {"none", "queued", "quote_verified", "ready"}]
        BY <1>7, <2>1 DEF PublishQuote
      <4>3. order' \in [Requests -> OrderStatuses]
        BY <1>7, <2>1 DEF PublishQuote, OrderStatuses, ActiveOrder
      <4>4. QED BY <4>1, <4>2, <4>3
    <3>4. QED
      BY <1>7, <2>1, <3>2, <3>3 DEF PublishQuote
  <2>2. CASE ~ InFollowUp(r)
    BY <1>7, <2>2, DeliveryFailedType DEF PublishQuote, Publishable, Kinds
  <2>3. QED BY <2>1, <2>2
<1>8. ASSUME NEW r \in Requests, SendCashfreeOrder(r)
      PROVE  TypeOK' /\ SentHasAttempt'
  BY <1>8 DEF SendCashfreeOrder, Publishable, Rows, Kinds,
              ProviderOrderStatuses, SentHasAttempt
<1>9. ASSUME NEW r \in Requests, RecordCashfreeOrder(r)
      PROVE  TypeOK' /\ SentHasAttempt'
  <2>1. CASE ack[r] = "ACTIVE"
    <3>1. <<"cashfree", r>> \in Rows
      BY DEF Rows, Kinds
    <3>2. /\ row' \in [Rows -> {"absent", "ready", "sent", "published"}]
          /\ SentHasAttempt'
      BY <1>9, <2>1, <3>1 DEF RecordCashfreeOrder, SentHasAttempt
    <3>3. /\ preq' \in [Requests -> {"none", "queued", "quote_verified", "ready"}]
          /\ bound' \in [Requests -> BOOLEAN]
          /\ ack' \in [Requests -> ProviderOrderStatuses]
      <4>1. preq' \in [Requests -> {"none", "queued", "quote_verified", "ready"}]
        BY <1>9, <2>1 DEF RecordCashfreeOrder
      <4>2. bound' \in [Requests -> BOOLEAN]
        BY <1>9, <2>1 DEF RecordCashfreeOrder
      <4>3. ack' \in [Requests -> ProviderOrderStatuses]
        BY <1>9 DEF RecordCashfreeOrder, ProviderOrderStatuses
      <4>4. QED BY <4>1, <4>2, <4>3
    <3>4. order' \in [Requests -> OrderStatuses]
      BY <1>9, <2>1 DEF RecordCashfreeOrder, OrderStatuses, ActiveOrder
    <3>5. QED
      BY <1>9, <2>1, <3>2, <3>3, <3>4 DEF RecordCashfreeOrder
  <2>2. CASE ack[r] # "ACTIVE"
    <3>1. tries[<<"cashfree", r>>] < MaxAttempts
      BY <1>9 DEF RecordCashfreeOrder, SentHasAttempt, Rows, Kinds
    <3>2. QED
      BY <1>9, <2>2, <3>1, DeliveryFailedType
      DEF RecordCashfreeOrder, Kinds, OrderStatuses, ActiveOrder,
          ProviderOrderStatuses
  <2>3. QED BY <2>1, <2>2
<1>10. ASSUME NEW r \in Requests, PublishActivation(r)
       PROVE  TypeOK' /\ SentHasAttempt'
  <2>1. CASE ActivationRouted(r)
    BY <1>10, <2>1 DEF PublishActivation, Rows, Kinds, SentHasAttempt
  <2>2. CASE ~ ActivationRouted(r)
    BY <1>10, <2>2, DeliveryFailedType DEF PublishActivation, Publishable, Kinds
  <2>3. QED BY <2>1, <2>2
<1>11. ASSUME NEW p \in Payments, NEW s \in StatusClasses, ProcessWebhook(p, s)
       PROVE  TypeOK' /\ SentHasAttempt'
  <2> DEFINE r == OrderOf[p]
  <2>1. r \in Requests
    OBVIOUS
  <2>2. /\ inbox' \in [Webhooks -> {"absent", "queued", "processed"}]
        /\ inTries' \in [Webhooks -> 0 .. MaxAttempts]
        /\ attempt' \in [Payments -> StatusClasses \cup {"none"}]
    BY <1>11 DEF ProcessWebhook, Processable, Webhooks
  <2>3. CASE ApplyPaidTransition(p)
    BY <1>11, <2>1, <2>2, <2>3
    DEF ProcessWebhook, ApplyPaidTransition, Rows, Kinds, DemoStates,
        OrderStatuses, SentHasAttempt
  <2>4. CASE /\ order' = [order EXCEPT ![r] = StatusAfter(WebhookDecision(p, s), @)]
             /\ UNCHANGED <<demo, paidBy, row>>
    <3>1. order' \in [Requests -> OrderStatuses]
      BY <2>1, <2>4, StatusAfterType
    <3>2. QED
      BY <1>11, <2>2, <2>4, <3>1 DEF ProcessWebhook, SentHasAttempt
  <2>5. QED BY <1>11, <2>3, <2>4 DEF ProcessWebhook
<1>12. ASSUME NEW p \in Payments, NEW s \in StatusClasses,
              RejectWebhook(p, s) \/ WebhookFault(p, s)
       PROVE  TypeOK' /\ SentHasAttempt'
  <2>1. /\ <<p, s>> \in Webhooks
        /\ inTries[<<p, s>>] < MaxAttempts
        /\ WebhookFailed(<<p, s>>)
    BY <1>12 DEF RejectWebhook, WebhookFault, Processable, Webhooks
  <2>2. inTries' \in [Webhooks -> 0 .. MaxAttempts]
    BY <2>1 DEF WebhookFailed
  <2>3. QED
    BY <2>1, <2>2 DEF WebhookFailed, SentHasAttempt
<1>13. ASSUME NEW c \in Reconcilers, NEW r \in Requests, Reserve(c, r)
       PROVE  TypeOK' /\ SentHasAttempt'
  BY <1>13 DEF Reserve, OrderStatuses, ActiveOrder, SentHasAttempt
<1>14. ASSUME NEW c \in Reconcilers, Fetch(c)
       PROVE  TypeOK' /\ SentHasAttempt'
  BY <1>14 DEF Fetch, SentHasAttempt
<1>15. ASSUME NEW c \in Reconcilers, FetchFails(c)
       PROVE  TypeOK' /\ SentHasAttempt'
  BY <1>15 DEF FetchFails, OrderStatuses, ActiveOrder, SentHasAttempt
<1>16. ASSUME NEW c \in Reconcilers, ApplySnapshot(c)
       PROVE  TypeOK' /\ SentHasAttempt'
  BY <1>16, SnapshotStatusType
  DEF ApplySnapshot, ProviderOrderStatuses, SentHasAttempt
<1>17. ASSUME NEW c \in Reconcilers, ReconcilerCrash(c)
       PROVE  TypeOK' /\ SentHasAttempt'
  BY <1>17 DEF ReconcilerCrash, ProviderOrderStatuses, SentHasAttempt
<1>18. ASSUME NEW r \in Requests, PublisherCrash(r)
       PROVE  TypeOK' /\ SentHasAttempt'
  BY <1>18 DEF PublisherCrash, ProviderOrderStatuses, Rows, Kinds, SentHasAttempt
<1>19. ASSUME NEW r \in Requests, NEW k \in {"quote", "cashfree"},
              DeliveryFault(k, r)
       PROVE  TypeOK' /\ SentHasAttempt'
  <2>1. k \in Kinds /\ tries[<<k, r>>] < MaxAttempts
    BY <1>19 DEF DeliveryFault, Publishable, SentHasAttempt, Rows, Kinds
  <2>2. QED
    BY <1>19, <2>1, DeliveryFailedType DEF DeliveryFault, ProviderOrderStatuses
<1>20. ASSUME NEW d \in Demos, ChatUpdate(d) \/ ChatSelection(d)
       PROVE  TypeOK' /\ SentHasAttempt'
  BY <1>20
  DEF ChatUpdate, ChatSelection, ChatMoves, DemoStates, ChatStates, SentHasAttempt
<1>21. CASE UNCHANGED vars
  BY <1>21 DEF SentHasAttempt
<1>22. QED
  BY <1>1, <1>2, <1>3, <1>4, <1>5, <1>6, <1>7, <1>8, <1>9, <1>10, <1>11, <1>12,
     <1>13, <1>14, <1>15, <1>16, <1>17, <1>18, <1>19, <1>20, <1>21
  DEF Next, PaymentNext, CalmNext, Environment, Outbox, Inbox, Reconcile, Faults,
      Chat

\* The initial state has its types.
LEMMA TypeInit == Init => TypeOK /\ SentHasAttempt
  BY DEF Init, TypeOK, SentHasAttempt, DemoStates, OrderStatuses, ActiveOrder,
         ProviderOrderStatuses, Webhooks, Rows

\* Every reachable state of the saga has its types: in particular no attempt
\* counter of the inbox or the outbox ever passes maximum_attempts.
THEOREM TypeCorrect == Spec => []TypeOK
  BY TypeInit, TypeStep, PTL DEF Spec

-----------------------------------------------------------------------------
(* SagaInv is an inductive invariant of the saga: the safety properties of   *)
(* PaymentSaga hold for every value of its constants, with crashes, faults,  *)
(* overlapping reconciliations and chat messages included.                   *)
(*                                                                           *)
(* None of the properties is inductive alone.  SuccessNeverDropped needs the *)
(* other four: a demo that is PAID already has a paid order                  *)
(* (PaidStatusBacked), which is bound (PaidIsBacked) and therefore exists    *)
(* (SagaConsistent), and a demo that never strayed has one order only        *)
(* (SecondOrderExplained), so the order the second success is for is the one *)
(* that is paid.  SecondOrderExplained in turn needs SagaConsistent: a demo  *)
(* with an order is in its payment, where no quote is recorded, or strayed.  *)

USE DEF SagaInv

\* A step that keeps the demo and every row the invariant relates to the
\* orders keeps the invariant, when it creates no order and marks none paid.
LEMMA OrderStatusStep ==
  ASSUME SagaInv, TypeOK', SentHasAttempt',
         \A r \in Requests : order'[r] = "none" <=> order[r] = "none",
         \A r \in Requests : order'[r] = "paid" => order[r] = "paid",
         \A r \in Requests : row'[<<"activation", r>>] = row[<<"activation", r>>],
         \A r \in Requests :
           row'[<<"cashfree", r>>] # "absent" => row[<<"cashfree", r>>] # "absent",
         UNCHANGED <<demo, strayed, bound, paidBy, attempt, inbox, reported, late>>,
         \A c \in Reconcilers : recPc'[c] # "idle" => bound[recOrder'[c]]
  PROVE  SagaInv'
<1>1. SagaConsistent'
  BY DEF SagaConsistent, SentHasAttempt
<1>2. PaidIsBacked'
  BY DEF PaidIsBacked
<1>3. PaidStatusBacked'
  BY DEF PaidStatusBacked
<1>4. ActivationIffPaid'
  BY DEF ActivationIffPaid
<1>5. SecondOrderExplained'
  BY DEF SecondOrderExplained
<1>6. SuccessNeverDropped'
  BY DEF SuccessNeverDropped
<1>7. QED
  BY <1>1, <1>2, <1>3, <1>4, <1>5, <1>6

\* The paid transition queues the activation of its order and touches no other
\* row.
LEMMA ActivationQueued ==
  ASSUME TypeOK, NEW p \in Payments, ApplyPaidTransition(p), NEW q \in Requests
  PROVE  /\ row'[<<"activation", q>>] =
              IF q = OrderOf[p] THEN "ready" ELSE row[<<"activation", q>>]
         /\ row'[<<"cashfree", q>>] = row[<<"cashfree", q>>]
<1>1. /\ <<"activation", OrderOf[p]>> \in Rows
      /\ <<"activation", q>> \in Rows
      /\ <<"cashfree", q>> \in Rows
  BY DEF Rows, Kinds
<1>2. row' = [row EXCEPT ![<<"activation", OrderOf[p]>>] = "ready"]
  BY DEF ApplyPaidTransition
<1>3. QED BY <1>1, <1>2 DEF TypeOK

\* A success on the order's terms that the demo refuses finds the demo taken out
\* of its payment by chat, or its own order paid already.
LEMMA RefusedSuccess ==
  ASSUME SagaInv, NEW r \in Requests, bound[r], ~ Payable(r)
  PROVE  DemoOf[r] \in strayed \/ paidBy[r] # NoPayment
<1>1. order[r] # "none"
  BY DEF SagaConsistent
<1>2. DemoOf[r] \in strayed \/ demo[DemoOf[r]] = "PAID"
  BY <1>1 DEF SagaConsistent, Payable
<1>3. CASE demo[DemoOf[r]] = "PAID"
  <2>1. DemoOf[r] \in Demos
    OBVIOUS
  <2>2. PICK q \in Requests : DemoOf[q] = DemoOf[r] /\ paidBy[q] # NoPayment
    BY <1>3, <2>1 DEF PaidStatusBacked
  <2>3. order[q] # "none"
    BY <2>2 DEF PaidIsBacked, SagaConsistent
  <2>4. q = r \/ DemoOf[r] \in strayed
    BY <1>1, <2>2, <2>3 DEF SecondOrderExplained
  <2>5. QED BY <2>2, <2>4
<1>4. QED BY <1>2, <1>3

\* Processing a webhook keeps the invariant.
LEMMA ProcessStep ==
  ASSUME SagaInv, TypeOK', SentHasAttempt',
         NEW p \in Payments, NEW s \in StatusClasses, ProcessWebhook(p, s)
  PROVE  SagaInv'
<1> USE DEF TypeOK
<1> DEFINE r == OrderOf[p]
<1>1. /\ r \in Requests
      /\ DemoOf[r] \in Demos
      /\ bound[r]
      /\ order[r] # "none"
      /\ s \in reported[p]
      /\ attempt[p] = "none"
      /\ UNCHANGED <<strayed, bound, reported, late, recPc, recOrder>>
  BY DEF ProcessWebhook, Processable, SagaConsistent
<1>2. /\ "SUCCESS" \in StatusClasses
      /\ \A q \in Payments : \A t \in StatusClasses : <<q, t>> \in Webhooks
      /\ \A q \in Requests : \A k \in Kinds : <<k, q>> \in Rows
  BY DEF StatusClasses, Webhooks, Rows
<1>3. /\ \A w \in Webhooks :
           inbox'[w] = IF w = <<p, s>> THEN "processed" ELSE inbox[w]
      /\ \A q \in Payments : attempt'[q] = IF q = p THEN s ELSE attempt[q]
  BY <1>2 DEF ProcessWebhook
<1>4. \A q \in Requests : paidBy[q] # NoPayment => paidBy[q] # p
  BY <1>1 DEF PaidIsBacked, StatusClasses
<1>5. CASE /\ WebhookDecision(p, s) = "transition_paid"
           /\ Payable(r)
           /\ ApplyPaidTransition(p)
  <2>1. s = "SUCCESS" /\ p \notin BadPayments /\ paidBy[r] = NoPayment
    BY <1>5, DecisionPaid
  <2>2. /\ \A q \in Requests : paidBy'[q] = IF q = r THEN p ELSE paidBy[q]
        /\ \A q \in Requests : order'[q] = IF q = r THEN "paid" ELSE order[q]
        /\ \A d \in Demos : demo'[d] = IF d = DemoOf[r] THEN "PAID" ELSE demo[d]
    BY <1>1, <1>5 DEF ApplyPaidTransition
  <2>3. \A q \in Requests :
          /\ row'[<<"activation", q>>] =
               IF q = r THEN "ready" ELSE row[<<"activation", q>>]
          /\ row'[<<"cashfree", q>>] = row[<<"cashfree", q>>]
    BY <1>5, ActivationQueued
  <2>4. p # NoPayment
    OBVIOUS
  <2>5. SagaConsistent'
    <3>1. \A q \in Requests :
            /\ order'[q] # "none" <=> order[q] # "none"
            /\ order'[q] # "none" =>
                 \/ demo'[DemoOf[q]] \in {"PAYMENT_PENDING", "PAID"}
                 \/ DemoOf[q] \in strayed
      BY <1>1, <2>2 DEF SagaConsistent
    <3>2. \A q \in Payments : \A t \in StatusClasses :
            inbox'[<<q, t>>] # "absent" => t \in reported[q]
      BY <1>1, <1>2, <1>3 DEF SagaConsistent
    <3>3. QED
      BY <1>1, <2>3, <3>1, <3>2 DEF SagaConsistent, SentHasAttempt
  <2>6. PaidIsBacked'
    BY <1>1, <1>2, <1>3, <1>4, <2>1, <2>2 DEF PaidIsBacked
  <2>7. PaidStatusBacked'
    BY <1>1, <2>2, <2>4 DEF PaidStatusBacked
  <2>8. ActivationIffPaid'
    BY <2>2, <2>3, <2>4 DEF ActivationIffPaid
  <2>9. SecondOrderExplained'
    BY <1>1, <2>2 DEF SecondOrderExplained
  <2>10. SuccessNeverDropped'
    BY <1>1, <1>2, <1>3, <2>2, <2>4 DEF SuccessNeverDropped
  <2>11. QED BY <2>5, <2>6, <2>7, <2>8, <2>9, <2>10
<1>6. CASE /\ WebhookDecision(p, s) # "transition_paid" \/ ~ Payable(r)
           /\ order' = [order EXCEPT ![r] = StatusAfter(WebhookDecision(p, s), @)]
           /\ UNCHANGED <<demo, paidBy, row>>
  <2>1. /\ \A q \in Requests : order'[q] = "none" <=> order[q] = "none"
        /\ \A q \in Requests : order'[q] = "paid" => order[q] = "paid"
    BY <1>1, <1>6, StatusAfterType
  <2>2. SagaConsistent'
    BY <1>1, <1>2, <1>3, <1>6, <2>1 DEF SagaConsistent, SentHasAttempt
  <2>3. PaidIsBacked'
    BY <1>1, <1>2, <1>3, <1>4, <1>6 DEF PaidIsBacked
  <2>4. PaidStatusBacked' /\ ActivationIffPaid' /\ SecondOrderExplained'
    BY <1>1, <1>6, <2>1 DEF PaidStatusBacked, ActivationIffPaid, SecondOrderExplained
  <2>5. s = "SUCCESS" /\ p \notin BadPayments =>
          paidBy[r] # NoPayment \/ DemoOf[r] \in strayed
    BY <1>1, <1>6, DecisionPaid, RefusedSuccess
  <2>6. SuccessNeverDropped'
    BY <1>1, <1>2, <1>3, <1>6, <2>5 DEF SuccessNeverDropped
  <2>7. QED BY <2>2, <2>3, <2>4, <2>6
<1>7. QED
  BY <1>5, <1>6 DEF ProcessWebhook

\* Every step keeps the invariant.
LEMMA SagaStep == SagaInv /\ [Next]_vars => SagaInv'
<1> SUFFICES ASSUME SagaInv, [Next]_vars
             PROVE  SagaInv'
  OBVIOUS
<1>0. TypeOK' /\ SentHasAttempt'
  BY TypeStep DEF SagaConsistent, SentHasAttempt
<1> USE DEF TypeOK
<1>r. \A r \in Requests : \A k \in Kinds : <<k, r>> \in Rows
  BY DEF Rows
<1>1. ASSUME NEW d \in Demos, StartConversion(d) \/ RunDemo(d)
      PROVE  SagaInv'
  <2>1. /\ demo[d] \notin {"PAYMENT_PENDING", "PAID"}
        /\ demo'[d] \notin {"PAYMENT_PENDING", "PAID"}
        /\ \A e \in Demos \ {d} : demo'[e] = demo[e]
        /\ UNCHANGED <<strayed, requestVars, outboxVars, providerVars, inboxVars,
                       paymentVars, recVars>>
    BY <1>1 DEF StartConversion, RunDemo
  <2>2. SagaConsistent'
    BY <2>1 DEF SagaConsistent
  <2>3. PaidStatusBacked'
    BY <2>1 DEF PaidStatusBacked
  <2>4. PaidIsBacked' /\ ActivationIffPaid' /\ SecondOrderExplained'
        /\ SuccessNeverDropped'
    BY <2>1 DEF PaidIsBacked, ActivationIffPaid, SecondOrderExplained,
                SuccessNeverDropped
  <2>5. QED BY <1>0, <2>2, <2>3, <2>4
<1>2. ASSUME NEW r \in Requests, RequestPayment(r)
      PROVE  SagaInv'
  <2>1. \A q \in Requests : \A k \in {"activation", "cashfree"} :
          row'[<<k, q>>] = row[<<k, q>>]
    BY <1>2, <1>r DEF RequestPayment, Kinds
  <2>2. QED
    BY <1>0, <1>2, <2>1, OrderStatusStep DEF RequestPayment, SagaConsistent
<1>3. ASSUME NEW r \in Requests, Lapse(r)
      PROVE  SagaInv'
  BY <1>0, <1>3, OrderStatusStep DEF Lapse, SagaConsistent
<1>4. ASSUME NEW r \in Requests, NEW s, ProviderCloses(r, s)
      PROVE  SagaInv'
  BY <1>0, <1>4, OrderStatusStep DEF ProviderCloses, SagaConsistent
<1>5. ASSUME NEW p \in Payments, NEW s \in StatusClasses, ProviderReports(p, s)
      PROVE  SagaInv'
  <2>1. /\ \A q \in Payments : reported[q] \subseteq reported'[q]
        /\ late \subseteq late'
    BY <1>5 DEF ProviderReports
  <2>2. SagaConsistent'
    BY <1>0, <1>5, <2>1 DEF ProviderReports, SagaConsistent
  <2>3. PaidIsBacked'
    BY <1>5, <2>1 DEF ProviderReports, PaidIsBacked
  <2>4. PaidStatusBacked' /\ ActivationIffPaid' /\ SecondOrderExplained'
        /\ SuccessNeverDropped'
    BY <1>5, <2>1 DEF ProviderReports, PaidStatusBacked, ActivationIffPaid,
                SecondOrderExplained, SuccessNeverDropped
  <2>5. QED BY <1>0, <2>2, <2>3, <2>4
<1>6. ASSUME NEW p \in Payments, NEW s \in StatusClasses, AcceptWebhook(p, s)
      PROVE  SagaInv'
  <2>1. /\ <<p, s>> \in Webhooks
        /\ \A w \in Webhooks : inbox'[w] = IF w = <<p, s>> THEN "queued" ELSE inbox[w]
        /\ inbox[<<p, s>>] = "absent"
    BY <1>6 DEF AcceptWebhook, Webhooks
  <2>2. \A q \in Payments : \A t \in StatusClasses : <<q, t>> \in Webhooks
    BY DEF Webhooks
  <2>3. "SUCCESS" \in StatusClasses
    BY DEF StatusClasses
  <2>4. SagaConsistent'
    BY <1>0, <1>6, <2>1, <2>2 DEF AcceptWebhook, SagaConsistent
  <2>5. PaidIsBacked' /\ SuccessNeverDropped'
    BY <1>6, <2>1, <2>2, <2>3 DEF AcceptWebhook, PaidIsBacked, SuccessNeverDropped
  <2>6. PaidStatusBacked' /\ ActivationIffPaid' /\ SecondOrderExplained'
    BY <1>6 DEF AcceptWebhook, PaidStatusBacked, ActivationIffPaid, SecondOrderExplained
  <2>7. QED BY <1>0, <2>4, <2>5, <2>6
<1>7. ASSUME NEW r \in Requests, PublishQuote(r)
      PROVE  SagaInv'
  <2>1. CASE InFollowUp(r)
    <3>1. /\ demo[DemoOf[r]] = "CONVERSION_FOLLOW_UP"
          /\ \A d \in Demos :
               demo'[d] = IF d = DemoOf[r] THEN "PAYMENT_PENDING" ELSE demo[d]
          /\ \A q \in Requests :
               order'[q] = IF q = r THEN "creating" ELSE order[q]
      BY <1>7, <2>1 DEF PublishQuote, InFollowUp
    <3>2. \A q \in Requests :
            /\ row'[<<"activation", q>>] = row[<<"activation", q>>]
            /\ row'[<<"cashfree", q>>] # "absent" =>
                 q = r \/ row[<<"cashfree", q>>] # "absent"
      BY <1>7, <2>1, <1>r DEF PublishQuote, Kinds
    <3>3. UNCHANGED <<strayed, bound, paidBy, attempt, inbox, reported, late,
                      recPc, recOrder>>
      BY <1>7 DEF PublishQuote
    <3>4. SagaConsistent'
      BY <1>0, <3>1, <3>2, <3>3 DEF SagaConsistent, SentHasAttempt
    <3>5. SecondOrderExplained'
      <4>1. \A q \in Requests :
              DemoOf[q] = DemoOf[r] /\ order[q] # "none" => DemoOf[r] \in strayed
        BY <3>1 DEF SagaConsistent
      <4>2. QED BY <3>1, <3>3, <4>1 DEF SecondOrderExplained
    <3>6. PaidStatusBacked'
      BY <3>1, <3>3 DEF PaidStatusBacked
    <3>7. SuccessNeverDropped'
      BY <3>3 DEF SuccessNeverDropped
    <3>8. PaidIsBacked' /\ ActivationIffPaid'
      BY <3>2, <3>3 DEF PaidIsBacked, ActivationIffPaid
    <3>9. QED BY <1>0, <3>4, <3>5, <3>6, <3>7, <3>8
  <2>2. CASE ~ InFollowUp(r)
    <3>1. DeliveryFailed("quote", r)
      BY <1>7, <2>2 DEF PublishQuote
    <3>2. \A q \in Requests : \A k \in {"activation", "cashfree"} :
            row'[<<k, q>>] = row[<<k, q>>]
      BY <3>1, <1>r DEF DeliveryFailed, Kinds
    <3>3. QED
      BY <1>0, <1>7, <2>2, <3>2, OrderStatusStep DEF PublishQuote, SagaConsistent
  <2>3. QED BY <2>1, <2>2
<1>8. ASSUME NEW r \in Requests, SendCashfreeOrder(r)
      PROVE  SagaInv'
  <2>1. \A q \in Requests :
          /\ row'[<<"activation", q>>] = row[<<"activation", q>>]
          /\ row'[<<"cashfree", q>>] # "absent" => row[<<"cashfree", q>>] # "absent"
    BY <1>8, <1>r DEF SendCashfreeOrder, Publishable, Kinds
  <2>2. QED
    BY <1>0, <1>8, <2>1, OrderStatusStep DEF SendCashfreeOrder, SagaConsistent
<1>9. ASSUME NEW r \in Requests, RecordCashfreeOrder(r)
      PROVE  SagaInv'
  <2>1. order[r] # "none" /\ row[<<"cashfree", r>>] # "absent"
    BY <1>9 DEF RecordCashfreeOrder, SagaConsistent
  <2>2. /\ \A q \in Requests : order'[q] = "none" <=> order[q] = "none"
        /\ \A q \in Requests : order'[q] = "paid" => order[q] = "paid"
        /\ \A q \in Requests : bound[q] => bound'[q]
        /\ \A q \in Requests : bound'[q] => q = r \/ bound[q]
    BY <1>9, <2>1 DEF RecordCashfreeOrder
  <2>3. \A q \in Requests :
          /\ row'[<<"activation", q>>] = row[<<"activation", q>>]
          /\ row'[<<"cashfree", q>>] # "absent" => row[<<"cashfree", q>>] # "absent"
    BY <1>9, <1>r, <2>1 DEF RecordCashfreeOrder, DeliveryFailed, Kinds
  <2>4. UNCHANGED <<demo, strayed, paidBy, attempt, inbox, reported, late, recPc,
                    recOrder>>
    BY <1>9 DEF RecordCashfreeOrder
  <2>5. SagaConsistent'
    BY <1>0, <2>1, <2>2, <2>3, <2>4 DEF SagaConsistent, SentHasAttempt
  <2>6. PaidIsBacked' /\ PaidStatusBacked' /\ SuccessNeverDropped'
    BY <2>2, <2>4 DEF PaidIsBacked, PaidStatusBacked, SuccessNeverDropped
  <2>7. ActivationIffPaid' /\ SecondOrderExplained'
    BY <2>2, <2>3, <2>4 DEF ActivationIffPaid, SecondOrderExplained
  <2>8. QED BY <1>0, <2>5, <2>6, <2>7
<1>10. ASSUME NEW r \in Requests, PublishActivation(r)
       PROVE  SagaInv'
  <2>1. /\ row[<<"activation", r>>] # "absent"
        /\ \E t \in {"ready", "published"} :
             row' = [row EXCEPT ![<<"activation", r>>] = t]
        /\ UNCHANGED <<demo, strayed, order, bound, paidBy, attempt, inbox,
                       reported, late, recPc, recOrder>>
    BY <1>10 DEF PublishActivation, Publishable, DeliveryFailed
  <2>2. \A q \in Requests :
          /\ row'[<<"activation", q>>] = "absent" <=>
               row[<<"activation", q>>] = "absent"
          /\ row'[<<"cashfree", q>>] = row[<<"cashfree", q>>]
    BY <2>1, <1>r DEF Kinds
  <2>3. SagaConsistent'
    BY <1>0, <2>1, <2>2 DEF SagaConsistent, SentHasAttempt
  <2>4. ActivationIffPaid'
    BY <2>1, <2>2 DEF ActivationIffPaid
  <2>5. PaidIsBacked' /\ PaidStatusBacked' /\ SuccessNeverDropped'
        /\ SecondOrderExplained'
    BY <2>1 DEF PaidIsBacked, PaidStatusBacked, SuccessNeverDropped,
                SecondOrderExplained
  <2>6. QED BY <1>0, <2>3, <2>4, <2>5
<1>11. ASSUME NEW p \in Payments, NEW s \in StatusClasses, ProcessWebhook(p, s)
       PROVE  SagaInv'
  BY <1>0, <1>11, ProcessStep
<1>12. ASSUME NEW p \in Payments, NEW s \in StatusClasses,
              RejectWebhook(p, s) \/ WebhookFault(p, s)
       PROVE  SagaInv'
  BY <1>0, <1>12, OrderStatusStep
  DEF RejectWebhook, WebhookFault, WebhookFailed, SagaConsistent
<1>13. ASSUME NEW c \in Reconcilers, NEW r \in Requests, Reserve(c, r)
       PROVE  SagaInv'
  BY <1>0, <1>13, OrderStatusStep DEF Reserve, Reservable, SagaConsistent
<1>14. ASSUME NEW c \in Reconcilers, Fetch(c)
       PROVE  SagaInv'
  BY <1>0, <1>14, OrderStatusStep DEF Fetch, SagaConsistent
<1>15. ASSUME NEW c \in Reconcilers, FetchFails(c)
       PROVE  SagaInv'
  <2>1. order[recOrder[c]] # "none"
    BY <1>15 DEF FetchFails, SagaConsistent
  <2>2. \A r \in Requests : /\ order'[r] = "none" <=> order[r] = "none"
                            /\ order'[r] = "paid" => order[r] = "paid"
    BY <1>15, <2>1 DEF FetchFails
  <2>3. \A b \in Reconcilers : recPc'[b] # "idle" => bound[recOrder'[b]]
    BY <1>15 DEF FetchFails, SagaConsistent
  <2>4. QED
    BY <1>0, <1>15, <2>2, <2>3, OrderStatusStep DEF FetchFails
<1>16. ASSUME NEW c \in Reconcilers, ApplySnapshot(c)
       PROVE  SagaInv'
  <2>1. order[recOrder[c]] # "none"
    BY <1>16 DEF ApplySnapshot, SagaConsistent
  <2>2. \A r \in Requests : /\ order'[r] = "none" <=> order[r] = "none"
                            /\ order'[r] = "paid" => order[r] = "paid"
    BY <1>16, <2>1, SnapshotStatusType DEF ApplySnapshot
  <2>3. \A b \in Reconcilers : recPc'[b] # "idle" => bound[recOrder'[b]]
    BY <1>16 DEF ApplySnapshot, SagaConsistent
  <2>4. QED
    BY <1>0, <1>16, <2>2, <2>3, OrderStatusStep DEF ApplySnapshot
<1>17. ASSUME NEW c \in Reconcilers, ReconcilerCrash(c)
       PROVE  SagaInv'
  BY <1>0, <1>17, OrderStatusStep DEF ReconcilerCrash, SagaConsistent
<1>18. ASSUME NEW r \in Requests, PublisherCrash(r)
       PROVE  SagaInv'
  <2>1. \A q \in Requests :
          /\ row'[<<"activation", q>>] = row[<<"activation", q>>]
          /\ row'[<<"cashfree", q>>] # "absent" => row[<<"cashfree", q>>] # "absent"
    BY <1>18, <1>r DEF PublisherCrash, Kinds
  <2>2. QED
    BY <1>0, <1>18, <2>1, OrderStatusStep DEF PublisherCrash, SagaConsistent
<1>19. ASSUME NEW r \in Requests, NEW k \in {"quote", "cashfree"},
              DeliveryFault(k, r)
       PROVE  SagaInv'
  <2>1. \A q \in Requests :
          /\ row'[<<"activation", q>>] = row[<<"activation", q>>]
          /\ row'[<<"cashfree", q>>] # "absent" => row[<<"cashfree", q>>] # "absent"
    BY <1>19, <1>r DEF DeliveryFault, DeliveryFailed, Publishable, Kinds
  <2>2. QED
    BY <1>0, <1>19, <2>1, OrderStatusStep DEF DeliveryFault, SagaConsistent
<1>20. ASSUME NEW d \in Demos, ChatUpdate(d) \/ ChatSelection(d)
       PROVE  SagaInv'
  <2>1. /\ \A e \in Demos \ {d} : demo'[e] = demo[e]
        /\ demo'[d] \in ChatStates
        /\ strayed \subseteq strayed'
        /\ demo[d] \in {"PAYMENT_PENDING", "PAID"} => d \in strayed'
        /\ UNCHANGED <<requestVars, outboxVars, providerVars, inboxVars,
                       paymentVars, recVars>>
    BY <1>20 DEF ChatUpdate, ChatSelection, ChatMoves, ChatStates
  <2>2. SagaConsistent'
    BY <2>1 DEF SagaConsistent
  <2>3. PaidStatusBacked'
    BY <2>1 DEF PaidStatusBacked, ChatStates
  <2>4. SuccessNeverDropped' /\ SecondOrderExplained'
    BY <2>1 DEF SuccessNeverDropped, SecondOrderExplained
  <2>5. PaidIsBacked' /\ ActivationIffPaid'
    BY <2>1 DEF PaidIsBacked, ActivationIffPaid
  <2>6. QED BY <1>0, <2>2, <2>3, <2>4, <2>5
<1>21. CASE UNCHANGED vars
  BY <1>0, <1>21, OrderStatusStep DEF SagaConsistent
<1>22. QED
  BY <1>1, <1>2, <1>3, <1>4, <1>5, <1>6, <1>7, <1>8, <1>9, <1>10, <1>11, <1>12,
     <1>13, <1>14, <1>15, <1>16, <1>17, <1>18, <1>19, <1>20, <1>21
  DEF Next, PaymentNext, CalmNext, Environment, Outbox, Inbox, Reconcile, Faults,
      Chat

\* The initial state satisfies the invariant.
LEMMA SagaInit == Init => SagaInv
<1> SUFFICES ASSUME Init PROVE SagaInv
  OBVIOUS
<1>1. TypeOK
  BY TypeInit
<1>2. SagaConsistent /\ ActivationIffPaid
  BY DEF Init, SagaConsistent, ActivationIffPaid, Rows, Kinds, Webhooks
<1>3. PaidIsBacked /\ PaidStatusBacked /\ SecondOrderExplained
  BY DEF Init, PaidIsBacked, PaidStatusBacked, SecondOrderExplained
<1>4. SuccessNeverDropped
  BY DEF Init, SuccessNeverDropped, Webhooks, StatusClasses
<1>5. QED BY <1>1, <1>2, <1>3, <1>4

\* SagaInv holds in every reachable state.
THEOREM SagaInvariant == Spec => []SagaInv
  BY SagaInit, SagaStep, PTL DEF Spec

\* Orders, their provider rows, the reconcilers and the webhooks of the inbox
\* agree, whatever was retried, lost or answered late.
THEOREM SagaAgrees == Spec => []SagaConsistent
  BY SagaInvariant, PTL DEF SagaInv

\* A paid transition is always backed by a processed, verified success on the
\* order's terms (_apply_paid_transition).
THEOREM PaidBacked == Spec => []PaidIsBacked
  BY SagaInvariant, PTL DEF SagaInv

\* Neither an order nor a demo ever claims a payment that was not verified,
\* whatever reconciliation, late webhooks and chat write (_apply_snapshot).
THEOREM PaidStatusSound == Spec => []PaidStatusBacked
  BY SagaInvariant, PTL DEF SagaInv

\* The activation row exists exactly for the paid orders: the transition and
\* its outbox row are one transaction.
THEOREM ActivationAtomic == Spec => []ActivationIffPaid
  BY SagaInvariant, PTL DEF SagaInv

\* A demo has a second payment order only after a chat message took it out of
\* its payment (request, _record_quote).
THEOREM SecondOrderAfterChat == Spec => []SecondOrderExplained
  BY SagaInvariant, PTL DEF SagaInv

\* A processed success of a payment made in time is never dropped unless a chat
\* message took the demo out of its payment.
THEOREM NoSuccessDropped == Spec => []SuccessNeverDropped
  BY SagaInvariant, PTL DEF SagaInv
-----------------------------------------------------------------------------
(* The saga implements VerifiedSale. *)

\* Only a processed webhook writes a paid transition, and only the provider
\* reports payments.
LEMMA SaleFrame ==
  ASSUME [Next]_vars
  PROVE  \/ UNCHANGED <<paidBy, reported>>
         \/ \E p \in Payments, s \in StatusClasses :
              ProviderReports(p, s) \/ ProcessWebhook(p, s)
<1>1. ASSUME NEW r \in Requests,
             Outbox(r) \/ RequestPayment(r) \/ Lapse(r) \/ PublisherCrash(r)
      PROVE  UNCHANGED <<paidBy, reported>>
  BY <1>1 DEF Outbox, PublishQuote, SendCashfreeOrder, RecordCashfreeOrder,
              PublishActivation, RequestPayment, Lapse, PublisherCrash
<1>2. ASSUME NEW r, NEW k, NEW s, ProviderCloses(r, s) \/ DeliveryFault(k, r)
      PROVE  UNCHANGED <<paidBy, reported>>
  BY <1>2 DEF ProviderCloses, DeliveryFault
<1>3. ASSUME NEW p, NEW s,
             AcceptWebhook(p, s) \/ RejectWebhook(p, s) \/ WebhookFault(p, s)
      PROVE  UNCHANGED <<paidBy, reported>>
  BY <1>3 DEF AcceptWebhook, RejectWebhook, WebhookFault, WebhookFailed
<1>4. ASSUME NEW c, Reconcile(c)
      PROVE  UNCHANGED <<paidBy, reported>>
  BY <1>4 DEF Reconcile, Reserve, Fetch, FetchFails, ApplySnapshot,
              ReconcilerCrash
<1>5. ASSUME NEW d,
             StartConversion(d) \/ RunDemo(d) \/ ChatUpdate(d) \/ ChatSelection(d)
      PROVE  UNCHANGED <<paidBy, reported>>
  BY <1>5 DEF StartConversion, RunDemo, ChatUpdate, ChatSelection, ChatMoves
<1>6. CASE UNCHANGED vars
  BY <1>6
<1>7. QED
  BY <1>1, <1>2, <1>3, <1>4, <1>5, <1>6
  DEF Next, PaymentNext, CalmNext, Environment, Inbox, Faults, Chat

\* Every step of the saga is a step of VerifiedSale or leaves it alone.
LEMMA SaleStep ==
  ASSUME SagaInv, SagaInv', [Next]_vars
  PROVE  [Sale!Next]_(Sale!vars)
<1> DEFINE queued == {r \in Requests : row[<<"activation", r>>] # "absent"}
           settled == {p \in Payments : "SUCCESS" \in reported[p]}
<1>1. /\ queued = {r \in Requests : paidBy[r] # NoPayment}
      /\ queued' = {r \in Requests : paidBy'[r] # NoPayment}
  BY DEF ActivationIffPaid
<1>2. CASE UNCHANGED <<paidBy, reported>>
  <2>1. queued' = queued
    BY <1>1, <1>2
  <2>2. settled' = settled
    BY <1>2
  <2>3. QED BY <1>2, <2>1, <2>2 DEF Sale!vars
<1>3. ASSUME NEW p \in Payments, NEW s \in StatusClasses, ProviderReports(p, s)
      PROVE  [Sale!Next]_(Sale!vars)
  <2>1. paidBy' = paidBy
    BY <1>3 DEF ProviderReports
  <2>2. queued' = queued
    BY <1>1, <2>1
  <2>3. /\ reported'[p] = reported[p] \cup {s}
        /\ \A q \in Payments \ {p} : reported'[q] = reported[q]
    <3>1. reported' = [reported EXCEPT ![p] = @ \cup {s}]
      BY <1>3 DEF ProviderReports
    <3>2. reported \in [Payments -> SUBSET StatusClasses]
      BY DEF TypeOK
    <3>3. QED BY ONLY <3>1, <3>2, p \in Payments
  <2>4. CASE s = "SUCCESS"
    <3>1. settled' = settled \cup {p}
      BY <2>3, <2>4
    <3>2. Sale!Settle(p)
      BY <2>1, <2>2, <3>1 DEF Sale!Settle
    <3>3. QED BY <3>2 DEF Sale!Next
  <2>5. CASE s # "SUCCESS"
    <3>1. settled' = settled
      BY <2>3, <2>5
    <3>2. QED BY <2>1, <2>2, <3>1 DEF Sale!vars
  <2>6. QED BY <2>4, <2>5
<1>4. ASSUME NEW p \in Payments, NEW s \in StatusClasses, ProcessWebhook(p, s)
      PROVE  [Sale!Next]_(Sale!vars)
  <2>1. settled' = settled
    BY <1>4 DEF ProcessWebhook
  <2>2. CASE UNCHANGED paidBy
    <3>1. queued' = queued
      BY <1>1, <2>2
    <3>2. QED BY <2>1, <2>2, <3>1 DEF Sale!vars
  <2>3. CASE /\ WebhookDecision(p, s) = "transition_paid"
             /\ paidBy' = [paidBy EXCEPT ![OrderOf[p]] = p]
    <3>1. s = "SUCCESS" /\ p \notin BadPayments /\ paidBy[OrderOf[p]] = NoPayment
      BY <2>3, DecisionPaid
    <3>2. p \in settled
      <4>1. inbox[<<p, s>>] # "absent"
        BY <1>4 DEF ProcessWebhook, Processable
      <4>2. s \in reported[p]
        BY <4>1 DEF SagaConsistent
      <4>3. QED BY <3>1, <4>2
    <3>3. queued' = queued \cup {OrderOf[p]}
      <4>1. \A r \in Requests :
              paidBy'[r] = IF r = OrderOf[p] THEN p ELSE paidBy[r]
        BY <2>3 DEF TypeOK
      <4>2. OrderOf[p] \in Requests /\ p # NoPayment
        OBVIOUS
      <4> HIDE DEF queued
      <4>3. QED BY <1>1, <4>1, <4>2
    <3>4. Sale!Sell(p)
      BY <2>1, <2>3, <3>1, <3>2, <3>3 DEF Sale!Sell
    <3>5. QED BY <3>4 DEF Sale!Next
  <2>4. \/ UNCHANGED paidBy
        \/ WebhookDecision(p, s) = "transition_paid" /\ ApplyPaidTransition(p)
    BY <1>4 DEF ProcessWebhook
  <2>5. ApplyPaidTransition(p) => paidBy' = [paidBy EXCEPT ![OrderOf[p]] = p]
    BY DEF ApplyPaidTransition
  <2>6. QED
    BY <2>2, <2>3, <2>4, <2>5
<1>5. QED
  BY <1>2, <1>3, <1>4, SaleFrame

\* The initial state is one of VerifiedSale.
LEMMA SaleInit == Init => Sale!Init
<1> SUFFICES ASSUME Init PROVE Sale!Init
  OBVIOUS
<1>1. {p \in Payments : "SUCCESS" \in reported[p]} = {}
  BY DEF Init
<1>2. {r \in Requests : row[<<"activation", r>>] # "absent"} = {}
  BY DEF Init, Rows, Kinds
<1>3. paidBy = [r \in Requests |-> NoPayment]
  BY DEF Init
<1>4. QED BY <1>1, <1>2, <1>3 DEF Sale!Init

\* The saga implements VerifiedSale: an order is sold at most once, for settled
\* money on its own terms, and its activation is queued in the same step.
THEOREM SaleImplemented == Spec => SaleRefined
<1>1. Init => Sale!Init
  BY SaleInit
<1>2. SagaInv /\ SagaInv' /\ [Next]_vars => [Sale!Next]_(Sale!vars)
  BY SaleStep
<1>3. QED
  BY <1>1, <1>2, SagaInvariant, PTL DEF Spec, SaleRefined, Sale!Spec

-----------------------------------------------------------------------------
(* The lifecycle registry.  No step of the saga consults it. *)

\* The rules of the registry that the payment path uses.
LEMMA PaymentRules ==
  /\ <<"ANALYZED", "START_CONVERSION", "CONVERSION_FOLLOW_UP">> \in Registry!AllRules
  /\ <<"CONVERSION_FOLLOW_UP", "REQUEST_PAYMENT", "PAYMENT_PENDING">>
       \in Registry!AllRules
  /\ <<"PAYMENT_PENDING", "VERIFY_PAYMENT", "PAID">> \in Registry!AllRules
  /\ <<"PAYMENT_REVIEW", "VERIFY_PAYMENT", "PAID">> \in Registry!AllRules
  BY DEF Registry!AllRules, Registry!DemoRules, Registry!SaleAndRecoveryRules

\* A demo that is moved along a rule takes a step of the registry.
LEMMA RuleFollowed ==
  ASSUME NEW t \in Registry!AllRules, NEW d \in Demos, demo[d] = t[1],
         demo' = [demo EXCEPT ![d] = t[3]]
  PROVE  Registry!Next
  BY DEF Registry!Next, Registry!Resolve

\* A demo moves along rules of the registry or by a chat message.
LEMMA LifecycleStep ==
  ASSUME [Next]_vars, demo' # demo
  PROVE  Registry!Next \/ Chat \/ \E d \in Demos : RunDemo(d)
<1>1. ASSUME NEW d \in Demos, StartConversion(d) PROVE Registry!Next
  BY <1>1, PaymentRules, RuleFollowed DEF StartConversion
<1>2. ASSUME NEW r \in Requests, PublishQuote(r) PROVE Registry!Next
  <2>1. /\ demo[DemoOf[r]] = "CONVERSION_FOLLOW_UP"
        /\ demo' = [demo EXCEPT ![DemoOf[r]] = "PAYMENT_PENDING"]
        /\ DemoOf[r] \in Demos
    BY <1>2 DEF PublishQuote, InFollowUp
  <2> QED BY <2>1, PaymentRules, RuleFollowed
<1>3. ASSUME NEW p \in Payments, NEW s \in StatusClasses, ProcessWebhook(p, s)
      PROVE  Registry!Next
  <2> DEFINE d == DemoOf[OrderOf[p]]
  <2>1. /\ demo[d] \in {"PAYMENT_PENDING", "PAYMENT_REVIEW"}
        /\ demo' = [demo EXCEPT ![d] = "PAID"]
        /\ d \in Demos
    BY <1>3 DEF ProcessWebhook, ApplyPaidTransition, Payable
  <2> HIDE DEF d
  <2> QED BY <2>1, PaymentRules, RuleFollowed
<1>4. ASSUME NEW r \in Requests,
             \/ SendCashfreeOrder(r) \/ RecordCashfreeOrder(r)
             \/ PublishActivation(r) \/ PublisherCrash(r)
             \/ \E k \in {"quote", "cashfree"} : DeliveryFault(k, r)
      PROVE  FALSE
  BY <1>4 DEF SendCashfreeOrder, RecordCashfreeOrder, PublishActivation,
              PublisherCrash, DeliveryFault
<1>5. ASSUME NEW p \in Payments, NEW s \in StatusClasses,
             \/ RejectWebhook(p, s) \/ WebhookFault(p, s)
             \/ ProviderReports(p, s) \/ AcceptWebhook(p, s)
      PROVE  FALSE
  BY <1>5 DEF RejectWebhook, WebhookFault, WebhookFailed, ProviderReports,
              AcceptWebhook
<1>6. ASSUME NEW c \in Reconcilers, Reconcile(c) PROVE FALSE
  BY <1>6 DEF Reconcile, Reserve, Fetch, FetchFails, ApplySnapshot, ReconcilerCrash
<1>7. ASSUME NEW r \in Requests,
             \/ RequestPayment(r) \/ Lapse(r)
             \/ \E s \in {"EXPIRED", "TERMINATED"} : ProviderCloses(r, s)
      PROVE  FALSE
  BY <1>7 DEF RequestPayment, Lapse, ProviderCloses
<1> QED
  BY <1>1, <1>2, <1>3, <1>4, <1>5, <1>6, <1>7
     DEF Next, PaymentNext, CalmNext, Faults, Environment, Outbox, Inbox

\* Every change of a demo's state follows rules of the registry in table.py
\* or is a chat message's, however workers, webhooks, reconciliation and
\* failures interleave.
THEOREM LifecycleKept == Spec => LifecycleFollowed
<1>1. [Next]_vars =>
        [demo' # demo => Registry!Next \/ Chat \/ \E d \in Demos : RunDemo(d)]_demo
  BY LifecycleStep
<1> QED BY <1>1, PTL DEF Spec, LifecycleFollowed
=============================================================================
