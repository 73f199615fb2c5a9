----------------------------- MODULE PaymentSaga -----------------------------
(***************************************************************************)
(* The payment saga: a payment request, the authoritative quote, the       *)
(* Cashfree order, signed payment webhooks, scheduled reconciliation and   *)
(* the paid transition that queues the website activation.                 *)
(*                                                                         *)
(* Every action is one committed database transaction of the code, a call  *)
(* to a provider, a crash, or a step of the environment (marked external). *)
(* Clocks are abstracted: back-off delays and staleness cut-offs may pass  *)
(* at any moment, an order's expiry is a step of its own.                  *)
(***************************************************************************)
EXTENDS Naturals, PaymentVerification

CONSTANTS Demos,        \* demo cases
          Requests,     \* payment request ids; each creates at most one order
          DemoOf,       \* the demo a request is for (fixed by its request hash)
          Payments,     \* provider payment ids (cf_payment_id)
          OrderOf,      \* the request whose order a payment is made on
          BadPayments,  \* payments whose terms differ from the order's
          NoPayment,    \* stands for "no payment"
          Reconcilers,  \* concurrent runs of the reconciliation command
          MaxAttempts,  \* maximum_attempts of the inbox and of the outbox
          Reportable    \* the statuses the provider sends webhooks for, by payment

ASSUME SagaAssumption ==
  /\ DemoOf \in [Requests -> Demos]
  /\ OrderOf \in [Payments -> Requests]
  /\ BadPayments \subseteq Payments
  /\ NoPayment \notin Payments
  /\ MaxAttempts \in Nat \ {0}
  /\ Reportable \in [Payments -> SUBSET StatusClasses]

VARIABLES
  demo,       \* demo_cases.state
  preq,       \* provider_requests.status of the quote request
  order,      \* payment_orders.status, "none" when there is no row
  bound,      \* payment_orders.provider_order_id is set (checkout handed out)
  lapsed,     \* now >= payment_orders.expires_at
  row,        \* agent_outbox rows: absent, ready, sent (uncommitted), published
  tries,      \* agent_outbox.attempts
  cfOrder,    \* the order at Cashfree (external)
  ack,        \* order status in the create_order answer being recorded
  reported,   \* statuses Cashfree has reached for a payment (external)
  inbox,      \* agent_inbox rows, one per (payment, status) webhook
  inTries,    \* agent_inbox.processing_attempts
  attempt,    \* payment_attempts.status; provider_payment_id is unique
  paidBy,     \* paid_transitions.provider_payment_id of the request's order
  recPc, recOrder, recSnap,  \* a reconciliation run: step, order, snapshot
  late,       \* history: payments that succeeded after their order's expires_at
  strayed     \* history: demos a chat message took out of their payment

requestVars == <<preq, order, bound, lapsed>>
outboxVars == <<row, tries>>
providerVars == <<cfOrder, ack, reported, late>>
inboxVars == <<inbox, inTries>>
paymentVars == <<attempt, paidBy>>
recVars == <<recPc, recOrder, recSnap>>
demoVars == <<demo, strayed>>
vars == <<demoVars, requestVars, outboxVars, providerVars, inboxVars,
          paymentVars, recVars>>

Kinds == {"quote", "cashfree", "activation"}
Rows == Kinds \X Requests
Webhooks == Payments \X StatusClasses

\* Statuses of an order that block another payment request for its demo.
ActiveOrder ==
  {"creating", "pending", "reconciling", "reconciliation_required",
   "payment_review"}
OrderStatuses == ActiveOrder \cup {"none", "failed", "expired", "paid"}

\* States a chat message can send a demo to.
ChatStates == {"TUTOR_SHORTLISTED", "HUMAN_HANDOFF", "SLOT_NEGOTIATING"}
DemoStates ==
  ChatStates \cup {"ANALYZED", "CONVERSION_FOLLOW_UP", "PAYMENT_PENDING", "PAID"}

ProviderOrderStatuses == {"none", "ACTIVE", "PAID", "EXPIRED", "TERMINATED"}

\* Every variable has its type.
TypeOK ==
  /\ demo \in [Demos -> DemoStates]
  /\ preq \in [Requests -> {"none", "queued", "quote_verified", "ready"}]
  /\ order \in [Requests -> OrderStatuses]
  /\ bound \in [Requests -> BOOLEAN]
  /\ lapsed \in [Requests -> BOOLEAN]
  /\ row \in [Rows -> {"absent", "ready", "sent", "published"}]
  /\ tries \in [Rows -> 0 .. MaxAttempts]
  /\ cfOrder \in [Requests -> ProviderOrderStatuses]
  /\ ack \in [Requests -> ProviderOrderStatuses]
  /\ reported \in [Payments -> SUBSET StatusClasses]
  /\ inbox \in [Webhooks -> {"absent", "queued", "processed"}]
  /\ inTries \in [Webhooks -> 0 .. MaxAttempts]
  /\ attempt \in [Payments -> StatusClasses \cup {"none"}]
  /\ paidBy \in [Requests -> Payments \cup {NoPayment}]
  /\ recPc \in [Reconcilers -> {"idle", "reserved", "fetched"}]
  /\ recOrder \in [Reconcilers -> Requests]
  /\ recSnap \in [Reconcilers -> ProviderOrderStatuses \cup {"MISMATCH"}]
  /\ late \subseteq Payments
  /\ strayed \subseteq Demos

Init ==
  /\ demo = [d \in Demos |-> "ANALYZED"]
  /\ preq = [r \in Requests |-> "none"]
  /\ order = [r \in Requests |-> "none"]
  /\ bound = [r \in Requests |-> FALSE]
  /\ lapsed = [r \in Requests |-> FALSE]
  /\ row = [x \in Rows |-> "absent"]
  /\ tries = [x \in Rows |-> 0]
  /\ cfOrder = [r \in Requests |-> "none"]
  /\ ack = [r \in Requests |-> "none"]
  /\ reported = [p \in Payments |-> {}]
  /\ inbox = [w \in Webhooks |-> "absent"]
  /\ inTries = [w \in Webhooks |-> 0]
  /\ attempt = [p \in Payments |-> "none"]
  /\ paidBy = [r \in Requests |-> NoPayment]
  /\ recPc = [c \in Reconcilers |-> "idle"]
  /\ recOrder \in [Reconcilers -> Requests]
  /\ recSnap = [c \in Reconcilers |-> "none"]
  /\ late = {}
  /\ strayed = {}

-----------------------------------------------------------------------------
(* The payment request and the outbox rows that follow from it. *)

\* External: nothing under src/ performs START_CONVERSION.
StartConversion(d) ==
  /\ demo[d] = "ANALYZED"
  /\ demo' = [demo EXCEPT ![d] = "CONVERSION_FOLLOW_UP"]
  /\ UNCHANGED <<strayed, requestVars, outboxVars, providerVars, inboxVars,
                 paymentVars, recVars>>

\* External: a slot is held and the demo is given and analysed, the registry's
\* path from HOLD_SLOT to COMPLETE_ANALYSIS taken in one step.  A demo that chat
\* brought back to slot negotiation can be offered for payment again.
RunDemo(d) ==
  /\ demo[d] = "SLOT_NEGOTIATING"
  /\ demo' = [demo EXCEPT ![d] = "ANALYZED"]
  /\ UNCHANGED <<strayed, requestVars, outboxVars, providerVars, inboxVars,
                 paymentVars, recVars>>

\* provider_reference names the demo only while the request is queued: the
\* quote overwrites it with the plan version.
ActiveRequest(q) == preq[q] = "queued"

\* Mutation: the state check is too weak.
InFollowUpWeak(r) == demo[DemoOf[r]] # "PAID"

\* A standard-price payment starts only from conversion follow-up; checked when
\* the request is accepted and again when its quote is recorded.
InFollowUp(r) == demo[DemoOf[r]] = "CONVERSION_FOLLOW_UP"

\* request(): a request id already stored is answered without a change; the
\* demo row is locked, so the checks and the insert are one step.
RequestPayment(r) ==
  /\ preq[r] = "none"
  /\ \A q \in Requests : DemoOf[q] = DemoOf[r] => order[q] \notin ActiveOrder
  /\ InFollowUp(r)
  /\ \A q \in Requests : DemoOf[q] = DemoOf[r] => ~ ActiveRequest(q)
  /\ preq' = [preq EXCEPT ![r] = "queued"]
  /\ row' = [row EXCEPT ![<<"quote", r>>] = "ready"]
  /\ UNCHANGED <<demoVars, order, bound, lapsed, tries, providerVars,
                 inboxVars, paymentVars, recVars>>

\* The rows publish_batch selects.
Publishable(k, r) == row[<<k, r>>] = "ready" /\ tries[<<k, r>>] < MaxAttempts

\* The except branch of publish_batch: the failure is committed, the row is
\* tried again later.
DeliveryFailed(k, r) ==
  /\ row' = [row EXCEPT ![<<k, r>>] = "ready"]
  /\ tries' = [tries EXCEPT ![<<k, r>>] = @ + 1]

\* _record_quote and the publisher's commit.  A demo that is no longer in
\* conversion follow-up fails the delivery.
PublishQuote(r) ==
  /\ Publishable("quote", r)
  /\ \/ /\ InFollowUp(r)
        /\ order' = [order EXCEPT ![r] = "creating"]
        /\ demo' = [demo EXCEPT ![DemoOf[r]] = "PAYMENT_PENDING"]
        /\ preq' = [preq EXCEPT ![r] = "quote_verified"]
        /\ row' = [row EXCEPT ![<<"quote", r>>] = "published",
                              ![<<"cashfree", r>>] = "ready"]
        /\ UNCHANGED tries
     \/ /\ ~ InFollowUp(r)
        /\ DeliveryFailed("quote", r)
        /\ UNCHANGED <<demo, order, preq>>
  /\ UNCHANGED <<strayed, bound, lapsed, providerVars, inboxVars, paymentVars,
                 recVars>>

\* The create_order call.  The key is stable, so a repeated call answers with
\* the order that exists; the outbox row stays locked and uncommitted.
SendCashfreeOrder(r) ==
  /\ Publishable("cashfree", r)
  /\ row' = [row EXCEPT ![<<"cashfree", r>>] = "sent"]
  /\ cfOrder' = [cfOrder EXCEPT ![r] = IF @ = "none" THEN "ACTIVE" ELSE @]
  /\ ack' = [ack EXCEPT ![r] = cfOrder'[r]]
  /\ UNCHANGED <<demoVars, requestVars, tries, reported, late, inboxVars,
                 paymentVars, recVars>>

\* _record_cashfree_order and the publisher's commit.  An unexpected order
\* state raises after the order was put in review, and the publisher commits
\* that change together with the failed attempt.
RecordCashfreeOrder(r) ==
  /\ row[<<"cashfree", r>>] = "sent"
  /\ \/ /\ ack[r] = "ACTIVE"
        /\ bound' = [bound EXCEPT ![r] = TRUE]
        /\ order' = [order EXCEPT ![r] = "pending"]
        /\ preq' = [preq EXCEPT ![r] = "ready"]
        /\ row' = [row EXCEPT ![<<"cashfree", r>>] = "published"]
        /\ UNCHANGED tries
     \/ /\ ack[r] # "ACTIVE"
        /\ order' = [order EXCEPT ![r] = "payment_review"]
        /\ DeliveryFailed("cashfree", r)
        /\ UNCHANGED <<bound, preq>>
  /\ ack' = [ack EXCEPT ![r] = "none"]
  /\ UNCHANGED <<demoVars, lapsed, cfOrder, reported, late, inboxVars,
                 paymentVars, recVars>>

\* A provider error or timeout, before or after the provider acted.
DeliveryFault(k, r) ==
  /\ Publishable(k, r) \/ row[<<k, r>>] = "sent"
  /\ DeliveryFailed(k, r)
  /\ ack' = [ack EXCEPT ![r] = "none"]
  /\ UNCHANGED <<demoVars, requestVars, cfOrder, reported, late, inboxVars,
                 paymentVars, recVars>>

\* The worker dies after the provider call and before the commit.
PublisherCrash(r) ==
  /\ row[<<"cashfree", r>>] = "sent"
  /\ row' = [row EXCEPT ![<<"cashfree", r>>] = "ready"]
  /\ ack' = [ack EXCEPT ![r] = "none"]
  /\ UNCHANGED <<demoVars, requestVars, tries, cfOrder, reported, late,
                 inboxVars, paymentVars, recVars>>

\* _route_website compares the activation key in the payload with the row's
\* idempotency key, which _apply_paid_transition fills with another key.
ActivationRouted(r) == OperationKey("activation", r) = OperationKey("paid-outbox", r)

PublishActivation(r) ==
  /\ Publishable("activation", r)
  /\ IF ActivationRouted(r)
       THEN row' = [row EXCEPT ![<<"activation", r>>] = "published"]
            /\ UNCHANGED tries
       ELSE DeliveryFailed("activation", r)
  /\ UNCHANGED <<demoVars, requestVars, providerVars, inboxVars, paymentVars,
                 recVars>>

-----------------------------------------------------------------------------
(* Cashfree, and the webhooks it sends. *)

\* External: a payment of an open, handed-out order reaches status s.  A
\* success closes the order; review statuses (refund, dispute) follow a
\* success; "PENDING" comes first when it is reported at all.
ProviderReports(p, s) ==
  LET r == OrderOf[p] IN
  /\ bound[r]
  /\ s \in Reportable[p] \ reported[p]
  /\ \/ s = "REVIEW" /\ "SUCCESS" \in reported[p]
     \/ /\ s # "REVIEW"
        /\ cfOrder[r] = "ACTIVE"
        /\ reported[p] \subseteq {"PENDING"}
  /\ reported' = [reported EXCEPT ![p] = @ \cup {s}]
  /\ cfOrder' = [cfOrder EXCEPT ![r] = IF s = "SUCCESS" THEN "PAID" ELSE @]
  /\ late' = IF s = "SUCCESS" /\ lapsed[r] THEN late \cup {p} ELSE late
  /\ UNCHANGED <<demoVars, requestVars, outboxVars, ack, inboxVars,
                 paymentVars, recVars>>

\* External: an unpaid order expires or is terminated at the provider.
ProviderCloses(r, s) ==
  /\ cfOrder[r] = "ACTIVE"
  /\ s \in {"EXPIRED", "TERMINATED"}
  /\ cfOrder' = [cfOrder EXCEPT ![r] = s]
  /\ UNCHANGED <<demoVars, requestVars, outboxVars, ack, reported, late,
                 inboxVars, paymentVars, recVars>>

\* External: the clock passes the order's expires_at.
Lapse(r) ==
  /\ order[r] # "none"
  /\ ~ lapsed[r]
  /\ lapsed' = [lapsed EXCEPT ![r] = TRUE]
  /\ UNCHANGED <<demoVars, preq, order, bound, outboxVars, providerVars,
                 inboxVars, paymentVars, recVars>>

\* A verified webhook is stored; its event id hashes the body, so another
\* delivery of it violates the unique key and changes nothing.
AcceptWebhook(p, s) ==
  /\ s \in reported[p]
  /\ inbox[<<p, s>>] = "absent"
  /\ inbox' = [inbox EXCEPT ![<<p, s>>] = "queued"]
  /\ UNCHANGED <<demoVars, requestVars, outboxVars, providerVars, inTries,
                 paymentVars, recVars>>

\* The webhook rows _process_one may select, payments being enabled: the types a
\* setting blocks are in DurableInbox.
Processable(w) == inbox[w] = "queued" /\ inTries[w] < MaxAttempts

\* Mutation: the webhook's terms are not compared with the order's.
WebhookDecisionUnbound(p, s) ==
  VerifyPayment(
    [binding |-> "ordered"],
    [event |-> <<p, s>>, source |-> "signed_webhook", verified |-> TRUE,
     authenticated |-> FALSE, status |-> s, binding |-> "ordered"],
    {}, paidBy[OrderOf[p]] # NoPayment, lapsed[OrderOf[p]])

\* The decision for webhook <<p, s>>: a signed, verified webhook, and no list
\* of processed events is passed.
WebhookDecision(p, s) ==
  VerifyPayment(
    [binding |-> "ordered"],
    [event |-> <<p, s>>, source |-> "signed_webhook", verified |-> TRUE,
     authenticated |-> FALSE, status |-> s,
     binding |-> IF p \in BadPayments THEN "other" ELSE "ordered"],
    {}, paidBy[OrderOf[p]] # NoPayment, lapsed[OrderOf[p]])

\* Mutation: a success marks the order paid even when the demo refuses it.
StatusAfterOptimistic(decision, status) ==
  IF decision = "transition_paid" THEN "paid"
  ELSE IF decision \in {"review", "rejected_evidence"} THEN "payment_review"
  ELSE IF decision = "reconcile" THEN "reconciliation_required"
  ELSE IF decision \in {"failed", "expired"} THEN decision
  ELSE status

\* The order's status after a decision that does not make the paid transition.
StatusAfter(decision, status) ==
  IF decision \in {"review", "rejected_evidence", "transition_paid"}
    THEN "payment_review"
  ELSE IF decision = "reconcile" THEN "reconciliation_required"
  ELSE IF decision \in {"failed", "expired"} THEN decision
  ELSE status

\* Mutation: the order must still be pending as well.
PayablePending(r) ==
  /\ demo[DemoOf[r]] \in {"PAYMENT_PENDING", "PAYMENT_REVIEW"}
  /\ order[r] = "pending"

\* The demo is where _apply_paid_transition accepts it.
Payable(r) == demo[DemoOf[r]] \in {"PAYMENT_PENDING", "PAYMENT_REVIEW"}

\* _apply_paid_transition: demo, order, paid transition and activation row.
ApplyPaidTransition(p) ==
  LET r == OrderOf[p] IN
  /\ demo' = [demo EXCEPT ![DemoOf[r]] = "PAID"]
  /\ order' = [order EXCEPT ![r] = "paid"]
  /\ paidBy' = [paidBy EXCEPT ![r] = p]
  /\ row' = [row EXCEPT ![<<"activation", r>>] = "ready"]

\* _process_one on a Cashfree webhook, committed: the attempt row, the
\* decision and its effects, and processed_at.
ProcessWebhook(p, s) ==
  LET r == OrderOf[p]
      decision == WebhookDecision(p, s) IN
  /\ Processable(<<p, s>>)
  /\ bound[r]
  /\ attempt[p] = "none"
  /\ attempt' = [attempt EXCEPT ![p] = s]
  /\ \/ /\ decision = "transition_paid" /\ Payable(r)
        /\ ApplyPaidTransition(p)
     \/ /\ decision # "transition_paid" \/ ~ Payable(r)
        /\ order' = [order EXCEPT ![r] = StatusAfter(decision, @)]
        /\ UNCHANGED <<demo, paidBy, row>>
  /\ inbox' = [inbox EXCEPT ![<<p, s>>] = "processed"]
  /\ inTries' = [inTries EXCEPT ![<<p, s>>] = @ + 1]
  /\ UNCHANGED <<strayed, preq, bound, lapsed, tries, providerVars, recVars>>

\* _process_one failed: the handler's work is rolled back and one attempt is
\* counted.  The cause is an unbound order or a second attempt row for the
\* payment (both raise every time), or a transient fault.
WebhookFailed(w) ==
  /\ inTries' = [inTries EXCEPT ![w] = @ + 1]
  /\ UNCHANGED <<demoVars, requestVars, outboxVars, providerVars, inbox,
                 paymentVars, recVars>>

RejectWebhook(p, s) ==
  /\ Processable(<<p, s>>)
  /\ ~ bound[OrderOf[p]] \/ attempt[p] # "none"
  /\ WebhookFailed(<<p, s>>)

WebhookFault(p, s) == Processable(<<p, s>>) /\ WebhookFailed(<<p, s>>)

-----------------------------------------------------------------------------
(* Scheduled reconciliation: reserve, fetch and apply are three steps. *)

\* The orders _reserve_order selects.
Reservable(r) ==
  /\ bound[r]
  /\ order[r] \in {"pending", "reconciliation_required", "payment_review",
                   "reconciling"}

\* _reserve_order.  A reservation older than the retry delay may be taken over
\* while its holder still runs.
Reserve(c, r) ==
  /\ recPc[c] = "idle"
  /\ Reservable(r)
  /\ order' = [order EXCEPT ![r] = "reconciling"]
  /\ recPc' = [recPc EXCEPT ![c] = "reserved"]
  /\ recOrder' = [recOrder EXCEPT ![c] = r]
  /\ UNCHANGED <<demoVars, preq, bound, lapsed, outboxVars, providerVars,
                 inboxVars, paymentVars, recSnap>>

\* fetch_verified_status: the provider's order status, or an answer whose
\* amount, currency or order id does not match.
Fetch(c) ==
  /\ recPc[c] = "reserved"
  /\ \E s \in {cfOrder[recOrder[c]], "MISMATCH"} :
       recSnap' = [recSnap EXCEPT ![c] = s]
  /\ recPc' = [recPc EXCEPT ![c] = "fetched"]
  /\ UNCHANGED <<demoVars, requestVars, outboxVars, providerVars, inboxVars,
                 paymentVars, recOrder>>

\* _record_provider_failure.
FetchFails(c) ==
  /\ recPc[c] = "reserved"
  /\ order' = [order EXCEPT ![recOrder[c]] = "reconciliation_required"]
  /\ recPc' = [recPc EXCEPT ![c] = "idle"]
  /\ UNCHANGED <<demoVars, preq, bound, lapsed, outboxVars, providerVars,
                 inboxVars, paymentVars, recOrder, recSnap>>

\* The status _apply_snapshot writes, whatever the order's status is by then.
SnapshotStatus(snap) ==
  IF snap \in {"MISMATCH", "PAID"} THEN "payment_review"
  ELSE IF snap = "EXPIRED" THEN "expired"
  ELSE IF snap = "ACTIVE" THEN "pending"
  ELSE "reconciliation_required"

ApplySnapshot(c) ==
  /\ recPc[c] = "fetched"
  /\ order' = [order EXCEPT ![recOrder[c]] = SnapshotStatus(recSnap[c])]
  /\ recPc' = [recPc EXCEPT ![c] = "idle"]
  /\ recSnap' = [recSnap EXCEPT ![c] = "none"]
  /\ UNCHANGED <<demoVars, preq, bound, lapsed, outboxVars, providerVars,
                 inboxVars, paymentVars, recOrder>>

\* The command is killed between two of its transactions.
ReconcilerCrash(c) ==
  /\ recPc[c] # "idle"
  /\ recPc' = [recPc EXCEPT ![c] = "idle"]
  /\ recSnap' = [recSnap EXCEPT ![c] = "none"]
  /\ UNCHANGED <<demoVars, requestVars, outboxVars, providerVars, inboxVars,
                 paymentVars, recOrder>>

-----------------------------------------------------------------------------
(* Chat messages of the same demo, processed by the same inbox worker. *)

\* A chat message writes a demo's state without looking at it.
ChatMoves(d, s) ==
  /\ demo' = [demo EXCEPT ![d] = s]
  /\ strayed' = IF demo[d] \in {"PAYMENT_PENDING", "PAID"}
                  THEN strayed \cup {d} ELSE strayed
  /\ UNCHANGED <<requestVars, outboxVars, providerVars, inboxVars, paymentVars,
                 recVars>>

\* A message that changes a requirement restarts the tutor search, which ends
\* in a new shortlist or in a human handoff (_transition_demo_state).
ChatUpdate(d) ==
  \E s \in {"TUTOR_SHORTLISTED", "HUMAN_HANDOFF"} : ChatMoves(d, s)

\* The user picks a tutor of the shortlist; only the conversation's step, which
\* is not part of this module, decides whether a message is such a choice.
ChatSelection(d) == ChatMoves(d, "SLOT_NEGOTIATING")

-----------------------------------------------------------------------------
\* The workers' own steps.
Outbox(r) ==
  \/ PublishQuote(r)
  \/ SendCashfreeOrder(r)
  \/ RecordCashfreeOrder(r)
  \/ PublishActivation(r)

Inbox(p, s) == ProcessWebhook(p, s) \/ RejectWebhook(p, s)

Reconcile(c) ==
  \/ \E r \in Requests : Reserve(c, r)
  \/ Fetch(c)
  \/ FetchFails(c)
  \/ ApplySnapshot(c)
  \/ ReconcilerCrash(c)

\* Faults of the environment the code is written to survive.
Faults ==
  \/ \E r \in Requests :
       PublisherCrash(r) \/ \E k \in {"quote", "cashfree"} : DeliveryFault(k, r)
  \/ \E p \in Payments, s \in StatusClasses : WebhookFault(p, s)

\* The provider, the clock and the callers.
Environment ==
  \/ \E d \in Demos : StartConversion(d) \/ RunDemo(d)
  \/ \E r \in Requests :
       \/ RequestPayment(r)
       \/ Lapse(r)
       \/ \E s \in {"EXPIRED", "TERMINATED"} : ProviderCloses(r, s)
  \/ \E p \in Payments, s \in StatusClasses :
       ProviderReports(p, s) \/ AcceptWebhook(p, s)

\* The payment path without faults.
CalmNext ==
  \/ Environment
  \/ \E r \in Requests : Outbox(r)
  \/ \E p \in Payments, s \in StatusClasses : Inbox(p, s)
  \/ \E c \in Reconcilers : Reconcile(c)

\* The payment path: no chat message reaches a demo that is being paid.
PaymentNext == CalmNext \/ Faults

Chat == \E d \in Demos : ChatUpdate(d) \/ ChatSelection(d)

Next == PaymentNext \/ Chat

Spec == Init /\ [][Next]_vars
PaymentSpec == Init /\ [][PaymentNext]_vars

\* The worker loop runs for as long as the service does: a row it can work on
\* is eventually worked on.  Nothing is assumed of callers, of the provider or
\* of the scheduled reconciliation.
WorkerFairness ==
  /\ WF_vars(\E r \in Requests : Outbox(r))
  /\ WF_vars(\E p \in Payments, s \in StatusClasses : Inbox(p, s))

FairSpec == Spec /\ WorkerFairness
FairCalmSpec == Init /\ [][CalmNext]_vars /\ WorkerFairness

-----------------------------------------------------------------------------
(* Safety. *)

\* A paid transition names a payment of that very order, on the order's terms,
\* that Cashfree reported successful in a webhook which was processed and
\* recorded as a payment attempt (_apply_paid_transition, verify_payment).
PaidIsBacked ==
  \A r \in Requests : paidBy[r] # NoPayment =>
    LET p == paidBy[r] IN
    /\ OrderOf[p] = r
    /\ p \notin BadPayments
    /\ "SUCCESS" \in reported[p]
    /\ inbox[<<p, "SUCCESS">>] = "processed"
    /\ attempt[p] = "SUCCESS"
    /\ bound[r]

\* Neither the order's nor the demo's status claims a payment that has no
\* durable paid transition, whatever reconciliation, late webhooks and chat
\* messages write to them.
PaidStatusBacked ==
  /\ \A r \in Requests : order[r] = "paid" => paidBy[r] # NoPayment
  /\ \A d \in Demos : demo[d] = "PAID" =>
       \E r \in Requests : DemoOf[r] = d /\ paidBy[r] # NoPayment

\* The activation of the website subscription is queued for the paid orders
\* and for no others: state and outbox row commit together (ADR-004).
ActivationIffPaid ==
  \A r \in Requests : row[<<"activation", r>>] # "absent" <=> paidBy[r] # NoPayment

\* A second order of a demo, the way to charge it twice, exists only when a chat
\* message had taken the demo out of its payment: neither retried quotes nor
\* competing requests create one (request() and _record_quote each guard it with
\* the demo's state; request() does not count failed, expired and paid orders).
SecondOrderExplained ==
  \A q, r \in Requests :
    order[q] # "none" /\ order[r] # "none" /\ DemoOf[q] = DemoOf[r] =>
      q = r \/ DemoOf[r] \in strayed

\* A processed success webhook on the order's terms, of a payment made before
\* the order expired, has made the order paid, unless a chat message had taken
\* the demo out of its payment: no status that a reconciliation or another
\* webhook wrote, before or after expiry, makes the handler drop the money.
SuccessNeverDropped ==
  \A p \in Payments \ (BadPayments \cup late) :
    inbox[<<p, "SUCCESS">>] = "processed" =>
      paidBy[OrderOf[p]] # NoPayment \/ DemoOf[OrderOf[p]] \in strayed

\* The rows of the saga agree with each other across its transactions: an
\* uncommitted delivery has an attempt left, nothing refers to an order that
\* does not exist or is not bound, an order's demo is in its payment unless a
\* chat message took it out, and a stored webhook was reported.
SagaConsistent ==
  /\ \A x \in Rows : row[x] = "sent" => tries[x] < MaxAttempts
  /\ \A r \in Requests :
       /\ row[<<"cashfree", r>>] # "absent" => order[r] # "none"
       /\ bound[r] => order[r] # "none"
       /\ order[r] # "none" =>
            \/ demo[DemoOf[r]] \in {"PAYMENT_PENDING", "PAID"}
            \/ DemoOf[r] \in strayed
  /\ \A c \in Reconcilers : recPc[c] # "idle" => bound[recOrder[c]]
  /\ \A p \in Payments : \A s \in StatusClasses :
       inbox[<<p, s>>] # "absent" => s \in reported[p]

\* The inductive invariant of the saga.
SagaInv ==
  /\ TypeOK
  /\ SagaConsistent
  /\ PaidIsBacked
  /\ PaidStatusBacked
  /\ ActivationIffPaid
  /\ SecondOrderExplained
  /\ SuccessNeverDropped

-----------------------------------------------------------------------------
(* What the saga implements. *)

Sale == INSTANCE VerifiedSale WITH
          settled <- {p \in Payments : "SUCCESS" \in reported[p]},
          sale <- paidBy,
          activation <- {r \in Requests : row[<<"activation", r>>] # "absent"}

\* The saga implements the promise of VerifiedSale: sold at most once, for
\* settled money on the order's terms, activation queued in the same step.
SaleRefined == Sale!Spec

Registry == INSTANCE LifecycleRegistry

\* Every change of a demo's state is a transition of the registry in table.py
\* (RunDemo is a chain of them) or made by a chat message, although the workers,
\* webhooks and reconciliation write it without consulting the registry and any
\* of them may fail.
LifecycleFollowed ==
  [][demo' # demo =>
       Registry!Next \/ Chat \/ \E d \in Demos : RunDemo(d)]_demo

-----------------------------------------------------------------------------
(* Liveness, and what the documentation says of conflicting evidence. *)

\* Once a success webhook on the order's terms, of a payment made in time, is
\* stored, the paid transition happens, whatever reconciliation does to the
\* order meanwhile, with three exceptions: a chat message took the demo out of
\* its payment; an earlier webhook of the payment (PENDING, FAILED) is processed
\* and holds its only attempt row, so that the success is rejected at every try;
\* or faults have used up the webhook's attempts.
SuccessIsPaid ==
  \A p \in Payments \ BadPayments :
    inbox[<<p, "SUCCESS">>] = "queued" /\ p \notin late ~>
      \/ paidBy[OrderOf[p]] # NoPayment
      \/ DemoOf[OrderOf[p]] \in strayed
      \/ attempt[p] \notin {"none", "SUCCESS"}
      \/ attempt[p] = "none" /\ inTries[<<p, "SUCCESS">>] = MaxAttempts

\* docs/architecture/failure-modes.md: a website activation that fails after
\* the payment is retried, so the activation row of a paid order is delivered.
ActivationDelivered ==
  \A r \in Requests :
    paidBy[r] # NoPayment ~> row[<<"activation", r>>] = "published"

\* docs/integration/cashfree.md: a conflicting terminal status enters payment
\* review, so a failure or expiry webhook processed for a paid order puts the
\* order in payment_review.
ConflictReviewed ==
  [][\A p \in Payments, s \in {"FAILED", "EXPIRED"} :
       /\ order[OrderOf[p]] = "paid"
       /\ inbox[<<p, s>>] = "queued"
       /\ inbox'[<<p, s>>] = "processed"
       => order'[OrderOf[p]] = "payment_review"]_vars

\* docs/integration/cashfree.md: a late payment enters payment review, so no
\* paid transition is made for a payment that succeeded after expires_at.
LatePaymentReviewed == \A r \in Requests : paidBy[r] \notin late

\* ADR-005: refunds and disputes enter payment review.
RefundReviewed ==
  \A p \in Payments \ BadPayments :
    inbox[<<p, "REVIEW">>] = "queued" ~> order[OrderOf[p]] = "payment_review"
=============================================================================
