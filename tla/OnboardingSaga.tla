---------------------------- MODULE OnboardingSaga ----------------------------
(***************************************************************************)
(* From the paid transition to CONVERTED: the website activation, the      *)
(* handoff to the onboarding agent, the agent's accepted and completed     *)
(* events and the welcome message, for one paid order.  Sagas of different *)
(* demos share no row.                                                     *)
(*                                                                         *)
(* Several workers run (publishers and inbox processors), so the answer of *)
(* the onboarding agent to a request may be processed before the publisher *)
(* that sent the request commits.  The saga is modelled for a transport    *)
(* that acknowledges the activation, which is what the recorder is written *)
(* for; PaymentSaga shows that the shipped router refuses it.              *)
(***************************************************************************)
EXTENDS Naturals

CONSTANTS Accepts,      \* onboarding.handoff.accepted.v1 events, by event id
          Completes,    \* onboarding.completed.v1 events, by event id
          MaxAttempts   \* maximum_attempts of the inbox and of the outbox

ASSUME OnboardingAssumption ==
  /\ Accepts \cap Completes = {}
  /\ MaxAttempts \in Nat \ {0}

VARIABLES
  demo,       \* demo_cases.state
  orderPaid,  \* payment_orders.status = "paid"
  handoff,    \* onboarding_handoffs.status, "none" when there is no row
  row,        \* agent_outbox rows: absent, ready, sent (uncommitted), published
  tries,      \* agent_outbox.attempts
  asked,      \* the onboarding agent holds the request (external)
  inbox,      \* agent_inbox rows of the agent's events
  inTries,    \* agent_inbox.processing_attempts
  enabled     \* demo_post_conversion_enabled of the running deployment

vars == <<demo, orderPaid, handoff, row, tries, asked, inbox, inTries, enabled>>

Events == Accepts \cup Completes
Kinds == {"activation", "request", "welcome"}
ChatStates == {"TUTOR_SHORTLISTED", "HUMAN_HANDOFF", "SLOT_NEGOTIATING"}

\* Every variable has its type.
TypeOK ==
  /\ demo \in ChatStates \cup {"PAID", "ONBOARDING_HANDOFF", "CONVERTED"}
  /\ orderPaid \in BOOLEAN
  /\ handoff \in {"none", "pending", "accepted", "completed"}
  /\ row \in [Kinds -> {"absent", "ready", "sent", "published"}]
  /\ tries \in [Kinds -> 0 .. MaxAttempts]
  /\ asked \in BOOLEAN
  /\ inbox \in [Events -> {"absent", "queued", "processed"}]
  /\ inTries \in [Events -> 0 .. MaxAttempts]
  /\ enabled \in BOOLEAN

\* The state _apply_paid_transition leaves behind.
Init ==
  /\ demo = "PAID"
  /\ orderPaid = TRUE
  /\ handoff = "none"
  /\ row = [k \in Kinds |-> IF k = "activation" THEN "ready" ELSE "absent"]
  /\ tries = [k \in Kinds |-> 0]
  /\ asked = FALSE
  /\ inbox = [e \in Events |-> "absent"]
  /\ inTries = [e \in Events |-> 0]
  /\ enabled \in BOOLEAN

-----------------------------------------------------------------------------
(* The outbox publisher and LifecycleOutboxDeliveryRecorder. *)

\* Mutation: a row that failed once is not selected again.
PublishableOnce(k) ==
  /\ row[k] = "ready" /\ tries[k] = 0
  /\ k = "request" => enabled

\* The rows publish_batch selects; a disabled onboarding blocks its target.
Publishable(k) ==
  /\ row[k] = "ready" /\ tries[k] < MaxAttempts
  /\ k = "request" => enabled

\* The except branch of publish_batch: whatever the recorder wrote before it
\* raised is committed together with the failed attempt.
DeliveryFailed(k) ==
  /\ row' = [row EXCEPT ![k] = "ready"]
  /\ tries' = [tries EXCEPT ![k] = @ + 1]

\* The handoff and its outbox row, in the transaction that publishes the
\* activation.
QueueOnboarding ==
  /\ handoff' = "pending"
  /\ row' = [row EXCEPT !["activation"] = "published", !["request"] = "ready"]

\* The activation is acknowledged and recorded by _queue_onboarding, which
\* does nothing when the handoff exists and raises unless the demo is PAID.  A
\* deployment with onboarding disabled runs without this recorder.
PublishActivation ==
  /\ Publishable("activation")
  /\ \/ /\ enabled /\ handoff = "none" /\ demo = "PAID"
        /\ QueueOnboarding
        /\ UNCHANGED tries
     \/ /\ enabled /\ handoff = "none" /\ demo # "PAID"
        /\ DeliveryFailed("activation")
        /\ UNCHANGED handoff
     \/ /\ ~ enabled \/ handoff # "none"
        /\ row' = [row EXCEPT !["activation"] = "published"]
        /\ UNCHANGED <<handoff, tries>>
  /\ UNCHANGED <<demo, orderPaid, asked, inbox, inTries, enabled>>

\* The handoff event reaches the onboarding agent; the row stays locked and
\* uncommitted until the answer is recorded.
SendRequest ==
  /\ Publishable("request")
  /\ row' = [row EXCEPT !["request"] = "sent"]
  /\ asked' = TRUE
  /\ UNCHANGED <<demo, orderPaid, handoff, tries, inbox, inTries, enabled>>

\* Mutation: a converted demo is handed off again.
HandoffableAgain == demo \in {"PAID", "CONVERTED"}

\* The state from which _record_onboarding_acceptance moves the demo.
Handoffable == demo = "PAID"

\* _record_onboarding_acceptance and the publisher's commit.  The handoff is
\* marked accepted before the demo's state is looked at.
RecordAcceptance ==
  /\ row["request"] = "sent"
  /\ handoff' = "accepted"
  /\ \/ /\ demo = "ONBOARDING_HANDOFF" \/ Handoffable
        /\ demo' = "ONBOARDING_HANDOFF"
        /\ row' = [row EXCEPT !["request"] = "published"]
        /\ UNCHANGED tries
     \/ /\ demo # "ONBOARDING_HANDOFF" /\ ~ Handoffable
        /\ DeliveryFailed("request")
        /\ UNCHANGED demo
  /\ UNCHANGED <<orderPaid, asked, inbox, inTries, enabled>>

\* The welcome message is handed to the lead-intake agent.
PublishWelcome ==
  /\ Publishable("welcome")
  /\ row' = [row EXCEPT !["welcome"] = "published"]
  /\ UNCHANGED <<demo, orderPaid, handoff, tries, asked, inbox, inTries, enabled>>

\* A provider error or timeout, before or after the agent took the request.
DeliveryFault(k) ==
  /\ Publishable(k) \/ row[k] = "sent"
  /\ DeliveryFailed(k)
  /\ UNCHANGED <<demo, orderPaid, handoff, asked, inbox, inTries, enabled>>

\* The publisher dies between the call and its commit.
PublisherCrash ==
  /\ row["request"] = "sent"
  /\ row' = [row EXCEPT !["request"] = "ready"]
  /\ UNCHANGED <<demo, orderPaid, handoff, tries, asked, inbox, inTries, enabled>>

\* A redeployment switches onboarding on or off; a delivery under way is lost
\* with its process.
Redeploy ==
  /\ enabled' = ~ enabled
  /\ row' = [k \in Kinds |-> IF row[k] = "sent" THEN "ready" ELSE row[k]]
  /\ UNCHANGED <<demo, orderPaid, handoff, tries, asked, inbox, inTries>>

-----------------------------------------------------------------------------
(* The onboarding agent and the inbox. *)

\* External: the agent answers a request it holds.  Its events travel on their
\* own, so they are stored in any order; a repeated event id is a duplicate.
AgentAnswers(e) ==
  /\ asked
  /\ inbox[e] = "absent"
  /\ inbox' = [inbox EXCEPT ![e] = "queued"]
  /\ UNCHANGED <<demo, orderPaid, handoff, row, tries, asked, inTries, enabled>>

\* The events _process_one may select; a disabled onboarding blocks them.
Processable(e) == enabled /\ inbox[e] = "queued" /\ inTries[e] < MaxAttempts

\* _process_one committed.
Processed(e) ==
  /\ inbox' = [inbox EXCEPT ![e] = "processed"]
  /\ inTries' = [inTries EXCEPT ![e] = @ + 1]

\* _accept_onboarding finds its handoff and a demo it accepts.
Acceptable ==
  /\ handoff # "none"
  /\ demo = "ONBOARDING_HANDOFF" \/ (demo = "PAID" /\ orderPaid)

AcceptOnboarding(e) ==
  /\ Processable(e)
  /\ Acceptable
  /\ handoff' = "accepted"
  /\ demo' = "ONBOARDING_HANDOFF"
  /\ Processed(e)
  /\ UNCHANGED <<orderPaid, row, tries, asked, enabled>>

\* Mutation: completion does not wait for the acceptance.
CompletableEarly ==
  handoff \in {"pending", "accepted"} /\ demo \in {"PAID", "ONBOARDING_HANDOFF"}

\* _complete_onboarding: only an accepted handoff is completed.
Completable == handoff = "accepted" /\ demo = "ONBOARDING_HANDOFF"

\* The demo is converted and the welcome message queued in one transaction.
CompleteOnboarding(e) ==
  /\ Processable(e)
  /\ Completable
  /\ demo' = "CONVERTED"
  /\ handoff' = "completed"
  /\ row' = [row EXCEPT !["welcome"] = "ready"]
  /\ Processed(e)
  /\ UNCHANGED <<orderPaid, tries, asked, enabled>>

\* _complete_onboarding has been done already.
AlreadyCompleted == handoff = "completed" /\ demo = "CONVERTED"

RepeatCompletion(e) ==
  /\ Processable(e)
  /\ AlreadyCompleted
  /\ Processed(e)
  /\ UNCHANGED <<demo, orderPaid, handoff, row, tries, asked, enabled>>

\* The handler raises: its work is rolled back and an attempt is counted.  The
\* inbox has no back-off, so the next attempt may follow at once.
EventFailed(e) ==
  /\ Processable(e)
  /\ inTries' = [inTries EXCEPT ![e] = @ + 1]
  /\ UNCHANGED <<demo, orderPaid, handoff, row, tries, asked, inbox, enabled>>

RejectAcceptance(e) == ~ Acceptable /\ EventFailed(e)
RejectCompletion(e) == ~ Completable /\ ~ AlreadyCompleted /\ EventFailed(e)

-----------------------------------------------------------------------------
(* The rest of the service, acting on the same rows. *)

\* A late webhook or an overtaken reconciliation overwrites the paid order's
\* status (PaymentSaga: ProcessWebhook, ApplySnapshot).
OrderOverwritten ==
  /\ orderPaid
  /\ orderPaid' = FALSE
  /\ UNCHANGED <<demo, handoff, row, tries, asked, inbox, inTries, enabled>>

\* A chat message moves the demo (PaymentSaga: ChatUpdate, ChatSelection).
ChatUpdate ==
  /\ \E s \in {"TUTOR_SHORTLISTED", "HUMAN_HANDOFF"} : demo' = s
  /\ UNCHANGED <<orderPaid, handoff, row, tries, asked, inbox, inTries, enabled>>

ChatSelection ==
  /\ demo' = "SLOT_NEGOTIATING"
  /\ UNCHANGED <<orderPaid, handoff, row, tries, asked, inbox, inTries, enabled>>

-----------------------------------------------------------------------------
Outbox == PublishActivation \/ SendRequest \/ RecordAcceptance \/ PublishWelcome

Inbox(e) ==
  \/ e \in Accepts /\ (AcceptOnboarding(e) \/ RejectAcceptance(e))
  \/ e \in Completes
       /\ (CompleteOnboarding(e) \/ RepeatCompletion(e) \/ RejectCompletion(e))

\* The saga without faults and chat messages.
CalmNext ==
  \/ Outbox
  \/ \E e \in Events : AgentAnswers(e) \/ Inbox(e)
  \/ OrderOverwritten

Faults ==
  \/ \E k \in Kinds : DeliveryFault(k)
  \/ PublisherCrash
  \/ \E e \in Events : EventFailed(e)
  \/ Redeploy

Next == CalmNext \/ Faults \/ ChatUpdate \/ ChatSelection

Spec == Init /\ [][Next]_vars

\* The workers keep taking the rows they may take, and not every delivery of
\* the request is cut short by a crash before its commit.  Nothing is assumed
\* of the onboarding agent.
FairSpec ==
  /\ Spec
  /\ WF_vars(Outbox)
  /\ SF_vars(RecordAcceptance)

-----------------------------------------------------------------------------
(* Safety. *)

\* docs/integration/onboarding-contract.md: a demo leaves PAID for the handoff
\* only after the agent's acknowledgement or its accepted event, and is
\* converted only after both an acceptance and a processed completion, with
\* its welcome queued, in whatever order the events and the answer arrive.
ConvertedIsEarned ==
  /\ demo \in {"ONBOARDING_HANDOFF", "CONVERTED"} =>
       row["request"] = "published" \/ \E e \in Accepts : inbox[e] = "processed"
  /\ demo = "CONVERTED" =>
       row["welcome"] # "absent" /\ \E e \in Completes : inbox[e] = "processed"

\* A completed saga never becomes completable again, so that no second welcome
\* message is queued, although a late acknowledgement puts the handoff back to
\* accepted (_record_onboarding_acceptance, _complete_onboarding).
WelcomeOnce ==
  row["welcome"] # "absent" =>
    /\ demo \notin {"PAID", "ONBOARDING_HANDOFF"}
    /\ handoff \in {"accepted", "completed"}

\* The handoff, its outbox row and the agent's knowledge of it agree: they
\* start together when the activation is published, an event presupposes a
\* request that was sent, and a delivery under way has an attempt left.
HandoffConsistent ==
  /\ handoff = "none" <=> row["request"] = "absent"
  /\ handoff # "none" => row["activation"] = "published"
  /\ asked => handoff # "none"
  /\ \A e \in Events : inbox[e] # "absent" => asked
  /\ handoff = "completed" => row["welcome"] # "absent"
  /\ demo \in {"ONBOARDING_HANDOFF", "CONVERTED"} => handoff # "none"
  /\ \A k \in Kinds : row[k] = "sent" => k = "request" /\ tries[k] < MaxAttempts

\* The inductive invariant of the saga.
OnboardingInv ==
  /\ TypeOK
  /\ HandoffConsistent
  /\ ConvertedIsEarned
  /\ WelcomeOnce

-----------------------------------------------------------------------------
(* What the saga implements, and liveness. *)

Registry == INSTANCE LifecycleRegistry
              WITH Demos <- {"d"}, demo <- [d \in {"d"} |-> demo]

\* Every change of the demo's state is a transition of the registry in table.py
\* or made by a chat message, in whatever order the answer of the agent and its
\* events are recorded and however often deliveries and handlers fail.
LifecycleFollowed ==
  [][demo' # demo => Registry!Next \/ ChatUpdate \/ ChatSelection]_demo

\* A queued handoff does not wait for ever: the demo leaves PAID, unless the
\* request's attempts are used up or onboarding is switched off, whatever
\* fails and whatever a webhook does to the order's status meanwhile.
HandoffHappens ==
  handoff = "pending" ~>
    demo # "PAID" \/ tries["request"] = MaxAttempts \/ ~ enabled
=============================================================================
