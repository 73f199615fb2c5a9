------------------------- MODULE OnboardingSagaProofs -------------------------
(***************************************************************************)
(* OnboardingInv is an inductive invariant of the onboarding saga, for any *)
(* number of events of the onboarding agent and any attempt limit.         *)
(***************************************************************************)
EXTENDS OnboardingSaga, TLAPS

USE OnboardingAssumption DEF vars

\* Counting an attempt of a selected outbox row keeps the counter in its type.
LEMMA FailedDeliveryStep ==
  ASSUME OnboardingInv, NEW k \in Kinds, DeliveryFailed(k),
         row[k] # "absent", tries[k] < MaxAttempts
  PROVE  /\ row' \in [Kinds -> {"absent", "ready", "sent", "published"}]
         /\ tries' \in [Kinds -> 0 .. MaxAttempts]
         /\ \A j \in Kinds : row'[j] = "absent" <=> row[j] = "absent"
         /\ \A j \in Kinds : row'[j] = "published" =>
                               row[j] = "published" /\ j # k
         /\ \A j \in Kinds : row[j] = "published" /\ j # k => row'[j] = "published"
         /\ \A j \in Kinds : row'[j] = "sent" => j = "request" /\ tries'[j] < MaxAttempts
  BY DEF OnboardingInv, TypeOK, DeliveryFailed, HandoffConsistent, Kinds

\* Every step keeps the invariant.
LEMMA OnboardingStep == OnboardingInv /\ [Next]_vars => OnboardingInv'
<1> SUFFICES ASSUME OnboardingInv, [Next]_vars
             PROVE  OnboardingInv'
  OBVIOUS
<1> USE DEF OnboardingInv
<1>1. CASE PublishActivation
  <2>1. CASE enabled /\ handoff = "none" /\ demo = "PAID"
    <3>1. TypeOK'
      BY <1>1, <2>1 DEF PublishActivation, QueueOnboarding, TypeOK, Kinds
    <3>2. HandoffConsistent' /\ ConvertedIsEarned' /\ WelcomeOnce'
      BY <1>1, <2>1 DEF PublishActivation, QueueOnboarding, TypeOK, Kinds,
                        HandoffConsistent, ConvertedIsEarned, WelcomeOnce
    <3>3. QED BY <3>1, <3>2
  <2>2. CASE enabled /\ handoff = "none" /\ demo # "PAID"
    <3>1. /\ DeliveryFailed("activation") /\ Publishable("activation")
          /\ UNCHANGED <<demo, handoff, orderPaid, asked, inbox, inTries, enabled>>
      BY <1>1, <2>2 DEF PublishActivation
    <3>2. "activation" \in Kinds /\ row["activation"] # "absent"
          /\ tries["activation"] < MaxAttempts
      BY <3>1 DEF Publishable, Kinds
    <3>3. TypeOK'
      BY <3>1, <3>2, FailedDeliveryStep DEF TypeOK
    <3>4. HandoffConsistent' /\ ConvertedIsEarned' /\ WelcomeOnce'
      BY <2>2, <3>1, <3>2, FailedDeliveryStep
      DEF Kinds, HandoffConsistent, ConvertedIsEarned, WelcomeOnce
    <3>5. QED BY <3>3, <3>4
  <2>3. CASE /\ row' = [row EXCEPT !["activation"] = "published"]
             /\ UNCHANGED <<handoff, tries>>
    <3>1. TypeOK'
      BY <1>1, <2>3 DEF PublishActivation, TypeOK, Kinds
    <3>2. HandoffConsistent' /\ ConvertedIsEarned' /\ WelcomeOnce'
      BY <1>1, <2>3 DEF PublishActivation, TypeOK, Kinds,
                        HandoffConsistent, ConvertedIsEarned, WelcomeOnce
    <3>3. QED BY <3>1, <3>2
  <2>4. QED BY <1>1, <2>1, <2>2, <2>3 DEF PublishActivation
<1>2. CASE SendRequest
  <2>1. TypeOK'
    BY <1>2 DEF SendRequest, TypeOK, Kinds
  <2>2. HandoffConsistent' /\ ConvertedIsEarned' /\ WelcomeOnce'
    BY <1>2 DEF SendRequest, Publishable, TypeOK, Kinds, HandoffConsistent,
                ConvertedIsEarned, WelcomeOnce
  <2>3. QED BY <2>1, <2>2
<1>3. CASE RecordAcceptance
  <2>1. CASE demo = "ONBOARDING_HANDOFF" \/ Handoffable
    <3>1. TypeOK'
      BY <1>3, <2>1 DEF RecordAcceptance, TypeOK, Kinds
    <3>2. HandoffConsistent' /\ ConvertedIsEarned' /\ WelcomeOnce'
      BY <1>3, <2>1 DEF RecordAcceptance, Handoffable, TypeOK, Kinds,
                        HandoffConsistent, ConvertedIsEarned, WelcomeOnce
    <3>3. QED BY <3>1, <3>2
  <2>2. CASE demo # "ONBOARDING_HANDOFF" /\ ~ Handoffable
    <3>1. /\ DeliveryFailed("request") /\ row["request"] = "sent"
          /\ handoff' = "accepted"
          /\ UNCHANGED <<demo, orderPaid, asked, inbox, inTries, enabled>>
      BY <1>3, <2>2 DEF RecordAcceptance
    <3>2. "request" \in Kinds /\ tries["request"] < MaxAttempts
      BY <3>1 DEF HandoffConsistent, Kinds
    <3>3. TypeOK'
      BY <3>1, <3>2, FailedDeliveryStep DEF TypeOK
    <3>4. HandoffConsistent' /\ ConvertedIsEarned' /\ WelcomeOnce'
      BY <2>2, <3>1, <3>2, FailedDeliveryStep
      DEF Kinds, HandoffConsistent, ConvertedIsEarned, WelcomeOnce
    <3>5. QED BY <3>3, <3>4
  <2>3. QED BY <2>1, <2>2
<1>4. CASE PublishWelcome
  <2>1. TypeOK'
    BY <1>4 DEF PublishWelcome, TypeOK, Kinds
  <2>2. HandoffConsistent' /\ ConvertedIsEarned' /\ WelcomeOnce'
    BY <1>4 DEF PublishWelcome, Publishable, TypeOK, Kinds, HandoffConsistent,
                ConvertedIsEarned, WelcomeOnce
  <2>3. QED BY <2>1, <2>2
<1>5. ASSUME NEW k \in Kinds, DeliveryFault(k)
      PROVE  OnboardingInv'
  <2>1. row[k] # "absent" /\ row[k] # "published" /\ tries[k] < MaxAttempts
    BY <1>5 DEF DeliveryFault, Publishable, HandoffConsistent
  <2>2. DeliveryFailed(k)
        /\ UNCHANGED <<demo, orderPaid, handoff, asked, inbox, inTries, enabled>>
    BY <1>5 DEF DeliveryFault
  <2>3. TypeOK'
    BY <2>1, <2>2, FailedDeliveryStep DEF TypeOK
  <2>4. HandoffConsistent' /\ ConvertedIsEarned' /\ WelcomeOnce'
    BY <2>1, <2>2, FailedDeliveryStep
    DEF Kinds, HandoffConsistent, ConvertedIsEarned, WelcomeOnce
  <2>5. QED BY <2>3, <2>4
<1>6. CASE PublisherCrash
  <2>1. TypeOK'
    BY <1>6 DEF PublisherCrash, TypeOK, Kinds
  <2>2. HandoffConsistent' /\ ConvertedIsEarned' /\ WelcomeOnce'
    BY <1>6 DEF PublisherCrash, TypeOK, Kinds, HandoffConsistent,
                ConvertedIsEarned, WelcomeOnce
  <2>3. QED BY <2>1, <2>2
<1>7. CASE Redeploy
  <2>1. TypeOK'
    BY <1>7 DEF Redeploy, TypeOK, Kinds
  <2>2. HandoffConsistent' /\ ConvertedIsEarned' /\ WelcomeOnce'
    BY <1>7 DEF Redeploy, TypeOK, Kinds, HandoffConsistent, ConvertedIsEarned,
                WelcomeOnce
  <2>3. QED BY <2>1, <2>2
<1>8. ASSUME NEW e \in Events, AgentAnswers(e)
      PROVE  OnboardingInv'
  <2>1. TypeOK'
    BY <1>8 DEF AgentAnswers, TypeOK
  <2>2. \A f \in Events : inbox[f] = "processed" <=> inbox'[f] = "processed"
    BY <1>8 DEF AgentAnswers, TypeOK
  <2>3. HandoffConsistent' /\ ConvertedIsEarned' /\ WelcomeOnce'
    BY <1>8, <2>2 DEF AgentAnswers, TypeOK, Events, HandoffConsistent,
                      ConvertedIsEarned, WelcomeOnce
  <2>4. QED BY <2>1, <2>3
<1>9. ASSUME NEW e \in Accepts, AcceptOnboarding(e)
      PROVE  OnboardingInv'
  <2>1. /\ e \in Events
        /\ inTries[e] < MaxAttempts
        /\ inbox[e] # "absent"
        /\ demo = "ONBOARDING_HANDOFF" \/ demo = "PAID"
        /\ handoff # "none"
    BY <1>9 DEF AcceptOnboarding, Processable, Acceptable, Events
  <2>2. TypeOK'
    BY <1>9, <2>1 DEF AcceptOnboarding, Processed, TypeOK
  <2>3. \A f \in Events :
          inbox'[f] = IF f = e THEN "processed" ELSE inbox[f]
    BY <1>9, <2>1 DEF AcceptOnboarding, Processed, TypeOK
  <2>4. HandoffConsistent' /\ ConvertedIsEarned' /\ WelcomeOnce'
    BY <1>9, <2>1, <2>3 DEF AcceptOnboarding, Events, HandoffConsistent,
                            ConvertedIsEarned, WelcomeOnce
  <2>5. QED BY <2>2, <2>4
<1>10. ASSUME NEW e \in Completes, CompleteOnboarding(e)
       PROVE  OnboardingInv'
  <2>1. /\ e \in Events
        /\ inTries[e] < MaxAttempts
        /\ inbox[e] # "absent"
        /\ demo = "ONBOARDING_HANDOFF" /\ handoff = "accepted"
    BY <1>10 DEF CompleteOnboarding, Processable, Completable, Events
  <2>2. TypeOK'
    BY <1>10, <2>1 DEF CompleteOnboarding, Processed, TypeOK, Kinds
  <2>3. \A f \in Events :
          inbox'[f] = IF f = e THEN "processed" ELSE inbox[f]
    BY <1>10, <2>1 DEF CompleteOnboarding, Processed, TypeOK
  <2>4. /\ row'["welcome"] = "ready"
        /\ row'["request"] = row["request"]
        /\ row'["activation"] = row["activation"]
    BY <1>10 DEF CompleteOnboarding, TypeOK, Kinds
  <2>5. HandoffConsistent' /\ ConvertedIsEarned' /\ WelcomeOnce'
    BY <1>10, <2>1, <2>3, <2>4
    DEF CompleteOnboarding, Events, Kinds, HandoffConsistent,
        ConvertedIsEarned, WelcomeOnce
  <2>6. QED BY <2>2, <2>5
<1>11. ASSUME NEW e \in Completes, RepeatCompletion(e)
       PROVE  OnboardingInv'
  <2>1. /\ e \in Events
        /\ inTries[e] < MaxAttempts
        /\ inbox[e] # "absent"
    BY <1>11 DEF RepeatCompletion, Processable, Events
  <2>2. TypeOK'
    BY <1>11, <2>1 DEF RepeatCompletion, Processed, TypeOK
  <2>3. \A f \in Events :
          inbox'[f] = IF f = e THEN "processed" ELSE inbox[f]
    BY <1>11, <2>1 DEF RepeatCompletion, Processed, TypeOK
  <2>4. HandoffConsistent' /\ ConvertedIsEarned' /\ WelcomeOnce'
    BY <1>11, <2>1, <2>3 DEF RepeatCompletion, Events, HandoffConsistent,
                             ConvertedIsEarned, WelcomeOnce
  <2>5. QED BY <2>2, <2>4
<1>12. ASSUME NEW e \in Events, EventFailed(e)
       PROVE  OnboardingInv'
  <2>1. TypeOK'
    BY <1>12 DEF EventFailed, Processable, TypeOK
  <2>2. HandoffConsistent' /\ ConvertedIsEarned' /\ WelcomeOnce'
    BY <1>12 DEF EventFailed, HandoffConsistent, ConvertedIsEarned, WelcomeOnce
  <2>3. QED BY <2>1, <2>2
<1>13. CASE OrderOverwritten
  BY <1>13 DEF OrderOverwritten, TypeOK, HandoffConsistent, ConvertedIsEarned,
               WelcomeOnce
<1>14. CASE ChatUpdate \/ ChatSelection
  BY <1>14 DEF ChatUpdate, ChatSelection, ChatStates, TypeOK, HandoffConsistent,
               ConvertedIsEarned, WelcomeOnce
<1>15. CASE UNCHANGED vars
  BY <1>15 DEF TypeOK, HandoffConsistent, ConvertedIsEarned, WelcomeOnce
<1>16. ASSUME NEW e \in Events, Inbox(e)
       PROVE  OnboardingInv'
  BY <1>9, <1>10, <1>11, <1>12, <1>16 DEF Inbox, RejectAcceptance, RejectCompletion
<1>17. CASE Outbox
  BY <1>1, <1>2, <1>3, <1>4, <1>17 DEF Outbox
<1>18. CASE Faults
  BY <1>5, <1>6, <1>7, <1>12, <1>18 DEF Faults
<1>19. CASE CalmNext
  BY <1>8, <1>13, <1>16, <1>17, <1>19 DEF CalmNext
<1>20. QED
  BY <1>14, <1>15, <1>18, <1>19 DEF Next

\* The state after the paid transition satisfies the invariant.
LEMMA OnboardingInit == Init => OnboardingInv
<1> SUFFICES ASSUME Init PROVE OnboardingInv
  OBVIOUS
<1>1. TypeOK
  <2>1. /\ row \in [Kinds -> {"absent", "ready", "sent", "published"}]
        /\ tries \in [Kinds -> 0 .. MaxAttempts]
        /\ inbox \in [Events -> {"absent", "queued", "processed"}]
        /\ inTries \in [Events -> 0 .. MaxAttempts]
    BY DEF Init
  <2>2. demo = "PAID" /\ handoff = "none"
    BY DEF Init
  <2>3. orderPaid \in BOOLEAN /\ asked \in BOOLEAN /\ enabled \in BOOLEAN
    BY Zenon DEF Init
  <2>4. QED BY <2>1, <2>2, <2>3 DEF TypeOK
<1>2. /\ row["activation"] = "ready"
      /\ row["request"] = "absent"
      /\ row["welcome"] = "absent"
      /\ \A k \in Kinds : row[k] # "sent"
      /\ \A e \in Events : inbox[e] = "absent"
  BY DEF Init, Kinds
<1>3. HandoffConsistent
  BY <1>2 DEF Init, HandoffConsistent
<1>4. ConvertedIsEarned /\ WelcomeOnce
  BY <1>2 DEF Init, ConvertedIsEarned, WelcomeOnce
<1>5. QED BY <1>1, <1>3, <1>4 DEF OnboardingInv

\* OnboardingInv holds in every reachable state.
THEOREM OnboardingInvariant == Spec => []OnboardingInv
  BY OnboardingInit, OnboardingStep, PTL DEF Spec

\* A demo is handed off and converted only on the agent's own evidence, in
\* whatever order its answers and its events are recorded.
THEOREM ConversionEarned == Spec => []ConvertedIsEarned
  BY OnboardingInvariant, PTL DEF OnboardingInv

\* A completed saga never becomes completable again: one welcome message.
THEOREM SingleWelcome == Spec => []WelcomeOnce
  BY OnboardingInvariant, PTL DEF OnboardingInv

\* Every variable keeps its type, so no row and no event is tried too often.
THEOREM OnboardingTyped == Spec => []TypeOK
  BY OnboardingInvariant, PTL DEF OnboardingInv

\* The handoff, its outbox rows and the events about it agree, whatever was
\* retried, lost or delivered late.
THEOREM HandoffAgrees == Spec => []HandoffConsistent
  BY OnboardingInvariant, PTL DEF OnboardingInv

-----------------------------------------------------------------------------
(* The lifecycle registry.  No step of the saga consults it. *)

\* The rules of the registry that the saga uses, as steps of it.
LEMMA OnboardingRules ==
  ASSUME \/ demo = "PAID" /\ demo' = "ONBOARDING_HANDOFF"
         \/ demo = "ONBOARDING_HANDOFF" /\ demo' = "CONVERTED"
  PROVE  Registry!Next
<1> DEFINE state == [d \in {"d"} |-> demo]
<1>1. /\ <<"PAID", "HANDOFF_ONBOARDING", "ONBOARDING_HANDOFF">> \in Registry!AllRules
      /\ <<"ONBOARDING_HANDOFF", "COMPLETE_ONBOARDING", "CONVERTED">>
           \in Registry!AllRules
  BY DEF Registry!AllRules, Registry!SaleAndRecoveryRules
<1>2. PICK t \in Registry!AllRules : demo = t[1] /\ demo' = t[3]
  BY <1>1
<1>3. state["d"] = t[1] /\ state' = [state EXCEPT !["d"] = t[3]]
  BY <1>2
<1> QED BY <1>2, <1>3 DEF Registry!Next, Registry!Resolve

\* The demo moves along a rule of the registry or by a chat message.
LEMMA LifecycleStep ==
  ASSUME [Next]_vars, demo' # demo
  PROVE  Registry!Next \/ ChatUpdate \/ ChatSelection
<1>1. CASE RecordAcceptance
  BY <1>1, OnboardingRules DEF RecordAcceptance, Handoffable
<1>2. ASSUME NEW e \in Events, AcceptOnboarding(e) PROVE Registry!Next
  BY <1>2, OnboardingRules DEF AcceptOnboarding, Acceptable
<1>3. ASSUME NEW e \in Events, CompleteOnboarding(e) PROVE Registry!Next
  BY <1>3, OnboardingRules DEF CompleteOnboarding, Completable
<1>4. ASSUME \/ PublishActivation \/ SendRequest \/ PublishWelcome
             \/ OrderOverwritten \/ PublisherCrash \/ Redeploy
             \/ \E k \in Kinds : DeliveryFault(k)
      PROVE  FALSE
  BY <1>4 DEF PublishActivation, SendRequest, PublishWelcome, OrderOverwritten,
              PublisherCrash, Redeploy, DeliveryFault
<1>5. ASSUME NEW e \in Events,
             \/ AgentAnswers(e) \/ RejectAcceptance(e) \/ RepeatCompletion(e)
             \/ RejectCompletion(e) \/ EventFailed(e)
      PROVE  FALSE
  BY <1>5 DEF AgentAnswers, RejectAcceptance, RepeatCompletion,
              RejectCompletion, EventFailed
<1> QED
  BY <1>1, <1>2, <1>3, <1>4, <1>5 DEF Next, CalmNext, Faults, Outbox, Inbox, Events

\* Every change of the demo's state follows a rule of the registry in table.py
\* or is a chat message's, in whatever order answers and events are recorded.
THEOREM LifecycleKept == Spec => LifecycleFollowed
<1>1. [Next]_vars
        => [demo' # demo => Registry!Next \/ ChatUpdate \/ ChatSelection]_demo
  BY LifecycleStep
<1> QED BY <1>1, PTL DEF Spec, LifecycleFollowed
=============================================================================
