------------------------------ MODULE MCPolicies ------------------------------
(***************************************************************************)
(* The policy components side by side.  A behaviour is a behaviour of one  *)
(* of them: the components share no state, so the others stand still.      *)
(***************************************************************************)
EXTENDS AdvisoryGateway, MessagePolicy, Reminders, ConversionPolicy,
        DiscountOffers, TutorMatching, DemoQuality, RegionalMonitoring,
        ObjectionExtraction, Forecasting, DriftEvaluation

VARIABLE part

vars == <<part, advisoryVars, messageVars, reminderVars, conversionVars, offerVars,
          matchingVars, qualityVars, regionalVars, evidence, forecastVars, driftVars>>

Init ==
  /\ part \in {"advisory", "message", "reminders", "attendance", "followUp", "draft",
               "offers", "matching", "quality", "scope", "alerts", "objections",
               "prediction", "evaluation", "drift"}
  /\ AdvisoryInit /\ MessageInit /\ ReminderInit /\ ConversionInit /\ OfferInit
  /\ MatchingInit /\ QualityInit /\ RegionalInit /\ ObjectionInit /\ ForecastInit
  /\ DriftInit

\* The component stands still unless the behaviour is about one of its parts.
Still(parts, v) == IF part \in parts THEN TRUE ELSE UNCHANGED v

Next ==
  /\ part' = part
  /\ \/ part = "advisory" /\ AdvisoryNext
     \/ part = "message" /\ MessageNext
     \/ part = "reminders" /\ RemindersNext
     \/ part = "attendance" /\ AttendanceNext
     \/ part = "followUp" /\ FollowUpNext
     \/ part = "draft" /\ DraftNext
     \/ part = "offers" /\ OfferNext
     \/ part = "matching" /\ MatchingNext
     \/ part = "quality" /\ QualityNext
     \/ part = "scope" /\ ScopeNext
     \/ part = "alerts" /\ AlertNext
     \/ part = "objections" /\ ObjectionNext
     \/ part = "prediction" /\ PredictionNext
     \/ part = "evaluation" /\ EvaluationNext
     \/ part = "drift" /\ DriftNext
  /\ Still({"advisory"}, advisoryVars)
  /\ Still({"message"}, messageVars)
  /\ Still({"reminders", "attendance"}, reminderVars)
  /\ Still({"followUp", "draft"}, conversionVars)
  /\ Still({"offers"}, offerVars)
  /\ Still({"matching"}, matchingVars)
  /\ Still({"quality"}, qualityVars)
  /\ Still({"scope", "alerts"}, regionalVars)
  /\ Still({"objections"}, evidence)
  /\ Still({"prediction", "evaluation"}, forecastVars)
  /\ Still({"drift"}, driftVars)

Spec == Init /\ [][Next]_vars

-----------------------------------------------------------------------------
(* Instances. *)

MCChannels == <<"whatsapp", "email">>

MCOffsetOf == [dayBefore |-> -2, atStart |-> 0]
MCAudiencesOf ==
  [dayBefore |-> {"learner_or_guardian", "tutor"}, atStart |-> {"learner_or_guardian"}]
MCActiveStatesOf ==
  [dayBefore |-> {"scheduled"}, atStart |-> {"scheduled", "confirmed"}]

MCFollowUpRules ==
  <<[outcomes |-> {"completed"}, approvals |-> {"approved"}, facts |-> {"offer", "plan"},
     class |-> "marketing", review |-> TRUE],
    [outcomes |-> {"completed"}, approvals |-> OfferApprovals, facts |-> {"plan"},
     class |-> "utility", review |-> FALSE],
    [outcomes |-> {"learner_no_show", "completed"}, approvals |-> {"none", "approved"},
     facts |-> {}, class |-> "utility", review |-> FALSE]>>

MCApprovalTiers ==
  <<[maximum |-> 500, level |-> "automatic"], [maximum |-> 9400, level |-> "finance"]>>

MCSnapshots ==
  {[offers |-> Offers, language |-> TRUE, price |-> 2, quality |-> 1, noShow |-> 1],
   [offers |-> Offers, language |-> FALSE, price |-> Unknown, quality |-> 2, noShow |-> 0],
   [offers |-> Offers \ {"board"}, language |-> TRUE, price |-> 1, quality |-> Unknown,
    noShow |-> Unknown]}
MCWeights == [language |-> 2, budget |-> 0, quality |-> 1, reliability |-> 1]

MCRubric ==
  [clarity |-> [weight |-> 1, minimum |-> 1, maximum |-> 3, required |-> TRUE],
   rapport |-> [weight |-> 2, minimum |-> 0, maximum |-> 1, required |-> FALSE],
   remarks |-> [weight |-> 0, minimum |-> 0, maximum |-> 1, required |-> FALSE]]

MCMetricValues == -2 .. 3

MCObjectionRules ==
  <<[category |-> "price", phrases |-> {"costly", "later"}, implicit |-> TRUE,
     confidence |-> 60],
    [category |-> "timing", phrases |-> {"later"}, implicit |-> FALSE, confidence |-> 60]>>

MCFeature ==
  <<[minimum |-> 0, maximum |-> 2, fallback |-> 1, coefficient |-> 4],
    [minimum |-> -1, maximum |-> 1, fallback |-> 0, coefficient |-> -2],
    [minimum |-> 0, maximum |-> 1, fallback |-> 0, coefficient |-> 2]>>

MCIntercept == -1
MCLogitFloor == -2

MCPredictionOf ==
  [d1 |-> [version |-> "v1", hour |-> 0, probability |-> 90],
   d2 |-> [version |-> "v1", hour |-> 1, probability |-> 40]]
=============================================================================
