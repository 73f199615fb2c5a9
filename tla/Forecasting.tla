----------------------------- MODULE Forecasting -----------------------------
(***************************************************************************)
(* success_forecasting/domain/scoring.py: the prediction for a demo as its *)
(* features are observed, and the evaluation of labelled predictions.      *)
(* The logistic function grows with the logit, so the bands are stated on  *)
(* the bounded logit; contributions are whole numbers because a feature's  *)
(* range divides its coefficient.                                          *)
(***************************************************************************)
EXTENDS Integers, Sequences, FiniteSets, FiniteSetsExt, Functions, TLC

CONSTANTS FeatureCount,
          Feature,          \* minimum, maximum, fallback, coefficient by number
          Intercept, LogitFloor, LogitCeiling,
          LowerLogit, UpperLogit,   \* where the thresholds lie
          Penalty,          \* missing_feature_confidence_penalty, per cent
          MaximumReasons,
          MaxForecastTime,  \* bound of the clock
          Probabilities, MinimumSampleSize, MaximumBrier, MinimumAuc,  \* per cent
          MaxLabelled       \* bound of the samples

Features == 1 .. FeatureCount

\* The values ForecastModel accepts, and those of the model's bounds.
ForecastModelValid ==
  /\ FeatureCount \in Nat /\ MaxForecastTime \in Nat
  /\ \A f \in Features :
       /\ {Feature[f].minimum, Feature[f].maximum} \subseteq Int
       /\ Feature[f].minimum < Feature[f].maximum
       /\ Feature[f].fallback \in Feature[f].minimum .. Feature[f].maximum
       /\ Feature[f].coefficient % (Feature[f].maximum - Feature[f].minimum) = 0
  /\ LogitFloor < LogitCeiling /\ LowerLogit < UpperLogit
  /\ MaximumReasons \in Nat \ {0} /\ MinimumSampleSize \in Nat \ {0}
  /\ Probabilities \cup {Penalty, MaximumBrier, MinimumAuc} \subseteq 0 .. 100

ASSUME ForecastAssumption == ForecastModelValid

VARIABLES
  forecastNow,
  feature,     \* FeatureObservation of each feature, Unobserved without one
  past,        \* the band predicted at the end of each earlier moment
  labelled     \* sequence of LabeledPredictions

forecastVars == <<forecastNow, feature, past, labelled>>

Unobserved == [value |-> 0, at |-> -1]

ForecastInit ==
  /\ forecastNow = 0
  /\ feature = [f \in Features |-> Unobserved]
  /\ past = <<>>
  /\ labelled = <<>>

-----------------------------------------------------------------------------
(* predict_conversion *)

Missing == {f \in Features : feature[f] = Unobserved}

\* Mutation: late observations are used.
PredictableAlways(at) == TRUE

\* Observations after the feature timestamp are an error.
Predictable(at) == \A f \in Features : feature[f].at <= at

\* Mutation: a missing feature contributes nothing.
ContributionOfKnown(f) ==
  IF f \in Missing THEN 0
  ELSE (feature[f].value - Feature[f].minimum)
         * (Feature[f].coefficient \div (Feature[f].maximum - Feature[f].minimum))

\* The normalized value, or the fallback's, times the coefficient.
Contribution(f) ==
  ((IF f \in Missing THEN Feature[f].fallback ELSE feature[f].value) - Feature[f].minimum)
    * (Feature[f].coefficient \div (Feature[f].maximum - Feature[f].minimum))

Contributions == [f \in Features |-> Contribution(f)]

BoundedLogit ==
  Min({Max({Intercept + SumFunction(Contributions), LogitFloor}), LogitCeiling})

Band ==
  IF BoundedLogit < LowerLogit THEN "lower"
  ELSE IF BoundedLogit >= UpperLogit THEN "upper" ELSE "middle"

\* In parts of 100 * FeatureCount.
Confidence == 100 * FeatureCount - Cardinality(Missing) * Penalty

Size(n) == IF n < 0 THEN - n ELSE n

\* The largest contributions, then by reason code, zeros left out at the end.
LargestFirst(contribution) ==
  LET larger(f, g) == \/ Size(contribution[f]) > Size(contribution[g])
                      \/ Size(contribution[f]) = Size(contribution[g]) /\ f < g
      sorted == SortSeq([f \in Features |-> f], larger) IN
  SelectSeq(SubSeq(sorted, 1, Min({MaximumReasons, FeatureCount})),
            LAMBDA f : contribution[f] # 0)

ReasonCodes == LargestFirst(Contributions)

Observe ==
  /\ \E f \in Features : \E v \in Feature[f].minimum .. Feature[f].maximum :
       feature' = [feature EXCEPT ![f] = [value |-> v, at |-> forecastNow]]
  /\ UNCHANGED <<forecastNow, past, labelled>>

ForecastTick ==
  /\ forecastNow < MaxForecastTime
  /\ forecastNow' = forecastNow + 1
  /\ past' = Append(past, Band)
  /\ UNCHANGED <<feature, labelled>>

-----------------------------------------------------------------------------
(* evaluate_forecast and time_aware_split *)

Converted == {i \in DOMAIN labelled : labelled[i].converted}
NotConverted == DOMAIN labelled \ Converted

\* Mutation: a tie is a win.
HalfWinsTied(i, j) == IF labelled[i].probability >= labelled[j].probability THEN 2 ELSE 0

\* Mutation: a tie is a loss.
HalfWinsStrict(i, j) == IF labelled[i].probability > labelled[j].probability THEN 2 ELSE 0

\* What a pair adds to the wins, in halves.
HalfWins(i, j) ==
  IF labelled[i].probability > labelled[j].probability THEN 2
  ELSE IF labelled[i].probability = labelled[j].probability THEN 1 ELSE 0

\* The wins of _roc_auc; the area is undefined when one class is empty.
AucHalfWins == MapThenSumSet(LAMBDA p : HalfWins(p[1], p[2]), Converted \X NotConverted)
AucDefined == Converted # {} /\ NotConverted # {}

SquaredError(i) ==
  (labelled[i].probability - (IF labelled[i].converted THEN 100 ELSE 0)) ^ 2

\* evaluate_forecast: the reason.
EvaluateForecast ==
  IF Len(labelled) < MinimumSampleSize THEN "insufficient_sample"
  ELSE IF /\ MapThenSumSet(SquaredError, DOMAIN labelled)
               <= MaximumBrier * 100 * Len(labelled)
          /\ AucDefined
          /\ AucHalfWins * 100
               >= MinimumAuc * 2 * Cardinality(Converted) * Cardinality(NotConverted)
    THEN "promotion_thresholds_met"
  ELSE "promotion_thresholds_not_met"

\* Mutation: the validation cutoff itself is in no part.
SplitGap(training, validation) ==
  <<{i \in DOMAIN labelled : labelled[i].predictedAt < training},
    {i \in DOMAIN labelled : /\ training <= labelled[i].predictedAt
                             /\ labelled[i].predictedAt < validation},
    {i \in DOMAIN labelled : labelled[i].predictedAt > validation}>>

\* time_aware_split for training < validation, without the order within the
\* parts.
Split(training, validation) ==
  <<{i \in DOMAIN labelled : labelled[i].predictedAt < training},
    {i \in DOMAIN labelled : /\ training <= labelled[i].predictedAt
                             /\ labelled[i].predictedAt < validation},
    {i \in DOMAIN labelled : labelled[i].predictedAt >= validation}>>

\* A label arrives for a prediction made now or earlier.
Label ==
  /\ Len(labelled) < MaxLabelled
  /\ \E p \in Probabilities, c \in BOOLEAN, t \in 0 .. forecastNow :
       labelled' = Append(labelled, [probability |-> p, converted |-> c,
                                     predictedAt |-> t, labelledAt |-> forecastNow])
  /\ UNCHANGED <<forecastNow, feature, past>>

PredictionNext == Observe \/ ForecastTick
EvaluationNext == Label \/ ForecastTick

ForecastSpec == ForecastInit /\ [][PredictionNext \/ EvaluationNext]_forecastVars

-----------------------------------------------------------------------------
\* A feature that is first observed at its fallback value changes neither the
\* band nor the reasons of the prediction, only its confidence, which grows
\* (predict_conversion).
FallbackStep ==
  \A f \in Missing \ Missing' :
    feature'[f].value = Feature[f].fallback =>
      /\ Band' = Band /\ ReasonCodes' = ReasonCodes
      /\ BoundedLogit' = BoundedLogit
      /\ Penalty > 0 => Confidence' > Confidence

\* Every first observation at the fallback value is neutral.
FallbackNeutral == [][FallbackStep]_forecastVars

\* A prediction for an earlier feature timestamp is what was predicted then:
\* no observation made or corrected later leaks into it, because the prediction
\* is an error instead (predict_conversion).
NoHindsight ==
  \A t \in DOMAIN past : Predictable(t - 1) => Band = past[t]

\* The rank of a sample among all, in halves, ties sharing their mean rank.
HalfRank(i) ==
  2 * Cardinality({j \in DOMAIN labelled : labelled[j].probability < labelled[i].probability})
    + Cardinality({j \in DOMAIN labelled : labelled[j].probability = labelled[i].probability})
    + 1

\* The pairwise count of _roc_auc is the rank-sum statistic, with ties at half.
AucIsRankSum ==
  AucHalfWins = MapThenSumSet(HalfRank, Converted)
                  - Cardinality(Converted) * (Cardinality(Converted) + 1)

\* A model is promoted only if demos of both kinds were predicted, and never
\* when it tells none of them apart and better than even is asked for.
PromotionEarned ==
  EvaluateForecast = "promotion_thresholds_met" =>
    /\ Len(labelled) >= MinimumSampleSize
    /\ Converted # {} /\ NotConverted # {}
    /\ MinimumAuc > 50 =>
         \E i \in Converted, j \in NotConverted :
           labelled[i].probability > labelled[j].probability

\* time_aware_split uses each sample once: no sample at a cutoff is lost or
\* tested on after it was trained on, and all training predictions are older
\* than all tested ones.
SplitPartitions ==
  \A t, v \in 0 .. forecastNow + 1 :
    t < v =>
      LET parts == Split(t, v) IN
      /\ parts[1] \cup parts[2] \cup parts[3] = DOMAIN labelled
      /\ \A m, n \in 1 .. 3 : m < n =>
           \A i \in parts[m], j \in parts[n] :
             labelled[i].predictedAt < labelled[j].predictedAt

\* What the forecasts promise while features are observed and labels collected:
\* no hindsight, fallbacks that are neutral, and an evaluation that counts ties
\* at half, promotes on evidence only and uses each sample in one part
\* (predict_conversion, evaluate_forecast, time_aware_split).
ForecastContract ==
  /\ [](NoHindsight /\ AucIsRankSum /\ PromotionEarned /\ SplitPartitions)
  /\ FallbackNeutral
=============================================================================
