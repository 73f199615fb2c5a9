----------------------------- MODULE DemoQuality -----------------------------
(***************************************************************************)
(* demo_core/domain/quality.py: the demos of a region, assessed again as   *)
(* observations of them arrive, overridden by a reviewer, and aggregated.  *)
(* Scores are counted in parts of 1 / Fine, a common multiple of all       *)
(* denominators, so that the divisions are exact.                          *)
(***************************************************************************)
EXTENDS Integers, FiniteSets, FiniteSetsExt

CONSTANTS RegionDemos,
          Components,          \* component_ids of the rubric
          Rubric,              \* weight, minimum, maximum and required of each
          Fine,
          MinimumCohort,       \* minimum_aggregate_cohort
          FlaggedDemos         \* demos with a flag of blocking_flags

\* The values QualityRubric accepts, and those of the model's bounds.
QualityRubricValid ==
  /\ \A c \in Components :
       Rubric[c].weight \in Nat /\ Rubric[c].minimum < Rubric[c].maximum
  /\ \E c \in Components : Rubric[c].weight > 0
  /\ {Fine, MinimumCohort} \subseteq Nat \ {0}
  /\ FlaggedDemos \subseteq RegionDemos

ASSUME QualityAssumption == QualityRubricValid

VARIABLES
  observed,  \* value of a component of a demo, NotMeasured when there is none
  override   \* override_score of a demo, NotMeasured when there is none

qualityVars == <<observed, override>>

NotMeasured == -1

QualityInit ==
  /\ observed = [d \in RegionDemos |-> [c \in Components |-> NotMeasured]]
  /\ override = [d \in RegionDemos |-> NotMeasured]

-----------------------------------------------------------------------------
Measured(d) == {c \in Components : observed[d][c] # NotMeasured}

Normalized(d, c) ==
  ((observed[d][c] - Rubric[c].minimum) * Fine) \div (Rubric[c].maximum - Rubric[c].minimum)

TotalWeight(components) == MapThenSumSet(LAMBDA c : Rubric[c].weight, components)

\* Mutation: what is not measured counts as zero.
MeasuredWeightTotal(d) == TotalWeight(Components)

MeasuredWeight(d) == TotalWeight(Measured(d))

\* The score of assess_quality, NotMeasured for None.
AssessedScore(d) ==
  IF MeasuredWeight(d) = 0 THEN NotMeasured
  ELSE MapThenSumSet(LAMBDA c : Normalized(d, c) * Rubric[c].weight, Measured(d))
         \div MeasuredWeight(d)

\* requires_human_review of assess_quality.
RequiresReview(d) ==
  \/ d \in FlaggedDemos
  \/ \E c \in Components : Rubric[c].required /\ c \notin Measured(d)

\* Mutation: the override is tested for truth, so that zero is none.
EffectiveScoreTruthy(d) == IF override[d] > 0 THEN override[d] ELSE AssessedScore(d)

\* The score aggregate_region takes of a demo.
EffectiveScore(d) == IF override[d] # NotMeasured THEN override[d] ELSE AssessedScore(d)

\* aggregate_region: the sum of the scores and their number; the mean is
\* suppressed when they are too few.
Aggregate ==
  LET cohort == {d \in RegionDemos : EffectiveScore(d) # NotMeasured} IN
  [size |-> Cardinality(cohort),
   suppressed |-> Cardinality(cohort) < MinimumCohort,
   sum |-> IF Cardinality(cohort) < MinimumCohort THEN NotMeasured
           ELSE MapThenSumSet(EffectiveScore, cohort)]

-----------------------------------------------------------------------------
\* An observation arrives, is corrected or withdrawn, and the demo is assessed
\* again; values outside the rubric's bounds are an error.  assess_quality
\* returns an assessment without an override.
AssessQuality(d) ==
  /\ \E c \in Components : \E v \in Rubric[c].minimum .. Rubric[c].maximum \cup {NotMeasured} :
       observed' = [observed EXCEPT ![d][c] = v]
  /\ override' = [override EXCEPT ![d] = NotMeasured]

\* override_assessment by an authorized reviewer with a reason; the other
\* calls are errors.
OverrideAssessment(d) ==
  /\ \E s \in {0, Fine \div 2, Fine} : override' = [override EXCEPT ![d] = s]
  /\ UNCHANGED observed

QualityNext == \E d \in RegionDemos : AssessQuality(d) \/ OverrideAssessment(d)

-----------------------------------------------------------------------------
\* A component that is measured for the first time moves the score of its demo
\* towards its own value and never past it: components without observation
\* neither help nor hurt, and those of weight zero change nothing.  It never
\* makes a review necessary (assess_quality).
ObservationPulls ==
  [][ \A d \in RegionDemos : \A c \in Components :
        LET before == AssessedScore(d)
            after == AssessedScore(d)'
            value == Normalized(d, c)' IN
        Measured(d)' = Measured(d) \cup {c} /\ c \notin Measured(d) =>
          /\ before = NotMeasured /\ Rubric[c].weight > 0 => after = value
          /\ before # NotMeasured =>
               IF before <= value THEN before <= after /\ after <= value
               ELSE value <= after /\ after <= before
          /\ Rubric[c].weight = 0 => after = before
          /\ RequiresReview(d)' => RequiresReview(d) ]_qualityVars

\* The mean of a region lies between the lowest and the highest of its demos,
\* where a reviewer's score, zero included, stands for the assessed one and a
\* demo without a score counts neither as a zero nor towards the cohort
\* (aggregate_region).
MeanWithin ==
  ~ Aggregate.suppressed =>
    LET scores == {IF override[d] # NotMeasured THEN override[d] ELSE AssessedScore(d) :
                     d \in RegionDemos} \ {NotMeasured} IN
    /\ Aggregate.size >= MinimumCohort
    /\ Min(scores) * Aggregate.size <= Aggregate.sum
    /\ Aggregate.sum <= Max(scores) * Aggregate.size

\* What the scores promise while observations and overrides come in: a region's
\* mean lies between its demos' scores, and an observation pulls its demo's score
\* towards itself (assess_quality, aggregate_region).
QualityContract == []MeanWithin /\ ObservationPulls
=============================================================================
