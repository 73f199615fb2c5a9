--------------------------- MODULE DriftEvaluation ---------------------------
(***************************************************************************)
(* cli/evaluate_drift.py: runs of the scheduled evaluation that overlap or *)
(* repeat within an hour, while outcomes of demos are settled and models   *)
(* promoted.  A run is one transaction that selects the model, then the    *)
(* samples, then looks for a stored evaluation of the hour; its insert     *)
(* meets the unique constraint on (subject_version, window_end).           *)
(* Probabilities are per cent.  The latest outcome of a demo is one value: *)
(* two outcomes of the same moment are not modelled.                       *)
(***************************************************************************)
EXTENDS Integers, Sequences, FiniteSets, FiniteSetsExt

CONSTANTS DriftRuns,
          Versions,        \* model versions, the fallback's among them
          Predicted,       \* demos with a ConversionPrediction
          PredictionOf,    \* version, feature hour and probability of each
          WindowHours, MinimumSamples,
          BrierThreshold, CalibrationThreshold,   \* per cent
          MaxHour          \* bound of the clock

\* What evaluate_forecasting_drift accepts, and the model's bounds.
DriftSettingsValid ==
  /\ Versions # {}
  /\ \A d \in Predicted :
       PredictionOf[d].version \in Versions /\ PredictionOf[d].probability \in 0 .. 100
  /\ {WindowHours, MinimumSamples, BrierThreshold, CalibrationThreshold} \subseteq Nat \ {0}
  /\ MaxHour \in Nat

ASSUME DriftAssumption == DriftSettingsValid

VARIABLES
  hour,         \* the present hour
  active,       \* version of the model promoted last
  outcome,      \* the latest outcome of a demo
  evaluations,  \* model_evaluations: key, sample size and status
  evaluated,    \* audit events of evaluations, in the order of the chain
  driftRun      \* what a run has read

driftVars == <<hour, active, outcome, evaluations, evaluated, driftRun>>

Outcomes == {"open", "positive", "negative", "disputed"}
NoRun == [step |-> "idle"]

DriftInit ==
  /\ hour = 1
  /\ active = CHOOSE v \in Versions : TRUE
  /\ outcome = [d \in Predicted |-> "open"]
  /\ evaluations = {}
  /\ evaluated = <<>>
  /\ driftRun = [r \in DriftRuns |-> NoRun]

-----------------------------------------------------------------------------
\* The rows selected: predictions of the version within the window whose
\* latest outcome is settled.
Sampled(version, ends) ==
  {d \in Predicted :
     /\ PredictionOf[d].version = version
     /\ ends - WindowHours <= PredictionOf[d].hour /\ PredictionOf[d].hour < ends
     /\ outcome[d] \in {"positive", "negative"}}

LabelOf(d) == IF outcome[d] = "positive" THEN 100 ELSE 0

\* brier_score > brier_threshold and calibration_error > its threshold,
\* multiplied by the sample size.
BrierBreached(rows) ==
  MapThenSumSet(LAMBDA d : (PredictionOf[d].probability - LabelOf(d)) ^ 2, rows)
    > BrierThreshold * 100 * Cardinality(rows)
CalibrationBreached(rows) ==
  LET gap == MapThenSumSet(LAMBDA d : PredictionOf[d].probability - LabelOf(d), rows) IN
  Max({gap, - gap}) > CalibrationThreshold * Cardinality(rows)

DriftStatus(rows) ==
  IF Cardinality(rows) < MinimumSamples THEN "insufficient_data"
  ELSE IF BrierBreached(rows) \/ CalibrationBreached(rows) THEN "breach" ELSE "passed"

Key(run) == <<run.version, run.ends>>
Stored(key) == \E e \in evaluations : e.key = key

-----------------------------------------------------------------------------
\* effective_now is the present hour; the latest promoted model is selected.
StartRun(r) ==
  /\ driftRun[r] = NoRun
  /\ driftRun' = [driftRun EXCEPT ![r] = [step |-> "model", version |-> active, ends |-> hour]]
  /\ UNCHANGED <<hour, active, outcome, evaluations, evaluated>>

\* The samples are selected and judged.
SelectSamples(r) ==
  LET run == driftRun[r] IN
  /\ run.step = "model"
  /\ LET rows == Sampled(run.version, run.ends) IN
     driftRun' = [driftRun EXCEPT ![r] =
       [step |-> "judged", version |-> run.version, ends |-> run.ends,
        size |-> Cardinality(rows), status |-> DriftStatus(rows)]]
  /\ UNCHANGED <<hour, active, outcome, evaluations, evaluated>>

\* The stored evaluation of the hour is looked up.
LookUp(r) ==
  LET run == driftRun[r] IN
  /\ run.step = "judged"
  /\ driftRun' = [driftRun EXCEPT ![r] =
       [step |-> "looked", version |-> run.version, ends |-> run.ends, size |-> run.size,
        status |-> run.status, insert |-> ~ Stored(Key(run))]]
  /\ UNCHANGED <<hour, active, outcome, evaluations, evaluated>>

\* Mutation: the table has no unique constraint.
UniqueWindowNone(run) == TRUE

\* uq_model_evaluation_window lets the transaction commit.
UniqueWindow(run) == run.insert => ~ Stored(Key(run))

Judgement(run) == [key |-> Key(run), size |-> run.size, status |-> run.status]

\* The row, if it was missing, and the audit event, in one commit.
CommitRun(r) ==
  LET run == driftRun[r] IN
  /\ run.step = "looked"
  /\ UniqueWindow(run)
  /\ evaluations' = IF run.insert THEN evaluations \cup {Judgement(run)} ELSE evaluations
  /\ evaluated' = Append(evaluated, Judgement(run))
  /\ driftRun' = [driftRun EXCEPT ![r] = [step |-> "done"]]
  /\ UNCHANGED <<hour, active, outcome>>

\* The unique constraint, or the loss of the connection, ends the transaction:
\* neither is written.  The task is not repeated before the next schedule.
RunFails(r) ==
  /\ driftRun[r].step \in {"model", "judged", "looked"}
  /\ driftRun' = [driftRun EXCEPT ![r] = [step |-> "done"]]
  /\ UNCHANGED <<hour, active, outcome, evaluations, evaluated>>

\* An outcome is settled, revised or disputed (external).
OutcomeSettled ==
  /\ \E d \in Predicted, o \in Outcomes \ {"open"} :
       o # outcome[d] /\ outcome' = [outcome EXCEPT ![d] = o]
  /\ UNCHANGED <<hour, active, evaluations, evaluated, driftRun>>

\* Another model is promoted (external).
Promote ==
  /\ \E v \in Versions \ {active} : active' = v
  /\ UNCHANGED <<hour, outcome, evaluations, evaluated, driftRun>>

NextHour ==
  /\ hour < MaxHour
  /\ hour' = hour + 1
  /\ UNCHANGED <<active, outcome, evaluations, evaluated, driftRun>>

DriftNext ==
  \/ \E r \in DriftRuns :
       StartRun(r) \/ SelectSamples(r) \/ LookUp(r) \/ CommitRun(r) \/ RunFails(r)
  \/ OutcomeSettled \/ Promote \/ NextHour

DriftSpec == DriftInit /\ [][DriftNext]_driftVars

-----------------------------------------------------------------------------
\* However runs overlap, fail and repeat, an hour's evaluation of a version is
\* stored once, it is the one its first audit event reports, and an audit event
\* never reports an hour without a stored evaluation.  A later run of the same
\* hour may report another status than the one stored.
EvaluationAudited ==
  /\ \A e, f \in evaluations : e.key = f.key => e = f
  /\ \A e \in evaluations :
       \E i \in DOMAIN evaluated :
         evaluated[i] = e /\ \A j \in 1 .. i - 1 : evaluated[j].key # e.key
  /\ \A i \in DOMAIN evaluated : Stored(evaluated[i].key)
=============================================================================
