------------------------------- MODULE Reminders -------------------------------
(***************************************************************************)
(* reminders/domain/policy.py over the life of one demo's session: the     *)
(* reminders planned for it while it is rescheduled and its case moves, and *)
(* the no-show decision while attendance signals arrive.  The scheduler    *)
(* that stores the plans and the senders of signals are external.          *)
(***************************************************************************)
EXTENDS Integers, FiniteSets

CONSTANTS RuleIds,
          OffsetOf,        \* relative_to_start of a rule
          AudiencesOf,     \* audiences of a rule
          ActiveStatesOf,  \* active_case_states of a rule
          RiskRuleIds,     \* rules for sessions at risk only
          RiskThreshold,
          CaseStates,      \* case states the session goes through
          SessionStarts,   \* starts a session may be given
          MinimumSignals,  \* minimum_independent_signals
          DecisionDelay,
          MaxReminderTime, \* bound of the clock
          MaxVersion       \* bound of the session's version

\* The values ReminderPolicy accepts, and those of the model's bounds.
ReminderPolicyValid ==
  /\ OffsetOf \in [RuleIds -> Int]
  /\ RiskRuleIds \subseteq RuleIds
  /\ SessionStarts \subseteq Nat /\ SessionStarts # {}
  /\ RiskThreshold \in Nat /\ DecisionDelay \in Nat
  /\ MinimumSignals \in Nat \ {0}
  /\ {MaxReminderTime, MaxVersion} \subseteq Nat

ASSUME ReminderAssumption == ReminderPolicyValid

VARIABLES
  remNow,
  session,    \* version and start of the demo's session
  caseState,
  plans,      \* ReminderPlans handed to the scheduler so far
  signals     \* AttendanceSignals about the session

reminderVars == <<remNow, session, caseState, plans, signals>>

Audiences == {"learner_or_guardian", "tutor"}

AboutLearner ==
  {"learner_confirmed_absent", "tutor_confirmed_learner_absent",
   "consented_attendance_learner_missing"}
AboutTutor ==
  {"tutor_confirmed_absent", "learner_confirmed_tutor_absent",
   "consented_attendance_tutor_missing"}
Signals == AboutLearner \cup AboutTutor \cup {"technical_incident", "outcome_disputed"}

ReminderInit ==
  /\ remNow = 0
  /\ session = [version |-> 1, start |-> CHOOSE s \in SessionStarts : TRUE]
  /\ caseState = CHOOSE s \in CaseStates : TRUE
  /\ plans = {}
  /\ signals = {}

-----------------------------------------------------------------------------
\* Mutation: the key leaves out the session's version.
ReminderKeyUnversioned(rule, audience) == <<rule, audience>>

\* The material of reminder_key; the demo and the policy's version are fixed.
ReminderKey(rule, audience) == <<session.version, rule, audience>>

\* The rules that apply to the session now.
Applicable(audience, risk) ==
  {rule \in RuleIds :
     /\ audience \in AudiencesOf[rule]
     /\ caseState \in ActiveStatesOf[rule]
     /\ rule \in RiskRuleIds => risk >= RiskThreshold
     /\ session.start + OffsetOf[rule] >= remNow}

\* plan_reminders, called with the session as it is now.
PlanReminders ==
  /\ \E audience \in Audiences, risk \in {RiskThreshold - 1, RiskThreshold} :
       plans' = plans \cup
         {[key |-> ReminderKey(rule, audience), rule |-> rule, audience |-> audience,
           runAt |-> session.start + OffsetOf[rule], version |-> session.version] :
            rule \in Applicable(audience, risk)}
  /\ UNCHANGED <<remNow, session, caseState, signals>>

\* Mutation: the session's version is not compared.
ReminderIsCurrentAny(plan) == caseState \in ActiveStatesOf[plan.rule]

\* reminder_is_current, asked with the plan's own rule.
ReminderIsCurrent(plan) ==
  /\ plan.version = session.version
  /\ caseState \in ActiveStatesOf[plan.rule]

\* Mutation: the side with more signals is blamed.
NoShowMajority(now, start, known) ==
  LET learner == Cardinality(known \cap AboutLearner)
      tutor == Cardinality(known \cap AboutTutor) IN
  IF "outcome_disputed" \in known THEN "disputed"
  ELSE IF "technical_incident" \in known THEN "technical_failure"
  ELSE IF now < start + DecisionDelay THEN "present_or_unknown"
  ELSE IF learner >= MinimumSignals /\ learner > tutor THEN "learner_no_show"
  ELSE IF tutor >= MinimumSignals /\ tutor > learner THEN "tutor_no_show"
  ELSE "present_or_unknown"

\* determine_no_show.
NoShow(now, start, known) ==
  LET learner == Cardinality(known \cap AboutLearner) >= MinimumSignals
      tutor == Cardinality(known \cap AboutTutor) >= MinimumSignals IN
  IF "outcome_disputed" \in known THEN "disputed"
  ELSE IF "technical_incident" \in known THEN "technical_failure"
  ELSE IF now < start + DecisionDelay THEN "present_or_unknown"
  ELSE IF learner /\ tutor THEN "disputed"
  ELSE IF learner THEN "learner_no_show"
  ELSE IF tutor THEN "tutor_no_show"
  ELSE "present_or_unknown"

Outcome == NoShow(remNow, session.start, signals)

-----------------------------------------------------------------------------
(* What happens to the session (external). *)

\* The session gets a new start, and with it a new version.
Reschedule ==
  /\ session.version < MaxVersion
  /\ \E s \in SessionStarts :
       session' = [version |-> session.version + 1, start |-> s]
  /\ signals' = {}
  /\ UNCHANGED <<remNow, caseState, plans>>

CaseMoves ==
  /\ \E s \in CaseStates : s # caseState /\ caseState' = s
  /\ UNCHANGED <<remNow, session, plans, signals>>

SignalArrives ==
  /\ \E s \in Signals \ signals : signals' = signals \cup {s}
  /\ UNCHANGED <<remNow, session, caseState, plans>>

ReminderTick ==
  /\ remNow < MaxReminderTime
  /\ remNow' = remNow + 1
  /\ UNCHANGED <<session, caseState, plans, signals>>

\* Until the session is held, and from then on.
RemindersNext == PlanReminders \/ Reschedule \/ CaseMoves \/ ReminderTick
AttendanceNext == SignalArrives \/ Reschedule \/ ReminderTick

ReminderSpec == ReminderInit /\ [][RemindersNext \/ AttendanceNext]_reminderVars

-----------------------------------------------------------------------------
\* The scheduler may use the key to tell reminders apart: planning again gives
\* a reminder the key it had, and no other reminder, of whichever version of
\* the session, has that key.
KeysIdentify ==
  \A a, b \in plans : a.key = b.key <=> a = b

\* However often the session was rescheduled and its case moved, at most one
\* reminder of a rule to an audience is current, and it is for the session's
\* present start.
CurrentIsUnique ==
  \A a, b \in {p \in plans : ReminderIsCurrent(p)} :
    /\ a.rule = b.rule /\ a.audience = b.audience => a = b
    /\ a.runAt = session.start + OffsetOf[a.rule]

\* A step about one session keeps a no-show or sends it to review.
KeepsBlame ==
  /\ session' = session
  /\ Outcome \in {"learner_no_show", "tutor_no_show"}
  => Outcome' \in {Outcome, "disputed", "technical_failure"}

\* A no-show is never turned from one side to the other, or taken back, by
\* more signals or later decisions about the same session: the case goes
\* to review first (disputed, technical_failure).
BlameKept == [][KeepsBlame]_reminderVars

\* What the reminders promise while the session moves and signals arrive: keys
\* name one reminder each, a single reminder is current, and a no-show stays
\* with its side (plan_reminders, reminder_is_current, determine_no_show).
ReminderContract == [](KeysIdentify /\ CurrentIsUnique) /\ BlameKept
=============================================================================
