-------------------------- MODULE LifecycleRegistry --------------------------
(***************************************************************************)
(* The demo lifecycle registry of state/transitions/table.py, taken as an  *)
(* abstract specification: the only changes a demo's state may undergo are *)
(* the registered (before, command, after) rules.  The runtime never calls *)
(* resolve_transition; the modules that move a demo are compared with this *)
(* registry through INSTANCE and a refinement mapping.                     *)
(***************************************************************************)
CONSTANT Demos              \* the demo cases

VARIABLE demo               \* demo[d]: demo_cases.state

(***************************************************************************)
(* The rules of _TRANSITIONS, one triple per _r(...) entry.                *)
(***************************************************************************)
\* From the first message to the follow-up of a demo that was held.
DemoRules ==
  { <<"NEW", "START_QUALIFICATION", "QUALIFYING">>,
    <<"QUALIFYING", "COMPLETE_QUALIFICATION", "TUTOR_MATCHING">>,
    <<"TUTOR_MATCHING", "COMPLETE_MATCHING", "TUTOR_SHORTLISTED">>,
    <<"TUTOR_SHORTLISTED", "ACCEPT_SHORTLIST", "SLOT_NEGOTIATING">>,
    <<"SLOT_NEGOTIATING", "HOLD_SLOT", "SLOT_HELD">>,
    <<"SLOT_HELD", "REQUEST_CONFIRMATIONS", "AWAITING_CONFIRMATIONS">>,
    <<"SLOT_HELD", "EXPIRE_SLOT", "SLOT_EXPIRED">>,
    <<"AWAITING_CONFIRMATIONS", "CONFIRM_ALL", "SCHEDULED">>,
    <<"SCHEDULED", "ACTIVATE_REMINDERS", "REMINDERS_ACTIVE">>,
    <<"REMINDERS_ACTIVE", "MARK_READY", "READY">>,
    <<"READY", "START_DEMO", "IN_PROGRESS">>,
    <<"IN_PROGRESS", "COMPLETE_DEMO", "COMPLETED">>,
    <<"COMPLETED", "QUEUE_ANALYSIS", "ANALYSIS_PENDING">>,
    <<"ANALYSIS_PENDING", "COMPLETE_ANALYSIS", "ANALYZED">>,
    <<"ANALYZED", "START_CONVERSION", "CONVERSION_FOLLOW_UP">> }

\* From the offer to the converted student, and the ways back to a new slot.
SaleAndRecoveryRules ==
  { <<"CONVERSION_FOLLOW_UP", "PROPOSE_OFFER", "OFFER_PENDING">>,
    <<"CONVERSION_FOLLOW_UP", "REQUEST_PAYMENT", "PAYMENT_PENDING">>,
    <<"OFFER_PENDING", "REQUEST_PAYMENT", "PAYMENT_PENDING">>,
    <<"PAYMENT_PENDING", "VERIFY_PAYMENT", "PAID">>,
    <<"PAYMENT_PENDING", "REPORT_PAYMENT_FAILURE", "PAYMENT_FAILED">>,
    <<"PAYMENT_PENDING", "EXPIRE_PAYMENT", "PAYMENT_EXPIRED">>,
    <<"PAYMENT_PENDING", "REVIEW_PAYMENT", "PAYMENT_REVIEW">>,
    <<"PAYMENT_FAILED", "RETRY_PAYMENT", "PAYMENT_PENDING">>,
    <<"PAYMENT_EXPIRED", "RETRY_PAYMENT", "PAYMENT_PENDING">>,
    <<"PAYMENT_REVIEW", "VERIFY_PAYMENT", "PAID">>,
    <<"PAID", "HANDOFF_ONBOARDING", "ONBOARDING_HANDOFF">>,
    <<"ONBOARDING_HANDOFF", "COMPLETE_ONBOARDING", "CONVERTED">>,
    <<"SCHEDULED", "REQUEST_RESCHEDULE", "RESCHEDULE_REQUESTED">>,
    <<"REMINDERS_ACTIVE", "REQUEST_RESCHEDULE", "RESCHEDULE_REQUESTED">>,
    <<"RESCHEDULE_REQUESTED", "REOPEN_NEGOTIATION", "SLOT_NEGOTIATING">>,
    <<"SLOT_EXPIRED", "REOPEN_NEGOTIATION", "SLOT_NEGOTIATING">>,
    <<"READY", "REPORT_USER_NO_SHOW", "NO_SHOW_USER">>,
    <<"READY", "REPORT_TUTOR_NO_SHOW", "NO_SHOW_TUTOR">>,
    <<"IN_PROGRESS", "REPORT_TECHNICAL_FAILURE", "TECHNICAL_FAILURE">>,
    <<"NO_SHOW_USER", "REQUEST_RESCHEDULE", "RESCHEDULE_REQUESTED">>,
    <<"NO_SHOW_TUTOR", "REQUEST_RESCHEDULE", "RESCHEDULE_REQUESTED">>,
    <<"TECHNICAL_FAILURE", "REQUEST_RESCHEDULE", "RESCHEDULE_REQUESTED">> }

TerminalStates ==
  {"CONVERTED", "CANCELLED_BY_USER", "CANCELLED_BY_TUTOR", "HUMAN_HANDOFF",
   "FAILED"}

\* The states of DemoState.
States ==
  {"NEW", "QUALIFYING", "TUTOR_MATCHING", "TUTOR_SHORTLISTED",
   "SLOT_NEGOTIATING", "SLOT_HELD", "AWAITING_CONFIRMATIONS", "SCHEDULED",
   "REMINDERS_ACTIVE", "READY", "IN_PROGRESS", "COMPLETED", "ANALYSIS_PENDING",
   "ANALYZED", "CONVERSION_FOLLOW_UP", "OFFER_PENDING", "PAYMENT_PENDING",
   "PAID", "ONBOARDING_HANDOFF", "RESCHEDULE_REQUESTED", "SLOT_EXPIRED",
   "NO_SHOW_USER", "NO_SHOW_TUTOR", "TECHNICAL_FAILURE", "PAYMENT_FAILED",
   "PAYMENT_EXPIRED", "PAYMENT_REVIEW"} \cup TerminalStates

Cancellable ==
  {"QUALIFYING", "TUTOR_MATCHING", "TUTOR_SHORTLISTED", "SLOT_NEGOTIATING",
   "SLOT_HELD", "AWAITING_CONFIRMATIONS", "SCHEDULED", "REMINDERS_ACTIVE",
   "READY", "RESCHEDULE_REQUESTED", "SLOT_EXPIRED", "NO_SHOW_USER",
   "NO_SHOW_TUTOR", "TECHNICAL_FAILURE"}

\* _ALL_TRANSITIONS: the path, and the cancel, escalate and fail families.
AllRules ==
  DemoRules \cup SaleAndRecoveryRules
    \cup {<<s, "CANCEL_BY_USER", "CANCELLED_BY_USER">> : s \in Cancellable}
    \cup {<<s, "CANCEL_BY_TUTOR", "CANCELLED_BY_TUTOR">> : s \in Cancellable}
    \cup {<<s, "ESCALATE_HUMAN", "HUMAN_HANDOFF">> :
            s \in States \ TerminalStates}
    \cup {<<s, "FAIL", "FAILED">> : s \in States \ TerminalStates}

-----------------------------------------------------------------------------
Init == demo \in [Demos -> States]

\* resolve_transition: a command takes demo d along its registered rule.
Resolve(d) ==
  \E t \in AllRules :
    /\ t[1] = demo[d]
    /\ demo' = [demo EXCEPT ![d] = t[3]]

Next == \E d \in Demos : Resolve(d)

Spec == Init /\ [][Next]_demo
=============================================================================
