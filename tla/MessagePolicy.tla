----------------------------- MODULE MessagePolicy -----------------------------
(***************************************************************************)
(* communications/domain/message_policy.py: whether a message may be sent  *)
(* to a recipient, on which channel and not before when.  Time is a count  *)
(* of ticks, DayLength of them to a day, in a zone of fixed offset; local  *)
(* clocks that are set forward or back are not modelled.                   *)
(***************************************************************************)
EXTENDS Integers, Sequences

CONSTANTS DayLength, ZoneOffset,
          MaxMessageTime,      \* bound of the clock
          PreferredChannels,   \* sequence, the recipient's order
          AllowedAfterOptOut,  \* message classes
          TemplateRequired,    \* whatsapp_template_required_outside_window
          MaximumCost

\* The values MessagePolicy accepts, and those of the model's bounds.
MessagePolicyValid ==
  /\ DayLength \in Nat \ {0}
  /\ {ZoneOffset, MaxMessageTime, MaximumCost} \subseteq Nat
  /\ PreferredChannels # <<>>
  /\ TemplateRequired \in BOOLEAN

ASSUME MessageAssumption == MessagePolicyValid

VARIABLES
  msgNow,
  quiet,        \* quiet hours of the recipient's preference
  optedOut,     \* opted_out_at is set
  msgDecision   \* the last MessageDecision and what it was asked for

messageVars == <<msgNow, quiet, optedOut, msgDecision>>

Channels == {"whatsapp", "email"}
MessageClasses == {"marketing", "utility", "transactional"}
LocalTimes == 0 .. DayLength - 1
QuietHours == [starts : LocalTimes, ends : LocalTimes]

Requests ==
  [class : MessageClasses, available : SUBSET Channels, template : BOOLEAN,
   window : BOOLEAN, cost : -1 .. MaximumCost + 1]

NoMessage == [at |-> 0, reason |-> "none"]

MessageInit ==
  /\ msgNow = 0
  /\ quiet = [starts |-> 0, ends |-> 0]
  /\ optedOut = FALSE
  /\ msgDecision = NoMessage

-----------------------------------------------------------------------------
LocalTime(t) == (t + ZoneOffset) % DayLength
LocalDate(t) == (t + ZoneOffset) \div DayLength

\* QuietHours.contains: half-open, may span midnight, empty when equal.
Within(hours, time) ==
  /\ hours.starts # hours.ends
  /\ IF hours.starts < hours.ends
     THEN hours.starts <= time /\ time < hours.ends
     ELSE time >= hours.starts \/ time < hours.ends

\* Mutation: the day is advanced whenever the quiet hours span midnight.
AfterQuietHoursNextDay(now, hours) ==
  IF ~ Within(hours, LocalTime(now)) THEN now
  ELSE LET date == IF hours.starts > hours.ends THEN LocalDate(now) + 1 ELSE LocalDate(now)
       IN  date * DayLength + hours.ends - ZoneOffset

\* _after_quiet_hours.
AfterQuietHours(now, hours) ==
  IF ~ Within(hours, LocalTime(now)) THEN now
  ELSE LET spans == hours.starts > hours.ends /\ LocalTime(now) >= hours.starts
           date == IF spans THEN LocalDate(now) + 1 ELSE LocalDate(now)
       IN  date * DayLength + hours.ends - ZoneOffset

\* The first channel of the recipient's order that is available.
Usable(request) == SelectSeq(PreferredChannels, LAMBDA c : c \in request.available)

\* The reason of evaluate_message, tests in its order.
Reason(request) ==
  IF optedOut /\ request.class \notin AllowedAfterOptOut THEN "recipient_opted_out"
  ELSE IF request.cost < 0 \/ request.cost > MaximumCost THEN "cost_limit_exceeded"
  ELSE IF Usable(request) = <<>> THEN "no_permitted_channel"
  ELSE IF /\ Head(Usable(request)) = "whatsapp"
          /\ ~ request.window /\ TemplateRequired /\ ~ request.template
    THEN "approved_template_required"
  ELSE "permitted"

\* evaluate_message.
EvaluateMessage(request) ==
  msgDecision' =
    [at |-> msgNow, quiet |-> quiet, reason |-> Reason(request),
     channel |-> IF Reason(request) = "permitted" THEN Head(Usable(request)) ELSE "none",
     notBefore |-> IF Reason(request) = "permitted" THEN AfterQuietHours(msgNow, quiet)
                   ELSE msgNow]

Evaluate ==
  /\ \E request \in Requests : EvaluateMessage(request)
  /\ UNCHANGED <<msgNow, quiet, optedOut>>

\* record_opt_out on a text that is an opt-out keyword; other texts change
\* nothing.
RecordOptOut ==
  /\ optedOut' = TRUE
  /\ UNCHANGED <<msgNow, quiet, msgDecision>>

MessageTick ==
  /\ msgNow < MaxMessageTime
  /\ msgNow' = msgNow + 1
  /\ msgDecision' = NoMessage
  /\ UNCHANGED <<quiet, optedOut>>

\* The recipient states other quiet hours (external).
PreferenceChanges ==
  /\ \E hours \in QuietHours : quiet' = hours
  /\ msgDecision' = NoMessage
  /\ UNCHANGED <<msgNow, optedOut>>

MessageNext == Evaluate \/ RecordOptOut \/ MessageTick \/ PreferenceChanges

MessageSpec == MessageInit /\ [][MessageNext]_messageVars

-----------------------------------------------------------------------------
\* A permitted message waits for the first moment that is not quiet, no longer
\* and no shorter, whether or not the quiet hours span the recipient's midnight
\* and on which side of it the message is evaluated.
QuietRespected ==
  msgDecision.reason = "permitted" =>
    LET at == msgDecision.at
        then == msgDecision.notBefore
        hours == msgDecision.quiet IN
    /\ then >= at
    /\ ~ Within(hours, LocalTime(then))
    /\ \A t \in at .. then - 1 : Within(hours, LocalTime(t))
=============================================================================
