---------------------------- MODULE DemoScheduling ----------------------------
(***************************************************************************)
(* The scheduling of demos with one tutor: the policy operators of         *)
(* modules/scheduling/domain/policy.py, and the tutor-first coordinator of *)
(* modules/scheduling/application/use_cases.py with the Google calendar    *)
(* gateway.  Several demos compete for the tutor's time.  A caller (it is  *)
(* not in the repository; the unit tests stand in for it) proposes slots,  *)
(* holds one, collects the answers, asks for the decision and, if it is    *)
(* ready, finalizes, again with the same idempotency key when a run fails. *)
(***************************************************************************)
EXTENDS Integers, Sequences, FiniteSets

CONSTANTS Demos,
          Starts,           \* candidate_starts
          Availability,     \* pairs: the tutor is free from .. to
          Duration,         \* session_duration
          BufferBefore, BufferAfter,
          HoldTtl, ConfirmationTtl,
          MinimumLeadTime,
          MaximumOptions,
          RequiredConfirmations,  \* required_confirmations
          MaxTime,          \* bound of the clock
          MaxHolds,         \* bound of the holds a demo takes
          MaxRuns           \* bound of the finalize runs of a demo

Participants == {"learner", "tutor"}

\* What SchedulingPolicy.__post_init__ demands.
PolicyIsValid ==
  /\ {Duration, HoldTtl, ConfirmationTtl, MaximumOptions} \subseteq Nat \ {0}
  /\ {BufferBefore, BufferAfter, MinimumLeadTime} \subseteq Nat
  /\ RequiredConfirmations # {} /\ RequiredConfirmations \subseteq Participants

ASSUME SchedulingAssumption ==
  /\ PolicyIsValid
  /\ Starts \subseteq Nat
  /\ IsFiniteSet(Starts)
  /\ Availability \subseteq Nat \X Nat
  /\ {MaxTime, MaxHolds, MaxRuns} \subseteq Nat

VARIABLES
  clock,
  offered,   \* the slots proposed for a demo that it may still take
  seen,      \* number of entries of book when they were proposed
  hold,      \* its current hold; no: its entry in book, 0: none
  holds,     \* number of holds it has taken
  answer,    \* the ConfirmationStatus of each participant for that hold
  decision,  \* the reason of its last ConfirmationDecision
  stage,     \* where its finalize run is
  meeting,   \* the calendar event of that run, as an entry of book
  runs,      \* number of finalize runs
  status,    \* status of the last ScheduledMeetingResult
  link,      \* the event whose link a participant was sent, 0: none (external)
  broken,    \* events whose run failed before both links were sent
  book       \* holds taken and calendar events made, in their order

holdVars == <<hold, holds, answer>>
runVars == <<stage, meeting, runs, status, link, broken>>
schedulingVars == <<clock, offered, seen, holdVars, decision, runVars, book>>

HoldStatuses == {"none", "active", "released", "expired"}
Reasons ==
  {"none", "participant_declined", "confirmation_expired",
   "confirmation_outstanding", "all_required_confirmed"}

\* seen: what the proposal of the slot knew; uri: the event has a Meet link.
Entries ==
  [demo : Demos, kind : {"hold", "event"}, start : Starts, seen : Nat,
   uri : BOOLEAN]

\* Every variable has its type, and no more slots are offered than allowed.
SchedulingTypeOK ==
  /\ clock \in 0 .. MaxTime
  /\ offered \in [Demos -> SUBSET Starts]
  /\ \A d \in Demos : Cardinality(offered[d]) <= MaximumOptions
  /\ seen \in [Demos -> Nat]
  /\ hold \in [Demos -> [status : HoldStatuses, start : Starts \cup {0},
                         at : 0 .. MaxTime, no : Nat]]
  /\ holds \in [Demos -> 0 .. MaxHolds]
  /\ answer \in [Demos -> [Participants -> {"pending", "confirmed", "declined"}]]
  /\ decision \in [Demos -> Reasons]
  /\ stage \in [Demos -> {"idle", "resolved", "created", "tutor_sent"}]
  /\ meeting \in [Demos -> Nat]
  /\ runs \in [Demos -> 0 .. MaxRuns]
  /\ status \in [Demos -> {"none", "conference_pending", "scheduled"}]
  /\ link \in [Demos -> [Participants -> Nat]]
  /\ broken \in [Demos -> SUBSET Nat]
  /\ book \in Seq(Entries)

NoHold == [status |-> "none", start |-> 0, at |-> 0, no |-> 0]
Unanswered == [p \in Participants |-> "pending"]
NoLink == [p \in Participants |-> 0]

SchedulingInit ==
  /\ clock = 0
  /\ offered = [d \in Demos |-> {}]
  /\ seen = [d \in Demos |-> 0]
  /\ hold = [d \in Demos |-> NoHold]
  /\ holds = [d \in Demos |-> 0]
  /\ answer = [d \in Demos |-> Unanswered]
  /\ decision = [d \in Demos |-> "none"]
  /\ stage = [d \in Demos |-> "idle"]
  /\ meeting = [d \in Demos |-> 0]
  /\ runs = [d \in Demos |-> 0]
  /\ status = [d \in Demos |-> "none"]
  /\ link = [d \in Demos |-> NoLink]
  /\ broken = [d \in Demos |-> {}]
  /\ book = <<>>

-----------------------------------------------------------------------------
(* The scheduling policy. *)

\* TimeWindow.overlaps: windows are half-open.
Overlaps(v, w) == v[1] < w[2] /\ w[1] < v[2]

Slot(s) == <<s, s + Duration>>
Protected(s) == <<s - BufferBefore, s + Duration + BufferAfter>>

\* Mutation: the slot itself, not the protected window, is compared.
ProposableBare(s, busy) ==
  /\ s >= clock + MinimumLeadTime
  /\ \E w \in Availability : w[1] <= s /\ s + Duration <= w[2]
  /\ \A b \in busy : ~ Overlaps(Slot(s), b)

\* A candidate start that propose_slots does not skip.
Proposable(s, busy) ==
  /\ s >= clock + MinimumLeadTime
  /\ \E w \in Availability : w[1] <= s /\ s + Duration <= w[2]
  /\ \A b \in busy : ~ Overlaps(Protected(s), b)

\* Mutation: the loop ends one option too late.
ProposeSlotsMore(busy) ==
  {s \in Starts :
     /\ Proposable(s, busy)
     /\ Cardinality({t \in Starts : t < s /\ Proposable(t, busy)}) <= MaximumOptions}

\* propose_slots: the first maximum_options starts it does not skip.
ProposeSlots(busy) ==
  {s \in Starts :
     /\ Proposable(s, busy)
     /\ Cardinality({t \in Starts : t < s /\ Proposable(t, busy)}) < MaximumOptions}

\* hold_is_active.
HoldIsActive(d) == hold[d].status = "active" /\ clock < hold[d].at + HoldTtl

\* Mutation: the answers are looked at before the age of the hold.
EvaluateConfirmationsLate(d) ==
  LET active == HoldIsActive(d) /\ clock < hold[d].at + ConfirmationTtl IN
  IF \E p \in RequiredConfirmations : answer[d][p] = "declined"
    THEN "participant_declined"
  ELSE IF \A p \in RequiredConfirmations : answer[d][p] = "confirmed"
    THEN "all_required_confirmed"
  ELSE IF ~ active THEN "confirmation_expired"
  ELSE "confirmation_outstanding"

\* evaluate_confirmations.
EvaluateConfirmations(d) ==
  LET active == HoldIsActive(d) /\ clock < hold[d].at + ConfirmationTtl IN
  IF \E p \in RequiredConfirmations : answer[d][p] = "declined"
    THEN "participant_declined"
  ELSE IF ~ active THEN "confirmation_expired"
  ELSE IF \E p \in RequiredConfirmations : answer[d][p] # "confirmed"
    THEN "confirmation_outstanding"
  ELSE "all_required_confirmed"

-----------------------------------------------------------------------------
(* The caller's use of the policy. *)

\* External: what the caller passes as busy, the tutor's calendar and the holds
\* that are active.
Busy ==
  {Slot(book[i].start) : i \in {j \in DOMAIN book : book[j].kind = "event"}}
    \cup {Slot(hold[d].start) : d \in {e \in Demos : HoldIsActive(e)}}

\* Slots are proposed to a demo that has no hold.
Propose(d) ==
  /\ hold[d].status # "active"
  /\ stage[d] = "idle"
  /\ status[d] # "scheduled"
  /\ holds[d] < MaxHolds
  /\ offered' = [offered EXCEPT ![d] = ProposeSlots(Busy)]
  /\ seen' = [seen EXCEPT ![d] = Len(book)]
  /\ UNCHANGED <<clock, holdVars, decision, runVars, book>>

\* Mutation: there is no unique index.
FreeAlways(s) == TRUE

\* uq_slot_hold_active_tutor_start: unique among the rows with status active.
Free(s) == \A e \in Demos : hold[e].status = "active" => hold[e].start # s

\* create_hold.  The offered slots may be old by now; the caller takes a new
\* hold neither during a finalize run nor for a demo that is scheduled.
CreateHold(d) ==
  \E s \in offered[d] :
    /\ Free(s)
    /\ stage[d] = "idle" /\ status[d] # "scheduled"
    /\ hold' = [hold EXCEPT ![d] = [status |-> "active", start |-> s, at |-> clock,
                                    no |-> Len(book) + 1]]
    /\ holds' = [holds EXCEPT ![d] = @ + 1]
    /\ answer' = [answer EXCEPT ![d] = Unanswered]
    /\ decision' = [decision EXCEPT ![d] = "none"]
    /\ link' = [link EXCEPT ![d] = NoLink]
    /\ offered' = [offered EXCEPT ![d] = {}]
    /\ book' = Append(book, [demo |-> d, kind |-> "hold", start |-> s,
                             seen |-> seen[d], uri |-> FALSE])
    /\ seen' = [seen EXCEPT ![d] = 0]
    /\ UNCHANGED <<clock, stage, meeting, runs, status, broken>>

\* expire_hold.
ExpireHold(d) ==
  /\ hold[d].status = "active"
  /\ clock >= hold[d].at + HoldTtl
  /\ hold' = [hold EXCEPT ![d].status = "expired"]
  /\ UNCHANGED <<clock, offered, seen, holds, answer, decision, runVars, book>>

\* release_hold.
ReleaseHold(d) ==
  /\ hold[d].status = "active"
  /\ stage[d] = "idle"
  /\ hold' = [hold EXCEPT ![d].status = "released"]
  /\ UNCHANGED <<clock, offered, seen, holds, answer, decision, runVars, book>>

\* External: a participant that was asked answers, in time or late, or changes
\* its mind; once the decision is ready nobody reads the answers any more.
Reply(d, p, a) ==
  /\ hold[d].status # "none"
  /\ decision[d] # "all_required_confirmed"
  /\ answer[d][p] # a
  /\ answer' = [answer EXCEPT ![d][p] = a]
  /\ UNCHANGED <<clock, offered, seen, hold, holds, decision, runVars, book>>

\* SchedulingDecisionService.confirm.
Confirm(d) ==
  /\ hold[d].status # "none"
  /\ decision[d] # "all_required_confirmed"
  /\ decision' = [decision EXCEPT ![d] = EvaluateConfirmations(d)]
  /\ UNCHANGED <<clock, offered, seen, holdVars, runVars, book>>

-----------------------------------------------------------------------------
(* finalize_after_tutor_acceptance. *)

\* The tutor's acceptance is required, and both recipients are resolved.
Begin(d) ==
  /\ decision[d] = "all_required_confirmed"
  /\ answer[d]["tutor"] = "confirmed"
  /\ stage[d] = "idle"
  /\ status[d] # "scheduled"
  /\ runs[d] < MaxRuns
  /\ runs' = [runs EXCEPT ![d] = @ + 1]
  /\ stage' = [stage EXCEPT ![d] = "resolved"]
  /\ UNCHANGED <<clock, offered, seen, holdVars, decision, meeting, status, link,
                 broken, book>>

\* create_demo_event inserts a new event, whatever the demo already has; its
\* Meet link may be pending, and then the run is over.
CreateEvent(d) ==
  /\ stage[d] = "resolved"
  /\ \E uri \in BOOLEAN :
       /\ book' = Append(book, [demo |-> d, kind |-> "event", start |-> hold[d].start,
                                seen |-> book[hold[d].no].seen, uri |-> uri])
       /\ \/ /\ uri
             /\ stage' = [stage EXCEPT ![d] = "created"]
             /\ meeting' = [meeting EXCEPT ![d] = Len(book) + 1]
             /\ UNCHANGED status
          \/ /\ ~ uri
             /\ stage' = [stage EXCEPT ![d] = "idle"]
             /\ status' = [status EXCEPT ![d] = "conference_pending"]
             /\ UNCHANGED meeting
  /\ UNCHANGED <<clock, offered, seen, holdVars, decision, runs, link, broken>>

\* The message gateway delivers once per key; the key of a link message is made
\* from the conference request id and so the same in every run for a hold.
Delivered(d, p) ==
  [link EXCEPT ![d][p] = IF @ = 0 THEN meeting[d] ELSE @]

\* Mutation: the learner's message is sent first.
FirstRecipientSwapped == "learner"

\* The tutor's message goes out first.
FirstRecipient == "tutor"

SendFirst(d) ==
  /\ stage[d] = "created"
  /\ link' = Delivered(d, FirstRecipient)
  /\ stage' = [stage EXCEPT ![d] = "tutor_sent"]
  /\ UNCHANGED <<clock, offered, seen, holdVars, decision, meeting, runs, status,
                 broken, book>>

SendSecond(d) ==
  /\ stage[d] = "tutor_sent"
  /\ \E p \in Participants \ {FirstRecipient} : link' = Delivered(d, p)
  /\ stage' = [stage EXCEPT ![d] = "idle"]
  /\ meeting' = [meeting EXCEPT ![d] = 0]
  /\ status' = [status EXCEPT ![d] = "scheduled"]
  /\ UNCHANGED <<clock, offered, seen, holdVars, decision, runs, broken, book>>

\* A call of the run raises, or the process dies: a call that is done stays
\* done, the run is over.
FinalizeFails(d) ==
  /\ stage[d] # "idle"
  /\ stage' = [stage EXCEPT ![d] = "idle"]
  /\ meeting' = [meeting EXCEPT ![d] = 0]
  /\ broken' = [broken EXCEPT ![d] = IF meeting[d] = 0 THEN @ ELSE @ \cup {meeting[d]}]
  /\ UNCHANGED <<clock, offered, seen, holdVars, decision, runs, status, link, book>>

\* External: time passes.
Tick ==
  /\ clock < MaxTime
  /\ clock' = clock + 1
  /\ UNCHANGED <<offered, seen, holdVars, decision, runVars, book>>

Finalize(d) ==
  Begin(d) \/ CreateEvent(d) \/ SendFirst(d) \/ SendSecond(d) \/ FinalizeFails(d)

Negotiate(d) ==
  \/ Propose(d) \/ CreateHold(d) \/ ExpireHold(d) \/ ReleaseHold(d) \/ Confirm(d)
  \/ \E p \in RequiredConfirmations, a \in {"confirmed", "declined"} : Reply(d, p, a)

SchedulingNext == Tick \/ \E d \in Demos : Negotiate(d) \/ Finalize(d)

SchedulingSpec == SchedulingInit /\ [][SchedulingNext]_schedulingVars

-----------------------------------------------------------------------------
(* Properties. *)

\* Two active holds of the tutor come too close to each other only if the later
\* one was proposed before the earlier one was taken, and never with the same
\* start: propose_slots keeps the buffers, and the unique index is all that
\* guards a proposal that is no longer fresh.
HoldsApart ==
  \A d, e \in Demos :
    /\ d # e
    /\ HoldIsActive(d) /\ HoldIsActive(e)
    /\ hold[d].no < hold[e].no
    /\ Overlaps(Protected(hold[e].start), Slot(hold[d].start))
    => /\ book[hold[e].no].seen < hold[d].no
       /\ hold[d].start # hold[e].start

\* Two demos get calendar events that come too close to each other only if the
\* later one's slot was proposed before the earlier event was made, although
\* neither the hold nor the calendar is looked at again when an event is made.
MeetingsApart ==
  \A i, j \in DOMAIN book :
    /\ i < j
    /\ book[i].kind = "event" /\ book[j].kind = "event"
    /\ book[i].demo # book[j].demo
    /\ Overlaps(Protected(book[j].start), Slot(book[i].start))
    => book[j].seen < i

\* The learner is sent a link only after the tutor, both links work and are for
\* the held slot, and they lead to different meetings only if a run failed
\* after it had sent the tutor's.
LinksExplained ==
  \A d \in Demos : link[d]["learner"] # 0 =>
    /\ link[d]["tutor"] # 0
    /\ \A p \in Participants :
         LET e == book[link[d][p]] IN
         e.kind = "event" /\ e.demo = d /\ e.start = hold[d].start /\ e.uri
    /\ link[d]["tutor"] # link[d]["learner"] => link[d]["tutor"] \in broken[d]

\* A hold whose confirmation has expired is never found ready again, whatever
\* answers come late.
ExpiredForGood ==
  [][\A d \in Demos :
       decision[d] = "confirmation_expired" /\ hold'[d].no = hold[d].no =>
         decision'[d] # "all_required_confirmed"]_schedulingVars

\* The tutor's holds, and the meetings made of them, keep apart, but for what
\* an offer could not know yet (propose_slots, slot_holds, create_demo_event).
SlotsApart == HoldsApart /\ MeetingsApart
=============================================================================
