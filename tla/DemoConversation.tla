--------------------------- MODULE DemoConversation ---------------------------
(***************************************************************************)
(* One WhatsApp conversation: its messages are inbox events that collect   *)
(* the requirements of a demo, search tutors on the website and let the    *)
(* user pick one (_start_demo, _continue_demo and what they call).         *)
(*                                                                         *)
(* A turn reads the conversation and the requirement without a lock, may   *)
(* wait for the website, and writes at its commit (autoflush is off) the   *)
(* columns that differ from what it read.  Turns of several workers on one *)
(* conversation therefore interleave.  Texts are abstracted to what the    *)
(* extraction finds in them, and values to small numbers.                  *)
(***************************************************************************)
EXTENDS Integers, Sequences, FiniteSets

CONSTANTS Messages,     \* whatsapp.handoff.demo.v1 events of the conversation
          Text,         \* what a message says
          Tutors,       \* website tutor references
          Limit,        \* shortlist_limit
          Website,      \* a website gateway is configured
          Workers,
          NoMessage,
          MaxAttempts   \* maximum_attempts of the inbox

Required ==
  {"class_level", "subject", "location_region", "mode", "preferred_times"}
Fields == Required \cup {"board"}

Keep == -1              \* a text does not mention the field; 0: no value

\* says: the aliases found in a text; digit: the text is this number or names
\* this option; against: the subject the text rejects.
Texts ==
  [says : [Fields -> Int], digit : 0 .. 4, against : Nat]

ASSUME ConversationAssumption ==
  /\ Text \in [Messages -> Texts]
  /\ \A m \in Messages, f \in Fields : Text[m].says[f] >= Keep
  /\ NoMessage \notin Messages
  /\ IsFiniteSet(Messages)
  /\ Limit \in 1 .. 3
  /\ Website \in BOOLEAN
  /\ MaxAttempts \in Nat \ {0}

VARIABLES
  inbox, tries,   \* the message's inbox row and its attempts
  demo,           \* demo_cases.state, "NEW" when there is no case
  conv,           \* conversation and requirement columns
  rank,           \* tutor_candidates.rank, 0 when there is no row
  selected,       \* tutors whose selected_at is set
  offer,          \* the shortlist the user was shown last
  pc, msg,        \* a worker's step and message
  snap,           \* the columns its session loaded
  found,          \* the website's answer, or the tutor the message picks
  had,            \* ranks of the candidate rows its session loaded
  turns           \* committed turns

rowVars == <<demo, conv, rank, selected>>
workerVars == <<pc, msg, snap, found, had>>
vars == <<inbox, tries, rowVars, offer, workerVars, turns>>

Steps ==
  {"none", "collect_class_city", "collect_subject", "collect_mode",
   "collect_preferred_times", "requirements_complete",
   "select_tutor_candidate", "awaiting_tutor_confirmation"}
DemoStates ==
  {"NEW", "QUALIFYING", "TUTOR_SHORTLISTED", "SLOT_NEGOTIATING", "HUMAN_HANDOFF"}
Columns ==
  [step : Steps, req : [Fields -> Nat], missing : SUBSET Required, version : Nat]

NoColumns ==
  [step |-> "none", req |-> [f \in Fields |-> 0], missing |-> Required,
   version |-> 0]

\* A shortlist names distinct tutors; the words that present them are left out.
Shortlists ==
  {s \in UNION {[1 .. n -> Tutors] : n \in 0 .. Limit} :
     \A i, j \in DOMAIN s : s[i] = s[j] => i = j}

\* The website fails, answers with a shortlist, or is not asked at all.
Answers ==
  [kind : {"none", "unavailable"}] \cup [kind : {"list"}, list : Shortlists]
    \cup [kind : {"pick"}, tutor : Tutors]

NoRanks == [t \in Tutors |-> 0]

\* Every variable has its type.
TypeOK ==
  /\ inbox \in [Messages -> {"absent", "queued", "processed"}]
  /\ tries \in [Messages -> 0 .. MaxAttempts]
  /\ demo \in DemoStates
  /\ conv \in Columns
  /\ rank \in [Tutors -> 0 .. Limit]
  /\ selected \subseteq Tutors
  /\ offer \in Shortlists
  /\ pc \in [Workers -> {"idle", "read", "ready"}]
  /\ msg \in [Workers -> Messages \cup {NoMessage}]
  /\ snap \in [Workers -> Columns]
  /\ found \in [Workers -> Answers]
  /\ had \in [Workers -> [Tutors -> 0 .. Limit]]
  /\ turns \in 0 .. Cardinality(Messages)

Init ==
  /\ inbox = [m \in Messages |-> "absent"]
  /\ tries = [m \in Messages |-> 0]
  /\ demo = "NEW"
  /\ conv = NoColumns
  /\ rank = NoRanks
  /\ selected = {}
  /\ offer = <<>>
  /\ pc = [w \in Workers |-> "idle"]
  /\ msg = [w \in Workers |-> NoMessage]
  /\ snap = [w \in Workers |-> NoColumns]
  /\ found = [w \in Workers |-> [kind |-> "none"]]
  /\ had = [w \in Workers |-> NoRanks]
  /\ turns = 0

-----------------------------------------------------------------------------
(* What a turn makes of a text: pure functions of the columns it read. *)

Missing(req) == {f \in Required : req[f] = 0}

NextRequirementStep(missing) ==
  IF missing \cap {"class_level", "location_region"} # {} THEN "collect_class_city"
  ELSE IF "subject" \in missing THEN "collect_subject"
  ELSE IF "mode" \in missing THEN "collect_mode"
  ELSE IF "preferred_times" \in missing THEN "collect_preferred_times"
  ELSE "requirements_complete"

\* _mode_from_text and _preferred_time_from_text read a bare number as an
\* option only in their own step.
Numbered(text, step, f) ==
  \/ f = "mode" /\ step = "collect_mode" /\ text.digit \in 1 .. 3
  \/ f = "preferred_times" /\ step = "collect_preferred_times"
       /\ text.digit \in 1 .. 4

\* _extract_requirement_updates: a rejected current subject is cleared, unless
\* the text names another one.
Updates(text, step, req) ==
  LET negated == text.against # 0 /\ text.against = req["subject"]
  IN  [f \in Fields |->
        IF Numbered(text, step, f) THEN text.digit
        ELSE IF f = "subject" /\ negated /\ text.says[f] \in {Keep, req[f]} THEN 0
        ELSE text.says[f]]

\* _apply_requirement_updates.
Applied(req, updates) ==
  [f \in Fields |-> IF updates[f] = Keep THEN req[f] ELSE updates[f]]

Choosing == {"select_tutor_candidate", "awaiting_tutor_confirmation"}

\* Mutation: a message in the selection steps keeps the step, updates or not.
StepAfterKept(c, updates) ==
  IF c.step \in Choosing THEN c.step
  ELSE NextRequirementStep(Missing(Applied(c.req, updates)))

\* The step of _continue_demo before the search or the selection.
StepAfter(c, updates) ==
  IF c.step \in Choosing /\ \A f \in Fields : updates[f] = Keep
    THEN c.step
    ELSE NextRequirementStep(Missing(Applied(c.req, updates)))

\* The columns a turn has computed, and its extraction.
TurnUpdates(w) == Updates(Text[msg[w]], snap[w].step, snap[w].req)
TurnReq(w) == Applied(snap[w].req, TurnUpdates(w))
TurnStep(w) == StepAfter(snap[w], TurnUpdates(w))

\* _selected_candidate_rank: the turn picks an option of the shortlist.
Picks(w) ==
  /\ snap[w].step = "select_tutor_candidate"
  /\ TurnStep(w) = "select_tutor_candidate"
  /\ Text[msg[w]].digit \in 1 .. 3

\* The turn gets past the early returns of _advance_demo_after_requirements.
Searches(w) ==
  /\ Website
  /\ Missing(TurnReq(w)) = {}
  /\ TurnStep(w) \notin Choosing

-----------------------------------------------------------------------------
(* The steps of a turn. *)

\* External: lead intake hands over a message of the conversation.
Arrive(m) ==
  /\ inbox[m] = "absent"
  /\ inbox' = [inbox EXCEPT ![m] = "queued"]
  /\ UNCHANGED <<tries, rowVars, offer, workerVars, turns>>

\* Mutation: the attempt limit is off by one.
ClaimableOffByOne(m) == inbox[m] = "queued" /\ tries[m] <= MaxAttempts

\* The messages _process_one may claim.
Claimable(m) == inbox[m] = "queued" /\ tries[m] < MaxAttempts

\* _process_one claims the message; the handler loads the conversation and
\* the requirement, without locking them.
Read(w, m) ==
  /\ pc[w] = "idle"
  /\ Claimable(m)
  /\ \A v \in Workers : msg[v] # m
  /\ pc' = [pc EXCEPT ![w] = "read"]
  /\ msg' = [msg EXCEPT ![w] = m]
  /\ snap' = [snap EXCEPT ![w] = conv]
  /\ UNCHANGED <<inbox, tries, rowVars, offer, found, had, turns>>

\* The website answers the search; the session loads the rows of its tutors.
Search(w) ==
  /\ pc[w] = "read"
  /\ Searches(w)
  /\ \E a \in [kind : {"unavailable"}] \cup [kind : {"list"}, list : Shortlists] :
       found' = [found EXCEPT ![w] = a]
  /\ had' = [had EXCEPT ![w] = rank]
  /\ pc' = [pc EXCEPT ![w] = "ready"]
  /\ UNCHANGED <<inbox, tries, rowVars, offer, msg, snap, turns>>

\* The candidate with the picked rank.  Nothing orders the query, so any row
\* with that rank may be its first; a turn that finds none repeats its question.
Pick(w) ==
  /\ pc[w] = "read"
  /\ Picks(w)
  /\ \E t \in Tutors :
       /\ rank[t] = Text[msg[w]].digit
       /\ found' = [found EXCEPT ![w] = [kind |-> "pick", tutor |-> t]]
  /\ pc' = [pc EXCEPT ![w] = "ready"]
  /\ UNCHANGED <<inbox, tries, rowVars, offer, msg, snap, had, turns>>

\* _process_one ends.
Return(w) ==
  /\ pc' = [pc EXCEPT ![w] = "idle"]
  /\ msg' = [msg EXCEPT ![w] = NoMessage]
  /\ snap' = [snap EXCEPT ![w] = NoColumns]
  /\ found' = [found EXCEPT ![w] = [kind |-> "none"]]
  /\ had' = [had EXCEPT ![w] = NoRanks]

\* Mutation: missing_fields is written before the updates are applied.
WrittenEarly(w, step) ==
  [step |-> step, req |-> TurnReq(w), missing |-> Missing(snap[w].req),
   version |-> snap[w].version + 1]

\* The columns as the turn leaves them in its session.
Written(w, step) ==
  [step |-> step, req |-> TurnReq(w), missing |-> Missing(TurnReq(w)),
   version |-> snap[w].version + 1]

\* The UPDATE statements of the commit: only changed columns are written, over
\* whatever the rows hold by now.
Flushed(w, new) ==
  [step |-> IF new.step = snap[w].step THEN conv.step ELSE new.step,
   req |-> [f \in Fields |->
              IF new.req[f] = snap[w].req[f] THEN conv.req[f] ELSE new.req[f]],
   missing |-> IF new.missing = snap[w].missing THEN conv.missing ELSE new.missing,
   version |-> new.version]

\* Mutation: nothing keeps a second case from being inserted.
InsertableAgain(w) == TRUE

\* A first turn inserts the case, the requirement and the conversation, whose
\* unique key fails if another turn has inserted them since.
Insertable(w) == snap[w].step = "none" => conv.step = "none"

Commit(w, step) ==
  /\ Insertable(w)
  /\ conv' = IF snap[w].step = "none" THEN Written(w, step)
                                      ELSE Flushed(w, Written(w, step))
  /\ inbox' = [inbox EXCEPT ![msg[w]] = "processed"]
  /\ tries' = [tries EXCEPT ![msg[w]] = @ + 1]
  /\ turns' = turns + 1
  /\ Return(w)

\* The turn only asks: for a missing field, or for an option again.
Ask(w) ==
  /\ pc[w] = "read"
  /\ ~ Searches(w)
  /\ Picks(w) => \A t \in Tutors : rank[t] # Text[msg[w]].digit
  /\ Commit(w, TurnStep(w))
  /\ demo' = IF snap[w].step = "none" THEN "QUALIFYING" ELSE demo
  /\ UNCHANGED <<rank, selected, offer>>

\* No tutor: the demo goes to a human, whatever its state is.
HandOff(w) ==
  /\ pc[w] = "ready"
  /\ found[w].kind = "unavailable" \/ (found[w].kind = "list" /\ found[w].list = <<>>)
  /\ Commit(w, TurnStep(w))
  /\ demo' = "HUMAN_HANDOFF"
  /\ UNCHANGED <<rank, selected, offer>>

\* A row per listed tutor, inserted or given its new rank; a row that another
\* turn inserted since makes the insert fail.  Rows of earlier shortlists stay.
Shortlist(w) ==
  LET list == found[w].list
      Place(t) == CHOOSE i \in DOMAIN list : list[i] = t
      listed == {list[i] : i \in DOMAIN list}
  IN
  /\ pc[w] = "ready"
  /\ found[w].kind = "list" /\ list # <<>>
  /\ \A t \in listed : had[w][t] = 0 => rank[t] = 0
  /\ rank' = [t \in Tutors |->
                IF t \in listed /\ had[w][t] # Place(t) THEN Place(t) ELSE rank[t]]
  /\ offer' = list
  /\ Commit(w, "select_tutor_candidate")
  /\ demo' = "TUTOR_SHORTLISTED"
  /\ UNCHANGED selected

\* The picked tutor is marked; the demo waits for the tutor's confirmation.
Select(w) ==
  /\ pc[w] = "ready"
  /\ found[w].kind = "pick"
  /\ selected' = selected \cup {found[w].tutor}
  /\ Commit(w, "awaiting_tutor_confirmation")
  /\ demo' = "SLOT_NEGOTIATING"
  /\ UNCHANGED <<rank, offer>>

\* The turn raises (an insert fails, or a transient fault): nothing it did
\* remains, one attempt is counted.
Fail(w) ==
  /\ pc[w] # "idle"
  /\ tries' = [tries EXCEPT ![msg[w]] = @ + 1]
  /\ Return(w)
  /\ UNCHANGED <<inbox, rowVars, offer, turns>>

\* The worker dies within the turn.
Crash(w) ==
  /\ pc[w] # "idle"
  /\ Return(w)
  /\ UNCHANGED <<inbox, tries, rowVars, offer, turns>>

-----------------------------------------------------------------------------
Turn(w) ==
  \/ \E m \in Messages : Read(w, m)
  \/ Search(w) \/ Pick(w)
  \/ Ask(w) \/ HandOff(w) \/ Shortlist(w) \/ Select(w) \/ Fail(w)

Next ==
  \/ \E m \in Messages : Arrive(m)
  \/ \E w \in Workers : Turn(w) \/ Crash(w)

Spec == Init /\ [][Next]_vars

-----------------------------------------------------------------------------
(* Properties. *)

\* As long as no turn was overtaken by another one (every committed turn counts
\* in the version), the columns, the shortlist and the demo's state tell the
\* same story, whatever the order of the messages and however often turns fail
\* or lose a race: the step asks for what is missing, an offer is only open for
\* complete requirements and a shortlisted demo, and every step a user can be
\* in has its demo state.
SerialTurnsAgree ==
  conv.version = turns =>
    /\ conv.missing = Missing(conv.req)
    /\ conv.step = "none" <=> demo = "NEW"
    /\ conv.missing # {} =>
         conv.step \in {"none", NextRequirementStep(conv.missing)}
    /\ conv.step = "requirements_complete" /\ Website => demo = "HUMAN_HANDOFF"
    /\ conv.step = "select_tutor_candidate" =>
         /\ conv.missing = {}
         /\ demo = "TUTOR_SHORTLISTED"
         /\ \A i \in DOMAIN offer : rank[offer[i]] = i
    /\ conv.step = "awaiting_tutor_confirmation" =>
         conv.missing = {} /\ demo = "SLOT_NEGOTIATING" /\ selected # {}

\* However many workers read the conversation before it exists, it is created
\* once: a turn that lost the race to create it fails and continues it when it
\* is tried again, and no first turn commits over an existing conversation.
CaseCreatedOnce ==
  [][conv.step # "none" => conv' = conv \/ conv'.version > 1]_vars

\* A turn that nobody overtook leaves columns that agree, even when earlier
\* turns had overwritten each other's: _continue_demo computes missing_fields
\* anew from the fields in every turn, and the step unless an open selection
\* keeps it.
FreshTurnRepairs ==
  [][\A w \in Workers :
       snap[w] = conv /\ turns' = turns + 1 /\ pc'[w] # pc[w] =>
         /\ conv'.missing = Missing(conv'.req)
         /\ conv'.missing # {} /\ conv.step \notin Choosing =>
              conv'.step = NextRequirementStep(conv'.missing)]_vars

\* docs/architecture/demo-state-machine.md: "Optimistic `version` checks ...
\* prevent conflicting updates": every committed turn counts in the version.
TurnsSerialized == conv.version = turns
=============================================================================
