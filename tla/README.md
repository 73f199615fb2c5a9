# A TLA+ model of the Demo Command Center Agent

The service takes a demo lesson from the first WhatsApp message to a paid and
onboarded student. It is a FastAPI monolith with a worker: every external
stimulus becomes a row of `agent_inbox`, every effect on another system a row
of `agent_outbox`, and the business state lives in PostgreSQL tables between
the two. What makes it hard is what happens *between* transactions: two
workers, late webhooks, a reconciliation that was overtaken, a publisher that
dies after the provider call. That is what the modules here are about.

Paths in this document are relative to `src/src/demo_command_center/` unless
they start with `docs/` (then relative to `src/`).

## 1. Inventory

| Part | State | Operations | Interacts with | Hard behaviour | What makes it correct |
|---|---|---|---|---|---|
| Lifecycle registry (`state/transitions/table.py`) | none (a table of rules) | `resolve_transition` | nothing: the runtime writes `demo_cases.state` directly | writers do not consult it | every change of a demo's state is a rule |
| Payment verification (`modules/paid_transition/domain/verification.py`) | none | `verify_payment` | webhook handler | order of checks | only verified evidence on the order's terms pays |
| Payment request, quote, order (`infrastructure/payments/*`) | `provider_requests`, `payment_orders`, outbox | `request`, `_record_quote`, `_record_cashfree_order` | publisher, website, Cashfree | competing requests, crash after the call, demos offered again | a second order only when chat took the demo out of its payment |
| Cashfree webhook and paid transition (`infrastructure/inbox/processor.py:1300-1560`) | `payment_attempts`, `paid_transitions`, order, demo | `_process_cashfree_webhook`, `_apply_paid_transition` | inbox, outbox | late and conflicting webhooks | paid is backed, atomic with the activation |
| Reconciliation (`cli/reconcile_payments.py`) | order status, reservation | reserve, fetch, apply, record failure | Cashfree | three transactions, overtaken by webhooks | never invents or loses a payment |
| Publisher and router (`infrastructure/outbox/publisher.py`, `integrations/outbox_router.py`, `workers/__main__.py`) | outbox rows: attempts, next try, published | `publish_batch` (select, call, record, one commit), restart with other blocked targets, `route` | every provider | call before commit, a lost batch, two workers, rows that keep failing, rolling restarts | repeated calls are explained, a switch holds, every row ends |
| Onboarding (`infrastructure/outbox/lifecycle.py`, `processor.py:1160-1300`) | `onboarding_handoffs`, demo | queue, record acceptance, accept, complete | onboarding agent | answer, event and commit in any order | conversion is earned, one welcome |
| Durable inbox (`infrastructure/inbox/*`, `workers/__main__.py`, `cli/replay_event.py`) | `agent_inbox` | accept, claim, commit, fail, replay, restart with other blocked types | SQS, HTTP, all handlers | lock released before the failure is counted, types a worker holds back | effect once per opening, every event ends |
| Conversation (`processor.py:640-1110`) | conversation, requirement, candidates, demo | start, continue, search, select | lead intake, website | unlocked read-modify-write | columns, step and demo state agree |
| Audit chain, DLQ redrive, retention (`infrastructure/audit/chain.py`, `cli/redrive_dlq.py`, `cli/retention_cleanup.py`) | `audit_events`, `provider_requests`, the rows that become due | append, reserve-start-record, select-erase-audit | SQS, operators | crash between reservation and record, concurrent appends and cleanups | a redrive is started once per key; audit events and counts tell the truth |
| Scheduling (`modules/scheduling/*`, `integrations/google_calendar/client.py`, `slot_holds`) | holds, answers, calendar events | propose, hold, expire, release, confirm, finalize | calendar, messages, a caller the repository does not have | stale offers, late answers, repeated finalization | meetings of one tutor keep apart, both sides get a working link |
| Advisory gateway (`resilience/circuit_breakers/async_breaker.py`, `integrations/openai/client.py`) | failure count, opened-at, reservations of the budget | reserve, allow, call, settle, release, success, failure | the advisory model | calls let through before the circuit opened end after it; cancelled calls | the burst on a dead provider is bounded, reservations come back |
| Reminders and no-shows (`modules/reminders`) | plans handed to a scheduler, attendance signals | `plan_reminders`, `reminder_is_current`, `determine_no_show` | a scheduler and callers the repository does not have | the session moves while plans wait, signals in any order | one current reminder per rule and audience, a no-show stays with its side |
| Message policy (`modules/communications`) | preference of the recipient | `evaluate_message`, `record_opt_out` | as above | quiet hours over midnight, opt-out in between | a message waits exactly until the quiet hours end |
| Post-demo conversion (`modules/post_demo_conversion`) | facts about the demo, a draft | `choose_next_action`, `validate_draft` | as above | facts and opt-out arrive in any order | facts only help, a refused draft stays refused |
| Discounts (`modules/discount_suggestions`) | stored offers | `decide_discount`, `validate_offer_redemption` | as above | counts read before the decision, two roundings | price floor, limits while the context is current |
| Tutor matching (`modules/tutor_matching`) | none; profiles of a moment | `rank_tutors` | website | order of the answer, profiles that age | a shortlist the user saw is not reshuffled |
| Quality (`modules/demo_core/domain/quality.py`) | observations, overrides | `assess_quality`, `override_assessment`, `aggregate_region` | as above | missing components, weight zero, override of zero | scores are means of what is measured |
| Regional monitoring (`modules/regional_monitoring`) | grants, cohorts, last alert | `authorize_scope`, `evaluate_underperformance` | as above | void global grants, baselines below zero | more grants allow no less, worse is no quieter |
| Objections (`modules/objection_extraction`) | evidence | `deterministic_extract`, `validate_extracted_objection` | as above | permission withdrawn, the limit reached | evidence only adds, both checks agree |
| Forecasting (`modules/success_forecasting`) | observed features, labelled predictions | `predict_conversion`, `evaluate_forecast`, `time_aware_split` | as above | corrections after the fact, ties, cutoffs | no hindsight, promotion on evidence |
| Drift evaluation (`cli/evaluate_drift.py`) | `model_evaluations`, audit events | select, look up, insert, audit | operators' schedule | overlapping runs of one hour | stored once, and as first reported |
| Authentication, provider clients, settings, HTTP surface, observability | — | adapters | — | I/O | — |

`PROJECT.json` lists every component with its status, and every place where
the code is exposed to something a test would hardly reach ("hazards").

## 2. Modules

| Module | Stands for |
|---|---|
| `LifecycleRegistry` | the transition table, as an abstract specification of `demo_cases.state` |
| `PaymentVerification` | `verify_payment` as a pure operator |
| `VerifiedSale` | abstract specification: an order is sold at most once, for settled money on its terms, with its activation in the same step |
| `PaymentSaga` | request → quote → Cashfree order → webhooks and reconciliation → paid transition → activation |
| `OnboardingSaga` | activation → handoff → accepted → completed → welcome, for one paid order |
| `DurableInbox` | SQS and HTTP ingress, claims, handlers, failure sessions, replays |
| `DemoConversation` | the turns of one WhatsApp conversation under several workers |
| `OperatorCommands` | DLQ redrives, retention cleanups and the audit chain they append to |
| `DemoScheduling` | the scheduling policy and the tutor-first coordinator, for several demos of one tutor |
| `OutboxPublisher` | several workers' `publish_batch` on one outbox: batches, back-off, blocked targets, restarts |
| `AdvisoryGateway` | the breaker and the budget around calls of the advisory model |
| `Reminders`, `MessagePolicy`, `ConversionPolicy`, `DiscountOffers` | the communication and offer policies, asked again while their inputs change |
| `TutorMatching`, `DemoQuality`, `RegionalMonitoring`, `ObjectionExtraction`, `Forecasting` | the assessing policies, likewise |
| `DriftEvaluation` | overlapping runs of the drift evaluation |
| `MCPolicies` | the last eleven side by side; they share no state, so a behaviour is a behaviour of one of them |
| `MCDemoBooking` | `DemoConversation` and `DemoScheduling` side by side, the two halves of a booking; they share no state either |
| `MC*` | the small instances TLC runs |
| `*Proofs` | theorems about the module they extend |

`PaymentSaga` extends `PaymentVerification` and is compared with `VerifiedSale`
and `LifecycleRegistry` through `INSTANCE`; `OnboardingSaga` continues where
`_apply_paid_transition` ends and is compared with `LifecycleRegistry` too.

### How the state and the actions correspond to the code

*A step is a committed transaction, a call to another system, a crash or a
move of the environment.* Where the code keeps a transaction open over a
provider call (`publish_batch`), the row is `"sent"` between the call and the
commit, and a crash puts it back to `"ready"` while the provider remembers.
What a recorder wrote before it raised is committed together with the failed
attempt, because `publish_batch` catches the exception inside the transaction.

**PaymentSaga.** `demo`, `preq`, `order`, `bound`, `attempt`, `paidBy`, `row`,
`tries`, `inbox`, `inTries` are columns of the tables of the same purpose;
`cfOrder`, `reported` are Cashfree's own state (external), `ack` is the answer
being recorded, `rec*` the locals of a reconciliation run. `RequestPayment` is
`request()`, `PublishQuote` is `_record_quote` with the publisher's commit,
`SendCashfreeOrder`/`RecordCashfreeOrder` the two halves of one delivery,
`ProcessWebhook` the whole handler of a Cashfree webhook, `Reserve`, `Fetch`,
`ApplySnapshot`, `FetchFails` the steps of the reconciliation. `ChatUpdate` and
`ChatSelection` are what a chat message of the same demo does to its state,
whatever that state is. `RunDemo` (external) is the registry's path from a
negotiated slot over the demo to its analysis, so that a demo chat has led back
can be offered for payment again; `strayed` and `late` record which demos chat
took out of their payment and which payments succeeded after expiry. Payments
are taken to be enabled: event types a setting blocks are in `DurableInbox`.
The six compared fields of a payment are one abstract binding; the clock's
only trace is `Lapse`. A second delivery of one webhook body violates a unique
key and changes nothing, so webhooks are identified by payment and status.

**OnboardingSaga.** The handoff, its outbox row and the agent's events.
`RecordAcceptance` marks the handoff accepted before it looks at the demo, as
the code does. `Redeploy` switches the feature, which exchanges the recorder.
The activation is taken to be acknowledged: see the finding about the router.
It follows one paid order of a demo; the handoff of a second one is left out.

**DurableInbox.** `Claim` is the `FOR UPDATE SKIP LOCKED` select, `Commit` the
handler with `processed_at`, `Rollback`/`ReadFailed`/`WriteFailed` the failure
path, which counts in a session of its own, reading without a lock; `Replay` is
the operator's `replay_inbox_event`. A handler's effect is one abstract unit.
`Blocked` is the worker's `blocked_event_types`, fixed when its container is
built; `Restart` builds it again under other settings.

**DemoConversation.** A turn reads, may search the website or pick, and writes
the columns that differ from what it read (SQLAlchemy writes changed columns
only). A text is what the extraction finds in it; `Updates`, `Applied`,
`NextRequirementStep` and `StepAfter` are the functions of the same purpose.

**OperatorCommands.** Each redrive and each cleanup is a process with a program
counter. A redrive looks its key up, reserves it, calls SQS and records the
answer in steps of its own, so that it can be overtaken or die between any two.
`ChooseTail` is the snapshot a transaction takes of the chain, `LockTail` the
`FOR UPDATE` that waits for the row and *keeps* it, `Appended` the insert; a
hash is the index of the event it names. A cleanup holds its row locks from
`SelectBatch` to `CommitCleanup`; `Turn` and `LegalHold` are the rest of the
service, which writes rows that are not locked. The six tables the cleanup
goes through are one set of rows, of which `QueueRows` (inbox and outbox) are
erased only when they are processed or published, the others when they are due.
A legal hold protects all of them. An audit event's id follows the order of the
commits in the model, so a tie of `occurred_at` is broken in favour of the
later commit.

**DemoScheduling.** `hold` is the demo's `slot_holds` row, `book` the order in
which holds were taken and calendar events made, `seen` how much of it the
offer knew, which is all the history the properties need. `ProposeSlots`,
`EvaluateConfirmations`, `HoldIsActive` are the functions of
`policy.py`; `Begin`, `CreateEvent`, `SendFirst`, `SendSecond` the awaits of
`finalize_after_tutor_acceptance`, with `FinalizeFails` between any two. The repository
has no caller of these functions but the tests: `Propose`, `Busy` and `Reply`
are the most careful caller one can write (it passes every event and every
active hold as busy, finalizes only on a decision that is ready and takes no new
hold while a finalization runs or after it has ended), so that what the
properties except is due to the code itself. Without that last restraint a demo
with a second hold could be left with links for the first one: the proof of
`LinksExplained` needs it.

**OutboxPublisher.** A row is stored, has attempts and a wait, counted from the
present (negative when it is overdue, which orders the selection); a publisher
has a batch, what it has delivered or failed in it, and the calls it made.
`SelectBatch` is the `FOR UPDATE SKIP LOCKED` select with its limit, `Deliver`
and `DeliveryFails` the body of the loop, `Commit` the one commit of the batch,
`LoseBatch` a crash or a failing flush before it. `Restart` starts a worker with
the blocked targets of the current settings. `age` is how long ago the batch was
selected, since the back-off of a failed row counts from that moment; `Patience`
bounds how long the age of a due row is told apart. What a single row's recorder
writes is in the two sagas.

**AdvisoryGateway.** A call goes through reserve, allow, call, settle or release
in steps of its own. `Cancel` is a task cancelled at an await, or a `release()`
that raises: neither handler of `structured_completion` then gives the
reservation back.

**The policies.** Their callers are not in the repository, so what calls them,
and what changes their inputs, is external: each module lets the inputs change
in any order and asks again. Prices, points and minor units are integers with
the code's two roundings; scores of quality and matching are exact, scaled to a
common denominator; the logistic function of the forecast is replaced by its
argument, which it orders alike; a time zone is a fixed offset; a text is the set
of phrases found in it. `DiscountOffers` tells callers (desks) apart, each with
the context it read. The `...Valid` definitions are what the constructors accept.

## 3. Runs

| Run | Specification | Checks | Result |
|---|---|---|---|
| `payment_saga` | `FairSpec`: chat, faults, crashes, reconciliation | no status claims a payment that was not made; a second order only after chat took the demo out of its payment; no success made in time is dropped but for that; implements `VerifiedSale` (paid for settled money, once, with its activation); only chat leaves the registry; a stored success of a payment made in time leads to the paid transition | holds |
| `activation_delivered` | `FairCalmSpec` | the activation of a paid order is delivered | violated |
| `conflict_reviewed` | `PaymentSpec` | a failure webhook processed for a paid order puts it in review | violated |
| `late_payment_reviewed` | `PaymentSpec` | no paid transition for a payment that succeeded after expiry | violated |
| `refund_reviewed` | `FairCalmSpec` | a refund puts the order in review | violated |
| `onboarding` | `FairSpec`: faults, redeployments, chat | conversion is earned; one welcome; what is no chat message moves the demo by registered rules; a queued handoff happens | holds |
| `inbox` | `FairSpec`: two workers, crashes, redelivery, replay | effects once per opening; a deleted message is stored and a key stored once; every stored event is processed, out of attempts for good or held back by every worker | holds |
| `operators` | `Spec`: redrives, cleanups, crashes | a redrive is started once and its answers are true; so are its audit events; forks of the chain are explained; counts are true; held rows and unprocessed queue rows are kept | holds |
| `booking` | `BookingSpec` of `MCDemoBooking`: two workers on a conversation; two demos of one tutor | conversation: types, agreement while no turn was overtaken, the case is created once, a turn nobody overtook repairs; scheduling: types and number of options, holds and meetings keep apart unless the offer was stale, links are explained, expired stays expired | holds |
| `turns_serialized` | `Spec` | every committed turn counts in the version | violated |
| `outbox` | `FairSpec`: two publishers, failing calls, lost batches, restarts | a provider is called again only after a recorded failure or a lost batch; a switch holds once the last worker has it; every row is published or uses up its attempts | holds |
| `policies` | `Spec` of `MCPolicies` | the contract of each of the eleven components | holds |

A *contract* is the conjunction of what one component promises over time, for
example `ReminderContract`: keys tell reminders apart, one of them is current,
and a no-show is never turned round. Each conjunct has a name and a comment in
its module; `PROJECT.json` has a mutation of the code for each of them.

The five violated properties are quoted from the documentation; `PROJECT.json`
has the lines under "findings".

* **Activation.** `_apply_paid_transition` gives the outbox row the key
  `paid-outbox:…` and its payload the key `activation:…`; the router
  (`integrations/outbox_router.py:117`) demands that they are equal. Each try
  fails until the attempts are used up.
* **Conflicting statuses.** A `FAILED` or `EXPIRED` webhook of another payment
  of the order, processed after the paid transition, writes its status over
  `paid` (`processor.py:1448`). The paid transition itself survives (`SaleRefined`).
* **Late payments.** `verify_payment` decides a success (`verification.py:159`)
  before it compares the time with `expires_at` (line 186), so a payment that
  succeeds after the order has expired is paid, where
  `docs/integration/cashfree.md:9` sends it to review and
  `docs/architecture/payment-saga.md:19` verifies the expiry. The other
  properties therefore promise nothing of late payments, in either direction.
* **Refunds.** The handler inserts a `payment_attempts` row per webhook and the
  payment id is unique, so a refund webhook fails at every attempt.
* **Turns.** `version` is incremented from an unlocked read and never compared.

More behaviours are in the model as legal steps, visible as the exceptions the
properties make, and have no run of their own:

* `_transition_demo_state` (`processor.py:1085`) writes the target state
  whatever the current one is, so a chat message moves a demo that is being
  paid; `LifecycleFollowed`, `SuccessNeverDropped`, `SuccessIsPaid` and
  `SecondOrderExplained` name the exception.
* `request()` (`order_jobs.py:127-141`) does not count failed, expired and paid
  orders: a demo that chat led back to slot negotiation can be given and offered
  again, and gets a second order; both may be paid. `SecondOrderExplained` shows
  that this is the only way to a second order.
* The second webhook of a payment, a success after `PENDING` or `FAILED`
  included, fails on the unique attempt row at every try (`processor.py:1377`);
  `SuccessIsPaid` names the exception.
* A reconciliation that fetched before a payment, or failed to fetch, writes its
  status over `paid` (`reconcile_payments.py:96`, `:124`).
* Events of a blocked type wait in the inbox without using attempts, as
  `docs/integration/onboarding-contract.md:7` says; `EventSettles` names the case.
* Provider webhooks, messages, calendar and demo data that are due are erased
  although their row is not processed (`cli/retention_cleanup.py:95`); only inbox
  and outbox rows are asked for it (`ProtectedKept`).
* A completion processed before its acceptance raises (`processor.py:1229`)
  and the inbox has no back-off: its attempts may be used up at once, and then
  the demo stays in `ONBOARDING_HANDOFF`.
* A late acknowledgement (`lifecycle.py:200`) puts a completed handoff back to
  `accepted`; `WelcomeOnce` shows that no second welcome follows from it.
* Candidates of an earlier shortlist keep their rank (`processor.py:832`), so a
  number may select a tutor of the old list.
* The audit chain may fork (`infrastructure/audit/chain.py:34`): a waiter of
  `FOR UPDATE ... LIMIT 1` gets the row its snapshot chose, an empty chain has
  nothing to lock, and a back-dated event is appended behind a later one.
  `ForksExplained` shows that these are the only ways.
* A redrive that died after its reservation leaves every retry of its key
  "uncertain" (`cli/redrive_dlq.py:71`): safe, and never resolved by the code.
* `create_demo_event` inserts a new event at every call, so a repeated
  finalization may leave tutor and learner with different links, although
  `docs/architecture/scheduling-saga.md:31` wants retries to reconcile first
  (`LinksExplained` names the case).
* `uq_slot_hold_active_tutor_start` compares starts only, where
  `docs/data/canonical-data-model.md:23` speaks of ranges, and it counts a hold
  whose time is over until `expire_hold` is called: overlapping holds are
  possible from offers made before the other hold (`HoldsApart`).

* During a rolling restart old workers deliver what the new settings hold back,
  from batches selected before (`PauseHolds` waits for the last of them).
* A cancelled advisory call keeps its reservation of the budget
  (`integrations/openai/client.py:113-125`; `ReservationsReturned`).
* An opt-out ends the search for a follow-up at the first rule that applies,
  although a later one might be allowed (`FactsOnlyHelp`).
* Two discount decisions on contexts that overtook each other exceed the limits
  (`OffersExplained`); nothing stored is compared again.
* A second drift evaluation of an hour audits its own status although the row of
  the first one stays (`EvaluationAudited` speaks of the first event only).
* `time_aware_split` splits by the time of the prediction, so a training sample
  may be labelled after the test period began.
* `regional_alerts` is unique by a key without a time (`infrastructure/database/
  models/conversion.py:286`), so an alert that is raised again could not be
  stored; nothing under `src/` writes the table yet.

And one that no document speaks about: an order that expires leaves its demo in
`PAYMENT_PENDING`, from which nothing under `src/` moves it on.

### Bounds and why they are enough

*payment_saga*: one demo and two requests (the smallest instance in which two
orders could be made), a good payment on one order and a mismatching one on the
other, either of which may be the demo's first, one reconciler, one attempt per
row. The good payment is reported pending and successful; failure webhooks are in
the violation runs, and that both orders are paid is left to the theorems, which
cover everything here but the wait for the paid transition. The violation
runs have two good payments or two attempts where their question is
about competing evidence or about retries, and no reconciler where it is about
webhooks only. *onboarding*: two acceptances, two
completions and two attempts, so that a repeated event meets every state of the
handoff. *inbox*: two events that share one idempotency key, two workers, three
attempts and replays: a late failure count can overtake a commit and a replay;
one of the events is of a type that settings block.
*operators*: three redrives of one key, one of them for another request, and
two cleanups of a queue row and a row of another table with a batch of one over
a clock of two instants, so
that look-ups, reservations and appends overlap and events are back-dated.
*booking*, scheduling: three starts of which two overlap, two touch (the buffer forbids
them) and two keep apart, one hold per demo and two finalization runs, a hold
that outlives its confirmation period and a clock that outlives both; the
theorems cover repeated holds too.
*booking*, conversation: two workers and five messages that
between them complete the requirements, pick an option (the same number means
another thing in each step), reject a subject and change it after the choice;
two tutors, so that shortlists differ. *outbox*: two rows of
which one has a target that can be blocked, two publishers, batches of two (so
that a row shares its commit), two attempts and one lost batch, so that rows wait
at different stages of their back-off. *policies*: for each component the
smallest instance in which its promises can fail: three calls around a threshold
of two, a day of four hours that starts in the quiet ones, a session that moves
between two starts and back, three rules whose facts overlap, two desks and
prices at which both roundings bite, three tutors with ties and unknown values, a
component of weight zero, baselines on both sides of zero, more evidence than the
limit, features at their bounds and beyond, four labels with ties, and two runs
in one hour. Symmetric are workers, tutors and demos in
*booking*, the agent's events in *onboarding* and processes in *operators*; no
liveness is checked under symmetry. Runs without
deadlock checking are those of systems that may come to rest: a paid order, a
processed inbox, a conversation nobody continues.

### Fairness

Liveness assumes fairness of the workers' own steps only: the worker loop
(`workers/__main__.py`) calls the inbox processor and the publisher for as long
as the service runs, and a row that may be taken stays so until it is taken.
Nothing is assumed of callers, of the provider, of the onboarding agent or of
the scheduled reconciliation, and handlers of the inbox may fail every time
(`EventSettles` holds because attempts are counted; it assumes that workers
eventually stop dying, since a killed worker counts nothing, that settings change
finitely often, and that an event is replayed finitely often). In *payment_saga* and *onboarding* chat, faults and
crashes happen, and the properties name what may end a wait instead: a demo the
chat moved, an attempt row an earlier webhook of the payment holds, attempts that
are used up, a feature that is switched off.
`RecordAcceptance` is strongly fair: a crash may cut a delivery short again and
again without counting, and the handoff happens only if not every delivery is
cut short. In *outbox* every worker keeps publishing (a worker whose loop ended
with a lost batch is started again by its supervisor) and time passes; batches
are lost finitely often. The violation runs leave out chat and faults.

## 4. Proofs

TLAPS proves, for every value of the constants that satisfies the ASSUMEs (a
positive attempt limit, total functions, distinct "none" values, finite sets
where something is counted), every invariant and action property the passing
runs check, but for four properties named at the end of this section.

* `PaymentSagaProofs`: `TypeOK` and then `SagaInv` are inductive, hence each
  conjunct of it holds, and `PaymentSaga` implements `VerifiedSale` step by step.
  No conjunct but the type is inductive alone. That a success is never dropped
  needs that a `PAID` demo has a paid order (`PaidStatusBacked`), that this order
  is bound and exists (`PaidIsBacked`, `SagaConsistent`) and that a demo has one
  order unless chat took it out of its payment (`SecondOrderExplained`); that in
  turn needs that an order's demo is in its payment unless chat did so
  (`SagaConsistent`), and that a demo once taken out is never forgotten
  (`strayed` only grows). The activation row is created in the
  step of the sale, so `Sell` of `VerifiedSale` is simulated by `ProcessWebhook`
  and every other step stutters or settles a payment. `LifecycleFollowed` is a
  case split over the steps that write a demo: `PaymentRules` says which pairs of
  states they write, and each is a rule of `LifecycleRegistry`; `RunDemo` stands
  for a chain of them.
* `OnboardingSagaProofs`: `OnboardingInv` is inductive. `WelcomeOnce` needs
  `HandoffConsistent` to exclude a second queueing and `ConvertedIsEarned`
  needs it to know that an event presupposes a request.
  `OnboardingTyped` and `HandoffAgrees` state the rest of it, and
  `LifecycleFollowed` is shown as in the payment saga.
* `OutboxPublisherProofs`: `PublisherInv` is inductive for any rows, publishers,
  batch sizes and losses. `BatchesSound` (batches are disjoint, hold stored and
  unpublished rows with an attempt left, and what is delivered or failed in them
  was called) is the row lock; `Explained` accounts for every call, and needs it
  because a commit adds to the account what the batch of one publisher used.
  `SwitchHolds` follows since a paused worker selects no pausable row and starts
  without a batch.
* `DurableInboxProofs`: `WorkInv` (types, `RowOwned`, `EffectsMatch`) and
  `IngressInv` (a message about to be deleted is stored; one row per key) are
  inductive. The lock discipline `RowOwned` is what `EffectsMatch` rests on:
  a commit can only happen on a row that is not yet processed. Blocked types only
  make claims rarer.
* `DemoConversationProofs`: `VersionInv` and `FoundInv` (what a turn found fits
  what it asked for) are inductive; with them every step that commits is a
  `Commit` of one worker, a first turn never commits over an existing
  conversation, and a turn whose snapshot is current leaves agreeing columns.
  The type counts the processed messages, which needs `HoldInv`: a message
  belongs to one worker and is still queued while its turn runs, so each commit
  counts one more. `SerialTurnsAgree` rests on `OvertakenInv`: the version never
  runs ahead of the turns, and a turn whose version is level with them read the
  rows as they are. A commit that brings the two level was therefore not
  overtaken, and what it writes agrees because what it read did (`CommitSerial`);
  any other commit leaves the version behind for good.
* `OperatorCommandsProofs`: `OperatorInv` is inductive. Its parts are the types,
  `RedriveInv` (who holds the reservation of a key and what its owner knows),
  `ChainInv` (every predecessor is an earlier event, and what a running
  transaction has chosen), `BatchInv` (row locks and batches agree) and `LogInv`
  (only runs that have ended have logged, a recorded outcome has its one event,
  and a cleanup's event counts its rows). From them follow `StartedOnce`,
  `AnswerTrue`, `ForksExplained`, `RedriveAudited`, `CountsTrue` and, as an
  action property, `ProtectedKept`: a locked row is not held and, in a queue, not
  reopened.
* `DemoSchedulingProofs`: `SchedulingInv` is inductive for any demos, slots and
  bounds. `TypeInv` adds to the types which entry of the book a hold is.
  `ApartInv` follows an offer from the moment it is made: it avoids the active
  holds and the meetings the book had then (`OfferAvoidsHolds`,
  `OfferAvoidsEvents`), a hold taken from it inherits that
  (`EntryAvoidsEvents`), and so does the meeting made of the hold. `LinkInv`
  says what a finalization run knows of its own meeting at each await.
  `ExpiryTrue` says that an expired decision is still true of the clock, from
  which `ExpiredForGood` follows.
* `PolicyProofs`: the contracts of `AdvisoryGateway`, `Reminders`,
  `RegionalMonitoring`, `ConversionPolicy`, `MessagePolicy`, `DiscountOffers` and
  `DriftEvaluation`, and three parts of `Forecasting`'s.
  `BurstBounded` is inductive with the types: each call under way can fail
  once. No offer crosses the floor because the largest discount is rounded down
  and the price up (`FloorHolds`, an arithmetic lemma about the two integer
  divisions); the limits of offers are explained because a decision on the facts
  of the moment counted all redeemable offers, a redemption exchanges one offer
  for another and time only closes some (`BookInv`). `PlansAgree` (a plan's
  version determines the start it was made for) gives `KeysIdentify` and
  `CurrentIsUnique`. `GrantsOnlyWiden`, `BlameKept` and `DraftRefusalFinal` are
  action properties that follow from the types and a case split over the
  decision. `FactsOnlyHelp` needs that the least of a nonempty set of rules
  exists (`NatMin`, from the well-foundedness of `<`) and can only get smaller
  when rules are added. `WorseIsLouder` is arithmetic about the relative decline, for
  positive and negative baselines; that a full loss is heard is not said of a
  baseline of zero. `QuietRespected` is arithmetic about the local
  time (`Remainder` characterises `%`): adding what is left of the quiet hours
  does not skip or repeat a day. `EvaluationAudited` needs `DriftInv`: a
  run that does not insert found the evaluation of its window, which stays, and
  one that inserts is stopped by the unique key if another was first. `NoHindsight` holds because an observation is newer than
  every moment that passed, so that earlier predictions become errors, and
  because the band depends on the contributions of the features only;
  `FallbackNeutral` because those do not change.

The type invariants of the sagas, the inbox, the operators and the outbox and
the auxiliary invariants `SagaConsistent`, `HandoffConsistent` and `RowOwned` are
proved, and therefore not repeated by the runs.

Only model-checked: liveness (it needs fairness and ENABLED);
`ShortlistKept`, `QualityContract` and `ExtractionContract`, which are about what
sorting, summing and selecting compute (induction over data); of
`ForecastContract` the parts `AucIsRankSum` and `PromotionEarned`, which are
about sums. And, of course, the violations.

## 5. Not modelled, and why

Rendering of messages, encryption, signatures, request authentication and HTTP
adapters: no state of their own, their results are inputs. Recording of Meta
webhooks: it stores the encrypted body, no more than what the inbox does. Human
handoff tickets: a table nothing under `src/` changes. Settings and the container: constants and
`Redeploy`/`Restart` here. Actors, guards and side-effect names of the registry:
no writer consults them. Of scheduling, the conversion of local times and the
message that asks the tutor (no state); of the message policy, changes of the
local clock; of the others, texts (reasons, codes, completeness, the recommended
band) that no decision depends on. The logistic function itself: out of TLC's
reach, and only its order matters.

## 6. Plan

Done: the money path first (`PaymentVerification`, `VerifiedSale`,
`PaymentSaga`), then its continuation (`OnboardingSaga`), the engine under both
(`DurableInbox`, `OutboxPublisher`), the conversation that shares their demo row
(`DemoConversation`) and the operators' commands (`OperatorCommands`), each with
its proofs; then scheduling (`DemoScheduling`) and the policies around the demo
with the advisory gateway and the drift evaluation.

The invariants and action properties of all of them are proved, as far as they
need no induction over data.

Next:

1. the row life cycle of the two sagas as a refinement of `OutboxPublisher` with
   batches of one;
2. an abstract specification of the durable inbox (an event takes effect once
   per opening) and the proof that `DurableInbox` implements it;
3. what `PromotionEarned` says without sums.
