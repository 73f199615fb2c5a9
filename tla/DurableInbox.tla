----------------------------- MODULE DurableInbox -----------------------------
(***************************************************************************)
(* The durable inbox: events arrive over SQS or HTTP at least once, are    *)
(* stored under a unique key, and are worked off by several workers that   *)
(* claim rows with FOR UPDATE SKIP LOCKED.  A failed handler is rolled back*)
(* and counted in a second transaction that reads the row without a lock,  *)
(* so that claims, commits, late failure counts and operator replays of    *)
(* one row interleave.                                                     *)
(*                                                                         *)
(* A handler's effect is one abstract unit, committed with processed_at.   *)
(* READ COMMITTED: a row lock is held to the end of the transaction, a     *)
(* write waits for it, a plain read does not.                              *)
(***************************************************************************)
EXTENDS Naturals, FiniteSets

CONSTANTS Events,       \* events, by (source_agent, event_id, schema_version)
          Key,          \* their (tenant_id, idempotency_key)
          Keyed,        \* events whose handler inserts a row under a unique key
          Pausable,     \* events of a type that a feature setting blocks
          Workers,      \* concurrent workers
          NoWorker,     \* an unlocked row
          NoEvent,      \* event_row_id is None
          MaxAttempts,  \* maximum_attempts
          MaxReplays    \* bound: operator replays per event

ASSUME InboxAssumption ==
  /\ Keyed \subseteq Events /\ Pausable \subseteq Events
  /\ \A e \in Events : Key[e] \in Nat
  /\ NoWorker \notin Workers
  /\ NoEvent \notin Events
  /\ IsFiniteSet(Events) /\ IsFiniteSet(Workers)
  /\ MaxAttempts \in Nat \ {0}
  /\ MaxReplays \in Nat

VARIABLES
  message,    \* the event's SQS message (external)
  arrivals,   \* number of rows stored so far
  received,   \* received_at as a position, 0 when the event has no row
  processed,  \* processed_at is set
  tries,      \* processing_attempts
  failed,     \* error_code is set
  lock,       \* the worker whose transaction holds the row's lock
  pc,         \* where _process_one of a worker is
  job,        \* the worker's event_row_id
  seen,       \* processing_attempts as the worker's session last read it
  marked,     \* ... and whether it read an error_code
  paused,     \* the worker's blocked_event_types hold the pausable types
  effects,    \* handler effects committed for the event
  replays,    \* operator replays of the event
  reopened    \* replays of the event after it was processed

queueVars == <<message, arrivals, received>>
rowVars == <<processed, tries, failed>>
workerVars == <<pc, job, seen, marked>>
historyVars == <<effects, replays, reopened>>
vars == <<queueVars, rowVars, lock, workerVars, paused, historyVars>>

\* Every variable has its type.
TypeOK ==
  /\ message \in [Events -> {"unsent", "visible", "inflight", "stored", "deleted"}]
  /\ arrivals \in 0 .. Cardinality(Events)
  /\ received \in [Events -> Nat]
  /\ processed \in [Events -> BOOLEAN]
  /\ tries \in [Events -> Nat]
  /\ failed \in [Events -> BOOLEAN]
  /\ lock \in [Events -> Workers \cup {NoWorker}]
  /\ pc \in [Workers -> {"idle", "handling", "failed", "counting"}]
  /\ job \in [Workers -> Events \cup {NoEvent}]
  /\ seen \in [Workers -> Nat]
  /\ marked \in [Workers -> BOOLEAN]
  /\ paused \in [Workers -> BOOLEAN]
  /\ effects \in [Events -> Nat]
  /\ replays \in [Events -> 0 .. MaxReplays]
  /\ reopened \in [Events -> Nat]

Init ==
  /\ message = [e \in Events |-> "unsent"]
  /\ arrivals = 0
  /\ received = [e \in Events |-> 0]
  /\ processed = [e \in Events |-> FALSE]
  /\ tries = [e \in Events |-> 0]
  /\ failed = [e \in Events |-> FALSE]
  /\ lock = [e \in Events |-> NoWorker]
  /\ pc = [w \in Workers |-> "idle"]
  /\ job = [w \in Workers |-> NoEvent]
  /\ seen = [w \in Workers |-> 0]
  /\ marked = [w \in Workers |-> FALSE]
  /\ paused \in [Workers -> BOOLEAN]
  /\ effects = [e \in Events |-> 0]
  /\ replays = [e \in Events |-> 0]
  /\ reopened = [e \in Events |-> 0]

-----------------------------------------------------------------------------
(* Ingress. *)

Stored(e) == received[e] > 0

\* Mutation: neither unique constraint exists.
DuplicateMissed(e) == FALSE

\* One of the two unique constraints finds a row: the same event, or another
\* one of the tenant with the same idempotency key.
Duplicate(e) == \E f \in Events : Stored(f) /\ Key[f] = Key[e]

\* accept(): the row is inserted, or the answer is "duplicate".
Accept(e) ==
  IF Duplicate(e)
    THEN UNCHANGED <<arrivals, received>>
    ELSE /\ arrivals' = arrivals + 1
         /\ received' = [received EXCEPT ![e] = arrivals + 1]

\* External: a producer sends the event to the queue.
Send(e) ==
  /\ message[e] = "unsent"
  /\ message' = [message EXCEPT ![e] = "visible"]
  /\ UNCHANGED <<arrivals, received, rowVars, lock, workerVars, paused,
                 historyVars>>

\* receive(): the message is hidden for its visibility timeout.
Receive(e) ==
  /\ message[e] = "visible"
  /\ message' = [message EXCEPT ![e] = "inflight"]
  /\ UNCHANGED <<arrivals, received, rowVars, lock, workerVars, paused,
                 historyVars>>

\* run_worker stores the event of a received message.
AcceptMessage(e) ==
  /\ message[e] = "inflight"
  /\ Accept(e)
  /\ message' = [message EXCEPT ![e] = "stored"]
  /\ UNCHANGED <<rowVars, lock, workerVars, paused, historyVars>>

\* External: the visibility timeout passes, or the receiver died.
Redeliver(e) ==
  /\ message[e] \in {"inflight", "stored"}
  /\ message' = [message EXCEPT ![e] = "visible"]
  /\ UNCHANGED <<arrivals, received, rowVars, lock, workerVars, paused,
                 historyVars>>

\* Mutation: the message is deleted once it is received.
DeletableEarly(e) == message[e] \in {"inflight", "stored"}

\* run_worker deletes a message whose event was accepted.
Deletable(e) == message[e] = "stored"

Delete(e) ==
  /\ Deletable(e)
  /\ message' = [message EXCEPT ![e] = "deleted"]
  /\ UNCHANGED <<arrivals, received, rowVars, lock, workerVars, paused,
                 historyVars>>

\* The same event over a signed HTTP route that lets its sender and target
\* pass; a duplicate changes nothing.
AcceptHttp(e) ==
  /\ ~ Duplicate(e)
  /\ Accept(e)
  /\ UNCHANGED <<message, rowVars, lock, workerVars, paused, historyVars>>

-----------------------------------------------------------------------------
(* _process_one. *)

\* blocked_event_types, fixed when the worker's process builds its container.
Blocked(w) == IF paused[w] THEN Pausable ELSE {}

\* Mutation: rows are claimed without FOR UPDATE.
ClaimableUnlocked(w, e) ==
  /\ Stored(e) /\ ~ processed[e]
  /\ tries[e] < MaxAttempts
  /\ e \notin Blocked(w)

\* The rows the SELECT ... FOR UPDATE SKIP LOCKED of worker w sees.
Claimable(w, e) ==
  /\ Stored(e) /\ ~ processed[e]
  /\ tries[e] < MaxAttempts
  /\ e \notin Blocked(w)
  /\ lock[e] = NoWorker

\* A worker claims the row received first.
Claim(w, e) ==
  /\ pc[w] = "idle"
  /\ Claimable(w, e)
  /\ \A f \in Events : Claimable(w, f) => received[e] <= received[f]
  /\ lock' = [lock EXCEPT ![e] = w]
  /\ pc' = [pc EXCEPT ![w] = "handling"]
  /\ job' = [job EXCEPT ![w] = e]
  /\ seen' = [seen EXCEPT ![w] = tries[e]]
  /\ UNCHANGED <<queueVars, rowVars, marked, paused, historyVars>>

\* _process_one ends and its locals with it.
Return(w) ==
  /\ pc' = [pc EXCEPT ![w] = "idle"]
  /\ job' = [job EXCEPT ![w] = NoEvent]
  /\ seen' = [seen EXCEPT ![w] = 0]
  /\ marked' = [marked EXCEPT ![w] = FALSE]

\* The handler succeeds; its effect and the row are committed together.  A
\* unique key refuses a second effect.
Commit(w) ==
  LET e == job[w] IN
  /\ pc[w] = "handling"
  /\ e \in Keyed => effects[e] = 0
  /\ effects' = [effects EXCEPT ![e] = @ + 1]
  /\ processed' = [processed EXCEPT ![e] = TRUE]
  /\ tries' = [tries EXCEPT ![e] = seen[w] + 1]
  /\ failed' = [failed EXCEPT ![e] = FALSE]
  /\ lock' = [lock EXCEPT ![e] = NoWorker]
  /\ Return(w)
  /\ UNCHANGED <<queueVars, paused, replays, reopened>>

\* The handler raises; its transaction is rolled back and the lock released.
Rollback(w) ==
  /\ pc[w] = "handling"
  /\ lock' = [lock EXCEPT ![job[w]] = NoWorker]
  /\ pc' = [pc EXCEPT ![w] = "failed"]
  /\ UNCHANGED <<queueVars, rowVars, job, seen, marked, paused, historyVars>>

\* The failure session reads the row, without locking it ...
ReadFailed(w) ==
  /\ pc[w] = "failed"
  /\ pc' = [pc EXCEPT ![w] = "counting"]
  /\ seen' = [seen EXCEPT ![w] = tries[job[w]]]
  /\ marked' = [marked EXCEPT ![w] = failed[job[w]]]
  /\ UNCHANGED <<queueVars, rowVars, lock, job, paused, historyVars>>

\* Mutation: the failed attempt is not counted.
CountedNot(w) == seen[w]

\* The count the failure session writes.
Counted(w) == seen[w] + 1

\* ... and writes the count it read plus one over whatever the row holds by then.
\* The mapper writes error_code only if the row it read had none.  The write
\* waits for another transaction's row lock.
WriteFailed(w) ==
  LET e == job[w] IN
  /\ pc[w] = "counting"
  /\ lock[e] = NoWorker
  /\ tries' = [tries EXCEPT ![e] = Counted(w)]
  /\ failed' = [failed EXCEPT ![e] = @ \/ ~ marked[w]]
  /\ Return(w)
  /\ UNCHANGED <<queueVars, processed, lock, paused, historyVars>>

\* The worker is killed: its transaction is rolled back, nothing is counted.
Crash(w) ==
  /\ pc[w] # "idle"
  /\ lock' = [lock EXCEPT ![job[w]] = IF @ = w THEN NoWorker ELSE @]
  /\ Return(w)
  /\ UNCHANGED <<queueVars, rowVars, paused, historyVars>>

\* The service is started again with the pausing setting changed.
Restart(w) ==
  /\ pc[w] = "idle"
  /\ paused' = [paused EXCEPT ![w] = ~ @]
  /\ UNCHANGED <<queueVars, rowVars, lock, workerVars, historyVars>>

\* replay_inbox_event: a failed row, or on request a processed one, starts
\* again.  Pending rows are refused; the row is locked while it is reset.
Replay(e) ==
  /\ replays[e] < MaxReplays
  /\ Stored(e)
  /\ processed[e] \/ failed[e]
  /\ lock[e] = NoWorker
  /\ processed' = [processed EXCEPT ![e] = FALSE]
  /\ tries' = [tries EXCEPT ![e] = 0]
  /\ failed' = [failed EXCEPT ![e] = FALSE]
  /\ replays' = [replays EXCEPT ![e] = @ + 1]
  /\ reopened' = [reopened EXCEPT ![e] = IF processed[e] THEN @ + 1 ELSE @]
  /\ UNCHANGED <<queueVars, lock, workerVars, paused, effects>>

-----------------------------------------------------------------------------
Ingress(e) ==
  Send(e) \/ Receive(e) \/ AcceptMessage(e) \/ Delete(e) \/ AcceptHttp(e)

Work(w) ==
  \/ \E e \in Events : Claim(w, e)
  \/ Commit(w) \/ Rollback(w) \/ ReadFailed(w) \/ WriteFailed(w)

CalmNext == (\E e \in Events : Ingress(e)) \/ (\E w \in Workers : Work(w))

Next ==
  \/ CalmNext
  \/ \E e \in Events : Redeliver(e) \/ Replay(e)
  \/ \E w \in Workers : Crash(w) \/ Restart(w)

Spec == Init /\ [][Next]_vars

\* Every worker keeps running its loop, and from some time on no worker is
\* killed and the settings stay as they are.  Nothing is assumed of producers
\* and operators, messages may be redelivered and handlers may fail as often as
\* they like.
FairSpec ==
  /\ Spec
  /\ \A w \in Workers : WF_vars(Work(w))
  /\ <>[][\A w \in Workers : ~ (Crash(w) \/ Restart(w))]_vars

-----------------------------------------------------------------------------
(* Properties. *)

\* A row is marked processed exactly when its effect was committed, once for
\* every time it was opened, although deliveries, claims, failures, crashes
\* and late failure counts interleave; an event whose handler inserts a unique
\* key has its effect once even when it is replayed (ADR-004: exactly-once
\* business effect through durable uniqueness).
EffectsMatch ==
  \A e \in Events :
    /\ effects[e] = reopened[e] + (IF processed[e] THEN 1 ELSE 0)
    /\ e \in Keyed => effects[e] <= 1

\* A worker inside a handler owns its row, which is stored and not yet
\* processed, and knows its current attempt count.
RowOwned ==
  /\ \A w \in Workers : pc[w] = "handling" =>
       /\ lock[job[w]] = w
       /\ Stored(job[w])
       /\ ~ processed[job[w]]
       /\ seen[w] = tries[job[w]]
       /\ seen[w] < MaxAttempts
  /\ \A e \in Events : lock[e] # NoWorker =>
       pc[lock[e]] = "handling" /\ job[lock[e]] = e

\* docs/runbooks/sqs-backlog-and-dlq.md: a message is deleted only after its
\* event, or one with its idempotency key, is stored by accept().
DeletedIsStored == \A e \in Events : message[e] = "deleted" => Duplicate(e)

\* accept() stores an idempotency key once, whatever the redeliveries and the
\* HTTP route do: one row per event and no two rows with one key.
StoredOnce ==
  /\ arrivals = Cardinality({e \in Events : Stored(e)})
  /\ \A e, f \in Events : Stored(e) /\ Stored(f) /\ Key[e] = Key[f] => e = f

\* Ingress neither loses nor doubles an event, whatever SQS redelivers and the
\* HTTP route accepts at the same time (accept, run_worker).
IngressSound == DeletedIsStored /\ StoredOnce

\* Late failure counts may lower a row's attempts, and a replay opens it again,
\* and still every stored event ends for good once workers stop dying and the
\* settings stay: processed, out of attempts, or, when its type is blocked in
\* every worker, left in the queue (docs/integration/onboarding-contract.md).
\* No row is retried for ever, and one worker that is not blocked is enough.
EventSettles ==
  \A e \in Events :
    Stored(e) ~> [](\/ processed[e]
                    \/ tries[e] >= MaxAttempts
                    \/ e \in Pausable /\ \A w \in Workers : paused[w])
=============================================================================
