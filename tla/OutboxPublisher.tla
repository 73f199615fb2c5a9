--------------------------- MODULE OutboxPublisher ---------------------------
(***************************************************************************)
(* DurableOutboxPublisher.publish_batch, run by several worker processes   *)
(* on one agent_outbox table: a batch of due rows is selected and locked,  *)
(* its rows are delivered one after the other, and ONE commit serves the   *)
(* whole batch.  A commit that fails, or a process that dies, gives every  *)
(* row of the batch back, the delivered ones too.                          *)
(*                                                                         *)
(* Time is counted in seconds relative to the present: wait[r] is what is  *)
(* left until available_at, negative once it has passed.  What a recorder  *)
(* writes is the subject of PaymentSaga and OnboardingSaga.                *)
(***************************************************************************)
EXTENDS Integers, FiniteSets, FiniteSetsExt

CONSTANTS Rows,         \* agent_outbox rows
          Publishers,   \* worker processes
          Pausable,     \* rows whose target the settings may block
          BatchSize,
          MaxAttempts,  \* maximum_attempts
          MaxWait,      \* longest back-off of a row that is tried again
          Patience,     \* how long a due row's age is told apart
          MaxLosses     \* bound of the batches lost before their commit

ASSUME OutboxAssumption ==
  /\ Pausable \subseteq Rows
  /\ IsFiniteSet(Rows)
  /\ {BatchSize, MaxAttempts} \subseteq Nat \ {0}
  /\ {MaxWait, Patience, MaxLosses} \subseteq Nat

VARIABLES
  stored,     \* rows that exist
  published,  \* rows with published_at
  attempts,   \* agent_outbox.attempts
  wait,       \* seconds until available_at
  paused,     \* blocked_targets of a process hold the pausable targets
  batch,      \* rows a process has selected and locked
  ok, failed, \* rows of its batch it has worked on, by the outcome
  age,        \* seconds since its batch was selected
  reached,    \* rows of its batch whose call reached the provider
  calls,      \* calls that reached the provider (external)
  lost,       \* those whose batch was lost afterwards
  losses      \* number of batches lost

rowVars == <<stored, published, attempts, wait>>
batchVars == <<batch, ok, failed, age, reached>>
vars == <<rowVars, paused, batchVars, calls, lost, losses>>

\* Every variable has its type, and no row is tried too often.
TypeOK ==
  /\ stored \in SUBSET Rows
  /\ published \in SUBSET Rows
  /\ attempts \in [Rows -> 0 .. MaxAttempts]
  /\ wait \in [Rows -> Int]
  /\ paused \in [Publishers -> BOOLEAN]
  /\ \A f \in {batch, ok, failed, reached} : f \in [Publishers -> SUBSET Rows]
  /\ age \in [Publishers -> Nat]
  /\ calls \in [Rows -> Nat]
  /\ lost \in [Rows -> Nat]
  /\ losses \in 0 .. MaxLosses

NoRows == [p \in Publishers |-> {}]

Init ==
  /\ stored = {} /\ published = {}
  /\ attempts = [r \in Rows |-> 0]
  /\ wait = [r \in Rows |-> 0]
  /\ paused \in [Publishers -> BOOLEAN]
  /\ batch = NoRows /\ ok = NoRows /\ failed = NoRows /\ reached = NoRows
  /\ age = [p \in Publishers |-> 0]
  /\ calls = [r \in Rows |-> 0]
  /\ lost = [r \in Rows |-> 0]
  /\ losses = 0

-----------------------------------------------------------------------------
\* A business transaction inserts the row, available at once.
Enqueue(r) ==
  /\ r \notin stored
  /\ stored' = stored \cup {r}
  /\ wait' = [wait EXCEPT ![r] = 0]
  /\ UNCHANGED <<published, attempts, paused, batchVars, calls, lost, losses>>

\* Mutation: rows another publisher works on are selected too.
LockedNone(p) == {}

\* The rows FOR UPDATE SKIP LOCKED passes over.
Locked(p) == UNION {batch[q] : q \in Publishers}

\* Mutation: a row that failed once is not selected again.
DueOnce == {r \in stored \ published : wait[r] <= 0 /\ attempts[r] = 0}

\* The rows the select statement asks for.
Due == {r \in stored \ published : wait[r] <= 0 /\ attempts[r] < MaxAttempts}

\* The rows whose target the process does not deliver to.
Blocked(p) == IF paused[p] THEN Pausable ELSE {}

\* order_by(available_at).limit(batch_size): as many as fit, the oldest first.
Selection(p, rows) ==
  LET open == Due \ (Blocked(p) \cup Locked(p)) IN
  /\ rows \subseteq open
  /\ Cardinality(rows) = Min({BatchSize, Cardinality(open)})
  /\ \A r \in rows, s \in open \ rows : wait[r] <= wait[s]

\* publish_batch begins: now is read and the rows are locked.
SelectBatch(p) ==
  /\ batch[p] = {}
  /\ \E rows \in SUBSET Due :
       /\ rows # {}
       /\ Selection(p, rows)
       /\ batch' = [batch EXCEPT ![p] = rows]
  /\ age' = [age EXCEPT ![p] = 0]
  /\ UNCHANGED <<rowVars, paused, ok, failed, reached, calls, lost, losses>>

\* The row a publisher works on now: the oldest it has not worked on.
Current(p, r) ==
  LET todo == batch[p] \ (ok[p] \cup failed[p]) IN
  r \in todo /\ \A s \in todo : wait[r] <= wait[s]

\* The call reaches the provider.
Call(p, r) ==
  /\ reached' = [reached EXCEPT ![p] = @ \cup {r}]
  /\ calls' = [calls EXCEPT ![r] = @ + 1]

\* The row is delivered and recorded.
Deliver(p, r) ==
  /\ Current(p, r)
  /\ Call(p, r)
  /\ ok' = [ok EXCEPT ![p] = @ \cup {r}]
  /\ UNCHANGED <<rowVars, paused, batch, failed, age, lost, losses>>

\* The except branch.  The call may not have been made (decryption, routing),
\* or have failed, or have been answered too late or in a way that the recorder
\* refuses.
DeliveryFails(p, r) ==
  /\ Current(p, r)
  /\ Call(p, r) \/ UNCHANGED <<reached, calls>>
  /\ failed' = [failed EXCEPT ![p] = @ \cup {r}]
  /\ UNCHANGED <<rowVars, paused, batch, ok, age, lost, losses>>

\* min(300, 2 ** attempts) seconds.
Backoff(n) == Min({300, 2 ^ n})

\* The process holds no row any more.
EndBatch(p) ==
  /\ batch' = [batch EXCEPT ![p] = {}]
  /\ ok' = [ok EXCEPT ![p] = {}]
  /\ failed' = [failed EXCEPT ![p] = {}]
  /\ age' = [age EXCEPT ![p] = 0]
  /\ reached' = [reached EXCEPT ![p] = {}]

\* What the loop assigned to its rows.
Committed(p) ==
  /\ published' = published \cup ok[p]
  /\ attempts' = [r \in Rows |-> IF r \in failed[p] THEN attempts[r] + 1 ELSE attempts[r]]

\* The one commit of the batch.  available_at counts from the batch's start.
Commit(p) ==
  /\ batch[p] # {}
  /\ batch[p] = ok[p] \cup failed[p]
  /\ Committed(p)
  /\ wait' = [r \in Rows |->
                IF r \in failed[p] THEN Backoff(attempts[r] + 1) - age[p] ELSE wait[r]]
  /\ EndBatch(p)
  /\ UNCHANGED <<stored, paused, calls, lost, losses>>

\* The flush or the commit fails, or the process dies: the transaction is
\* rolled back, whatever the providers were told.  The exception ends the
\* worker, which is started again.
LoseBatch(p) ==
  /\ batch[p] # {}
  /\ losses < MaxLosses
  /\ losses' = losses + 1
  /\ lost' = [r \in Rows |-> IF r \in reached[p] THEN lost[r] + 1 ELSE lost[r]]
  /\ EndBatch(p)
  /\ UNCHANGED <<rowVars, paused, calls>>

\* Mutation: a restart takes new settings in the middle of a batch.
StoppedAlways(p) == TRUE

\* The worker ends its loop after the batch it works on.
Stopped(p) == batch[p] = {}

\* The worker is started with other settings.
Restart(p) ==
  /\ Stopped(p)
  /\ paused' = [paused EXCEPT ![p] = ~ @]
  /\ UNCHANGED <<rowVars, batchVars, calls, lost, losses>>

\* A second passes.
Tick ==
  /\ wait' = [r \in Rows |->
                IF r \in stored \ published THEN Max({wait[r] - 1, - Patience})
                ELSE wait[r]]
  /\ age' = [p \in Publishers |-> IF batch[p] # {} THEN Min({age[p] + 1, MaxWait})
                                  ELSE age[p]]
  /\ UNCHANGED <<stored, published, attempts, paused, batch, ok, failed, reached,
                 calls, lost, losses>>

-----------------------------------------------------------------------------
\* One step of publish_batch.
Publish(p) ==
  \/ SelectBatch(p)
  \/ \E r \in Rows : Deliver(p, r) \/ DeliveryFails(p, r)
  \/ Commit(p)

Next ==
  \/ \E r \in Rows : Enqueue(r)
  \/ \E p \in Publishers : Publish(p) \/ LoseBatch(p) \/ Restart(p)
  \/ Tick

Spec == Init /\ [][Next]_vars

\* The worker loop calls publish_batch for ever and time passes.
FairSpec ==
  /\ Spec
  /\ \A p \in Publishers : WF_vars(Publish(p))
  /\ WF_vars(Tick)

-----------------------------------------------------------------------------
\* Calls for r in batches that are not yet committed.
InFlight(r) == Cardinality({p \in Publishers : r \in reached[p]})

\* No provider is called twice for a row, by whichever publishers, unless the
\* call before was recorded as a failed attempt or lost with its batch; and a
\* published row has been delivered.  This is what the idempotency keys of the
\* providers have to absorb.
RepeatsExplained ==
  \A r \in Rows :
    /\ calls[r] <= (IF r \in published THEN 1 ELSE 0)
                     + attempts[r] + lost[r] + InFlight(r)
    /\ InFlight(r) <= 1
    /\ r \in published => calls[r] > 0

\* A switch that blocks a target holds from the moment the last worker runs
\* with it: no batch contains such a row any more, whatever was under way.
PauseHolds ==
  (\A p \in Publishers : paused[p]) =>
    \A p \in Publishers : batch[p] \cap Pausable = {}

\* Every row is published or uses up its attempts, unless a worker keeps its
\* target back: rows that fail again and again, rows that are blocked and lost
\* batches do not keep the others from being delivered.
RowSettles ==
  \A r \in Rows :
    r \in stored ~>
      \/ r \in published
      \/ attempts[r] = MaxAttempts
      \/ r \in Pausable /\ \E p \in Publishers : paused[p]
=============================================================================
