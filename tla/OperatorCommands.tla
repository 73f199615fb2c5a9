--------------------------- MODULE OperatorCommands ---------------------------
(***************************************************************************)
(* The audited commands: the DLQ redrive of cli/redrive_dlq.py, which      *)
(* reserves, calls SQS and records in three steps, the retention cleanup   *)
(* of cli/retention_cleanup.py, and the audit chain to which both append   *)
(* in the transaction that records what they did.  Replay, reconciliation  *)
(* and drift evaluation append in the same way, the latter two with a time *)
(* taken when they start, like the cleanup.                                *)
(*                                                                         *)
(* A run is one invocation of a command; a retry is another run with the   *)
(* same operation key.  Transactions are READ COMMITTED: SELECT ... FOR    *)
(* UPDATE chooses its row in the snapshot of its start, waits for the      *)
(* row's lock and keeps that row even if a later one exists by then.       *)
(***************************************************************************)
EXTENDS Naturals, Sequences, FiniteSets

CONSTANTS Redrives,     \* runs of the redrive command
          Cleanups,     \* runs of the retention cleanup
          Keys, OpKey,  \* operation keys, and the key of a redrive
          Hashes, Hash, \* request hashes, and the hash of a redrive
          NoHash,
          Records,      \* rows the cleanup may erase, of any of its tables
          QueueRows,    \* those of agent_inbox and agent_outbox
          RetainUntil,  \* their retain_until
          BatchSize,    \* batch_size
          MaxTime       \* bound of the clock

ASSUME OperatorAssumption ==
  /\ Redrives \cap Cleanups = {}
  /\ OpKey \in [Redrives -> Keys]
  /\ Hash \in [Redrives -> Hashes]
  /\ NoHash \notin Hashes
  /\ QueueRows \subseteq Records
  /\ RetainUntil \in [Records -> Nat]
  /\ IsFiniteSet(Records)
  /\ BatchSize \in Nat \ {0}
  /\ MaxTime \in Nat

VARIABLES
  clock,
  status,   \* provider_requests.status of an operation key
  boundTo,  \* provider_requests.request_hash
  tasks,    \* message-move tasks SQS has started for the key (external)
  pc,       \* where a run is
  result,   \* how the run ended
  event,    \* the audit event it is going to append
  at,       \* its occurred_at
  tail,     \* the audit event its SELECT ... FOR UPDATE chose, 0: none
  seen,     \* number of audit events committed when it chose
  batch,    \* the rows a cleanup has locked
  row,      \* "open": not processed or published yet, "done", "erased": deleted
            \* or emptied
  held,     \* legal_hold
  erasedBy, \* the cleanups that have erased the row
  log       \* audit_events of the tenant, in the order of their ids

redriveVars == <<status, boundTo, tasks>>
chainVars == <<event, at, tail, seen>>
recordVars == <<row, held, erasedBy>>
vars == <<clock, redriveVars, pc, result, chainVars, batch, recordVars, log>>

Runs == Redrives \cup Cleanups
Statuses == {"none", "reserved", "succeeded", "failed"}
Events == {"none", "redrive_started", "redrive_failed", "cleanup"}
Results ==
  {"none", "started", "failed", "duplicate", "conflict", "uncertain", "raised",
   "cleaned", "crashed"}

\* run: who appended; prev: the event whose hash it carries; n: rows erased.
Entries ==
  [run : Runs, event : Events, at : Nat, prev : Nat, seen : Nat, n : Nat]

\* Every variable has its type, and a cleanup locks no more than its batch.
TypeOK ==
  /\ clock \in 0 .. MaxTime
  /\ status \in [Keys -> Statuses]
  /\ boundTo \in [Keys -> Hashes \cup {NoHash}]
  /\ tasks \in [Keys -> Nat]
  /\ pc \in [Runs -> {"idle", "looked", "reserved", "begun", "ready", "chosen",
                      "locked", "done"}]
  /\ result \in [Runs -> Results]
  /\ event \in [Runs -> Events]
  /\ at \in [Runs -> 0 .. MaxTime]
  /\ tail \in [Runs -> Nat]
  /\ seen \in [Runs -> Nat]
  /\ batch \in [Cleanups -> SUBSET Records]
  /\ \A c \in Cleanups : Cardinality(batch[c]) <= BatchSize
  /\ row \in [Records -> {"open", "done", "erased"}]
  /\ held \in [Records -> BOOLEAN]
  /\ erasedBy \in [Records -> SUBSET Cleanups]
  /\ log \in Seq(Entries)

Init ==
  /\ clock = 0
  /\ status = [k \in Keys |-> "none"]
  /\ boundTo = [k \in Keys |-> NoHash]
  /\ tasks = [k \in Keys |-> 0]
  /\ pc = [r \in Runs |-> "idle"]
  /\ result = [r \in Runs |-> "none"]
  /\ event = [r \in Runs |-> "none"]
  /\ at = [r \in Runs |-> 0]
  /\ tail = [r \in Runs |-> 0]
  /\ seen = [r \in Runs |-> 0]
  /\ batch = [c \in Cleanups |-> {}]
  /\ row = [x \in Records |-> "open"]
  /\ held = [x \in Records |-> FALSE]
  /\ erasedBy = [x \in Records |-> {}]
  /\ log = <<>>

-----------------------------------------------------------------------------
(* redrive_dlq. *)

\* A run ends, and its locals with it.
Ends(r, how) ==
  /\ pc' = [pc EXCEPT ![r] = "done"]
  /\ result' = [result EXCEPT ![r] = how]
  /\ event' = [event EXCEPT ![r] = "none"]
  /\ at' = [at EXCEPT ![r] = 0]
  /\ tail' = [tail EXCEPT ![r] = 0]
  /\ seen' = [seen EXCEPT ![r] = 0]

\* Mutation: a reservation is taken for a finished redrive.
AnswerEarly(r) == IF boundTo[OpKey[r]] # Hash[r] THEN "conflict" ELSE "duplicate"

\* The answer to a run whose key is known.
Answer(r) ==
  IF boundTo[OpKey[r]] # Hash[r] THEN "conflict"
  ELSE IF status[OpKey[r]] = "succeeded" THEN "duplicate"
  ELSE "uncertain"

\* The first transaction looks the key up.
Look(r) ==
  /\ pc[r] = "idle"
  /\ \/ /\ status[OpKey[r]] = "none"
        /\ pc' = [pc EXCEPT ![r] = "looked"]
        /\ UNCHANGED <<result, chainVars>>
     \/ /\ status[OpKey[r]] # "none"
        /\ Ends(r, Answer(r))
  /\ UNCHANGED <<clock, redriveVars, batch, recordVars, log>>

\* Mutation: there is no unique key.
InsertableAlways(r) == TRUE

\* The unique key of provider_requests.
Insertable(r) == status[OpKey[r]] = "none"

\* ... and inserts the reservation, or fails because another run was faster.
Reserve(r) ==
  /\ pc[r] = "looked"
  /\ \/ /\ Insertable(r)
        /\ status' = [status EXCEPT ![OpKey[r]] = "reserved"]
        /\ boundTo' = [boundTo EXCEPT ![OpKey[r]] = Hash[r]]
        /\ pc' = [pc EXCEPT ![r] = "reserved"]
        /\ UNCHANGED <<result, chainVars>>
     \/ /\ ~ Insertable(r)
        /\ Ends(r, "raised")
        /\ UNCHANGED <<status, boundTo>>
  /\ UNCHANGED <<clock, tasks, batch, recordVars, log>>

\* start_redrive.  The call may fail before or after SQS has started the task
\* (a timeout, an answer without a task handle).
CallSqs(r) ==
  /\ pc[r] = "reserved"
  /\ \E n \in {0, 1}, e \in {"redrive_started", "redrive_failed"} :
       /\ e = "redrive_started" => n = 1
       /\ tasks' = [tasks EXCEPT ![OpKey[r]] = @ + n]
       /\ event' = [event EXCEPT ![r] = e]
  /\ pc' = [pc EXCEPT ![r] = "ready"]
  /\ UNCHANGED <<clock, status, boundTo, result, at, tail, seen, batch,
                 recordVars, log>>

-----------------------------------------------------------------------------
(* append_audit_event. *)

\* Mutation: events of the same time are not ordered by their id.
LastEventUntied ==
  IF log = <<>> THEN 0
  ELSE CHOOSE i \in DOMAIN log : \A j \in DOMAIN log :
         log[i].at > log[j].at \/ (log[i].at = log[j].at /\ i <= j)

\* ORDER BY occurred_at DESC, id DESC LIMIT 1.
LastEvent ==
  IF log = <<>> THEN 0
  ELSE CHOOSE i \in DOMAIN log : \A j \in DOMAIN log :
         log[i].at > log[j].at \/ (log[i].at = log[j].at /\ i >= j)

\* The SELECT chooses the predecessor.  A redrive takes its time here, a
\* cleanup took it when it started.
ChooseTail(r) ==
  /\ pc[r] = "ready"
  /\ at' = [at EXCEPT ![r] = IF r \in Redrives THEN clock ELSE @]
  /\ tail' = [tail EXCEPT ![r] = LastEvent]
  /\ seen' = [seen EXCEPT ![r] = Len(log)]
  /\ pc' = [pc EXCEPT ![r] = "chosen"]
  /\ UNCHANGED <<clock, redriveVars, result, event, batch, recordVars, log>>

\* Nobody holds the lock of the chosen row; an empty chain has no row to lock.
Lockable(r) ==
  \A q \in Runs : tail[q] = tail[r] /\ tail[r] # 0 => pc[q] # "locked"

\* ... and gets the row once its lock is free.
LockTail(r) ==
  /\ pc[r] = "chosen"
  /\ Lockable(r)
  /\ pc' = [pc EXCEPT ![r] = "locked"]
  /\ UNCHANGED <<clock, redriveVars, result, chainVars, batch, recordVars, log>>

\* The event is inserted; its hash covers the predecessor's.
Appended(r, n) ==
  Append(log, [run |-> r, event |-> event[r], at |-> at[r], prev |-> tail[r],
               seen |-> seen[r], n |-> n])

\* Mutation: the failed call is recorded like a started one.
OutcomeOptimistic(r) == "succeeded"

\* What the last transaction of a redrive writes.
Outcome(r) == IF event[r] = "redrive_started" THEN "succeeded" ELSE "failed"

\* The redrive's outcome and its audit event are committed together.
RecordRedrive(r) ==
  /\ pc[r] = "locked"
  /\ status' = [status EXCEPT ![OpKey[r]] = Outcome(r)]
  /\ log' = Appended(r, 0)
  /\ Ends(r, IF event[r] = "redrive_started" THEN "started" ELSE "failed")
  /\ UNCHANGED <<clock, boundTo, tasks, batch, recordVars>>

-----------------------------------------------------------------------------
(* run_retention_cleanup.  Its tables are worked on one after the other in   *)
(* one transaction and share no row; Records stands for any of them.         *)

\* effective_now is taken before the transaction.
BeginCleanup(c) ==
  /\ pc[c] = "idle"
  /\ at' = [at EXCEPT ![c] = clock]
  /\ pc' = [pc EXCEPT ![c] = "begun"]
  /\ UNCHANGED <<clock, redriveVars, result, event, tail, seen, batch,
                 recordVars, log>>

RowLocked(x) == \E c \in Cleanups : x \in batch[c]

\* The two queues keep a row until it is processed or published; the payloads of
\* provider webhooks and messages, meeting links and demo identifiers are erased
\* whatever has become of their row.
Erasable(x) == row[x] = "done" \/ (x \notin QueueRows /\ row[x] = "open")

\* Mutation: the rows are selected without FOR UPDATE SKIP LOCKED.
SelectableLocked(c, x) == Erasable(x) /\ RetainUntil[x] <= at[c] /\ ~ held[x]

\* Mutation: legal_hold is not asked for.
SelectableHeld(c, x) ==
  Erasable(x) /\ RetainUntil[x] <= at[c] /\ ~ RowLocked(x)

\* The rows the cleanup may lock.
Selectable(c, x) ==
  Erasable(x) /\ RetainUntil[x] <= at[c] /\ ~ held[x] /\ ~ RowLocked(x)

FitsBatch(b) == Cardinality(b) <= BatchSize

\* SELECT ... LIMIT batch_size FOR UPDATE SKIP LOCKED: as many as there are.
SelectBatch(c) ==
  /\ pc[c] = "begun"
  /\ \E b \in SUBSET {x \in Records : Selectable(c, x)} :
       /\ FitsBatch(b)
       /\ \A x \in Records \ b : Selectable(c, x) => ~ FitsBatch(b \cup {x})
       /\ batch' = [batch EXCEPT ![c] = b]
  /\ event' = [event EXCEPT ![c] = "cleanup"]
  /\ pc' = [pc EXCEPT ![c] = "ready"]
  /\ UNCHANGED <<clock, redriveVars, result, at, tail, seen, recordVars, log>>

\* The rows are erased and counted in the audit event, in one commit.
CommitCleanup(c) ==
  /\ pc[c] = "locked"
  /\ row' = [x \in Records |-> IF x \in batch[c] THEN "erased" ELSE row[x]]
  /\ erasedBy' = [x \in Records |->
                    IF x \in batch[c] THEN erasedBy[x] \cup {c} ELSE erasedBy[x]]
  /\ log' = Appended(c, Cardinality(batch[c]))
  /\ batch' = [batch EXCEPT ![c] = {}]
  /\ Ends(c, "cleaned")
  /\ UNCHANGED <<clock, redriveVars, held>>

-----------------------------------------------------------------------------
(* The surroundings. *)

\* A command is killed; its open transaction is rolled back.
Crash(r) ==
  /\ pc[r] \notin {"idle", "done"}
  /\ Ends(r, "crashed")
  /\ batch' = [c \in Cleanups |-> IF c = r THEN {} ELSE batch[c]]
  /\ UNCHANGED <<clock, redriveVars, recordVars, log>>

\* External: the row is processed, or an operator reopens it; the write waits
\* for a cleanup that has locked the row.
Turn(x) ==
  /\ ~ RowLocked(x)
  /\ \/ row[x] = "open" /\ row' = [row EXCEPT ![x] = "done"]
     \/ row[x] = "done" /\ row' = [row EXCEPT ![x] = "open"]
  /\ UNCHANGED <<clock, redriveVars, pc, result, chainVars, batch, held,
                 erasedBy, log>>

\* External: a legal hold is put on the row or lifted.
LegalHold(x) ==
  /\ ~ RowLocked(x)
  /\ row[x] # "erased"
  /\ held' = [held EXCEPT ![x] = ~ @]
  /\ UNCHANGED <<clock, redriveVars, pc, result, chainVars, batch, row,
                 erasedBy, log>>

\* External: time passes.
Tick ==
  /\ clock < MaxTime
  /\ clock' = clock + 1
  /\ UNCHANGED <<redriveVars, pc, result, chainVars, batch, recordVars, log>>

Redrive(r) == Look(r) \/ Reserve(r) \/ CallSqs(r) \/ RecordRedrive(r)
Cleanup(c) == BeginCleanup(c) \/ SelectBatch(c) \/ CommitCleanup(c)
AppendEvent(r) == ChooseTail(r) \/ LockTail(r)

Step(r) ==
  \/ r \in Redrives /\ Redrive(r)
  \/ r \in Cleanups /\ Cleanup(r)
  \/ AppendEvent(r)

Next ==
  \/ \E r \in Runs : Step(r) \/ Crash(r)
  \/ \E x \in Records : Turn(x) \/ LegalHold(x)
  \/ Tick

Spec == Init /\ [][Next]_vars

-----------------------------------------------------------------------------
(* Properties. *)

\* However many operators retry a redrive, and wherever a run dies, SQS is
\* asked to move the messages at most once per operation key.
StartedOnce == \A k \in Keys : tasks[k] <= 1

\* A run that reports a redrive as started or as a duplicate speaks of the one
\* task that SQS has really started, for the very request of this run.
AnswerTrue ==
  \A r \in Redrives : result[r] \in {"started", "duplicate"} =>
    /\ tasks[OpKey[r]] = 1
    /\ status[OpKey[r]] = "succeeded"
    /\ boundTo[OpKey[r]] = Hash[r]

\* The entries of the audit log for a key.
Audited(k, e) ==
  {i \in DOMAIN log : log[i].event = e /\ log[i].run \in Redrives
                      /\ OpKey[log[i].run] = k}

\* However operators race and runs die, SQS is asked once per operation key and
\* every answer speaks of that one task (redrive_dlq).
RedriveTrue == StartedOnce /\ AnswerTrue

\* The audit log and provider_requests tell the same story of every redrive:
\* one event for a recorded outcome and none for an uncertain one.
RedriveAudited ==
  \A k \in Keys :
    /\ Cardinality(Audited(k, "redrive_started"))
         = (IF status[k] = "succeeded" THEN 1 ELSE 0)
    /\ Cardinality(Audited(k, "redrive_failed"))
         = (IF status[k] = "failed" THEN 1 ELSE 0)

\* The chain forks (two events carry the hash of one predecessor) only if the
\* second was under way before the first was committed, the row lock of
\* append_audit_event notwithstanding, or if the first is dated before its own
\* predecessor, as events of scheduled commands may be.
ForksExplained ==
  \A i, j \in DOMAIN log :
    i < j /\ log[i].prev = log[j].prev =>
      \/ log[j].seen < i
      \/ log[i].prev # 0 /\ log[i].at < log[log[i].prev].at

\* Concurrent cleanups share the due rows between them: a row is erased once,
\* and the audit events count every erased row once.
CountsTrue ==
  /\ \A x \in Records : Cardinality(erasedBy[x]) <= 1
  /\ \A i \in DOMAIN log : log[i].event = "cleanup" =>
       log[i].n = Cardinality({x \in Records : log[i].run \in erasedBy[x]})

\* No cleanup erases a row that is on legal hold at the time of its commit, nor an
\* inbox or outbox row that is not processed then, although it checked them
\* earlier in its transaction.  A provider webhook that is not processed is not
\* protected: only the two queues ask for it.
ProtectedKept ==
  [][\A x \in Records :
       /\ held[x] \/ (x \in QueueRows /\ row[x] = "open")
       /\ row[x] # "erased"
       => row'[x] # "erased"]_vars
=============================================================================
