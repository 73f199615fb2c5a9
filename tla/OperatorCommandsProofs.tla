------------------------ MODULE OperatorCommandsProofs ------------------------
(***************************************************************************)
(* The audited commands are safe for any number of runs, keys and rows.    *)
(* A redrive is started once because the run that reserved its key is the  *)
(* only one beyond the reservation (RedriveInv); the chain forks only when *)
(* ForksExplained says because what a run chose as its tail stays the      *)
(* last of the events it could see (ChainInv); a cleanup erases no         *)
(* protected row because the rows of its batch stay locked (BatchInv), and *)
(* the log tells what happened because outcome and entry are committed     *)
(* together by a run that ends with it (LogInv).                           *)
(***************************************************************************)
EXTENDS OperatorCommands, FiniteSetTheorems, SequenceTheorems, TLAPS

\* i is the event of l that ORDER BY occurred_at DESC, id DESC puts first.
IsLast(l, i) ==
  i \in DOMAIN l /\ \A j \in DOMAIN l :
    l[i].at > l[j].at \/ (l[i].at = l[j].at /\ i >= j)

\* An audit log that is not empty has a last event.
HasLast == log # <<>> => \E i \in DOMAIN log : IsLast(log, i)

TypeInv == TypeOK /\ HasLast

\* What the append of an entry does to the log.
LEMMA AppendFacts ==
  ASSUME NEW l \in Seq(Entries), NEW e \in Entries
  PROVE  /\ Append(l, e) \in Seq(Entries)
         /\ DOMAIN l = 1 .. Len(l)
         /\ DOMAIN Append(l, e) = 1 .. (Len(l) + 1)
         /\ Len(l) \in Nat
         /\ \A i \in 1 .. Len(l) : Append(l, e)[i] = l[i]
         /\ Append(l, e)[Len(l) + 1] = e
  BY AppendProperties

\* The entry a run appends is well-typed.
LEMMA EntryType ==
  ASSUME TypeOK, NEW r \in Runs, NEW n \in Nat
  PROVE  [run |-> r, event |-> event[r], at |-> at[r], prev |-> tail[r],
          seen |-> seen[r], n |-> n] \in Entries
  BY OperatorAssumption DEF TypeOK, Entries

\* The predecessor that append_audit_event selects is an event of the log, and
\* the first in its order; 0 if there is none.
LEMMA LastEventFacts ==
  ASSUME TypeInv
  PROVE  /\ LastEvent \in Nat
         /\ log = <<>> => LastEvent = 0
         /\ log # <<>> => IsLast(log, LastEvent)
<1>1. CASE log = <<>>
  BY <1>1 DEF LastEvent
<1>2. CASE log # <<>>
  <2>1. IsLast(log, LastEvent)
    BY <1>2 DEF TypeInv, HasLast, IsLast, LastEvent
  <2>2. DOMAIN log = 1 .. Len(log)
    BY DEF TypeInv, TypeOK
  <2> QED BY <1>2, <2>1, <2>2 DEF IsLast
<1> QED BY <1>1, <1>2

\* Appending keeps a last event: the new one, or the old one if the new one is
\* dated before it.
LEMMA AppendKeepsLast ==
  ASSUME TypeInv, NEW e \in Entries, log' = Append(log, e)
  PROVE  HasLast'
<1> DEFINE n == Len(log) + 1
<1>1. /\ DOMAIN log = 1 .. Len(log)
      /\ DOMAIN log' = 1 .. n
      /\ Len(log) \in Nat
      /\ \A i \in 1 .. Len(log) : log'[i] = log[i]
      /\ log'[n] = e
      /\ \A i \in 1 .. Len(log) : log[i].at \in Nat
      /\ e.at \in Nat
  <2>1. log \in Seq(Entries)
    BY DEF TypeInv, TypeOK
  <2>2. \A i \in 1 .. Len(log) : log[i] \in Entries
    BY <2>1, ElementOfSeq
  <2> QED BY <2>1, <2>2, AppendFacts DEF Entries
<1>2. CASE log = <<>>
  <2>1. Len(log) = 0
    BY <1>2
  <2> QED BY <1>1, <2>1 DEF HasLast, IsLast
<1>3. CASE log # <<>>
  <2>1. PICK i \in DOMAIN log : IsLast(log, i)
    BY <1>3 DEF TypeInv, HasLast
  <2>2. CASE e.at >= log[i].at
    <3>1. IsLast(log', n)
      BY <1>1, <2>1, <2>2 DEF IsLast
    <3> QED BY <1>1, <3>1 DEF HasLast
  <2>3. CASE e.at < log[i].at
    <3>1. IsLast(log', i)
      BY <1>1, <2>1, <2>3 DEF IsLast
    <3> QED BY <1>1, <2>1, <3>1 DEF HasLast
  <2> QED BY <1>1, <2>1, <2>2, <2>3
<1> QED BY <1>2, <1>3

\* Every step keeps the types and the last event.
LEMMA TypeStep == ASSUME TypeInv, [Next]_vars PROVE TypeInv'
<1> USE OperatorAssumption
    DEF TypeInv, redriveVars, chainVars, recordVars
<1>0. {} \in SUBSET Records /\ Cardinality({}) <= BatchSize
  BY FS_EmptySet
<1>1. ASSUME NEW r \in Redrives, Look(r) PROVE TypeInv'
  <2>1. r \in Runs /\ Answer(r) \in Results
    BY DEF Runs, Answer, Results
  <2>2. CASE Ends(r, Answer(r))
    BY <1>1, <2>1, <2>2 DEF Look, Ends, TypeOK, Events, HasLast, IsLast
  <2>3. CASE pc' = [pc EXCEPT ![r] = "looked"] /\ UNCHANGED <<result, chainVars>>
    BY <1>1, <2>1, <2>3 DEF Look, TypeOK, HasLast, IsLast
  <2> QED BY <1>1, <2>2, <2>3, Zenon DEF Look
<1>2. ASSUME NEW r \in Redrives, Reserve(r) PROVE TypeInv'
  <2>1. r \in Runs /\ "raised" \in Results
    BY DEF Runs, Results
  <2>2. CASE Ends(r, "raised") /\ UNCHANGED <<status, boundTo>>
    BY <1>2, <2>1, <2>2 DEF Reserve, Ends, TypeOK, Events, HasLast, IsLast
  <2>3. CASE /\ status' = [status EXCEPT ![OpKey[r]] = "reserved"]
             /\ boundTo' = [boundTo EXCEPT ![OpKey[r]] = Hash[r]]
             /\ pc' = [pc EXCEPT ![r] = "reserved"]
             /\ UNCHANGED <<result, chainVars>>
    BY <1>2, <2>1, <2>3 DEF Reserve, TypeOK, Statuses, HasLast, IsLast
  <2> QED BY <1>2, <2>2, <2>3, Zenon DEF Reserve
<1>3. ASSUME NEW r \in Redrives, CallSqs(r) PROVE TypeInv'
  BY <1>3 DEF CallSqs, TypeOK, Runs, Events, HasLast, IsLast
<1>4. ASSUME NEW r \in Redrives, RecordRedrive(r) PROVE TypeInv'
  <2>1. r \in Runs
    BY DEF Runs
  <2>2. HasLast' /\ log' \in Seq(Entries)
    BY <1>4, <2>1, EntryType, AppendKeepsLast, AppendFacts
       DEF RecordRedrive, Appended, TypeOK
  <2>3. TypeOK'
    BY <1>4, <2>1, <2>2
       DEF RecordRedrive, Ends, TypeOK, Results, Events, Statuses, Outcome
  <2> QED BY <2>2, <2>3
<1>5. ASSUME NEW r \in Runs, ChooseTail(r) PROVE TypeInv'
  <2>1. LastEvent \in Nat /\ Len(log) \in Nat
    BY LastEventFacts DEF TypeOK
  <2> QED BY <1>5, <2>1 DEF ChooseTail, TypeOK, HasLast, IsLast
<1>6. ASSUME NEW r \in Runs, LockTail(r) PROVE TypeInv'
  BY <1>6 DEF LockTail, TypeOK, HasLast, IsLast
<1>7. ASSUME NEW c \in Cleanups, BeginCleanup(c) PROVE TypeInv'
  BY <1>7 DEF BeginCleanup, TypeOK, Runs, HasLast, IsLast
<1>8. ASSUME NEW c \in Cleanups, SelectBatch(c) PROVE TypeInv'
  BY <1>8 DEF SelectBatch, FitsBatch, TypeOK, Runs, Events, HasLast, IsLast
<1>9. ASSUME NEW c \in Cleanups, CommitCleanup(c) PROVE TypeInv'
  <2>1. c \in Runs
    BY DEF Runs
  <2>2. Cardinality(batch[c]) \in Nat
    BY FS_Subset, FS_CardinalityType DEF TypeOK
  <2>3. HasLast' /\ log' \in Seq(Entries)
    BY <1>9, <2>1, <2>2, EntryType, AppendKeepsLast, AppendFacts
       DEF CommitCleanup, Appended, TypeOK
  <2>4. /\ row' \in [Records -> {"open", "done", "erased"}]
        /\ erasedBy' \in [Records -> SUBSET Cleanups]
        /\ batch' \in [Cleanups -> SUBSET Records]
        /\ \A d \in Cleanups : Cardinality(batch'[d]) <= BatchSize
    BY <1>0, <1>9 DEF CommitCleanup, TypeOK
  <2>5. TypeOK'
    BY <1>9, <2>1, <2>3, <2>4 DEF CommitCleanup, Ends, TypeOK, Results, Events
  <2> QED BY <2>3, <2>5
<1>10. ASSUME NEW r \in Runs, Crash(r) PROVE TypeInv'
  <2>1. /\ batch' \in [Cleanups -> SUBSET Records]
        /\ \A d \in Cleanups : Cardinality(batch'[d]) <= BatchSize
    BY <1>0, <1>10 DEF Crash, TypeOK
  <2> QED BY <1>10, <2>1 DEF Crash, Ends, TypeOK, Results, Events, HasLast, IsLast
<1>11. ASSUME NEW x \in Records, Turn(x) PROVE TypeInv'
  BY <1>11 DEF Turn, TypeOK, HasLast, IsLast
<1>12. ASSUME NEW x \in Records, LegalHold(x) PROVE TypeInv'
  <2>1. held' \in [Records -> BOOLEAN]
    BY <1>12, Zenon DEF LegalHold, TypeOK
  <2> QED BY <1>12, <2>1 DEF LegalHold, TypeOK, HasLast, IsLast
<1>13. CASE Tick
  BY <1>13 DEF Tick, TypeOK, HasLast, IsLast
<1>14. CASE UNCHANGED vars
  BY <1>14 DEF vars, TypeOK, HasLast, IsLast
<1> QED
  BY <1>1, <1>2, <1>3, <1>4, <1>5, <1>6, <1>7, <1>8, <1>9, <1>10, <1>11, <1>12,
     <1>13, <1>14
     DEF Next, Step, Redrive, Cleanup, AppendEvent, Runs

\* Every reachable state of the operator commands has its type: cleanups stay
\* within batch_size, and append_audit_event finds the predecessor it sorts for.
THEOREM OperatorTypeCorrect == Spec => []TypeOK
<1>1. Init => TypeInv
  BY OperatorAssumption, FS_EmptySet, EmptySeq
     DEF Init, TypeInv, TypeOK, HasLast, Statuses, Results, Events
<1> QED BY <1>1, TypeStep, PTL DEF Spec, TypeInv

-----------------------------------------------------------------------------
(* The redrive. *)

\* The run is beyond its reservation and has not recorded its outcome.
Owns(r) == pc[r] \in {"reserved", "ready", "chosen", "locked"}

\* What a run beyond its reservation may rely on.
OwnerKnows ==
  \A r \in Redrives : Owns(r) =>
    /\ status[OpKey[r]] = "reserved"
    /\ boundTo[OpKey[r]] = Hash[r]
    /\ pc[r] = "reserved" => tasks[OpKey[r]] = 0
    /\ pc[r] # "reserved" => event[r] \in {"redrive_started", "redrive_failed"}
    /\ event[r] = "redrive_started" => tasks[OpKey[r]] = 1

\* A key has one run beyond its reservation.
OwnerUnique ==
  \A r, q \in Redrives : Owns(r) /\ Owns(q) /\ OpKey[r] = OpKey[q] => r = q

\* The status of a key says what SQS was asked for.
StatusTrue ==
  \A k \in Keys : /\ status[k] = "none" => tasks[k] = 0
                  /\ status[k] = "succeeded" => tasks[k] = 1

\* A run before its reservation has no event to append.
EventFresh ==
  \A r \in Redrives : pc[r] \in {"idle", "looked", "reserved", "done"} =>
    event[r] = "none"

RedriveInv ==
  StartedOnce /\ AnswerTrue /\ OwnerKnows /\ OwnerUnique /\ StatusTrue /\ EventFresh

\* No step starts a redrive twice or makes an answer of a redrive untrue.
LEMMA RedriveStep == ASSUME TypeOK, RedriveInv, [Next]_vars PROVE RedriveInv'
<1> USE OperatorAssumption
    DEF RedriveInv, redriveVars, chainVars, recordVars, StartedOnce, AnswerTrue,
        OwnerKnows, OwnerUnique, StatusTrue, EventFresh, Owns
<1>1. ASSUME NEW r \in Redrives, Look(r) PROVE RedriveInv'
  <2>1. r \in Runs /\ Answer(r) \in {"conflict", "duplicate", "uncertain"}
    BY DEF Runs, Answer
  <2>2. CASE Ends(r, Answer(r)) /\ status[OpKey[r]] # "none"
    BY <1>1, <2>1, <2>2 DEF Look, Ends, TypeOK, Answer
  <2>3. CASE pc' = [pc EXCEPT ![r] = "looked"] /\ UNCHANGED <<result, chainVars>>
    BY <1>1, <2>1, <2>3 DEF Look, TypeOK
  <2> QED BY <1>1, <2>2, <2>3, Zenon DEF Look
<1>2. ASSUME NEW r \in Redrives, Reserve(r) PROVE RedriveInv'
  <2>1. r \in Runs
    BY DEF Runs
  <2>2. CASE Ends(r, "raised") /\ UNCHANGED <<status, boundTo>>
    BY <1>2, <2>1, <2>2 DEF Reserve, Ends, TypeOK
  <2>3. CASE /\ status[OpKey[r]] = "none"
             /\ status' = [status EXCEPT ![OpKey[r]] = "reserved"]
             /\ boundTo' = [boundTo EXCEPT ![OpKey[r]] = Hash[r]]
             /\ pc' = [pc EXCEPT ![r] = "reserved"]
             /\ UNCHANGED <<result, chainVars>>
    BY <1>2, <2>1, <2>3 DEF Reserve, TypeOK
  <2> QED BY <1>2, <2>2, <2>3, Zenon DEF Reserve, Insertable
<1>3. ASSUME NEW r \in Redrives, CallSqs(r) PROVE RedriveInv'
  <2>1. r \in Runs
    BY DEF Runs
  <2>2. PICK n \in {0, 1}, e \in {"redrive_started", "redrive_failed"} :
          /\ e = "redrive_started" => n = 1
          /\ tasks' = [tasks EXCEPT ![OpKey[r]] = @ + n]
          /\ event' = [event EXCEPT ![r] = e]
    BY <1>3 DEF CallSqs
  <2> QED BY <1>3, <2>1, <2>2 DEF CallSqs, TypeOK
<1>4. ASSUME NEW r \in Redrives, RecordRedrive(r) PROVE RedriveInv'
  <2>1. r \in Runs
    BY DEF Runs
  <2>2. CASE event[r] = "redrive_started"
    BY <1>4, <2>1, <2>2 DEF RecordRedrive, Ends, TypeOK, Outcome
  <2>3. CASE event[r] # "redrive_started"
    BY <1>4, <2>1, <2>3 DEF RecordRedrive, Ends, TypeOK, Outcome
  <2> QED BY <2>2, <2>3
<1>5. ASSUME NEW r \in Runs, ChooseTail(r) PROVE RedriveInv'
  BY <1>5 DEF ChooseTail, TypeOK
<1>6. ASSUME NEW r \in Runs, LockTail(r) PROVE RedriveInv'
  BY <1>6 DEF LockTail, TypeOK
<1>7. ASSUME NEW c \in Cleanups, Cleanup(c) PROVE RedriveInv'
  <2>1. /\ UNCHANGED redriveVars
        /\ \A q \in Redrives : /\ pc'[q] = pc[q]
                               /\ result'[q] = result[q]
                               /\ event'[q] = event[q]
    BY <1>7 DEF Cleanup, BeginCleanup, SelectBatch, CommitCleanup, Ends, TypeOK, Runs
  <2> QED BY <2>1
<1>8. ASSUME NEW r \in Runs, Crash(r) PROVE RedriveInv'
  BY <1>8 DEF Crash, Ends, TypeOK
<1>9. CASE Tick \/ (\E x \in Records : Turn(x) \/ LegalHold(x)) \/ UNCHANGED vars
  BY <1>9 DEF Tick, Turn, LegalHold, vars
<1> QED
  BY <1>1, <1>2, <1>3, <1>4, <1>5, <1>6, <1>7, <1>8, <1>9, Zenon
     DEF Next, Step, Redrive, AppendEvent, Runs

-----------------------------------------------------------------------------
(* The audit chain. *)

\* An event carries the hash of an earlier one.
PrevEarlier == \A i \in DOMAIN log : log[i].prev \in Nat /\ log[i].prev < i

\* What a run knows of the event it has chosen: of the events it could see, only
\* those dated before the chosen one may carry its hash.
TailFresh ==
  \A r \in Runs : pc[r] \in {"chosen", "locked"} =>
    /\ seen[r] <= Len(log)
    /\ tail[r] <= Len(log)
    /\ \A i \in DOMAIN log : i <= seen[r] /\ log[i].prev = tail[r] =>
         tail[r] # 0 /\ log[i].at < log[tail[r]].at

ChainInv == PrevEarlier /\ TailFresh /\ ForksExplained

\* Appending the event of a run keeps the chain as ForksExplained says.
LEMMA ChainAppend ==
  ASSUME TypeOK, ChainInv, NEW r \in Runs, NEW n \in Nat, pc[r] = "locked",
         log' = Appended(r, n), \A q \in Runs \ {r} : pc'[q] = pc[q],
         pc'[r] = "done",
         \A q \in Runs \ {r} : tail'[q] = tail[q] /\ seen'[q] = seen[q]
  PROVE  ChainInv'
<1> DEFINE m == Len(log) + 1
<1>1. /\ DOMAIN log = 1 .. Len(log)
      /\ DOMAIN log' = 1 .. m
      /\ Len(log) \in Nat
      /\ Len(log') = m
      /\ \A i \in 1 .. Len(log) : log'[i] = log[i]
      /\ log'[m].prev = tail[r] /\ log'[m].seen = seen[r]
  <2>1. log \in Seq(Entries)
    BY DEF TypeOK
  <2>2. PICK e \in Entries : /\ log' = Append(log, e)
                             /\ e.prev = tail[r] /\ e.seen = seen[r]
    BY EntryType DEF Appended
  <2> QED BY <2>1, <2>2, AppendFacts
<1>2. tail[r] \in Nat /\ tail[r] <= Len(log)
  BY DEF TypeOK, ChainInv, TailFresh
<1>3. PrevEarlier'
  BY <1>1, <1>2 DEF ChainInv, PrevEarlier
<1>4. TailFresh'
  <2> SUFFICES ASSUME NEW q \in Runs, pc'[q] \in {"chosen", "locked"}
               PROVE  /\ seen'[q] <= m
                      /\ tail'[q] <= m
                      /\ \A i \in 1 .. m : i <= seen'[q] /\ log'[i].prev = tail'[q] =>
                           tail'[q] # 0 /\ log'[i].at < log'[tail'[q]].at
    BY <1>1 DEF TailFresh
  <2>1. /\ q # r
        /\ seen[q] \in Nat /\ tail[q] \in Nat
        /\ seen[q] <= Len(log) /\ tail[q] <= Len(log)
        /\ \A i \in 1 .. Len(log) : i <= seen[q] /\ log[i].prev = tail[q] =>
             tail[q] # 0 /\ log[i].at < log[tail[q]].at
    BY <1>1 DEF TypeOK, ChainInv, TailFresh
  <2> QED BY <1>1, <2>1
<1>5. ForksExplained'
  <2> SUFFICES ASSUME NEW i \in 1 .. m, NEW j \in 1 .. m, i < j,
                      log'[i].prev = log'[j].prev
               PROVE  \/ log'[j].seen < i
                      \/ log'[i].prev # 0 /\ log'[i].at < log'[log'[i].prev].at
    BY <1>1 DEF ForksExplained
  <2>1. /\ i \in 1 .. Len(log) /\ log'[i] = log[i]
        /\ log[i].prev \in Nat /\ log[i].prev < i
        /\ log[i].prev # 0 => log'[log[i].prev] = log[log[i].prev]
    BY <1>1 DEF ChainInv, PrevEarlier
  <2>2. CASE j = m
    <3>1. /\ seen[r] \in Nat
          /\ i <= seen[r] => log[i].prev # 0 /\ log[i].at < log[log[i].prev].at
      BY <1>1, <2>1, <2>2 DEF TypeOK, ChainInv, TailFresh
    <3> QED BY <1>1, <2>1, <2>2, <3>1
  <2>3. CASE j # m
    <3>1. j \in 1 .. Len(log) /\ log'[j] = log[j]
      BY <1>1, <2>3
    <3> QED BY <1>1, <2>1, <3>1 DEF ChainInv, ForksExplained
  <2> QED BY <2>2, <2>3
<1> QED BY <1>3, <1>4, <1>5 DEF ChainInv

\* A step without an append keeps it if no run but those that choose get to
\* know a tail.
LEMMA ChainStutter ==
  ASSUME TypeOK, ChainInv, log' = log,
         \A q \in Runs : pc'[q] \in {"chosen", "locked"} =>
           pc[q] \in {"chosen", "locked"} /\ tail'[q] = tail[q] /\ seen'[q] = seen[q]
  PROVE  ChainInv'
  BY DEF ChainInv, PrevEarlier, TailFresh, ForksExplained

\* Every step keeps the chain explained.
LEMMA ChainStep == ASSUME TypeInv, ChainInv, [Next]_vars PROVE ChainInv'
<1> USE DEF redriveVars, chainVars, recordVars
<1>0. TypeOK
  BY DEF TypeInv
<1>1. ASSUME NEW r \in Redrives, Look(r) \/ Reserve(r) \/ CallSqs(r) PROVE ChainInv'
  <2>1. /\ log' = log
        /\ \A q \in Runs : pc'[q] \in {"chosen", "locked"} =>
             pc[q] \in {"chosen", "locked"} /\ tail'[q] = tail[q] /\ seen'[q] = seen[q]
    BY <1>0, <1>1 DEF Look, Reserve, CallSqs, Ends, TypeOK
  <2> QED BY <1>0, <2>1, ChainStutter
<1>2. ASSUME NEW r \in Redrives, RecordRedrive(r) PROVE ChainInv'
  BY <1>0, <1>2, ChainAppend DEF RecordRedrive, Ends, TypeOK, Runs
<1>3. ASSUME NEW r \in Runs, ChooseTail(r) PROVE ChainInv'
  <2>1. DOMAIN log = 1 .. Len(log) /\ Len(log) \in Nat /\ log' = log
    BY <1>0, <1>3 DEF TypeOK, ChooseTail
  <2>2. \A i \in DOMAIN log : log[i].prev = LastEvent =>
          LastEvent # 0 /\ log[i].at < log[LastEvent].at
    <3> SUFFICES ASSUME NEW i \in DOMAIN log, log[i].prev = LastEvent
                 PROVE  LastEvent # 0 /\ log[i].at < log[LastEvent].at
      OBVIOUS
    <3>1. log # <<>> /\ log[i].prev < i /\ i \in Nat
      BY <2>1 DEF ChainInv, PrevEarlier
    <3>2. IsLast(log, LastEvent)
      BY <3>1, LastEventFacts
    <3>3. \A k \in DOMAIN log : log[k].at \in Nat
      <4>1. log \in Seq(Entries)
        BY <1>0 DEF TypeOK
      <4>2. \A k \in DOMAIN log : log[k] \in Entries
        BY <2>1, <4>1, ElementOfSeq
      <4> QED BY <4>2 DEF Entries
    <3> QED BY <2>1, <3>1, <3>2, <3>3 DEF IsLast
  <2>3. LastEvent \in Nat /\ LastEvent <= Len(log)
    BY <2>1, LastEventFacts DEF IsLast
  <2>4. TailFresh'
    BY <1>0, <1>3, <2>1, <2>2, <2>3 DEF ChooseTail, ChainInv, TailFresh, TypeOK
  <2> QED BY <2>1, <2>4 DEF ChainInv, PrevEarlier, ForksExplained
<1>4. ASSUME NEW r \in Runs, LockTail(r) PROVE ChainInv'
  BY <1>0, <1>4, ChainStutter DEF LockTail, TypeOK
<1>5. ASSUME NEW c \in Cleanups, BeginCleanup(c) \/ SelectBatch(c) PROVE ChainInv'
  <2>1. /\ log' = log
        /\ \A q \in Runs : pc'[q] \in {"chosen", "locked"} =>
             pc[q] \in {"chosen", "locked"} /\ tail'[q] = tail[q] /\ seen'[q] = seen[q]
    BY <1>0, <1>5 DEF BeginCleanup, SelectBatch, TypeOK
  <2> QED BY <1>0, <2>1, ChainStutter
<1>6. ASSUME NEW c \in Cleanups, CommitCleanup(c) PROVE ChainInv'
  <2>1. Cardinality(batch[c]) \in Nat
    BY <1>0, OperatorAssumption, FS_Subset, FS_CardinalityType DEF TypeOK
  <2> QED BY <1>0, <1>6, <2>1, ChainAppend DEF CommitCleanup, Ends, TypeOK, Runs
<1>7. ASSUME NEW r \in Runs, Crash(r) PROVE ChainInv'
  <2>1. /\ log' = log
        /\ \A q \in Runs : pc'[q] \in {"chosen", "locked"} =>
             pc[q] \in {"chosen", "locked"} /\ tail'[q] = tail[q] /\ seen'[q] = seen[q]
    BY <1>0, <1>7 DEF Crash, Ends, TypeOK
  <2> QED BY <1>0, <2>1, ChainStutter
<1>8. CASE Tick \/ (\E x \in Records : Turn(x) \/ LegalHold(x)) \/ UNCHANGED vars
  BY <1>0, <1>8, ChainStutter DEF Tick, Turn, LegalHold, vars
<1> QED
  BY <1>1, <1>2, <1>3, <1>4, <1>5, <1>6, <1>7, <1>8, Zenon
     DEF Next, Step, Redrive, Cleanup, AppendEvent, Runs

-----------------------------------------------------------------------------
(* The retention cleanup. *)

\* The rows of a batch are due as long as they are locked, and locked once.
BatchDue ==
  \A c \in Cleanups : \A x \in batch[c] :
    /\ Erasable(x)
    /\ held[x] = FALSE
    /\ \A d \in Cleanups : x \in batch[d] => d = c

\* Only an erased row has been erased by somebody, by one cleanup that has ended.
ErasedOnce ==
  \A x \in Records :
    /\ row[x] # "erased" => erasedBy[x] = {}
    /\ \A c, d \in erasedBy[x] : c = d
    /\ \A c \in erasedBy[x] : pc[c] = "done"

BatchInv == BatchDue /\ ErasedOnce

\* Rows of a batch stay as they were selected, and are erased once.
LEMMA BatchStep == ASSUME TypeOK, BatchInv, [Next]_vars PROVE BatchInv'
<1> USE OperatorAssumption
    DEF BatchInv, BatchDue, ErasedOnce, Erasable, redriveVars, chainVars, recordVars
<1>1. ASSUME NEW r \in Redrives, Redrive(r) PROVE BatchInv'
  <2>1. /\ UNCHANGED <<batch, row, held, erasedBy>>
        /\ \A c \in Cleanups : pc'[c] = pc[c]
    BY <1>1 DEF Redrive, Look, Reserve, CallSqs, RecordRedrive, Ends, TypeOK, Runs
  <2> QED BY <2>1 DEF TypeOK
<1>2. ASSUME NEW r \in Runs, AppendEvent(r) PROVE BatchInv'
  BY <1>2 DEF AppendEvent, ChooseTail, LockTail, TypeOK, Runs
<1>3. ASSUME NEW c \in Cleanups, BeginCleanup(c) PROVE BatchInv'
  BY <1>3 DEF BeginCleanup, TypeOK, Runs
<1>4. ASSUME NEW c \in Cleanups, SelectBatch(c) PROVE BatchInv'
  <2>1. PICK b \in SUBSET {x \in Records : Selectable(c, x)} :
          batch' = [batch EXCEPT ![c] = b]
    BY <1>4 DEF SelectBatch
  <2>2. \A x \in b : /\ Erasable(x) /\ held[x] = FALSE
                     /\ \A d \in Cleanups : x \notin batch[d]
    BY <2>1 DEF Selectable, RowLocked, TypeOK
  <2>3. /\ UNCHANGED <<row, held, erasedBy>>
        /\ \A d \in Cleanups : pc[d] = "done" => pc'[d] = "done"
    BY <1>4 DEF SelectBatch, TypeOK, Runs
  <2>4. BatchDue'
    BY <2>1, <2>2, <2>3 DEF TypeOK
  <2>5. ErasedOnce'
    BY <2>3 DEF TypeOK
  <2> QED BY <2>4, <2>5
<1>5. ASSUME NEW c \in Cleanups, CommitCleanup(c) PROVE BatchInv'
  <2>1. /\ held' = held
        /\ pc'[c] = "done"
        /\ \A d \in Cleanups : pc[d] = "done" => pc'[d] = "done"
        /\ batch'[c] = {} /\ \A d \in Cleanups \ {c} : batch'[d] = batch[d]
        /\ \A x \in batch[c] : row'[x] = "erased" /\ erasedBy'[x] = erasedBy[x] \cup {c}
        /\ \A x \in Records \ batch[c] : row'[x] = row[x] /\ erasedBy'[x] = erasedBy[x]
    <3>1. c \in Runs
      BY DEF Runs
    <3>2. batch'[c] = {} /\ \A d \in Cleanups \ {c} : batch'[d] = batch[d]
      BY <1>5 DEF CommitCleanup, TypeOK
    <3>3. pc'[c] = "done" /\ \A d \in Cleanups : pc[d] = "done" => pc'[d] = "done"
      BY <1>5, <3>1 DEF CommitCleanup, Ends, TypeOK, Runs
    <3> QED BY <1>5, <3>2, <3>3 DEF CommitCleanup, TypeOK
  <2>2. BatchDue'
    <3> SUFFICES ASSUME NEW d \in Cleanups, NEW x \in batch'[d]
                 PROVE  /\ Erasable(x)' /\ held'[x] = FALSE
                        /\ \A e \in Cleanups : x \in batch'[e] => e = d
      OBVIOUS
    <3>1. d # c /\ x \in batch[d] /\ x \in Records /\ x \notin batch[c]
      BY <2>1 DEF TypeOK
    <3>2. held'[x] = FALSE
      BY <2>1, <3>1, Zenon
    <3> QED BY <2>1, <3>1, <3>2
  <2>3. ErasedOnce'
    <3>1. ASSUME NEW x \in batch[c] PROVE erasedBy'[x] = {c} /\ row'[x] = "erased"
      BY <2>1, <3>1 DEF TypeOK
    <3> QED BY <2>1, <3>1 DEF TypeOK
  <2> QED BY <2>2, <2>3
<1>6. ASSUME NEW r \in Runs, Crash(r) PROVE BatchInv'
  <2>1. /\ UNCHANGED <<row, held, erasedBy>>
        /\ \A d \in Cleanups : pc[d] = "done" => pc'[d] = "done"
        /\ \A d \in Cleanups : batch'[d] \subseteq batch[d]
    BY <1>6 DEF Crash, Ends, TypeOK, Runs
  <2> QED BY <2>1 DEF TypeOK
<1>7. ASSUME NEW x \in Records, Turn(x) PROVE BatchInv'
  <2>1. /\ UNCHANGED <<batch, held, erasedBy, pc>>
        /\ \A c \in Cleanups : x \notin batch[c]
        /\ \A y \in Records \ {x} : row'[y] = row[y]
        /\ row[x] # "erased" /\ row'[x] # "erased"
    BY <1>7 DEF Turn, RowLocked, TypeOK
  <2>2. BatchDue'
    <3> SUFFICES ASSUME NEW d \in Cleanups, NEW y \in batch'[d]
                 PROVE  /\ Erasable(y)' /\ held'[y] = FALSE
                        /\ \A e \in Cleanups : y \in batch'[e] => e = d
      OBVIOUS
    <3>1. y \in batch[d] /\ y \in Records \ {x}
      BY <2>1 DEF TypeOK
    <3>2. held'[y] = FALSE
      BY <2>1, <3>1, Zenon
    <3> QED BY <2>1, <3>1, <3>2
  <2>3. ErasedOnce'
    BY <2>1
  <2> QED BY <2>2, <2>3
<1>8. ASSUME NEW x \in Records, LegalHold(x) PROVE BatchInv'
  <2>1. /\ UNCHANGED <<batch, row, erasedBy, pc>>
        /\ \A c \in Cleanups : x \notin batch[c]
        /\ \A y \in Records \ {x} : held'[y] = held[y]
    BY <1>8 DEF LegalHold, RowLocked, TypeOK
  <2>2. BatchDue'
    <3> SUFFICES ASSUME NEW d \in Cleanups, NEW y \in batch'[d]
                 PROVE  /\ Erasable(y)' /\ held'[y] = FALSE
                        /\ \A e \in Cleanups : y \in batch'[e] => e = d
      OBVIOUS
    <3>1. y \in batch[d] /\ y \in Records \ {x}
      BY <2>1 DEF TypeOK
    <3>2. held'[y] = FALSE
      BY <2>1, <3>1, Zenon
    <3> QED BY <2>1, <3>1, <3>2
  <2> QED BY <2>1, <2>2
<1>9. CASE Tick \/ UNCHANGED vars
  BY <1>9 DEF Tick, vars
<1> QED
  BY <1>1, <1>2, <1>3, <1>4, <1>5, <1>6, <1>7, <1>8, <1>9, Zenon
     DEF Next, Step, Cleanup, Runs

\* A step that erases a row is the commit of a cleanup that has locked it.
LEMMA ProtectedStep ==
  ASSUME TypeOK, BatchInv, [Next]_vars, NEW x \in Records,
         held[x] \/ (x \in QueueRows /\ row[x] = "open"), row[x] # "erased"
  PROVE  row'[x] # "erased"
<1> USE DEF redriveVars, chainVars, recordVars
<1>1. \A c \in Cleanups : x \notin batch[c]
  BY DEF BatchInv, BatchDue, Erasable
<1>2. ASSUME NEW c \in Cleanups, CommitCleanup(c) PROVE row'[x] = row[x]
  BY <1>1, <1>2 DEF CommitCleanup
<1>3. ASSUME NEW y \in Records, Turn(y) PROVE row'[x] # "erased"
  BY <1>3 DEF Turn, TypeOK
<1>4. ASSUME NEW r \in Runs, \/ Redrive(r) \/ AppendEvent(r) \/ Crash(r)
                            \/ BeginCleanup(r) \/ SelectBatch(r)
      PROVE  row' = row
  BY <1>4 DEF Redrive, Look, Reserve, CallSqs, RecordRedrive, AppendEvent, ChooseTail,
              LockTail, Crash, BeginCleanup, SelectBatch
<1>5. CASE Tick \/ (\E y \in Records : LegalHold(y)) \/ UNCHANGED vars
  BY <1>5 DEF Tick, LegalHold, vars
<1> QED
  BY <1>2, <1>3, <1>4, <1>5 DEF Next, Step, Cleanup, Runs

-----------------------------------------------------------------------------
(* What the audit log says. *)

\* A run with an entry in the log has ended, and a redrive is not logged as a
\* cleanup.
LoggedEnded ==
  \A i \in DOMAIN log :
    /\ log[i].run \in Runs
    /\ pc[log[i].run] = "done"
    /\ log[i].run \in Redrives => log[i].event # "cleanup"

\* The log has one entry for a recorded outcome of a key, and no other.
OutcomeLogged ==
  \A k \in Keys :
    /\ status[k] = "succeeded" => \E i \in DOMAIN log : Audited(k, "redrive_started") = {i}
    /\ status[k] # "succeeded" => Audited(k, "redrive_started") = {}
    /\ status[k] = "failed" => \E i \in DOMAIN log : Audited(k, "redrive_failed") = {i}
    /\ status[k] # "failed" => Audited(k, "redrive_failed") = {}

\* A cleanup is logged with the rows it has erased.
CountLogged ==
  \A i \in DOMAIN log : log[i].event = "cleanup" =>
    log[i].n = Cardinality({x \in Records : log[i].run \in erasedBy[x]})

LogInv == LoggedEnded /\ OutcomeLogged /\ CountLogged

\* A step that logs nothing, records no outcome and erases nothing keeps what
\* the log says.
LEMMA LogQuiet ==
  ASSUME LogInv, UNCHANGED <<log, erasedBy>>,
         \A r \in Runs : pc[r] = "done" => pc'[r] = "done",
         \A k \in Keys : status'[k] \in {"succeeded", "failed"}
                           \/ status[k] \in {"succeeded", "failed"}
                         => status'[k] = status[k]
  PROVE  LogInv'
<1> USE DEF LogInv
<1>1. LoggedEnded'
  BY DEF LoggedEnded
<1>2. OutcomeLogged'
  BY DEF OutcomeLogged, Audited
<1>3. CountLogged'
  BY DEF CountLogged
<1> QED BY <1>1, <1>2, <1>3

\* What an append does to the log.
LEMMA AppendedFacts ==
  ASSUME TypeOK, NEW r \in Runs, NEW m \in Nat, log' = Appended(r, m)
  PROVE  /\ DOMAIN log = 1 .. Len(log) /\ Len(log) \in Nat
         /\ DOMAIN log' = 1 .. (Len(log) + 1)
         /\ \A i \in 1 .. Len(log) : log'[i] = log[i]
         /\ log'[Len(log) + 1].run = r /\ log'[Len(log) + 1].event = event[r]
         /\ log'[Len(log) + 1].n = m
<1>1. log \in Seq(Entries)
  BY DEF TypeOK
<1>2. PICK e \in Entries :
        log' = Append(log, e) /\ e.run = r /\ e.event = event[r] /\ e.n = m
  BY EntryType DEF Appended
<1> QED BY <1>1, <1>2, AppendFacts

\* An append adds its entry to those of its event and key.
LEMMA AuditedAppended ==
  ASSUME TypeOK, NEW r \in Runs, NEW m \in Nat, log' = Appended(r, m),
         NEW k \in Keys, NEW e
  PROVE  Audited(k, e)' =
           IF r \in Redrives /\ OpKey[r] = k /\ event[r] = e
             THEN Audited(k, e) \cup {Len(log) + 1}
             ELSE Audited(k, e)
<1>1. /\ DOMAIN log = 1 .. Len(log) /\ Len(log) \in Nat
      /\ DOMAIN log' = 1 .. (Len(log) + 1)
      /\ \A i \in 1 .. Len(log) : log'[i] = log[i]
      /\ log'[Len(log) + 1].run = r /\ log'[Len(log) + 1].event = event[r]
  BY AppendedFacts
<1>2. DOMAIN log' = DOMAIN log \cup {Len(log) + 1}
  BY <1>1
<1> QED BY <1>1, <1>2 DEF Audited

\* An append by a run that ends keeps the log's runs ended.
LEMMA LoggedAppend ==
  ASSUME TypeOK, LogInv, NEW r \in Runs, NEW m \in Nat, log' = Appended(r, m),
         pc' = [pc EXCEPT ![r] = "done"], r \in Redrives => event[r] # "cleanup"
  PROVE  LoggedEnded'
<1> DEFINE n == Len(log) + 1
<1>1. /\ DOMAIN log = 1 .. Len(log) /\ Len(log) \in Nat
      /\ DOMAIN log' = 1 .. n
      /\ \A i \in 1 .. Len(log) : log'[i] = log[i]
      /\ log'[n].run = r /\ log'[n].event = event[r]
  BY AppendedFacts
<1>2. pc'[r] = "done" /\ \A q \in Runs : pc[q] = "done" => pc'[q] = "done"
  BY DEF TypeOK
<1> SUFFICES ASSUME NEW i \in 1 .. n
             PROVE  /\ log'[i].run \in Runs
                    /\ pc'[log'[i].run] = "done"
                    /\ log'[i].run \in Redrives => log'[i].event # "cleanup"
  BY <1>1 DEF LoggedEnded
<1>3. CASE i = n
  BY <1>1, <1>2, <1>3
<1>4. CASE i # n
  <2>1. i \in DOMAIN log /\ log'[i] = log[i]
    BY <1>1, <1>4
  <2> QED BY <1>2, <2>1 DEF LogInv, LoggedEnded
<1> QED BY <1>3, <1>4

\* Every step keeps what the log says.
LEMMA LogStep ==
  ASSUME TypeOK, RedriveInv, BatchInv, LogInv, [Next]_vars
  PROVE  LogInv'
<1> USE OperatorAssumption DEF redriveVars, chainVars, recordVars
<1>1. ASSUME NEW r \in Redrives, Look(r) \/ CallSqs(r) PROVE LogInv'
  <2>1. /\ UNCHANGED <<log, erasedBy, status>>
        /\ \A q \in Runs : pc[q] = "done" => pc'[q] = "done"
    BY <1>1 DEF Look, CallSqs, Ends, TypeOK
  <2> QED BY <2>1, LogQuiet
<1>2. ASSUME NEW r \in Redrives, Reserve(r) PROVE LogInv'
  <2>1. /\ UNCHANGED <<log, erasedBy>>
        /\ \A q \in Runs : pc[q] = "done" => pc'[q] = "done"
        /\ \A k \in Keys : status'[k] \in {"succeeded", "failed"}
                             \/ status[k] \in {"succeeded", "failed"}
                           => status'[k] = status[k]
    BY <1>2 DEF Reserve, Insertable, Ends, TypeOK
  <2> QED BY <2>1, LogQuiet
<1>3. ASSUME NEW r \in Redrives, RecordRedrive(r) PROVE LogInv'
  <2> DEFINE k == OpKey[r]
             n == Len(log) + 1
  <2>0. r \in Runs /\ k \in Keys
    BY DEF Runs
  <2>1. /\ status[k] = "reserved"
        /\ event[r] \in {"redrive_started", "redrive_failed"}
    BY <1>3 DEF RecordRedrive, RedriveInv, OwnerKnows, Owns
  <2>2. /\ log' = Appended(r, 0) /\ erasedBy' = erasedBy
        /\ status' = [status EXCEPT ![k] = Outcome(r)]
        /\ pc' = [pc EXCEPT ![r] = "done"]
    BY <1>3 DEF RecordRedrive, Ends
  <2>3. /\ DOMAIN log = 1 .. Len(log) /\ Len(log) \in Nat
        /\ DOMAIN log' = 1 .. n
        /\ \A i \in 1 .. Len(log) : log'[i] = log[i]
        /\ log'[n].run = r /\ log'[n].event = event[r]
    BY <2>0, <2>2, AppendedFacts
  <2>4. LoggedEnded'
    BY <2>0, <2>1, <2>2, <2>3, LoggedAppend
  <2>5. CountLogged'
    <3> SUFFICES ASSUME NEW i \in 1 .. n, log'[i].event = "cleanup"
                 PROVE  log'[i].n = Cardinality({x \in Records : log'[i].run \in erasedBy'[x]})
      BY <2>3 DEF CountLogged
    <3>1. i \in DOMAIN log /\ log'[i] = log[i]
      BY <2>1, <2>3
    <3> QED BY <2>2, <3>1 DEF LogInv, CountLogged
  <2>6. OutcomeLogged'
    <3>1. \A j \in Keys : \A e \in {"redrive_started", "redrive_failed"} :
            Audited(j, e)' = IF k = j /\ event[r] = e THEN Audited(j, e) \cup {n}
                                                      ELSE Audited(j, e)
      BY <2>0, <2>2, AuditedAppended
    <3>2. Audited(k, "redrive_started") = {} /\ Audited(k, "redrive_failed") = {}
      BY <2>0, <2>1 DEF LogInv, OutcomeLogged
    <3>3. /\ status'[k] = (IF event[r] = "redrive_started" THEN "succeeded" ELSE "failed")
          /\ \A j \in Keys \ {k} : status'[j] = status[j]
      BY <2>0, <2>2 DEF Outcome, TypeOK
    <3> SUFFICES ASSUME NEW j \in Keys
                 PROVE  /\ status'[j] = "succeeded" =>
                             \E i \in DOMAIN log' : Audited(j, "redrive_started")' = {i}
                        /\ status'[j] # "succeeded" => Audited(j, "redrive_started")' = {}
                        /\ status'[j] = "failed" =>
                             \E i \in DOMAIN log' : Audited(j, "redrive_failed")' = {i}
                        /\ status'[j] # "failed" => Audited(j, "redrive_failed")' = {}
      BY DEF OutcomeLogged
    <3>4. n \in DOMAIN log' /\ DOMAIN log \subseteq DOMAIN log'
      BY <2>3
    <3>5. CASE j = k
      <4>1. CASE event[r] = "redrive_started"
        BY <3>1, <3>2, <3>3, <3>4, <3>5, <4>1
      <4>2. CASE event[r] = "redrive_failed"
        BY <3>1, <3>2, <3>3, <3>4, <3>5, <4>2
      <4> QED BY <2>1, <4>1, <4>2
    <3>6. CASE j # k
      BY <3>1, <3>3, <3>4, <3>6 DEF LogInv, OutcomeLogged
    <3> QED BY <3>5, <3>6
  <2> QED BY <2>4, <2>5, <2>6 DEF LogInv
<1>4. ASSUME NEW c \in Cleanups, CommitCleanup(c) PROVE LogInv'
  <2> DEFINE n == Len(log) + 1
             m == Cardinality(batch[c])
  <2>0. c \in Runs /\ c \notin Redrives /\ pc[c] = "locked"
    BY <1>4 DEF Runs, CommitCleanup
  <2>1. m \in Nat
    BY FS_Subset, FS_CardinalityType DEF TypeOK
  <2>2. /\ log' = Appended(c, m) /\ status' = status
        /\ pc' = [pc EXCEPT ![c] = "done"]
        /\ erasedBy' = [x \in Records |-> IF x \in batch[c] THEN erasedBy[x] \cup {c}
                                          ELSE erasedBy[x]]
    BY <1>4 DEF CommitCleanup, Ends
  <2>3. /\ DOMAIN log = 1 .. Len(log) /\ Len(log) \in Nat
        /\ DOMAIN log' = 1 .. n
        /\ \A i \in 1 .. Len(log) : log'[i] = log[i]
        /\ log'[n].run = c /\ log'[n].n = m
    BY <2>0, <2>1, <2>2, AppendedFacts
  <2>4. LoggedEnded'
    BY <2>0, <2>1, <2>2, <2>3, LoggedAppend
  <2>5. CountLogged'
    <3> SUFFICES ASSUME NEW i \in 1 .. n, log'[i].event = "cleanup"
                 PROVE  log'[i].n = Cardinality({x \in Records : log'[i].run \in erasedBy'[x]})
      BY <2>3 DEF CountLogged
    <3>1. CASE i = n
      <4>1. \A x \in Records : c \notin erasedBy[x]
        BY <2>0 DEF BatchInv, ErasedOnce
      <4>2. batch[c] \subseteq Records
        BY DEF TypeOK
      <4>3. {x \in Records : c \in erasedBy'[x]} = batch[c]
        BY <2>2, <4>1, <4>2
      <4> QED BY <2>3, <3>1, <4>3
    <3>2. CASE i # n
      <4>1. i \in 1 .. Len(log) /\ log'[i] = log[i]
        BY <2>3, <3>2
      <4>2. log[i].run # c
        BY <2>0, <2>3, <4>1 DEF LogInv, LoggedEnded
      <4>3. {x \in Records : log[i].run \in erasedBy'[x]}
              = {x \in Records : log[i].run \in erasedBy[x]}
        BY <2>2, <4>2
      <4> QED BY <2>3, <4>1, <4>3 DEF LogInv, CountLogged
    <3> QED BY <3>1, <3>2
  <2>6. OutcomeLogged'
    <3>1. \A j \in Keys : \A e \in {"redrive_started", "redrive_failed"} :
            Audited(j, e)' = Audited(j, e)
      BY <2>0, <2>1, <2>2, AuditedAppended
    <3>2. DOMAIN log \subseteq DOMAIN log'
      BY <2>3
    <3> QED BY <2>2, <3>1, <3>2 DEF LogInv, OutcomeLogged
  <2> QED BY <2>4, <2>5, <2>6 DEF LogInv
<1>5. ASSUME NEW r \in Runs,
             AppendEvent(r) \/ BeginCleanup(r) \/ SelectBatch(r) \/ Crash(r)
      PROVE  LogInv'
  <2>1. /\ UNCHANGED <<log, erasedBy, status>>
        /\ \A q \in Runs : pc[q] = "done" => pc'[q] = "done"
    BY <1>5 DEF AppendEvent, ChooseTail, LockTail, BeginCleanup, SelectBatch, Crash,
                Ends, TypeOK
  <2> QED BY <2>1, LogQuiet
<1>6. CASE Tick \/ (\E x \in Records : Turn(x) \/ LegalHold(x)) \/ UNCHANGED vars
  <2>1. UNCHANGED <<log, erasedBy, status, pc>>
    BY <1>6 DEF Tick, Turn, LegalHold, vars
  <2> QED BY <2>1, LogQuiet
<1> QED
  BY <1>1, <1>2, <1>3, <1>4, <1>5, <1>6, Zenon
     DEF Next, Step, Redrive, Cleanup, Runs

-----------------------------------------------------------------------------
(* The theorems. *)

OperatorInv == TypeInv /\ RedriveInv /\ ChainInv /\ BatchInv /\ LogInv

\* OperatorInv is an inductive invariant of redrives, cleanups and the audit
\* chain, with crashes anywhere.
THEOREM OperatorInvariant == Spec => []OperatorInv
<1>1. Init => OperatorInv
  <2> SUFFICES ASSUME Init PROVE OperatorInv
    OBVIOUS
  <2>1. TypeInv
    BY OperatorAssumption, FS_EmptySet, EmptySeq
       DEF Init, TypeInv, TypeOK, HasLast, Statuses, Results, Events
  <2>2. RedriveInv
    BY OperatorAssumption
       DEF Init, RedriveInv, StartedOnce, AnswerTrue, OwnerKnows, OwnerUnique,
           StatusTrue, EventFresh, Owns, Runs
  <2>3. ChainInv
    BY DEF Init, ChainInv, PrevEarlier, TailFresh, ForksExplained
  <2>4. BatchInv
    BY DEF Init, BatchInv, BatchDue, ErasedOnce
  <2>5. LogInv
    BY DEF Init, LogInv, LoggedEnded, OutcomeLogged, CountLogged, Audited
  <2> QED BY <2>1, <2>2, <2>3, <2>4, <2>5 DEF OperatorInv
<1>2. OperatorInv /\ [Next]_vars => OperatorInv'
  <2> SUFFICES ASSUME OperatorInv, [Next]_vars PROVE OperatorInv'
    OBVIOUS
  <2>1. TypeOK
    BY DEF OperatorInv, TypeInv
  <2> QED BY <2>1, TypeStep, RedriveStep, ChainStep, BatchStep, LogStep
          DEF OperatorInv
<1> QED BY <1>1, <1>2, PTL DEF Spec

\* Retries and crashes of redrive_dlq never start a second message-move task
\* for an operation key.
THEOREM RedriveStartedOnce == Spec => []StartedOnce
<1>1. OperatorInv => StartedOnce
  BY DEF OperatorInv, RedriveInv
<1> QED BY <1>1, OperatorInvariant, PTL

\* A redrive_dlq that answers started or duplicate speaks of the one task that
\* runs for its own request.
THEOREM RedriveAnswersTrue == Spec => []AnswerTrue
<1>1. OperatorInv => AnswerTrue
  BY DEF OperatorInv, RedriveInv
<1> QED BY <1>1, OperatorInvariant, PTL

\* The audit chain of append_audit_event forks only between overlapping
\* transactions or behind an event dated before its predecessor.
THEOREM ChainForksExplained == Spec => []ForksExplained
<1>1. OperatorInv => ForksExplained
  BY DEF OperatorInv, ChainInv
<1> QED BY <1>1, OperatorInvariant, PTL

\* run_retention_cleanup never erases a row that is held when it commits, nor an
\* inbox or outbox row that is unprocessed then.
THEOREM ProtectedRowsKept == Spec => ProtectedKept
<1>1. OperatorInv /\ [Next]_vars =>
        [\A x \in Records :
           /\ held[x] \/ (x \in QueueRows /\ row[x] = "open")
           /\ row[x] # "erased"
           => row'[x] # "erased"]_vars
  BY ProtectedStep DEF OperatorInv, TypeInv
<1> QED BY <1>1, OperatorInvariant, PTL DEF Spec, ProtectedKept

\* For any operators and keys, SQS is asked once per key and every answer speaks
\* of that task (redrive_dlq).
THEOREM RedrivesAreTrue == Spec => []RedriveTrue
  BY RedriveStartedOnce, RedriveAnswersTrue, PTL DEF RedriveTrue

\* The audit log of append_audit_event has one entry for every outcome that
\* provider_requests records of a redrive, and none without one.
THEOREM RedrivesAudited == Spec => []RedriveAudited
<1>1. OperatorInv => RedriveAudited
  <2>1. Cardinality({}) = 0 /\ \A i : Cardinality({i}) = 1
    BY FS_EmptySet, FS_Singleton
  <2> QED BY <2>1 DEF OperatorInv, LogInv, OutcomeLogged, RedriveAudited
<1> QED BY <1>1, OperatorInvariant, PTL

\* Concurrent runs of run_retention_cleanup erase a row once and count it once,
\* in the audit event of the run that erased it.
THEOREM CleanupCountsTrue == Spec => []CountsTrue
<1>1. OperatorInv => CountsTrue
  <2> SUFFICES ASSUME OperatorInv PROVE CountsTrue
    OBVIOUS
  <2>1. ASSUME NEW x \in Records PROVE Cardinality(erasedBy[x]) <= 1
    <3>1. \A c, d \in erasedBy[x] : c = d
      BY DEF OperatorInv, BatchInv, ErasedOnce
    <3>2. CASE erasedBy[x] = {}
      BY <3>2, FS_EmptySet
    <3>3. CASE erasedBy[x] # {}
      <4>1. PICK c : erasedBy[x] = {c}
        BY <3>1, <3>3
      <4>2. Cardinality({c}) = 1
        BY FS_Singleton
      <4> QED BY <4>1, <4>2
    <3> QED BY <3>2, <3>3
  <2> QED BY <2>1 DEF OperatorInv, LogInv, CountLogged, CountsTrue
<1> QED BY <1>1, OperatorInvariant, PTL
=============================================================================
