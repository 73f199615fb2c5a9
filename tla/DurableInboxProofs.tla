-------------------------- MODULE DurableInboxProofs --------------------------
(***************************************************************************)
(* The durable inbox is safe for every number of events, workers, attempts *)
(* and replays.  The row lock is the heart of the argument: RowOwned says  *)
(* what a worker inside a handler may rely on, and EffectsMatch, that a    *)
(* row's effect is committed once, needs nothing else.                     *)
(***************************************************************************)
EXTENDS DurableInbox, FiniteSetTheorems, TLAPS

\* The parts of the type that the argument needs.
Types ==
  /\ arrivals \in Nat
  /\ received \in [Events -> Nat]
  /\ message \in [Events -> {"unsent", "visible", "inflight", "stored", "deleted"}]
  /\ processed \in [Events -> BOOLEAN]
  /\ tries \in [Events -> Nat]
  /\ failed \in [Events -> BOOLEAN]
  /\ lock \in [Events -> Workers \cup {NoWorker}]
  /\ pc \in [Workers -> {"idle", "handling", "failed", "counting"}]
  /\ job \in [Workers -> Events \cup {NoEvent}]
  /\ \A w \in Workers : pc[w] # "idle" => job[w] \in Events
  /\ seen \in [Workers -> Nat]
  /\ marked \in [Workers -> BOOLEAN]
  /\ paused \in [Workers -> BOOLEAN]
  /\ effects \in [Events -> Nat]
  /\ replays \in [Events -> 0 .. MaxReplays]
  /\ reopened \in [Events -> Nat]

\* A message that run_worker is about to delete is stored too.
AckIsStored ==
  \A e \in Events : message[e] \in {"stored", "deleted"} => Duplicate(e)

\* The inductive invariant: types, the lock discipline, the effects, and
\* ingress.
WorkInv == Types /\ RowOwned /\ EffectsMatch
IngressInv == AckIsStored /\ StoredOnce

\* Types and the lock discipline hold initially and after every step.
LEMMA TypesStep == ASSUME Types, [Next]_vars PROVE Types'
<1> USE InboxAssumption DEF Types, queueVars, rowVars, workerVars, historyVars
<1>1. ASSUME NEW e \in Events, Ingress(e) PROVE Types'
  <2>1. CASE Send(e) \/ Receive(e) \/ Delete(e)
    BY <2>1 DEF Send, Receive, Delete
  <2>2. CASE AcceptMessage(e)
    BY <2>2 DEF AcceptMessage, Accept
  <2>3. CASE AcceptHttp(e)
    BY <2>3 DEF AcceptHttp, Accept
  <2> QED BY <1>1, <2>1, <2>2, <2>3 DEF Ingress
<1>2. ASSUME NEW w \in Workers, NEW e \in Events, Claim(w, e) PROVE Types'
  BY <1>2 DEF Claim
<1>3. ASSUME NEW w \in Workers, Commit(w) PROVE Types'
  BY <1>3 DEF Commit, Return
<1>4. ASSUME NEW w \in Workers, Rollback(w) PROVE Types'
  BY <1>4 DEF Rollback
<1>5. ASSUME NEW w \in Workers, ReadFailed(w) PROVE Types'
  BY <1>5 DEF ReadFailed
<1>6. ASSUME NEW w \in Workers, WriteFailed(w) PROVE Types'
  <2>1. failed' \in [Events -> BOOLEAN]
    BY <1>6, Zenon DEF WriteFailed
  <2> QED BY <1>6, <2>1 DEF WriteFailed, Counted, Return
<1>7. ASSUME NEW w \in Workers, Crash(w) PROVE Types'
  BY <1>7 DEF Crash, Return
<1>8. ASSUME NEW e \in Events, Redeliver(e) PROVE Types'
  BY <1>8 DEF Redeliver
<1>9. ASSUME NEW e \in Events, Replay(e) PROVE Types'
  BY <1>9 DEF Replay
<1>10. ASSUME NEW w \in Workers, Restart(w) PROVE Types'
  BY <1>10 DEF Restart
<1>11. CASE UNCHANGED vars
  BY <1>11 DEF vars
<1> QED
  BY <1>1, <1>2, <1>3, <1>4, <1>5, <1>6, <1>7, <1>8, <1>9, <1>10, <1>11
     DEF Next, CalmNext, Work

\* Whoever handles a row holds its lock, and no other step touches that row.
LEMMA RowStep == ASSUME Types, RowOwned, [Next]_vars PROVE RowOwned'
<1> USE InboxAssumption
    DEF RowOwned, Stored, queueVars, rowVars, workerVars, historyVars
<1>1. ASSUME NEW e \in Events, Ingress(e) PROVE RowOwned'
  <2>1. CASE Send(e) \/ Receive(e) \/ Delete(e)
    BY <2>1 DEF Send, Receive, Delete
  <2>2. CASE AcceptMessage(e) \/ AcceptHttp(e)
    <3>1. /\ UNCHANGED <<rowVars, lock, workerVars, historyVars>>
          /\ \A f \in Events : received[f] > 0 => received'[f] > 0
      BY <2>2 DEF AcceptMessage, AcceptHttp, Accept, Types
    <3> QED BY <3>1 DEF Types
  <2> QED BY <1>1, <2>1, <2>2 DEF Ingress
<1>2. ASSUME NEW w \in Workers, NEW e \in Events, Claim(w, e) PROVE RowOwned'
  BY <1>2 DEF Claim, Claimable, Types
<1>3. ASSUME NEW w \in Workers, Commit(w) PROVE RowOwned'
  BY <1>3 DEF Commit, Return, Types
<1>4. ASSUME NEW w \in Workers, Rollback(w) PROVE RowOwned'
  BY <1>4 DEF Rollback, Types
<1>5. ASSUME NEW w \in Workers, ReadFailed(w) PROVE RowOwned'
  BY <1>5 DEF ReadFailed, Types
<1>6. ASSUME NEW w \in Workers, WriteFailed(w) PROVE RowOwned'
  BY <1>6 DEF WriteFailed, Return, Types
<1>7. ASSUME NEW w \in Workers, Crash(w) PROVE RowOwned'
  BY <1>7 DEF Crash, Return, Types
<1>8. ASSUME NEW e \in Events, Redeliver(e) PROVE RowOwned'
  BY <1>8 DEF Redeliver
<1>9. ASSUME NEW e \in Events, Replay(e) PROVE RowOwned'
  BY <1>9 DEF Replay, Types
<1>10. ASSUME NEW w \in Workers, Restart(w) PROVE RowOwned'
  BY <1>10 DEF Restart
<1>11. CASE UNCHANGED vars
  BY <1>11 DEF vars
<1> QED
  BY <1>1, <1>2, <1>3, <1>4, <1>5, <1>6, <1>7, <1>8, <1>9, <1>10, <1>11
     DEF Next, CalmNext, Work

\* Only a commit adds an effect, to a row that RowOwned says is not processed;
\* only a replay reopens a row.
LEMMA EffectStep ==
  ASSUME Types, RowOwned, EffectsMatch, [Next]_vars PROVE EffectsMatch'
<1> USE InboxAssumption
    DEF EffectsMatch, queueVars, rowVars, workerVars, historyVars
<1>1. ASSUME NEW w \in Workers, Commit(w) PROVE EffectsMatch'
  BY <1>1 DEF Commit, RowOwned, Types
<1>2. ASSUME NEW e \in Events, Replay(e) PROVE EffectsMatch'
  BY <1>2 DEF Replay, Types
<1>3. ASSUME UNCHANGED <<processed, effects, reopened>> PROVE EffectsMatch'
  BY <1>3
<1>4. ASSUME NEW e \in Events, Ingress(e) \/ Redeliver(e)
      PROVE  UNCHANGED <<processed, effects, reopened>>
  BY <1>4 DEF Ingress, Send, Receive, AcceptMessage, Delete, AcceptHttp, Redeliver
<1>5. ASSUME NEW w \in Workers,
             \/ \E e \in Events : Claim(w, e)
             \/ Rollback(w) \/ ReadFailed(w) \/ WriteFailed(w)
             \/ Crash(w) \/ Restart(w)
      PROVE  UNCHANGED <<processed, effects, reopened>>
  BY <1>5 DEF Claim, Rollback, ReadFailed, WriteFailed, Crash, Restart
<1>6. ASSUME UNCHANGED vars PROVE UNCHANGED <<processed, effects, reopened>>
  BY <1>6 DEF vars
<1> QED
  BY <1>1, <1>2, <1>3, <1>4, <1>5, <1>6 DEF Next, CalmNext, Work

\* Initially nothing is stored, claimed or done.
LEMMA WorkInit == ASSUME Init PROVE WorkInv
<1> USE InboxAssumption DEF Init
<1>1. Types BY DEF Types
<1>2. RowOwned BY DEF RowOwned
<1>3. EffectsMatch BY DEF EffectsMatch
<1> QED BY <1>1, <1>2, <1>3 DEF WorkInv

-----------------------------------------------------------------------------
\* Ingress: a row that is stored stays stored, and a new row has a new key.
LEMMA IngressStep ==
  ASSUME Types, IngressInv, [Next]_vars PROVE IngressInv'
<1> USE InboxAssumption
    DEF IngressInv, AckIsStored, Types, Stored, Duplicate,
        queueVars, rowVars, workerVars, historyVars
<1> DEFINE Rows == {e \in Events : received[e] > 0}
<1>1. ASSUME UNCHANGED <<arrivals, received>> PROVE StoredOnce'
  BY <1>1 DEF StoredOnce
<1>2. ASSUME NEW e \in Events, Accept(e)
      PROVE  StoredOnce' /\ (\A f \in Events : Duplicate(f) => Duplicate(f)')
             /\ Duplicate(e)'
  <2>1. CASE Duplicate(e)
    BY <2>1, <1>1, <1>2 DEF Accept
  <2>2. CASE ~ Duplicate(e)
    <3>1. arrivals' = arrivals + 1 /\ received' = [received EXCEPT ![e] = arrivals + 1]
      BY <2>2, <1>2 DEF Accept
    <3>2. Rows' = Rows \cup {e} /\ e \notin Rows
      BY <2>2, <3>1
    <3>3. IsFiniteSet(Rows)
      BY FS_Subset
    <3>4. Cardinality(Rows \cup {e}) = Cardinality(Rows) + 1
      BY <3>2, <3>3, FS_AddElement
    <3>5. arrivals' = Cardinality(Rows')
      BY <3>1, <3>2, <3>4 DEF StoredOnce
    <3>6. \A f, g \in Events : Stored(f)' /\ Stored(g)' /\ Key[f] = Key[g] => f = g
      BY <2>2, <3>1 DEF StoredOnce
    <3>7. (\A f \in Events : Duplicate(f) => Duplicate(f)') /\ Duplicate(e)'
      BY <3>1
    <3> QED BY <3>5, <3>6, <3>7 DEF StoredOnce
  <2> QED BY <2>1, <2>2
<1>3. ASSUME NEW e \in Events, AcceptMessage(e) PROVE IngressInv'
  BY <1>2, <1>3 DEF AcceptMessage
<1>4. ASSUME NEW e \in Events, AcceptHttp(e) PROVE IngressInv'
  BY <1>2, <1>4 DEF AcceptHttp
<1>5. ASSUME NEW e \in Events, Send(e) \/ Receive(e) \/ Delete(e) \/ Redeliver(e)
      PROVE  IngressInv'
  BY <1>1, <1>5 DEF Send, Receive, Delete, Deletable, Redeliver
<1>6. ASSUME UNCHANGED queueVars PROVE IngressInv'
  BY <1>1, <1>6
<1>7. ASSUME NEW w \in Workers, Work(w) \/ Crash(w) \/ Restart(w)
      PROVE  UNCHANGED queueVars
  BY <1>7 DEF Work, Claim, Commit, Rollback, ReadFailed, WriteFailed, Crash, Restart
<1>8. ASSUME NEW e \in Events, Replay(e) PROVE UNCHANGED queueVars
  BY <1>8 DEF Replay
<1>9. ASSUME UNCHANGED vars PROVE UNCHANGED queueVars
  BY <1>9 DEF vars
<1> QED
  BY <1>3, <1>4, <1>5, <1>6, <1>7, <1>8, <1>9 DEF Next, CalmNext, Ingress

\* Initially the inbox has no row.
LEMMA IngressInit == ASSUME Init PROVE IngressInv
<1>1. {e \in Events : received[e] > 0} = {}
  BY DEF Init
<1>2. Cardinality({}) = 0
  BY FS_EmptySet
<1> QED
  BY <1>1, <1>2 DEF Init, IngressInv, AckIsStored, StoredOnce, Stored, Duplicate

-----------------------------------------------------------------------------
\* The inductive invariant holds in every reachable state.
THEOREM InboxInvariant == Spec => [](WorkInv /\ IngressInv)
<1>1. Init => WorkInv /\ IngressInv
  BY WorkInit, IngressInit
<1>2. WorkInv /\ IngressInv /\ [Next]_vars => (WorkInv /\ IngressInv)'
  BY TypesStep, RowStep, EffectStep, IngressStep DEF WorkInv
<1> QED BY <1>1, <1>2, PTL DEF Spec

\* TypeOK for every instance; arrivals never exceeds the number of events
\* because accept() stores each of them once.
THEOREM InboxTypeCorrect == Spec => []TypeOK
<1>1. WorkInv /\ IngressInv => TypeOK
  <2> SUFFICES ASSUME WorkInv, IngressInv PROVE TypeOK
    OBVIOUS
  <2>1. Cardinality({e \in Events : Stored(e)}) <= Cardinality(Events)
    BY FS_Subset, InboxAssumption
  <2>2. Cardinality(Events) \in Nat
    BY FS_CardinalityType, InboxAssumption
  <2>3. arrivals \in 0 .. Cardinality(Events)
    BY <2>1, <2>2 DEF WorkInv, Types, IngressInv, StoredOnce
  <2> QED BY <2>3 DEF WorkInv, Types, TypeOK
<1> QED BY <1>1, InboxInvariant, PTL

\* Whatever claims, failures, crashes, late failure counts and replays
\* interleave, a row's effect is committed once for every time it was opened.
THEOREM EffectOnce == Spec => []EffectsMatch
BY InboxInvariant, PTL DEF WorkInv

\* A worker inside a handler owns its row and knows its attempts, although the
\* failure session of _process_one takes no lock.
THEOREM HandlerOwnsRow == Spec => []RowOwned
BY InboxInvariant, PTL DEF WorkInv

\* run_worker deletes no message whose event was not stored.
THEOREM DeletionSafe == Spec => []DeletedIsStored
<1>1. IngressInv => DeletedIsStored
  BY DEF IngressInv, AckIsStored, DeletedIsStored
<1> QED BY <1>1, InboxInvariant, PTL

\* accept() stores an event once, and one event per idempotency key.
THEOREM KeyStoredOnce == Spec => []StoredOnce
BY InboxInvariant, PTL DEF IngressInv

\* For any events, keys and interleaving, ingress neither loses nor doubles an
\* event (accept, run_worker).
THEOREM IngressIsSound == Spec => []IngressSound
  BY DeletionSafe, KeyStoredOnce, PTL DEF IngressSound
=============================================================================
