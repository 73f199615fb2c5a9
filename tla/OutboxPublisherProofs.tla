------------------------ MODULE OutboxPublisherProofs ------------------------
(***************************************************************************)
(* For any number of rows, workers and attempts: the publisher keeps its   *)
(* types, repeats a call only after a failed attempt or a lost batch, and  *)
(* a switch holds once every worker runs with it.                          *)
(***************************************************************************)
EXTENDS OutboxPublisher, FiniteSetTheorems, TLAPS

\* The smaller and the larger of two integers are integers.
LEMMA MinType == \A a, b \in Int : Min({a, b}) \in {a, b}
<1> SUFFICES ASSUME NEW a \in Int, NEW b \in Int PROVE Min({a, b}) \in {a, b}
  OBVIOUS
<1>1. \E x \in {a, b} : \A y \in {a, b} : x <= y
  OBVIOUS
<1>2. QED BY <1>1 DEF Min

LEMMA MaxType == \A a, b \in Int : Max({a, b}) \in {a, b}
<1> SUFFICES ASSUME NEW a \in Int, NEW b \in Int PROVE Max({a, b}) \in {a, b}
  OBVIOUS
<1>1. \E x \in {a, b} : \A y \in {a, b} : x >= y
  OBVIOUS
<1>2. QED BY <1>1 DEF Max

LEMMA BackoffType == \A n \in Nat : Backoff(n) \in Int
<1> SUFFICES ASSUME NEW n \in Nat PROVE Backoff(n) \in Int
  OBVIOUS
<1>1. 2 ^ n \in Int
  OBVIOUS
<1>2. QED BY <1>1, MinType DEF Backoff

\* The batches under way: each row is in one of them, is due work, and is in
\* the part that the calls made so far account for.  A worker that runs with
\* the switch holds no row of a blocked target.
BatchesSound ==
  /\ \A p \in Publishers :
       /\ ok[p] \cup failed[p] \subseteq batch[p]
       /\ ok[p] \cap failed[p] = {}
       /\ ok[p] \subseteq reached[p]
       /\ reached[p] \subseteq ok[p] \cup failed[p]
       /\ paused[p] => batch[p] \cap Pausable = {}
       /\ \A r \in batch[p] : r \notin published /\ attempts[r] < MaxAttempts
       /\ \A r \in reached[p] : calls[r] > 0
  /\ \A p, q \in Publishers : p # q => batch[p] \cap batch[q] = {}

\* A row is in flight once or not at all when batches are disjoint.
LEMMA InFlightOnce ==
  ASSUME TypeOK, BatchesSound, NEW r \in Rows
  PROVE  InFlight(r) = IF \E p \in Publishers : r \in reached[p] THEN 1 ELSE 0
<1>1. CASE \E p \in Publishers : r \in reached[p]
  <2>1. PICK p \in Publishers : r \in reached[p]
    BY <1>1
  <2>2. {q \in Publishers : r \in reached[q]} = {p}
    BY <2>1 DEF BatchesSound
  <2>3. QED BY <1>1, <2>2, FS_Singleton DEF InFlight
<1>2. CASE ~ \E p \in Publishers : r \in reached[p]
  <2>1. {q \in Publishers : r \in reached[q]} = {}
    BY <1>2
  <2>2. QED BY <1>2, <2>1, FS_EmptySet DEF InFlight
<1>3. QED BY <1>1, <1>2

\* One call of the row is under way, or none.
Flies(r) == IF \E p \in Publishers : r \in reached[p] THEN 1 ELSE 0

\* RepeatsExplained without cardinalities.
Explained ==
  \A r \in Rows :
    /\ calls[r] <= (IF r \in published THEN 1 ELSE 0) + attempts[r] + lost[r] + Flies(r)
    /\ r \in published => calls[r] > 0

\* The inductive invariant: repeats are explained only while batches are sound.
PublisherInv == TypeOK /\ BatchesSound /\ Explained

\* The two say the same of sound batches.
LEMMA ExplainedIff == TypeOK /\ BatchesSound => (RepeatsExplained <=> Explained)
<1> SUFFICES ASSUME TypeOK, BatchesSound PROVE RepeatsExplained <=> Explained
  OBVIOUS
<1>1. \A r \in Rows : InFlight(r) = Flies(r) /\ Flies(r) \in {0, 1}
  BY InFlightOnce DEF Flies
<1>2. QED BY <1>1 DEF RepeatsExplained, Explained

-----------------------------------------------------------------------------
\* The empty table satisfies the invariant.
LEMMA PublisherInit == Init => PublisherInv
<1> SUFFICES ASSUME Init PROVE PublisherInv
  OBVIOUS
<1> USE OutboxAssumption
<1>1. \A p \in Publishers : batch[p] = {} /\ ok[p] = {} /\ failed[p] = {} /\ reached[p] = {}
  BY DEF Init, NoRows
<1>2. TypeOK
  <2>1. \A f \in {batch, ok, failed, reached} : f \in [Publishers -> SUBSET Rows]
    BY DEF Init, NoRows
  <2>2. paused \in [Publishers -> BOOLEAN]
    BY DEF Init
  <2>3. QED BY <2>1, <2>2 DEF Init, TypeOK
<1>3. BatchesSound
  BY <1>1 DEF BatchesSound
<1>4. Explained
  BY <1>1 DEF Init, Explained, Flies
<1>5. QED BY <1>2, <1>3, <1>4 DEF PublisherInv

\* The invariant is kept by every step.
LEMMA PublisherStep == PublisherInv /\ [Next]_vars => PublisherInv'
<1> SUFFICES ASSUME PublisherInv, [Next]_vars PROVE PublisherInv'
  OBVIOUS
<1> USE OutboxAssumption DEF PublisherInv
<1>1. ASSUME NEW r \in Rows, Enqueue(r) PROVE PublisherInv'
  <2>1. TypeOK'
    BY <1>1 DEF Enqueue, TypeOK, batchVars
  <2>2. BatchesSound' /\ Explained'
    BY <1>1 DEF Enqueue, batchVars, BatchesSound, Explained, Flies
  <2>3. QED BY <2>1, <2>2
<1>2. ASSUME NEW p \in Publishers, SelectBatch(p) PROVE PublisherInv'
  <2>1. PICK rows \in SUBSET Due : Selection(p, rows) /\ batch' = [batch EXCEPT ![p] = rows]
    BY <1>2 DEF SelectBatch
  <2>2. /\ \A r \in rows : r \in Rows /\ r \notin published /\ attempts[r] < MaxAttempts
        /\ rows \cap Blocked(p) = {}
        /\ \A q \in Publishers : rows \cap batch[q] = {}
    BY <2>1 DEF Selection, Due, Locked, TypeOK
  <2>3. TypeOK'
    BY <1>2, <2>1, <2>2 DEF SelectBatch, TypeOK, rowVars
  <2>4. \A q \in Publishers : batch'[q] = IF q = p THEN rows ELSE batch[q]
    BY <2>1 DEF TypeOK
  <2>5. ok[p] = {} /\ failed[p] = {} /\ reached[p] = {}
    BY <1>2 DEF SelectBatch, BatchesSound
  <2>6. UNCHANGED <<published, attempts, ok, failed, reached, calls, paused, lost>>
    BY <1>2 DEF SelectBatch, rowVars
  <2>7. BatchesSound'
    BY <2>2, <2>4, <2>5, <2>6 DEF BatchesSound, Blocked
  <2>8. Explained'
    BY <2>6 DEF Explained, Flies
  <2>9. QED BY <2>3, <2>7, <2>8
<1>3. ASSUME NEW p \in Publishers, NEW r \in Rows, Current(p, r), Call(p, r),
             \/ /\ ok' = [ok EXCEPT ![p] = @ \cup {r}] /\ failed' = failed
             \/ /\ failed' = [failed EXCEPT ![p] = @ \cup {r}] /\ ok' = ok,
             UNCHANGED <<rowVars, paused, batch, age, lost, losses>>
      PROVE  PublisherInv'
  <2>1. r \in batch[p] /\ r \notin ok[p] /\ r \notin failed[p]
    BY <1>3 DEF Current
  <2>2. \A q \in Publishers : r \notin reached[q]
    BY <2>1 DEF BatchesSound
  <2>3. TypeOK'
    BY <1>3 DEF Call, TypeOK, rowVars
  <2>4. /\ \A q \in Publishers : reached'[q] = IF q = p THEN reached[p] \cup {r} ELSE reached[q]
        /\ \A s \in Rows : calls'[s] = IF s = r THEN calls[r] + 1 ELSE calls[s]
        /\ calls[r] \in Nat
    BY <1>3 DEF Call, TypeOK
  <2>5. \/ /\ \A q \in Publishers : ok'[q] = IF q = p THEN ok[p] \cup {r} ELSE ok[q]
           /\ failed' = failed
        \/ /\ \A q \in Publishers : failed'[q] = IF q = p THEN failed[p] \cup {r} ELSE failed[q]
           /\ ok' = ok
    BY <1>3 DEF TypeOK
  <2>6. UNCHANGED <<published, attempts, batch, paused, lost>>
    BY <1>3 DEF rowVars
  <2>7. BatchesSound'
    <3>1. ASSUME NEW q \in Publishers
          PROVE  /\ ok'[q] \cup failed'[q] \subseteq batch'[q]
                 /\ ok'[q] \cap failed'[q] = {}
                 /\ ok'[q] \subseteq reached'[q]
                 /\ reached'[q] \subseteq ok'[q] \cup failed'[q]
      BY <2>1, <2>4, <2>5, <2>6 DEF BatchesSound
    <3>2. ASSUME NEW q \in Publishers
          PROVE  \A s \in reached'[q] : calls'[s] > 0
      <4>1. reached[q] \subseteq Rows
        BY DEF TypeOK
      <4>2. \A s \in reached[q] : s \in Rows /\ calls[s] > 0 /\ calls[s] \in Nat
        BY <4>1 DEF BatchesSound, TypeOK
      <4>3. QED BY <2>4, <4>2
    <3>3. QED BY <2>6, <3>1, <3>2 DEF BatchesSound
  <2>8. Flies(r) = 0 /\ Flies(r)' = 1 /\ \A s \in Rows \ {r} : Flies(s)' = Flies(s)
    BY <2>2, <2>4 DEF Flies
  <2>9. Explained'
    BY <2>4, <2>6, <2>8 DEF Explained, TypeOK
  <2>10. QED BY <2>3, <2>7, <2>9
<1>4. ASSUME NEW p \in Publishers, NEW r \in Rows, Deliver(p, r) PROVE PublisherInv'
  BY <1>3, <1>4 DEF Deliver
<1>5. ASSUME NEW p \in Publishers, NEW r \in Rows, DeliveryFails(p, r) PROVE PublisherInv'
  <2>1. CASE Call(p, r)
    BY <1>3, <1>5, <2>1 DEF DeliveryFails
  <2>2. CASE UNCHANGED <<reached, calls>>
    <3>1. r \in batch[p] /\ r \notin ok[p] /\ r \notin failed[p]
      BY <1>5 DEF DeliveryFails, Current
    <3>2. TypeOK'
      BY <1>5, <2>2 DEF DeliveryFails, TypeOK, rowVars
    <3>3. \A q \in Publishers : failed'[q] = IF q = p THEN failed[p] \cup {r} ELSE failed[q]
      BY <1>5 DEF DeliveryFails, TypeOK
    <3>4. UNCHANGED <<published, attempts, batch, ok, reached, calls, paused, lost>>
      BY <1>5, <2>2 DEF DeliveryFails, rowVars
    <3>5. BatchesSound' /\ Explained'
      BY <3>1, <3>3, <3>4 DEF BatchesSound, Explained, Flies
    <3>6. QED BY <3>2, <3>5
  <2>3. QED BY <1>5, <2>1, <2>2 DEF DeliveryFails
<1>6. ASSUME NEW p \in Publishers, Commit(p) PROVE PublisherInv'
  <2>1. /\ \A q \in Publishers : /\ batch'[q] = IF q = p THEN {} ELSE batch[q]
                                 /\ ok'[q] = IF q = p THEN {} ELSE ok[q]
                                 /\ failed'[q] = IF q = p THEN {} ELSE failed[q]
                                 /\ reached'[q] = IF q = p THEN {} ELSE reached[q]
        /\ \A f \in {batch', ok', failed', reached'} : f \in [Publishers -> SUBSET Rows]
        /\ age' \in [Publishers -> Nat]
    BY <1>6 DEF Commit, EndBatch, TypeOK
  <2>2. /\ published' = published \cup ok[p]
        /\ \A r \in Rows : attempts'[r] = IF r \in failed[p] THEN attempts[r] + 1 ELSE attempts[r]
        /\ UNCHANGED <<stored, paused, calls, lost, losses>>
    BY <1>6 DEF Commit, Committed
  <2>3. attempts' \in [Rows -> 0 .. MaxAttempts]
    <3>1. \A r \in failed[p] : attempts[r] < MaxAttempts
      BY DEF BatchesSound
    <3>2. attempts' = [r \in Rows |-> IF r \in failed[p] THEN attempts[r] + 1 ELSE attempts[r]]
      BY <1>6 DEF Commit, Committed
    <3>3. QED BY <3>1, <3>2 DEF TypeOK
  <2>4. wait' \in [Rows -> Int]
    <3>1. \A r \in Rows : Backoff(attempts[r] + 1) \in Int
      BY BackoffType DEF TypeOK
    <3>2. age[p] \in Int
      BY DEF TypeOK
    <3>3. wait' = [r \in Rows |-> IF r \in failed[p] THEN Backoff(attempts[r] + 1) - age[p]
                                  ELSE wait[r]]
      BY <1>6 DEF Commit
    <3>4. QED BY <3>1, <3>2, <3>3 DEF TypeOK
  <2>5. TypeOK'
    <3>1. published' \in SUBSET Rows
      BY <2>2 DEF TypeOK
    <3>2. QED BY <2>1, <2>2, <2>3, <2>4, <3>1 DEF TypeOK
  <2>6. BatchesSound'
    <3>1. \A r \in Rows : r \notin failed[p] => attempts'[r] = attempts[r]
      BY <2>2
    <3>2. ASSUME NEW q \in Publishers, NEW r \in batch'[q]
          PROVE  r \notin published' /\ attempts'[r] < MaxAttempts
      <4>1. q # p /\ r \in batch[q] /\ r \in Rows
        BY <2>1, <3>2 DEF TypeOK
      <4>2. r \notin ok[p] /\ r \notin failed[p]
        BY <4>1 DEF BatchesSound
      <4>3. QED BY <2>2, <3>1, <4>1, <4>2 DEF BatchesSound
    <3>3. ASSUME NEW q \in Publishers
          PROVE  /\ ok'[q] \cup failed'[q] \subseteq batch'[q]
                 /\ ok'[q] \cap failed'[q] = {}
                 /\ ok'[q] \subseteq reached'[q]
                 /\ reached'[q] \subseteq ok'[q] \cup failed'[q]
                 /\ paused'[q] => batch'[q] \cap Pausable = {}
                 /\ \A r \in reached'[q] : calls'[r] > 0
      <4>1. CASE q = p
        BY <2>1, <4>1
      <4>2. CASE q # p
        BY <2>1, <2>2, <4>2 DEF BatchesSound
      <4>3. QED BY <4>1, <4>2
    <3>4. \A q, s \in Publishers : q # s => batch'[q] \cap batch'[s] = {}
      BY <2>1 DEF BatchesSound
    <3>5. QED BY <3>2, <3>3, <3>4 DEF BatchesSound
  <2>7. \A r \in Rows :
          Flies(r)' = IF r \in reached[p] THEN 0 ELSE Flies(r)
    BY <2>1 DEF Flies, BatchesSound
  <2>8. \A r \in Rows : r \in reached[p] =>
          /\ Flies(r) = 1 /\ r \notin published
          /\ calls[r] > 0 /\ (r \in ok[p] \/ r \in failed[p])
    BY DEF Flies, BatchesSound
  <2>9. \A r \in Rows : r \in ok[p] => r \in reached[p] /\ r \notin failed[p]
    BY DEF BatchesSound
  <2>10. Explained'
    <3>1. ASSUME NEW r \in Rows
          PROVE  /\ calls[r] <= (IF r \in published' THEN 1 ELSE 0)
                                  + attempts'[r] + lost[r] + Flies(r)'
                 /\ r \in published' => calls[r] > 0
      <4>1. calls[r] \in Nat /\ attempts[r] \in Nat /\ lost[r] \in Nat /\ Flies(r) \in {0, 1}
        BY DEF TypeOK, Flies
      <4>2. /\ calls[r] <= (IF r \in published THEN 1 ELSE 0) + attempts[r] + lost[r] + Flies(r)
            /\ r \in published => calls[r] > 0
        BY DEF Explained
      <4>3. CASE r \in ok[p]
        BY <2>2, <2>7, <2>8, <2>9, <4>1, <4>2, <4>3
      <4>4. CASE r \notin ok[p] /\ r \in reached[p]
        BY <2>2, <2>7, <2>8, <4>1, <4>2, <4>4
      <4>5. CASE r \notin ok[p] /\ r \notin reached[p]
        BY <2>2, <2>7, <4>1, <4>2, <4>5
      <4>6. QED BY <4>3, <4>4, <4>5
    <3>2. QED BY <2>2, <3>1 DEF Explained
  <2>11. QED BY <2>5, <2>6, <2>10
<1>7. ASSUME NEW p \in Publishers, LoseBatch(p) PROVE PublisherInv'
  <2>1. /\ \A q \in Publishers : /\ batch'[q] = IF q = p THEN {} ELSE batch[q]
                                 /\ ok'[q] = IF q = p THEN {} ELSE ok[q]
                                 /\ failed'[q] = IF q = p THEN {} ELSE failed[q]
                                 /\ reached'[q] = IF q = p THEN {} ELSE reached[q]
        /\ \A f \in {batch', ok', failed', reached'} : f \in [Publishers -> SUBSET Rows]
        /\ age' \in [Publishers -> Nat]
    BY <1>7 DEF LoseBatch, EndBatch, TypeOK
  <2>2. /\ \A r \in Rows : lost'[r] = IF r \in reached[p] THEN lost[r] + 1 ELSE lost[r]
        /\ lost' \in [Rows -> Nat]
        /\ losses' \in 0 .. MaxLosses
        /\ UNCHANGED <<stored, published, attempts, wait, paused, calls>>
    BY <1>7 DEF LoseBatch, TypeOK, rowVars
  <2>3. TypeOK'
    BY <2>1, <2>2 DEF TypeOK
  <2>4. BatchesSound'
    BY <2>1, <2>2 DEF BatchesSound
  <2>5. \A r \in Rows :
          /\ Flies(r)' = IF r \in reached[p] THEN 0 ELSE Flies(r)
          /\ r \in reached[p] => Flies(r) = 1
    BY <2>1 DEF Flies, BatchesSound
  <2>6. Explained'
    BY <2>2, <2>5 DEF Explained, TypeOK
  <2>7. QED BY <2>3, <2>4, <2>6
<1>8. ASSUME NEW p \in Publishers, Restart(p) PROVE PublisherInv'
  <2>1. TypeOK'
    <3>1. paused' \in [Publishers -> BOOLEAN]
      BY <1>8 DEF Restart, TypeOK
    <3>2. QED BY <1>8, <3>1 DEF Restart, TypeOK, rowVars, batchVars
  <2>2. \A q \in Publishers : q # p => paused'[q] = paused[q]
    BY <1>8 DEF Restart, TypeOK
  <2>3. batch[p] = {} /\ UNCHANGED <<published, attempts, batch, ok, failed, reached, calls, lost>>
    BY <1>8 DEF Restart, Stopped, rowVars, batchVars
  <2>4. BatchesSound' /\ Explained'
    BY <2>2, <2>3 DEF BatchesSound, Explained, Flies
  <2>5. QED BY <2>1, <2>4
<1>9. CASE Tick
  <2>1. wait' \in [Rows -> Int]
    <3>1. ASSUME NEW r \in Rows PROVE Max({wait[r] - 1, - Patience}) \in Int
      <4>1. wait[r] - 1 \in Int /\ - Patience \in Int
        BY DEF TypeOK
      <4>2. QED BY <4>1, MaxType
    <3>2. QED BY <1>9, <3>1 DEF Tick, TypeOK
  <2>2. age' \in [Publishers -> Nat]
    <3>1. \A p \in Publishers : Min({age[p] + 1, MaxWait}) \in Nat
      BY MinType DEF TypeOK
    <3>2. QED BY <1>9, <3>1 DEF Tick, TypeOK
  <2>3. TypeOK'
    BY <1>9, <2>1, <2>2 DEF Tick, TypeOK
  <2>4. BatchesSound' /\ Explained'
    BY <1>9 DEF Tick, BatchesSound, Explained, Flies
  <2>5. QED BY <2>3, <2>4
<1>10. CASE UNCHANGED vars
  BY <1>10 DEF vars, rowVars, batchVars, TypeOK, BatchesSound, Explained, Flies
<1>11. QED
  BY <1>1, <1>2, <1>4, <1>5, <1>6, <1>7, <1>8, <1>9, <1>10 DEF Next, Publish

-----------------------------------------------------------------------------
\* PublisherInv holds in every reachable state.
THEOREM PublisherInvariant == Spec => []PublisherInv
  BY PublisherInit, PublisherStep, PTL DEF Spec

\* Every variable keeps its type: no row gets more attempts than allowed, with
\* however many workers (the select of publish_batch).
THEOREM PublisherTyped == Spec => []TypeOK
  BY PublisherInvariant, PTL DEF PublisherInv

\* A provider is called again for a row only after a failed attempt or a lost
\* batch, with however many workers, rows and crashes (publish_batch).
THEOREM RepeatsOnlyExplained == Spec => []RepeatsExplained
<1>1. PublisherInv => RepeatsExplained
  BY ExplainedIff DEF PublisherInv
<1>2. QED BY <1>1, PublisherInvariant, PTL

\* A switch that every worker runs with holds (blocked_targets).
THEOREM SwitchHolds == Spec => []PauseHolds
<1>1. PublisherInv => PauseHolds
  BY DEF PublisherInv, BatchesSound, PauseHolds
<1>2. QED BY <1>1, PublisherInvariant, PTL
=============================================================================
