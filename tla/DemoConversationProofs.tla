------------------------ MODULE DemoConversationProofs ------------------------
(***************************************************************************)
(* Concurrent turns of a conversation, for every number of workers,        *)
(* messages and tutors and whatever the messages say: a conversation is    *)
(* created once; a turn that was not overtaken repairs what racing turns   *)
(* wrote; and as long as none was overtaken, what they wrote agrees.       *)
(***************************************************************************)
EXTENDS DemoConversation, FiniteSetTheorems, TLAPS

\* An existing conversation, and a loaded one, has a positive version.
VersionInv ==
  /\ conv.version \in Nat
  /\ conv.step # "none" => conv.version > 0
  /\ \A w \in Workers :
       /\ snap[w].version \in Nat
       /\ snap[w].step # "none" => snap[w].version > 0

\* The shape of the worker variables.
Shape ==
  /\ snap = [w \in Workers |-> snap[w]]
  /\ pc = [w \in Workers |-> pc[w]]
  /\ msg = [w \in Workers |-> msg[w]]
  /\ found = [w \in Workers |-> found[w]]

\* A worker's answer is the one its turn asked for: a search follows complete
\* requirements, and a pick an open selection.
FoundInv ==
  \A w \in Workers :
    /\ pc[w] # "ready" => found[w].kind = "none"
    /\ found[w].kind \in {"unavailable", "list"} => Searches(w)
    /\ found[w].kind = "pick" => Picks(w)

\* The steps that commit a turn of w: it writes the step it has computed, or
\* the one that follows a shortlist or a pick.
Commits(w) ==
  \E step \in Steps :
    /\ Commit(w, step)
    /\ step = TurnStep(w) \/ found[w].kind \in {"list", "pick"}

\* The step a turn computes is one of the steps.
LEMMA TurnStepType ==
  ASSUME NEW w \in Workers PROVE TurnStep(w) \in Steps
  BY DEF TurnStep, StepAfter, NextRequirementStep, Choosing, Steps

\* Every step commits a turn, or leaves the conversation and the turn count.
LEMMA StepCases ==
  ASSUME [Next]_vars
  PROVE  \/ \E w \in Workers : Commits(w)
         \/ UNCHANGED <<conv, turns>>
<1>1. ASSUME NEW w \in Workers, Ask(w) \/ HandOff(w) \/ Shortlist(w) \/ Select(w)
      PROVE  Commits(w)
  <2>1. CASE Ask(w) \/ HandOff(w)
    BY <2>1, TurnStepType DEF Ask, HandOff, Commits
  <2>2. CASE Shortlist(w) \/ Select(w)
    BY <2>2 DEF Shortlist, Select, Commits, Steps
  <2> QED BY <1>1, <2>1, <2>2
<1>2. ASSUME NEW w \in Workers,
             \/ \E m \in Messages : Read(w, m)
             \/ Search(w) \/ Pick(w) \/ Fail(w) \/ Crash(w)
      PROVE  UNCHANGED <<conv, turns>>
  BY <1>2 DEF Read, Search, Pick, Fail, Crash, rowVars
<1>3. ASSUME NEW m \in Messages, Arrive(m) PROVE UNCHANGED <<conv, turns>>
  BY <1>3 DEF Arrive, rowVars
<1>4. ASSUME UNCHANGED vars PROVE UNCHANGED <<conv, turns>>
  BY <1>4 DEF vars, rowVars
<1> QED
  BY <1>1, <1>2, <1>3, <1>4 DEF Next, Turn

\* Only Read loads a snapshot, and it loads the conversation as it is.
LEMMA SnapCases ==
  ASSUME Shape, [Next]_vars
  PROVE  /\ Shape'
         /\ \A w \in Workers : snap'[w] \in {snap[w], conv, NoColumns}
<1> USE DEF Shape
<1>1. ASSUME NEW w \in Workers, Return(w)
      PROVE  Shape' /\ \A v \in Workers : snap'[v] \in {snap[v], conv, NoColumns}
  BY <1>1 DEF Return
<1>2. ASSUME NEW w \in Workers,
             Ask(w) \/ HandOff(w) \/ Shortlist(w) \/ Select(w) \/ Fail(w) \/ Crash(w)
      PROVE  Return(w)
  BY <1>2 DEF Ask, HandOff, Shortlist, Select, Commit, Fail, Crash
<1>3. ASSUME NEW w \in Workers, NEW m \in Messages, Read(w, m)
      PROVE  Shape' /\ \A v \in Workers : snap'[v] \in {snap[v], conv, NoColumns}
  BY <1>3 DEF Read
<1>4. ASSUME NEW w \in Workers, Search(w) \/ Pick(w)
      PROVE  Shape' /\ \A v \in Workers : snap'[v] \in {snap[v], conv, NoColumns}
  BY <1>4 DEF Search, Pick
<1>5. ASSUME UNCHANGED <<snap, pc, msg, found>>
      PROVE  Shape' /\ \A v \in Workers : snap'[v] \in {snap[v], conv, NoColumns}
  BY <1>5
<1>6. ASSUME NEW m \in Messages, Arrive(m) PROVE UNCHANGED <<snap, pc, msg, found>>
  BY <1>6 DEF Arrive, workerVars
<1>7. ASSUME UNCHANGED vars PROVE UNCHANGED <<snap, pc, msg, found>>
  BY <1>7 DEF vars, workerVars
<1> QED
  BY <1>1, <1>2, <1>3, <1>4, <1>5, <1>6, <1>7 DEF Next, Turn

\* A commit writes one more than the version it read.
LEMMA CommitVersion ==
  ASSUME NEW w \in Workers, Commits(w), VersionInv
  PROVE  /\ conv'.version = snap[w].version + 1
         /\ snap[w].step = "none" => conv.step = "none"
  BY DEF Commits, Commit, Insertable, Written, Flushed

LEMMA VersionStep ==
  ASSUME Shape, VersionInv, [Next]_vars PROVE VersionInv'
<1>1. /\ conv'.version \in Nat
      /\ conv'.step # "none" => conv'.version > 0
  <2>1. ASSUME NEW w \in Workers, Commits(w) PROVE conv'.version \in Nat \ {0}
    BY <2>1, CommitVersion DEF VersionInv
  <2> QED BY <2>1, StepCases DEF VersionInv
<1>2. ASSUME NEW w \in Workers
      PROVE  /\ snap'[w].version \in Nat
             /\ snap'[w].step # "none" => snap'[w].version > 0
  BY SnapCases DEF VersionInv, NoColumns
<1> QED BY <1>1, <1>2 DEF VersionInv

\* Versions are positive in every reachable state.
THEOREM VersionsPositive == Spec => [](Shape /\ VersionInv)
<1>1. Init => Shape /\ VersionInv
  BY DEF Init, Shape, VersionInv, NoColumns
<1>2. Shape /\ VersionInv /\ [Next]_vars => (Shape /\ VersionInv)'
  BY SnapCases, VersionStep
<1> QED BY <1>1, <1>2, PTL DEF Spec

\* However many workers race to create a conversation, one of them does, and
\* no later turn starts it again.
THEOREM ConversationCreatedOnce == Spec => CaseCreatedOnce
<1>1. ASSUME Shape, VersionInv, [Next]_vars
      PROVE  conv.step # "none" => conv' = conv \/ conv'.version > 1
  <2>1. ASSUME NEW w \in Workers, Commits(w), conv.step # "none"
        PROVE  conv'.version > 1
    BY <1>1, <2>1, CommitVersion DEF VersionInv
  <2> QED BY <1>1, <2>1, StepCases
<1> QED BY <1>1, VersionsPositive, PTL DEF Spec, CaseCreatedOnce

\* A commit of another worker leaves pc[w] alone.
LEMMA CommitterMoves ==
  ASSUME Shape, NEW v \in Workers, Commits(v), NEW w \in Workers, pc'[w] # pc[w]
  PROVE  v = w
  BY DEF Commits, Commit, Return, Shape

\* Only a step that commits changes the number of turns.
LEMMA TurnCommits ==
  ASSUME Shape, [Next]_vars, turns \in Nat,
         NEW w \in Workers, turns' = turns + 1, pc'[w] # pc[w]
  PROVE  Commits(w)
<1>1. turns' # turns
  OBVIOUS
<1>2. PICK v \in Workers : Commits(v)
  BY <1>1, StepCases
<1> QED BY <1>2, CommitterMoves

\* What a turn has computed does not change while it waits.
LEMMA FoundStep ==
  ASSUME Shape, FoundInv, [Next]_vars PROVE FoundInv'
<1> DEFINE Same(w) ==
      /\ snap'[w] = snap[w] /\ msg'[w] = msg[w]
      /\ found'[w] = found[w] /\ pc'[w] = pc[w]
      Good(w) ==
      /\ pc[w] # "ready" => found[w].kind = "none"
      /\ found[w].kind \in {"unavailable", "list"} => Searches(w)
      /\ found[w].kind = "pick" => Picks(w)
<1>1. ASSUME NEW w \in Workers, snap'[w] = snap[w], msg'[w] = msg[w]
      PROVE  /\ Searches(w)' <=> Searches(w)
             /\ Picks(w)' <=> Picks(w)
  BY <1>1 DEF Searches, Picks, TurnReq, TurnStep, TurnUpdates
<1>2. ASSUME NEW w \in Workers, Same(w) PROVE Good(w)'
  BY <1>1, <1>2 DEF FoundInv
<1>3. ASSUME NEW w \in Workers, Return(w) PROVE FoundInv'
  <2>1. \A v \in Workers \ {w} : Same(v)
    BY <1>3 DEF Return, Shape
  <2>2. found'[w].kind = "none"
    BY <1>3 DEF Return, Shape
  <2> QED BY <1>2, <2>1, <2>2 DEF FoundInv
<1>4. ASSUME NEW w \in Workers,
             Ask(w) \/ HandOff(w) \/ Shortlist(w) \/ Select(w) \/ Fail(w) \/ Crash(w)
      PROVE  Return(w)
  BY <1>4 DEF Ask, HandOff, Shortlist, Select, Commit, Fail, Crash
<1>5. ASSUME NEW w \in Workers, NEW m \in Messages, Read(w, m) PROVE FoundInv'
  <2>1. \A v \in Workers \ {w} : Same(v)
    BY <1>5 DEF Read, Shape
  <2>2. found'[w].kind = "none"
    BY <1>5 DEF Read, FoundInv
  <2> QED BY <1>2, <2>1, <2>2 DEF FoundInv
<1>6. ASSUME NEW w \in Workers, Search(w) \/ Pick(w) PROVE FoundInv'
  <2>1. \A v \in Workers \ {w} : Same(v)
    BY <1>6 DEF Search, Pick, Shape
  <2>2. snap'[w] = snap[w] /\ msg'[w] = msg[w] /\ pc'[w] = "ready"
    BY <1>6 DEF Search, Pick, Shape
  <2>3. CASE Search(w)
    <3>1. Searches(w) /\ found'[w].kind \in {"unavailable", "list"}
      BY <2>3 DEF Search, Shape
    <3> QED BY <1>1, <1>2, <2>1, <2>2, <3>1 DEF FoundInv
  <2>4. CASE Pick(w)
    <3>1. Picks(w) /\ found'[w].kind = "pick"
      BY <2>4 DEF Pick, Shape
    <3> QED BY <1>1, <1>2, <2>1, <2>2, <3>1 DEF FoundInv
  <2> QED BY <1>6, <2>3, <2>4
<1>7. ASSUME UNCHANGED <<snap, pc, msg, found>> PROVE FoundInv'
  BY <1>2, <1>7 DEF FoundInv
<1>8. ASSUME NEW m \in Messages, Arrive(m) PROVE UNCHANGED <<snap, pc, msg, found>>
  BY <1>8 DEF Arrive, workerVars
<1>9. ASSUME UNCHANGED vars PROVE UNCHANGED <<snap, pc, msg, found>>
  BY <1>9 DEF vars, workerVars
<1> QED
  BY <1>3, <1>4, <1>5, <1>6, <1>7, <1>8, <1>9 DEF Next, Turn

\* The turn counter is a number, and what a turn found fits what it computed.
LEMMA TurnInv == Spec => [](Shape /\ FoundInv /\ turns \in Nat)
<1>1. Init => Shape /\ FoundInv /\ turns \in Nat
  BY DEF Init, Shape, FoundInv
<1>2. Shape /\ FoundInv /\ turns \in Nat /\ [Next]_vars
        => (Shape /\ FoundInv /\ turns \in Nat)'
  <2>1. ASSUME NEW w \in Workers, Commits(w), turns \in Nat PROVE turns' \in Nat
    BY <2>1 DEF Commits, Commit
  <2> QED BY <2>1, StepCases, SnapCases, FoundStep
<1> QED BY <1>1, <1>2, PTL DEF Spec

\* A turn whose snapshot is current writes exactly what it has computed.
LEMMA FreshCommit ==
  ASSUME NEW w \in Workers, snap[w] = conv, NEW step, Commit(w, step)
  PROVE  /\ conv'.step = step
         /\ conv'.req = TurnReq(w)
         /\ conv'.missing = Missing(TurnReq(w))
<1>1. CASE snap[w].step = "none"
  BY <1>1 DEF Commit, Written
<1>2. CASE snap[w].step # "none"
  <2> DEFINE new == Written(w, step)
  <2>1. conv' = Flushed(w, new)
    BY <1>2 DEF Commit
  <2>2. new.step = step /\ new.req = TurnReq(w) /\ new.missing = Missing(TurnReq(w))
    BY DEF Written
  <2>3. conv'.step = step /\ conv'.missing = Missing(TurnReq(w))
    BY <2>1, <2>2 DEF Flushed
  <2>4. conv'.req = [f \in Fields |-> new.req[f]]
    BY <2>1 DEF Flushed
  <2>5. TurnReq(w) = [f \in Fields |-> TurnReq(w)[f]]
    BY DEF TurnReq, Applied
  <2> QED BY <2>2, <2>3, <2>4, <2>5
<1> QED BY <1>1, <1>2

\* A turn that nobody overtook leaves missing_fields and the step in agreement
\* with the requirement, whatever racing turns had left.
THEOREM FreshTurnsRepair == Spec => FreshTurnRepairs
<1> DEFINE Repairs(w) ==
      snap[w] = conv /\ turns' = turns + 1 /\ pc'[w] # pc[w] =>
        /\ conv'.missing = Missing(conv'.req)
        /\ conv'.missing # {} /\ conv.step \notin Choosing =>
              conv'.step = NextRequirementStep(conv'.missing)
<1>1. ASSUME Shape, FoundInv, turns \in Nat, [Next]_vars, NEW w \in Workers
      PROVE  Repairs(w)
  <2> SUFFICES ASSUME snap[w] = conv, turns' = turns + 1, pc'[w] # pc[w]
               PROVE  /\ conv'.missing = Missing(conv'.req)
                      /\ conv'.missing # {} /\ conv.step \notin Choosing =>
                            conv'.step = NextRequirementStep(conv'.missing)
    OBVIOUS
  <2>1. Commits(w)
    BY <1>1, TurnCommits
  <2>2. PICK step \in Steps :
          Commit(w, step) /\ (step = TurnStep(w) \/ found[w].kind \in {"list", "pick"})
    BY <2>1 DEF Commits
  <2>3. /\ conv'.step = step
        /\ conv'.req = TurnReq(w)
        /\ conv'.missing = Missing(TurnReq(w))
    BY <2>2, FreshCommit
  <2>4. ASSUME conv'.missing # {}, conv.step \notin Choosing
        PROVE  step = NextRequirementStep(Missing(TurnReq(w)))
    <3>1. found[w].kind \notin {"list", "pick"}
      BY <1>1, <2>3, <2>4 DEF FoundInv, Searches, Picks, Choosing
    <3>2. step = StepAfter(snap[w], TurnUpdates(w))
      BY <2>2, <3>1 DEF TurnStep
    <3> QED BY <2>4, <3>2 DEF StepAfter, TurnReq
  <2> QED BY <2>3, <2>4
<1>2. Shape /\ FoundInv /\ turns \in Nat /\ [Next]_vars
        => [\A w \in Workers :
              snap[w] = conv /\ turns' = turns + 1 /\ pc'[w] # pc[w] =>
                /\ conv'.missing = Missing(conv'.req)
                /\ conv'.missing # {} /\ conv.step \notin Choosing =>
                     conv'.step = NextRequirementStep(conv'.missing)]_vars
  BY <1>1
<1> QED BY <1>2, TurnInv, PTL DEF Spec, FreshTurnRepairs

-----------------------------------------------------------------------------
(* Types.  A message's attempts stay within the limit because a worker in a  *)
(* turn holds a message of its own that is still queued and has one left.    *)

Processed == {m \in Messages : inbox[m] = "processed"}

\* What a worker holds.
HoldInv ==
  /\ turns = Cardinality(Processed)
  /\ \A w \in Workers :
       /\ pc[w] = "idle" => msg[w] = NoMessage
       /\ pc[w] # "idle" =>
            /\ msg[w] \in Messages
            /\ inbox[msg[w]] = "queued"
            /\ tries[msg[w]] < MaxAttempts
  /\ \A v, w \in Workers :
       pc[v] # "idle" /\ pc[w] # "idle" /\ msg[v] = msg[w] => v = w

\* What a turn computes from typed columns is typed.
LEMMA TurnTypes ==
  ASSUME NEW w \in Workers, snap[w] \in Columns, msg[w] \in Messages
  PROVE  /\ TurnReq(w) \in [Fields -> Nat]
         /\ Missing(TurnReq(w)) \in SUBSET Required
         /\ TurnStep(w) \in Steps
<1> DEFINE text == Text[msg[w]]
<1>1. /\ text \in Texts
      /\ \A f \in Fields : text.says[f] >= Keep
  BY ConversationAssumption
<1>2. snap[w].req \in [Fields -> Nat]
  BY DEF Columns
<1>3. text.says \in [Fields -> Int] /\ text.digit \in 0 .. 4
  BY <1>1 DEF Texts
<1>4. ASSUME NEW f \in Fields
      PROVE  TurnUpdates(w)[f] \in {text.digit, 0, text.says[f]}
  BY DEF TurnUpdates, Updates
<1>5. ASSUME NEW f \in Fields PROVE TurnReq(w)[f] \in Nat
  <2>1. TurnUpdates(w)[f] \in Int /\ TurnUpdates(w)[f] >= Keep
    BY <1>1, <1>3, <1>4 DEF Keep
  <2>2. TurnReq(w)[f] = IF TurnUpdates(w)[f] = Keep THEN snap[w].req[f]
                                                    ELSE TurnUpdates(w)[f]
    BY DEF TurnReq, Applied
  <2> QED BY <1>2, <2>1, <2>2 DEF Keep
<1>6. TurnReq(w) = [f \in Fields |-> TurnReq(w)[f]]
  BY DEF TurnReq, Applied
<1>7. TurnReq(w) \in [Fields -> Nat]
  BY <1>5, <1>6
<1> QED BY <1>7, TurnStepType DEF Missing

\* The columns a commit leaves are typed.
LEMMA CommitTypes ==
  ASSUME TypeOK, NEW w \in Workers, msg[w] \in Messages,
         NEW step \in Steps, Commit(w, step)
  PROVE  conv' \in Columns
<1> DEFINE new == Written(w, step)
<1>1. snap[w] \in Columns /\ conv \in Columns
  BY DEF TypeOK
<1>2. new \in Columns
  BY <1>1, TurnTypes DEF Written, Columns
<1>3. Flushed(w, new) \in Columns
  BY <1>1, <1>2 DEF Flushed, Columns
<1> QED BY <1>2, <1>3 DEF Commit

\* What the fields of an answer are.
LEMMA AnswerFields ==
  ASSUME NEW a \in Answers
  PROVE  /\ a.kind = "list" => a.list \in Shortlists
         /\ a.kind = "pick" => a.tutor \in Tutors
  BY DEF Answers

\* A list's places are ranks, and a listed tutor's place is where it stands.
LEMMA ListPlaces ==
  ASSUME NEW list \in Shortlists, NEW i \in DOMAIN list
  PROVE  /\ i \in 0 .. Limit /\ i # 0
         /\ list[i] \in Tutors
         /\ (CHOOSE j \in DOMAIN list : list[j] = list[i]) = i
<1>1. PICK n \in 0 .. Limit : list \in [1 .. n -> Tutors]
  BY DEF Shortlists
<1>2. \A j, k \in DOMAIN list : list[j] = list[k] => j = k
  BY DEF Shortlists
<1>3. (CHOOSE j \in DOMAIN list : list[j] = list[i]) = i
  BY <1>2
<1> QED BY <1>1, <1>3, ConversationAssumption

\* One more processed message is one more in their number.
LEMMA ProcessedGrows ==
  ASSUME TypeOK, NEW m \in Messages, inbox[m] = "queued",
         inbox' = [inbox EXCEPT ![m] = "processed"],
         turns = Cardinality(Processed)
  PROVE  /\ Cardinality(Processed)' = turns + 1
         /\ turns + 1 \in 0 .. Cardinality(Messages)
<1>1. IsFiniteSet(Messages)
  BY ConversationAssumption
<1>2. IsFiniteSet(Processed)
  BY <1>1, FS_Subset DEF Processed
<1>3. Processed' = Processed \cup {m}
  BY DEF Processed, TypeOK
<1>4. m \notin Processed
  BY DEF Processed
<1>5. Cardinality(Processed') = Cardinality(Processed) + 1
  BY <1>2, <1>3, <1>4, FS_AddElement
<1>6. Cardinality(Processed') <= Cardinality(Messages)
  BY <1>1, FS_Subset DEF Processed
<1>7. Cardinality(Processed) \in Nat /\ Cardinality(Messages) \in Nat
  BY <1>1, <1>2, FS_CardinalityType
<1> QED BY <1>5, <1>6, <1>7

\* A turn's end frees its worker and leaves the others alone.
LEMMA Returned ==
  ASSUME TypeOK, NEW w \in Workers, Return(w)
  PROVE  /\ pc' \in [Workers -> {"idle", "read", "ready"}]
         /\ msg' \in [Workers -> Messages \cup {NoMessage}]
         /\ snap' \in [Workers -> Columns]
         /\ found' \in [Workers -> Answers]
         /\ had' \in [Workers -> [Tutors -> 0 .. Limit]]
         /\ pc'[w] = "idle" /\ msg'[w] = NoMessage
         /\ \A v \in Workers \ {w} :
              /\ pc'[v] = pc[v] /\ msg'[v] = msg[v] /\ snap'[v] = snap[v]
              /\ found'[v] = found[v] /\ had'[v] = had[v]
<1>1. NoColumns \in Columns
  BY DEF NoColumns, Columns, Steps
<1>2. [kind |-> "none"] \in Answers
  BY DEF Answers
<1>3. NoRanks \in [Tutors -> 0 .. Limit]
  BY ConversationAssumption DEF NoRanks
<1> QED BY <1>1, <1>2, <1>3 DEF Return, TypeOK

\* A commit keeps the types of what it writes and what the workers hold.
LEMMA CommitHolds ==
  ASSUME TypeOK, HoldInv, NEW w \in Workers, pc[w] # "idle",
         NEW step \in Steps, Commit(w, step),
         demo' \in DemoStates, rank' \in [Tutors -> 0 .. Limit],
         selected' \subseteq Tutors, offer' \in Shortlists
  PROVE  TypeOK' /\ HoldInv'
<1> DEFINE m == msg[w]
<1>1. m \in Messages /\ inbox[m] = "queued" /\ tries[m] < MaxAttempts
  BY DEF HoldInv
<1>2. Return(w) /\ turns' = turns + 1
  BY DEF Commit
<1>3. inbox' = [inbox EXCEPT ![m] = "processed"]
  BY DEF Commit
<1>4. tries' = [tries EXCEPT ![m] = @ + 1]
  BY DEF Commit
<1>5. conv' \in Columns
  BY <1>1, CommitTypes
<1>6. turns' \in 0 .. Cardinality(Messages) /\ turns' = Cardinality(Processed)'
  BY <1>1, <1>2, <1>3, ProcessedGrows DEF HoldInv
<1>7. inbox' \in [Messages -> {"absent", "queued", "processed"}]
  BY <1>3 DEF TypeOK
<1>8. tries' \in [Messages -> 0 .. MaxAttempts]
  <2>1. tries[m] + 1 \in 0 .. MaxAttempts
    BY <1>1, ConversationAssumption DEF TypeOK
  <2> QED BY <1>4, <2>1 DEF TypeOK
<1>9. TypeOK'
  BY <1>2, <1>5, <1>6, <1>7, <1>8, Returned DEF TypeOK
<1>10. ASSUME NEW v \in Workers, pc'[v] # "idle"
       PROVE  v # w /\ pc[v] # "idle" /\ msg'[v] = msg[v] /\ msg[v] # m
  BY <1>2, <1>10, Returned DEF HoldInv
<1>11. ASSUME NEW v \in Workers
       PROVE  /\ pc'[v] = "idle" => msg'[v] = NoMessage
              /\ pc'[v] # "idle" =>
                   /\ msg'[v] \in Messages
                   /\ inbox'[msg'[v]] = "queued"
                   /\ tries'[msg'[v]] < MaxAttempts
  <2>1. CASE pc'[v] = "idle"
    BY <1>2, <2>1, Returned DEF HoldInv
  <2>2. CASE pc'[v] # "idle"
    <3>1. msg[v] \in Messages /\ msg'[v] = msg[v] /\ msg[v] # m
      BY <1>10, <2>2 DEF HoldInv
    <3>2. inbox'[msg[v]] = inbox[msg[v]] /\ tries'[msg[v]] = tries[msg[v]]
      BY <1>3, <1>4, <3>1 DEF TypeOK
    <3> QED BY <1>10, <2>2, <3>1, <3>2 DEF HoldInv
  <2> QED BY <2>1, <2>2
<1>12. \A u, v \in Workers :
         pc'[u] # "idle" /\ pc'[v] # "idle" /\ msg'[u] = msg'[v] => u = v
  BY <1>10 DEF HoldInv
<1> QED BY <1>6, <1>9, <1>11, <1>12 DEF HoldInv

LEMMA HoldStep ==
  ASSUME TypeOK, HoldInv, [Next]_vars PROVE TypeOK' /\ HoldInv'
<1>1. ASSUME NEW m \in Messages, Arrive(m) PROVE TypeOK' /\ HoldInv'
  <2>1. /\ inbox[m] = "absent"
        /\ inbox' = [inbox EXCEPT ![m] = "queued"]
        /\ UNCHANGED <<tries, demo, conv, rank, selected, offer, pc, msg, snap,
                       found, had, turns>>
    BY <1>1 DEF Arrive, rowVars, workerVars
  <2>2. TypeOK'
    BY <2>1 DEF TypeOK
  <2>3. Processed' = Processed
    BY <2>1 DEF Processed, TypeOK
  <2>4. \A n \in Messages : inbox[n] = "queued" => inbox'[n] = "queued"
    BY <2>1 DEF TypeOK
  <2> QED BY <2>1, <2>2, <2>3, <2>4 DEF HoldInv
<1>2. ASSUME NEW w \in Workers, NEW m \in Messages, Read(w, m)
      PROVE  TypeOK' /\ HoldInv'
  <2>1. /\ pc[w] = "idle" /\ inbox[m] = "queued" /\ tries[m] < MaxAttempts
        /\ \A v \in Workers : msg[v] # m
        /\ pc' = [pc EXCEPT ![w] = "read"]
        /\ msg' = [msg EXCEPT ![w] = m]
        /\ snap' = [snap EXCEPT ![w] = conv]
        /\ UNCHANGED <<inbox, tries, demo, conv, rank, selected, offer, found,
                       had, turns>>
    BY <1>2 DEF Read, Claimable, rowVars
  <2>2. TypeOK'
    BY <2>1 DEF TypeOK
  <2>3. Processed' = Processed
    BY <2>1 DEF Processed
  <2>4. /\ pc'[w] = "read" /\ msg'[w] = m
        /\ \A v \in Workers \ {w} : pc'[v] = pc[v] /\ msg'[v] = msg[v]
    BY <2>1 DEF TypeOK
  <2> QED BY <2>1, <2>2, <2>3, <2>4 DEF HoldInv
<1>3. ASSUME NEW w \in Workers, Search(w) \/ Pick(w) PROVE TypeOK' /\ HoldInv'
  <2>1. /\ pc[w] = "read"
        /\ pc' = [pc EXCEPT ![w] = "ready"]
        /\ UNCHANGED <<inbox, tries, demo, conv, rank, selected, offer, msg,
                       snap, turns>>
    BY <1>3 DEF Search, Pick, rowVars
  <2>2. found' \in [Workers -> Answers] /\ had' \in [Workers -> [Tutors -> 0 .. Limit]]
    <3>1. CASE Search(w)
      <4>1. PICK a \in [kind : {"unavailable"}]
                         \cup [kind : {"list"}, list : Shortlists] :
              found' = [found EXCEPT ![w] = a]
        BY <3>1 DEF Search
      <4>2. a \in Answers
        BY DEF Answers
      <4> QED BY <3>1, <4>1, <4>2 DEF Search, TypeOK
    <3>2. CASE Pick(w)
      <4>1. PICK t \in Tutors :
              found' = [found EXCEPT ![w] = [kind |-> "pick", tutor |-> t]]
        BY <3>2 DEF Pick
      <4>2. [kind |-> "pick", tutor |-> t] \in Answers
        BY DEF Answers
      <4> QED BY <3>2, <4>1, <4>2 DEF Pick, TypeOK
    <3> QED BY <1>3, <3>1, <3>2
  <2>3. TypeOK'
    BY <2>1, <2>2 DEF TypeOK
  <2>4. \A v \in Workers : pc'[v] = "idle" <=> pc[v] = "idle"
    BY <2>1 DEF TypeOK
  <2>5. Processed' = Processed
    BY <2>1 DEF Processed
  <2> QED BY <2>1, <2>3, <2>4, <2>5 DEF HoldInv
<1>4. ASSUME NEW w \in Workers, Ask(w) \/ HandOff(w) PROVE TypeOK' /\ HoldInv'
  <2>1. /\ pc[w] # "idle" /\ Commit(w, TurnStep(w))
        /\ UNCHANGED <<rank, selected, offer>>
        /\ demo' \in {"QUALIFYING", "HUMAN_HANDOFF", demo}
    BY <1>4 DEF Ask, HandOff
  <2>2. demo' \in DemoStates
    BY <2>1 DEF TypeOK, DemoStates
  <2> QED BY <2>1, <2>2, TurnStepType, CommitHolds DEF TypeOK
<1>5. ASSUME NEW w \in Workers, Shortlist(w) PROVE TypeOK' /\ HoldInv'
  <2> DEFINE list == found[w].list
             Place(t) == CHOOSE i \in DOMAIN list : list[i] = t
             listed == {list[i] : i \in DOMAIN list}
  <2>1. /\ pc[w] # "idle" /\ found[w].kind = "list"
        /\ rank' = [t \in Tutors |->
                      IF t \in listed /\ had[w][t] # Place(t) THEN Place(t)
                                                              ELSE rank[t]]
        /\ offer' = list /\ Commit(w, "select_tutor_candidate")
        /\ demo' = "TUTOR_SHORTLISTED" /\ UNCHANGED selected
    BY <1>5 DEF Shortlist
  <2>2. list \in Shortlists
    BY <2>1, AnswerFields DEF TypeOK
  <2>3. ASSUME NEW t \in listed PROVE Place(t) \in 0 .. Limit
    BY <2>2, <2>3, ListPlaces
  <2>4. rank' \in [Tutors -> 0 .. Limit]
    <3> HIDE DEF list, Place, listed
    <3> QED BY <2>1, <2>3 DEF TypeOK
  <2>5. "select_tutor_candidate" \in Steps /\ demo' \in DemoStates
    BY <2>1 DEF Steps, DemoStates
  <2> QED BY <2>1, <2>2, <2>4, <2>5, CommitHolds DEF TypeOK
<1>6. ASSUME NEW w \in Workers, Select(w) PROVE TypeOK' /\ HoldInv'
  <2>1. /\ pc[w] # "idle" /\ found[w].kind = "pick"
        /\ selected' = selected \cup {found[w].tutor}
        /\ Commit(w, "awaiting_tutor_confirmation")
        /\ demo' = "SLOT_NEGOTIATING" /\ UNCHANGED <<rank, offer>>
    BY <1>6 DEF Select
  <2>2. found[w].tutor \in Tutors
    BY <2>1, AnswerFields DEF TypeOK
  <2>3. "awaiting_tutor_confirmation" \in Steps /\ demo' \in DemoStates
    BY <2>1 DEF Steps, DemoStates
  <2> QED BY <2>1, <2>2, <2>3, CommitHolds DEF TypeOK
<1>7. ASSUME NEW w \in Workers, Fail(w) \/ Crash(w) PROVE TypeOK' /\ HoldInv'
  <2> DEFINE m == msg[w]
  <2>1. /\ pc[w] # "idle" /\ Return(w)
        /\ tries' \in {tries, [tries EXCEPT ![m] = @ + 1]}
        /\ UNCHANGED <<inbox, demo, conv, rank, selected, offer, turns>>
    BY <1>7 DEF Fail, Crash, rowVars
  <2>2. m \in Messages /\ tries[m] < MaxAttempts
    BY <2>1 DEF HoldInv
  <2>3. tries[m] + 1 \in 0 .. MaxAttempts
    BY <2>2, ConversationAssumption DEF TypeOK
  <2>4. TypeOK'
    <3>1. tries' \in [Messages -> 0 .. MaxAttempts]
      BY <2>1, <2>3 DEF TypeOK
    <3> QED BY <2>1, <3>1, Returned DEF TypeOK
  <2>5. \A n \in Messages \ {m} : tries'[n] = tries[n]
    BY <2>1 DEF TypeOK
  <2>6. ASSUME NEW v \in Workers, pc'[v] # "idle"
        PROVE  v # w /\ pc[v] # "idle" /\ msg'[v] = msg[v] /\ msg[v] # m
    BY <2>1, <2>6, Returned DEF HoldInv
  <2>7. Processed' = Processed
    BY <2>1 DEF Processed
  <2>8. \A v \in Workers : pc'[v] = "idle" => msg'[v] = NoMessage
    BY <2>1, Returned DEF HoldInv
  <2> QED BY <2>1, <2>4, <2>5, <2>6, <2>7, <2>8 DEF HoldInv
<1>8. ASSUME UNCHANGED vars PROVE TypeOK' /\ HoldInv'
  <2>1. UNCHANGED <<inbox, tries, demo, conv, rank, selected, offer, pc, msg,
                    snap, found, had, turns>>
    BY <1>8 DEF vars, rowVars, workerVars
  <2> QED BY <2>1 DEF TypeOK, HoldInv, Processed
<1> QED
  BY <1>1, <1>2, <1>3, <1>4, <1>5, <1>6, <1>7, <1>8 DEF Next, Turn

LEMMA HoldInit == Init => TypeOK /\ HoldInv
<1> SUFFICES ASSUME Init PROVE TypeOK /\ HoldInv
  OBVIOUS
<1>1. NoColumns \in Columns
  BY DEF NoColumns, Columns, Steps
<1>2. <<>> \in Shortlists
  <2>1. 0 \in 0 .. Limit /\ <<>> \in [1 .. 0 -> Tutors]
    BY ConversationAssumption
  <2>2. \A i \in DOMAIN <<>> : FALSE
    OBVIOUS
  <2> QED BY <2>1, <2>2 DEF Shortlists
<1>3. [kind |-> "none"] \in Answers
  BY DEF Answers
<1>4. NoRanks \in [Tutors -> 0 .. Limit]
  BY ConversationAssumption DEF NoRanks
<1>5. Processed = {} /\ turns = 0
  BY DEF Init, Processed
<1>6. Cardinality(Processed) = 0 /\ Cardinality(Messages) \in Nat
  BY <1>5, FS_EmptySet, FS_CardinalityType, ConversationAssumption
<1>7. TypeOK
  BY <1>1, <1>2, <1>3, <1>4, <1>6, ConversationAssumption
     DEF Init, TypeOK, DemoStates
<1> QED BY <1>5, <1>6, <1>7 DEF Init, HoldInv

\* A worker in a turn holds a queued message of its own, and the turns are the
\* processed messages.
LEMMA MessagesHeld == Spec => [](TypeOK /\ HoldInv)
  BY HoldInit, HoldStep, PTL DEF Spec

\* Every variable keeps its type: no message is tried more often than its
\* inbox row allows and none counts twice as a turn, however workers race,
\* fail and crash.
THEOREM ConversationTyped == Spec => []TypeOK
  BY MessagesHeld, PTL

-----------------------------------------------------------------------------
(* Turns that were not overtaken.  The version never runs ahead of the       *)
(* turns, so a commit that brings it level with them read the rows as they   *)
(* are; what it then writes agrees, because what it read did.                *)

\* What a turn that nobody has overtaken read is what the rows hold.
OvertakenInv ==
  /\ conv.version <= turns
  /\ \A w \in Workers : pc[w] # "idle" =>
       /\ snap[w].version <= turns
       /\ snap[w].version = turns =>
            /\ snap[w] = conv
            /\ found[w].kind = "list" => had[w] = rank

SerialInv == OvertakenInv /\ FoundInv /\ SerialTurnsAgree

\* What SerialTurnsAgree says of the rows.
Agree ==
  /\ conv.missing = Missing(conv.req)
  /\ conv.step = "none" <=> demo = "NEW"
  /\ conv.missing # {} =>
       conv.step \in {"none", NextRequirementStep(conv.missing)}
  /\ conv.step = "requirements_complete" /\ Website => demo = "HUMAN_HANDOFF"
  /\ conv.step = "select_tutor_candidate" =>
       /\ conv.missing = {}
       /\ demo = "TUTOR_SHORTLISTED"
       /\ \A i \in DOMAIN offer : rank[offer[i]] = i
  /\ conv.step = "awaiting_tutor_confirmation" =>
       conv.missing = {} /\ demo = "SLOT_NEGOTIATING" /\ selected # {}

LEMMA AgreeMeaning == SerialTurnsAgree <=> (conv.version = turns => Agree)
  BY DEF SerialTurnsAgree, Agree

\* A turn either computes the step from what is missing now, or keeps an open
\* selection without changing the requirement.
LEMMA StepKinds ==
  ASSUME NEW w \in Workers, snap[w] \in Columns
  PROVE  \/ TurnStep(w) = NextRequirementStep(Missing(TurnReq(w)))
         \/ /\ snap[w].step \in Choosing
            /\ TurnStep(w) = snap[w].step
            /\ TurnReq(w) = snap[w].req
<1>1. CASE snap[w].step \in Choosing /\ \A f \in Fields : TurnUpdates(w)[f] = Keep
  <2>1. TurnStep(w) = snap[w].step
    BY <1>1 DEF TurnStep, StepAfter
  <2>2. TurnReq(w) = [f \in Fields |-> snap[w].req[f]]
    BY <1>1 DEF TurnReq, Applied
  <2>3. snap[w].req \in [Fields -> Nat]
    BY DEF Columns
  <2> QED BY <1>1, <2>1, <2>2, <2>3
<1>2. CASE ~ (snap[w].step \in Choosing /\ \A f \in Fields : TurnUpdates(w)[f] = Keep)
  BY <1>2 DEF TurnStep, StepAfter, TurnReq
<1> QED BY <1>1, <1>2

\* The steps that ask for something, and the one that asks for nothing more.
LEMMA RequirementSteps ==
  ASSUME NEW missing \in SUBSET Required
  PROVE  /\ NextRequirementStep(missing) \notin Choosing \cup {"none"}
         /\ NextRequirementStep(missing) = "requirements_complete" <=> missing = {}
  BY DEF NextRequirementStep, Choosing, Required

\* A turn that was not overtaken and read rows that agree leaves such rows.
LEMMA FreshAgrees ==
  ASSUME TypeOK, HoldInv, FoundInv, Agree,
         NEW w \in Workers, snap[w] = conv,
         found[w].kind = "list" => had[w] = rank,
         Ask(w) \/ HandOff(w) \/ Shortlist(w) \/ Select(w)
  PROVE  Agree'
<1> DEFINE req == TurnReq(w)
           missing == Missing(req)
<1>0. pc[w] # "idle" /\ msg[w] \in Messages /\ snap[w] \in Columns
  BY DEF Ask, HandOff, Shortlist, Select, HoldInv, TypeOK
<1>1. missing \in SUBSET Required
  BY <1>0, TurnTypes
<1>2. ASSUME NEW step, Commit(w, step)
      PROVE  conv'.step = step /\ conv'.req = req /\ conv'.missing = missing
  BY <1>2, FreshCommit
<1>3. ASSUME Searches(w)
      PROVE  missing = {} /\ TurnStep(w) = "requirements_complete"
  BY <1>0, <1>1, <1>3, StepKinds, RequirementSteps DEF Searches
<1>4. ASSUME TurnStep(w) \in Choosing
      PROVE  conv.step = TurnStep(w) /\ req = conv.req /\ missing = {}
  <2>1. conv.step = TurnStep(w) /\ req = conv.req
    BY <1>0, <1>1, <1>4, StepKinds, RequirementSteps
  <2> QED BY <1>4, <2>1 DEF Agree, Choosing
<1>5. CASE Ask(w)
  <2>1. /\ conv'.step = TurnStep(w) /\ conv'.req = req /\ conv'.missing = missing
        /\ ~ Searches(w)
        /\ demo' = IF conv.step = "none" THEN "QUALIFYING" ELSE demo
        /\ UNCHANGED <<rank, selected, offer>>
    BY <1>2, <1>5 DEF Ask
  <2>2. CASE TurnStep(w) \in Choosing
    BY <1>4, <2>1, <2>2 DEF Agree, Choosing
  <2>3. CASE TurnStep(w) \notin Choosing
    <3>1. TurnStep(w) = NextRequirementStep(missing)
      BY <1>0, <2>3, StepKinds
    <3>2. TurnStep(w) # "none"
      BY <1>1, <3>1, RequirementSteps
    <3>3. demo' # "NEW"
      BY <2>1 DEF Agree
    <3>4. ~ (TurnStep(w) = "requirements_complete" /\ Website)
      BY <1>1, <2>1, <2>3, <3>1, RequirementSteps DEF Searches
    <3> QED BY <2>1, <2>3, <3>1, <3>2, <3>3, <3>4 DEF Agree, Choosing
  <2> QED BY <2>2, <2>3
<1>6. CASE HandOff(w)
  <2>1. Searches(w)
    BY <1>6 DEF HandOff, FoundInv
  <2>2. /\ conv'.step = "requirements_complete" /\ conv'.req = req
        /\ conv'.missing = missing /\ missing = {}
        /\ demo' = "HUMAN_HANDOFF"
    BY <1>2, <1>3, <1>6, <2>1 DEF HandOff
  <2> QED BY <2>2 DEF Agree
<1>7. CASE Shortlist(w)
  <2> DEFINE list == found[w].list
             Place(t) == CHOOSE i \in DOMAIN list : list[i] = t
             listed == {list[i] : i \in DOMAIN list}
  <2>1. Searches(w) /\ found[w].kind = "list"
    BY <1>7 DEF Shortlist, FoundInv
  <2>2. /\ conv'.step = "select_tutor_candidate" /\ conv'.req = req
        /\ conv'.missing = missing /\ missing = {}
        /\ demo' = "TUTOR_SHORTLISTED"
    BY <1>2, <1>3, <1>7, <2>1 DEF Shortlist
  <2>3. /\ rank' = [t \in Tutors |->
                      IF t \in listed /\ had[w][t] # Place(t) THEN Place(t)
                                                              ELSE rank[t]]
        /\ offer' = list
    BY <1>7 DEF Shortlist
  <2>4. list \in Shortlists
    BY <2>1, AnswerFields DEF TypeOK
  <2>5. ASSUME NEW i \in DOMAIN list PROVE rank'[list[i]] = i
    <3>1. list[i] \in Tutors /\ Place(list[i]) = i /\ list[i] \in listed
      BY <2>4, ListPlaces
    <3>2. had[w] = rank
      BY <2>1
    <3> HIDE DEF list, Place, listed
    <3> QED BY <2>3, <3>1, <3>2
  <2> QED BY <2>2, <2>3, <2>5 DEF Agree
<1>8. CASE Select(w)
  <2>1. Picks(w)
    BY <1>8 DEF Select, FoundInv
  <2>2. missing = {}
    BY <1>4, <2>1 DEF Picks, Choosing
  <2>3. /\ conv'.step = "awaiting_tutor_confirmation" /\ conv'.req = req
        /\ conv'.missing = missing /\ demo' = "SLOT_NEGOTIATING"
        /\ selected' # {}
    BY <1>2, <1>8 DEF Select
  <2> QED BY <2>2, <2>3 DEF Agree
<1> QED BY <1>5, <1>6, <1>7, <1>8

\* A commit that brings the version level with the turns was not overtaken.
LEMMA CommitSerial ==
  ASSUME TypeOK, HoldInv, SerialInv, NEW w \in Workers,
         Ask(w) \/ HandOff(w) \/ Shortlist(w) \/ Select(w)
  PROVE  OvertakenInv' /\ SerialTurnsAgree'
<1>1. PICK step \in Steps : Commit(w, step)
  BY TurnStepType DEF Ask, HandOff, Shortlist, Select, Steps
<1>2. pc[w] # "idle"
  BY DEF Ask, HandOff, Shortlist, Select
<1>3. /\ turns' = turns + 1 /\ Return(w)
      /\ conv'.version = snap[w].version + 1
  BY <1>1 DEF Commit, Written, Flushed
<1>4. /\ turns \in Nat /\ snap[w].version \in Nat /\ conv.version \in Nat
      /\ \A v \in Workers : snap[v].version \in Nat
  <2>1. turns \in Nat
    BY FS_CardinalityType, ConversationAssumption DEF TypeOK
  <2> QED BY <2>1 DEF TypeOK, Columns
<1>5. snap[w].version <= turns
  BY <1>2 DEF SerialInv, OvertakenInv
<1>6. OvertakenInv'
  <2>1. conv'.version <= turns'
    BY <1>3, <1>4, <1>5
  <2>2. ASSUME NEW v \in Workers, pc'[v] # "idle"
        PROVE  snap'[v].version < turns'
    <3>1. v # w /\ snap'[v] = snap[v] /\ pc'[v] = pc[v]
      BY <1>3, <2>2, Returned
    <3>2. snap[v].version <= turns
      BY <2>2, <3>1 DEF SerialInv, OvertakenInv
    <3> QED BY <1>3, <1>4, <3>1, <3>2
  <2>3. ASSUME NEW v \in Workers, pc'[v] # "idle"
        PROVE  snap'[v].version <= turns' /\ snap'[v].version # turns'
    <3>1. snap'[v].version \in Nat
      BY <1>3, Returned DEF Columns
    <3> QED BY <1>3, <1>4, <2>2, <2>3, <3>1
  <2> QED BY <2>1, <2>3 DEF OvertakenInv
<1>7. ASSUME conv'.version = turns' PROVE Agree'
  <2>1. snap[w].version = turns
    BY <1>3, <1>4, <1>7
  <2>2. snap[w] = conv /\ (found[w].kind = "list" => had[w] = rank)
    BY <1>2, <2>1 DEF SerialInv, OvertakenInv
  <2>3. Agree
    BY <2>1, <2>2, AgreeMeaning DEF SerialInv
  <2> QED BY <2>2, <2>3, FreshAgrees DEF SerialInv
<1>8. SerialTurnsAgree'
  BY <1>7, AgreeMeaning DEF SerialTurnsAgree, Agree
<1> QED BY <1>6, <1>8

LEMMA OvertakenStep ==
  ASSUME TypeOK, HoldInv, SerialInv, [Next]_vars
  PROVE  OvertakenInv' /\ SerialTurnsAgree'
<1> DEFINE Level(w) ==
      /\ snap[w].version <= turns
      /\ snap[w].version = turns =>
           /\ snap[w] = conv
           /\ found[w].kind = "list" => had[w] = rank
<1>1. ASSUME UNCHANGED <<conv, turns, demo, rank, offer, selected>>
      PROVE  SerialTurnsAgree' /\ conv'.version <= turns'
  BY <1>1 DEF SerialInv, OvertakenInv, SerialTurnsAgree
<1>2. ASSUME UNCHANGED <<conv, turns, rank>>,
             NEW w \in Workers, pc[w] # "idle", snap'[w] = snap[w],
             found'[w] = found[w], had'[w] = had[w]
      PROVE  Level(w)'
  BY <1>2 DEF SerialInv, OvertakenInv
<1>3. ASSUME NEW w \in Workers, NEW m \in Messages, Read(w, m)
      PROVE  OvertakenInv' /\ SerialTurnsAgree'
  <2>1. UNCHANGED <<conv, turns, demo, rank, offer, selected, found, had>>
    BY <1>3 DEF Read, rowVars
  <2>2. /\ snap'[w] = conv
        /\ \A v \in Workers \ {w} : snap'[v] = snap[v] /\ pc'[v] = pc[v]
    BY <1>3 DEF Read, TypeOK
  <2>3. found'[w].kind = "none"
    BY <1>3, <2>1 DEF Read, SerialInv, FoundInv
  <2>4. Level(w)'
    BY <1>1, <2>1, <2>2, <2>3
  <2> QED BY <1>1, <1>2, <2>1, <2>2, <2>4 DEF OvertakenInv
<1>4. ASSUME NEW w \in Workers, Search(w) \/ Pick(w)
      PROVE  OvertakenInv' /\ SerialTurnsAgree'
  <2>1. UNCHANGED <<conv, turns, demo, rank, offer, selected, snap>>
    BY <1>4 DEF Search, Pick, rowVars
  <2>2. /\ pc[w] # "idle"
        /\ \A v \in Workers \ {w} :
             pc'[v] = pc[v] /\ found'[v] = found[v] /\ had'[v] = had[v]
    BY <1>4 DEF Search, Pick, TypeOK
  <2>3. found'[w].kind = "list" => had'[w] = rank
    BY <1>4 DEF Search, Pick, TypeOK
  <2>4. Level(w)'
    BY <2>1, <2>2, <2>3 DEF SerialInv, OvertakenInv
  <2> QED BY <1>1, <1>2, <2>1, <2>2, <2>4 DEF OvertakenInv
<1>5. ASSUME NEW w \in Workers, Fail(w) \/ Crash(w)
      PROVE  OvertakenInv' /\ SerialTurnsAgree'
  <2>1. /\ UNCHANGED <<conv, turns, demo, rank, offer, selected>>
        /\ Return(w)
    BY <1>5 DEF Fail, Crash, rowVars
  <2> QED BY <1>1, <1>2, <2>1, Returned DEF OvertakenInv
<1>6. ASSUME UNCHANGED <<conv, turns, demo, rank, offer, selected, workerVars>>
      PROVE  OvertakenInv' /\ SerialTurnsAgree'
  BY <1>1, <1>2, <1>6 DEF OvertakenInv, workerVars
<1>7. ASSUME NEW m \in Messages, Arrive(m)
      PROVE  UNCHANGED <<conv, turns, demo, rank, offer, selected, workerVars>>
  BY <1>7 DEF Arrive, rowVars
<1>8. ASSUME UNCHANGED vars
      PROVE  UNCHANGED <<conv, turns, demo, rank, offer, selected, workerVars>>
  BY <1>8 DEF vars, rowVars
<1> QED
  BY <1>3, <1>4, <1>5, <1>6, <1>7, <1>8, CommitSerial DEF Next, Turn

\* What the turns of one conversation write agrees as long as none of them was
\* overtaken, for every number of workers, messages, tutors and attempts and
\* whatever the messages say.
THEOREM SerialTurns == Spec => []SerialTurnsAgree
<1>1. Init => SerialInv
  <2> SUFFICES ASSUME Init PROVE SerialInv
    OBVIOUS
  <2>1. OvertakenInv /\ FoundInv
    BY DEF Init, OvertakenInv, FoundInv, NoColumns
  <2>2. conv.missing = Missing(conv.req)
    BY DEF Init, NoColumns, Missing, Required, Fields
  <2>3. conv.step = "none" /\ demo = "NEW"
    BY DEF Init, NoColumns
  <2> QED BY <2>1, <2>2, <2>3 DEF SerialInv, SerialTurnsAgree
<1>2. TypeOK => Shape
  BY DEF TypeOK, Shape
<1>3. TypeOK /\ HoldInv /\ SerialInv /\ [Next]_vars => SerialInv'
  BY <1>2, OvertakenStep, FoundStep DEF SerialInv
<1>4. SerialInv => SerialTurnsAgree
  BY DEF SerialInv
<1> QED BY <1>1, <1>3, <1>4, MessagesHeld, PTL DEF Spec
=============================================================================
