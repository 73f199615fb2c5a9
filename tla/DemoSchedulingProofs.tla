------------------------- MODULE DemoSchedulingProofs -------------------------
(***************************************************************************)
(* The scheduling properties hold for any number of demos, holds, runs and *)
(* starts and every valid policy.  An offer avoids all that was there when *)
(* it was made; the proof carries this from the offer to its hold and from *)
(* the hold to the events made of it (ApartInv).  The links are explained  *)
(* because the tutor's was sent by a run that failed, by the one under way *)
(* or by the last one (LinkInv).                                           *)
(***************************************************************************)
EXTENDS DemoScheduling, FiniteSetTheorems, SequenceTheorems, TLAPS

USE DEF schedulingVars, holdVars, runVars

-----------------------------------------------------------------------------
(* Operators. *)

\* The types of the constants, one by one.
LEMMA PolicyTypes ==
  /\ Duration \in Nat /\ Duration > 0 /\ HoldTtl \in Nat /\ ConfirmationTtl \in Nat
  /\ MaximumOptions \in Nat /\ MaximumOptions > 0
  /\ BufferBefore \in Nat /\ BufferAfter \in Nat /\ MinimumLeadTime \in Nat
  /\ MaxTime \in Nat /\ MaxHolds \in Nat /\ MaxRuns \in Nat
  /\ Starts \subseteq Nat /\ IsFiniteSet(Starts)
  BY SchedulingAssumption DEF PolicyIsValid

USE PolicyTypes

\* What the append of an entry does to the book.
LEMMA BookAppend ==
  ASSUME NEW l \in Seq(Entries), NEW e \in Entries
  PROVE  /\ Append(l, e) \in Seq(Entries)
         /\ DOMAIN l = 1 .. Len(l)
         /\ DOMAIN Append(l, e) = 1 .. (Len(l) + 1)
         /\ Len(Append(l, e)) = Len(l) + 1
         /\ Len(l) \in Nat
         /\ \A i \in 1 .. Len(l) : Append(l, e)[i] = l[i]
         /\ Append(l, e)[Len(l) + 1] = e
  BY AppendProperties

\* The entries of the book and their fields have their types.
LEMMA BookEntries ==
  ASSUME SchedulingTypeOK
  PROVE  /\ DOMAIN book = 1 .. Len(book)
         /\ Len(book) \in Nat
         /\ \A i \in DOMAIN book : /\ book[i] \in Entries
                                   /\ book[i].start \in Starts
                                   /\ book[i].start \in Nat
                                   /\ book[i].seen \in Nat
<1>1. book \in Seq(Entries)
  BY DEF SchedulingTypeOK
<1>2. DOMAIN book = 1 .. Len(book) /\ Len(book) \in Nat
  BY <1>1
<1>3. \A i \in DOMAIN book : book[i] \in Entries
  BY <1>1, <1>2, ElementOfSeq
<1> QED BY <1>2, <1>3 DEF Entries

\* propose_slots returns at most maximum_options starts: the number of earlier
\* proposable starts tells its results apart, and is less than that maximum.
LEMMA OptionsBounded ==
  ASSUME NEW busy
  PROVE  /\ ProposeSlots(busy) \subseteq Starts
         /\ Cardinality(ProposeSlots(busy)) <= MaximumOptions
<1> DEFINE O == ProposeSlots(busy)
           Before(s) == {t \in Starts : t < s /\ Proposable(t, busy)}
           f == [s \in O |-> Cardinality(Before(s))]
<1>1. O \subseteq Starts
  BY DEF ProposeSlots
<1>0. \A s \in O : s \in Starts /\ s \in Nat
  BY <1>1
<1>2. \A s \in O : IsFiniteSet(Before(s)) /\ Cardinality(Before(s)) \in Nat
  <2> SUFFICES ASSUME NEW s \in O
               PROVE  IsFiniteSet(Before(s)) /\ Cardinality(Before(s)) \in Nat
    OBVIOUS
  <2>1. Before(s) \in SUBSET Starts
    OBVIOUS
  <2>2. IsFiniteSet(Before(s))
    BY <2>1, FS_Subset
  <2> QED BY <2>2, FS_CardinalityType
<1>3. \A s \in O : Cardinality(Before(s)) \in 0 .. (MaximumOptions - 1)
  BY <1>2 DEF ProposeSlots
<1>4. ASSUME NEW s \in O, NEW u \in O, s < u
      PROVE  Cardinality(Before(s)) # Cardinality(Before(u))
  <2>0. s \in Nat /\ u \in Nat /\ \A t \in Starts : t < s => t < u
    <3>1. s \in Nat /\ u \in Nat /\ \A t \in Starts : t \in Nat
      BY <1>0
    <3> QED BY <1>4, <3>1
  <2>1. Before(s) \in SUBSET Before(u)
    <3>1. ASSUME NEW t \in Before(s) PROVE t \in Before(u)
      BY <2>0, <3>1
    <3> QED BY <3>1
  <2>2. s \in Before(u) /\ s \notin Before(s)
    BY <1>0, <1>4, <2>0 DEF ProposeSlots
  <2>3. Before(s) # Before(u)
    BY <2>2
  <2> HIDE DEF Before
  <2> QED BY <1>2, <2>1, <2>3, FS_Subset
<1>5. f \in Injection(O, 0 .. (MaximumOptions - 1))
  <2>1. \A s, u \in O : s # u => s < u \/ u < s
    BY <1>0
  <2> HIDE DEF O, Before
  <2>2. ASSUME NEW s \in O, NEW u \in O, f[s] = f[u] PROVE s = u
    <3>1. Cardinality(Before(s)) = Cardinality(Before(u))
      BY <2>2
    <3> QED BY <1>4, <2>1, <3>1
  <2>3. f \in [O -> 0 .. (MaximumOptions - 1)]
    BY <1>3
  <2> HIDE DEF f
  <2> QED BY <2>2, <2>3 DEF Injection, IsInjective
<1>6. /\ IsFiniteSet(0 .. (MaximumOptions - 1))
      /\ Cardinality(0 .. (MaximumOptions - 1)) = MaximumOptions
  BY FS_Interval
<1> HIDE DEF O, f
<1>7. Cardinality(O) <= MaximumOptions
  BY <1>5, <1>6, FS_Injection
<1> QED BY <1>1, <1>7 DEF O

-----------------------------------------------------------------------------
(* Types.  An event is made from the hold of its demo: the hold exists when  *)
(* a run is under way, and the book has its entry.                           *)

\* The entry of a hold is in the book and has its start.
HoldBooked ==
  \A d \in Demos : hold[d].status # "none" =>
    /\ hold[d].no \in DOMAIN book
    /\ book[hold[d].no].start = hold[d].start

\* Only a demo with a hold has a decision or a finalize run.
HoldKnown ==
  \A d \in Demos : decision[d] # "none" \/ stage[d] # "idle" => hold[d].status # "none"

\* Only a demo that may take one more hold has an offer.
OfferBounded == \A d \in Demos : offered[d] # {} => holds[d] < MaxHolds

TypeInv == SchedulingTypeOK /\ HoldBooked /\ HoldKnown /\ OfferBounded

\* The entry create_hold makes is well-typed.
LEMMA HoldEntry ==
  ASSUME SchedulingTypeOK, NEW d \in Demos, NEW s \in offered[d]
  PROVE  [demo |-> d, kind |-> "hold", start |-> s, seen |-> seen[d], uri |-> FALSE]
           \in Entries
  BY DEF SchedulingTypeOK, Entries

\* So is the entry create_demo_event makes.
LEMMA EventEntry ==
  ASSUME TypeInv, NEW d \in Demos, stage[d] # "idle", NEW uri \in BOOLEAN
  PROVE  [demo |-> d, kind |-> "event", start |-> hold[d].start,
          seen |-> book[hold[d].no].seen, uri |-> uri] \in Entries
<1>1. hold[d].no \in DOMAIN book /\ book[hold[d].no].start = hold[d].start
  BY DEF TypeInv, HoldBooked, HoldKnown
<1>2. hold[d].start \in Starts /\ book[hold[d].no].seen \in Nat
  BY <1>1, BookEntries DEF TypeInv
<1> QED BY <1>2 DEF Entries

\* Every step keeps the types.
LEMMA TypeStep == ASSUME TypeInv, [SchedulingNext]_schedulingVars PROVE TypeInv'
<1> DEFINE R == [status : HoldStatuses, start : Starts \cup {0}, at : 0 .. MaxTime,
                 no : Nat]
<1> USE DEF HoldBooked, HoldKnown, OfferBounded
<1>a. SchedulingTypeOK /\ HoldBooked /\ HoldKnown /\ OfferBounded
  BY DEF TypeInv
<1>0. DOMAIN book = 1 .. Len(book) /\ Len(book) \in Nat /\ Cardinality({}) = 0
  BY <1>a, BookEntries, FS_EmptySet
<1>h. book \in Seq(Entries) /\ hold \in [Demos -> R]
  BY <1>a DEF SchedulingTypeOK
<1>s. \A d \in Demos : offered[d] \subseteq Starts /\ holds[d] \in 0 .. MaxHolds
  BY <1>a DEF SchedulingTypeOK
<1>1. ASSUME NEW d \in Demos, Propose(d) PROVE TypeInv'
  <2>1. /\ ProposeSlots(Busy) \in SUBSET Starts
        /\ Cardinality(ProposeSlots(Busy)) <= MaximumOptions
    BY OptionsBounded
  <2> QED BY <1>a, <1>0, <1>1, <2>1 DEF Propose, SchedulingTypeOK, TypeInv
<1>2. ASSUME NEW d \in Demos, CreateHold(d) PROVE TypeInv'
  <2>1. PICK s \in offered[d] :
          /\ hold' = [hold EXCEPT ![d] = [status |-> "active", start |-> s,
                                          at |-> clock, no |-> Len(book) + 1]]
          /\ book' = Append(book, [demo |-> d, kind |-> "hold", start |-> s,
                                   seen |-> seen[d], uri |-> FALSE])
    BY <1>2 DEF CreateHold
  <2>2. /\ holds' = [holds EXCEPT ![d] = @ + 1]
        /\ answer' = [answer EXCEPT ![d] = Unanswered]
        /\ decision' = [decision EXCEPT ![d] = "none"]
        /\ link' = [link EXCEPT ![d] = NoLink]
        /\ offered' = [offered EXCEPT ![d] = {}]
        /\ seen' = [seen EXCEPT ![d] = 0]
        /\ UNCHANGED <<clock, stage, meeting, runs, status, broken>>
    BY <1>2 DEF CreateHold
  <2>3. /\ book' \in Seq(Entries)
        /\ DOMAIN book' = 1 .. (Len(book) + 1)
        /\ \A i \in 1 .. Len(book) : book'[i] = book[i]
        /\ book'[Len(book) + 1].start = s
    BY <1>a, <1>h, <2>1, HoldEntry, BookAppend
  <2>4. s \in Starts /\ holds[d] + 1 \in 0 .. MaxHolds
    BY <1>a, <1>s, <2>1
  <2>5. Unanswered \in [Participants -> {"pending", "confirmed", "declined"}]
        /\ NoLink \in [Participants -> Nat]
    BY DEF Unanswered, NoLink
  <2>6. SchedulingTypeOK'
    <3>1. hold' \in [Demos -> R]
      <4>1. clock \in 0 .. MaxTime
        BY <1>a DEF SchedulingTypeOK
      <4>2. [status |-> "active", start |-> s, at |-> clock, no |-> Len(book) + 1] \in R
        BY <1>0, <2>4, <4>1 DEF HoldStatuses
      <4> HIDE DEF R
      <4> QED BY <1>h, <2>1, <4>2
    <3>2. /\ offered' \in [Demos -> SUBSET Starts]
          /\ \A e \in Demos : Cardinality(offered'[e]) <= MaximumOptions
      BY <1>a, <1>0, <2>2 DEF SchedulingTypeOK
    <3> QED BY <1>a, <2>2, <2>3, <2>4, <2>5, <3>1, <3>2 DEF SchedulingTypeOK, Reasons
  <2>7. HoldBooked'
    <3> SUFFICES ASSUME NEW e \in Demos, hold'[e].status # "none"
                 PROVE  /\ hold'[e].no \in 1 .. (Len(book) + 1)
                        /\ book'[hold'[e].no].start = hold'[e].start
      BY <2>3
    <3> HIDE DEF R
    <3>1. CASE e = d
      <4>1. hold'[e] = [status |-> "active", start |-> s, at |-> clock,
                        no |-> Len(book) + 1]
        BY <1>h, <2>1, <3>1
      <4> QED BY <1>0, <2>3, <4>1
    <3>2. CASE e # d
      <4>1. hold'[e] = hold[e]
        BY <1>h, <2>1, <3>2
      <4>2. hold[e].no \in 1 .. Len(book) /\ book[hold[e].no].start = hold[e].start
        BY <1>a, <1>0, <4>1
      <4> QED BY <1>0, <2>3, <4>1, <4>2
    <3> QED BY <3>1, <3>2
  <2>8. HoldKnown' /\ OfferBounded'
    BY <1>a, <2>1, <2>2 DEF SchedulingTypeOK
  <2> QED BY <2>6, <2>7, <2>8 DEF TypeInv
<1>3. ASSUME NEW d \in Demos, ExpireHold(d) \/ ReleaseHold(d) PROVE TypeInv'
  <2>1. PICK t \in {"expired", "released"} : hold' = [hold EXCEPT ![d].status = t]
    BY <1>3 DEF ExpireHold, ReleaseHold
  <2>2. hold' \in [Demos -> R]
    BY <1>h, <2>1 DEF HoldStatuses
  <2>3. \A e \in Demos : /\ hold'[e].no = hold[e].no
                         /\ hold'[e].start = hold[e].start
                         /\ hold'[e].status # "none" <=> hold[e].status # "none"
    <3>1. hold[d].status # "none"
      BY <1>3 DEF ExpireHold, ReleaseHold
    <3> QED BY <1>h, <2>1, <3>1
  <2>4. UNCHANGED <<clock, offered, seen, holds, answer, decision, runVars, book>>
    BY <1>3 DEF ExpireHold, ReleaseHold
  <2> QED BY <1>a, <2>2, <2>3, <2>4 DEF SchedulingTypeOK, TypeInv
<1>4. ASSUME NEW d \in Demos, NEW p \in RequiredConfirmations,
             NEW a \in {"confirmed", "declined"}, Reply(d, p, a)
      PROVE  TypeInv'
  BY <1>4, SchedulingAssumption DEF Reply, SchedulingTypeOK, TypeInv, PolicyIsValid
<1>5. ASSUME NEW d \in Demos, Confirm(d) PROVE TypeInv'
  <2>1. EvaluateConfirmations(d) \in Reasons
    BY DEF EvaluateConfirmations, Reasons
  <2> QED BY <1>5, <2>1 DEF Confirm, SchedulingTypeOK, TypeInv
<1>6. ASSUME NEW d \in Demos, Begin(d) PROVE TypeInv'
  BY <1>6 DEF Begin, SchedulingTypeOK, TypeInv
<1>7. ASSUME NEW d \in Demos, CreateEvent(d) PROVE TypeInv'
  <2>1. PICK uri \in BOOLEAN :
          book' = Append(book, [demo |-> d, kind |-> "event", start |-> hold[d].start,
                                seen |-> book[hold[d].no].seen, uri |-> uri])
    BY <1>7 DEF CreateEvent
  <2>2. /\ book' \in Seq(Entries)
        /\ DOMAIN book' = 1 .. (Len(book) + 1)
        /\ \A i \in 1 .. Len(book) : book'[i] = book[i]
    <3>1. stage[d] # "idle"
      BY <1>7 DEF CreateEvent
    <3> QED BY <1>h, <2>1, <3>1, EventEntry, BookAppend
  <2>3. /\ stage' \in [Demos -> {"idle", "resolved", "created", "tutor_sent"}]
        /\ meeting' \in [Demos -> Nat]
        /\ status' \in [Demos -> {"none", "conference_pending", "scheduled"}]
        /\ \A e \in Demos : stage'[e] # "idle" => stage[e] # "idle"
    <3>1. /\ stage \in [Demos -> {"idle", "resolved", "created", "tutor_sent"}]
          /\ meeting \in [Demos -> Nat]
          /\ status \in [Demos -> {"none", "conference_pending", "scheduled"}]
          /\ Len(book) + 1 \in Nat
      BY <1>a, <1>0 DEF SchedulingTypeOK
    <3>2. \/ /\ stage' = [stage EXCEPT ![d] = "created"]
             /\ meeting' = [meeting EXCEPT ![d] = Len(book) + 1]
             /\ status' = status
          \/ /\ stage' = [stage EXCEPT ![d] = "idle"]
             /\ meeting' = meeting
             /\ status' = [status EXCEPT ![d] = "conference_pending"]
      BY <1>7 DEF CreateEvent
    <3>3. stage[d] # "idle"
      BY <1>7 DEF CreateEvent
    <3> QED BY <3>1, <3>2, <3>3
  <2>4. UNCHANGED <<clock, offered, seen, holdVars, decision, runs, link, broken>>
    BY <1>7 DEF CreateEvent
  <2>5. SchedulingTypeOK'
    BY <1>a, <2>2, <2>3, <2>4 DEF SchedulingTypeOK
  <2>6. HoldBooked' /\ HoldKnown' /\ OfferBounded'
    BY <1>a, <1>0, <2>2, <2>3, <2>4
  <2> QED BY <2>5, <2>6 DEF TypeInv
<1>8. ASSUME NEW d \in Demos, SendFirst(d) \/ SendSecond(d) PROVE TypeInv'
  <2>1. \A p \in Participants :
          Delivered(d, p) \in [Demos -> [Participants -> Nat]]
    BY <1>a DEF Delivered, SchedulingTypeOK
  <2>2. link' \in [Demos -> [Participants -> Nat]]
    BY <1>8, <2>1 DEF SendFirst, SendSecond, FirstRecipient, Participants
  <2>3. CASE SendFirst(d)
    BY <2>2, <2>3 DEF SendFirst, SchedulingTypeOK, TypeInv
  <2>4. CASE SendSecond(d)
    BY <2>2, <2>4 DEF SendSecond, SchedulingTypeOK, TypeInv
  <2> QED BY <1>8, <2>3, <2>4
<1>9. ASSUME NEW d \in Demos, FinalizeFails(d) PROVE TypeInv'
  BY <1>9 DEF FinalizeFails, SchedulingTypeOK, TypeInv
<1>10. CASE Tick
  BY <1>10 DEF Tick, SchedulingTypeOK, TypeInv
<1>11. CASE UNCHANGED schedulingVars
  BY <1>11 DEF SchedulingTypeOK, TypeInv
<1> QED
  BY <1>1, <1>2, <1>3, <1>4, <1>5, <1>6, <1>7, <1>8, <1>9, <1>10, <1>11
     DEF SchedulingNext, Negotiate, Finalize

-----------------------------------------------------------------------------
(* The tutor's time.  How windows overlap is never looked into: what an      *)
(* offer avoided when it was made is carried over to its hold and from there *)
(* to the events made of it.                                                 *)

\* What an offer knew, and what an entry's offer knew, came before it.
SeenEarlier ==
  /\ \A d \in Demos : seen[d] <= Len(book)
  /\ \A k \in DOMAIN book : book[k].seen < k

\* The unique index on the active holds.
ActiveApart ==
  \A d, e \in Demos :
    d # e /\ hold[d].status = "active" /\ hold[e].status = "active" =>
      hold[d].start # hold[e].start

\* An offer keeps apart from the active holds it knew.
OfferAvoidsHolds ==
  \A d, e \in Demos : \A s \in offered[e] :
    HoldIsActive(d) /\ hold[d].no <= seen[e] =>
      ~ Overlaps(Protected(s), Slot(hold[d].start))

\* An offer keeps apart from the events it knew.
OfferAvoidsEvents ==
  \A e \in Demos : \A s \in offered[e] : \A i \in DOMAIN book :
    book[i].kind = "event" /\ i <= seen[e] =>
      ~ Overlaps(Protected(s), Slot(book[i].start))

\* So does every entry of the book.
EntryAvoidsEvents ==
  \A i, k \in DOMAIN book :
    book[i].kind = "event" /\ i <= book[k].seen =>
      ~ Overlaps(Protected(book[k].start), Slot(book[i].start))

ApartInv ==
  SeenEarlier /\ ActiveApart /\ OfferAvoidsHolds /\ OfferAvoidsEvents
    /\ EntryAvoidsEvents /\ HoldsApart

\* The types the arguments about the tutor's time need.
LEMMA ApartTypes ==
  ASSUME SchedulingTypeOK
  PROVE  /\ clock \in Nat
         /\ \A d \in Demos : /\ seen[d] \in Nat
                             /\ hold[d].no \in Nat
                             /\ hold[d].at \in Nat
         /\ DOMAIN book = 1 .. Len(book) /\ Len(book) \in Nat
         /\ \A i \in DOMAIN book : book[i].seen \in Nat
<1>1. \A d \in Demos : hold[d].no \in Nat /\ hold[d].at \in 0 .. MaxTime
  BY DEF SchedulingTypeOK
<1> QED BY <1>1, BookEntries DEF SchedulingTypeOK

\* A step that makes no entry and no offer, and only ends holds, keeps the
\* tutor's time in order.
LEMMA ApartQuiet ==
  ASSUME SchedulingTypeOK, ApartInv, book' = book, seen' = seen, offered' = offered,
         clock' \in Nat, clock' >= clock,
         \A d \in Demos : hold'[d].status = "active" => hold'[d] = hold[d]
  PROVE  ApartInv'
<1> USE DEF ApartInv
<1>1. \A d \in Demos : HoldIsActive(d)' => HoldIsActive(d) /\ hold'[d] = hold[d]
  BY ApartTypes DEF HoldIsActive
<1>2. SeenEarlier' /\ OfferAvoidsEvents' /\ EntryAvoidsEvents'
  BY DEF SeenEarlier, OfferAvoidsEvents, EntryAvoidsEvents, Overlaps, Protected, Slot
<1>3. ActiveApart'
  BY DEF ActiveApart
<1>4. OfferAvoidsHolds'
  BY <1>1 DEF OfferAvoidsHolds, Overlaps, Protected, Slot
<1>5. HoldsApart'
  BY <1>1 DEF HoldsApart, Overlaps, Protected, Slot
<1> QED BY <1>2, <1>3, <1>4, <1>5

\* A new offer avoids everything the caller was busy with.
LEMMA ApartPropose ==
  ASSUME SchedulingTypeOK, ApartInv, NEW d \in Demos, Propose(d)
  PROVE  ApartInv'
<1> USE DEF ApartInv
<1>1. /\ book' = book /\ hold' = hold /\ clock' = clock
      /\ seen' = [seen EXCEPT ![d] = Len(book)]
      /\ offered' = [offered EXCEPT ![d] = ProposeSlots(Busy)]
      /\ \A e \in Demos : HoldIsActive(e)' <=> HoldIsActive(e)
  BY DEF Propose, HoldIsActive
<1>2. seen'[d] = Len(book) /\ offered'[d] = ProposeSlots(Busy)
      /\ \A e \in Demos \ {d} : seen'[e] = seen[e] /\ offered'[e] = offered[e]
  BY <1>1 DEF SchedulingTypeOK
<1>3. ASSUME NEW s \in ProposeSlots(Busy)
      PROVE  \A b \in Busy : ~ Overlaps(Protected(s), b)
  BY <1>3 DEF ProposeSlots, Proposable
<1>4. SeenEarlier'
  BY <1>1, <1>2, ApartTypes DEF SeenEarlier
<1>5. ActiveApart' /\ EntryAvoidsEvents' /\ HoldsApart'
  BY <1>1 DEF ActiveApart, EntryAvoidsEvents, HoldsApart, Overlaps, Protected, Slot
<1>6. OfferAvoidsHolds'
  <2> SUFFICES ASSUME NEW c \in Demos, NEW e \in Demos, NEW s \in offered'[e],
                      HoldIsActive(c), hold[c].no <= seen'[e]
               PROVE  ~ Overlaps(Protected(s), Slot(hold[c].start))
    BY <1>1 DEF OfferAvoidsHolds, Overlaps, Protected, Slot
  <2>1. CASE e = d
    <3>1. Slot(hold[c].start) \in Busy
      BY DEF Busy
    <3> QED BY <1>2, <1>3, <2>1, <3>1
  <2>2. CASE e # d
    BY <1>2, <2>2 DEF OfferAvoidsHolds
  <2> QED BY <2>1, <2>2
<1>7. OfferAvoidsEvents'
  <2> SUFFICES ASSUME NEW e \in Demos, NEW s \in offered'[e], NEW i \in DOMAIN book,
                      book[i].kind = "event", i <= seen'[e]
               PROVE  ~ Overlaps(Protected(s), Slot(book[i].start))
    BY <1>1 DEF OfferAvoidsEvents, Overlaps, Protected, Slot
  <2>1. CASE e = d
    <3>1. Slot(book[i].start) \in Busy
      BY DEF Busy
    <3> QED BY <1>2, <1>3, <2>1, <3>1
  <2>2. CASE e # d
    BY <1>2, <2>2 DEF OfferAvoidsEvents
  <2> QED BY <2>1, <2>2
<1> QED BY <1>4, <1>5, <1>6, <1>7

\* A hold avoids what its offer knew, and nothing that came later knows it.
LEMMA ApartHold ==
  ASSUME TypeInv, ApartInv, NEW d \in Demos, CreateHold(d)
  PROVE  ApartInv'
<1> DEFINE n == Len(book) + 1
<1> USE DEF ApartInv
<1>a. SchedulingTypeOK
  BY DEF TypeInv
<1>1. PICK s \in offered[d] :
        /\ Free(s)
        /\ hold' = [hold EXCEPT ![d] = [status |-> "active", start |-> s,
                                        at |-> clock, no |-> n]]
        /\ book' = Append(book, [demo |-> d, kind |-> "hold", start |-> s,
                                 seen |-> seen[d], uri |-> FALSE])
  BY DEF CreateHold
<1>2. /\ DOMAIN book = 1 .. Len(book) /\ Len(book) \in Nat
      /\ DOMAIN book' = 1 .. n /\ Len(book') = n
      /\ \A i \in 1 .. Len(book) : book'[i] = book[i]
      /\ book'[n].start = s /\ book'[n].seen = seen[d] /\ book'[n].kind = "hold"
  <2>1. book \in Seq(Entries)
    BY <1>a DEF SchedulingTypeOK
  <2> QED BY <1>a, <1>1, <2>1, HoldEntry, BookAppend
<1>3. /\ hold'[d].status = "active" /\ hold'[d].start = s /\ hold'[d].no = n
      /\ \A e \in Demos \ {d} : hold'[e] = hold[e]
  BY <1>a, <1>1 DEF SchedulingTypeOK
<1>4. /\ clock' = clock
      /\ offered'[d] = {} /\ seen'[d] = 0
      /\ \A e \in Demos \ {d} : seen'[e] = seen[e] /\ offered'[e] = offered[e]
  BY <1>a DEF CreateHold, SchedulingTypeOK
<1>5. \A e \in Demos \ {d} : HoldIsActive(e)' <=> HoldIsActive(e)
  BY <1>3, <1>4 DEF HoldIsActive
<1>6. SeenEarlier'
  BY <1>a, <1>2, <1>4, ApartTypes DEF SeenEarlier
<1>7. ActiveApart'
  BY <1>1, <1>3 DEF ActiveApart, Free
<1>8. OfferAvoidsHolds'
  <2> SUFFICES ASSUME NEW c \in Demos, NEW e \in Demos, NEW t \in offered'[e],
                      HoldIsActive(c)', hold'[c].no <= seen'[e]
               PROVE  ~ Overlaps(Protected(t), Slot(hold'[c].start))
    BY DEF OfferAvoidsHolds, Overlaps, Protected, Slot
  <2>1. e # d /\ seen'[e] = seen[e] /\ t \in offered[e] /\ seen[e] <= Len(book)
        /\ seen[e] \in Nat
    BY <1>a, <1>4, ApartTypes DEF SeenEarlier
  <2>2. c # d
    BY <1>2, <1>3, <2>1
  <2> QED BY <1>3, <1>5, <2>1, <2>2 DEF OfferAvoidsHolds
<1>9. OfferAvoidsEvents'
  <2> SUFFICES ASSUME NEW e \in Demos, NEW t \in offered'[e], NEW i \in 1 .. n,
                      book'[i].kind = "event", i <= seen'[e]
               PROVE  ~ Overlaps(Protected(t), Slot(book'[i].start))
    BY <1>2 DEF OfferAvoidsEvents, Overlaps, Protected, Slot
  <2>1. e # d /\ seen'[e] = seen[e] /\ t \in offered[e]
    BY <1>4
  <2>2. i \in 1 .. Len(book) /\ book'[i] = book[i]
    BY <1>2
  <2> QED BY <1>2, <2>1, <2>2 DEF OfferAvoidsEvents
<1>10. EntryAvoidsEvents'
  <2> SUFFICES ASSUME NEW i \in 1 .. n, NEW k \in 1 .. n,
                      book'[i].kind = "event", i <= book'[k].seen
               PROVE  ~ Overlaps(Protected(book'[k].start), Slot(book'[i].start))
    BY <1>2 DEF EntryAvoidsEvents, Overlaps, Protected, Slot
  <2>1. i \in 1 .. Len(book) /\ book'[i] = book[i]
    BY <1>2
  <2>2. CASE k = n
    BY <1>1, <1>2, <2>1, <2>2 DEF OfferAvoidsEvents
  <2>3. CASE k # n
    BY <1>2, <2>1, <2>3 DEF EntryAvoidsEvents
  <2> QED BY <2>2, <2>3
<1>11. HoldsApart'
  <2> SUFFICES ASSUME NEW c \in Demos, NEW e \in Demos, c # e,
                      HoldIsActive(c)', HoldIsActive(e)', hold'[c].no < hold'[e].no,
                      Overlaps(Protected(hold'[e].start), Slot(hold'[c].start))
               PROVE  /\ book'[hold'[e].no].seen < hold'[c].no
                      /\ hold'[c].start # hold'[e].start
    BY DEF HoldsApart, Overlaps, Protected, Slot
  <2>1. ASSUME NEW b \in Demos \ {d}, HoldIsActive(b)
        PROVE  hold[b].no \in 1 .. Len(book)
    BY <1>2, <2>1 DEF TypeInv, HoldBooked, HoldIsActive
  <2>2. c # d /\ HoldIsActive(c) /\ hold'[c] = hold[c] /\ hold[c].no \in 1 .. Len(book)
    <3>1. c # d
      BY <1>2, <1>3, <1>5, <2>1
    <3> QED BY <1>3, <1>5, <2>1, <3>1
  <2>3. hold'[c].start # hold'[e].start
    BY <1>7 DEF ActiveApart, HoldIsActive
  <2>4. CASE e = d
    <3>1. seen[d] \in Nat /\ hold[c].no \in Nat
      BY <1>a, <2>2, ApartTypes
    <3>2. ~ (hold[c].no <= seen[d])
      BY <1>1, <1>3, <2>2, <2>4 DEF OfferAvoidsHolds
    <3> QED BY <1>2, <1>3, <2>2, <2>3, <2>4, <3>1, <3>2
  <2>5. CASE e # d
    <3>1. HoldIsActive(e) /\ hold'[e] = hold[e] /\ hold[e].no \in 1 .. Len(book)
      BY <1>3, <1>5, <2>1, <2>5
    <3> QED BY <1>2, <2>2, <2>3, <3>1 DEF HoldsApart
  <2> QED BY <2>4, <2>5
<1> QED BY <1>6, <1>7, <1>8, <1>9, <1>10, <1>11

\* An event avoids what the offer of its hold knew.
LEMMA ApartEvent ==
  ASSUME TypeInv, ApartInv, NEW d \in Demos, CreateEvent(d)
  PROVE  ApartInv'
<1> DEFINE n == Len(book) + 1
           h == hold[d].no
<1> USE DEF ApartInv
<1>a. SchedulingTypeOK
  BY DEF TypeInv
<1>1. PICK uri \in BOOLEAN :
        book' = Append(book, [demo |-> d, kind |-> "event", start |-> hold[d].start,
                              seen |-> book[h].seen, uri |-> uri])
  BY DEF CreateEvent
<1>0. stage[d] # "idle"
  BY DEF CreateEvent
<1>2. /\ DOMAIN book = 1 .. Len(book) /\ Len(book) \in Nat
      /\ DOMAIN book' = 1 .. n /\ Len(book') = n
      /\ \A i \in 1 .. Len(book) : book'[i] = book[i]
      /\ book'[n].start = hold[d].start /\ book'[n].seen = book[h].seen
  <2>1. book \in Seq(Entries)
    BY <1>a DEF SchedulingTypeOK
  <2> QED BY <1>0, <1>1, <2>1, EventEntry, BookAppend
<1>3. h \in 1 .. Len(book) /\ book[h].start = hold[d].start /\ book[h].seen \in Nat
  BY <1>a, <1>0, <1>2, ApartTypes DEF TypeInv, HoldBooked, HoldKnown
<1>4. /\ clock' = clock /\ offered' = offered /\ seen' = seen /\ hold' = hold
      /\ \A e \in Demos : HoldIsActive(e)' <=> HoldIsActive(e)
  BY DEF CreateEvent, HoldIsActive
<1>5. SeenEarlier'
  BY <1>a, <1>2, <1>3, <1>4, ApartTypes DEF SeenEarlier
<1>6. ActiveApart' /\ OfferAvoidsHolds'
  BY <1>4 DEF ActiveApart, OfferAvoidsHolds, Overlaps, Protected, Slot
<1>7. OfferAvoidsEvents'
  <2> SUFFICES ASSUME NEW e \in Demos, NEW t \in offered[e], NEW i \in 1 .. n,
                      book'[i].kind = "event", i <= seen[e]
               PROVE  ~ Overlaps(Protected(t), Slot(book'[i].start))
    BY <1>2, <1>4 DEF OfferAvoidsEvents, Overlaps, Protected, Slot
  <2>1. seen[e] \in Nat /\ seen[e] <= Len(book)
    BY <1>a, ApartTypes DEF SeenEarlier
  <2>2. i \in 1 .. Len(book) /\ book'[i] = book[i]
    BY <1>2, <2>1
  <2> QED BY <1>2, <2>2 DEF OfferAvoidsEvents
<1>8. EntryAvoidsEvents'
  <2> SUFFICES ASSUME NEW i \in 1 .. n, NEW k \in 1 .. n,
                      book'[i].kind = "event", i <= book'[k].seen
               PROVE  ~ Overlaps(Protected(book'[k].start), Slot(book'[i].start))
    BY <1>2 DEF EntryAvoidsEvents, Overlaps, Protected, Slot
  <2>1. PICK j \in 1 .. Len(book) :
          book'[k].seen = book[j].seen /\ book'[k].start = book[j].start
    BY <1>2, <1>3
  <2>2. book[j].seen \in Nat /\ book[j].seen < j
    BY <1>a, <1>2, ApartTypes DEF SeenEarlier
  <2>3. i \in 1 .. Len(book) /\ book'[i] = book[i]
    BY <1>2, <2>1, <2>2
  <2> QED BY <1>2, <2>1, <2>3 DEF EntryAvoidsEvents
<1>9. HoldsApart'
  <2>1. \A e \in Demos : HoldIsActive(e) => hold[e].no \in 1 .. Len(book)
    BY <1>2 DEF TypeInv, HoldBooked, HoldIsActive
  <2> QED BY <1>2, <1>4, <2>1 DEF HoldsApart, Overlaps, Protected, Slot
<1> QED BY <1>5, <1>6, <1>7, <1>8, <1>9

\* Every step keeps the tutor's time in order.
LEMMA ApartStep == ASSUME TypeInv, ApartInv, [SchedulingNext]_schedulingVars PROVE ApartInv'
<1>a. SchedulingTypeOK
  BY DEF TypeInv
<1>1. ASSUME NEW d \in Demos, Propose(d) PROVE ApartInv'
  BY <1>a, <1>1, ApartPropose
<1>2. ASSUME NEW d \in Demos, CreateHold(d) PROVE ApartInv'
  BY <1>2, ApartHold
<1>3. ASSUME NEW d \in Demos, CreateEvent(d) PROVE ApartInv'
  BY <1>3, ApartEvent
<1>4. ASSUME NEW d \in Demos, ExpireHold(d) \/ ReleaseHold(d) PROVE ApartInv'
  <2>1. /\ UNCHANGED <<book, seen, offered, clock>>
        /\ \A e \in Demos : hold'[e].status = "active" => hold'[e] = hold[e]
    <3>1. PICK t \in {"expired", "released"} : hold' = [hold EXCEPT ![d].status = t]
      BY <1>4 DEF ExpireHold, ReleaseHold
    <3>2. /\ \A e \in Demos \ {d} : hold'[e] = hold[e]
          /\ hold'[d].status = t
      BY <1>a, <3>1 DEF SchedulingTypeOK
    <3>3. UNCHANGED <<book, seen, offered, clock>>
      BY <1>4 DEF ExpireHold, ReleaseHold
    <3> QED BY <3>1, <3>2, <3>3
  <2>2. clock \in Nat
    BY <1>a, ApartTypes
  <2> QED BY <1>a, <2>1, <2>2, ApartQuiet
<1>5. ASSUME NEW d \in Demos,
             \/ Confirm(d) \/ Begin(d) \/ SendFirst(d) \/ SendSecond(d) \/ FinalizeFails(d)
             \/ \E p \in RequiredConfirmations, a \in {"confirmed", "declined"} : Reply(d, p, a)
      PROVE  ApartInv'
  <2>1. UNCHANGED <<book, seen, offered, clock, hold>>
    BY <1>5 DEF Confirm, Begin, SendFirst, SendSecond, FinalizeFails, Reply
  <2>2. clock \in Nat
    BY <1>a, ApartTypes
  <2> QED BY <1>a, <2>1, <2>2, ApartQuiet
<1>6. CASE Tick
  <2>1. clock \in Nat
    BY <1>a, ApartTypes
  <2> QED BY <1>a, <1>6, <2>1, ApartQuiet DEF Tick
<1>7. CASE UNCHANGED schedulingVars
  <2>1. clock \in Nat
    BY <1>a, ApartTypes
  <2> QED BY <1>a, <1>7, <2>1, ApartQuiet
<1> QED
  BY <1>1, <1>2, <1>3, <1>4, <1>5, <1>6, <1>7, Zenon DEF SchedulingNext, Negotiate, Finalize

-----------------------------------------------------------------------------
(* The links. *)

\* The entry of the book is an event with a link, for the hold of the demo.
MeetingOf(d, i) ==
  /\ i \in DOMAIN book
  /\ book[i].kind = "event" /\ book[i].demo = d /\ book[i].uri
  /\ book[i].start = hold[d].start

\* A run that has made its event knows it.
RunKnows ==
  \A d \in Demos :
    /\ stage[d] \in {"created", "tutor_sent"} => MeetingOf(d, meeting[d])
    /\ stage[d] \in {"idle", "resolved"} => meeting[d] = 0
    /\ stage[d] # "idle" => status[d] # "scheduled"

\* Every link leads to a meeting for the hold; the tutor's was sent by the run
\* under way, by one that failed, or by the one that scheduled the demo.
LinksKnown ==
  \A d \in Demos :
    /\ \A p \in Participants : link[d][p] # 0 => MeetingOf(d, link[d][p])
    /\ stage[d] = "tutor_sent" => link[d]["tutor"] # 0
    /\ link[d]["tutor"] # 0 =>
         \/ link[d]["tutor"] \in broken[d]
         \/ stage[d] = "tutor_sent" /\ link[d]["tutor"] = meeting[d]
         \/ status[d] = "scheduled"
    /\ link[d]["learner"] # 0 =>
         /\ status[d] = "scheduled"
         /\ link[d]["tutor"] # 0
         /\ link[d]["tutor"] # link[d]["learner"] => link[d]["tutor"] \in broken[d]

LinkInv == RunKnows /\ LinksKnown

\* A step that makes no entry, sends nothing and starts or ends no run or hold
\* keeps the links explained.
LEMMA LinkQuiet ==
  ASSUME LinkInv, UNCHANGED <<stage, meeting, status, link, broken, book>>,
         \A d \in Demos : hold'[d].start = hold[d].start
  PROVE  LinkInv'
  BY DEF LinkInv, RunKnows, LinksKnown, MeetingOf

\* Every step keeps the links explained.
LEMMA LinkStep == ASSUME TypeInv, LinkInv, [SchedulingNext]_schedulingVars PROVE LinkInv'
<1> USE DEF LinkInv, RunKnows, LinksKnown
<1>a. SchedulingTypeOK
  BY DEF TypeInv
<1>0. /\ stage \in [Demos -> {"idle", "resolved", "created", "tutor_sent"}]
      /\ meeting \in [Demos -> Nat]
      /\ status \in [Demos -> {"none", "conference_pending", "scheduled"}]
      /\ link \in [Demos -> [Participants -> Nat]]
      /\ broken \in [Demos -> SUBSET Nat]
  BY <1>a DEF SchedulingTypeOK
<1>b. DOMAIN book = 1 .. Len(book) /\ Len(book) \in Nat
  BY <1>a, BookEntries
<1>1. ASSUME NEW d \in Demos,
             \/ Propose(d) \/ ExpireHold(d) \/ ReleaseHold(d) \/ Confirm(d)
             \/ \E p \in RequiredConfirmations, a \in {"confirmed", "declined"} : Reply(d, p, a)
      PROVE  LinkInv'
  <2>1. UNCHANGED <<stage, meeting, status, link, broken, book>>
    BY <1>1 DEF Propose, ExpireHold, ReleaseHold, Confirm, Reply
  <2>2. \A e \in Demos : hold'[e].start = hold[e].start
    <3>1. CASE ExpireHold(d) \/ ReleaseHold(d)
      <4>1. PICK t \in {"expired", "released"} : hold' = [hold EXCEPT ![d].status = t]
        BY <3>1 DEF ExpireHold, ReleaseHold
      <4> QED BY <1>a, <4>1 DEF SchedulingTypeOK
    <3>2. CASE hold' = hold
      BY <3>2
    <3> QED BY <1>1, <3>1, <3>2 DEF Propose, Confirm, Reply
  <2> HIDE DEF LinkInv
  <2> QED BY <2>1, <2>2, LinkQuiet
<1>2. ASSUME NEW d \in Demos, CreateHold(d) PROVE LinkInv'
  <2>1. /\ stage[d] = "idle" /\ status[d] # "scheduled"
        /\ UNCHANGED <<stage, meeting, status, broken>>
        /\ link' = [link EXCEPT ![d] = NoLink]
    BY <1>2 DEF CreateHold
  <2>2. PICK s \in offered[d] :
          /\ hold' = [hold EXCEPT ![d] = [status |-> "active", start |-> s,
                                          at |-> clock, no |-> Len(book) + 1]]
          /\ book' = Append(book, [demo |-> d, kind |-> "hold", start |-> s,
                                   seen |-> seen[d], uri |-> FALSE])
    BY <1>2 DEF CreateHold
  <2>3. /\ DOMAIN book' = 1 .. (Len(book) + 1)
        /\ \A i \in 1 .. Len(book) : book'[i] = book[i]
    <3>1. book \in Seq(Entries)
      BY <1>a DEF SchedulingTypeOK
    <3> QED BY <1>a, <2>2, <3>1, HoldEntry, BookAppend
  <2>4. \A e \in Demos \ {d} : hold'[e] = hold[e] /\ link'[e] = link[e]
    BY <1>a, <2>1, <2>2 DEF SchedulingTypeOK
  <2>5. \A e \in Demos \ {d} : \A i \in Nat : MeetingOf(e, i) => MeetingOf(e, i)'
    BY <1>b, <2>3, <2>4 DEF MeetingOf
  <2>6. \A p \in Participants : link'[d][p] = 0
    BY <1>0, <2>1 DEF NoLink
  <2>7. RunKnows'
    BY <1>0, <2>1, <2>5
  <2>8. LinksKnown'
    BY <1>0, <2>1, <2>4, <2>5, <2>6 DEF Participants
  <2> QED BY <2>7, <2>8
<1>3. ASSUME NEW d \in Demos, Begin(d) PROVE LinkInv'
  <2>1. /\ stage[d] = "idle" /\ status[d] # "scheduled"
        /\ stage' = [stage EXCEPT ![d] = "resolved"]
        /\ UNCHANGED <<hold, meeting, status, link, broken, book>>
    BY <1>3 DEF Begin
  <2>2. \A e \in Demos, i \in Nat : MeetingOf(e, i) => MeetingOf(e, i)'
    BY <2>1 DEF MeetingOf
  <2> QED BY <1>0, <2>1, <2>2
<1>4. ASSUME NEW d \in Demos, CreateEvent(d) PROVE LinkInv'
  <2>1. PICK uri \in BOOLEAN :
          /\ book' = Append(book, [demo |-> d, kind |-> "event",
                                   start |-> hold[d].start,
                                   seen |-> book[hold[d].no].seen, uri |-> uri])
          /\ \/ /\ uri
                /\ stage' = [stage EXCEPT ![d] = "created"]
                /\ meeting' = [meeting EXCEPT ![d] = Len(book) + 1]
                /\ UNCHANGED status
             \/ /\ ~ uri
                /\ stage' = [stage EXCEPT ![d] = "idle"]
                /\ status' = [status EXCEPT ![d] = "conference_pending"]
                /\ UNCHANGED meeting
    BY <1>4 DEF CreateEvent
  <2>2. stage[d] = "resolved" /\ UNCHANGED <<hold, link, broken>>
    BY <1>4 DEF CreateEvent
  <2>3. /\ DOMAIN book' = 1 .. (Len(book) + 1)
        /\ \A i \in 1 .. Len(book) : book'[i] = book[i]
        /\ book'[Len(book) + 1] = [demo |-> d, kind |-> "event",
                                   start |-> hold[d].start,
                                   seen |-> book[hold[d].no].seen, uri |-> uri]
    <3>1. book \in Seq(Entries)
      BY <1>a DEF SchedulingTypeOK
    <3> QED BY <2>1, <2>2, <3>1, EventEntry, BookAppend
  <2>4. \A e \in Demos : \A i \in Nat : MeetingOf(e, i) => MeetingOf(e, i)'
    BY <1>b, <2>2, <2>3 DEF MeetingOf
  <2>5. \A n \in Nat : uri /\ n = Len(book) + 1 => MeetingOf(d, n)'
    BY <1>b, <2>2, <2>3 DEF MeetingOf
  <2>6. link[d]["learner"] = 0 /\ (link[d]["tutor"] # 0 => link[d]["tutor"] \in broken[d])
    BY <2>2
  <2>7. CASE uri
    <3>1. /\ stage' = [stage EXCEPT ![d] = "created"]
          /\ meeting' = [meeting EXCEPT ![d] = Len(book) + 1]
          /\ status' = status
      BY <2>1, <2>7
    <3>2. meeting'[d] = Len(book) + 1 /\ meeting'[d] \in Nat
      BY <1>0, <1>b, <3>1
    <3>3. MeetingOf(d, meeting[d])'
      BY <2>5, <2>7, <3>2
    <3>4. RunKnows'
      BY <1>0, <2>2, <2>4, <3>1, <3>3
    <3>5. LinksKnown'
      BY <1>0, <2>2, <2>4, <2>6, <3>1
    <3> QED BY <3>4, <3>5
  <2>8. CASE ~ uri
    <3>1. /\ stage' = [stage EXCEPT ![d] = "idle"]
          /\ meeting' = meeting
          /\ status' = [status EXCEPT ![d] = "conference_pending"]
      BY <2>1, <2>8
    <3> QED BY <1>0, <2>2, <2>4, <2>6, <3>1
  <2> QED BY <2>7, <2>8
<1>5. ASSUME NEW d \in Demos, SendFirst(d) PROVE LinkInv'
  <2>1. /\ stage[d] = "created" /\ stage' = [stage EXCEPT ![d] = "tutor_sent"]
        /\ UNCHANGED <<hold, meeting, status, broken, book>>
        /\ link' = Delivered(d, "tutor")
    BY <1>5 DEF SendFirst, FirstRecipient
  <2>2. \A e \in Demos, i \in Nat : MeetingOf(e, i) => MeetingOf(e, i)'
    BY <2>1 DEF MeetingOf
  <2>3. /\ \A e \in Demos \ {d} : link'[e] = link[e]
        /\ link'[d]["learner"] = link[d]["learner"]
        /\ link'[d]["tutor"] = IF link[d]["tutor"] = 0 THEN meeting[d]
                                                       ELSE link[d]["tutor"]
    BY <1>0, <2>1 DEF Delivered, Participants
  <2>4. MeetingOf(d, meeting[d]) /\ meeting[d] # 0
    BY <1>b, <2>1 DEF MeetingOf
  <2> QED BY <1>0, <2>1, <2>2, <2>3, <2>4 DEF Participants
<1>6. ASSUME NEW d \in Demos, SendSecond(d) PROVE LinkInv'
  <2>1. /\ stage[d] = "tutor_sent" /\ stage' = [stage EXCEPT ![d] = "idle"]
        /\ meeting' = [meeting EXCEPT ![d] = 0]
        /\ status' = [status EXCEPT ![d] = "scheduled"]
        /\ UNCHANGED <<hold, broken, book>>
        /\ link' = Delivered(d, "learner")
    BY <1>6 DEF SendSecond, FirstRecipient, Participants
  <2>2. \A e \in Demos, i \in Nat : MeetingOf(e, i) => MeetingOf(e, i)'
    BY <2>1 DEF MeetingOf
  <2>3. /\ \A e \in Demos \ {d} : link'[e] = link[e]
        /\ link'[d]["tutor"] = link[d]["tutor"]
        /\ link'[d]["learner"] = IF link[d]["learner"] = 0 THEN meeting[d]
                                                           ELSE link[d]["learner"]
    BY <1>0, <2>1 DEF Delivered, Participants
  <2>4. MeetingOf(d, meeting[d]) /\ meeting[d] # 0
    BY <1>b, <2>1 DEF MeetingOf
  <2> QED BY <1>0, <2>1, <2>2, <2>3, <2>4 DEF Participants
<1>7. ASSUME NEW d \in Demos, FinalizeFails(d) PROVE LinkInv'
  <2>1. /\ stage[d] # "idle" /\ stage' = [stage EXCEPT ![d] = "idle"]
        /\ meeting' = [meeting EXCEPT ![d] = 0]
        /\ broken' = [broken EXCEPT ![d] = IF meeting[d] = 0 THEN @
                                           ELSE @ \cup {meeting[d]}]
        /\ UNCHANGED <<hold, status, link, book>>
    BY <1>7 DEF FinalizeFails
  <2>2. \A e \in Demos, i \in Nat : MeetingOf(e, i) => MeetingOf(e, i)'
    BY <2>1 DEF MeetingOf
  <2>3. /\ \A e \in Demos : broken[e] \subseteq broken'[e]
        /\ meeting[d] # 0 => meeting[d] \in broken'[d]
    BY <1>0, <2>1
  <2> QED BY <1>0, <2>1, <2>2, <2>3
<1>8. CASE Tick \/ UNCHANGED schedulingVars
  <2>1. UNCHANGED <<stage, meeting, status, link, broken, book, hold>>
    BY <1>8 DEF Tick
  <2> HIDE DEF LinkInv
  <2> QED BY <2>1, LinkQuiet
<1> QED
  BY <1>1, <1>2, <1>3, <1>4, <1>5, <1>6, <1>7, <1>8, Zenon
     DEF SchedulingNext, Negotiate, Finalize

-----------------------------------------------------------------------------
(* The decisions. *)

\* The hold is within its lifetime and the time its confirmations have.
InTime(d) == HoldIsActive(d) /\ clock < hold[d].at + ConfirmationTtl

\* A confirmation that has expired has not come back to life.
ExpiryTrue == \A d \in Demos : decision[d] = "confirmation_expired" => ~ InTime(d)

\* Time only ends a hold, and a new hold starts without a decision.
LEMMA ExpiryStep == ASSUME TypeInv, ExpiryTrue, [SchedulingNext]_schedulingVars PROVE ExpiryTrue'
<1>a. SchedulingTypeOK
  BY DEF TypeInv
<1>b. /\ decision \in [Demos -> Reasons]
      /\ clock \in Nat /\ \A d \in Demos : hold[d].at \in Nat
  BY <1>a, ApartTypes DEF SchedulingTypeOK
<1>1. ASSUME clock' \in Nat, clock' >= clock,
             \A d \in Demos : hold'[d].status = "active" => hold'[d] = hold[d],
             \A d \in Demos : decision'[d] = "confirmation_expired" =>
               decision[d] = "confirmation_expired"
      PROVE  ExpiryTrue'
  BY <1>b, <1>1 DEF ExpiryTrue, InTime, HoldIsActive
<1>2. ASSUME NEW d \in Demos, CreateHold(d) PROVE ExpiryTrue'
  <2>1. /\ clock' = clock
        /\ decision'[d] = "none"
        /\ \A e \in Demos \ {d} : decision'[e] = decision[e] /\ hold'[e] = hold[e]
    BY <1>a, <1>2 DEF CreateHold, SchedulingTypeOK
  <2> QED BY <2>1 DEF ExpiryTrue, InTime, HoldIsActive
<1>3. ASSUME NEW d \in Demos, Confirm(d) PROVE ExpiryTrue'
  <2>1. /\ hold' = hold /\ clock' = clock
        /\ decision' = [decision EXCEPT ![d] = EvaluateConfirmations(d)]
    BY <1>3 DEF Confirm
  <2>2. EvaluateConfirmations(d) = "confirmation_expired" => ~ InTime(d)
    BY DEF EvaluateConfirmations, InTime
  <2>3. \A e \in Demos : InTime(e)' <=> InTime(e)
    BY <2>1 DEF InTime, HoldIsActive
  <2> QED BY <1>b, <2>1, <2>2, <2>3 DEF ExpiryTrue
<1>4. ASSUME NEW d \in Demos, ExpireHold(d) \/ ReleaseHold(d) PROVE ExpiryTrue'
  <2>1. PICK t \in {"expired", "released"} : hold' = [hold EXCEPT ![d].status = t]
    BY <1>4 DEF ExpireHold, ReleaseHold
  <2>2. /\ \A e \in Demos \ {d} : hold'[e] = hold[e]
        /\ hold'[d].status = t
    BY <1>a, <2>1 DEF SchedulingTypeOK
  <2>3. UNCHANGED <<decision, clock>>
    BY <1>4 DEF ExpireHold, ReleaseHold
  <2> QED BY <1>b, <1>1, <2>1, <2>2, <2>3
<1>5. ASSUME NEW d \in Demos,
             \/ Propose(d) \/ Begin(d) \/ CreateEvent(d) \/ SendFirst(d)
             \/ SendSecond(d) \/ FinalizeFails(d)
             \/ \E p \in RequiredConfirmations, a \in {"confirmed", "declined"} : Reply(d, p, a)
      PROVE  ExpiryTrue'
  <2>1. UNCHANGED <<clock, hold, decision>>
    BY <1>5 DEF Propose, Begin, CreateEvent, SendFirst, SendSecond, FinalizeFails, Reply
  <2> QED BY <1>b, <1>1, <2>1
<1>6. CASE Tick
  BY <1>b, <1>1, <1>6 DEF Tick
<1>7. CASE UNCHANGED schedulingVars
  BY <1>b, <1>1, <1>7
<1> QED
  BY <1>2, <1>3, <1>4, <1>5, <1>6, <1>7, Zenon DEF SchedulingNext, Negotiate, Finalize

-----------------------------------------------------------------------------
(* The theorems. *)

SchedulingInv == TypeInv /\ ApartInv /\ LinkInv /\ ExpiryTrue

\* SchedulingInv is an inductive invariant of the negotiations and finalize
\* runs of any number of demos with one tutor.
THEOREM SchedulingInvariant == SchedulingSpec => []SchedulingInv
<1>1. SchedulingInit => SchedulingInv
  <2> SUFFICES ASSUME SchedulingInit PROVE SchedulingInv
    OBVIOUS
  <2>1. TypeInv
    BY FS_EmptySet, EmptySeq
       DEF SchedulingInit, TypeInv, SchedulingTypeOK,
           HoldBooked, HoldKnown, OfferBounded, NoHold,
           Unanswered, NoLink, HoldStatuses, Reasons
  <2>2. ApartInv
    BY DEF SchedulingInit, ApartInv, SeenEarlier, ActiveApart, OfferAvoidsHolds,
           OfferAvoidsEvents, EntryAvoidsEvents, HoldsApart, HoldIsActive, NoHold
  <2>3. LinkInv
    BY DEF SchedulingInit, LinkInv, RunKnows, LinksKnown, NoLink, Participants
  <2>4. ExpiryTrue
    BY DEF SchedulingInit, ExpiryTrue
  <2> QED BY <2>1, <2>2, <2>3, <2>4 DEF SchedulingInv
<1>2. SchedulingInv /\ [SchedulingNext]_schedulingVars => SchedulingInv'
  BY TypeStep, ApartStep, LinkStep, ExpiryStep DEF SchedulingInv
<1> QED BY <1>1, <1>2, PTL DEF SchedulingSpec

\* Every reachable state of the scheduling has its type: propose_slots never
\* offers more than maximum_options slots.
THEOREM SchedulingTyped == SchedulingSpec => []SchedulingTypeOK
<1>1. SchedulingInv => SchedulingTypeOK
  BY DEF SchedulingInv, TypeInv
<1> QED BY <1>1, SchedulingInvariant, PTL

\* Holds and calendar events of one tutor come too close only where the offer
\* was older than what it collides with, and active holds never share a start:
\* propose_slots and the unique index give this however many demos race.
THEOREM SlotsKeptApart == SchedulingSpec => []SlotsApart
<1>1. SchedulingInv => SlotsApart
  <2> SUFFICES ASSUME SchedulingInv PROVE SlotsApart
    OBVIOUS
  <2>1. MeetingsApart
    <3> SUFFICES ASSUME NEW i \in DOMAIN book, NEW j \in DOMAIN book,
                        book[i].kind = "event",
                        Overlaps(Protected(book[j].start), Slot(book[i].start))
                 PROVE  book[j].seen < i
      BY DEF MeetingsApart
    <3>1. book[j].seen \in Nat /\ i \in Nat
      BY ApartTypes DEF SchedulingInv, TypeInv
    <3>2. ~ (i <= book[j].seen)
      BY DEF SchedulingInv, ApartInv, EntryAvoidsEvents
    <3> QED BY <3>1, <3>2
  <2> QED BY <2>1 DEF SchedulingInv, ApartInv, SlotsApart
<1> QED BY <1>1, SchedulingInvariant, PTL

\* The learner gets a link only after the tutor, both lead to a meeting of the
\* held slot, and to different ones only after a run of
\* finalize_after_tutor_acceptance failed between its two messages.
THEOREM LinksAreExplained == SchedulingSpec => []LinksExplained
<1>1. SchedulingInv => LinksExplained
  BY DEF SchedulingInv, LinkInv, LinksKnown, MeetingOf, LinksExplained, Participants
<1> QED BY <1>1, SchedulingInvariant, PTL

\* evaluate_confirmations never finds a hold ready whose confirmation had
\* expired, whatever answers arrive afterwards.
THEOREM ExpiryIsFinal == SchedulingSpec => ExpiredForGood
<1>1. ASSUME SchedulingInv, [SchedulingNext]_schedulingVars, NEW d \in Demos,
             decision[d] = "confirmation_expired", hold'[d].no = hold[d].no
      PROVE  decision'[d] # "all_required_confirmed"
  <2>a. decision \in [Demos -> Reasons]
    BY <1>1 DEF SchedulingInv, TypeInv, SchedulingTypeOK
  <2>1. EvaluateConfirmations(d) # "all_required_confirmed"
    BY <1>1 DEF EvaluateConfirmations, InTime, SchedulingInv, ExpiryTrue
  <2>2. ASSUME NEW e \in Demos, Confirm(e) PROVE decision'[d] # "all_required_confirmed"
    BY <1>1, <2>a, <2>1, <2>2 DEF Confirm
  <2>3. ASSUME NEW e \in Demos, CreateHold(e)
        PROVE  decision'[d] # "all_required_confirmed"
    BY <1>1, <2>a, <2>3 DEF CreateHold
  <2>4. CASE decision' = decision
    BY <1>1, <2>4
  <2> QED
    BY <1>1, <2>2, <2>3, <2>4
       DEF SchedulingNext, Negotiate, Finalize, Tick, Propose, ExpireHold, ReleaseHold,
           Reply,
           Begin, CreateEvent, SendFirst, SendSecond, FinalizeFails
<1>2. SchedulingInv /\ [SchedulingNext]_schedulingVars =>
        [\A d \in Demos :
           decision[d] = "confirmation_expired" /\ hold'[d].no = hold[d].no =>
             decision'[d] # "all_required_confirmed"]_schedulingVars
  BY <1>1
<1> QED BY <1>2, SchedulingInvariant, PTL DEF SchedulingSpec, ExpiredForGood
=============================================================================
