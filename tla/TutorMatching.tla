---------------------------- MODULE TutorMatching ----------------------------
(***************************************************************************)
(* tutor_matching/domain/matching.py: the shortlist of tutors for one      *)
(* requirement, ranked again whenever the website returns the candidates.  *)
(* Snapshots age, and two answers need not list the tutors in one order.   *)
(* Tutors are numbered in the order of their ids.  Scores are compared     *)
(* before the division by the sum of the weights, which is the same for    *)
(* all; quality and no-show rate are in steps of 1 / Steps.                *)
(***************************************************************************)
EXTENDS Integers, Sequences, SequencesExt, FiniteSets, TLC

CONSTANTS TutorCount,
          Snapshots,       \* profiles the website may return of a tutor
          Weights,         \* weights of the ranking signals
          Steps,
          MaxSnapshotAge,  \* maximum_snapshot_age
          ShortlistLimit

Tutors == 1 .. TutorCount
NoTutor == 0

\* What a requirement may ask for that a tutor offers or not.
Offers == {"board", "class", "subject", "mode", "region", "availability"}
Unknown == -1

\* The values RankingPolicy accepts, and those of the model's bounds.
RankingPolicyValid ==
  /\ {Steps, MaxSnapshotAge, ShortlistLimit} \subseteq Nat \ {0}
  /\ \A s \in Snapshots :
       /\ s.offers \subseteq Offers
       /\ {s.quality, s.noShow} \subseteq Unknown .. Steps
       /\ s.price \in Unknown .. 10000
  /\ DOMAIN Weights = {"language", "budget", "quality", "reliability"}
  /\ \A w \in DOMAIN Weights : Weights[w] \in Nat
  /\ \E w \in DOMAIN Weights : Weights[w] > 0

ASSUME MatchingAssumption == RankingPolicyValid

VARIABLES
  answer,     \* the tutors in the order the website returned them
  snapshot,   \* their profiles
  snapshotAge,
  budget,     \* maximum_price, or Unknown
  selected    \* explicitly_selected_tutor_id, or NoTutor

matchingVars == <<answer, snapshot, snapshotAge, budget, selected>>

MatchingInit ==
  /\ answer = [i \in Tutors |-> i]
  /\ snapshot = [t \in Tutors |-> CHOOSE s \in Snapshots : TRUE]
  /\ snapshotAge = [t \in Tutors |-> 0]
  /\ budget = Unknown
  /\ selected = NoTutor

-----------------------------------------------------------------------------
\* _hard_constraint_failures and the test of the explicit selection.
HardConstraintFailures(t) ==
  LET s == snapshot[t] IN
  (Offers \ s.offers)
    \cup (IF snapshotAge[t] > MaxSnapshotAge THEN {"stale_snapshot"} ELSE {})
    \cup (IF budget # Unknown /\ s.price = Unknown THEN {"price_unverified"} ELSE {})
    \cup (IF budget # Unknown /\ s.price > budget THEN {"over_budget"} ELSE {})
    \cup (IF selected \notin {NoTutor, t} THEN {"not_explicit_selection"} ELSE {})

One(condition) == IF condition THEN Steps ELSE 0

\* _score without its constant denominator; an unknown rate counts as nothing.
Score(t) ==
  LET s == snapshot[t] IN
  Weights["language"] * One(s.language)
    + Weights["budget"] * One(budget = Unknown \/ (s.price # Unknown /\ s.price <= budget))
    + Weights["quality"] * (IF s.quality = Unknown THEN 0 ELSE s.quality)
    + Weights["reliability"] * (IF s.noShow = Unknown THEN 0 ELSE Steps - s.noShow)

\* Mutation: tutors of one score stay in the order of the answer.
RankedBeforeByScore(t, u) == Score(t) > Score(u)

\* The key of ranked.sort.
RankedBefore(t, u) == Score(t) > Score(u) \/ (Score(t) = Score(u) /\ t < u)

\* rank_tutors: the shortlist.  It is empty when the case needs a human.
Shortlist ==
  LET eligible == SelectSeq(answer, LAMBDA t : HardConstraintFailures(t) = {})
      ranked == SortSeq(eligible, RankedBefore) IN
  IF Len(ranked) > ShortlistLimit THEN SubSeq(ranked, 1, ShortlistLimit) ELSE ranked

-----------------------------------------------------------------------------
\* The website lists the same snapshots again, in some order.
FetchCandidates ==
  /\ \E p \in SetToSeqs(Tutors) : answer' = p
  /\ UNCHANGED <<snapshot, snapshotAge, budget, selected>>

\* The website has a new snapshot of a tutor.
NewSnapshot ==
  /\ \E t \in Tutors, s \in Snapshots :
       /\ snapshot' = [snapshot EXCEPT ![t] = s]
       /\ snapshotAge' = [snapshotAge EXCEPT ![t] = 0]
  /\ UNCHANGED <<answer, budget, selected>>

\* The family states or drops a budget or a tutor of its choice.
Require ==
  /\ \/ /\ \E b \in {Unknown} \cup {s.price : s \in Snapshots} : budget' = b
        /\ UNCHANGED selected
     \/ /\ \E t \in Tutors \cup {NoTutor} : selected' = t
        /\ UNCHANGED budget
  /\ UNCHANGED <<answer, snapshot, snapshotAge>>

\* Time passes; ages beyond the maximum are not told apart.
MatchingTick ==
  /\ snapshotAge' = [t \in Tutors |-> IF snapshotAge[t] > MaxSnapshotAge
                                     THEN snapshotAge[t] ELSE snapshotAge[t] + 1]
  /\ UNCHANGED <<answer, snapshot, budget, selected>>

MatchingNext == FetchCandidates \/ NewSnapshot \/ Require \/ MatchingTick

-----------------------------------------------------------------------------
\* The place of t on a list it is on.
Place(list, t) == CHOOSE i \in DOMAIN list : list[i] = t

\* For one requirement and unchanged profiles, another answer and the passing
\* of time take no tutor off the shortlist whose snapshot is still fresh, and
\* swap no two of them: the ranking does not depend on the order in which the
\* website lists tutors of equal score, whoever else drops out (rank_tutors).
ShortlistKept ==
  [][ /\ answer' # answer \/ snapshotAge' # snapshotAge
      /\ UNCHANGED <<snapshot, budget, selected>>
      /\ \A t \in Tutors : snapshotAge'[t] >= snapshotAge[t]
      =>
        LET fresh == {t \in Tutors : snapshotAge'[t] <= MaxSnapshotAge}
            kept == {t \in fresh : \E i \in DOMAIN Shortlist : Shortlist[i] = t} IN
        /\ kept \subseteq {Shortlist'[i] : i \in DOMAIN Shortlist'}
        /\ \A t, u \in kept :
             Place(Shortlist, t) < Place(Shortlist, u)
               => Place(Shortlist', t) < Place(Shortlist', u) ]_matchingVars
=============================================================================
