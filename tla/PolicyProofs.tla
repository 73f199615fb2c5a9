----------------------------- MODULE PolicyProofs -----------------------------
(***************************************************************************)
(* What the policies promise for every value of their constants: any       *)
(* number of concurrent calls, any prices, rules, claims and regions.      *)
(***************************************************************************)
EXTENDS AdvisoryGateway, Reminders, ConversionPolicy, DiscountOffers,
        RegionalMonitoring, MessagePolicy, DriftEvaluation, Forecasting,
        FiniteSetTheorems, WellFoundedInduction, TLAPS

-----------------------------------------------------------------------------
(* Numbers. *)

\* A nonempty set of natural numbers has a least one, and Min is it.
LEMMA NatMin ==
  ASSUME NEW S \in SUBSET Nat, S # {}
  PROVE  Min(S) \in S /\ \A y \in S : Min(S) <= y
<1> DEFINE R == OpToRel(<, Nat)
<1>1. \A m, n \in Nat : m < n => <<m, n>> \in R
  BY DEF OpToRel
<1>2. IsWellFoundedOn(R, Nat)
  BY NatLessThanWellFounded
<1> HIDE DEF R
<1>3. PICK x \in S : \A y \in S : ~ (<<y, x>> \in R)
  BY <1>2, WFMin
<1>4. ASSUME NEW y \in S PROVE x <= y
  <2>1. x \in Nat /\ y \in Nat
    OBVIOUS
  <2>2. ~ (y < x)
    BY <1>1, <1>3, <2>1
  <2> QED BY <2>1, <2>2
<1> QED BY <1>4 DEF Min

\* The remainder of a number that is written with its quotient.
LEMMA Remainder ==
  ASSUME NEW D \in Nat \ {0}, NEW q \in Int, NEW r \in 0 .. D - 1
  PROVE  (q * D + r) % D = r
<1> DEFINE n == q * D + r
           p == n \div D
<1>1. n \in Int /\ p \in Int
  OBVIOUS
<1>2. n = D * p + (n % D) /\ n % D \in 0 .. D - 1
  BY <1>1
<1>3. q = p
  <2>1. CASE q > p
    <3>1. D * q >= D * (p + 1)
      BY <1>1, <2>1
    <3> QED BY <1>1, <1>2, <3>1
  <2>2. CASE q < p
    <3>1. D * p >= D * (q + 1)
      BY <1>1, <2>2
    <3> QED BY <1>1, <1>2, <3>1
  <2> QED BY <1>1, <2>1, <2>2
<1> QED BY <1>1, <1>2, <1>3

-----------------------------------------------------------------------------
(* The circuit breaker and the budget. *)

AdvisoryInv == AdvisoryTypeOK /\ BurstBounded /\ ReservationsReturned

\* The empty gateway satisfies the invariant.
LEMMA AdvisoryStart == AdvisoryInit => AdvisoryInv
<1> SUFFICES ASSUME AdvisoryInit PROVE AdvisoryInv
  OBVIOUS
<1> USE AdvisoryAssumption
<1>1. Outstanding = {}
  BY DEF AdvisoryInit, Outstanding
<1>2. Cardinality(Outstanding) = 0 /\ Cardinality(Calls) \in Nat
  BY <1>1, FS_EmptySet, FS_CardinalityType
<1>3. AdvisoryTypeOK
  BY DEF AdvisoryInit, AdvisoryTypeOK, CallStates, Closed
<1>4. BurstBounded
  BY <1>2 DEF AdvisoryInit, BurstBounded, Closed
<1>5. QED BY <1>3, <1>4 DEF AdvisoryInv, AdvisoryInit, ReservationsReturned

\* Sizes of the sets of calls.
LEMMA OutstandingSize ==
  AdvisoryTypeOK =>
    /\ IsFiniteSet(Outstanding)
    /\ Cardinality(Outstanding) \in Nat
    /\ Cardinality(Calls) \in Nat
    /\ Cardinality(Outstanding) <= Cardinality(Calls)
<1> USE AdvisoryAssumption
<1>1. Outstanding \subseteq Calls
  BY DEF Outstanding
<1>2. QED BY <1>1, FS_Subset, FS_CardinalityType

\* Every step of a call keeps the invariant.
LEMMA AdvisoryStep == AdvisoryInv /\ [AdvisoryNext]_advisoryVars => AdvisoryInv'
<1> SUFFICES ASSUME AdvisoryInv, [AdvisoryNext]_advisoryVars PROVE AdvisoryInv'
  OBVIOUS
<1> USE AdvisoryAssumption DEF AdvisoryInv
<1>0. /\ IsFiniteSet(Outstanding)
      /\ Cardinality(Outstanding) \in Nat /\ Cardinality(Calls) \in Nat
      /\ Cardinality(Outstanding) <= Cardinality(Calls)
      /\ failures \in Nat /\ FailureThreshold \in Nat \ {0}
  BY OutstandingSize DEF AdvisoryTypeOK
<1>1. AdvisoryTypeOK'
  <2>1. ASSUME NEW c \in Calls, NEW s \in CallStates, Goes(c, s)
        PROVE  call' \in [Calls -> CallStates]
    BY <2>1 DEF Goes, AdvisoryTypeOK
  <2>2. ASSUME NEW c \in Calls, ReserveBudget(c) \/ Allow(c) \/ Answered(c) \/ Settle(c)
        PROVE  AdvisoryTypeOK'
    <3>1. call' \in [Calls -> CallStates]
      BY <2>1, <2>2 DEF ReserveBudget, Allow, Answered, Settle, CallStates
    <3>2. QED
      BY <2>2, <3>1 DEF ReserveBudget, Allow, Answered, Settle, AdvisoryTypeOK, Closed
  <2>3. ASSUME NEW c \in Calls, Succeed(c) \/ Release(c) \/ Fail(c) \/ Cancel(c)
        PROVE  AdvisoryTypeOK'
    <3>1. call' \in [Calls -> CallStates]
      BY <2>1, <2>3 DEF Succeed, Release, Fail, Cancel, CallStates
    <3>2. QED
      BY <2>3, <3>1 DEF Succeed, ClosedBySuccess, Release, GivenBack, Fail, Tripped, Cancel,
                        AdvisoryTypeOK, Closed
  <2>4. CASE AdvisoryTick \/ UNCHANGED advisoryVars
    BY <2>4 DEF AdvisoryTick, advisoryVars, AdvisoryTypeOK, Closed
  <2>5. QED BY <2>2, <2>3, <2>4 DEF AdvisoryNext
<1>2. IsFiniteSet(Outstanding') /\ Cardinality(Outstanding') \in Nat
      /\ Cardinality(Outstanding') <= Cardinality(Calls)
  <2>1. Outstanding' \subseteq Calls
    BY DEF Outstanding
  <2>2. QED BY <2>1, FS_Subset, FS_CardinalityType
<1>3. BurstBounded'
  <2>1. ASSUME Outstanding' \subseteq Outstanding, UNCHANGED <<failures, opened>>
        PROVE  BurstBounded'
    <3>1. Cardinality(Outstanding') <= Cardinality(Outstanding)
      BY <1>0, <2>1, FS_Subset
    <3>2. QED BY <1>0, <1>2, <2>1, <3>1 DEF BurstBounded
  <2>2. ASSUME NEW c \in Calls, ReserveBudget(c) \/ Answered(c) \/ Settle(c) \/ Cancel(c)
        PROVE  BurstBounded'
    BY <2>1, <2>2 DEF ReserveBudget, Answered, Settle, Cancel, Goes, Outstanding,
                      AdvisoryTypeOK
  <2>3. ASSUME NEW c \in Calls, Release(c) PROVE BurstBounded'
    BY <2>1, <2>3 DEF Release, Goes, Outstanding, AdvisoryTypeOK
  <2>4. ASSUME NEW c \in Calls, Allow(c) PROVE BurstBounded'
    <3>1. CASE Goes(c, "refused") /\ UNCHANGED <<failures, opened>>
      <4>1. call[c] = "reserved"
        BY <2>4 DEF Allow
      <4>2. Outstanding' \subseteq Outstanding
        BY <3>1, <4>1 DEF Goes, Outstanding, AdvisoryTypeOK
      <4>3. QED BY <2>1, <3>1, <4>2
    <3>2. CASE opened = Closed /\ UNCHANGED <<failures, opened>>
      BY <1>0, <1>2, <3>2 DEF BurstBounded
    <3>3. CASE failures' = 0 /\ opened' = Closed
      BY <1>0, <1>2, <3>3 DEF BurstBounded
    <3>4. QED BY <2>4, <3>1, <3>2, <3>3 DEF Allow
  <2>5. ASSUME NEW c \in Calls, Succeed(c) PROVE BurstBounded'
    BY <1>0, <1>2, <2>5 DEF Succeed, ClosedBySuccess, BurstBounded
  <2>6. ASSUME NEW c \in Calls, Fail(c) PROVE BurstBounded'
    <3>1. c \in Outstanding /\ Outstanding' = Outstanding \ {c}
      BY <2>6 DEF Fail, Goes, Outstanding, AdvisoryTypeOK
    <3>2. Cardinality(Outstanding') = Cardinality(Outstanding) - 1
      BY <1>0, <3>1, FS_RemoveElement
    <3>3. /\ failures' = failures + 1
          /\ opened' = IF failures + 1 >= FailureThreshold THEN 0 ELSE opened
      BY <2>6 DEF Fail, Tripped
    <3>4. QED BY <1>0, <1>2, <3>2, <3>3 DEF BurstBounded, Closed
  <2>7. CASE AdvisoryTick
    <3>1. Outstanding' = Outstanding /\ failures' = failures /\ opened' # Closed /\ opened # Closed
      BY <2>7 DEF AdvisoryTick, Outstanding, AdvisoryTypeOK, Closed
    <3>2. QED BY <3>1 DEF BurstBounded
  <2>8. CASE UNCHANGED advisoryVars
    BY <2>8 DEF advisoryVars, BurstBounded, Outstanding
  <2>9. QED
    BY <2>2, <2>3, <2>4, <2>5, <2>6, <2>7, <2>8 DEF AdvisoryNext
<1>4. ReservationsReturned'
  <2>1. ASSUME NEW c \in Calls, ReserveBudget(c) \/ Allow(c) \/ Answered(c) \/ Settle(c)
        PROVE  ReservationsReturned'
    BY <2>1 DEF ReserveBudget, Allow, Answered, Settle, Goes, ReservationsReturned,
                AdvisoryTypeOK
  <2>2. ASSUME NEW c \in Calls, Succeed(c) \/ Release(c) \/ Fail(c) \/ Cancel(c)
        PROVE  ReservationsReturned'
    BY <2>2 DEF Succeed, Release, GivenBack, Fail, Cancel, Goes, ReservationsReturned,
                AdvisoryTypeOK
  <2>3. CASE AdvisoryTick \/ UNCHANGED advisoryVars
    BY <2>3 DEF AdvisoryTick, advisoryVars, ReservationsReturned
  <2>4. QED BY <2>1, <2>2, <2>3 DEF AdvisoryNext
<1>5. QED BY <1>1, <1>3, <1>4

\* The invariant holds in every reachable state.
THEOREM AdvisoryInvariant == AdvisorySpec => []AdvisoryInv
  BY AdvisoryStart, AdvisoryStep, PTL DEF AdvisorySpec

\* With any number of concurrent calls, a provider that is down gets at most
\* the threshold and as many calls more as run at once (async_breaker.py).
THEOREM BurstIsBounded == AdvisorySpec => []BurstBounded
  BY AdvisoryInvariant, PTL DEF AdvisoryInv

\* Only a cancelled call keeps its reservation (structured_completion).
THEOREM ReservationsAreReturned == AdvisorySpec => []ReservationsReturned
  BY AdvisoryInvariant, PTL DEF AdvisoryInv

\* Both promises of the gateway, for any calls, threshold and budget
\* (AsyncCircuitBreaker, structured_completion).
THEOREM AdvisoryKeepsContract == AdvisorySpec => []AdvisoryContract
  BY BurstIsBounded, ReservationsAreReturned, PTL DEF AdvisoryContract

-----------------------------------------------------------------------------
(* The price floor of discounts. *)

\* A discount within _price_floor_maximum_discount leaves at least the minimum
\* price, and never more than the list price, whichever way the two roundings
\* fall.
LEMMA FloorHolds ==
  ASSUME NEW list \in Nat, NEW minimum \in Nat, minimum <= list,
         NEW points \in 0 .. FullScale, points <= FloorMaximum(list, minimum)
  PROVE  minimum <= Discounted(list, points) /\ Discounted(list, points) <= list
<1> DEFINE exact == list * (FullScale - points)
<1>1. exact \in Nat /\ exact <= list * FullScale
  BY DEF FullScale
<1>2. exact >= minimum * FullScale
  <2>1. CASE list = 0
    BY <2>1 DEF FullScale
  <2>2. CASE list # 0
    <3>1. list * points <= (list - minimum) * FullScale
      <4> DEFINE n == (list - minimum) * FullScale
      <4>1. n \in Nat /\ list \in Nat \ {0}
        BY <2>2 DEF FullScale
      <4> HIDE DEF n
      <4>2. list * (n \div list) <= n
        BY <4>1
      <4>3. points <= n \div list
        BY <2>2 DEF FloorMaximum, n
      <4>4. n \div list \in Nat
        BY <4>1
      <4>5. list * points <= list * (n \div list)
        BY <4>1, <4>3, <4>4
      <4>6. QED BY <4>1, <4>2, <4>4, <4>5 DEF n
    <3>2. exact = list * FullScale - list * points
      BY DEF FullScale
    <3>3. (list - minimum) * FullScale = list * FullScale - minimum * FullScale
      BY DEF FullScale
    <3>4. QED BY <3>1, <3>2, <3>3 DEF FullScale
  <2>3. QED BY <2>1, <2>2
<1> HIDE DEF exact
<1>3. Discounted(list, points) = (exact + 9999) \div 10000
  BY DEF Discounted, FullScale, exact
<1>4. QED BY <1>1, <1>2, <1>3 DEF FullScale

\* The smaller of two numbers is below both.
LEMMA MinBelow ==
  \A a, b \in Int : Min({a, b}) \in {a, b} /\ Min({a, b}) <= a /\ Min({a, b}) <= b
<1> SUFFICES ASSUME NEW a \in Int, NEW b \in Int
             PROVE  Min({a, b}) \in {a, b} /\ Min({a, b}) <= a /\ Min({a, b}) <= b
  OBVIOUS
<1>1. \E x \in {a, b} : \A y \in {a, b} : x <= y
  OBVIOUS
<1>2. QED BY <1>1 DEF Min

\* absolute_maximum_basis_points is a number.
LEMMA AbsoluteType == AbsoluteMaximum \in Nat
<1>1. AbsoluteMaximum \in 0 .. FullScale
  BY OfferAssumption DEF DiscountPolicyValid
<1>2. QED BY <1>1 DEF FullScale

\* The prices of the plan and of every offer are in order.
OfferInv ==
  /\ terms.list \in Nat /\ terms.minimum \in Nat /\ terms.minimum <= terms.list
  /\ PriceFloorKept

\* Every decision, redemption and new price keeps the prices in order.
LEMMA OfferStep == OfferInv /\ [OfferNext]_offerVars => OfferInv'
<1> SUFFICES ASSUME OfferInv, [OfferNext]_offerVars PROVE OfferInv'
  OBVIOUS
<1> USE OfferAssumption DEF OfferInv, DiscountPolicyValid
<1>1. ASSUME NEW d \in Desks, NEW points, NEW learner, Decide(d, points, learner)
      PROVE  OfferInv'
  <2> DEFINE floor == FloorMaximum(terms.list, terms.minimum)
  <2>1. floor \in Nat /\ floor <= FullScale
    <3>1. CASE terms.list = 0
      BY <3>1 DEF FloorMaximum, FullScale
    <3>2. CASE terms.list # 0
      <4> DEFINE n == (terms.list - terms.minimum) * FullScale
      <4>1. n \in Nat /\ n <= terms.list * FullScale
        BY DEF FullScale
      <4> HIDE DEF n
      <4>2. n \div terms.list \in Nat /\ n \div terms.list <= FullScale
        BY <3>2, <4>1 DEF FullScale
      <4>3. QED BY <3>2, <4>2 DEF FloorMaximum, n
    <3>3. QED BY <3>1, <3>2
  <2>2. points \in 0 .. FullScale /\ points <= floor
    <3>1. AbsoluteMaximum \in Nat
      BY AbsoluteType
    <3>2. MaximumDiscount(terms.list, terms.minimum) = Min({floor, AbsoluteMaximum})
      BY DEF MaximumDiscount
    <3>3. points \in 0 .. MaximumDiscount(terms.list, terms.minimum)
      BY <1>1 DEF Decide
    <3> HIDE DEF floor
    <3>4. /\ Min({floor, AbsoluteMaximum}) \in {floor, AbsoluteMaximum}
          /\ Min({floor, AbsoluteMaximum}) <= floor
      <4>1. floor \in Int /\ AbsoluteMaximum \in Int
        BY <2>1, <3>1
      <4>2. QED BY <4>1, MinBelow, Zenon
    <3>5. QED BY <2>1, <3>1, <3>2, <3>3, <3>4 DEF FullScale
  <2>3. terms.minimum <= Discounted(terms.list, points)
        /\ Discounted(terms.list, points) <= terms.list
    BY <2>2, FloorHolds
  <2>4. PriceFloorKept'
    BY <1>1, <2>3 DEF Decide, PriceFloorKept
  <2>5. QED BY <1>1, <2>4 DEF Decide
<1>2. ASSUME NEW o \in offers, Redeem(o) PROVE OfferInv'
  <2>1. [o EXCEPT !.redeemed = @ + 1].minimum = o.minimum
        /\ [o EXCEPT !.redeemed = @ + 1].price = o.price
        /\ [o EXCEPT !.redeemed = @ + 1].list = o.list
    OBVIOUS
  <2>2. QED BY <1>2, <2>1 DEF Redeem, PriceFloorKept
<1>3. CASE Reprice
  <2>1. PICK l \in Prices, m \in Prices : m <= l /\ terms' = [list |-> l, minimum |-> m]
    BY <1>3 DEF Reprice
  <2>2. l \in Nat /\ m \in Nat
    BY OfferAssumption DEF DiscountPolicyValid
  <2>3. PriceFloorKept'
    BY <1>3 DEF Reprice, PriceFloorKept
  <2>4. QED BY <2>1, <2>2, <2>3
<1>4. CASE OfferTick \/ UNCHANGED offerVars
  BY <1>4 DEF OfferTick, offerVars, PriceFloorKept
<1>5. ASSUME NEW d \in Desks, ReadContext(d) PROVE OfferInv'
  BY <1>5 DEF ReadContext, PriceFloorKept
<1>6. QED BY <1>1, <1>2, <1>3, <1>4, <1>5 DEF OfferNext

\* For every price and every permitted discount, no offer is below the minimum
\* price of its plan (decide_discount).
THEOREM NoOfferBelowFloor == OfferSpec => []PriceFloorKept
<1>1. OfferInit => OfferInv
  BY DEF OfferInit, OfferInv, PriceFloorKept
<1>2. OfferInv => PriceFloorKept
  BY DEF OfferInv
<1>3. QED BY <1>1, <1>2, OfferStep, PTL DEF OfferSpec

\* What the limits rest on: finitely many offers, none made in the future.
BookInv ==
  /\ offerNow \in Nat
  /\ IsFiniteSet(offers)
  /\ \A o \in offers : /\ o.created \in Nat /\ o.created <= offerNow
                       /\ o.expires \in Nat
  /\ OffersExplained

\* The offers that count against the limit: redeemable, and decided on facts
\* nobody had overtaken.
Counted == {o \in offers : Redeemable(o) /\ ~ o.stale}

\* A set that lost one element and got another, or got none, is no larger.
LEMMA Exchanged ==
  ASSUME NEW S, IsFiniteSet(S), NEW x \in S, NEW y, NEW T, T \subseteq (S \ {x}) \cup {y}
  PROVE  Cardinality(T) <= Cardinality(S)
<1>1. IsFiniteSet(S \ {x}) /\ Cardinality(S \ {x}) = Cardinality(S) - 1
  BY FS_RemoveElement
<1>2. /\ IsFiniteSet((S \ {x}) \cup {y})
      /\ \/ Cardinality((S \ {x}) \cup {y}) = Cardinality(S \ {x})
         \/ Cardinality((S \ {x}) \cup {y}) = Cardinality(S \ {x}) + 1
  BY <1>1, FS_AddElement
<1>3. IsFiniteSet(T) /\ Cardinality(T) <= Cardinality((S \ {x}) \cup {y})
  BY <1>2, FS_Subset
<1>4. /\ Cardinality(S) \in Nat /\ Cardinality(T) \in Nat
  BY <1>3, FS_CardinalityType
<1>5. QED BY <1>1, <1>2, <1>3, <1>4

\* A decision on the facts of the moment finds room for its offer and every
\* earlier one past its cooldown; one on old facts is marked and does not count.
LEMMA DecideExplained ==
  ASSUME BookInv, NEW d \in Desks, NEW points, NEW learner, Decide(d, points, learner)
  PROVE  BookInv'
<1> DEFINE new == [price |-> Discounted(terms.list, points), minimum |-> terms.minimum,
                   list |-> terms.list, created |-> offerNow,
                   expires |-> offerNow + OfferTtl, redeemed |-> 0,
                   stale |-> read[d] # offers, desk |-> d]
<1>1. /\ offers' = offers \cup {new} /\ offerNow' = offerNow
      /\ WithinLimits(read[d])
  BY DEF Decide
<1>2. /\ new.created = offerNow /\ new.expires = offerNow + OfferTtl
      /\ new.redeemed = 0 /\ new.stale = (read[d] # offers)
  OBVIOUS
<1> HIDE DEF new
<1>3. OfferTtl \in Nat /\ OfferCooldown \in Nat /\ MaximumActiveOffers \in Nat
  BY OfferAssumption DEF DiscountPolicyValid
<1>4. IsFiniteSet(offers')
  BY <1>1, FS_AddElement DEF BookInv
<1>5. \A o \in offers' : /\ o.created \in Nat /\ o.created <= offerNow'
                         /\ o.expires \in Nat
  BY <1>1, <1>2, <1>3 DEF BookInv
<1>6. Counted' \subseteq Counted \cup {new}
  BY <1>1 DEF Counted, Redeemable
<1>7. CASE new.stale
  <2>1. Counted' \subseteq Counted
    BY <1>6, <1>7 DEF Counted
  <2>2. IsFiniteSet(Counted)
    BY FS_Subset DEF BookInv, Counted
  <2>3. Cardinality(Counted') <= Cardinality(Counted)
    BY <2>1, <2>2, FS_Subset
  <2>4. /\ Cardinality(Counted) \in Nat /\ Cardinality(Counted') \in Nat
        /\ Cardinality(Counted) <= MaximumActiveOffers
    BY <2>1, <2>2, FS_Subset, FS_CardinalityType DEF BookInv, OffersExplained, Counted
  <2>5. Cardinality(Counted') <= MaximumActiveOffers
    BY <1>3, <2>3, <2>4
  <2>6. ASSUME NEW a \in offers', NEW b \in offers', a # b, ~ b.stale,
               a.created <= b.created
        PROVE  \/ b.created >= a.created + OfferCooldown
               \/ a.created = b.created /\ a.stale
    <3>1. b \in offers
      BY <1>1, <1>7, <2>6
    <3>2. CASE a \in offers
      BY <2>6, <3>1, <3>2 DEF BookInv, OffersExplained
    <3>3. CASE a = new
      BY <1>2, <1>7, <2>6, <3>1, <3>3 DEF BookInv
    <3>4. QED BY <1>1, <3>2, <3>3
  <2>7. OffersExplained'
    BY <2>5, <2>6 DEF OffersExplained, Counted
  <2>8. QED BY <1>1, <1>4, <1>5, <2>7 DEF BookInv
<1>8. CASE ~ new.stale
  <2> DEFINE open == {o \in offers : Redeemable(o)}
  <2>1. read[d] = offers
    BY <1>2, <1>8
  <2>2. /\ Cardinality(open) < MaximumActiveOffers
        /\ \A o \in offers : offerNow >= o.created + OfferCooldown
    BY <1>1, <2>1 DEF WithinLimits
  <2>3. Counted' \subseteq open \cup {new}
    BY <1>6 DEF Counted
  <2>4. IsFiniteSet(open)
    BY FS_Subset DEF BookInv
  <2> HIDE DEF open
  <2>5. /\ IsFiniteSet(open \cup {new})
        /\ \/ Cardinality(open \cup {new}) = Cardinality(open)
           \/ Cardinality(open \cup {new}) = Cardinality(open) + 1
    BY <2>4, FS_AddElement
  <2>6. IsFiniteSet(Counted') /\ Cardinality(Counted') <= Cardinality(open \cup {new})
    BY <2>3, <2>5, FS_Subset
  <2>7. Cardinality(open) \in Nat /\ Cardinality(Counted') \in Nat
    BY <2>4, <2>6, FS_CardinalityType
  <2>8. Cardinality(Counted') <= MaximumActiveOffers
    BY <1>3, <2>2, <2>5, <2>6, <2>7
  <2>9. ASSUME NEW a \in offers', NEW b \in offers', a # b, ~ b.stale,
               a.created <= b.created
        PROVE  \/ b.created >= a.created + OfferCooldown
               \/ a.created = b.created /\ a.stale
    <3>1. CASE a \in offers /\ b \in offers
      BY <2>9, <3>1 DEF BookInv, OffersExplained
    <3>2. CASE a \in offers /\ b = new
      BY <1>2, <2>2, <3>2
    <3>3. CASE a = new /\ b \in offers
      BY <1>2, <1>3, <2>2, <2>9, <3>3 DEF BookInv
    <3>4. QED BY <1>1, <2>9, <3>1, <3>2, <3>3
  <2>10. OffersExplained'
    BY <2>8, <2>9 DEF OffersExplained, Counted
  <2>11. QED BY <1>1, <1>4, <1>5, <2>10 DEF BookInv
<1>9. QED BY <1>7, <1>8

\* A redemption exchanges an offer for one that was made at the same time.
LEMMA RedeemExplained ==
  ASSUME BookInv, NEW o \in offers, Redeem(o) PROVE BookInv'
<1> DEFINE used == [o EXCEPT !.redeemed = @ + 1]
<1>1. /\ used.created = o.created /\ used.expires = o.expires /\ used.stale = o.stale
  OBVIOUS
<1> HIDE DEF used
<1>2. /\ offers' = (offers \ {o}) \cup {used} /\ offerNow' = offerNow /\ Redeemable(o)
  BY DEF Redeem, used
<1>3. IsFiniteSet(offers')
  <2>1. IsFiniteSet(offers \ {o})
    BY FS_RemoveElement DEF BookInv
  <2>2. QED BY <1>2, <2>1, FS_AddElement
<1>4. \A b \in offers' : /\ b.created \in Nat /\ b.created <= offerNow'
                         /\ b.expires \in Nat
  BY <1>1, <1>2 DEF BookInv
<1>5. IsFiniteSet(Counted) /\ Cardinality(Counted) <= MaximumActiveOffers
  BY FS_Subset DEF BookInv, OffersExplained, Counted
<1>6. Cardinality(Counted') <= Cardinality(Counted) /\ IsFiniteSet(Counted')
  <2>1. IsFiniteSet(Counted')
    BY <1>3, FS_Subset DEF Counted
  <2>2. CASE o \in Counted
    <3>1. Counted' \subseteq (Counted \ {o}) \cup {used}
      BY <1>2 DEF Counted, Redeemable
    <3>2. QED BY <1>5, <2>1, <2>2, <3>1, Exchanged
  <2>3. CASE o \notin Counted
    <3>1. Counted' \subseteq Counted
      BY <1>1, <1>2, <2>3 DEF Counted, Redeemable
    <3>2. QED BY <1>5, <2>1, <3>1, FS_Subset
  <2>4. QED BY <2>2, <2>3
<1>7. Cardinality(Counted') <= MaximumActiveOffers
  <2>1. Cardinality(Counted) \in Nat /\ Cardinality(Counted') \in Nat
    BY <1>5, <1>6, FS_CardinalityType
  <2>2. MaximumActiveOffers \in Nat
    BY OfferAssumption DEF DiscountPolicyValid
  <2>3. QED BY <1>5, <1>6, <2>1, <2>2
<1>8. ASSUME NEW a \in offers', NEW b \in offers', a # b, ~ b.stale,
             a.created <= b.created
      PROVE  \/ b.created >= a.created + OfferCooldown
             \/ a.created = b.created /\ a.stale
  <2>1. CASE a = used
    <3>1. b \in offers /\ o # b
      BY <1>2, <1>8, <2>1
    <3>2. QED BY <1>1, <1>8, <2>1, <3>1 DEF BookInv, OffersExplained
  <2>2. CASE b = used
    <3>1. a \in offers /\ a # o
      BY <1>2, <1>8, <2>2
    <3>2. QED BY <1>1, <1>8, <2>2, <3>1 DEF BookInv, OffersExplained
  <2>3. CASE a # used /\ b # used
    BY <1>2, <1>8, <2>3 DEF BookInv, OffersExplained
  <2>4. QED BY <2>1, <2>2, <2>3
<1>9. OffersExplained'
  BY <1>7, <1>8 DEF OffersExplained, Counted
<1>10. QED BY <1>2, <1>3, <1>4, <1>9 DEF BookInv

\* Time only closes offers.
LEMMA TickExplained == BookInv /\ OfferTick => BookInv'
<1> SUFFICES ASSUME BookInv, OfferTick PROVE BookInv'
  OBVIOUS
<1>1. offers' = offers /\ offerNow' = offerNow + 1 /\ offerNow \in Nat
  BY DEF OfferTick, BookInv
<1>2. Counted' \subseteq Counted
  BY <1>1 DEF Counted, Redeemable, BookInv
<1>3. IsFiniteSet(Counted) /\ Cardinality(Counted) <= MaximumActiveOffers
  BY FS_Subset DEF BookInv, OffersExplained, Counted
<1>4. IsFiniteSet(Counted') /\ Cardinality(Counted') <= Cardinality(Counted)
  BY <1>2, <1>3, FS_Subset
<1>5. /\ Cardinality(Counted) \in Nat /\ Cardinality(Counted') \in Nat
      /\ MaximumActiveOffers \in Nat
  BY <1>3, <1>4, FS_CardinalityType, OfferAssumption DEF DiscountPolicyValid
<1>6. Cardinality(Counted') <= MaximumActiveOffers
  BY <1>3, <1>4, <1>5
<1>7. OffersExplained'
  BY <1>1, <1>6 DEF OffersExplained, Counted, BookInv
<1>8. \A o \in offers' : /\ o.created \in Nat /\ o.created <= offerNow'
                         /\ o.expires \in Nat
  BY <1>1 DEF BookInv
<1>9. QED BY <1>1, <1>7, <1>8 DEF BookInv

\* Every step of the desks keeps the limits explained.
LEMMA BookStep == BookInv /\ [OfferNext]_offerVars => BookInv'
<1> SUFFICES ASSUME BookInv, [OfferNext]_offerVars PROVE BookInv'
  OBVIOUS
<1>1. CASE Reprice \/ UNCHANGED offerVars \/ \E d \in Desks : ReadContext(d)
  <2>1. offers' = offers /\ offerNow' = offerNow
    BY <1>1 DEF Reprice, offerVars, ReadContext
  <2>2. QED BY <2>1 DEF BookInv, OffersExplained, Redeemable
<1>2. QED BY <1>1, DecideExplained, RedeemExplained, TickExplained DEF OfferNext

\* For every policy, any number of desks and any order of their reads and
\* decisions: the price floor always holds, and the limit of active offers and
\* the cooldown give way only to a decision on a context another had overtaken
\* (decide_discount, bind_offer, validate_offer_redemption).
THEOREM OffersKeepContract == OfferSpec => []OfferContract
<1>1. OfferInit => BookInv
  <2>1. ASSUME OfferInit PROVE BookInv
    <3>1. offers = {} /\ offerNow = 0
      BY <2>1 DEF OfferInit
    <3>2. {o \in offers : Redeemable(o) /\ ~ o.stale} = {}
      BY <3>1
    <3>3. IsFiniteSet({}) /\ Cardinality({}) = 0
      BY FS_EmptySet
    <3>4. MaximumActiveOffers \in Nat
      BY OfferAssumption DEF DiscountPolicyValid
    <3>5. QED BY <3>1, <3>2, <3>3, <3>4 DEF BookInv, OffersExplained
  <2>2. QED BY <2>1
<1>2. BookInv => OffersExplained
  BY DEF BookInv
<1>3. QED BY <1>1, <1>2, BookStep, NoOfferBelowFloor, PTL DEF OfferSpec, OfferContract

-----------------------------------------------------------------------------
(* Regional scopes. *)

PrincipalTyped ==
  principal \in [tenant : Tenants, role : Roles, assigned : SUBSET Regions, global : BOOLEAN]

\* Whatever the roles of the policy, more regions and the global grant only
\* widen what a principal may ask for (authorize_scope).
THEOREM GrantsWiden == RegionalSpec => GrantsOnlyWiden
<1> USE RegionalAssumption DEF UnderperformancePolicyValid
<1>1. RegionalInit => PrincipalTyped
  BY DEF RegionalInit, PrincipalTyped
<1>2. PrincipalTyped /\ [ScopeNext \/ AlertNext]_regionalVars
        => PrincipalTyped' /\ principal'.tenant = principal.tenant
  <2> SUFFICES ASSUME PrincipalTyped, [ScopeNext \/ AlertNext]_regionalVars
               PROVE  PrincipalTyped' /\ principal'.tenant = principal.tenant
    OBVIOUS
  <2>1. CASE GrantChanges
    BY <2>1 DEF GrantChanges, PrincipalTyped
  <2>2. CASE UNCHANGED principal
    BY <2>2 DEF PrincipalTyped
  <2>3. QED
    BY <2>1, <2>2 DEF ScopeNext, AlertNext, CohortChanges, RaiseAlert, RegionalTick,
                      regionalVars
<1>3. ASSUME NEW p, NEW q,
             q.role = p.role, q.tenant = p.tenant, p.assigned \subseteq q.assigned,
             p.global => q.global
      PROVE  Authorized(p) \subseteq Authorized(q)
  BY <1>3 DEF Authorized, AuthorizeScope
<1>4. ASSUME NEW p, NEW request \in Authorized(p)
      PROVE  /\ request.tenant = p.tenant
             /\ request.regions \subseteq p.assigned \/ (p.global /\ p.role \in GlobalRoles)
  BY <1>4 DEF Authorized, AuthorizeScope
<1>5. PrincipalTyped /\ [ScopeNext \/ AlertNext]_regionalVars => [Widened]_regionalVars
  BY <1>2, <1>3, <1>4 DEF Widened
<1>6. QED
  BY <1>1, <1>2, <1>5, PTL DEF RegionalSpec, GrantsOnlyWiden

\* The figures are numbers, and the time since the last alert is counted up to
\* the suppression period.
AlertTyped ==
  /\ cohort.sample \in Nat /\ cohort.baselineSample \in Nat
  /\ cohort.value \in Int /\ cohort.baseline \in Int
  /\ sinceAlert \in 0 .. SuppressionPeriod \cup {NeverAlerted}

CohortTyped ==
  cohort \in [sample : Nat, value : Int, baselineSample : Nat, baseline : Int]

LEMMA AlertTypes ==
  /\ RegionalInit => CohortTyped /\ AlertTyped
  /\ CohortTyped /\ AlertTyped /\ [ScopeNext \/ AlertNext]_regionalVars
       => CohortTyped' /\ AlertTyped'
<1> USE RegionalAssumption DEF UnderperformancePolicyValid, NeverAlerted
<1>1. RegionalInit => CohortTyped /\ AlertTyped
  BY DEF RegionalInit, CohortTyped, AlertTyped
<1>2. CohortTyped => /\ cohort.sample \in Nat /\ cohort.baselineSample \in Nat
                     /\ cohort.value \in Int /\ cohort.baseline \in Int
  BY DEF CohortTyped
<1>3. ASSUME CohortTyped, AlertTyped, CohortChanges PROVE CohortTyped' /\ AlertTyped'
  <2>1. MetricValues \subseteq Int /\ 0 .. MaxSamples \subseteq Nat
    OBVIOUS
  <2>2. CohortTyped'
    BY <1>3, <2>1 DEF CohortChanges, CohortTyped
  <2> QED BY <1>3, <2>2 DEF CohortChanges, CohortTyped, AlertTyped
<1>4. ASSUME CohortTyped, AlertTyped, RaiseAlert \/ RegionalTick
      PROVE  CohortTyped' /\ AlertTyped'
  BY <1>4 DEF RaiseAlert, RegionalTick, CohortTyped, AlertTyped
<1>5. ASSUME CohortTyped, AlertTyped, UNCHANGED <<cohort, sinceAlert>>
      PROVE  CohortTyped' /\ AlertTyped'
  BY <1>5 DEF CohortTyped, AlertTyped
<1> QED
  BY <1>1, <1>3, <1>4, <1>5 DEF ScopeNext, AlertNext, GrantChanges, regionalVars

\* A relative decline that is reached stays reached when the value falls.
LEMMA DeclineGrows ==
  ASSUME NEW b \in Int, NEW v \in Int, NEW w \in Int, w <= v, NEW percent \in Nat,
         (b - v) * 100 >= percent * Magnitude(b)
  PROVE  (b - w) * 100 >= percent * Magnitude(b)
<1> DEFINE bar == percent * Magnitude(b)
<1>1. bar \in Int
  BY DEF Magnitude
<1> HIDE DEF bar
<1>2. (b - v) * 100 >= bar => (b - w) * 100 >= bar
  BY <1>1
<1> QED BY <1>2 DEF bar

\* The arithmetic of a decline as large as its baseline.
LEMMA DeclineHeard ==
  ASSUME NEW b \in Int, NEW v \in Int, b - v >= Magnitude(b),
         NEW percent \in Nat, percent <= 100
  PROVE  (b - v) * 100 >= percent * Magnitude(b)
<1>1. Magnitude(b) \in Nat
  BY DEF Magnitude
<1>2. percent * Magnitude(b) <= 100 * Magnitude(b)
  BY <1>1
<1>3. percent * Magnitude(b) \in Int
  BY <1>1
<1> QED BY <1>1, <1>2, <1>3

\* For every policy and all figures, a worse metric is heard no less, one that
\* loses its whole baseline is heard, and no alert is raised within the
\* suppression period (evaluate_underperformance).
THEOREM WorseIsHeard == RegionalSpec => WorseIsLouder
<1> USE RegionalAssumption DEF UnderperformancePolicyValid, NeverAlerted
<1>1. ASSUME AlertTyped, AlertTyped', [ScopeNext \/ AlertNext]_regionalVars
      PROVE  Heard
  <2> DEFINE before == EvaluateUnderperformance(cohort, sinceAlert)
             after == EvaluateUnderperformance(cohort', sinceAlert')
  <2>1. ASSUME sinceAlert' = sinceAlert, cohort'.baseline = cohort.baseline,
               cohort'.value <= cohort.value, cohort'.sample >= cohort.sample,
               cohort'.baselineSample >= cohort.baselineSample
        PROVE  Loudness(after) >= Loudness(before)
    <3>1. ASSUME NEW percent \in Nat, RelativeAtLeast(cohort, percent)
          PROVE  RelativeAtLeast(cohort', percent)
      BY <1>1, <2>1, <3>1, DeclineGrows DEF RelativeAtLeast, AlertTyped
    <3>2. /\ RelativeAtLeast(cohort, MinimumRelativeDecline)
               => RelativeAtLeast(cohort', MinimumRelativeDecline)
          /\ RelativeAtLeast(cohort, CriticalRelativeDecline)
               => RelativeAtLeast(cohort', CriticalRelativeDecline)
      BY <3>1
    <3>3. CASE before \notin {"warning", "critical"}
      BY <3>3 DEF Loudness
    <3>4. CASE before \in {"warning", "critical"}
      <4>1. /\ cohort.sample >= MinimumCohortSize
            /\ cohort.baselineSample >= MinimumBaselineSize
            /\ ~ (sinceAlert # NeverAlerted /\ sinceAlert < SuppressionPeriod)
            /\ cohort.baseline - cohort.value >= MinimumAbsoluteDecline
            /\ RelativeAtLeast(cohort, MinimumRelativeDecline)
            /\ before = "critical" <=> RelativeAtLeast(cohort, CriticalRelativeDecline)
        BY <1>1, <3>4 DEF EvaluateUnderperformance, AlertTyped
      <4>2. after = IF RelativeAtLeast(cohort', CriticalRelativeDecline)
                      THEN "critical" ELSE "warning"
        BY <1>1, <2>1, <3>2, <4>1 DEF EvaluateUnderperformance, AlertTyped
      <4> QED BY <3>2, <3>4, <4>1, <4>2 DEF Loudness
    <3> QED BY <3>3, <3>4
  <2>2. ASSUME after \notin {"sample_suppressed", "alert_suppressed"},
               MinimumRelativeDecline <= 100, cohort'.baseline # 0,
               cohort'.baseline - cohort'.value >= Magnitude(cohort'.baseline),
               cohort'.baseline - cohort'.value >= MinimumAbsoluteDecline
        PROVE  Loudness(after) > 0
    <3>1. RelativeAtLeast(cohort', MinimumRelativeDecline)
      BY <1>1, <2>2, DeclineHeard DEF RelativeAtLeast, AlertTyped
    <3>2. after \in {"warning", "critical"}
      BY <1>1, <2>2, <3>1 DEF EvaluateUnderperformance, AlertTyped
    <3> QED BY <3>2 DEF Loudness
  <2>3. ASSUME sinceAlert' = 0, sinceAlert # 0
        PROVE  sinceAlert \in {NeverAlerted, SuppressionPeriod}
    <3>1. CASE RaiseAlert
      <4>1. ~ (sinceAlert # NeverAlerted /\ sinceAlert < SuppressionPeriod)
        BY <3>1 DEF RaiseAlert, EvaluateUnderperformance
      <4> QED BY <1>1, <4>1 DEF AlertTyped
    <3>2. CASE RegionalTick
      BY <1>1, <2>3, <3>2 DEF RegionalTick, AlertTyped
    <3>3. CASE UNCHANGED sinceAlert
      BY <2>3, <3>3
    <3> QED
      BY <1>1, <3>1, <3>2, <3>3 DEF ScopeNext, AlertNext, GrantChanges,
                                    CohortChanges, regionalVars
  <2> QED BY <2>1, <2>2, <2>3 DEF Heard
<1>2. CohortTyped /\ AlertTyped /\ (CohortTyped /\ AlertTyped)'
        /\ [ScopeNext \/ AlertNext]_regionalVars => [Heard]_regionalVars
  BY <1>1
<1> QED BY <1>2, AlertTypes, PTL DEF RegionalSpec, WorseIsLouder

\* All promises of the regional monitoring, for any grants, roles, figures and
\* limits (authorize_scope, evaluate_underperformance).
THEOREM RegionsKeepContract == RegionalSpec => RegionalContract
  BY GrantsWiden, WorseIsHeard, PTL DEF RegionalContract

-----------------------------------------------------------------------------
(* Reminders and no-shows. *)

\* A plan carries the key of its session's version, and the plans of one
\* version agree on the start.
PlansAgree ==
  /\ session.version \in Nat /\ session.start \in Nat /\ remNow \in Nat
  /\ signals \subseteq Signals
  /\ \A a \in plans :
       /\ a = [key |-> <<a.version, a.rule, a.audience>>, rule |-> a.rule,
               audience |-> a.audience, runAt |-> a.runAt, version |-> a.version]
       /\ a.version \in Nat /\ a.version <= session.version
       /\ a.version = session.version => a.runAt = session.start + OffsetOf[a.rule]
  /\ \A a, b \in plans : a.version = b.version /\ a.rule = b.rule => a.runAt = b.runAt

\* Every step of the session's life keeps the plans in agreement.
LEMMA PlansStep ==
  PlansAgree /\ [RemindersNext \/ AttendanceNext]_reminderVars => PlansAgree'
<1> SUFFICES ASSUME PlansAgree, [RemindersNext \/ AttendanceNext]_reminderVars
             PROVE  PlansAgree'
  OBVIOUS
<1> USE ReminderAssumption DEF ReminderPolicyValid
<1>1. CASE PlanReminders
  <2>1. PICK audience \in Audiences, risk \in {RiskThreshold - 1, RiskThreshold} :
          plans' = plans \cup
            {[key |-> ReminderKey(rule, audience), rule |-> rule, audience |-> audience,
              runAt |-> session.start + OffsetOf[rule], version |-> session.version] :
               rule \in Applicable(audience, risk)}
    BY <1>1 DEF PlanReminders
  <2>2. \A a \in plans' : a \in plans \/
          \E rule : a = [key |-> <<session.version, rule, audience>>, rule |-> rule,
                         audience |-> audience, runAt |-> session.start + OffsetOf[rule],
                         version |-> session.version]
    BY <2>1 DEF ReminderKey
  <2>3. UNCHANGED <<session, remNow, signals>>
    BY <1>1 DEF PlanReminders
  <2>4. \A a \in plans' :
          /\ a = [key |-> <<a.version, a.rule, a.audience>>, rule |-> a.rule,
                  audience |-> a.audience, runAt |-> a.runAt, version |-> a.version]
          /\ a.version \in Nat /\ a.version <= session.version
          /\ a.version = session.version => a.runAt = session.start + OffsetOf[a.rule]
    BY <2>2 DEF PlansAgree
  <2>5. \A a \in plans' : a \in plans \/ a.version = session.version
    BY <2>2
  <2>6. \A a, b \in plans' : a.version = b.version /\ a.rule = b.rule => a.runAt = b.runAt
    BY <2>4, <2>5 DEF PlansAgree
  <2>7. QED BY <2>3, <2>4, <2>6 DEF PlansAgree
<1>2. CASE Reschedule
  BY <1>2 DEF Reschedule, PlansAgree, Signals
<1>3. CASE CaseMoves \/ SignalArrives \/ ReminderTick \/ UNCHANGED reminderVars
  BY <1>3 DEF CaseMoves, SignalArrives, ReminderTick, reminderVars, PlansAgree
<1>4. QED BY <1>1, <1>2, <1>3 DEF RemindersNext, AttendanceNext

\* No reminder is planned at first.
LEMMA PlansInit == ReminderInit => PlansAgree
  BY ReminderAssumption DEF ReminderPolicyValid, ReminderInit, PlansAgree

\* The plans of a session agree in every reachable state.
LEMMA PlansInvariant == ReminderSpec => []PlansAgree
  BY PlansInit, PlansStep, PTL DEF ReminderSpec

\* The key tells reminders apart over all versions of a session
\* (plan_reminders).
THEOREM KeysTellApart == ReminderSpec => []KeysIdentify
<1>1. PlansAgree => KeysIdentify
  <2> SUFFICES ASSUME PlansAgree, NEW a \in plans, NEW b \in plans, a.key = b.key
               PROVE  a = b
    BY DEF KeysIdentify
  <2>1. a.key = <<a.version, a.rule, a.audience>> /\ b.key = <<b.version, b.rule, b.audience>>
    BY DEF PlansAgree
  <2>2. a.version = b.version /\ a.rule = b.rule /\ a.audience = b.audience
    <3>1. <<a.version, a.rule, a.audience>> = <<b.version, b.rule, b.audience>>
      BY <2>1
    <3>2. QED BY <3>1
  <2>3. a.runAt = b.runAt
    BY <2>2 DEF PlansAgree
  <2>4. QED BY <2>2, <2>3 DEF PlansAgree
<1>2. QED BY <1>1, PlansInvariant, PTL

\* However often a session is rescheduled, no stale reminder passes
\* reminder_is_current beside the present one.
THEOREM CurrentUnique == ReminderSpec => []CurrentIsUnique
<1>1. PlansAgree => CurrentIsUnique
  <2> SUFFICES ASSUME PlansAgree,
                      NEW a \in plans, ReminderIsCurrent(a),
                      NEW b \in plans, ReminderIsCurrent(b)
               PROVE  /\ a.rule = b.rule /\ a.audience = b.audience => a = b
                      /\ a.runAt = session.start + OffsetOf[a.rule]
    BY DEF CurrentIsUnique
  <2>1. a.version = session.version /\ b.version = session.version
    BY DEF ReminderIsCurrent
  <2>2. QED BY <2>1 DEF PlansAgree
<1>2. QED BY <1>1, PlansInvariant, PTL

\* More signals never make a side less suspect.
LEMMA SignalsCount ==
  ASSUME NEW S, NEW known, NEW more, IsFiniteSet(S), known \subseteq more, more \subseteq Signals
  PROVE  /\ Cardinality(known \cap S) \in Nat
         /\ Cardinality(more \cap S) \in Nat
         /\ Cardinality(known \cap S) <= Cardinality(more \cap S)
<1>1. IsFiniteSet(more \cap S)
  BY FS_Subset
<1>2. known \cap S \subseteq more \cap S
  OBVIOUS
<1>3. QED BY <1>1, <1>2, FS_Subset, FS_CardinalityType

\* For every threshold and delay, a no-show is kept or goes to review
\* (determine_no_show).
THEOREM BlameIsKept == ReminderSpec => BlameKept
<1>1. PlansAgree /\ PlansAgree' /\ [RemindersNext \/ AttendanceNext]_reminderVars
        => [KeepsBlame]_reminderVars
  <2> SUFFICES ASSUME PlansAgree, PlansAgree',
                      [RemindersNext \/ AttendanceNext]_reminderVars,
                      session' = session, Outcome \in {"learner_no_show", "tutor_no_show"}
               PROVE  Outcome' \in {Outcome, "disputed", "technical_failure"}
    BY DEF KeepsBlame
  <2> USE ReminderAssumption DEF ReminderPolicyValid
  <2>1. signals \subseteq signals' /\ signals' \subseteq Signals /\ remNow <= remNow'
        /\ remNow \in Nat /\ remNow' \in Nat /\ session.start \in Nat
    <3>1. session.version # session.version + 1
      BY DEF PlansAgree
    <3>2. ~ Reschedule
      BY <3>1 DEF Reschedule
    <3>3. QED
      BY <3>2 DEF PlansAgree, RemindersNext, AttendanceNext, PlanReminders, CaseMoves,
                  SignalArrives, ReminderTick, reminderVars
  <2> DEFINE L(k) == Cardinality(k \cap AboutLearner) >= MinimumSignals
             T(k) == Cardinality(k \cap AboutTutor) >= MinimumSignals
  <2>2. IsFiniteSet(AboutLearner) /\ IsFiniteSet(AboutTutor)
    <3>1. /\ IsFiniteSet({"learner_confirmed_absent"})
          /\ IsFiniteSet({"tutor_confirmed_absent"})
      BY FS_Singleton
    <3>2. /\ IsFiniteSet({"learner_confirmed_absent"} \cup {"tutor_confirmed_learner_absent"})
          /\ IsFiniteSet({"tutor_confirmed_absent"} \cup {"learner_confirmed_tutor_absent"})
      BY <3>1, FS_AddElement
    <3>3. /\ AboutLearner = {"learner_confirmed_absent"} \cup {"tutor_confirmed_learner_absent"}
                              \cup {"consented_attendance_learner_missing"}
          /\ AboutTutor = {"tutor_confirmed_absent"} \cup {"learner_confirmed_tutor_absent"}
                            \cup {"consented_attendance_tutor_missing"}
      BY DEF AboutLearner, AboutTutor
    <3>4. QED BY <3>2, <3>3, FS_AddElement
  <2>3. (L(signals) => L(signals')) /\ (T(signals) => T(signals'))
    <3>1. /\ Cardinality(signals \cap AboutLearner) \in Nat
          /\ Cardinality(signals' \cap AboutLearner) \in Nat
          /\ Cardinality(signals \cap AboutLearner) <= Cardinality(signals' \cap AboutLearner)
      BY <2>1, <2>2, SignalsCount
    <3>2. /\ Cardinality(signals \cap AboutTutor) \in Nat
          /\ Cardinality(signals' \cap AboutTutor) \in Nat
          /\ Cardinality(signals \cap AboutTutor) <= Cardinality(signals' \cap AboutTutor)
      BY <2>1, <2>2, SignalsCount
    <3>3. QED BY <3>1, <3>2
  <2>4. /\ remNow >= session.start + DecisionDelay
        /\ Outcome = "learner_no_show" => L(signals) /\ ~ T(signals)
        /\ Outcome = "tutor_no_show" => T(signals) /\ ~ L(signals)
    BY <2>1 DEF Outcome, NoShow
  <2>5. remNow' >= session'.start + DecisionDelay
    BY <2>1, <2>4
  <2>6. L(signals') => Outcome' \in {"learner_no_show", "disputed", "technical_failure"}
    BY <2>1, <2>5 DEF Outcome, NoShow
  <2>7. T(signals') => Outcome' \in {"tutor_no_show", "disputed", "technical_failure"}
    BY <2>1, <2>5 DEF Outcome, NoShow
  <2>8. QED BY <2>3, <2>4, <2>6, <2>7
<1>2. QED BY <1>1, PlansInvariant, PTL DEF ReminderSpec, BlameKept

\* All promises of the reminders, for any rules, sessions and signals
\* (plan_reminders, reminder_is_current, determine_no_show).
THEOREM RemindersKeepContract == ReminderSpec => ReminderContract
  BY KeysTellApart, CurrentUnique, BlameIsKept, PTL DEF ReminderContract

-----------------------------------------------------------------------------
(* Drafts. *)

DraftTyped ==
  draft \in Seq([type : ClaimTypes, source : Sources \cup {NoSource}])

\* A draft once refused stays refused, for drafts of any length
\* (validate_draft).
THEOREM RefusalIsFinal == ConversionSpec => DraftRefusalFinal
<1>1. ConversionInit => DraftTyped
  BY DEF ConversionInit, DraftTyped
<1>2. DraftTyped /\ [FollowUpNext \/ DraftNext]_conversionVars
        => DraftTyped' /\ (draft' = draft \/ \E c : draft' = Append(draft, c))
  <2> SUFFICES ASSUME DraftTyped, [FollowUpNext \/ DraftNext]_conversionVars
               PROVE  DraftTyped' /\ (draft' = draft \/ \E c : draft' = Append(draft, c))
    OBVIOUS
  <2>1. CASE ClaimDrafted
    BY <2>1 DEF ClaimDrafted, DraftTyped
  <2>2. CASE draft' = draft
    BY <2>2 DEF DraftTyped
  <2>3. QED
    BY <2>1, <2>2 DEF FollowUpNext, OutcomeChanges, FactArrives, ApprovalChanges,
                      RecipientChanges, DraftNext, conversionVars
<1>3. DraftTyped /\ DraftTyped' /\ (draft' = draft \/ \E c : draft' = Append(draft, c))
        => RefusalKept
  <2> SUFFICES ASSUME DraftTyped, DraftTyped',
                      draft' = draft \/ \E c : draft' = Append(draft, c)
               PROVE  RefusalKept
    OBVIOUS
  <2>1. \A i \in DOMAIN draft : i \in DOMAIN draft' /\ draft'[i] = draft[i]
    BY DEF DraftTyped
  <2>2. Violations(draft) \subseteq Violations(draft')
    BY <2>1 DEF Violations
  <2>3. Violations(draft') = {} => \A i \in DOMAIN draft' : draft'[i].source \in ApprovedSources
    BY DEF Violations
  <2>4. QED BY <2>2, <2>3 DEF RefusalKept, ValidateDraft
<1>4. QED BY <1>1, <1>2, <1>3, PTL DEF ConversionSpec, DraftRefusalFinal

\* The facts of a demo are those the policy knows.
ContextTyped ==
  context \in [outcome : DemoOutcomes, verified : BOOLEAN, facts : SUBSET FactRefs,
               approval : OfferApprovals, optedOut : BOOLEAN, allowed : BOOLEAN,
               highRisk : BOOLEAN]

LEMMA ContextTypes ==
  /\ ConversionInit => ContextTyped
  /\ ContextTyped /\ [FollowUpNext \/ DraftNext]_conversionVars => ContextTyped'
<1>1. ConversionInit => ContextTyped
  BY DEF ConversionInit, ContextTyped, DemoOutcomes, OfferApprovals
<1>2. ASSUME ContextTyped, OutcomeChanges PROVE ContextTyped'
  BY <1>2 DEF OutcomeChanges, ContextTyped
<1>3. ASSUME ContextTyped, FactArrives PROVE ContextTyped'
  BY <1>3 DEF FactArrives, ContextTyped
<1>4. ASSUME ContextTyped, ApprovalChanges PROVE ContextTyped'
  BY <1>4 DEF ApprovalChanges, ContextTyped
<1>5. ASSUME ContextTyped, RecipientChanges PROVE ContextTyped'
  BY <1>5 DEF RecipientChanges, ContextTyped
<1>6. ASSUME ContextTyped, UNCHANGED context PROVE ContextTyped'
  BY <1>6 DEF ContextTyped
<1> QED
  BY <1>1, <1>2, <1>3, <1>4, <1>5, <1>6
     DEF FollowUpNext, DraftNext, ClaimDrafted, conversionVars

\* More facts, and nothing else, keep the follow-up or select an earlier rule.
LEMMA MoreFacts ==
  ASSUME NEW c, NEW d,
         d.outcome = c.outcome, d.verified = c.verified, d.approval = c.approval,
         d.optedOut = c.optedOut, d.allowed = c.allowed, d.highRisk = c.highRisk,
         c.facts \subseteq d.facts,
         ChooseNextAction(c).reason = "rule_selected"
  PROVE  \/ /\ ChooseNextAction(d).reason = "rule_selected"
            /\ ChooseNextAction(d).rule <= ChooseNextAction(c).rule
         \/ c.optedOut /\ ChooseNextAction(d).reason = "recipient_opted_out"
<1> DEFINE Applying(x) == {i \in DOMAIN FollowUpRules : Applies(x, FollowUpRules[i])}
<1>1. /\ c.verified /\ c.allowed /\ Applying(c) # {}
      /\ ChooseNextAction(c).rule = Min(Applying(c))
  BY DEF ChooseNextAction
<1>2. Applying(c) \subseteq Applying(d)
  BY DEF Applies
<1>3. Applying(c) \in SUBSET Nat /\ Applying(d) \in SUBSET Nat
  BY ConversionAssumption DEF ConversionPolicyValid
<1>4. Min(Applying(d)) <= Min(Applying(c))
  <2>1. Applying(d) # {}
    BY <1>1, <1>2
  <2> HIDE DEF Applying
  <2>2. Min(Applying(c)) \in Applying(d)
    BY <1>1, <1>2, <1>3, NatMin
  <2> QED BY <1>3, <2>1, <2>2, NatMin
<1>5. CASE d.optedOut /\ FollowUpRules[Min(Applying(d))].class \notin FollowUpAfterOptOut
  BY <1>1, <1>2, <1>5 DEF ChooseNextAction
<1>6. CASE ~ (d.optedOut /\ FollowUpRules[Min(Applying(d))].class \notin FollowUpAfterOptOut)
  <2>1. /\ ChooseNextAction(d).reason = "rule_selected"
        /\ ChooseNextAction(d).rule = Min(Applying(d))
    BY <1>1, <1>2, <1>6 DEF ChooseNextAction
  <2> QED BY <1>1, <1>4, <2>1
<1> QED BY <1>5, <1>6

\* For any rules, facts take no follow-up away (choose_next_action).
THEOREM FactsHelpOnly == ConversionSpec => FactsOnlyHelp
<1>1. ASSUME ContextTyped, ContextTyped', [FollowUpNext \/ DraftNext]_conversionVars
      PROVE  FactsHelp
  <2> SUFFICES ASSUME context' # context,
                      [context' EXCEPT !.facts = context.facts] = context,
                      ChooseNextAction(context).reason = "rule_selected"
               PROVE  \/ /\ ChooseNextAction(context').reason = "rule_selected"
                         /\ ChooseNextAction(context').rule <= ChooseNextAction(context).rule
                      \/ /\ context.optedOut
                         /\ ChooseNextAction(context').reason = "recipient_opted_out"
    BY DEF FactsHelp
  <2>1. /\ context'.outcome = context.outcome /\ context'.verified = context.verified
        /\ context'.approval = context.approval /\ context'.optedOut = context.optedOut
        /\ context'.allowed = context.allowed /\ context'.highRisk = context.highRisk
    BY <1>1 DEF ContextTyped
  <2>2. context.facts \subseteq context'.facts
    <3>1. CASE FactArrives
      BY <1>1, <3>1 DEF FactArrives, ContextTyped
    <3>2. CASE OutcomeChanges
      BY <1>1, <3>2 DEF OutcomeChanges, ContextTyped
    <3>3. CASE ApprovalChanges \/ RecipientChanges
      BY <1>1, <3>3 DEF ApprovalChanges, RecipientChanges, ContextTyped
    <3> QED
      BY <1>1, <3>1, <3>2, <3>3 DEF FollowUpNext, DraftNext, ClaimDrafted, conversionVars
  <2> QED BY <2>1, <2>2, MoreFacts
<1>2. ContextTyped /\ ContextTyped' /\ [FollowUpNext \/ DraftNext]_conversionVars
        => [FactsHelp]_conversionVars
  BY <1>1
<1> QED BY <1>2, ContextTypes, PTL DEF ConversionSpec, FactsOnlyHelp

\* All promises of the conversion policy, for any rules, claims and sources.
THEOREM ConversionKeepsContract == ConversionSpec => ConversionContract
  BY FactsHelpOnly, RefusalIsFinal, PTL DEF ConversionContract

-----------------------------------------------------------------------------
(* Quiet hours. *)

\* The end of the quiet hours is the first moment after now that is not quiet.
LEMMA QuietEnds ==
  ASSUME NEW now \in Nat, NEW hours \in QuietHours
  PROVE  LET then == AfterQuietHours(now, hours) IN
         /\ then >= now
         /\ ~ Within(hours, LocalTime(then))
         /\ \A t \in now .. then - 1 : Within(hours, LocalTime(t))
<1> DEFINE D == DayLength
           Z == ZoneOffset
           s == hours.starts
           e == hours.ends
           then == AfterQuietHours(now, hours)
<1>1. D \in Nat \ {0} /\ Z \in Nat
  BY MessageAssumption DEF MessagePolicyValid
<1>2. s \in 0 .. D - 1 /\ e \in 0 .. D - 1
  BY DEF QuietHours, LocalTimes
<1>3. CASE ~ Within(hours, LocalTime(now))
  <2>1. then = now
    BY <1>3 DEF AfterQuietHours
  <2> QED BY <1>3, <2>1
<1>4. CASE Within(hours, LocalTime(now))
  <2> DEFINE q == LocalDate(now)
             r == LocalTime(now)
  <2>1. q \in Int /\ r \in 0 .. D - 1 /\ now + Z = q * D + r
    <3>1. now + Z \in Nat
      BY <1>1
    <3> QED BY <1>1, <3>1 DEF LocalDate, LocalTime
  <2>2. ASSUME NEW t \in Int, NEW p \in Int, NEW l \in 0 .. D - 1, t + Z = p * D + l
        PROVE  LocalTime(t) = l
    <3>1. (p * D + l) % D = l
      BY <1>1, Remainder
    <3> QED BY <2>2, <3>1 DEF LocalTime
  <2>3. /\ s # e
        /\ s < e => s <= r /\ r < e
        /\ s > e => r >= s \/ r < e
    <3>1. r \in Int /\ s \in Int /\ e \in Int
      BY <1>1, <1>2, <2>1
    <3> HIDE DEF r
    <3> QED BY <1>4, <3>1 DEF Within, r
  <2>4. ~ Within(hours, e)
    BY <1>1, <1>2 DEF Within
  <2> DEFINE spans == s > e /\ r >= s
             date == IF spans THEN q + 1 ELSE q
  <2>5. then = date * D + e - Z /\ date \in Int
    BY <1>4, <2>1 DEF AfterQuietHours
  <2>6. date * D \in Int /\ q * D \in Int /\ (q + 1) * D = q * D + D
    BY <1>1, <2>1, <2>5
  <2> HIDE DEF q, r, then, D, Z, s, e
  <2>7. then \in Int /\ then + Z = date * D + e
    BY <1>1, <1>2, <2>5, <2>6
  <2>8. then >= now
    BY <1>1, <1>2, <2>1, <2>3, <2>6, <2>7
  <2>9. LocalTime(then) = e
    BY <1>2, <2>2, <2>5, <2>7
  <2>10. ASSUME NEW t \in now .. then - 1 PROVE Within(hours, LocalTime(t))
    <3>1. t \in Int /\ now <= t /\ t < then
      BY <2>7
    <3>2. CASE spans /\ t + Z >= q * D + D
      <4> DEFINE l == t + Z - (q * D + D)
      <4>1. l \in 0 .. D - 1 /\ l < e
        BY <1>1, <1>2, <2>1, <2>6, <2>7, <3>1, <3>2
      <4>2. LocalTime(t) = l
        <5>1. t + Z = (q + 1) * D + l
          BY <1>1, <2>1, <2>6, <3>1
        <5>2. q + 1 \in Int
          BY <2>1
        <5> HIDE DEF l
        <5> QED BY <2>2, <3>1, <4>1, <5>1, <5>2
      <4>3. hours.starts > hours.ends /\ l < hours.ends /\ l \in Int
            /\ hours.starts \in Int /\ hours.ends \in Int
        BY <1>1, <1>2, <3>2, <4>1 DEF s, e
      <4> QED BY <4>2, <4>3 DEF Within
    <3>3. CASE ~ (spans /\ t + Z >= q * D + D)
      <4> DEFINE l == t + Z - q * D
      <4>1. l \in 0 .. D - 1 /\ l >= r /\ (spans \/ l < e)
        BY <1>1, <1>2, <2>1, <2>3, <2>6, <2>7, <3>1, <3>3
      <4>2. LocalTime(t) = l
        <5>1. t + Z = q * D + l
          BY <1>1, <2>1, <2>6, <3>1
        <5> HIDE DEF l
        <5> QED BY <2>1, <2>2, <3>1, <4>1, <5>1
      <4>3. l \in Int /\ s \in Int /\ e \in Int /\ r \in Int
        BY <1>1, <1>2, <2>1, <4>1
      <4> HIDE DEF l
      <4>4. s # e /\ IF s < e THEN s <= l /\ l < e ELSE l >= s \/ l < e
        BY <2>3, <4>1, <4>3
      <4> QED BY <4>2, <4>4 DEF Within, s, e
    <3> QED BY <3>2, <3>3
  <2> QED BY <2>4, <2>8, <2>9, <2>10 DEF then, e
<1> QED BY <1>3, <1>4

MessageInv ==
  /\ msgNow \in Nat
  /\ quiet \in QuietHours
  /\ QuietRespected

\* For every length of the day, zone and quiet hours, a permitted message waits
\* exactly until they end (_after_quiet_hours, QuietHours.contains).
THEOREM QuietHoursKept == MessageSpec => []QuietRespected
<1>1. MessageInit => MessageInv
  <2>1. 0 \in LocalTimes
    BY MessageAssumption DEF MessagePolicyValid, LocalTimes
  <2> QED BY <2>1 DEF MessageInit, MessageInv, QuietHours, QuietRespected, NoMessage
<1>2. MessageInv /\ [MessageNext]_messageVars => MessageInv'
  <2> SUFFICES ASSUME MessageInv, [MessageNext]_messageVars PROVE MessageInv'
    OBVIOUS
  <2>1. ASSUME NEW request \in Requests, EvaluateMessage(request),
               UNCHANGED <<msgNow, quiet, optedOut>>
        PROVE  MessageInv'
    <3>1. msgDecision'.reason = "permitted" =>
            /\ msgDecision'.at = msgNow /\ msgDecision'.quiet = quiet
            /\ msgDecision'.notBefore = AfterQuietHours(msgNow, quiet)
      BY <2>1 DEF EvaluateMessage
    <3>2. LET then == AfterQuietHours(msgNow, quiet) IN
          /\ then >= msgNow
          /\ ~ Within(quiet, LocalTime(then))
          /\ \A t \in msgNow .. then - 1 : Within(quiet, LocalTime(t))
      BY QuietEnds DEF MessageInv
    <3>3. QuietRespected'
      BY <3>1, <3>2 DEF QuietRespected, LocalTime, Within
    <3> QED BY <2>1, <3>3 DEF MessageInv
  <2>2. CASE MessageTick \/ PreferenceChanges
    <3>1. msgDecision' = NoMessage /\ msgNow' \in Nat /\ quiet' \in QuietHours
      BY <2>2 DEF MessageTick, PreferenceChanges, MessageInv
    <3>2. msgDecision'.reason # "permitted"
      BY <3>1 DEF NoMessage
    <3> QED BY <3>1, <3>2 DEF MessageInv, QuietRespected
  <2>3. CASE UNCHANGED <<msgNow, quiet, msgDecision>>
    BY <2>3 DEF MessageInv, QuietRespected, LocalTime, Within
  <2> QED BY <2>1, <2>2, <2>3 DEF MessageNext, Evaluate, RecordOptOut, messageVars
<1>3. MessageInv => QuietRespected
  BY DEF MessageInv
<1> QED BY <1>1, <1>2, <1>3, PTL DEF MessageSpec

-----------------------------------------------------------------------------
(* Drift evaluations. *)

DriftStatuses == {"insufficient_data", "breach", "passed"}
SampleSizes == {Cardinality(rows) : rows \in SUBSET Predicted}
Judgements ==
  [key : Versions \X Nat, size : SampleSizes, status : DriftStatuses]

\* What a run has read at each of its steps.
RunTyped(run) ==
  /\ run.step \in {"idle", "model", "judged", "looked", "done"}
  /\ run.step \in {"model", "judged", "looked"} =>
       run.version \in Versions /\ run.ends \in Nat
  /\ run.step \in {"judged", "looked"} =>
       run.size \in SampleSizes /\ run.status \in DriftStatuses

\* A run that found no need to insert found the evaluation, which stays.
DriftInv ==
  /\ hour \in Nat /\ active \in Versions
  /\ evaluated \in Seq(Judgements)
  /\ driftRun = [r \in DriftRuns |-> driftRun[r]]
  /\ \A r \in DriftRuns :
       /\ RunTyped(driftRun[r])
       /\ driftRun[r].step = "looked" =>
            driftRun[r].insert \/ Stored(Key(driftRun[r]))
  /\ EvaluationAudited

\* A run that moves on, while nothing is stored, leaves the others as they are.
LEMMA RunMoves ==
  ASSUME DriftInv, NEW r \in DriftRuns, NEW run, RunTyped(run),
         run.step = "looked" => run.insert \/ Stored(Key(run)),
         driftRun' = [driftRun EXCEPT ![r] = run],
         UNCHANGED <<hour, active, evaluations, evaluated>>
  PROVE  DriftInv'
<1>1. /\ driftRun'[r] = run
      /\ \A q \in DriftRuns \ {r} : driftRun'[q] = driftRun[q]
      /\ driftRun' = [q \in DriftRuns |-> driftRun'[q]]
  BY DEF DriftInv
<1>2. EvaluationAudited'
  BY DEF DriftInv, EvaluationAudited, Stored
<1>3. ASSUME NEW q \in DriftRuns
      PROVE  /\ RunTyped(driftRun'[q])
             /\ driftRun'[q].step = "looked" =>
                  driftRun'[q].insert \/ Stored(Key(driftRun'[q]))
  BY <1>1 DEF DriftInv
<1>4. \A key : Stored(key)' <=> Stored(key)
  BY DEF Stored
<1> QED BY <1>1, <1>2, <1>3, <1>4 DEF DriftInv, RunTyped, Key

\* A commit stores the first evaluation of its hour, or reports one stored.
LEMMA CommitAudited ==
  ASSUME DriftInv, NEW r \in DriftRuns, CommitRun(r)
  PROVE  DriftInv'
<1> DEFINE run == driftRun[r]
           e == Judgement(run)
           n == Len(evaluated) + 1
<1>1. /\ run.step = "looked" /\ UniqueWindow(run)
      /\ evaluations' = IF run.insert THEN evaluations \cup {e} ELSE evaluations
      /\ evaluated' = Append(evaluated, e)
      /\ driftRun' = [driftRun EXCEPT ![r] = [step |-> "done"]]
      /\ UNCHANGED <<hour, active>>
  BY DEF CommitRun
<1>2. e \in Judgements /\ e.key = Key(run)
  BY <1>1 DEF DriftInv, RunTyped, Judgement, Judgements, Key
<1>3. run.insert \/ Stored(Key(run))
  BY <1>1 DEF DriftInv
<1>4. /\ evaluated' \in Seq(Judgements) /\ evaluated \in Seq(Judgements)
      /\ DOMAIN evaluated' = 1 .. n /\ DOMAIN evaluated = 1 .. n - 1 /\ n \in Nat \ {0}
      /\ evaluated'[n] = e
      /\ \A i \in 1 .. n - 1 : evaluated'[i] = evaluated[i]
  BY <1>1, <1>2 DEF DriftInv
<1>5. \A key : Stored(key) => Stored(key)'
  BY <1>1 DEF Stored
<1>6. \E x \in evaluations' : x.key = e.key
  <2>1. CASE run.insert
    <3>1. e \in evaluations'
      BY <1>1, <2>1
    <3> QED BY <3>1
  <2>2. CASE ~ run.insert
    <3>1. Stored(e.key) /\ evaluations' = evaluations
      BY <1>1, <1>2, <1>3, <2>2
    <3> QED BY <3>1 DEF Stored
  <2> QED BY <2>1, <2>2
<1>7. run.insert => ~ Stored(e.key)
  BY <1>1, <1>2 DEF UniqueWindow
<1>8. EvaluationAudited
  BY DEF DriftInv
<1> HIDE DEF e, n, run
<1>9. \A a, b \in evaluations' : a.key = b.key => a = b
  <2>1. CASE run.insert
    BY <1>1, <1>7, <1>8, <2>1 DEF EvaluationAudited, Stored
  <2>2. CASE ~ run.insert
    BY <1>1, <1>8, <2>2 DEF EvaluationAudited
  <2> QED BY <2>1, <2>2
<1>10. ASSUME NEW a \in evaluations'
       PROVE  \E i \in DOMAIN evaluated' :
                evaluated'[i] = a /\ \A j \in 1 .. i - 1 : evaluated'[j].key # a.key
  <2>1. CASE a \in evaluations
    <3>1. PICK i \in DOMAIN evaluated :
            evaluated[i] = a /\ \A j \in 1 .. i - 1 : evaluated[j].key # a.key
      BY <1>8, <2>1 DEF EvaluationAudited
    <3>2. i \in 1 .. n - 1 /\ \A j \in 1 .. i - 1 : j \in 1 .. n - 1
      BY <1>4, <3>1
    <3> QED BY <1>4, <3>1, <3>2
  <2>2. CASE a \notin evaluations
    <3>1. a = e /\ run.insert
      BY <1>1, <2>2
    <3>2. \A j \in 1 .. n - 1 : Stored(evaluated[j].key)
      BY <1>4, <1>8 DEF EvaluationAudited
    <3>3. \A j \in 1 .. n - 1 : evaluated'[j].key # a.key
      BY <1>4, <1>7, <3>1, <3>2
    <3> QED BY <1>4, <3>1, <3>3
  <2> QED BY <2>1, <2>2
<1>11. ASSUME NEW i \in DOMAIN evaluated' PROVE Stored(evaluated[i].key)'
  <2>1. CASE i = n
    BY <1>4, <1>6, <2>1 DEF Stored
  <2>2. CASE i # n
    <3>1. i \in 1 .. n - 1
      BY <1>4, <2>2
    <3>2. Stored(evaluated[i].key)
      BY <1>4, <1>8, <3>1 DEF EvaluationAudited
    <3> QED BY <1>4, <1>5, <3>1, <3>2
  <2> QED BY <2>1, <2>2
<1>12. EvaluationAudited'
  BY <1>9, <1>10, <1>11 DEF EvaluationAudited
<1>13. /\ driftRun'[r] = [step |-> "done"]
       /\ \A q \in DriftRuns \ {r} : driftRun'[q] = driftRun[q]
       /\ driftRun' = [q \in DriftRuns |-> driftRun'[q]]
  BY <1>1 DEF DriftInv
<1>14. ASSUME NEW q \in DriftRuns
       PROVE  /\ RunTyped(driftRun'[q])
              /\ driftRun'[q].step = "looked" =>
                   driftRun'[q].insert \/ Stored(Key(driftRun[q]))'
  <2>1. CASE q = r
    BY <1>13, <2>1 DEF RunTyped
  <2>2. CASE q # r
    <3>1. driftRun'[q] = driftRun[q]
      BY <1>13, <2>2
    <3>2. Stored(Key(driftRun[q])) => Stored(Key(driftRun[q]))'
      BY <1>5, <3>1 DEF Key
    <3> QED BY <3>1, <3>2 DEF DriftInv
  <2> QED BY <2>1, <2>2
<1> QED BY <1>1, <1>4, <1>12, <1>13, <1>14 DEF DriftInv, RunTyped

LEMMA DriftStep == DriftInv /\ [DriftNext]_driftVars => DriftInv'
<1> SUFFICES ASSUME DriftInv, [DriftNext]_driftVars PROVE DriftInv'
  OBVIOUS
<1>1. ASSUME NEW r \in DriftRuns, StartRun(r) PROVE DriftInv'
  <2> DEFINE run == [step |-> "model", version |-> active, ends |-> hour]
  <2>1. RunTyped(run) /\ run.step # "looked"
    BY DEF RunTyped, DriftInv
  <2>2. driftRun' = [driftRun EXCEPT ![r] = run]
        /\ UNCHANGED <<hour, active, evaluations, evaluated>>
    BY <1>1 DEF StartRun
  <2> HIDE DEF run
  <2> QED BY <2>1, <2>2, RunMoves
<1>2. ASSUME NEW r \in DriftRuns, SelectSamples(r) PROVE DriftInv'
  <2> DEFINE old == driftRun[r]
             rows == Sampled(old.version, old.ends)
             run == [step |-> "judged", version |-> old.version, ends |-> old.ends,
                     size |-> Cardinality(rows), status |-> DriftStatus(rows)]
  <2>1. rows \in SUBSET Predicted
    BY DEF Sampled
  <2>2. Cardinality(rows) \in SampleSizes /\ DriftStatus(rows) \in DriftStatuses
    <3> HIDE DEF rows
    <3> QED BY <2>1 DEF SampleSizes, DriftStatus, DriftStatuses
  <2>3. old.version \in Versions /\ old.ends \in Nat
    BY <1>2 DEF SelectSamples, DriftInv, RunTyped
  <2>4. driftRun' = [driftRun EXCEPT ![r] = run]
        /\ UNCHANGED <<hour, active, evaluations, evaluated>>
    BY <1>2 DEF SelectSamples
  <2> HIDE DEF rows, old
  <2>5. RunTyped(run) /\ run.step # "looked"
    BY <2>2, <2>3 DEF RunTyped
  <2> HIDE DEF run
  <2> QED BY <2>4, <2>5, RunMoves
<1>3. ASSUME NEW r \in DriftRuns, LookUp(r) PROVE DriftInv'
  <2> DEFINE old == driftRun[r]
             run == [step |-> "looked", version |-> old.version, ends |-> old.ends,
                     size |-> old.size, status |-> old.status,
                     insert |-> ~ Stored(Key(old))]
  <2>1. /\ old.version \in Versions /\ old.ends \in Nat
        /\ old.size \in SampleSizes /\ old.status \in DriftStatuses
    BY <1>3 DEF LookUp, DriftInv, RunTyped
  <2>2. driftRun' = [driftRun EXCEPT ![r] = run]
        /\ UNCHANGED <<hour, active, evaluations, evaluated>>
    BY <1>3 DEF LookUp
  <2> HIDE DEF old
  <2>3. RunTyped(run)
    BY <2>1 DEF RunTyped
  <2>4. Key(run) = Key(old)
    BY DEF Key
  <2>5. run.insert <=> ~ Stored(Key(old))
    OBVIOUS
  <2>6. run.insert \/ Stored(Key(run))
    BY <2>4, <2>5
  <2> HIDE DEF run
  <2> QED BY <2>2, <2>3, <2>6, RunMoves
<1>4. ASSUME NEW r \in DriftRuns, RunFails(r) PROVE DriftInv'
  <2> DEFINE run == [step |-> "done"]
  <2>1. RunTyped(run) /\ run.step # "looked"
    BY DEF RunTyped
  <2>2. driftRun' = [driftRun EXCEPT ![r] = run]
        /\ UNCHANGED <<hour, active, evaluations, evaluated>>
    BY <1>4 DEF RunFails
  <2> HIDE DEF run
  <2> QED BY <2>1, <2>2, RunMoves
<1>5. CASE \/ OutcomeSettled \/ Promote \/ NextHour \/ UNCHANGED driftVars
  <2>1. /\ hour' \in Nat /\ active' \in Versions
        /\ UNCHANGED <<evaluations, evaluated, driftRun>>
    BY <1>5 DEF OutcomeSettled, Promote, NextHour, driftVars, DriftInv
  <2>2. EvaluationAudited'
    BY <2>1 DEF DriftInv, EvaluationAudited, Stored
  <2>3. \A key : Stored(key)' <=> Stored(key)
    BY <2>1 DEF Stored
  <2> QED BY <2>1, <2>2, <2>3 DEF DriftInv, RunTyped, Key
<1> QED BY <1>1, <1>2, <1>3, <1>4, <1>5, CommitAudited DEF DriftNext

\* However many runs overlap, fail and repeat, the stored evaluation of an hour
\* is unique and the one its first audit event reports
\* (evaluate_forecasting_drift).
THEOREM EvaluationsAudited == DriftSpec => []EvaluationAudited
<1>1. DriftInit => DriftInv
  <2> SUFFICES ASSUME DriftInit PROVE DriftInv
    OBVIOUS
  <2>1. active \in Versions
    BY DriftAssumption DEF DriftSettingsValid, DriftInit
  <2>2. EvaluationAudited /\ evaluated \in Seq(Judgements)
    BY DEF DriftInit, EvaluationAudited
  <2> QED BY <2>1, <2>2 DEF DriftInit, DriftInv, RunTyped, NoRun
<1>2. DriftInv => EvaluationAudited
  BY DEF DriftInv
<1> QED BY <1>1, <1>2, DriftStep, PTL DEF DriftSpec

-----------------------------------------------------------------------------
(* Forecasts. *)

\* One band is kept for each moment that passed, and a moment at or after every
\* observation was predicted from the features as they are.
ForecastInv ==
  /\ forecastNow \in Nat /\ past \in Seq({"lower", "middle", "upper"})
  /\ Len(past) = forecastNow
  /\ feature \in [Features -> [value : Int, at : Int]]
  /\ NoHindsight

\* The score, the band and the reasons are functions of the contributions.
LEMMA SameContributions ==
  ASSUME \A f \in Features : Contribution(f)' = Contribution(f)
  PROVE  BoundedLogit' = BoundedLogit /\ Band' = Band /\ ReasonCodes' = ReasonCodes
<1>1. Contributions' = Contributions
  BY DEF Contributions
<1>2. BoundedLogit' = BoundedLogit
  BY <1>1 DEF BoundedLogit
<1>3. Band' = Band
  BY <1>2 DEF Band
<1>4. ReasonCodes' = ReasonCodes
  BY <1>1 DEF ReasonCodes
<1>5. QED BY <1>2, <1>3, <1>4

\* The band is one of the three, and the same for the same features.
LEMMA BandOfFeatures ==
  /\ Band \in {"lower", "middle", "upper"}
  /\ feature' = feature => Band' = Band
<1>1. Band \in {"lower", "middle", "upper"}
  BY DEF Band
<1>2. ASSUME feature' = feature PROVE Band' = Band
  <2>1. \A f \in Features : Contribution(f)' = Contribution(f)
    BY <1>2 DEF Contribution, Missing
  <2>2. QED BY <2>1, SameContributions
<1>3. QED BY <1>1, <1>2

\* An observation is a record of now, and of one feature.
LEMMA Observed ==
  ASSUME ForecastInv, Observe
  PROVE  \E f \in Features : \E v \in Int :
           feature' = [feature EXCEPT ![f] = [value |-> v, at |-> forecastNow]]
<1>1. PICK f \in Features : \E v \in Feature[f].minimum .. Feature[f].maximum :
        feature' = [feature EXCEPT ![f] = [value |-> v, at |-> forecastNow]]
  BY DEF Observe
<1>2. PICK v \in Feature[f].minimum .. Feature[f].maximum :
        feature' = [feature EXCEPT ![f] = [value |-> v, at |-> forecastNow]]
  BY <1>1
<1>3. Feature[f].minimum \in Int /\ Feature[f].maximum \in Int
  BY ForecastAssumption DEF ForecastModelValid
<1>4. v \in Int
  BY <1>3
<1>5. QED BY <1>2, <1>4

\* An observation makes every earlier prediction an error; the passing of time
\* keeps the band it ends with.
LEMMA ForecastStep ==
  ForecastInv /\ [PredictionNext \/ EvaluationNext]_forecastVars => ForecastInv'
<1> SUFFICES ASSUME ForecastInv, [PredictionNext \/ EvaluationNext]_forecastVars
             PROVE  ForecastInv'
  OBVIOUS
<1>1. CASE Observe
  <2>1. /\ forecastNow' = forecastNow /\ past' = past /\ forecastNow \in Nat
        /\ Len(past) = forecastNow /\ past \in Seq({"lower", "middle", "upper"})
        /\ feature \in [Features -> [value : Int, at : Int]]
    BY <1>1 DEF Observe, ForecastInv
  <2>2. PICK f \in Features, v \in Int :
          feature' = [feature EXCEPT ![f] = [value |-> v, at |-> forecastNow]]
    BY <1>1, Observed
  <2>3. feature' \in [Features -> [value : Int, at : Int]] /\ feature'[f].at = forecastNow
    BY <2>1, <2>2
  <2>4. \A t \in DOMAIN past' : ~ (feature'[f].at <= t - 1)
    BY <2>1, <2>3
  <2>5. NoHindsight'
    BY <2>4 DEF NoHindsight, Predictable
  <2>6. QED BY <2>1, <2>3, <2>5 DEF ForecastInv
<1>2. CASE ForecastTick
  <2>1. /\ forecastNow' = forecastNow + 1 /\ past' = Append(past, Band)
        /\ feature' = feature /\ forecastNow \in Nat
        /\ Len(past) = forecastNow /\ past \in Seq({"lower", "middle", "upper"})
    BY <1>2 DEF ForecastTick, ForecastInv
  <2>2. Band \in {"lower", "middle", "upper"} /\ Band' = Band
    BY <2>1, BandOfFeatures
  <2>3. /\ past' \in Seq({"lower", "middle", "upper"}) /\ Len(past') = Len(past) + 1
        /\ DOMAIN past' = DOMAIN past \cup {Len(past) + 1}
        /\ \A t \in DOMAIN past : past'[t] = past[t]
        /\ past'[Len(past) + 1] = Band
    BY <2>1, <2>2
  <2>4. NoHindsight'
    BY <2>1, <2>2, <2>3 DEF NoHindsight, Predictable, ForecastInv
  <2>5. QED BY <2>1, <2>3, <2>4 DEF ForecastInv
<1>3. CASE Label \/ UNCHANGED forecastVars
  <2>1. forecastNow' = forecastNow /\ past' = past /\ feature' = feature
    BY <1>3 DEF Label, forecastVars
  <2>2. Band' = Band
    BY <2>1, BandOfFeatures
  <2>3. QED BY <2>1, <2>2 DEF ForecastInv, NoHindsight, Predictable
<1>4. QED BY <1>1, <1>2, <1>3 DEF PredictionNext, EvaluationNext

\* Initially nothing is observed or predicted.
LEMMA ForecastStart == ForecastInit => ForecastInv
<1>1. <<>> \in Seq({"lower", "middle", "upper"}) /\ Len(<<>>) = 0 /\ DOMAIN <<>> = {}
  OBVIOUS
<1>2. QED BY <1>1 DEF ForecastInit, ForecastInv, NoHindsight, Unobserved

\* For every model and any order of observations, corrections and labels: the
\* prediction for an earlier feature timestamp is the one made then, or an
\* error (predict_conversion).
THEOREM ForecastsWithoutHindsight == ForecastSpec => []NoHindsight
<1>1. ForecastInv => NoHindsight
  BY DEF ForecastInv
<1>2. QED BY <1>1, ForecastStart, ForecastStep, PTL DEF ForecastSpec

\* For every model, a feature first observed at its fallback value changes
\* neither the score nor the band nor the reasons, and makes the prediction
\* more confident (predict_conversion).
THEOREM FallbacksAreNeutral == ForecastSpec => FallbackNeutral
<1>1. ForecastInv /\ [PredictionNext \/ EvaluationNext]_forecastVars
        => [FallbackStep]_forecastVars
  <2> SUFFICES ASSUME ForecastInv, [PredictionNext \/ EvaluationNext]_forecastVars,
                      NEW f \in Missing \ Missing',
                      feature'[f].value = Feature[f].fallback
               PROVE  /\ Band' = Band /\ ReasonCodes' = ReasonCodes
                      /\ BoundedLogit' = BoundedLogit
                      /\ Penalty > 0 => Confidence' > Confidence
    BY DEF FallbackStep
  <2>1. Observe
    BY DEF PredictionNext, EvaluationNext, Label, ForecastTick, forecastVars, Missing
  <2>2. PICK g \in Features, v \in Int :
          feature' = [feature EXCEPT ![g] = [value |-> v, at |-> forecastNow]]
    BY <2>1, Observed
  <2>3. feature \in [Features -> [value : Int, at : Int]]
    BY DEF ForecastInv
  <2>4. f = g /\ f \in Features /\ feature[f] = Unobserved /\ feature'[f] # Unobserved
    BY <2>2, <2>3 DEF Missing
  <2>5. \A h \in Features : h # f => feature'[h] = feature[h]
    BY <2>2, <2>3, <2>4
  <2>6. Missing' = Missing \ {f}
    BY <2>4, <2>5 DEF Missing
  <2>7. \A h \in Features : Contribution(h)' = Contribution(h)
    <3> SUFFICES ASSUME NEW h \in Features PROVE Contribution(h)' = Contribution(h)
      OBVIOUS
    <3>1. CASE h = f
      BY <2>4, <2>6, <3>1 DEF Contribution
    <3>2. CASE h # f
      BY <2>5, <2>6, <3>2 DEF Contribution
    <3>3. QED BY <3>1, <3>2
  <2>8. Penalty > 0 => Confidence' > Confidence
    <3>1. FeatureCount \in Nat /\ Penalty \in Nat
      BY ForecastAssumption DEF ForecastModelValid
    <3>2. IsFiniteSet(Missing)
      <4>1. IsFiniteSet(1 .. FeatureCount)
        BY <3>1, FS_Interval
      <4>2. Missing \subseteq 1 .. FeatureCount
        BY DEF Missing, Features
      <4>3. QED BY <4>1, <4>2, FS_Subset
    <3>3. Cardinality(Missing') = Cardinality(Missing) - 1 /\ Cardinality(Missing) \in Nat
      BY <2>6, <3>2, FS_RemoveElement, FS_CardinalityType
    <3>4. QED BY <3>1, <3>3 DEF Confidence
  <2>9. QED BY <2>7, <2>8, SameContributions
<1>2. QED BY <1>1, ForecastStart, ForecastStep, PTL DEF ForecastSpec, FallbackNeutral

\* The moments of the labelled predictions are numbers.
LabelledPredictions ==
  [probability : Probabilities, converted : BOOLEAN, predictedAt : Nat, labelledAt : Nat]
LabelInv == labelled \in Seq(LabelledPredictions)

\* For any labels, and cutoffs in order, time_aware_split puts each sample in
\* one part, and every training prediction is older than every tested one.
THEOREM SplitsPartition == ForecastSpec => []SplitPartitions
<1>1. ForecastInit => LabelInv
  BY DEF ForecastInit, LabelInv
<1>2. LabelInv /\ ForecastInv /\ [PredictionNext \/ EvaluationNext]_forecastVars
        => LabelInv'
  <2> SUFFICES ASSUME LabelInv, ForecastInv,
                      [PredictionNext \/ EvaluationNext]_forecastVars
               PROVE  LabelInv'
    OBVIOUS
  <2>1. CASE Label
    <3>1. PICK p \in Probabilities, c \in BOOLEAN, t \in 0 .. forecastNow :
            labelled' = Append(labelled, [probability |-> p, converted |-> c,
                                          predictedAt |-> t, labelledAt |-> forecastNow])
      BY <2>1 DEF Label
    <3>2. [probability |-> p, converted |-> c, predictedAt |-> t, labelledAt |-> forecastNow]
            \in LabelledPredictions
      BY DEF ForecastInv, LabelledPredictions
    <3>3. QED BY <3>1, <3>2 DEF LabelInv
  <2>2. CASE UNCHANGED labelled
    BY <2>2 DEF LabelInv
  <2>3. QED BY <2>1, <2>2
       DEF PredictionNext, EvaluationNext, Observe, ForecastTick, forecastVars
<1>3. LabelInv /\ ForecastInv => SplitPartitions
  <2> SUFFICES ASSUME LabelInv, ForecastInv, NEW t \in 0 .. forecastNow + 1,
                      NEW v \in 0 .. forecastNow + 1, t < v
               PROVE  /\ Split(t, v)[1] \cup Split(t, v)[2] \cup Split(t, v)[3]
                           = DOMAIN labelled
                      /\ \A m, n \in 1 .. 3 : m < n =>
                           \A i \in Split(t, v)[m], j \in Split(t, v)[n] :
                             labelled[i].predictedAt < labelled[j].predictedAt
    BY DEF SplitPartitions
  <2>1. \A i \in DOMAIN labelled : labelled[i].predictedAt \in Nat
    <3>1. \A i \in DOMAIN labelled : labelled[i] \in LabelledPredictions
      BY DEF LabelInv
    <3>2. QED BY <3>1 DEF LabelledPredictions
  <2>2. t \in Nat /\ v \in Nat
    BY DEF ForecastInv
  <2>3. Split(t, v)[1] \cup Split(t, v)[2] \cup Split(t, v)[3] = DOMAIN labelled
    BY <2>1, <2>2 DEF Split
  <2>4. ASSUME NEW m \in 1 .. 3, NEW n \in 1 .. 3, m < n,
               NEW i \in Split(t, v)[m], NEW j \in Split(t, v)[n]
        PROVE  labelled[i].predictedAt < labelled[j].predictedAt
    <3>1. \/ m = 1 /\ n = 2
          \/ m = 1 /\ n = 3
          \/ m = 2 /\ n = 3
      BY <2>4
    <3>2. QED BY <2>1, <2>2, <2>4, <3>1 DEF Split
  <2>5. QED BY <2>3, <2>4
<1>4. QED BY <1>1, <1>2, <1>3, ForecastStart, ForecastStep, PTL DEF ForecastSpec
=============================================================================
