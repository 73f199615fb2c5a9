---------------------------- MODULE DiscountOffers ----------------------------
(***************************************************************************)
(* discount_suggestions/domain/policy.py and the money of demo_core: the   *)
(* discounts decided for one learner and plan, and the offers they become. *)
(* A caller (it is not in the repository) reads a DiscountContext, asks for *)
(* the decision and stores the offer; two of them may do so at once, so a  *)
(* context may be out of date when it is used.                             *)
(***************************************************************************)
EXTENDS Integers, FiniteSets, FiniteSetsExt

CONSTANTS Desks,                \* callers
          Prices,               \* list and minimum prices, in minor units
          AbsoluteMaximum,      \* absolute_maximum_basis_points
          ApprovalTiers,        \* sequence of maximum and level, ascending
          CouponStacking,       \* allow_coupon_stacking
          OfferTtl, OfferCooldown,
          MaximumActiveOffers,
          Reusable,             \* offers_are_reusable
          MaxOfferTime, MaxOffers, MaxRedemptions   \* bounds

FullScale == 10000

\* The values DiscountPolicy accepts, and those of the model's bounds.
DiscountPolicyValid ==
  /\ Prices \subseteq Nat
  /\ AbsoluteMaximum \in 0 .. FullScale
  /\ \A i, j \in DOMAIN ApprovalTiers :
       i < j => ApprovalTiers[i].maximum < ApprovalTiers[j].maximum
  /\ {OfferTtl, MaximumActiveOffers} \subseteq Nat \ {0}
  /\ {OfferCooldown, MaxOfferTime, MaxOffers, MaxRedemptions} \subseteq Nat
  /\ {Reusable, CouponStacking} \subseteq BOOLEAN

ASSUME OfferAssumption == DiscountPolicyValid

VARIABLES
  offerNow,
  terms,   \* list price and minimum_permitted_price of the plan
  read,    \* the offers a desk knew when it read its context
  offers   \* OfferBindings stored, with their redemption_count

offerVars == <<offerNow, terms, read, offers>>

OfferInit ==
  /\ offerNow = 0
  /\ terms = [list |-> 0, minimum |-> 0]
  /\ read = [d \in Desks |-> {}]
  /\ offers = {}

-----------------------------------------------------------------------------
(* Prices. *)

\* Mutation: the discount is relative to the minimum price.
FloorMaximumOfMinimum(list, minimum) ==
  IF list = 0 THEN 0 ELSE ((list - minimum) * FullScale) \div minimum

\* _price_floor_maximum_discount.
FloorMaximum(list, minimum) ==
  IF list = 0 THEN 0 ELSE ((list - minimum) * FullScale) \div list

\* Money.discounted_by_basis_points: rounded up.
Discounted(list, points) == (list * (FullScale - points) + FullScale - 1) \div FullScale

\* The largest discount decide_discount approves.
MaximumDiscount(list, minimum) == Min({FloorMaximum(list, minimum), AbsoluteMaximum})

-----------------------------------------------------------------------------
(* Offers. *)

\* validate_offer_redemption for the offer's own demo, learner and plan.
Redeemable(o) == offerNow < o.expires /\ (o.redeemed = 0 \/ Reusable)

\* Mutation: one offer too many.
WithinLimitsLoose(known) ==
  /\ Cardinality({o \in known : Redeemable(o)}) <= MaximumActiveOffers
  /\ \A o \in known : offerNow >= o.created + OfferCooldown

\* The reasons of decide_discount that concern other offers: their number and
\* the cooldown, counted from those of the context.
WithinLimits(known) ==
  /\ Cardinality({o \in known : Redeemable(o)}) < MaximumActiveOffers
  /\ \A o \in known : offerNow >= o.created + OfferCooldown

\* The level of the first tier that covers the discount.
Approval(points) ==
  LET covering == {i \in DOMAIN ApprovalTiers : points <= ApprovalTiers[i].maximum} IN
  IF covering = {} THEN "rejected" ELSE ApprovalTiers[Min(covering)].level

\* The caller reads the offers of the learner.
ReadContext(d) ==
  /\ read' = [read EXCEPT ![d] = offers]
  /\ UNCHANGED <<offerNow, terms, offers>>

\* decide_discount finds no reason against the discount, and bind_offer makes
\* the offer; stale marks one decided on old facts.  A refusal changes nothing.
Decide(d, points, learner) ==
  /\ Cardinality(offers) < MaxOffers
  /\ WithinLimits(read[d])
  /\ points \in 0 .. MaximumDiscount(terms.list, terms.minimum)
  /\ learner.eligible /\ (learner.coupon => CouponStacking)
  /\ Approval(points) # "rejected"
  /\ offers' = offers \cup
       {[price |-> Discounted(terms.list, points), minimum |-> terms.minimum,
         list |-> terms.list, created |-> offerNow, expires |-> offerNow + OfferTtl,
         redeemed |-> 0, stale |-> read[d] # offers, desk |-> d]}
  /\ UNCHANGED <<offerNow, terms, read>>

\* A redemption that validate_offer_redemption accepts is counted.
Redeem(o) ==
  /\ o \in offers /\ Redeemable(o) /\ o.redeemed < MaxRedemptions
  /\ offers' = (offers \ {o}) \cup {[o EXCEPT !.redeemed = @ + 1]}
  /\ UNCHANGED <<offerNow, terms, read>>

\* The plan gets other prices; a minimum above the list price is an error.
Reprice ==
  /\ \E l, m \in Prices : m <= l /\ terms' = [list |-> l, minimum |-> m]
  /\ UNCHANGED <<offerNow, read, offers>>

OfferTick ==
  /\ offerNow < MaxOfferTime
  /\ offerNow' = offerNow + 1
  /\ UNCHANGED <<terms, read, offers>>

OfferNext ==
  \/ \E d \in Desks :
       \/ ReadContext(d)
       \/ \E points \in {0, MaximumDiscount(terms.list, terms.minimum)},
             learner \in [eligible : BOOLEAN, coupon : BOOLEAN] :
            Decide(d, points, learner)
  \/ \E o \in offers : Redeem(o)
  \/ Reprice
  \/ OfferTick

OfferSpec == OfferInit /\ [][OfferNext]_offerVars

-----------------------------------------------------------------------------
\* No offer is below the minimum or above the list price of its plan: the two
\* roundings never combine to cross the floor, so the RuntimeError that guards
\* decide_discount is unreachable, at a list price of zero too.
PriceFloorKept ==
  \A o \in offers : o.minimum <= o.price /\ o.price <= o.list

\* The limit of active offers is exceeded and the cooldown cut short only by
\* decisions on a context that another decision had overtaken.
OffersExplained ==
  /\ Cardinality({o \in offers : Redeemable(o) /\ ~ o.stale}) <= MaximumActiveOffers
  /\ \A a, b \in offers :
       a # b /\ ~ b.stale /\ a.created <= b.created
       => \/ b.created >= a.created + OfferCooldown
          \/ a.created = b.created /\ a.stale

\* What decide_discount promises to callers that race: the price floor always,
\* the limits as long as the context was not overtaken.
OfferContract == PriceFloorKept /\ OffersExplained
=============================================================================
