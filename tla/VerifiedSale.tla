----------------------------- MODULE VerifiedSale -----------------------------
(***************************************************************************)
(* What the payment component promises (ADR-005): an order is sold at most *)
(* once, only for a payment of that order which the provider has settled   *)
(* for exactly the ordered terms, and in the very step in which the sale   *)
(* becomes durable the website activation is queued.                       *)
(***************************************************************************)
CONSTANTS Payments,     \* provider payments
          Requests,     \* payment requests, each with at most one order
          OrderOf,      \* the request whose order a payment is for
          BadPayments,  \* payments on other terms than the order's
          NoPayment     \* an order that is not sold

VARIABLES settled,      \* payments the provider reports as successful
          sale,         \* sale[r]: the payment that bought r's order
          activation    \* requests whose website activation is queued

vars == <<settled, sale, activation>>

Init ==
  /\ settled = {}
  /\ sale = [r \in Requests |-> NoPayment]
  /\ activation = {}

\* The provider settles a payment.
Settle(p) ==
  /\ settled' = settled \cup {p}
  /\ UNCHANGED <<sale, activation>>

\* The order is sold for p, and its activation is queued.
Sell(p) ==
  /\ p \in settled \ BadPayments
  /\ sale[OrderOf[p]] = NoPayment
  /\ sale' = [sale EXCEPT ![OrderOf[p]] = p]
  /\ activation' = activation \cup {OrderOf[p]}
  /\ UNCHANGED settled

Next == \E p \in Payments : Settle(p) \/ Sell(p)

Spec == Init /\ [][Next]_vars
=============================================================================
