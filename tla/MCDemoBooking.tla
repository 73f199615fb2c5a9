---------------------------- MODULE MCDemoBooking ----------------------------
(* The two halves of a booking side by side: the conversation that ends with   *)
(* the choice of a tutor, and the scheduling of demos with one tutor.  They    *)
(* share no state, so a behaviour is a behaviour of one of them.               *)
EXTENDS MCDemoConversation, DemoScheduling

CONSTANTS d1, d2

VARIABLE half

bookingVars == <<half, vars, schedulingVars>>

BookingInit == half \in {"conversation", "scheduling"} /\ Init /\ SchedulingInit

BookingNext ==
  /\ half' = half
  /\ \/ half = "conversation" /\ Next /\ UNCHANGED schedulingVars
     \/ half = "scheduling" /\ SchedulingNext /\ UNCHANGED vars

BookingSpec == BookingInit /\ [][BookingNext]_bookingVars

-----------------------------------------------------------------------------
(* Starts of which two overlap, two touch, two keep apart.  *)

MCStarts == {2, 4, 5}
MCAvailability == {<<2, 7>>}

\* Neither workers, tutors nor demos are told apart.  Only one half moves, so
\* workers and demos are exchanged together.
Exchange == (w1 :> w2) @@ (w2 :> w1) @@ (d1 :> d2) @@ (d2 :> d1)
BookingSymmetry == Permutations(Tutors) \cup {Exchange}
=============================================================================
