--------------------------- MODULE MCOnboardingSaga ---------------------------
(* One paid order, with repeated answers of the onboarding agent. *)
EXTENDS OnboardingSaga

CONSTANTS a1, a2, c1, c2
=============================================================================
