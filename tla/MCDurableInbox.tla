---------------------------- MODULE MCDurableInbox ----------------------------
(* Two workers and two events that share an idempotency key. *)
EXTENDS DurableInbox

CONSTANTS e1, e2, w1, w2

MCKey == [e \in Events |-> 1]
=============================================================================
