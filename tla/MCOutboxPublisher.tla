-------------------------- MODULE MCOutboxPublisher --------------------------
(* Two workers and two rows, the second of a target that may be blocked. *)
EXTENDS OutboxPublisher

CONSTANTS r1, r2, p1, p2
=============================================================================
