---------------------------- MODULE MCOutboxRelay ----------------------------
(* TLC instances of OutboxRelay. *)
EXTENDS OutboxRelay

CONSTANTS r1, r2
=============================================================================
