---- MODULE MCOutboxRelay ----
(* Values for model checking OutboxRelay.                                 *)
EXTENDS OutboxRelay
==============================
