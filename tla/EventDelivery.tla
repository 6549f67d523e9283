---------------------------- MODULE EventDelivery ----------------------------
(***************************************************************************)
(* What the Core promises the Portal about domain events, and nothing of   *)
(* how: an event written with its business transaction is handed to the    *)
(* event stream or, failing that, to the dead-letter stream, and only then *)
(* forgotten.  The outbox relay forgets an event in one more way, which    *)
(* the promise has to name: Drop, when even the dead-letter append failed. *)
(***************************************************************************)

CONSTANT Events

VARIABLES
  written,       \* committed together with the business change
  delivered,     \* on the stream at least once
  deadLettered,  \* on the dead-letter stream at least once
  dropped,       \* given up without a trace on the dead-letter stream
  retired        \* never looked at again

vars == <<written, delivered, deadLettered, dropped, retired>>

Init ==
  /\ written = {}
  /\ delivered = {}
  /\ deadLettered = {}
  /\ dropped = {}
  /\ retired = {}

Write(e) ==
  /\ e \notin written
  /\ written' = written \cup {e}
  /\ UNCHANGED <<delivered, deadLettered, dropped, retired>>

Deliver(e) ==
  /\ e \in written \ retired
  /\ delivered' = delivered \cup {e}
  /\ UNCHANGED <<written, deadLettered, dropped, retired>>

DeadLetter(e) ==
  /\ e \in written \ retired
  /\ deadLettered' = deadLettered \cup {e}
  /\ UNCHANGED <<written, delivered, dropped, retired>>

Drop(e) ==
  /\ e \in written \ (retired \cup deadLettered)
  /\ dropped' = dropped \cup {e}
  /\ UNCHANGED <<written, delivered, deadLettered, retired>>

Settled == delivered \cup deadLettered \cup dropped

Retire(e) ==
  /\ e \in (written \cap Settled) \ retired
  /\ retired' = retired \cup {e}
  /\ UNCHANGED <<written, delivered, deadLettered, dropped>>

Settle(e) == e \notin Settled /\ (Deliver(e) \/ DeadLetter(e) \/ Drop(e))

Next ==
  \E e \in Events :
    Write(e) \/ Deliver(e) \/ DeadLetter(e) \/ Drop(e) \/ Retire(e)

SafeSpec == Init /\ [][Next]_vars

Spec ==
  /\ SafeSpec
  /\ \A e \in Events : WF_vars(Settle(e)) /\ WF_vars(Retire(e))
==============================================================================
