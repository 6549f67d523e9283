------------------------------- MODULE MCRecords -------------------------------
(* Values for model checking Records.                                       *)
EXTENDS Records, TLC

CONSTANTS c1, c2, c3, c4, cp1

AllOfOne == [r \in Requests |-> cp1]
Symmetry == Permutations(Requests) \cup Permutations(Slots)

(* Calls are interchangeable: they begin in this order.                     *)
InOrder ==
  \A i, j \in 1 .. 4 :
    i < j /\ call[<<c1, c2, c3, c4>>[i]] = New => call[<<c1, c2, c3, c4>>[j]] = New
==============================================================================
