--------------------------- MODULE MCProvisioning ----------------------------
(* Values for model checking Provisioning.                                  *)
EXTENDS Provisioning, TLC

Symmetry ==
  Permutations(Serials) \cup Permutations(Calls) \cup Permutations(Sockets)
==============================================================================
