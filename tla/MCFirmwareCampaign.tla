-------------------------- MODULE MCFirmwareCampaign --------------------------
(* Values for model checking FirmwareCampaign.                              *)
EXTENDS FirmwareCampaign, TLC

CONSTANTS k1, cp1

(* k1 is for every charger, another campaign for all but cp1.               *)
Overlapping == [c \in Campaigns |-> IF c = k1 THEN Stations ELSE Stations \ {cp1}]

(* Faults are explored while one campaign has been started.                 *)
FaultsInOneCampaign ==
  faults = 0 \/ \E c \in Campaigns : \A d \in Campaigns \ {c} : campaign[d] = "absent"

Symmetry == Permutations(Slots)
==============================================================================
