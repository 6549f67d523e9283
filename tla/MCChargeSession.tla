--------------------------- MODULE MCChargeSession ---------------------------
(* Values for model checking ChargeSession.                                 *)
EXTENDS ChargeSession, TLC

Report(st, err) == [status |-> st, error |-> err]

(* Available with and without a warning, a fault, and a status that the     *)
(* enum ConnectorStatus does not have.                                      *)
BasicReports == {Report("Available", FALSE), Report("Faulted", TRUE)}
WarningReports == BasicReports \cup {Report("Available", TRUE)}
UnknownReports == BasicReports \cup {Report("Booting", FALSE)}

(* Slots are interchangeable, and so are connectors: no invariant and no    *)
(* handler singles one out.                                                 *)
Symmetry == Permutations(Slots) \cup Permutations(Connectors)
==============================================================================
