------------------------------- MODULE Records -------------------------------
(* FirmwareStore, Diagnostics and IdTokens: the smaller records the Core    *)
(* keeps.  They share no state, so that interleaving them shows nothing     *)
(* that each does not show alone: a behaviour of OneSpec is one of a single *)
(* part, the others at rest.                                                *)
EXTENDS FirmwareStore

CONSTANTS
  Stations, Requests, Target, Slots, NoStation, NoRequest, Payloads,
  Tags, Sessions, Removals, NoTag

VARIABLES
  part,
  requested, diagStatus, completed, result, pc, settled,
  diagnosticsStatus, report, overtaken, diagFaults,
  tokens, status, idTag, removal, found, card, late

Diag   == INSTANCE Diagnostics WITH status <- diagStatus, faults <- diagFaults
Tokens == INSTANCE IdTokens

diagVars  == <<requested, diagStatus, completed, result, pc, settled,
               diagnosticsStatus, report, overtaken, diagFaults>>
tokenVars == <<tokens, status, idTag, removal, found, card, late>>

OneInit ==
  /\ part \in {"store", "diagnostics", "tokens"}
  /\ Init /\ Diag!Init /\ Tokens!Init

OneNext ==
  /\ UNCHANGED part
  /\ \/ part = "store" /\ Next /\ UNCHANGED <<diagVars, tokenVars>>
     \/ part = "diagnostics" /\ Diag!Next /\ UNCHANGED <<vars, tokenVars>>
     \/ part = "tokens" /\ Tokens!Next /\ UNCHANGED <<vars, diagVars>>

OneSpec == OneInit /\ [][OneNext]_<<part, vars, diagVars, tokenVars>>

(* All three keep their types.                                              *)
AllTypesOK == TypeOK /\ Diag!TypeOK /\ Tokens!TypeOK

(* The properties of Diagnostics and IdTokens, under their names: a request *)
(* that ended stays so, a failed one has failed in both tables, and an open *)
(* session keeps its card.                                                  *)
EndIsKept                 == [][Diag!StepKeepsEnds]_diagVars
FailureIsOnBothTables     == Diag!FailureIsOnBothTables
OpenSessionsKeepTheirCard == Tokens!OpenSessionsKeepTheirCard
==============================================================================
