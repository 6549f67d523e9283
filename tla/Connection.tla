----------------------------- MODULE Connection ------------------------------
(***************************************************************************)
(* The WebSockets of one charging station: ocpp/server.ts, the registry of *)
(* ocpp/connectionManager.ts, forceDisconnect of ocpp/gateway.impl.ts, and *)
(* the three writers of the station's status, which the registry decides   *)
(* on but does not order: the close handler, BootNotification and          *)
(* StatusNotification for connector 0.                                     *)
(***************************************************************************)
EXTENDS Naturals, FiniteSets, SequencesExt

CONSTANTS
  Sockets,      \* the connections the station ever opens: bounds the model
  NoSocket,
  MaxMessages,  \* frames handled: bounds the model
  MaxFaults     \* socket errors, forced disconnects, failed writes and
                \* crashes: bounds the model

ASSUME SocketAssumption == NoSocket \notin Sockets
ASSUME MessagesAssumption == MaxMessages \in Nat
ASSUME FaultsAssumption == MaxFaults \in Nat

VARIABLES
  sock,         \* readyState of each WebSocket
  connections,  \* the registry's entry for the station
  handling,     \* the frame of each socket whose handler awaits the database
  offline,      \* sockets whose close handler awaits its transaction
  status,       \* charging_station.status
  outbox,       \* StationOnline and StationOffline events, in commit order
  messages,     \* history: frames received
  faults        \* history: faults

vars == <<sock, connections, handling, offline, status, outbox, messages, faults>>

ReadyStates == {"new", "open", "closing", "closed"}
Frames == {"BootNotification", "StatusAvailable", "StatusFaulted"}
Statuses == {"Offline", "CommunicationFault", "Online", "Faulted"}
Events == {"StationOnline", "StationOffline"}

TypeOK ==
  /\ sock \in [Sockets -> ReadyStates]
  /\ connections \in Sockets \cup {NoSocket}
  /\ handling \in [Sockets -> Frames \cup {"none"}]
  /\ offline \in SUBSET Sockets
  /\ status \in Statuses
  /\ outbox \in Seq(Events)
  /\ messages \in 0 .. MaxMessages
  /\ faults \in 0 .. MaxFaults

(* A provisioned station that was never connected.                         *)
Init ==
  /\ sock = [w \in Sockets |-> "new"]
  /\ connections = NoSocket
  /\ handling = [w \in Sockets |-> "none"]
  /\ offline = {}
  /\ status = "Offline"
  /\ outbox = <<>>
  /\ messages = 0
  /\ faults = 0

CostsFault == faults < MaxFaults /\ faults' = faults + 1

------------------------------------------------------------------------------
(* connectionManager                                                       *)

(* Faulty variant of Register, for mutation testing.                      *)
RegisterKeepingOld(w) ==
  /\ sock' = [sock EXCEPT ![w] = "open"]
  /\ connections' = w

(* register: the socket it replaces is closed gracefully, and terminated    *)
(* if it is not closed a second later.                                      *)
Register(w) ==
  /\ sock' = [v \in Sockets |->
                IF v = w THEN "open"
                ELSE IF v = connections /\ sock[v] = "open" THEN "closing"
                ELSE sock[v]]
  /\ connections' = w

(* Faulty variant of Stale, for mutation testing.                         *)
NeverStale(w) == FALSE

(* `connectionManager.get(stationId) !== ws`                                *)
Stale(w) == connections # w

------------------------------------------------------------------------------
(* server.ts                                                                *)

(* A handshake that passed verifyClient.                                    *)
Connect(w) ==
  /\ sock[w] = "new"
  /\ Register(w)
  /\ UNCHANGED <<handling, offline, status, outbox, messages, faults>>

(* Frames are handled as long as the socket delivers them, also those of a  *)
(* socket that was replaced.                                                *)
Receive(w, frame) ==
  /\ sock[w] \in {"open", "closing"}
  /\ handling[w] = "none"
  /\ messages < MaxMessages
  /\ messages' = messages + 1
  /\ handling' = [handling EXCEPT ![w] = frame]
  /\ UNCHANGED <<sock, connections, offline, status, outbox, faults>>

(* The station or the network starts closing.                               *)
Closing(w) ==
  /\ sock[w] = "open"
  /\ sock' = [sock EXCEPT ![w] = "closing"]
  /\ UNCHANGED <<connections, handling, offline, status, outbox, messages, faults>>

(* The event close: the handler of a replaced socket does nothing; else the *)
(* station is unregistered and the transaction that takes it offline        *)
(* started, not awaited.                                                    *)
OnClose(w) ==
  /\ sock[w] \in {"open", "closing"}
  /\ sock' = [sock EXCEPT ![w] = "closed"]
  /\ IF Stale(w)
     THEN UNCHANGED <<connections, offline>>
     ELSE connections' = NoSocket /\ offline' = offline \cup {w}
  /\ UNCHANGED <<handling, status, outbox, messages, faults>>

(* The event error unregisters the socket; close follows it.                *)
OnError(w) ==
  /\ sock[w] = "open"
  /\ CostsFault
  /\ sock' = [sock EXCEPT ![w] = "closing"]
  /\ connections' = IF connections = w THEN NoSocket ELSE connections
  /\ UNCHANGED <<handling, offline, status, outbox, messages>>

OfflineCommit(w) ==
  /\ w \in offline
  /\ offline' = offline \ {w}
  /\ status' = "CommunicationFault"
  /\ outbox' = Append(outbox, "StationOffline")
  /\ UNCHANGED <<sock, connections, handling, messages, faults>>

(* The transaction rejects: caught and logged.                              *)
OfflineFails(w) ==
  /\ w \in offline
  /\ CostsFault
  /\ offline' = offline \ {w}
  /\ UNCHANGED <<sock, connections, handling, status, outbox, messages>>

------------------------------------------------------------------------------
(* gateway.impl.ts: called when a charger was provisioned again.            *)
ForceDisconnect ==
  /\ connections # NoSocket
  /\ CostsFault
  /\ sock' = [sock EXCEPT ![connections] = "closing"]
  /\ connections' = NoSocket
  /\ UNCHANGED <<handling, offline, status, outbox, messages>>

------------------------------------------------------------------------------
(* Handlers that write the station row                                      *)

Handled(w) == handling' = [handling EXCEPT ![w] = "none"]

(* Faulty variant of Boot, for mutation testing.                          *)
BootEventOnly(w) ==
  /\ handling[w] = "BootNotification"
  /\ Handled(w)
  /\ outbox' = Append(outbox, "StationOnline")
  /\ UNCHANGED <<sock, connections, offline, status, messages, faults>>

Boot(w) ==
  /\ handling[w] = "BootNotification"
  /\ Handled(w)
  /\ status' = "Online"
  /\ outbox' = Append(outbox, "StationOnline")
  /\ UNCHANGED <<sock, connections, offline, messages, faults>>

(* Faulty variant of StationStatusOf, for mutation testing.               *)
RawStatus(frame) == frame

(* StatusNotification for connector 0: the row alone.                       *)
StationStatusOf(frame) == IF frame = "StatusFaulted" THEN "Faulted" ELSE "Online"

StationStatus(w) ==
  /\ handling[w] \in {"StatusAvailable", "StatusFaulted"}
  /\ Handled(w)
  /\ status' = StationStatusOf(handling[w])
  /\ UNCHANGED <<sock, connections, offline, outbox, messages, faults>>

HandlerFails(w) ==
  /\ handling[w] # "none"
  /\ CostsFault
  /\ Handled(w)
  /\ UNCHANGED <<sock, connections, offline, status, outbox, messages>>

------------------------------------------------------------------------------
(* The process dies and comes back: sockets, registry and everything        *)
(* awaited are gone, and nothing puts the row right.                        *)
Restart ==
  /\ CostsFault
  /\ sock' = [w \in Sockets |-> IF sock[w] = "new" THEN "new" ELSE "closed"]
  /\ connections' = NoSocket
  /\ handling' = [w \in Sockets |-> "none"]
  /\ offline' = {}
  /\ UNCHANGED <<status, outbox, messages>>

(* The bounds are reached and everything awaited has returned.              *)
Done ==
  /\ \A w \in Sockets : sock[w] = "closed" /\ handling[w] = "none"
  /\ offline = {}
  /\ UNCHANGED vars

Next ==
  \/ \E w \in Sockets :
       \/ Connect(w) \/ Closing(w) \/ OnClose(w) \/ OnError(w)
       \/ \E f \in Frames : Receive(w, f)
       \/ Boot(w) \/ StationStatus(w) \/ HandlerFails(w)
       \/ OfflineCommit(w) \/ OfflineFails(w)
  \/ ForceDisconnect
  \/ Restart
  \/ Done

(* A socket that is closing closes: on the peer's close frame, or by the    *)
(* terminate() a second after it was replaced; queries return.              *)
Fairness ==
  \A w \in Sockets :
    /\ WF_vars(sock[w] = "closing" /\ OnClose(w))
    /\ WF_vars(OfflineCommit(w) \/ OfflineFails(w))
    /\ WF_vars(Boot(w) \/ StationStatus(w) \/ HandlerFails(w))

SafeSpec == Init /\ [][Next]_vars
Spec == SafeSpec /\ Fairness

------------------------------------------------------------------------------
(* Properties                                                               *)

(* The registry never answers with a socket that is gone.                   *)
RegisteredIsNotClosed ==
  connections # NoSocket => sock[connections] \in {"open", "closing"}

(* Commands go to the socket the station opened last: the close of a socket *)
(* that was replaced never removes its successor's entry (server.ts:86-95). *)
OpenStaysRegistered ==
  [][\A w \in Sockets :
       connections = w /\ sock'[w] = "open" => connections' = w]_vars

(* A station shown as unreachable was announced as such: no later           *)
(* StationOnline contradicts the row.                                       *)
UnreachableIsAnnounced ==
  status = "CommunicationFault" =>
    outbox # <<>> /\ Last(outbox) = "StationOffline"

(* One station holds one socket: every other one is closed in the end.      *)
UnregisteredSocketsClose ==
  \A w \in Sockets :
    sock[w] \in {"open", "closing"} /\ connections # w ~> sock[w] = "closed"

(* outputs/2026-05-24_phase2d_wire_up_report.md:33: the end of a station's  *)
(* WebSocket is published as StationOffline.  (Here: of the only one it has *)
(* open, the process being alive.)                                          *)
CloseIsAnnounced ==
  [][\A w \in Sockets :
       /\ sock[w] \in {"open", "closing"} /\ sock'[w] = "closed"
       /\ \A v \in Sockets \ {w} : sock[v] \in {"new", "closed"}
       /\ faults' = faults
       => w \in offline']_vars
==============================================================================
