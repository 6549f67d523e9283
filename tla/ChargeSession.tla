---------------------------- MODULE ChargeSession ----------------------------
(***************************************************************************)
(* What one charging station's calls do to the Core's database: the OCPP   *)
(* handlers StartTransaction, StopTransaction, MeterValues,                *)
(* StatusNotification and BootNotification (packages/core/src/ocpp), the   *)
(* session-timeout job, and the outbox events their transactions write.    *)
(* ocpp/server.ts starts a handler for every frame without waiting for the *)
(* previous one, so a handler is a process in a slot and each of its       *)
(* awaits a step.                                                          *)
(***************************************************************************)
EXTENDS Naturals, FiniteSets, SequencesExt

CONSTANTS
  MaxTx,       \* rows of the table transaction ever created: bounds the model
  Connectors,  \* the station's connectors (connectorId > 0)
  Reports,     \* what a StatusNotification.req says: a status, and whether
               \* its errorCode is other than NoError
  Slots,       \* handlers that may be in flight together: bounds the model
  MaxCalls,    \* calls the charger makes: bounds the model
  MaxFaults,   \* lost answers, failed queries and crashes: bounds the model
  Station,     \* connector 0, the station as a whole
  NoSlot

ASSUME TxAssumption == MaxTx \in Nat
ASSUME StationAssumption == Station \notin Connectors
ASSUME ReportsAssumption ==
  Reports \subseteq [status : STRING, error : BOOLEAN]
ASSUME SlotAssumption == NoSlot \notin Slots /\ IsFiniteSet(Slots)
ASSUME CallsAssumption == MaxCalls \in Nat
ASSUME FaultsAssumption == MaxFaults \in Nat

TxIds == 1 .. MaxTx
NoTx  == 0

VARIABLES
  (* table transaction: the id of the next row, and of each row its status, *)
  (* connector, whether ocppTransactionId is set, whether costVnd is set,   *)
  (* and failReason                                                         *)
  nextTx, status, conn, linked, billed, failReason,
  (* table connector: currentStatus, and whether errorCode is set; table    *)
  (* charging_station: status                                               *)
  shown, errorCode, station,
  (* the events committed to the outbox, in order                           *)
  outbox,
  (* the handlers in flight                                                 *)
  call,
  (* external, the charger: the handler whose answer it waits for, and the  *)
  (* transaction it believes it runs on each connector                      *)
  awaiting, running,
  (* history: calls and faults so far                                       *)
  sent, faults

sessions == <<nextTx, status, conn, linked, billed, failReason>>
devices  == <<shown, errorCode, station>>
charger  == <<awaiting, running>>
history  == <<sent, faults>>
vars     == <<sessions, devices, outbox, call, charger, history>>

TxStatuses  == {"none", "Pending", "Active", "Stopped", "Failed"}
FailReasons == {"null", "BootNotification:Reset",
                "StatusNotification:Available", "session_timeout"}
ConnectorStatuses ==
  {"Available", "Preparing", "Charging", "SuspendedEVSE", "SuspendedEV",
   "Finishing", "Reserved", "Unavailable", "Faulted"}

(* Events that concern a transaction carry its id, those that concern a    *)
(* connector the connector.                                                *)
TxEventTypes ==
  {"TransactionStarted", "TransactionStopped", "MeterValueUpdate"}
ConnectorEventTypes ==
  {"ConnectorStatusChanged", "FaultRaised", "FaultCleared"}
TxEvents == [type : TxEventTypes, tx : TxIds]
ConnectorEvents == [type : ConnectorEventTypes, connector : Connectors]
StationEvents == [type : {"StationOnline"}]
Events == TxEvents \cup ConnectorEvents \cup StationEvents

TxEvent(type, t) == [type |-> type, tx |-> t]
ConnectorEvent(type, c) == [type |-> type, connector |-> c]

(* Calls.  StartTransaction carries as idTag either the sessionId of a      *)
(* pending transaction or the tag of a card (NoTx); StopTransaction the     *)
(* transactionId it was answered, or one the Core never issued (NoTx).      *)
Messages ==
  [action : {"StartTransaction", "StopTransaction"},
   connector : Connectors, tx : TxIds \cup {NoTx}]
  \cup [action : {"MeterValues"}, connector : Connectors]
  \cup [action : {"StatusNotification"},
        connector : Connectors \cup {Station}, report : Reports]
  \cup [action : {"BootNotification"}]

(* A handler in flight: the await it is at, the call it answers, and what   *)
(* its read returned.                                                       *)
Points == {"read", "create", "activate", "occupy", "commit", "free",
           "report", "stuck", "sweep", "reset"}
Idle == [at |-> "idle"]
Handlers ==
  [at : Points, msg : Messages, found : SUBSET TxIds, wasInFault : BOOLEAN]

SessionsType ==
  /\ nextTx \in 1 .. MaxTx + 1
  /\ status \in [TxIds -> TxStatuses]
  /\ conn \in [TxIds -> Connectors \cup {Station}]
  /\ linked \in [TxIds -> BOOLEAN]
  /\ billed \in [TxIds -> BOOLEAN]
  /\ failReason \in [TxIds -> FailReasons]

DevicesType ==
  /\ shown \in [Connectors -> ConnectorStatuses \cup {"absent"}]
  /\ errorCode \in [Connectors -> BOOLEAN]
  /\ station \in {"Online", "Faulted"}

OutboxType == outbox \in Seq(Events)

HandlersType ==
  /\ call \in [Slots -> Handlers \cup {Idle}]
  /\ awaiting \in Slots \cup {NoSlot}
  /\ running \in [Connectors -> TxIds \cup {NoTx}]

HistoryType == sent \in 0 .. MaxCalls /\ faults \in 0 .. MaxFaults

TypeOK ==
  SessionsType /\ DevicesType /\ OutboxType /\ HandlersType /\ HistoryType

Init ==
  /\ nextTx = 1
  /\ status = [t \in TxIds |-> "none"]
  /\ conn = [t \in TxIds |-> Station]
  /\ linked = [t \in TxIds |-> FALSE]
  /\ billed = [t \in TxIds |-> FALSE]
  /\ failReason = [t \in TxIds |-> "null"]
  /\ shown = [c \in Connectors |-> "absent"]
  /\ errorCode = [c \in Connectors |-> FALSE]
  /\ station = "Online"
  /\ outbox = <<>>
  /\ call = [s \in Slots |-> Idle]
  /\ awaiting = NoSlot
  /\ running = [c \in Connectors |-> NoTx]
  /\ sent = 0
  /\ faults = 0

------------------------------------------------------------------------------
(* The Portal and the timer                                                *)

CardStarts ==
  {s \in Slots : /\ call[s] # Idle
                 /\ call[s].msg.action = "StartTransaction"
                 /\ call[s].msg.tx = NoTx}

(* Rows still free once every card start in flight has its own.            *)
RoomForTx == nextTx + Cardinality(CardStarts) <= MaxTx

NewTx(c, st) ==
  /\ nextTx' = nextTx + 1
  /\ status' = [status EXCEPT ![nextTx] = st]
  /\ conn' = [conn EXCEPT ![nextTx] = c]

(* The Portal inserts the session before it asks for RemoteStartTransaction. *)
CreatePending(c) ==
  /\ RoomForTx
  /\ NewTx(c, "Pending")
  /\ UNCHANGED <<linked, billed, failReason, devices, outbox, call, charger,
                 history>>

Waiting == {t \in TxIds : status[t] = "Pending"}

(* Faulty variant of Stuck, for mutation testing.                         *)
StuckPending == {t \in TxIds : status[t] = "Pending"}

Stuck == {t \in TxIds : status[t] \in {"Pending", "Active"}}

End(T, st, reason) ==
  /\ status' = [t \in TxIds |-> IF t \in T THEN st ELSE status[t]]
  /\ failReason' = [t \in TxIds |-> IF t \in T THEN reason ELSE failReason[t]]

(* sessionTimeoutProcessor: one UPDATE over the pending rows older than     *)
(* five minutes; ids are in order of age.                                   *)
SessionTimeout ==
  \E newest \in Waiting :
    /\ End({t \in Waiting : t <= newest}, "Failed", "session_timeout")
    /\ UNCHANGED <<nextTx, conn, linked, billed, devices, outbox, call,
                   charger, history>>

------------------------------------------------------------------------------
(* The charger (external) makes one call at a time; it makes the next when  *)
(* it is answered or has given up on the answer.                            *)

(* The await a handler reaches first.                                       *)
Entry(m) ==
  IF \/ m.action = "BootNotification"
     \/ m.action = "StatusNotification" /\ m.connector = Station
  THEN "commit" ELSE "read"

Begin(s, m) ==
  /\ awaiting = NoSlot
  /\ call[s] = Idle
  /\ sent < MaxCalls
  /\ sent' = sent + 1
  /\ awaiting' = s
  /\ call' = [call EXCEPT ![s] = [at |-> Entry(m), msg |-> m, found |-> {},
                                  wasInFault |-> FALSE]]
  /\ UNCHANGED <<sessions, devices, outbox, faults>>

SendStart(s, c, t) ==
  /\ running[c] = NoTx
  /\ IF t = NoTx THEN RoomForTx ELSE conn[t] = c
  /\ Begin(s, [action |-> "StartTransaction", connector |-> c, tx |-> t])
  /\ UNCHANGED running

SendStop(s, c) ==
  /\ Begin(s, [action |-> "StopTransaction", connector |-> c, tx |-> running[c]])
  /\ UNCHANGED running

SendMeterValues(s, c) ==
  /\ running[c] # NoTx
  /\ Begin(s, [action |-> "MeterValues", connector |-> c])
  /\ UNCHANGED running

SendStatus(s, c, r) ==
  /\ r.status = "Available" /\ c # Station => running[c] = NoTx
  /\ Begin(s, [action |-> "StatusNotification", connector |-> c, report |-> r])
  /\ UNCHANGED running

(* After a reboot the charger remembers its transactions, to stop them, or  *)
(* has forgotten them.                                                      *)
SendBoot(s) ==
  /\ Begin(s, [action |-> "BootNotification"])
  /\ running' \in {running, [c \in Connectors |-> NoTx]}

CostsFault == faults < MaxFaults /\ faults' = faults + 1

(* The answer is lost, or later than the charger's timeout, or the socket   *)
(* was replaced: the handler goes on, the charger does not wait for it.     *)
GiveUp ==
  /\ awaiting # NoSlot
  /\ CostsFault
  /\ awaiting' = NoSlot
  /\ UNCHANGED <<sessions, devices, outbox, call, running, sent>>

------------------------------------------------------------------------------
(* Handlers                                                                 *)

At(s, action, point) ==
  /\ call[s] # Idle
  /\ call[s].msg.action = action
  /\ call[s].at = point

Goto(s, point) ==
  /\ call' = [call EXCEPT ![s].at = point]
  /\ UNCHANGED charger

GotoWith(s, point, T) ==
  /\ call' = [call EXCEPT ![s].at = point, ![s].found = T]
  /\ UNCHANGED charger

(* The handler returns; the charger, if it still waits, believes from now   *)
(* on that it runs transaction t on connector c.                            *)
Return(s) ==
  /\ call' = [call EXCEPT ![s] = Idle]
  /\ awaiting' = IF awaiting = s THEN NoSlot ELSE awaiting

Answer(s, c, t) ==
  /\ Return(s)
  /\ running' = IF awaiting = s THEN [running EXCEPT ![c] = t] ELSE running

Publish(events) == outbox' = outbox \o events

------------------------------------------------------------------------------
(* StartTransaction                                                         *)

(* Faulty variant of Startable, for mutation testing.                     *)
StartableEver(t) == t # NoTx

(* findFirst: the pending transaction the idTag names.                      *)
Startable(t) == t # NoTx /\ status[t] = "Pending"

StartRead(s) ==
  /\ At(s, "StartTransaction", "read")
  /\ LET t == call[s].msg.tx IN
       IF Startable(t)
       THEN GotoWith(s, "activate", {t})
       ELSE Goto(s, "create")
  /\ UNCHANGED <<sessions, devices, outbox, history>>

(* A card: the row is created Active, with its event, and answered; the     *)
(* connector row is left alone.                                             *)
StartCreate(s) ==
  /\ At(s, "StartTransaction", "create")
  /\ call[s].msg.tx = NoTx
  /\ NewTx(call[s].msg.connector, "Active")
  /\ linked' = [linked EXCEPT ![nextTx] = TRUE]
  /\ Publish(<<TxEvent("TransactionStarted", nextTx)>>)
  /\ Answer(s, call[s].msg.connector, nextTx)
  /\ UNCHANGED <<billed, failReason, devices, history>>

(* A sessionId that is no longer pending is not the idTag of any id_token:  *)
(* the foreign key of the insert fails and so does the call.                *)
StartUnknownTag(s) ==
  /\ At(s, "StartTransaction", "create")
  /\ call[s].msg.tx # NoTx
  /\ Return(s)
  /\ UNCHANGED <<sessions, devices, outbox, running, history>>

(* Faulty variant of StartActivate, for mutation testing.                 *)
StartActivateUnlinked(s) ==
  /\ At(s, "StartTransaction", "activate")
  /\ \E t \in call[s].found :
       /\ status' = [status EXCEPT ![t] = "Active"]
       /\ Publish(<<TxEvent("TransactionStarted", t)>>)
  /\ Goto(s, "occupy")
  /\ UNCHANGED <<nextTx, conn, linked, billed, failReason, devices, history>>

(* The update names the row by id; its status is not looked at again.       *)
StartActivate(s) ==
  /\ At(s, "StartTransaction", "activate")
  /\ \E t \in call[s].found :
       /\ status' = [status EXCEPT ![t] = "Active"]
       /\ linked' = [linked EXCEPT ![t] = TRUE]
       /\ Publish(<<TxEvent("TransactionStarted", t)>>)
  /\ Goto(s, "occupy")
  /\ UNCHANGED <<nextTx, conn, billed, failReason, devices, history>>

StartOccupy(s) ==
  /\ At(s, "StartTransaction", "occupy")
  /\ shown' = [shown EXCEPT ![call[s].msg.connector] = "Charging"]
  /\ Answer(s, call[s].msg.connector, call[s].msg.tx)
  /\ UNCHANGED <<sessions, errorCode, station, outbox, history>>

------------------------------------------------------------------------------
(* StopTransaction                                                          *)

(* findFirst by ocppTransactionId, whatever the row's status.               *)
StopRead(s) ==
  /\ At(s, "StopTransaction", "read")
  /\ LET m == call[s].msg IN
       IF m.tx # NoTx /\ linked[m.tx]
       THEN GotoWith(s, "commit", {m.tx})
       ELSE Answer(s, m.connector, NoTx)
  /\ UNCHANGED <<sessions, devices, outbox, history>>

StopCommit(s) ==
  /\ At(s, "StopTransaction", "commit")
  /\ \E t \in call[s].found :
       /\ status' = [status EXCEPT ![t] = "Stopped"]
       /\ billed' = [billed EXCEPT ![t] = TRUE]
       /\ failReason' = [failReason EXCEPT ![t] = "null"]
       /\ Publish(<<TxEvent("TransactionStopped", t)>>)
  /\ Goto(s, "free")
  /\ UNCHANGED <<nextTx, conn, linked, devices, history>>

(* updateMany: no effect when the connector has no row.                     *)
StopFree(s) ==
  /\ At(s, "StopTransaction", "free")
  /\ shown' = [c \in Connectors |->
                 IF (\E t \in call[s].found : conn[t] = c) /\ shown[c] # "absent"
                 THEN "Available" ELSE shown[c]]
  /\ Answer(s, call[s].msg.connector, NoTx)
  /\ UNCHANGED <<sessions, errorCode, station, outbox, history>>

------------------------------------------------------------------------------
(* MeterValues                                                              *)

(* Faulty variant of ActiveOn, for mutation testing.                      *)
OpenOn(c) == {t \in TxIds : status[t] \in {"Pending", "Active"} /\ conn[t] = c}

(* Faulty variant of ActiveOn, for mutation testing.                      *)
LinkedOn(c) == {t \in TxIds : linked[t] /\ conn[t] = c}

(* findFirst without an order: any active transaction of the connector.     *)
ActiveOn(c) == {t \in TxIds : status[t] = "Active" /\ conn[t] = c}

MeterRead(s) ==
  /\ At(s, "MeterValues", "read")
  /\ IF ActiveOn(call[s].msg.connector) = {}
     THEN Return(s) /\ UNCHANGED running
     ELSE \E t \in ActiveOn(call[s].msg.connector) : GotoWith(s, "report", {t})
  /\ UNCHANGED <<sessions, devices, outbox, history>>

MeterReport(s) ==
  /\ At(s, "MeterValues", "report")
  /\ \E t \in call[s].found : Publish(<<TxEvent("MeterValueUpdate", t)>>)
  /\ Return(s)
  /\ UNCHANGED <<sessions, devices, running, history>>

------------------------------------------------------------------------------
(* StatusNotification                                                       *)

(* Faulty variant of ConnectorStatus, for mutation testing.               *)
RawStatus(st) == st

(* An OCPP status the enum does not have is stored as Unavailable.          *)
ConnectorStatus(st) == IF st \in ConnectorStatuses THEN st ELSE "Unavailable"

StatusStation(s) ==
  /\ At(s, "StatusNotification", "commit")
  /\ call[s].msg.connector = Station
  /\ station' = IF call[s].msg.report.status = "Faulted" THEN "Faulted" ELSE "Online"
  /\ Return(s)
  /\ UNCHANGED <<sessions, shown, errorCode, outbox, running, history>>

StatusRead(s) ==
  /\ At(s, "StatusNotification", "read")
  /\ call' = [call EXCEPT ![s].at = "commit",
                          ![s].wasInFault = errorCode[call[s].msg.connector]]
  /\ UNCHANGED <<sessions, devices, outbox, charger, history>>

(* Faulty variant of FaultEvents, for mutation testing.                   *)
FaultEventsOnFaulted(m, wasInFault) ==
  IF m.report.status = "Faulted" THEN <<ConnectorEvent("FaultRaised", m.connector)>>
  ELSE IF wasInFault THEN <<ConnectorEvent("FaultCleared", m.connector)>>
  ELSE <<>>

FaultEvents(m, wasInFault) ==
  IF m.report.error THEN <<ConnectorEvent("FaultRaised", m.connector)>>
  ELSE IF wasInFault THEN <<ConnectorEvent("FaultCleared", m.connector)>>
  ELSE <<>>

StatusCommit(s) ==
  LET m == call[s].msg IN
  /\ At(s, "StatusNotification", "commit")
  /\ m.connector # Station
  /\ shown' = [shown EXCEPT ![m.connector] = ConnectorStatus(m.report.status)]
  /\ errorCode' = [errorCode EXCEPT ![m.connector] = m.report.error]
  /\ Publish(<<ConnectorEvent("ConnectorStatusChanged", m.connector)>>
             \o FaultEvents(m, call[s].wasInFault))
  /\ IF m.report.status = "Available"
     THEN Goto(s, "stuck")
     ELSE Return(s) /\ UNCHANGED running
  /\ UNCHANGED <<sessions, station, history>>

StatusFindStuck(s) ==
  LET T == {t \in Stuck : conn[t] = call[s].msg.connector} IN
  /\ At(s, "StatusNotification", "stuck")
  /\ IF T = {} THEN Return(s) /\ UNCHANGED running ELSE GotoWith(s, "sweep", T)
  /\ UNCHANGED <<sessions, devices, outbox, history>>

(* The update names the rows by id; no event is written.                    *)
StatusSweep(s) ==
  /\ At(s, "StatusNotification", "sweep")
  /\ End(call[s].found, "Stopped", "StatusNotification:Available")
  /\ Return(s)
  /\ UNCHANGED <<nextTx, conn, linked, billed, devices, outbox, running, history>>

------------------------------------------------------------------------------
(* BootNotification                                                         *)

BootOnline(s) ==
  /\ At(s, "BootNotification", "commit")
  /\ station' = "Online"
  /\ Publish(<<[type |-> "StationOnline"]>>)
  /\ Goto(s, "reset")
  /\ UNCHANGED <<sessions, shown, errorCode, history>>

BootReset(s) ==
  /\ At(s, "BootNotification", "reset")
  /\ End(Stuck, "Stopped", "BootNotification:Reset")
  /\ Return(s)
  /\ UNCHANGED <<nextTx, conn, linked, billed, devices, outbox, running, history>>

------------------------------------------------------------------------------
(* Failures                                                                 *)

(* An await rejects.  Most rejections end the handler with a CallError;     *)
(* those of the last awaits of a handler are caught and logged, and two of  *)
(* these answer the call as if nothing had happened.                        *)
CallFails(s) ==
  /\ call[s] # Idle
  /\ call[s].at \notin {"occupy", "free"}
  /\ CostsFault
  /\ Return(s)
  /\ UNCHANGED <<sessions, devices, outbox, running, sent>>

SideEffectFails(s) ==
  /\ CostsFault
  /\ \/ /\ At(s, "StartTransaction", "occupy")
        /\ Answer(s, call[s].msg.connector, call[s].msg.tx)
     \/ /\ At(s, "StopTransaction", "free")
        /\ Answer(s, call[s].msg.connector, NoTx)
  /\ UNCHANGED <<sessions, devices, outbox, sent>>

(* The Core dies between two awaits; the charger reconnects.                *)
Crash ==
  /\ \E s \in Slots : call[s] # Idle
  /\ CostsFault
  /\ call' = [s \in Slots |-> Idle]
  /\ awaiting' = NoSlot
  /\ UNCHANGED <<sessions, devices, outbox, running, sent>>

(* The bound on calls is reached and all of them have returned.             *)
Done ==
  /\ sent = MaxCalls
  /\ \A s \in Slots : call[s] = Idle
  /\ UNCHANGED vars

------------------------------------------------------------------------------
Send(s) ==
  \/ \E c \in Connectors :
       \/ \E t \in TxIds \cup {NoTx} : SendStart(s, c, t)
       \/ SendStop(s, c)
       \/ SendMeterValues(s, c)
  \/ \E c \in Connectors \cup {Station}, r \in Reports : SendStatus(s, c, r)
  \/ SendBoot(s)

Handle(s) ==
  \/ StartRead(s) \/ StartCreate(s) \/ StartUnknownTag(s)
  \/ StartActivate(s) \/ StartOccupy(s)
  \/ StopRead(s) \/ StopCommit(s) \/ StopFree(s)
  \/ MeterRead(s) \/ MeterReport(s)
  \/ StatusStation(s) \/ StatusRead(s) \/ StatusCommit(s)
  \/ StatusFindStuck(s) \/ StatusSweep(s)
  \/ BootOnline(s) \/ BootReset(s)

Next ==
  \/ \E c \in Connectors : CreatePending(c)
  \/ SessionTimeout
  \/ \E s \in Slots : Send(s) \/ Handle(s) \/ CallFails(s) \/ SideEffectFails(s)
  \/ GiveUp \/ Crash
  \/ Done

Spec == Init /\ [][Next]_vars

------------------------------------------------------------------------------
(* Properties                                                               *)

Published(e) == e \in ToSet(outbox)
Times(e) == Cardinality({i \in DOMAIN outbox : outbox[i] = e})

(* Rows and events never disagree about which sessions started and which    *)
(* were billed, whatever fails: each handler changes the row and writes the *)
(* event in one database transaction.                                       *)
OutboxAgreesWithRows ==
  \A t \in TxIds :
    /\ linked[t] <=> Published(TxEvent("TransactionStarted", t))
    /\ billed[t] <=> Published(TxEvent("TransactionStopped", t))
    /\ status[t] = "Active" => linked[t]
    /\ linked[t] => status[t] \notin {"none", "Pending"}

(* The Portal builds its projection of a session when it is told of its     *)
(* start: no event about a session precedes its TransactionStarted, in      *)
(* whatever order handlers interleave.                                      *)
StartComesFirst ==
  \A i \in DOMAIN outbox, t \in TxIds :
    outbox[i] \in {TxEvent("TransactionStopped", t),
                   TxEvent("MeterValueUpdate", t)}
      => \E j \in 1 .. i - 1 : outbox[j] = TxEvent("TransactionStarted", t)

(* A session starts once and is billed once, plus once for every answer the *)
(* charger did not get and every failure.                                   *)
OnceUnlessRetried ==
  \A t \in TxIds :
    /\ Times(TxEvent("TransactionStarted", t)) <= 1 + faults
    /\ Times(TxEvent("TransactionStopped", t)) <= 1 + faults

(* Without faults the Core and the charger agree between two calls: an      *)
(* active row is the transaction the charger runs on its connector, so      *)
(* there is at most one.  Reboots and stuck rows are cleaned up for this.   *)
ActiveIsRunning ==
  faults = 0 /\ awaiting = NoSlot =>
    \A t \in TxIds : status[t] = "Active" => running[conn[t]] = t

(* Without faults a billed session is final: no start, reboot, status       *)
(* report or timeout touches its row again.                                 *)
BilledIsFinal ==
  faults = 0 =>
    \A t \in TxIds : billed[t] => status[t] = "Stopped" /\ failReason[t] = "null"

(* A FaultRaised of connector c that no FaultCleared follows.               *)
FaultTold(c) ==
  \E i \in DOMAIN outbox :
    /\ outbox[i] = ConnectorEvent("FaultRaised", c)
    /\ \A j \in DOMAIN outbox :
         outbox[j] = ConnectorEvent("FaultCleared", c) => j < i

(* Without faults the Portal can tell from the fault events alone which     *)
(* connectors have an error.                                                *)
FaultEventsTellErrors ==
  faults = 0 => \A c \in Connectors : errorCode[c] <=> FaultTold(c)

(* Without faults no consumption is reported for a session after its bill.  *)
NoMeterAfterBill ==
  faults = 0 =>
    \A i, j \in DOMAIN outbox, t \in TxIds :
      /\ outbox[i] = TxEvent("TransactionStopped", t)
      /\ outbox[j] = TxEvent("MeterValueUpdate", t)
      => j < i

(* The state machine of documents/design_guide/09_charge_session_flow.md    *)
(* (lines 79-101): nothing leaves Failed.                                   *)
FailedIsFinal ==
  [][\A t \in TxIds : status[t] = "Failed" => status'[t] = "Failed"]_vars
==============================================================================
