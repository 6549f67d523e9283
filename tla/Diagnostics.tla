----------------------------- MODULE Diagnostics -----------------------------
(***************************************************************************)
(* Diagnostics of chargers: sendGetDiagnostics                             *)
(* (ocpp/commands/getDiagnostics.command.ts), which keeps a request in     *)
(* diagnostics_request beside its row in ocpp_command_result, and the      *)
(* reports on the upload, each of which goes to the newest open request of *)
(* its charger (ocpp/handlers/diagnosticsStatusNotification.handler.ts).   *)
(***************************************************************************)
EXTENDS Naturals, Sequences

CONSTANTS
  Stations,
  Requests,   \* messageIds of the calls ever sent: bounds the model
  Target,     \* the charger of each
  Slots,      \* reports handled at the same time: bounds the model
  NoStation,  \* an idle slot
  NoRequest,  \* a report that has found no open request
  Payloads,   \* what chargers report: bounds the model
  MaxFaults   \* crashes and failed queries: bounds the model

VARIABLES
  requested,  \* diagnostics_request, by requestedAt
  status,     \* its status
  completed,  \* its completedAt is set
  result,     \* ocpp_command_result.status of the same messageId
  pc,         \* the await each invocation of sendGetDiagnostics is at
  settled,    \* what the promise of waitFor was settled with
  diagnosticsStatus,  \* of the chargers, in charging_station
  report,     \* the handlers of DiagnosticsStatusNotification in flight
  overtaken,  \* history: requests closed while a report had them in hand
  faults      \* history: faults so far

command == <<pc, settled>>
tables  == <<requested, status, completed, result>>
vars    == <<tables, command, diagnosticsStatus, report, overtaken, faults>>

Statuses == {"Idle", "Uploading", "Uploaded", "UploadFailed"}
Final    == {"Uploaded", "UploadFailed"}
Results  == {"completed", "error", "timeout"}
Points   == {"new", "wait", "record", "close", "returned", "dead"}
InMemory == {"wait", "record", "close"}

Reports == [station : Stations, at : {"station", "find", "update"},
            status : Statuses, open : Requests \cup {NoRequest}]
Idle    == [station |-> NoStation]

TableType ==
  /\ requested \in Seq(Requests)
  /\ status \in [Requests -> Statuses]
  /\ completed \in [Requests -> BOOLEAN]
  /\ result \in [Requests -> Results \cup {"absent", "pending"}]
  /\ diagnosticsStatus \in [Stations -> Statuses]

TypeOK ==
  /\ TableType
  /\ pc \in [Requests -> Points]
  /\ settled \in [Requests -> Results \cup {"none"}]
  /\ report \in [Slots -> Reports \cup {Idle}]
  /\ \A h \in Slots :
       report[h] # Idle /\ report[h].at = "update" => report[h].open \in Requests
  /\ overtaken \in SUBSET Requests
  /\ faults \in 0 .. MaxFaults

Init ==
  /\ requested = <<>>
  /\ status = [r \in Requests |-> "Idle"]
  /\ completed = [r \in Requests |-> FALSE]
  /\ result = [r \in Requests |-> "absent"]
  /\ diagnosticsStatus = [s \in Stations |-> "Idle"]
  /\ pc = [r \in Requests |-> "new"]
  /\ settled = [r \in Requests |-> "none"]
  /\ report = [h \in Slots |-> Idle]
  /\ overtaken = {}
  /\ faults = 0

CostsFault  == faults < MaxFaults /\ faults' = faults + 1
Goto(r, p)  == pc' = [pc EXCEPT ![r] = p]
Complete(r) == completed' = [completed EXCEPT ![r] = TRUE]
SetResult(r, s) == result' = [result EXCEPT ![r] = s]

------------------------------------------------------------------------------
(* sendGetDiagnostics                                                       *)

(* The charger is connected.  One transaction inserts the result and the    *)
(* request; then the call is sent, which the charger may never get.         *)
Begin(r) ==
  /\ pc[r] = "new"
  /\ requested' = Append(requested, r)
  /\ SetResult(r, "pending")
  /\ Goto(r, "wait")
  /\ UNCHANGED <<status, completed, settled, diagnosticsStatus, report, faults>>

(* Logged; the call is sent without rows.                                   *)
BeginWithoutRows(r) ==
  /\ pc[r] = "new"
  /\ CostsFault
  /\ Goto(r, "wait")
  /\ UNCHANGED <<tables, settled, diagnosticsStatus, report>>

(* The charger answers, or the timer of the call fires first.  An error is  *)
(* a timeout when its text has the word, whoever wrote it.                  *)
Settle(r, s) ==
  /\ pc[r] = "wait"
  /\ settled' = [settled EXCEPT ![r] = s]
  /\ Goto(r, "record")
  /\ UNCHANGED <<tables, diagnosticsStatus, report, faults>>

(* One transaction: the result, and fileName of the request.                *)
RecordAnswer(r) ==
  /\ pc[r] = "record"
  /\ settled[r] = "completed"
  /\ result[r] # "absent"
  /\ SetResult(r, "completed")
  /\ Goto(r, "returned")
  /\ UNCHANGED <<requested, status, completed, settled, diagnosticsStatus, report, faults>>

(* Logged.  Without rows it must reject.                                    *)
RecordAnswerFails(r) ==
  /\ pc[r] = "record"
  /\ settled[r] = "completed"
  /\ IF result[r] = "absent" THEN UNCHANGED faults ELSE CostsFault
  /\ Goto(r, "returned")
  /\ UNCHANGED <<tables, settled, diagnosticsStatus, report>>

(* Faulty variant of RecordFailure, for mutation testing.                   *)
RecordResultOnly(r) ==
  /\ pc[r] = "record"
  /\ settled[r] # "completed"
  /\ result[r] # "absent"
  /\ SetResult(r, settled[r])
  /\ Goto(r, "returned")
  /\ UNCHANGED <<requested, status, completed, settled, diagnosticsStatus, report, faults>>

RecordFailure(r) ==
  /\ pc[r] = "record"
  /\ settled[r] # "completed"
  /\ result[r] # "absent"
  /\ SetResult(r, settled[r])
  /\ Goto(r, "close")
  /\ UNCHANGED <<requested, status, completed, settled, diagnosticsStatus, report, faults>>

(* Swallowed.                                                               *)
RecordFailureFails(r) ==
  /\ pc[r] = "record"
  /\ settled[r] # "completed"
  /\ IF result[r] = "absent" THEN UNCHANGED faults ELSE CostsFault
  /\ Goto(r, "close")
  /\ UNCHANGED <<tables, settled, diagnosticsStatus, report>>

(* A statement of its own, whatever has become of the request meanwhile.    *)
CloseRequest(r) ==
  /\ pc[r] = "close"
  /\ result[r] # "absent"
  /\ Complete(r)
  /\ Goto(r, "returned")
  /\ UNCHANGED <<requested, status, result, settled, diagnosticsStatus, report, faults>>

(* Swallowed.                                                               *)
CloseRequestFails(r) ==
  /\ pc[r] = "close"
  /\ IF result[r] = "absent" THEN UNCHANGED faults ELSE CostsFault
  /\ Goto(r, "returned")
  /\ UNCHANGED <<tables, settled, diagnosticsStatus, report>>

(* The janitors of ocpp_command_result: they know nothing of the request.   *)
StalePending ==
  {r \in Requests : result[r] = "pending" /\ pc[r] \in {"record", "close", "returned", "dead"}}

Sweep ==
  /\ StalePending # {}
  /\ result' = [r \in Requests |-> IF r \in StalePending THEN "timeout" ELSE result[r]]
  /\ UNCHANGED <<requested, status, completed, command, diagnosticsStatus, report, faults>>

------------------------------------------------------------------------------
(* diagnosticsStatusNotificationHandler                                     *)

Normalized(payload) == IF payload \in Statuses THEN payload ELSE "Idle"
HandlerAt(h, at)    == report[h] # Idle /\ report[h].at = at
Finish(h)           == report' = [report EXCEPT ![h] = Idle]

Receive(h, s, payload) ==
  /\ report[h] = Idle
  /\ report' = [report EXCEPT ![h] = [station |-> s, at |-> "station",
                                      status |-> Normalized(payload), open |-> NoRequest]]
  /\ UNCHANGED <<tables, command, diagnosticsStatus, faults>>

(* Idle is about no request.                                                *)
AfterStation(h) ==
  IF report[h].status = "Idle" THEN Finish(h) ELSE report' = [report EXCEPT ![h].at = "find"]

UpdateStation(h) ==
  /\ HandlerAt(h, "station")
  /\ diagnosticsStatus' = [diagnosticsStatus EXCEPT ![report[h].station] = report[h].status]
  /\ AfterStation(h)
  /\ UNCHANGED <<tables, command, faults>>

(* Logged.                                                                  *)
UpdateStationFails(h) ==
  /\ HandlerAt(h, "station")
  /\ CostsFault
  /\ AfterStation(h)
  /\ UNCHANGED <<tables, command, diagnosticsStatus>>

(* Faulty variant of OpenRequests, for mutation testing.                    *)
RequestsOf(s) == {i \in DOMAIN requested : Target[requested[i]] = s}

(* Places of the open requests of a charger.                                *)
OpenRequests(s) ==
  {i \in DOMAIN requested : Target[requested[i]] = s /\ ~completed[requested[i]]}

(* The one requested last.                                                  *)
FindOpen(h) ==
  LET open == OpenRequests(report[h].station) IN
  /\ HandlerAt(h, "find")
  /\ \/ open = {} /\ Finish(h)
     \/ \E i \in open :
          /\ \A j \in open : j <= i
          /\ report' = [report EXCEPT ![h].at = "update", ![h].open = requested[i]]
  /\ UNCHANGED <<tables, command, diagnosticsStatus, faults>>

(* By id: the request found open, which may be closed by now.               *)
UpdateRequest(h) ==
  /\ HandlerAt(h, "update")
  /\ status' = [status EXCEPT ![report[h].open] = report[h].status]
  /\ completed' = [completed EXCEPT ![report[h].open] = report[h].status \in Final]
  /\ Finish(h)
  /\ UNCHANGED <<requested, result, command, diagnosticsStatus, faults>>

(* Both are swallowed.                                                      *)
QueryFails(h) ==
  /\ HandlerAt(h, "find") \/ HandlerAt(h, "update")
  /\ CostsFault
  /\ Finish(h)
  /\ UNCHANGED <<tables, command, diagnosticsStatus>>

------------------------------------------------------------------------------
Crash ==
  /\ CostsFault
  /\ pc' = [r \in Requests |-> IF pc[r] \in InMemory THEN "dead" ELSE pc[r]]
  /\ report' = [h \in Slots |-> Idle]
  /\ UNCHANGED <<tables, settled, diagnosticsStatus>>

Sender(r) ==
  \/ Begin(r) \/ BeginWithoutRows(r)
  \/ \E s \in Results : Settle(r, s)
  \/ RecordAnswer(r) \/ RecordAnswerFails(r)
  \/ RecordFailure(r) \/ RecordFailureFails(r)
  \/ CloseRequest(r) \/ CloseRequestFails(r)

Handler(h) ==
  \/ \E s \in Stations, p \in Payloads : Receive(h, s, p)
  \/ UpdateStation(h) \/ UpdateStationFails(h)
  \/ FindOpen(h) \/ UpdateRequest(h) \/ QueryFails(h)

Step == (\E r \in Requests : Sender(r)) \/ (\E h \in Slots : Handler(h)) \/ Sweep \/ Crash

InHand(r) == \E h \in Slots : report[h] # Idle /\ report[h].open = r

Next ==
  /\ Step
  /\ overtaken' = overtaken
       \cup {r \in Requests : ~completed[r] /\ completed'[r] /\ InHand(r)'}

Spec == Init /\ [][Next]_vars

------------------------------------------------------------------------------
(* Properties                                                               *)

(* A request that ended stays as it ended, though reports are attributed    *)
(* to whatever is open and may come late or twice: only a report that had   *)
(* found the request while it was open can reopen it or cover its end.      *)
StepKeepsEnds ==
  \A r \in Requests :
    completed[r] /\ r \notin overtaken => completed'[r] /\ status'[r] = status[r]

EndIsKept == [][StepKeepsEnds]_vars

(* A call that failed is recorded in both tables, although no transaction   *)
(* spans them: its request is closed unless a report in hand reopened it,   *)
(* and a request closed without a report is one whose call failed.          *)
FailureIsOnBothTables ==
  faults = 0 =>
    \A r \in Requests :
      /\ pc[r] = "returned" /\ settled[r] # "completed" => completed[r] \/ r \in overtaken
      /\ completed[r] /\ status[r] = "Idle" => result[r] \in {"error", "timeout"}
==============================================================================
