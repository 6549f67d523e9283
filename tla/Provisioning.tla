---------------------------- MODULE Provisioning -----------------------------
(***************************************************************************)
(* Chargers are registered, provisioned, rejected, revoked and deleted:    *)
(* services/provision.service.ts and services/station.service.ts with the  *)
(* controllers and routes that call them, the tables charger_provisioning, *)
(* charging_station and station_id_sequence, the check of a charger's      *)
(* password (shared/utils/auth.ts), and forceDisconnect.  How a socket     *)
(* that is replaced or terminated closes is the module Connection.         *)
(***************************************************************************)
EXTENDS Naturals, FiniteSets

CONSTANTS
  Serials,     \* serial numbers
  NoSerial,
  ClientIds,   \* station ids that people choose, as numbers ("EN" + n)
  Calls,       \* requests in flight together: bounds the model
  MaxCalls,    \* requests ever made: bounds the model
  Sockets,     \* connections ever opened: bounds the model
  MaxFaults    \* failed queries and crashes: bounds the model

ASSUME SerialAssumption == NoSerial \notin Serials
ASSUME CallsAssumption == MaxCalls \in Nat
ASSUME ClientAssumption == ClientIds \subseteq Nat \ {0}
ASSUME FaultsAssumption == MaxFaults \in Nat

VARIABLES
  record,      \* charger_provisioning, by id
  stations,    \* the ids of the rows of charging_station
  password,    \* charging_station.passwordHash; 0 is null
  lastNumber,  \* station_id_sequence.lastNumber
  busy,        \* stations with a row in transaction
  call,        \* the requests in flight
  sock,        \* WebSockets: handshakes, and the registered ones
  given,       \* history: station and password of every reply
  forgotten,   \* history: passwords whose reply a crash prevented
  tolerated,   \* history: sockets that no disconnection was meant to end
  calls,       \* history: requests made
  faults       \* history: failed queries and crashes

tables == <<record, stations, password, lastNumber, busy>>
history == <<given, forgotten, calls, faults>>
vars == <<tables, call, sock, tolerated, history>>

(* The n-th request creates the record n or the password n, if it creates   *)
(* one: ids are autoincremented and passwords random, and neither repeats.  *)
RecordIds == 1 .. MaxCalls
Passwords == 0 .. MaxCalls
StationIds == 1 .. MaxCalls \cup ClientIds

Absent ==
  [serial |-> NoSerial, client |-> 0, station |-> 0, status |-> "absent"]
Barred == {"rejected", "revoked"}
Records ==
  [serial : Serials, client : ClientIds \cup {0},
   station : StationIds \cup {0},
   status : {"registered", "provisioned"} \cup Barred]

Idle == [at |-> "idle"]
Operations ==
  {"provision", "register", "rename", "reject", "revoke", "delete",
   "deleteStation", "create", "reset"}
Awaits ==
  {"find", "number", "station", "touch", "again", "unlink", "sessions",
   "commit", "reply"}
Requests ==
  [op : Operations, at : Awaits, n : RecordIds, id : RecordIds \cup {0},
   serial : Serials \cup {NoSerial}, station : StationIds \cup {0},
   read : Records \cup {Absent}]

SocketStates ==
  [at : {"new", "compare", "open", "closed"}, station : StationIds \cup {0},
   sent : Passwords, seen : Passwords]

(* The keys of schema.prisma: serialNumber, clientId and stationId are      *)
(* unique, stationId references charging_station.                          *)
Keys ==
  /\ \A i, j \in RecordIds :
       i # j =>
         /\ record[i] = Absent \/ record[i].serial # record[j].serial
         /\ record[i].client = 0 \/ record[i].client # record[j].client
         /\ record[i].station = 0 \/ record[i].station # record[j].station
  /\ \A i \in RecordIds : record[i].station \in stations \cup {0}
  /\ \A s \in StationIds \ stations : password[s] = 0

TablesType ==
  /\ record \in [RecordIds -> Records \cup {Absent}]
  /\ stations \in SUBSET StationIds
  /\ password \in [StationIds -> Passwords]
  /\ lastNumber \in 0 .. MaxCalls
  /\ busy \in SUBSET StationIds
CallsType == call \in [Calls -> Requests \cup {Idle}]
SocketsType ==
  /\ sock \in [Sockets -> SocketStates]
  /\ tolerated \in SUBSET Sockets
HistoryType ==
  /\ given \in SUBSET (StationIds \X Passwords)
  /\ forgotten \in SUBSET Passwords
  /\ calls \in 0 .. MaxCalls
  /\ faults \in 0 .. MaxFaults

TypeOK == TablesType /\ CallsType /\ SocketsType /\ HistoryType /\ Keys

NewSocket == [at |-> "new", station |-> 0, sent |-> 0, seen |-> 0]

Init ==
  /\ record = [i \in RecordIds |-> Absent]
  /\ stations = {}
  /\ password = [s \in StationIds |-> 0]
  /\ lastNumber = 0
  /\ busy = {}
  /\ call = [c \in Calls |-> Idle]
  /\ sock = [k \in Sockets |-> NewSocket]
  /\ given = {}
  /\ forgotten = {}
  /\ tolerated = {}
  /\ calls = 0
  /\ faults = 0

CostsFault == faults < MaxFaults /\ faults' = faults + 1

Exists(i) == record[i].status # "absent"
WithSerial(sn) == {i \in RecordIds : Exists(i) /\ record[i].serial = sn}
LinkedTo(s) == {i \in RecordIds : Exists(i) /\ record[i].station = s}
Awaiting(c, op, at) == call[c] # Idle /\ call[c].op = op /\ call[c].at = at
Goto(c, at) == call' = [call EXCEPT ![c].at = at]

(* The request is answered, by what it asked for or by an error.            *)
Return(c) == call' = [call EXCEPT ![c] = Idle]
GotoIf(ok, c, at) == IF ok THEN Goto(c, at) ELSE Return(c)

(* Faulty variant of UpdateRow, for mutation testing: an upsert.          *)
UpsertRow(i, r) == record' = [record EXCEPT ![i] = r]

(* Row i becomes the record r, unless somebody deleted it: the update of a  *)
(* row that is gone rejects.                                                *)
UpdateRow(i, r) == record' = [record EXCEPT ![i] = IF Exists(i) THEN r ELSE @]

------------------------------------------------------------------------------
(* Requests                                                                 *)

FirstAwait(op) == IF op \in {"create", "reset"} THEN "station" ELSE "find"

Request(c, op, i, sn, s) ==
  /\ call[c] = Idle
  /\ calls < MaxCalls
  /\ calls' = calls + 1
  /\ call' = [call EXCEPT ![c] =
                [op |-> op, at |-> FirstAwait(op), n |-> calls + 1, id |-> i,
                 serial |-> sn, station |-> s, read |-> Absent]]
  /\ UNCHANGED <<tables, sock, tolerated, given, forgotten, faults>>

(* POST /auths, by a charger.                                               *)
RequestProvision(c) == \E sn \in Serials : Request(c, "provision", 0, sn, 0)

(* A row of the CSV upload, or POST /provisioning, with or without an id.   *)
RequestRegister(c) ==
  \E sn \in Serials, s \in ClientIds \cup {0} : Request(c, "register", 0, sn, s)

(* What people do to a record they were shown.                              *)
RequestOnRecord(c) ==
  \E i \in {j \in RecordIds : Exists(j)} :
    \/ \E op \in {"reject", "revoke", "delete"} : Request(c, op, i, NoSerial, 0)
    \/ \E sn \in Serials : Request(c, "rename", i, sn, 0)

(* And to a station.                                                        *)
RequestOnStation(c) ==
  \/ \E s \in ClientIds : Request(c, "create", 0, NoSerial, s)
  \/ \E s \in stations, op \in {"deleteStation", "reset"} :
       Request(c, op, 0, NoSerial, s)

Requested(c) ==
  \/ RequestProvision(c) \/ RequestRegister(c)
  \/ RequestOnRecord(c) \/ RequestOnStation(c)

------------------------------------------------------------------------------
(* provision                                                                *)

(* Faulty variant of StationOf, for mutation testing.                     *)
ClientFirst(r) == r.client

(* The station the record names already, if any.                            *)
StationOf(r) == IF r.station # 0 THEN r.station ELSE r.client

Admitted(r) == r.status \notin Barred

(* findUnique by serial number: an unknown or a barred one is refused.  (The *)
(* manufacturer's channel, checked here too, never changes the outcome of a *)
(* later step.)                                                             *)
ProvisionFind(c) ==
  /\ Awaiting(c, "provision", "find")
  /\ LET rows == WithSerial(call[c].serial) IN
     IF \E i \in rows : Admitted(record[i])
     THEN LET i == CHOOSE j \in rows : Admitted(record[j])
              s == StationOf(record[i]) IN
          call' = [call EXCEPT ![c].read = record[i], ![c].station = s,
                               ![c].at = IF s # 0 THEN "commit" ELSE "number"]
     ELSE Return(c)
  /\ UNCHANGED <<tables, sock, tolerated, history>>

(* generateStationId: upsert of the sequence, bounded like the requests.    *)
GenerateStationId(c) ==
  /\ Awaiting(c, "provision", "number")
  /\ lastNumber < MaxCalls
  /\ lastNumber' = lastNumber + 1
  /\ call' = [call EXCEPT ![c].station = lastNumber + 1, ![c].at = "commit"]
  /\ UNCHANGED <<record, stations, password, busy, sock, tolerated, history>>

(* isReprovision                                                            *)
Again(r) == r.status = "provisioned"

(* Rotating a password without disconnecting leaves the station's sockets.  *)
Tolerate(s) == tolerated' = tolerated \cup {k \in Sockets : sock[k].station = s}

(* Faulty variant of Linkable, for mutation testing.                      *)
LinkableAnyway(sn, s) == WithSerial(sn) # {}

(* The record exists, and no other one holds the station (unique keys).     *)
Linkable(sn, s) == WithSerial(sn) # {} /\ LinkedTo(s) \subseteq WithSerial(sn)

(* Faulty variant of ProvisionCommit, for mutation testing: two queries     *)
(* instead of a transaction.                                                *)
ProvisionCommitInParts(c) ==
  /\ Awaiting(c, "provision", "commit")
  /\ LET q == call[c]
         ok == Linkable(q.serial, q.station) IN
     /\ record' = [i \in RecordIds |->
                     IF ok /\ i \in WithSerial(q.serial)
                     THEN [record[i] EXCEPT !.station = q.station,
                                            !.status = "provisioned"]
                     ELSE record[i]]
     /\ stations' = stations \cup {q.station}
     /\ password' = [password EXCEPT ![q.station] = q.n]
     /\ IF Again(q.read) THEN UNCHANGED tolerated ELSE Tolerate(q.station)
     /\ GotoIf(ok, c, "reply")
  /\ UNCHANGED <<lastNumber, busy, sock, history>>

(* The transaction: the station is created or given the new password, the   *)
(* record of the serial number, whatever it is by now, linked to it.        *)
ProvisionCommit(c) ==
  /\ Awaiting(c, "provision", "commit")
  /\ LET q == call[c] IN
     IF Linkable(q.serial, q.station)
     THEN /\ record' = [i \in RecordIds |->
                          IF i \in WithSerial(q.serial)
                          THEN [record[i] EXCEPT !.station = q.station,
                                                 !.status = "provisioned"]
                          ELSE record[i]]
          /\ stations' = stations \cup {q.station}
          /\ password' = [password EXCEPT ![q.station] = q.n]
          /\ IF Again(q.read) THEN UNCHANGED tolerated ELSE Tolerate(q.station)
          /\ Goto(c, "reply")
     ELSE Return(c) /\ UNCHANGED <<record, stations, password, tolerated>>
  /\ UNCHANGED <<lastNumber, busy, sock, history>>

(* forceDisconnect                                                          *)
Disconnected(s) ==
  [k \in Sockets |-> IF sock[k].at = "open" /\ sock[k].station = s
                     THEN [sock[k] EXCEPT !.at = "closed"] ELSE sock[k]]

(* Faulty variant of ProvisionReply, for mutation testing.                *)
ProvisionReplyQuietly(c) ==
  /\ Awaiting(c, "provision", "reply")
  /\ given' = given \cup {<<call[c].station, call[c].n>>}
  /\ Return(c)
  /\ UNCHANGED <<tables, sock, tolerated, forgotten, calls, faults>>

(* The old socket is terminated if the record was provisioned before, and   *)
(* the password returned.  A handshake that has read the old hash goes on.  *)
ProvisionReply(c) ==
  /\ Awaiting(c, "provision", "reply")
  /\ LET q == call[c] IN
     /\ IF Again(q.read)
        THEN /\ sock' = Disconnected(q.station)
             /\ tolerated' = tolerated \cup
                  {k \in Sockets : sock[k].at = "compare" /\ sock[k].station = q.station}
        ELSE UNCHANGED <<sock, tolerated>>
     /\ given' = given \cup {<<q.station, q.n>>}
  /\ Return(c)
  /\ UNCHANGED <<tables, forgotten, calls, faults>>

------------------------------------------------------------------------------
(* register                                                                 *)

RegisterFind(c) ==
  /\ Awaiting(c, "register", "find")
  /\ GotoIf(WithSerial(call[c].serial) = {}, c,
            IF call[c].station = 0 THEN "commit" ELSE "station")
  /\ UNCHANGED <<tables, sock, tolerated, history>>

(* The id somebody chose must be free; create asks the same.                *)
StationIsFree(c) ==
  /\ Awaiting(c, "register", "station") \/ Awaiting(c, "create", "station")
  /\ GotoIf(call[c].station \notin stations, c, "commit")
  /\ UNCHANGED <<tables, sock, tolerated, history>>

(* The record, in one transaction with the station if an id was chosen: a   *)
(* unique key refuses what came in between.                                 *)
RegisterCommit(c) ==
  /\ Awaiting(c, "register", "commit")
  /\ LET q == call[c]
         free == q.station = 0 \/
                   /\ q.station \notin stations
                   /\ LinkedTo(q.station) = {}
                   /\ \A i \in RecordIds : record[i].client # q.station IN
     IF WithSerial(q.serial) = {} /\ free
     THEN /\ record' = [record EXCEPT ![q.n] =
                          [serial |-> q.serial, client |-> q.station,
                           station |-> q.station, status |-> "registered"]]
          /\ stations' = stations \cup ({q.station} \ {0})
     ELSE UNCHANGED <<record, stations>>
  /\ Return(c)
  /\ UNCHANGED <<password, lastNumber, busy, sock, tolerated, history>>

------------------------------------------------------------------------------
(* update, reject, revoke, delete of a record                               *)

(* findById; update refuses a new serial number for a provisioned record.   *)
FindById(c) ==
  /\ \E op \in {"rename", "reject", "revoke", "delete"} : Awaiting(c, op, "find")
  /\ LET q == call[c] IN
     GotoIf(/\ Exists(q.id)
            /\ q.op = "rename" => record[q.id].status # "provisioned",
            c, IF q.op = "reject" THEN "touch" ELSE "commit")
  /\ UNCHANGED <<tables, sock, tolerated, history>>

(* reject goes through update, for the reason alone.                        *)
RejectTouch(c) ==
  /\ Awaiting(c, "reject", "touch")
  /\ GotoIf(Exists(call[c].id), c, "commit")
  /\ UNCHANGED <<tables, sock, tolerated, history>>

Rename(c) ==
  /\ Awaiting(c, "rename", "commit")
  /\ LET q == call[c] IN
     IF WithSerial(q.serial) \subseteq {q.id}
     THEN UpdateRow(q.id, [record[q.id] EXCEPT !.serial = q.serial])
     ELSE UNCHANGED record
  /\ Return(c)
  /\ UNCHANGED <<stations, password, lastNumber, busy, sock, tolerated, history>>

Reject(c) ==
  /\ Awaiting(c, "reject", "commit")
  /\ UpdateRow(call[c].id, [record[call[c].id] EXCEPT !.status = "rejected"])
  /\ Return(c)
  /\ UNCHANGED <<stations, password, lastNumber, busy, sock, tolerated, history>>

(* The station, its password and its socket stay as they are.               *)
Revoke(c) ==
  /\ Awaiting(c, "revoke", "commit")
  /\ UpdateRow(call[c].id, [record[call[c].id] EXCEPT !.status = "revoked"])
  /\ Return(c)
  /\ UNCHANGED <<stations, password, lastNumber, busy, sock, tolerated, history>>

DeleteRecord(c) ==
  /\ Awaiting(c, "delete", "commit")
  /\ UpdateRow(call[c].id, Absent)
  /\ Return(c)
  /\ UNCHANGED <<stations, password, lastNumber, busy, sock, tolerated, history>>

------------------------------------------------------------------------------
(* StationController.delete                                                 *)

(* findByStationId, and once more in deleteByStationId.                     *)
FindRecord(c) ==
  /\ \/ /\ Awaiting(c, "deleteStation", "find")
        /\ Goto(c, IF LinkedTo(call[c].station) = {} THEN "station" ELSE "again")
     \/ /\ Awaiting(c, "deleteStation", "again")
        /\ GotoIf(LinkedTo(call[c].station) # {}, c, "unlink")
  /\ UNCHANGED <<tables, sock, tolerated, history>>

DeleteByStationId(c) ==
  /\ Awaiting(c, "deleteStation", "unlink")
  /\ record' = [i \in RecordIds |->
                  IF i \in LinkedTo(call[c].station) THEN Absent ELSE record[i]]
  /\ GotoIf(LinkedTo(call[c].station) # {}, c, "station")
  /\ UNCHANGED <<stations, password, lastNumber, busy, sock, tolerated, history>>

(* findById, of delete and resetPassword.                                   *)
StationExists(c) ==
  /\ \/ /\ Awaiting(c, "deleteStation", "station")
        /\ GotoIf(call[c].station \in stations, c, "sessions")
     \/ /\ Awaiting(c, "reset", "station")
        /\ GotoIf(call[c].station \in stations, c, "commit")
  /\ UNCHANGED <<tables, sock, tolerated, history>>

(* No session in progress and none in the past; transactions are never      *)
(* deleted, so the second query decides.                                    *)
CountSessions(c) ==
  /\ Awaiting(c, "deleteStation", "sessions")
  /\ GotoIf(call[c].station \notin busy, c, "commit")
  /\ UNCHANGED <<tables, sock, tolerated, history>>

(* The transaction unlinks the record and deletes the station, unless a     *)
(* session was started meanwhile: the foreign key of transaction refuses.   *)
DeleteStation(c) ==
  /\ Awaiting(c, "deleteStation", "commit")
  /\ LET s == call[c].station IN
     IF s \in stations \ busy
     THEN /\ record' = [i \in RecordIds |->
                          IF i \in LinkedTo(s)
                          THEN [record[i] EXCEPT !.station = 0] ELSE record[i]]
          /\ stations' = stations \ {s}
          /\ password' = [password EXCEPT ![s] = 0]
          /\ Tolerate(s)
     ELSE UNCHANGED <<record, stations, password, tolerated>>
  /\ Return(c)
  /\ UNCHANGED <<lastNumber, busy, sock, history>>

------------------------------------------------------------------------------
(* create and resetPassword of a station                                    *)

CreateStation(c) ==
  /\ Awaiting(c, "create", "commit")
  /\ stations' = stations \cup {call[c].station}
  /\ Return(c)
  /\ UNCHANGED <<record, password, lastNumber, busy, sock, tolerated, history>>

ResetPassword(c) ==
  /\ Awaiting(c, "reset", "commit")
  /\ LET s == call[c].station IN
     IF s \in stations
     THEN /\ password' = [password EXCEPT ![s] = call[c].n]
          /\ Tolerate(s)
          /\ Goto(c, "reply")
     ELSE Return(c) /\ UNCHANGED <<password, tolerated>>
  /\ UNCHANGED <<record, stations, lastNumber, busy, sock, history>>

ResetReply(c) ==
  /\ Awaiting(c, "reset", "reply")
  /\ given' = given \cup {<<call[c].station, call[c].n>>}
  /\ Return(c)
  /\ UNCHANGED <<tables, sock, tolerated, forgotten, calls, faults>>

------------------------------------------------------------------------------
(* Sockets: verifyClient and the connection that follows                    *)

(* A charger comes with a password it was given, or with none;              *)
(* verifyOcppBasicAuth reads the hash and compares.                         *)
Upgrade(k, s, p) ==
  /\ sock[k].at = "new"
  /\ sock' = [sock EXCEPT ![k] =
                [at |-> IF s \in stations THEN "compare" ELSE "closed",
                 station |-> s, sent |-> p, seen |-> password[s]]]
  /\ UNCHANGED <<tables, call, tolerated, history>>

(* A station without a password is open to anybody.                         *)
Accepts(k) == sock[k].seen \in {0, sock[k].sent}

(* Accepted, the socket replaces the one that was registered.               *)
Verified(k) ==
  /\ sock[k].at = "compare"
  /\ sock' = IF Accepts(k)
             THEN [Disconnected(sock[k].station) EXCEPT ![k].at = "open"]
             ELSE [sock EXCEPT ![k].at = "closed"]
  /\ UNCHANGED <<tables, call, tolerated, history>>

Close(k) ==
  /\ sock[k].at = "open"
  /\ sock' = [sock EXCEPT ![k].at = "closed"]
  /\ UNCHANGED <<tables, call, tolerated, history>>

(* The station's first session: inserted by the Portal or StartTransaction. *)
StartSession(s) ==
  /\ s \in stations \ busy
  /\ busy' = busy \cup {s}
  /\ UNCHANGED <<record, stations, password, lastNumber, call, sock, tolerated, history>>

------------------------------------------------------------------------------
(* Failures                                                                 *)

(* A query rejects: the request ends in an error.                           *)
CallFails(c) ==
  /\ call[c] # Idle
  /\ call[c].at # "reply"
  /\ CostsFault
  /\ Return(c)
  /\ UNCHANGED <<tables, sock, tolerated, given, forgotten, calls>>

Crash ==
  /\ CostsFault
  /\ forgotten' = forgotten \cup
       {call[c].n : c \in {d \in Calls : call[d] # Idle /\ call[d].at = "reply"}}
  /\ call' = [c \in Calls |-> Idle]
  /\ sock' = [k \in Sockets |->
                IF sock[k].at = "new" THEN sock[k] ELSE [sock[k] EXCEPT !.at = "closed"]]
  /\ UNCHANGED <<tables, tolerated, given, calls>>

(* The bounds are reached.                                                  *)
Done ==
  /\ calls = MaxCalls
  /\ \A c \in Calls : call[c] = Idle
  /\ UNCHANGED vars

Provision(c) ==
  ProvisionFind(c) \/ GenerateStationId(c) \/ ProvisionCommit(c) \/ ProvisionReply(c)
Register(c) == RegisterFind(c) \/ StationIsFree(c) \/ RegisterCommit(c)
RecordStep(c) ==
  FindById(c) \/ RejectTouch(c) \/ Rename(c) \/ Reject(c) \/ Revoke(c) \/ DeleteRecord(c)
StationStep(c) ==
  \/ FindRecord(c) \/ DeleteByStationId(c) \/ StationExists(c) \/ CountSessions(c)
  \/ DeleteStation(c) \/ CreateStation(c) \/ ResetPassword(c) \/ ResetReply(c)

Next ==
  \/ \E c \in Calls :
       Requested(c) \/ Provision(c) \/ Register(c) \/ RecordStep(c) \/ StationStep(c)
       \/ CallFails(c)
  \/ \E k \in Sockets :
       \/ \E s \in StationIds, p \in Passwords :
            (p = 0 \/ <<s, p>> \in given) /\ Upgrade(k, s, p)
       \/ Verified(k) \/ Close(k)
  \/ \E s \in StationIds : StartSession(s)
  \/ Crash
  \/ Done

Spec == Init /\ [][Next]_vars

------------------------------------------------------------------------------
(* Properties                                                               *)

(* A station's password was returned to the one who asked for it, unless    *)
(* the process died in between: a request that ends in an error has not     *)
(* locked out the charger (provision.service.ts:69, one transaction).       *)
PasswordWasHandedOut ==
  \A s \in stations :
    \/ password[s] \in {0} \cup forgotten
    \/ <<s, password[s]>> \in given
    \/ \E c \in Calls :
         /\ call[c] # Idle /\ call[c].at = "reply"
         /\ call[c].station = s /\ call[c].n = password[s]

(* After a charger was provisioned again, the registered socket is that of  *)
(* the new device: an old one is gone when the reply is sent and cannot     *)
(* come back, except a handshake that had read the old hash by then, and    *)
(* rotations that do not disconnect (provision.service.ts:54-56, 95-98).    *)
OldCredentialsAreOut ==
  \A k \in Sockets :
    LET s == sock[k].station IN
    sock[k].at = "open" /\ s \in stations /\ k \notin tolerated =>
      \/ password[s] \in {0, sock[k].sent}
      \/ \E c \in Calls :
           /\ Awaiting(c, "provision", "reply")
           /\ call[c].station = s /\ Again(call[c].read)

(* The password of a station changes by a reset of that station, or by a    *)
(* provisioning when no other serial number's record is linked to it; and   *)
(* that provisioning either read a record that names the station, or drew   *)
(* an id that people choose too.  The last is a takeover the code does not  *)
(* prevent: the upsert of provision.service.ts:69-84 rotates the password   *)
(* of a station created by hand under that id, if no record is linked to it.*)
RotationsAreExplained ==
  [][\A s \in stations \cap stations' : password'[s] # password[s] =>
       \E c \in Calls :
         /\ call[c] # Idle /\ call[c].at = "commit" /\ call[c].station = s
         /\ \/ call[c].op = "reset"
            \/ /\ call[c].op = "provision"
               /\ LinkedTo(s) \subseteq WithSerial(call[c].serial)
               /\ StationOf(call[c].read) = s \/ s \in ClientIds]_vars

(* A provisioning whose record nobody wrote meanwhile revives no rejected   *)
(* or revoked one and moves none to another station: what provision may     *)
(* undo, it undoes by a stale read (provision.service.ts:27, 69).           *)
UndisturbedProvisionKeeps ==
  [][\A c \in Calls, i \in RecordIds :
       /\ Awaiting(c, "provision", "commit") /\ call'[c].at = "reply"
       /\ record[i] = call[c].read
       => /\ record[i].status \notin Barred
          /\ record[i].station # 0 => record'[i].station = record[i].station
          /\ record[i].station = 0 /\ record[i].client # 0 =>
               record'[i].station = record[i].client]_vars
==============================================================================
