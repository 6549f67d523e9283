------------------------- MODULE ProvisioningProofs --------------------------
(***************************************************************************)
(* Proofs about Provisioning, for any serial numbers, requests, sockets,   *)
(* chosen ids and faults.                                                  *)
(***************************************************************************)
EXTENDS Provisioning, TLAPS

USE DEF Idle

------------------------------------------------------------------------------
(* The inductive invariant                                                  *)

(* Every await has the arguments it reads.                                  *)
Arguments ==
  \A c \in Calls : call[c] # Idle =>
    /\ call[c].op \in {"provision", "register", "rename"} => call[c].serial \in Serials
    /\ call[c].op = "register" => call[c].station \in ClientIds \cup {0}
    /\ call[c].op \in {"rename", "reject", "revoke", "delete"} => call[c].id \in RecordIds
    /\ call[c].op \in {"deleteStation", "create", "reset"} => call[c].station \in StationIds
    /\ call[c].op = "provision" /\ call[c].at \in {"commit", "reply"} =>
         call[c].station \in StationIds

(* Between the read and the transaction, provision holds an admitted record *)
(* of its serial number and the station that one names.                     *)
ReadDecides ==
  \A c \in Calls :
    call[c] # Idle /\ call[c].op = "provision" /\ call[c].at \in {"number", "commit"} =>
      LET r == call[c].read IN
      /\ r \in Records
      /\ r.serial = call[c].serial
      /\ Admitted(r)
      /\ IF call[c].at = "number" THEN StationOf(r) = 0
         ELSE StationOf(r) # 0 => call[c].station = StationOf(r)

(* A provisioning again that has committed and not disconnected yet.        *)
Pending(s) ==
  \E c \in Calls :
    /\ Awaiting(c, "provision", "reply")
    /\ call[c].station = s /\ Again(call[c].read)

(* What a socket read, or was let in with, is what the table holds.         *)
SocketsCurrent ==
  \A k \in Sockets :
    LET s == sock[k].station IN
    /\ sock[k].at \in {"compare", "open"} => s \in StationIds
    /\ sock[k].at = "compare" /\ k \notin tolerated =>
         sock[k].seen = password[s] \/ Pending(s)
    /\ sock[k].at = "open" /\ k \notin tolerated =>
         password[s] \in {0, sock[k].sent} \/ Pending(s)

IInv ==
  TypeOK /\ Arguments /\ ReadDecides /\ PasswordWasHandedOut /\ SocketsCurrent

------------------------------------------------------------------------------
(* Steps that move one request and nothing a reply or a socket depends on   *)

Moves(c) ==
  /\ call[c] # Idle
  /\ call[c].at # "reply"
  /\ \/ Return(c)
     \/ \E at \in Awaits :
          /\ Goto(c, at)
          /\ call[c].op = "provision" => call[c].at = "commit" /\ at = "reply"

LEMMA ReturnShape ==
  ASSUME CallsType, NEW c \in Calls, Return(c)
  PROVE  /\ CallsType'
         /\ call'[c] = Idle
         /\ \A d \in Calls \ {c} : call'[d] = call[d]
  BY DEF CallsType, Return

LEMMA GotoShape ==
  ASSUME CallsType, NEW c \in Calls, call[c] # Idle, NEW at \in Awaits, Goto(c, at)
  PROVE  /\ CallsType'
         /\ call'[c] \in Requests
         /\ call'[c] = [call[c] EXCEPT !.at = at]
         /\ \A d \in Calls \ {c} : call'[d] = call[d]
<1>1. call[c] \in Requests
  BY DEF CallsType
<1>2. [call[c] EXCEPT !.at = at] \in Requests
  BY <1>1 DEF Requests
<1> QED
  BY <1>2 DEF CallsType, Goto

LEMMA MovesShape ==
  ASSUME IInv, NEW c \in Calls, Moves(c)
  PROVE  /\ CallsType'
         /\ Arguments'
         /\ ReadDecides'
         /\ \A d \in Calls :
              call[d] # Idle /\ call[d].at = "reply" => call'[d] = call[d]
<1>1. CallsType /\ Arguments /\ ReadDecides /\ call[c] \in Requests
  BY DEF IInv, TypeOK, CallsType, Moves
<1>2. CASE Return(c)
  <2>1. CallsType' /\ call'[c] = Idle /\ \A d \in Calls \ {c} : call'[d] = call[d]
    BY <1>1, <1>2, ReturnShape
  <2>2. Arguments' /\ ReadDecides'
    BY <1>1, <2>1 DEF Arguments, ReadDecides
  <2> QED BY <2>1, <2>2 DEF Moves
<1>3. ASSUME NEW at \in Awaits, Goto(c, at),
             call[c].op = "provision" => call[c].at = "commit" /\ at = "reply"
      PROVE  CallsType' /\ Arguments' /\ ReadDecides'
             /\ \A d \in Calls \ {c} : call'[d] = call[d]
  <2>1. /\ CallsType' /\ call'[c] = [call[c] EXCEPT !.at = at]
        /\ \A d \in Calls \ {c} : call'[d] = call[d]
    BY <1>1, <1>3, GotoShape DEF Moves
  <2>2. /\ call'[c].op = call[c].op /\ call'[c].id = call[c].id /\ call'[c].at = at
        /\ call'[c].serial = call[c].serial /\ call'[c].station = call[c].station
    BY <1>1, <2>1 DEF Requests
  <2>a. call[c] # Idle /\ call'[c] # Idle /\ call'[c].read = call[c].read
    BY <1>1, <2>1 DEF Moves, Requests
  <2>3. Arguments'
    <3> SUFFICES ASSUME NEW d \in Calls, call'[d] # Idle
                 PROVE  /\ call'[d].op \in {"provision", "register", "rename"} =>
                             call'[d].serial \in Serials
                        /\ call'[d].op = "register" => call'[d].station \in ClientIds \cup {0}
                        /\ call'[d].op \in {"rename", "reject", "revoke", "delete"} =>
                             call'[d].id \in RecordIds
                        /\ call'[d].op \in {"deleteStation", "create", "reset"} =>
                             call'[d].station \in StationIds
                        /\ call'[d].op = "provision" /\ call'[d].at \in {"commit", "reply"} =>
                             call'[d].station \in StationIds
      BY DEF Arguments
    <3>1. CASE d = c
      BY <1>1, <1>3, <2>2, <2>a, <3>1 DEF Arguments
    <3>2. CASE d # c
      BY <1>1, <2>1, <3>2 DEF Arguments
    <3> QED BY <3>1, <3>2
  <2>4. ReadDecides'
    <3> SUFFICES ASSUME NEW d \in Calls, call'[d] # Idle, call'[d].op = "provision",
                        call'[d].at \in {"number", "commit"}
                 PROVE  /\ call'[d].read \in Records
                        /\ call'[d].read.serial = call'[d].serial
                        /\ Admitted(call'[d].read)
                        /\ IF call'[d].at = "number" THEN StationOf(call'[d].read) = 0
                           ELSE StationOf(call'[d].read) # 0 =>
                                  call'[d].station = StationOf(call'[d].read)
      BY DEF ReadDecides
    <3>1. d # c
      BY <1>3, <2>2
    <3>2. call'[d] = call[d]
      BY <2>1, <3>1
    <3> QED BY <1>1, <3>2 DEF ReadDecides
  <2> QED BY <2>1, <2>3, <2>4
<1> QED BY <1>2, <1>3 DEF Moves

(* The replies to come keep passwords accounted for and sockets excused.    *)
LEMMA RepliesKept ==
  ASSUME IInv, UNCHANGED <<stations, password, sock, tolerated, given, forgotten>>,
         \A d \in Calls :
           call[d] # Idle /\ call[d].at = "reply" => call'[d] = call[d]
  PROVE  PasswordWasHandedOut' /\ SocketsCurrent'
<1>1. PasswordWasHandedOut'
  BY DEF IInv, PasswordWasHandedOut
<1>2. \A s : Pending(s) => Pending(s)'
  BY DEF Pending, Awaiting
<1>3. SocketsCurrent'
  BY <1>2 DEF IInv, SocketsCurrent
<1> QED BY <1>1, <1>3

(* A request moves on, and at most the records change.                      *)
LEMMA MoveInv ==
  ASSUME IInv, NEW c \in Calls, Moves(c),
         UNCHANGED <<stations, password, lastNumber, sock, tolerated, given, forgotten, calls>>,
         record' \in [RecordIds -> Records \cup {Absent}], Keys',
         busy' \in SUBSET StationIds, faults' \in 0 .. MaxFaults
  PROVE  IInv'
<1>1. CallsType' /\ Arguments' /\ ReadDecides'
  BY MovesShape
<1>2. PasswordWasHandedOut' /\ SocketsCurrent'
  BY MovesShape, RepliesKept
<1>3. TablesType' /\ SocketsType' /\ HistoryType'
  BY DEF IInv, TypeOK, TablesType, SocketsType, HistoryType
<1> QED BY <1>1, <1>2, <1>3 DEF IInv, TypeOK

LEMMA QuietInv ==
  ASSUME IInv, NEW c \in Calls, Moves(c),
         UNCHANGED <<tables, sock, tolerated, given, forgotten, calls>>,
         faults' \in 0 .. MaxFaults
  PROVE  IInv'
<1>1. Keys'
  BY DEF IInv, TypeOK, Keys, tables
<1> QED BY <1>1, MoveInv DEF IInv, TypeOK, TablesType, tables

------------------------------------------------------------------------------
(* The first state and the steps of a request that write no table           *)

LEMMA StationsAreNotZero == \A s \in StationIds : s # 0 /\ s \in Nat
  BY ClientAssumption, CallsAssumption DEF StationIds

LEMMA InitInv ==
  ASSUME Init PROVE IInv
<1>1. TablesType
  BY CallsAssumption DEF Init, TablesType, Passwords, RecordIds
<1>2. CallsType
  BY DEF Init, CallsType
<1>3. SocketsType
  BY CallsAssumption DEF Init, SocketsType, SocketStates, NewSocket, Passwords
<1>4. HistoryType
  BY CallsAssumption, FaultsAssumption DEF Init, HistoryType
<1>5. Keys
  BY DEF Init, Keys, Absent
<1>6. Arguments /\ ReadDecides /\ PasswordWasHandedOut /\ SocketsCurrent
  BY DEF Init, Arguments, ReadDecides, PasswordWasHandedOut, SocketsCurrent, NewSocket
<1> QED BY <1>1, <1>2, <1>3, <1>4, <1>5, <1>6 DEF IInv, TypeOK

(* A request of any kind starts with arguments of its kind.                 *)
LEMMA RequestInv ==
  ASSUME IInv, NEW c \in Calls, NEW op \in Operations,
         NEW i \in RecordIds \cup {0}, NEW sn \in Serials \cup {NoSerial},
         NEW s \in StationIds \cup {0}, Request(c, op, i, sn, s),
         op \in {"provision", "register", "rename"} => sn \in Serials,
         op = "register" => s \in ClientIds \cup {0},
         op \in {"rename", "reject", "revoke", "delete"} => i \in RecordIds,
         op \in {"deleteStation", "create", "reset"} => s \in StationIds
  PROVE  IInv'
<1> DEFINE q == [op |-> op, at |-> FirstAwait(op), n |-> calls + 1, id |-> i,
                 serial |-> sn, station |-> s, read |-> Absent]
<1>1. calls' \in 1 .. MaxCalls /\ calls' = calls + 1
  BY CallsAssumption DEF IInv, TypeOK, HistoryType, Request
<1>2. q \in Requests
  BY <1>1 DEF Requests, RecordIds, FirstAwait, Awaits
<1>3. CallsType /\ call[c] = Idle
  BY DEF IInv, TypeOK, Request
<1>4. call'[c] = q /\ CallsType' /\ \A d \in Calls \ {c} : call'[d] = call[d]
  BY <1>2, <1>3 DEF CallsType, Request
<1>5. Arguments'
  BY <1>4 DEF IInv, Arguments, FirstAwait
<1>6. ReadDecides'
  BY <1>4 DEF IInv, ReadDecides, FirstAwait
<1>7. PasswordWasHandedOut' /\ SocketsCurrent'
  BY <1>3, <1>4, RepliesKept DEF Request, tables
<1>8. TablesType' /\ SocketsType' /\ HistoryType' /\ Keys'
  BY <1>1, CallsAssumption
  DEF IInv, TypeOK, TablesType, SocketsType, HistoryType, Keys, Request, tables
<1> QED BY <1>4, <1>5, <1>6, <1>7, <1>8 DEF IInv, TypeOK

LEMMA RequestedInv ==
  ASSUME IInv, NEW c \in Calls, Requested(c) PROVE IInv'
<1>1. CASE RequestProvision(c)
  BY <1>1, RequestInv DEF RequestProvision, Operations
<1>2. CASE RequestRegister(c)
  <2>1. PICK sn \in Serials, s \in ClientIds \cup {0} : Request(c, "register", 0, sn, s)
    BY <1>2 DEF RequestRegister
  <2>2. s \in StationIds \cup {0}
    BY DEF StationIds
  <2> QED BY <2>1, <2>2, RequestInv DEF Operations
<1>3. CASE RequestOnRecord(c)
  BY <1>3, RequestInv DEF RequestOnRecord, Operations
<1>4. CASE RequestOnStation(c)
  <2>1. CASE \E s \in ClientIds : Request(c, "create", 0, NoSerial, s)
    BY <2>1, RequestInv DEF Operations, StationIds
  <2>2. CASE \E s \in stations, op \in {"deleteStation", "reset"} :
               Request(c, op, 0, NoSerial, s)
    BY <2>2, RequestInv DEF Operations, IInv, TypeOK, TablesType
  <2> QED BY <1>4, <2>1, <2>2 DEF RequestOnStation
<1> QED BY <1>1, <1>2, <1>3, <1>4 DEF Requested

(* provision reads an admitted record and knows its station, or asks for    *)
(* one.                                                                     *)
LEMMA ProvisionFindInv ==
  ASSUME IInv, NEW c \in Calls, ProvisionFind(c) PROVE IInv'
<1> DEFINE rows == WithSerial(call[c].serial)
           i == CHOOSE j \in rows : Admitted(record[j])
           s == StationOf(record[i])
<1>1. CASE \E j \in rows : Admitted(record[j])
  <2>1. i \in rows /\ Admitted(record[i])
    BY <1>1
  <2>a. /\ i \in RecordIds /\ record[i].status # "absent"
        /\ record[i].serial = call[c].serial
        /\ record[i] \in Records \cup {Absent}
    BY <2>1 DEF IInv, TypeOK, TablesType, WithSerial, Exists
  <2>b. record[i] \in Records
    BY <2>a DEF Absent
  <2>2. /\ record[i] \in Records /\ record[i].serial = call[c].serial
        /\ s \in StationIds \cup {0}
    BY <2>a, <2>b DEF Records, StationOf, StationIds
  <2>3. /\ call[c] \in Requests /\ call[c].op = "provision" /\ call[c].at = "find"
        /\ CallsType
    BY DEF ProvisionFind, Awaiting, IInv, TypeOK, CallsType
  <2> DEFINE q == [call[c] EXCEPT !.read = record[i], !.station = s,
                                  !.at = IF s # 0 THEN "commit" ELSE "number"]
  <2>4. call' = [call EXCEPT ![c] = q]
    BY <1>1 DEF ProvisionFind
  <2>5. q \in Requests
    BY <2>2, <2>3 DEF Requests, Awaits
  <2>6. CallsType' /\ call'[c] = q /\ \A d \in Calls \ {c} : call'[d] = call[d]
    BY <2>3, <2>4, <2>5 DEF CallsType
  <2>7. /\ q.op = "provision" /\ q.serial = call[c].serial /\ q.station = s
        /\ q.read = record[i] /\ q.at = IF s # 0 THEN "commit" ELSE "number"
    BY <2>3 DEF Requests
  <2> HIDE DEF q, s, i, rows
  <2>8. Arguments'
    BY <2>2, <2>3, <2>6, <2>7 DEF IInv, Arguments
  <2>9. ReadDecides'
    BY <2>1, <2>2, <2>3, <2>6, <2>7 DEF IInv, ReadDecides, s
  <2>10. \A d \in Calls : call[d] # Idle /\ call[d].at = "reply" => call'[d] = call[d]
    BY <2>3, <2>6
  <2>11. PasswordWasHandedOut' /\ SocketsCurrent'
    BY <2>10, RepliesKept DEF ProvisionFind, tables, history
  <2>12. TablesType' /\ SocketsType' /\ HistoryType' /\ Keys'
    BY DEF IInv, TypeOK, TablesType, SocketsType, HistoryType, Keys,
           ProvisionFind, tables, history
  <2> QED BY <2>6, <2>8, <2>9, <2>11, <2>12 DEF IInv, TypeOK
<1>2. CASE ~ \E j \in rows : Admitted(record[j])
  <2>1. Moves(c)
    BY <1>2 DEF ProvisionFind, Awaiting, Moves
  <2> QED BY <2>1, QuietInv DEF ProvisionFind, history, IInv, TypeOK, HistoryType
<1> QED BY <1>1, <1>2

LEMMA GenerateStationIdInv ==
  ASSUME IInv, NEW c \in Calls, GenerateStationId(c) PROVE IInv'
<1> DEFINE q == [call[c] EXCEPT !.station = lastNumber + 1, !.at = "commit"]
<1>1. /\ call[c] \in Requests /\ call[c].op = "provision" /\ call[c].at = "number"
      /\ CallsType /\ lastNumber \in 0 .. MaxCalls
      /\ lastNumber' \in 1 .. MaxCalls /\ lastNumber' = lastNumber + 1
  BY CallsAssumption
  DEF GenerateStationId, Awaiting, IInv, TypeOK, CallsType, TablesType
<1>2. lastNumber + 1 \in StationIds
  BY <1>1 DEF StationIds
<1>3. q \in Requests
  BY <1>1, <1>2 DEF Requests, Awaits
<1>4. call' = [call EXCEPT ![c] = q]
  BY DEF GenerateStationId
<1>5. CallsType' /\ call'[c] = q /\ \A d \in Calls \ {c} : call'[d] = call[d]
  BY <1>1, <1>3, <1>4 DEF CallsType
<1>6. /\ q.op = "provision" /\ q.serial = call[c].serial /\ q.station \in StationIds
      /\ q.read = call[c].read /\ q.at = "commit"
  BY <1>1, <1>2 DEF Requests
<1> HIDE DEF q
<1>7. Arguments'
  BY <1>1, <1>5, <1>6 DEF IInv, Arguments
<1>8. ReadDecides'
  BY <1>1, <1>5, <1>6 DEF IInv, ReadDecides
<1>9. \A d \in Calls : call[d] # Idle /\ call[d].at = "reply" => call'[d] = call[d]
  BY <1>1, <1>5
<1>10. PasswordWasHandedOut' /\ SocketsCurrent'
  BY <1>9, RepliesKept DEF GenerateStationId, history
<1>11. TablesType' /\ SocketsType' /\ HistoryType' /\ Keys'
  BY <1>1, CallsAssumption
  DEF IInv, TypeOK, TablesType, SocketsType, HistoryType, Keys, GenerateStationId, history
<1> QED BY <1>5, <1>7, <1>8, <1>10, <1>11 DEF IInv, TypeOK

(* The checks that only decide whether a request goes on.                   *)
LEMMA ChecksInv ==
  ASSUME IInv, NEW c \in Calls,
         \/ RegisterFind(c) \/ StationIsFree(c) \/ FindById(c) \/ RejectTouch(c)
         \/ FindRecord(c) \/ StationExists(c) \/ CountSessions(c)
  PROVE  IInv'
<1>1. Moves(c)
  BY DEF RegisterFind, StationIsFree, FindById, RejectTouch, FindRecord, StationExists,
         CountSessions, Awaiting, GotoIf, Moves, Awaits
<1>2. UNCHANGED <<tables, sock, tolerated, history>>
  BY DEF RegisterFind, StationIsFree, FindById, RejectTouch, FindRecord, StationExists,
         CountSessions
<1> QED BY <1>1, <1>2, QuietInv DEF history, IInv, TypeOK, HistoryType

LEMMA CallFailsInv ==
  ASSUME IInv, NEW c \in Calls, CallFails(c) PROVE IInv'
<1>1. Moves(c)
  BY DEF CallFails, Moves
<1>2. faults' \in 0 .. MaxFaults
  BY FaultsAssumption DEF CallFails, CostsFault, IInv, TypeOK, HistoryType
<1> QED BY <1>1, <1>2, QuietInv DEF CallFails

------------------------------------------------------------------------------
(* Steps that write records alone                                           *)

LEMMA RecordFacts ==
  ASSUME TablesType, NEW i \in RecordIds
  PROVE  /\ record[i] \in Records \cup {Absent}
         /\ Exists(i) <=> record[i] # Absent
         /\ Exists(i) <=> record[i] \in Records
         /\ Exists(i) => record[i].serial \in Serials
  BY DEF TablesType, Exists, Absent, Records, Barred

(* Rows that lose their links, or their place, or change their status keep  *)
(* the keys.                                                                *)
LEMMA KeysKept ==
  ASSUME IInv, UNCHANGED <<stations, password>>,
         record' \in [RecordIds -> Records \cup {Absent}],
         \A i \in RecordIds :
           \/ record'[i] = Absent
           \/ /\ Exists(i)
              /\ record'[i].serial = record[i].serial
              /\ record'[i].client = record[i].client
              /\ record'[i].station = record[i].station
  PROVE  Keys'
<1>1. TablesType /\ Keys
  BY DEF IInv, TypeOK
<1>2. /\ Absent.station = 0 /\ Absent.client = 0
      /\ Absent.serial \notin Serials
  BY SerialAssumption DEF Absent
<1>3. \A i \in RecordIds :
        Exists(i) => record[i] # Absent /\ record[i].serial \in Serials
  BY <1>1, RecordFacts
<1> HIDE DEF Absent
<1>4. \A i, j \in RecordIds :
        i # j => record'[i] = Absent \/ record'[i].serial # record'[j].serial
  BY <1>1, <1>2, <1>3 DEF Keys
<1>5. \A i, j \in RecordIds :
        i # j => record'[i].client = 0 \/ record'[i].client # record'[j].client
  BY <1>1, <1>2 DEF Keys
<1>6. \A i, j \in RecordIds :
        i # j => record'[i].station = 0 \/ record'[i].station # record'[j].station
  BY <1>1, <1>2 DEF Keys
<1>7. \A i \in RecordIds : record'[i].station \in stations \cup {0}
  BY <1>1, <1>2 DEF Keys
<1> QED BY <1>1, <1>4, <1>5, <1>6, <1>7 DEF Keys

(* reject and revoke change the status of a row, the deletions drop it.     *)
LEMMA RecordWriteInv ==
  ASSUME IInv, NEW c \in Calls,
         Reject(c) \/ Revoke(c) \/ DeleteRecord(c) \/ DeleteByStationId(c)
  PROVE  IInv'
<1>1. Moves(c)
  BY DEF Reject, Revoke, DeleteRecord, DeleteByStationId, Awaiting, GotoIf, Moves, Awaits
<1>2. TablesType
  BY DEF IInv, TypeOK
<1>3. \A i \in RecordIds, t \in Barred :
        Exists(i) => /\ [record[i] EXCEPT !.status = t] \in Records
                     /\ [record[i] EXCEPT !.status = t].serial = record[i].serial
                     /\ [record[i] EXCEPT !.status = t].client = record[i].client
                     /\ [record[i] EXCEPT !.status = t].station = record[i].station
  BY <1>2, RecordFacts DEF Records
<1>4. \A i \in RecordIds :
        \/ record'[i] = record[i]
        \/ record'[i] = Absent
        \/ Exists(i) /\ \E t \in Barred : record'[i] = [record[i] EXCEPT !.status = t]
  BY <1>2 DEF Reject, Revoke, DeleteRecord, DeleteByStationId, UpdateRow, TablesType, Barred
<1>5. record' = [i \in RecordIds |-> record'[i]]
  BY <1>2 DEF Reject, Revoke, DeleteRecord, DeleteByStationId, UpdateRow, TablesType
<1>6. record' \in [RecordIds -> Records \cup {Absent}]
  BY <1>2, <1>3, <1>4, <1>5, RecordFacts
<1>7. UNCHANGED <<stations, password, lastNumber, busy, sock, tolerated, history>>
  BY DEF Reject, Revoke, DeleteRecord, DeleteByStationId
<1>8. \A i \in RecordIds :
        \/ record'[i] = Absent
        \/ /\ Exists(i)
           /\ record'[i].serial = record[i].serial
           /\ record'[i].client = record[i].client
           /\ record'[i].station = record[i].station
  <2> TAKE i \in RecordIds
  <2>1. CASE ~Exists(i)
    <3>1. record[i] = Absent
      BY <1>2, <2>1, RecordFacts
    <3> QED BY <1>4, <2>1, <3>1
  <2>2. CASE Exists(i)
    <3>1. CASE record'[i] = record[i] \/ record'[i] = Absent
      BY <2>2, <3>1
    <3>2. CASE \E t \in Barred : record'[i] = [record[i] EXCEPT !.status = t]
      BY <1>3, <2>2, <3>2
    <3> QED BY <1>4, <3>1, <3>2
  <2> QED BY <2>1, <2>2
<1>9. Keys'
  BY <1>6, <1>7, <1>8, KeysKept
<1> QED
  BY <1>1, <1>6, <1>7, <1>9, MoveInv DEF history, IInv, TypeOK, TablesType, HistoryType

(* update gives a row a serial number that no other row has.                *)
LEMMA RenameInv ==
  ASSUME IInv, NEW c \in Calls, Rename(c) PROVE IInv'
<1> DEFINE i == call[c].id  sn == call[c].serial
<1>1. Moves(c)
  BY DEF Rename, Awaiting, Moves
<1>2. TablesType /\ Keys /\ i \in RecordIds /\ sn \in Serials
  BY DEF Rename, Awaiting, IInv, TypeOK, Arguments
<1>3. Exists(i) =>
        /\ [record[i] EXCEPT !.serial = sn] \in Records
        /\ [record[i] EXCEPT !.serial = sn].serial = sn
        /\ [record[i] EXCEPT !.serial = sn].client = record[i].client
        /\ [record[i] EXCEPT !.serial = sn].station = record[i].station
  BY <1>2, RecordFacts DEF Records
<1>4. UNCHANGED <<stations, password, lastNumber, busy, sock, tolerated, history>>
  BY DEF Rename
<1>5. CASE Exists(i) /\ WithSerial(sn) \subseteq {i}
  <2>1. record' = [record EXCEPT ![i] = [record[i] EXCEPT !.serial = sn]]
    BY <1>5 DEF Rename, UpdateRow
  <2>2. record' \in [RecordIds -> Records \cup {Absent}]
    BY <1>2, <1>3, <1>5, <2>1 DEF TablesType
  <2>3. \A j \in RecordIds \ {i} :
          record'[j] = record[j] /\ record[j].serial # sn
    BY <1>2, <1>5, <2>1, RecordFacts, SerialAssumption DEF TablesType, WithSerial, Absent
  <2>4. /\ record'[i].serial = sn /\ record'[i].client = record[i].client
        /\ record'[i].station = record[i].station
    BY <1>2, <1>3, <1>5, <2>1 DEF TablesType
  <2>5. record[i] # Absent
    BY <1>2, <1>5, RecordFacts
  <2> HIDE DEF i, sn
  <2>6. Keys'
    BY <1>2, <1>4, <2>3, <2>4, <2>5 DEF Keys
  <2> QED
    BY <1>1, <1>4, <2>2, <2>6, MoveInv DEF history, IInv, TypeOK, TablesType, HistoryType
<1>6. CASE ~(Exists(i) /\ WithSerial(sn) \subseteq {i})
  <2>1. record' = record
    BY <1>2, <1>6 DEF Rename, UpdateRow, TablesType
  <2> QED
    BY <1>1, <1>4, <2>1, QuietInv DEF tables, history, IInv, TypeOK, HistoryType
<1> QED BY <1>5, <1>6

------------------------------------------------------------------------------
(* Steps that write stations and passwords                                  *)

(* A password stays accounted for if it is untouched, null, or the one a    *)
(* reply is about to return; a socket stays current if its station's        *)
(* password is untouched or the socket tolerated or about to be closed.     *)
LEMMA TableStepInv ==
  ASSUME IInv, NEW c \in Calls, Moves(c), NEW s \in StationIds,
         UNCHANGED <<lastNumber, busy, sock, history>>,
         record' \in [RecordIds -> Records \cup {Absent}],
         Keys',
         stations' \subseteq stations \cup {s},
         NEW p \in Passwords, password' = [password EXCEPT ![s] = p],
         \/ p = 0
         \/ p = password[s]
         \/ call'[c] # Idle /\ call'[c].at = "reply" /\ call'[c].station = s /\ call'[c].n = p,
         \/ p = password[s] /\ UNCHANGED tolerated
         \/ Tolerate(s)
         \/ Pending(s)' /\ UNCHANGED tolerated
  PROVE  IInv'
<1>1. /\ CallsType' /\ Arguments' /\ ReadDecides'
      /\ \A d \in Calls : call[d] # Idle /\ call[d].at = "reply" => call'[d] = call[d]
  BY MovesShape
<1>2. TablesType /\ SocketsType /\ Keys /\ HistoryType /\ PasswordWasHandedOut /\ SocketsCurrent
  BY DEF IInv, TypeOK
<1>3. /\ password' \in [StationIds -> Passwords] /\ password'[s] = p
      /\ \A t \in StationIds \ {s} : password'[t] = password[t]
  BY <1>2 DEF TablesType
<1>4. TablesType' /\ SocketsType' /\ HistoryType'
  BY <1>2, <1>3 DEF TablesType, SocketsType, HistoryType, history, Tolerate
<1>5. PasswordWasHandedOut'
  <2> SUFFICES ASSUME NEW t \in stations'
               PROVE  \/ password'[t] \in {0} \cup forgotten'
                      \/ <<t, password'[t]>> \in given'
                      \/ \E d \in Calls :
                           /\ call'[d] # Idle /\ call'[d].at = "reply"
                           /\ call'[d].station = t /\ call'[d].n = password'[t]
    BY DEF PasswordWasHandedOut
  <2>1. CASE password'[t] = password[t]
    <3>1. t \in stations \/ password[t] = 0
      BY <1>2, <1>4 DEF Keys, TablesType
    <3>2. CASE t \in stations
      BY <1>1, <1>2, <2>1, <3>2 DEF PasswordWasHandedOut, history
    <3> QED BY <2>1, <3>1, <3>2
  <2>2. CASE t = s
    BY <1>3, <2>1, <2>2
  <2> QED BY <1>3, <1>4, <2>1, <2>2 DEF TablesType
<1>6. \A t : Pending(t) => Pending(t)'
  BY <1>1 DEF Pending, Awaiting
<1>7. SocketsCurrent'
  <2> SUFFICES ASSUME NEW k \in Sockets
               PROVE  /\ sock[k].at \in {"compare", "open"} => sock[k].station \in StationIds
                      /\ sock[k].at = "compare" /\ k \notin tolerated' =>
                           sock[k].seen = password'[sock[k].station] \/ Pending(sock[k].station)'
                      /\ sock[k].at = "open" /\ k \notin tolerated' =>
                           \/ password'[sock[k].station] \in {0, sock[k].sent}
                           \/ Pending(sock[k].station)'
    BY DEF SocketsCurrent
  <2>1. k \in tolerated => k \in tolerated'
    BY DEF Tolerate
  <2>2. CASE sock[k].station # s \/ p = password[s]
    BY <1>2, <1>3, <1>6, <2>1, <2>2 DEF SocketsCurrent
  <2>3. CASE sock[k].station = s /\ p # password[s]
    BY <1>2, <2>3 DEF SocketsCurrent, Tolerate
  <2> QED BY <2>2, <2>3
<1> QED BY <1>1, <1>4, <1>5, <1>7 DEF IInv, TypeOK

LEMMA CreateStationInv ==
  ASSUME IInv, NEW c \in Calls, CreateStation(c) PROVE IInv'
<1> DEFINE s == call[c].station
<1>1. Moves(c)
  BY DEF CreateStation, Awaiting, Moves
<1>2. TablesType /\ Keys /\ s \in StationIds
  BY DEF CreateStation, Awaiting, IInv, TypeOK, Arguments
<1>3. stations' = stations \cup {s} /\ UNCHANGED <<record, password>>
  BY DEF CreateStation
<1>4. Keys'
  BY <1>2, <1>3 DEF Keys
<1>5. password' = [password EXCEPT ![s] = password[s]] /\ password[s] \in Passwords
  BY <1>2, <1>3 DEF TablesType
<1> HIDE DEF s
<1> QED
  BY <1>1, <1>2, <1>3, <1>4, <1>5, TableStepInv DEF CreateStation, TablesType

LEMMA ResetPasswordInv ==
  ASSUME IInv, NEW c \in Calls, ResetPassword(c) PROVE IInv'
<1> DEFINE s == call[c].station  n == call[c].n
<1>1. /\ Moves(c) /\ call[c] \in Requests /\ CallsType
  BY DEF ResetPassword, Awaiting, Moves, Awaits, IInv, TypeOK, CallsType
<1>2. TablesType /\ Keys /\ s \in StationIds /\ n \in RecordIds /\ n \in Passwords
  BY <1>1, CallsAssumption
  DEF ResetPassword, Awaiting, IInv, TypeOK, Arguments, Requests, RecordIds, Passwords
<1>3. CASE s \in stations
  <2>1. /\ password' = [password EXCEPT ![s] = n] /\ Tolerate(s) /\ Goto(c, "reply")
        /\ UNCHANGED <<record, stations>>
    BY <1>3 DEF ResetPassword
  <2>2. call'[c] # Idle /\ call'[c].at = "reply" /\ call'[c].station = s /\ call'[c].n = n
    BY <1>1, <2>1 DEF CallsType, Requests, Goto, Moves
  <2>3. Keys'
    BY <1>2, <1>3, <2>1 DEF Keys, TablesType
  <2>4. /\ UNCHANGED <<lastNumber, busy, sock, history>>
        /\ record' \in [RecordIds -> Records \cup {Absent}]
        /\ stations' \subseteq stations \cup {s}
    BY <1>2, <2>1 DEF ResetPassword, TablesType
  <2> HIDE DEF s, n
  <2> QED
    BY <1>1, <1>2, <2>1, <2>2, <2>3, <2>4, TableStepInv
<1>4. CASE s \notin stations
  <2>1. UNCHANGED <<tables, sock, tolerated, history>>
    BY <1>4 DEF ResetPassword, tables
  <2> QED BY <1>1, <2>1, QuietInv DEF history, IInv, TypeOK, HistoryType
<1> QED BY <1>3, <1>4

(* The deletion unlinks the record, so that no link dangles.                *)
LEMMA DeleteStationInv ==
  ASSUME IInv, NEW c \in Calls, DeleteStation(c) PROVE IInv'
<1> DEFINE s == call[c].station
<1>1. Moves(c)
  BY DEF DeleteStation, Awaiting, Moves
<1>2. TablesType /\ Keys /\ s \in StationIds /\ s # 0
  BY StationsAreNotZero DEF DeleteStation, Awaiting, IInv, TypeOK, Arguments
<1>3. CASE s \in stations \ busy
  <2>1. /\ record' = [i \in RecordIds |->
                        IF i \in LinkedTo(s)
                        THEN [record[i] EXCEPT !.station = 0] ELSE record[i]]
        /\ stations' = stations \ {s}
        /\ password' = [password EXCEPT ![s] = 0]
        /\ Tolerate(s)
    BY <1>3 DEF DeleteStation
  <2>2. \A i \in RecordIds :
          i \in LinkedTo(s) =>
            /\ Exists(i) /\ [record[i] EXCEPT !.station = 0] \in Records
            /\ [record[i] EXCEPT !.station = 0].serial = record[i].serial
            /\ [record[i] EXCEPT !.station = 0].client = record[i].client
            /\ [record[i] EXCEPT !.station = 0].station = 0
    BY <1>2, RecordFacts DEF LinkedTo, Records
  <2>3. record' \in [RecordIds -> Records \cup {Absent}]
    BY <1>2, <2>1, <2>2, RecordFacts
  <2>4. \A i \in RecordIds :
          /\ record'[i].serial = record[i].serial
          /\ record'[i].client = record[i].client
          /\ record'[i].station = IF i \in LinkedTo(s) THEN 0 ELSE record[i].station
          /\ record[i] = Absent => record'[i] = Absent
    BY <1>2, <2>1, <2>2, RecordFacts
  <2>5. \A i \in RecordIds : i \notin LinkedTo(s) => record[i].station # s
    <3>1. Absent.station = 0
      BY DEF Absent
    <3> QED BY <1>2, <3>1, RecordFacts DEF LinkedTo
  <2>6. \A t \in StationIds : password'[t] = IF t = s THEN 0 ELSE password[t]
    BY <1>2, <2>1 DEF TablesType
  <2> HIDE DEF s
  <2>7. Keys'
    BY <1>2, <2>1, <2>4, <2>5, <2>6 DEF Keys
  <2>8. 0 \in Passwords
    BY CallsAssumption DEF Passwords
  <2> QED
    BY <1>1, <1>2, <2>1, <2>3, <2>7, <2>8, TableStepInv DEF DeleteStation
<1>4. CASE s \notin stations \ busy
  <2>1. UNCHANGED <<tables, sock, tolerated, history>>
    BY <1>4 DEF DeleteStation, tables
  <2> QED BY <1>1, <2>1, QuietInv DEF history, IInv, TypeOK, HistoryType
<1> QED BY <1>3, <1>4

(* A registered row takes a serial number and an id that no row holds.      *)
LEMMA RegisterCommitInv ==
  ASSUME IInv, NEW c \in Calls, RegisterCommit(c) PROVE IInv'
<1> DEFINE q == call[c]  s == call[c].station  n == call[c].n
           free == q.station = 0 \/
                     /\ q.station \notin stations
                     /\ LinkedTo(q.station) = {}
                     /\ \A i \in RecordIds : record[i].client # q.station
           row == [serial |-> q.serial, client |-> s, station |-> s, status |-> "registered"]
<1>1. Moves(c)
  BY DEF RegisterCommit, Awaiting, Moves
<1>2. /\ TablesType /\ Keys /\ n \in RecordIds
      /\ s \in ClientIds \cup {0} /\ s \in StationIds \cup {0} /\ q.serial \in Serials
  BY DEF RegisterCommit, Awaiting, IInv, TypeOK, CallsType, Arguments, Requests, StationIds
<1>3. CASE WithSerial(q.serial) = {} /\ free
  <2>1. /\ record' = [record EXCEPT ![n] = row]
        /\ stations' = stations \cup ({s} \ {0})
        /\ UNCHANGED <<password, lastNumber, busy, sock, tolerated, history>>
    BY <1>3 DEF RegisterCommit
  <2>2. row \in Records
    BY <1>2 DEF Records
  <2>3. record' \in [RecordIds -> Records \cup {Absent}]
    BY <1>2, <2>1, <2>2 DEF TablesType
  <2>4. /\ record'[n].serial = q.serial /\ record'[n].client = s /\ record'[n].station = s
        /\ record'[n] # Absent
        /\ \A j \in RecordIds \ {n} :
             /\ record'[j] = record[j]
             /\ record[j].serial # q.serial
             /\ s # 0 => record[j].client # s /\ record[j].station # s
    <3>1. Absent.station = 0 /\ Absent.serial \notin Serials
      BY SerialAssumption DEF Absent
    <3>2. \A j \in RecordIds : record[j].serial # q.serial
      BY <1>2, <1>3, <3>1, RecordFacts DEF WithSerial
    <3>3. s # 0 => \A j \in RecordIds : record[j].client # s /\ record[j].station # s
      BY <1>2, <1>3, <3>1, RecordFacts DEF LinkedTo
    <3>4. row # Absent
      BY DEF Absent
    <3> QED BY <1>2, <2>1, <3>2, <3>3, <3>4 DEF TablesType
  <2> HIDE DEF q, s, n, row, free
  <2>5. Keys'
    <3>1. \A i, j \in RecordIds :
            i # j => record'[i] = Absent \/ record'[i].serial # record'[j].serial
      BY <1>2, <2>4 DEF Keys
    <3>2. \A i, j \in RecordIds :
            i # j => record'[i].client = 0 \/ record'[i].client # record'[j].client
      BY <1>2, <2>4 DEF Keys
    <3>3. \A i, j \in RecordIds :
            i # j => record'[i].station = 0 \/ record'[i].station # record'[j].station
      BY <1>2, <2>4 DEF Keys
    <3>4. \A i \in RecordIds : record'[i].station \in stations' \cup {0}
      BY <1>2, <2>1, <2>4 DEF Keys
    <3>5. \A t \in StationIds \ stations' : password'[t] = 0
      BY <1>2, <2>1 DEF Keys
    <3> QED BY <3>1, <3>2, <3>3, <3>4, <3>5 DEF Keys
  <2>6. CASE s = 0
    <3>1. stations' = stations
      BY <2>1, <2>6
    <3> QED
      BY <1>1, <2>1, <2>3, <2>5, <3>1, MoveInv
      DEF history, IInv, TypeOK, TablesType, HistoryType
  <2>7. CASE s \in StationIds
    <3>1. password' = [password EXCEPT ![s] = password[s]] /\ password[s] \in Passwords
      BY <1>2, <2>1, <2>7 DEF TablesType
    <3>2. stations' \subseteq stations \cup {s}
      BY <2>1
    <3> QED
      BY <1>1, <2>1, <2>3, <2>5, <2>7, <3>1, <3>2, TableStepInv
  <2> QED BY <1>2, <2>6, <2>7
<1>4. CASE ~(WithSerial(q.serial) = {} /\ free)
  <2>1. UNCHANGED <<record, stations, password, lastNumber, busy, sock, tolerated, history>>
    BY <1>4 DEF RegisterCommit
  <2> QED BY <1>1, <2>1, QuietInv DEF tables, history, IInv, TypeOK, HistoryType
<1> QED BY <1>3, <1>4

(* The transaction of provision: at most one record takes the station, and  *)
(* the sockets of the old device are excused until the reply closes them.   *)
LEMMA ProvisionCommitInv ==
  ASSUME IInv, NEW c \in Calls, ProvisionCommit(c) PROVE IInv'
<1> DEFINE q == call[c]  sn == call[c].serial  n == call[c].n
<1>1. Moves(c) /\ call[c] \in Requests /\ CallsType
  BY DEF ProvisionCommit, Awaiting, Moves, GotoIf, Awaits, IInv, TypeOK, CallsType
<1>2. PICK s \in StationIds :
        /\ s = call[c].station /\ s # 0 /\ TablesType /\ Keys /\ sn \in Serials
        /\ n \in Passwords /\ call[c].op = "provision"
  <2>1. call[c] # Idle /\ call[c].op = "provision" /\ call[c].at = "commit"
    BY DEF ProvisionCommit, Awaiting
  <2>2. n \in RecordIds
    BY <1>1 DEF Requests
  <2>3. n \in Passwords
    BY <2>2, CallsAssumption DEF RecordIds, Passwords
  <2>4. call[c].station \in StationIds /\ sn \in Serials
    BY <2>1 DEF IInv, Arguments
  <2> QED BY <2>1, <2>3, <2>4, StationsAreNotZero DEF IInv, TypeOK
<1>3. CASE Linkable(sn, s)
  <2>1. /\ record' = [i \in RecordIds |->
                        IF i \in WithSerial(sn)
                        THEN [record[i] EXCEPT !.station = s, !.status = "provisioned"]
                        ELSE record[i]]
        /\ stations' = stations \cup {s}
        /\ password' = [password EXCEPT ![s] = n]
        /\ IF Again(q.read) THEN UNCHANGED tolerated ELSE Tolerate(s)
        /\ Goto(c, "reply")
        /\ UNCHANGED <<lastNumber, busy, sock, history>>
    BY <1>2, <1>3 DEF ProvisionCommit
  <2>2. \A i \in WithSerial(sn) :
          LET r == [record[i] EXCEPT !.station = s, !.status = "provisioned"] IN
          /\ Exists(i) /\ record[i].serial = sn /\ r \in Records
          /\ r.serial = sn /\ r.client = record[i].client /\ r.station = s
    BY <1>2, RecordFacts DEF WithSerial, Records
  <2>3. record' \in [RecordIds -> Records \cup {Absent}]
    BY <1>2, <2>1, <2>2, RecordFacts
  <2>4. \A i \in RecordIds :
          /\ record'[i].serial = record[i].serial
          /\ record'[i].client = record[i].client
          /\ record'[i].station = IF i \in WithSerial(sn) THEN s ELSE record[i].station
          /\ record[i] = Absent => record'[i] = Absent
          /\ i \in WithSerial(sn) => record[i] # Absent /\ record[i].serial = sn
    BY <1>2, <2>1, <2>2, RecordFacts
  <2>5. \A i \in RecordIds : i \notin WithSerial(sn) => record[i].station # s
    <3>1. Absent.station = 0
      BY DEF Absent
    <3> QED BY <1>2, <1>3, <3>1, RecordFacts DEF LinkedTo, Linkable
  <2>6. \A t \in StationIds : password'[t] = IF t = s THEN n ELSE password[t]
    BY <1>2, <2>1 DEF TablesType
  <2>7. call'[c] = [call[c] EXCEPT !.at = "reply"]
    BY <1>1, <2>1 DEF CallsType, Goto
  <2>8. /\ call'[c] # Idle /\ call'[c].at = "reply" /\ call'[c].station = s
        /\ call'[c].n = n /\ call'[c].op = "provision" /\ call'[c].read = q.read
    BY <1>1, <1>2, <2>7 DEF Requests
  <2>9. Again(q.read) => Pending(s)'
    BY <2>8 DEF Pending, Awaiting, Again
  <2> HIDE DEF q, sn, n
  <2>10. Keys'
    <3>1. \A i, j \in RecordIds :
            i # j => record'[i] = Absent \/ record'[i].serial # record'[j].serial
      BY <1>2, <2>4 DEF Keys
    <3>2. \A i, j \in RecordIds :
            i # j => record'[i].client = 0 \/ record'[i].client # record'[j].client
      BY <1>2, <2>4 DEF Keys
    <3>3. \A i, j \in RecordIds :
            i # j => record'[i].station = 0 \/ record'[i].station # record'[j].station
      BY <1>2, <2>4, <2>5 DEF Keys
    <3>4. stations' = stations \cup {s}
      BY <2>1
    <3>5. \A i \in RecordIds : record'[i].station \in stations' \cup {0}
      BY <1>2, <2>4, <3>4 DEF Keys
    <3>6. \A t \in StationIds \ stations' : password'[t] = 0
      BY <1>2, <2>6, <3>4 DEF Keys
    <3> QED BY <3>1, <3>2, <3>3, <3>5, <3>6 DEF Keys
  <2>11. Tolerate(s) \/ (Pending(s)' /\ UNCHANGED tolerated)
    BY <2>1, <2>9
  <2>12. /\ stations' \subseteq stations \cup {s} /\ password' = [password EXCEPT ![s] = n]
         /\ UNCHANGED <<lastNumber, busy, sock, history>>
    BY <2>1
  <2> QED
    BY <1>1, <1>2, <2>3, <2>8, <2>10, <2>11, <2>12, TableStepInv
<1>4. CASE ~Linkable(sn, s)
  <2>1. UNCHANGED <<tables, sock, tolerated, history>>
    BY <1>2, <1>4 DEF ProvisionCommit, tables
  <2> QED BY <1>1, <2>1, QuietInv DEF history, IInv, TypeOK, HistoryType
<1> QED BY <1>3, <1>4

------------------------------------------------------------------------------
(* Replies                                                                  *)

(* The reply hands out the password.  What a provisioning again leaves      *)
(* behind are the sockets it closes and the handshakes it tolerates.        *)
LEMMA ReplyInv ==
  ASSUME IInv, NEW c \in Calls, call[c] # Idle, call[c].at = "reply",
         call[c].station \in StationIds, Return(c),
         given' = given \cup {<<call[c].station, call[c].n>>},
         UNCHANGED <<tables, forgotten, calls, faults>>,
         IF call[c].op = "provision" /\ Again(call[c].read)
         THEN /\ sock' = Disconnected(call[c].station)
              /\ tolerated' = tolerated \cup
                   {k \in Sockets : sock[k].at = "compare"
                                    /\ sock[k].station = call[c].station}
         ELSE UNCHANGED <<sock, tolerated>>
  PROVE  IInv'
<1> DEFINE s == call[c].station
<1>1. /\ TablesType /\ CallsType /\ SocketsType /\ HistoryType /\ Keys
      /\ Arguments /\ ReadDecides /\ PasswordWasHandedOut /\ SocketsCurrent
      /\ call[c] \in Requests /\ call[c].n \in Passwords
  BY CallsAssumption DEF IInv, TypeOK, CallsType, Requests, RecordIds, Passwords
<1>2. CallsType' /\ call'[c] = Idle /\ \A d \in Calls \ {c} : call'[d] = call[d]
  BY <1>1, ReturnShape
<1>3. Arguments' /\ ReadDecides'
  BY <1>1, <1>2 DEF Arguments, ReadDecides
<1>4. TablesType' /\ HistoryType' /\ Keys'
  BY <1>1 DEF TablesType, HistoryType, Keys, tables
<1>5. SocketsType'
  BY <1>1 DEF SocketsType, SocketStates, Disconnected
<1>6. PasswordWasHandedOut'
  BY <1>1, <1>2 DEF PasswordWasHandedOut, tables
<1>7. \A t : Pending(t) =>
        Pending(t)' \/ (t = s /\ call[c].op = "provision" /\ Again(call[c].read))
  BY <1>2 DEF Pending, Awaiting
<1>8. SocketsCurrent'
  <2>1. CASE call[c].op = "provision" /\ Again(call[c].read)
    <3> DEFINE Current(k) ==
                 LET t == sock[k].station IN
                 /\ sock[k].at \in {"compare", "open"} => t \in StationIds
                 /\ sock[k].at = "compare" /\ k \notin tolerated =>
                      sock[k].seen = password[t] \/ Pending(t)
                 /\ sock[k].at = "open" /\ k \notin tolerated =>
                      password[t] \in {0, sock[k].sent} \/ Pending(t)
    <3> SUFFICES ASSUME NEW k \in Sockets PROVE Current(k)'
      BY DEF SocketsCurrent
    <3>1. CASE sock[k].at = "open" /\ sock[k].station = s
      <4>1. sock'[k].at = "closed"
        BY <1>1, <2>1, <3>1 DEF Disconnected, SocketsType, SocketStates
      <4> QED BY <4>1
    <3>2. CASE ~(sock[k].at = "open" /\ sock[k].station = s)
      <4>1. sock'[k] = sock[k]
        BY <2>1, <3>2 DEF Disconnected
      <4>2. k \notin tolerated' => k \notin tolerated /\ ~(sock[k].at = "compare" /\ sock[k].station = s)
        BY <2>1
      <4>3. Current(k)
        BY <1>1 DEF SocketsCurrent
      <4>4. sock[k].station = s /\ k \notin tolerated' => sock[k].at \notin {"compare", "open"}
        BY <3>2, <4>2
      <4> QED BY <1>7, <4>1, <4>2, <4>3, <4>4 DEF tables
    <3> QED BY <3>1, <3>2
  <2>2. CASE ~(call[c].op = "provision" /\ Again(call[c].read))
    BY <1>1, <1>7, <2>2 DEF SocketsCurrent, tables
  <2> QED BY <2>1, <2>2
<1> QED BY <1>2, <1>3, <1>4, <1>5, <1>6, <1>8 DEF IInv, TypeOK

LEMMA ProvisionReplyInv ==
  ASSUME IInv, NEW c \in Calls, ProvisionReply(c) PROVE IInv'
<1>1. /\ call[c] # Idle /\ call[c].op = "provision" /\ call[c].at = "reply"
      /\ call[c].station \in StationIds
  BY DEF ProvisionReply, Awaiting, IInv, Arguments
<1> QED BY <1>1, ReplyInv DEF ProvisionReply

LEMMA ResetReplyInv ==
  ASSUME IInv, NEW c \in Calls, ResetReply(c) PROVE IInv'
<1>1. /\ call[c] # Idle /\ call[c].op = "reset" /\ call[c].at = "reply"
      /\ call[c].station \in StationIds
  BY DEF ResetReply, Awaiting, IInv, Arguments
<1> QED BY <1>1, ReplyInv DEF ResetReply

------------------------------------------------------------------------------
(* Sockets, sessions and crashes                                            *)

LEMMA UpgradeInv ==
  ASSUME IInv, NEW k \in Sockets, NEW s \in StationIds, NEW p \in Passwords,
         Upgrade(k, s, p)
  PROVE  IInv'
<1> DEFINE new == [at |-> IF s \in stations THEN "compare" ELSE "closed",
                   station |-> s, sent |-> p, seen |-> password[s]]
<1>1. TablesType /\ SocketsType /\ SocketsCurrent
  BY DEF IInv, TypeOK
<1>2. new \in SocketStates
  BY <1>1 DEF TablesType, SocketStates
<1>3. /\ sock' = [sock EXCEPT ![k] = new]
      /\ UNCHANGED <<tables, call, tolerated, history>>
  BY DEF Upgrade
<1>4. SocketsType' /\ sock'[k] = new /\ \A j \in Sockets \ {k} : sock'[j] = sock[j]
  BY <1>1, <1>2, <1>3 DEF SocketsType
<1>5. \A t : Pending(t)' <=> Pending(t)
  BY <1>3 DEF Pending, Awaiting
<1>6. SocketsCurrent'
  BY <1>1, <1>3, <1>4, <1>5 DEF SocketsCurrent, tables
<1> QED
  BY <1>3, <1>4, <1>6
  DEF IInv, TypeOK, TablesType, CallsType, HistoryType, Keys, Arguments, ReadDecides,
      PasswordWasHandedOut, tables, history

(* A socket opens on what its handshake read.                               *)
LEMMA SocketEndsInv ==
  ASSUME IInv, NEW k \in Sockets, Verified(k) \/ Close(k) PROVE IInv'
<1>1. SocketsType /\ SocketsCurrent
  BY DEF IInv, TypeOK
<1>2. UNCHANGED <<tables, call, tolerated, history>>
  BY DEF Verified, Close
<1>3. \A j \in Sockets :
        /\ sock'[j] \in SocketStates
        /\ \/ sock'[j].at = "closed"
           \/ sock'[j] = sock[j]
           \/ /\ sock'[j].at = "open" /\ sock[j].at = "compare"
              /\ sock'[j].station = sock[j].station /\ sock'[j].sent = sock[j].sent
              /\ sock[j].seen \in {0, sock[j].sent}
  <2> SUFFICES ASSUME NEW j \in Sockets
               PROVE  /\ sock'[j] \in SocketStates
                      /\ \/ sock'[j].at = "closed"
                         \/ sock'[j] = sock[j]
                         \/ /\ sock'[j].at = "open" /\ sock[j].at = "compare"
                            /\ sock'[j].station = sock[j].station
                            /\ sock'[j].sent = sock[j].sent
                            /\ sock[j].seen \in {0, sock[j].sent}
    OBVIOUS
  <2>1. sock[j] \in SocketStates
    BY <1>1 DEF SocketsType
  <2>2. \A at \in {"open", "closed"} :
          LET x == [sock[j] EXCEPT !.at = at] IN
          /\ x \in SocketStates /\ x.at = at
          /\ x.station = sock[j].station /\ x.sent = sock[j].sent
    BY <2>1 DEF SocketStates
  <2>3. \/ sock'[j] = sock[j]
        \/ sock'[j] = [sock[j] EXCEPT !.at = "closed"]
        \/ /\ sock'[j] = [sock[j] EXCEPT !.at = "open"]
           /\ sock[j].at = "compare" /\ sock[j].seen \in {0, sock[j].sent}
    <3>1. CASE Close(k)
      BY <1>1, <3>1 DEF Close, SocketsType
    <3>2. CASE Verified(k) /\ ~Accepts(k)
      BY <1>1, <3>2 DEF Verified, SocketsType
    <3>3. CASE Verified(k) /\ Accepts(k)
      <4>1. /\ sock' = [Disconnected(sock[k].station) EXCEPT ![k].at = "open"]
            /\ sock[k].at = "compare" /\ sock[k].seen \in {0, sock[k].sent}
        BY <3>3 DEF Verified, Accepts
      <4>2. Disconnected(sock[k].station)[k] = sock[k]
        BY <4>1 DEF Disconnected
      <4> QED BY <4>1, <4>2 DEF Disconnected
    <3> QED BY <3>1, <3>2, <3>3
  <2> QED BY <2>1, <2>2, <2>3
<1>4. sock' = [j \in Sockets |-> sock'[j]]
  BY <1>1 DEF Verified, Close, Disconnected, SocketsType
<1>5. SocketsType'
  BY <1>1, <1>2, <1>3, <1>4 DEF SocketsType
<1>6. \A t : Pending(t)' <=> Pending(t)
  BY <1>2 DEF Pending, Awaiting
<1>7. SocketsCurrent'
  BY <1>1, <1>2, <1>3, <1>6 DEF SocketsCurrent, tables
<1> QED
  BY <1>2, <1>5, <1>7
  DEF IInv, TypeOK, TablesType, CallsType, HistoryType, Keys, Arguments, ReadDecides,
      PasswordWasHandedOut, tables, history

LEMMA StartSessionInv ==
  ASSUME IInv, NEW s \in StationIds, StartSession(s) PROVE IInv'
<1>1. /\ busy' \in SUBSET StationIds
      /\ UNCHANGED <<record, stations, password, lastNumber, call, sock, tolerated, history>>
  BY DEF StartSession, IInv, TypeOK, TablesType
<1>2. \A t : Pending(t)' <=> Pending(t)
  BY <1>1 DEF Pending, Awaiting
<1>3. SocketsCurrent'
  BY <1>1, <1>2 DEF IInv, SocketsCurrent
<1> QED
  BY <1>1, <1>3
  DEF IInv, TypeOK, TablesType, CallsType, SocketsType, HistoryType, Keys, Arguments,
      ReadDecides, PasswordWasHandedOut, history

(* A crash forgets the replies, and no socket outlives it.                  *)
LEMMA CrashInv ==
  ASSUME IInv, Crash PROVE IInv'
<1>1. /\ TablesType /\ CallsType /\ SocketsType /\ HistoryType /\ Keys
      /\ PasswordWasHandedOut
  BY DEF IInv, TypeOK
<1>2. /\ UNCHANGED <<tables, tolerated, given, calls>>
      /\ \A c \in Calls : call'[c] = Idle
      /\ call' = [c \in Calls |-> Idle]
      /\ forgotten' = forgotten \cup
           {call[c].n : c \in {d \in Calls : call[d] # Idle /\ call[d].at = "reply"}}
  BY DEF Crash
<1>3. CallsType' /\ Arguments' /\ ReadDecides'
  BY <1>2 DEF CallsType, Arguments, ReadDecides
<1>4. HistoryType'
  <2>1. \A c \in Calls : call[c] # Idle => call[c].n \in Passwords
    BY <1>1, CallsAssumption DEF CallsType, Requests, RecordIds, Passwords
  <2>2. faults' \in 0 .. MaxFaults
    BY <1>1, FaultsAssumption DEF Crash, CostsFault, HistoryType
  <2> QED BY <1>1, <1>2, <2>1, <2>2 DEF HistoryType
<1>5. SocketsType' /\ \A k \in Sockets : sock'[k].at \in {"new", "closed"}
  BY <1>1, <1>2 DEF Crash, SocketsType, SocketStates
<1>6. PasswordWasHandedOut'
  BY <1>1, <1>2 DEF PasswordWasHandedOut, tables
<1>7. SocketsCurrent'
  BY <1>5 DEF SocketsCurrent
<1>8. TablesType' /\ Keys'
  BY <1>1, <1>2 DEF TablesType, Keys, tables
<1> QED BY <1>3, <1>4, <1>5, <1>6, <1>7, <1>8 DEF IInv, TypeOK

LEMMA StutterInv ==
  ASSUME IInv, UNCHANGED vars PROVE IInv'
<1>1. \A t : Pending(t)' <=> Pending(t)
  BY DEF Pending, Awaiting, vars
<1>2. SocketsCurrent'
  BY <1>1 DEF IInv, SocketsCurrent, vars, tables
<1> QED
  BY <1>2
  DEF IInv, TypeOK, TablesType, CallsType, SocketsType, HistoryType, Keys, Arguments,
      ReadDecides, PasswordWasHandedOut, vars, tables, history

LEMMA NextInv ==
  ASSUME IInv, [Next]_vars PROVE IInv'
<1>1. ASSUME NEW c \in Calls,
             \/ Requested(c) \/ Provision(c) \/ Register(c) \/ RecordStep(c)
             \/ StationStep(c) \/ CallFails(c)
      PROVE  IInv'
  <2>1. CASE Requested(c) \/ CallFails(c)
    BY <2>1, RequestedInv, CallFailsInv
  <2>2. CASE Provision(c)
    BY <2>2, ProvisionFindInv, GenerateStationIdInv, ProvisionCommitInv, ProvisionReplyInv
    DEF Provision
  <2>3. CASE Register(c)
    BY <2>3, ChecksInv, RegisterCommitInv DEF Register
  <2>4. CASE RecordStep(c)
    BY <2>4, ChecksInv, RenameInv, RecordWriteInv DEF RecordStep
  <2>5. CASE StationStep(c)
    BY <2>5, ChecksInv, RecordWriteInv, DeleteStationInv, CreateStationInv,
       ResetPasswordInv, ResetReplyInv
    DEF StationStep
  <2> QED BY <1>1, <2>1, <2>2, <2>3, <2>4, <2>5
<1>2. ASSUME NEW k \in Sockets,
             \/ \E s \in StationIds, p \in Passwords :
                  (p = 0 \/ <<s, p>> \in given) /\ Upgrade(k, s, p)
             \/ Verified(k) \/ Close(k)
      PROVE  IInv'
  BY <1>2, UpgradeInv, SocketEndsInv
<1>3. ASSUME NEW s \in StationIds, StartSession(s) PROVE IInv'
  BY <1>3, StartSessionInv
<1>4. CASE Crash
  BY <1>4, CrashInv
<1>5. CASE Done \/ UNCHANGED vars
  BY <1>5, StutterInv DEF Done
<1> QED BY <1>1, <1>2, <1>3, <1>4, <1>5 DEF Next

(* The invariant holds in every behaviour.                                  *)
THEOREM Inductive == Spec => []IInv
<1>1. Init => IInv
  BY InitInv
<1>2. IInv /\ [Next]_vars => IInv'
  BY NextInv
<1> QED BY <1>1, <1>2, PTL DEF Spec

------------------------------------------------------------------------------
(* What follows                                                             *)

(* The tables, requests and sockets stay in their types, and the unique     *)
(* keys and the links of schema.prisma hold.                                *)
THEOREM TypeCorrect == Spec => []TypeOK
  BY Inductive, PTL DEF IInv

(* Whatever fails between the transaction and the reply, but for a crash,   *)
(* no station has a password nobody was given (provision.service.ts:69).    *)
THEOREM NobodyLockedOut == Spec => []PasswordWasHandedOut
  BY Inductive, PTL DEF IInv

(* Once a provisioning again has replied, no socket let in with an older    *)
(* password is open (provision.service.ts:95-98), tolerated ones aside.     *)
THEOREM OldDevicesAreOut == Spec => []OldCredentialsAreOut
<1>1. IInv => OldCredentialsAreOut
  BY DEF IInv, SocketsCurrent, OldCredentialsAreOut, Pending
<1> QED BY <1>1, Inductive, PTL

------------------------------------------------------------------------------
(* Action properties                                                        *)

(* Only three steps write passwords.                                        *)
LEMMA PasswordWriters ==
  ASSUME [Next]_vars
  PROVE  \/ UNCHANGED password
         \/ \E c \in Calls : ProvisionCommit(c) \/ DeleteStation(c) \/ ResetPassword(c)
<1> USE DEF tables, history
<1>1. ASSUME NEW c \in Calls, Requested(c) PROVE UNCHANGED password
  BY <1>1
  DEF Requested, RequestProvision, RequestRegister, RequestOnRecord, RequestOnStation, Request
<1>2. ASSUME NEW c \in Calls, Provision(c), ~ProvisionCommit(c) PROVE UNCHANGED password
  BY <1>2 DEF Provision, ProvisionFind, GenerateStationId, ProvisionReply
<1>3. ASSUME NEW c \in Calls, Register(c) \/ RecordStep(c) \/ CallFails(c)
      PROVE  UNCHANGED password
  BY <1>3
  DEF Register, RegisterFind, StationIsFree, RegisterCommit, RecordStep, FindById,
      RejectTouch, Rename, Reject, Revoke, DeleteRecord, CallFails
<1>4. ASSUME NEW c \in Calls, StationStep(c), ~DeleteStation(c), ~ResetPassword(c)
      PROVE  UNCHANGED password
  BY <1>4
  DEF StationStep, FindRecord, DeleteByStationId, StationExists, CountSessions,
      CreateStation, ResetReply
<1>5. ASSUME NEW k \in Sockets,
             \/ \E s \in StationIds, p \in Passwords :
                  (p = 0 \/ <<s, p>> \in given) /\ Upgrade(k, s, p)
             \/ Verified(k) \/ Close(k)
      PROVE  UNCHANGED password
  BY <1>5 DEF Upgrade, Verified, Close
<1>6. ASSUME \/ \E s \in StationIds : StartSession(s)
             \/ Crash \/ Done \/ UNCHANGED vars
      PROVE  UNCHANGED password
  BY <1>6 DEF StartSession, Crash, Done, vars
<1> QED BY <1>1, <1>2, <1>3, <1>4, <1>5, <1>6 DEF Next

------------------------------------------------------------------------------
(* The numbers the sequence draws                                           *)

AtCommit(c) == Awaiting(c, "provision", "commit")

(* The record that was read named no station: the number was drawn.         *)
Drawn(c) == AtCommit(c) /\ StationOf(call[c].read) = 0

(* A number in the hands of a provisioning that drew it is nobody else's,   *)
(* unless people chose it too: every id that is not theirs is one the       *)
(* sequence has passed, whichever stations were deleted since.              *)
NumbersAreFresh ==
  /\ \A s \in stations : s \in ClientIds \/ s <= lastNumber
  /\ \A c \in Calls :
       AtCommit(c) => call[c].station \in ClientIds \/ call[c].station <= lastNumber
  /\ \A c \in Calls : Drawn(c) => call[c].station \notin stations \ ClientIds
  /\ \A c, d \in Calls :
       /\ Drawn(c) /\ AtCommit(d) /\ c # d /\ call[c].station = call[d].station
       => call[c].station \in ClientIds
  /\ \A c \in Calls :
       call[c] # Idle /\ call[c].op = "create" => call[c].station \in ClientIds

(* Steps that bring no provisioning to its transaction and no station but   *)
(* one that people chose.                                                   *)
LEMMA FreshQuiet ==
  ASSUME NumbersAreFresh, UNCHANGED lastNumber, stations' \subseteq stations \cup ClientIds,
         \A d \in Calls : AtCommit(d)' => call'[d] = call[d],
         \A d \in Calls :
           call'[d] # Idle /\ call'[d].op = "create" => call'[d].station \in ClientIds
  PROVE  NumbersAreFresh'
<1>1. \A d \in Calls : AtCommit(d)' => AtCommit(d) /\ call'[d].station = call[d].station
  BY DEF AtCommit, Awaiting
<1>2. \A d \in Calls : Drawn(d)' => Drawn(d) /\ call'[d].station = call[d].station
  BY <1>1 DEF Drawn
<1> QED BY <1>1, <1>2 DEF NumbersAreFresh

(* One request moves on, and provides no transaction of provision.          *)
LEMMA FreshMoves ==
  ASSUME IInv, NumbersAreFresh, UNCHANGED lastNumber,
         stations' \subseteq stations \cup ClientIds, NEW c \in Calls, call[c] # Idle,
         \/ Return(c)
         \/ \E at \in Awaits : Goto(c, at) /\ (call[c].op = "provision" => at = "reply")
  PROVE  NumbersAreFresh'
<1>1. CallsType
  BY DEF IInv, TypeOK
<1>2. CASE Return(c)
  BY <1>1, <1>2, ReturnShape, FreshQuiet DEF NumbersAreFresh, AtCommit, Awaiting
<1>3. ASSUME NEW at \in Awaits, Goto(c, at), call[c].op = "provision" => at = "reply"
      PROVE  NumbersAreFresh'
  <2>1. /\ call'[c] = [call[c] EXCEPT !.at = at] /\ call[c] \in Requests
        /\ \A d \in Calls \ {c} : call'[d] = call[d]
    BY <1>1, <1>3, GotoShape DEF CallsType
  <2>2. /\ call'[c].op = call[c].op /\ call'[c].at = at
        /\ call'[c].station = call[c].station
    BY <2>1 DEF Requests
  <2>3. ~AtCommit(c)'
    BY <1>3, <2>2 DEF AtCommit, Awaiting
  <2> QED BY <2>1, <2>2, <2>3, FreshQuiet DEF NumbersAreFresh
<1> QED BY <1>2, <1>3

LEMMA FreshRequest ==
  ASSUME IInv, NumbersAreFresh, NEW c \in Calls, Requested(c)
  PROVE  NumbersAreFresh'
<1>1. PICK op \in Operations, i \in RecordIds \cup {0}, sn \in Serials \cup {NoSerial},
           s \in StationIds \cup {0} :
        Request(c, op, i, sn, s) /\ (op = "create" => s \in ClientIds)
  <2>1. stations \subseteq StationIds /\ ClientIds \subseteq StationIds
    BY DEF IInv, TypeOK, TablesType, StationIds
  <2>2. CASE RequestProvision(c) \/ RequestRegister(c)
    BY <2>1, <2>2 DEF RequestProvision, RequestRegister, Operations
  <2>3. CASE RequestOnRecord(c)
    BY <2>3 DEF RequestOnRecord, Operations
  <2>4. CASE RequestOnStation(c)
    BY <2>1, <2>4 DEF RequestOnStation, Operations
  <2> QED BY <2>2, <2>3, <2>4 DEF Requested
<1>2. /\ UNCHANGED <<stations, lastNumber>>
      /\ call' = [call EXCEPT ![c] =
                    [op |-> op, at |-> FirstAwait(op), n |-> calls + 1, id |-> i,
                     serial |-> sn, station |-> s, read |-> Absent]]
      /\ CallsType
  BY <1>1 DEF Request, tables, IInv, TypeOK
<1>3. /\ call'[c].op = op /\ call'[c].at = FirstAwait(op) /\ call'[c].station = s
      /\ \A d \in Calls \ {c} : call'[d] = call[d]
  BY <1>2 DEF CallsType
<1>4. ~AtCommit(c)'
  BY <1>3 DEF AtCommit, Awaiting, FirstAwait
<1> QED BY <1>1, <1>2, <1>3, <1>4, FreshQuiet DEF NumbersAreFresh

(* The record names a station that exists or that people chose.             *)
LEMMA NamedStation ==
  ASSUME IInv, NEW i \in RecordIds, Exists(i)
  PROVE  StationOf(record[i]) \in stations \cup ClientIds \cup {0}
<1>1. record[i] \in Records /\ record[i].station \in stations \cup {0}
  BY RecordFacts DEF IInv, TypeOK, Keys
<1> QED BY <1>1 DEF StationOf, Records

LEMMA FreshFind ==
  ASSUME IInv, NumbersAreFresh, NEW c \in Calls, ProvisionFind(c)
  PROVE  NumbersAreFresh'
<1> DEFINE rows == WithSerial(call[c].serial)
           i == CHOOSE j \in rows : Admitted(record[j])
           s == StationOf(record[i])
<1>0. /\ call[c] \in Requests /\ call[c] # Idle /\ call[c].op = "provision" /\ CallsType
      /\ UNCHANGED <<stations, lastNumber>>
  BY DEF ProvisionFind, Awaiting, IInv, TypeOK, CallsType, tables
<1>1. CASE ~ \E j \in rows : Admitted(record[j])
  BY <1>0, <1>1, FreshMoves DEF ProvisionFind
<1>2. CASE \E j \in rows : Admitted(record[j])
  <2>1. i \in RecordIds /\ Exists(i)
    BY <1>2 DEF WithSerial
  <2>2. s \in stations \cup ClientIds \cup {0}
    BY <2>1, NamedStation
  <2> DEFINE q == [call[c] EXCEPT !.read = record[i], !.station = s,
                                  !.at = IF s # 0 THEN "commit" ELSE "number"]
  <2>3. call' = [call EXCEPT ![c] = q]
    BY <1>2 DEF ProvisionFind
  <2>4. /\ call'[c] = q /\ \A d \in Calls \ {c} : call'[d] = call[d]
    BY <1>0, <2>3 DEF CallsType
  <2>5. /\ call'[c].op = "provision" /\ call'[c].station = s
        /\ call'[c].at = (IF s # 0 THEN "commit" ELSE "number")
        /\ StationOf(call'[c].read) = s
    BY <1>0, <2>4 DEF Requests
  <2> HIDE DEF q, s, i, rows
  <2>6. ~Drawn(c)' /\ (AtCommit(c)' => s \in stations \cup ClientIds)
    BY <2>2, <2>5 DEF Drawn, AtCommit, Awaiting
  <2>7. \A d \in Calls \ {c} :
          /\ Drawn(d)' <=> Drawn(d)
          /\ AtCommit(d)' <=> AtCommit(d)
          /\ call'[d].station = call[d].station
    BY <2>4 DEF Drawn, AtCommit, Awaiting
  <2>8. \A d \in Calls : AtCommit(d)' =>
          call'[d].station \in ClientIds \/ call'[d].station <= lastNumber'
    BY <1>0, <2>5, <2>6, <2>7 DEF NumbersAreFresh
  <2>9. \A d \in Calls : Drawn(d)' => call'[d].station \notin stations' \ ClientIds
    BY <1>0, <2>6, <2>7 DEF NumbersAreFresh
  <2>10. \A d, e \in Calls :
          /\ Drawn(d)' /\ AtCommit(e)' /\ d # e /\ call'[d].station = call'[e].station
          => call'[d].station \in ClientIds
    <3> SUFFICES ASSUME NEW d \in Calls, NEW e \in Calls, Drawn(d)', AtCommit(e)', d # e,
                        call'[d].station = call'[e].station
                 PROVE  call'[d].station \in ClientIds
      OBVIOUS
    <3>1. d # c /\ Drawn(d) /\ call'[d].station = call[d].station
      BY <2>6, <2>7
    <3>2. CASE e = c
      BY <2>5, <2>6, <3>1, <3>2 DEF NumbersAreFresh
    <3>3. CASE e # c
      BY <2>7, <3>1, <3>3 DEF NumbersAreFresh
    <3> QED BY <3>2, <3>3
  <2>11. \A d \in Calls :
          call'[d] # Idle /\ call'[d].op = "create" => call'[d].station \in ClientIds
    BY <2>4, <2>5 DEF NumbersAreFresh
  <2> QED BY <1>0, <2>8, <2>9, <2>10, <2>11 DEF NumbersAreFresh
<1> QED BY <1>1, <1>2

(* The number is above every one that was drawn.                            *)
LEMMA FreshGenerate ==
  ASSUME IInv, NumbersAreFresh, NEW c \in Calls, GenerateStationId(c)
  PROVE  NumbersAreFresh'
<1> DEFINE n == lastNumber + 1
<1>1. /\ call[c] \in Requests /\ call[c] # Idle /\ call[c].op = "provision" /\ CallsType
      /\ call' = [call EXCEPT ![c].station = n, ![c].at = "commit"]
      /\ lastNumber \in Nat /\ lastNumber' = n /\ UNCHANGED stations
      /\ stations \subseteq Nat
  BY StationsAreNotZero, CallsAssumption
  DEF GenerateStationId, Awaiting, IInv, TypeOK, CallsType, TablesType
<1>2. /\ call'[c].op = "provision" /\ call'[c].at = "commit" /\ call'[c].station = n
      /\ \A d \in Calls \ {c} : call'[d] = call[d]
  BY <1>1 DEF CallsType, Requests
<1>3. \A d \in Calls \ {c} :
        /\ Drawn(d)' <=> Drawn(d)
        /\ AtCommit(d)' <=> AtCommit(d)
        /\ call'[d].station = call[d].station
  BY <1>2 DEF Drawn, AtCommit, Awaiting
<1>4. \A d \in Calls : AtCommit(d) => call[d].station \in ClientIds \cup (1 .. lastNumber)
  <2>1. \A d \in Calls : AtCommit(d) => call[d].station \in StationIds
    BY DEF IInv, Arguments, AtCommit, Awaiting
  <2>2. \A s \in StationIds : s \in Nat \ {0}
    BY StationsAreNotZero
  <2> QED BY <1>1, <2>1, <2>2 DEF NumbersAreFresh
<1>5. n \notin 1 .. lastNumber /\ n \notin stations \ ClientIds
      /\ \A s \in 1 .. lastNumber : s <= n
  BY <1>1 DEF NumbersAreFresh
<1>a. \A s \in stations : s \in ClientIds \/ s <= n
  BY <1>1 DEF NumbersAreFresh
<1> HIDE DEF n
<1>6. \A d \in Calls : AtCommit(d)' => call'[d].station \in ClientIds \/ call'[d].station <= n
  <2>1. n <= n
    BY <1>1 DEF n
  <2> QED BY <1>2, <1>3, <1>4, <1>5, <2>1
<1>7. \A d \in Calls : Drawn(d)' => call'[d].station \notin stations \ ClientIds
  BY <1>2, <1>3, <1>5 DEF NumbersAreFresh
<1>8. \A d, e \in Calls :
        /\ Drawn(d)' /\ AtCommit(e)' /\ d # e /\ call'[d].station = call'[e].station
        => call'[d].station \in ClientIds
  <2> SUFFICES ASSUME NEW d \in Calls, NEW e \in Calls, Drawn(d)', AtCommit(e)', d # e,
                      call'[d].station = call'[e].station
               PROVE  call'[d].station \in ClientIds
    OBVIOUS
  <2>1. AtCommit(d)'
    BY DEF Drawn
  <2>2. CASE d = c \/ e = c
    BY <1>2, <1>3, <1>4, <1>5, <2>1, <2>2
  <2>3. CASE d # c /\ e # c
    BY <1>3, <2>3 DEF NumbersAreFresh
  <2> QED BY <2>2, <2>3
<1>9. \A d \in Calls :
        call'[d] # Idle /\ call'[d].op = "create" => call'[d].station \in ClientIds
  BY <1>2 DEF NumbersAreFresh
<1> QED BY <1>1, <1>a, <1>6, <1>7, <1>8, <1>9 DEF NumbersAreFresh

LEMMA FreshCommit ==
  ASSUME IInv, NumbersAreFresh, NEW c \in Calls, ProvisionCommit(c)
  PROVE  NumbersAreFresh'
<1>1. /\ call[c] \in Requests /\ call[c] # Idle /\ AtCommit(c) /\ CallsType
      /\ UNCHANGED lastNumber
  BY DEF ProvisionCommit, AtCommit, Awaiting, IInv, TypeOK, CallsType
<1>2. CASE Return(c) /\ UNCHANGED stations
  BY <1>1, <1>2, FreshMoves
<1>3. CASE Goto(c, "reply") /\ stations' = stations \cup {call[c].station}
  <2>1. /\ call'[c] = [call[c] EXCEPT !.at = "reply"]
        /\ \A d \in Calls \ {c} : call'[d] = call[d]
    BY <1>1, <1>3, GotoShape DEF Awaits
  <2>2. call'[c].at = "reply" /\ call'[c].op = "provision"
    BY <1>1, <2>1 DEF Requests, AtCommit, Awaiting
  <2>3. ~AtCommit(c)' /\ ~Drawn(c)'
    BY <2>2 DEF AtCommit, Awaiting, Drawn
  <2>4. \A d \in Calls \ {c} :
          /\ Drawn(d)' <=> Drawn(d)
          /\ AtCommit(d)' <=> AtCommit(d)
          /\ call'[d].station = call[d].station
    BY <2>1 DEF Drawn, AtCommit, Awaiting
  <2>5. \A s \in stations' : s \in ClientIds \/ s <= lastNumber'
    BY <1>1, <1>3 DEF NumbersAreFresh
  <2>6. \A d \in Calls : AtCommit(d)' =>
          call'[d].station \in ClientIds \/ call'[d].station <= lastNumber'
    BY <1>1, <2>3, <2>4 DEF NumbersAreFresh
  <2>7. \A d \in Calls : Drawn(d)' => call'[d].station \notin stations' \ ClientIds
    BY <1>1, <1>3, <2>3, <2>4 DEF NumbersAreFresh
  <2>8. \A d, e \in Calls :
          /\ Drawn(d)' /\ AtCommit(e)' /\ d # e /\ call'[d].station = call'[e].station
          => call'[d].station \in ClientIds
    BY <2>3, <2>4 DEF NumbersAreFresh
  <2>9. \A d \in Calls :
          call'[d] # Idle /\ call'[d].op = "create" => call'[d].station \in ClientIds
    BY <2>1, <2>2 DEF NumbersAreFresh
  <2> QED BY <2>5, <2>6, <2>7, <2>8, <2>9 DEF NumbersAreFresh
<1> QED BY <1>2, <1>3 DEF ProvisionCommit

(* The other steps of a request move no provisioning, and bring no station  *)
(* but one that people chose.                                               *)
LEMMA FreshOthers ==
  ASSUME IInv, NumbersAreFresh, NEW c \in Calls,
         \/ ProvisionReply(c) \/ Register(c) \/ RecordStep(c) \/ StationStep(c)
         \/ CallFails(c)
  PROVE  NumbersAreFresh'
<1> USE DEF tables, history
<1>1. CASE ProvisionReply(c) \/ CallFails(c)
  BY <1>1, FreshMoves DEF ProvisionReply, CallFails, Awaiting
<1>2. CASE Register(c) \/ RecordStep(c) \/ StationStep(c)
  <2>1. call[c] # Idle /\ call[c].op # "provision" /\ UNCHANGED lastNumber
    BY <1>2
    DEF Register, RegisterFind, StationIsFree, RegisterCommit, RecordStep, FindById,
        RejectTouch, Rename, Reject, Revoke, DeleteRecord, StationStep, FindRecord,
        DeleteByStationId, StationExists, CountSessions, DeleteStation, CreateStation,
        ResetPassword, ResetReply, Awaiting
  <2>2. Return(c) \/ \E at \in Awaits : Goto(c, at)
    BY <1>2
    DEF Register, RegisterFind, StationIsFree, RegisterCommit, RecordStep, FindById,
        RejectTouch, Rename, Reject, Revoke, DeleteRecord, StationStep, FindRecord,
        DeleteByStationId, StationExists, CountSessions, DeleteStation, CreateStation,
        ResetPassword, ResetReply, GotoIf, Awaits
  <2>3. stations' \subseteq stations \cup ClientIds
    <3>1. CASE RegisterCommit(c)
      <4>1. call[c].station \in ClientIds \cup {0}
        BY <2>1, <3>1 DEF RegisterCommit, Awaiting, IInv, Arguments
      <4> QED BY <3>1, <4>1 DEF RegisterCommit
    <3>2. CASE CreateStation(c)
      <4>1. call[c].station \in ClientIds
        BY <2>1, <3>2 DEF CreateStation, Awaiting, NumbersAreFresh
      <4> QED BY <3>2, <4>1 DEF CreateStation
    <3>3. CASE DeleteStation(c)
      BY <3>3 DEF DeleteStation
    <3>4. CASE ~RegisterCommit(c) /\ ~CreateStation(c) /\ ~DeleteStation(c)
      BY <1>2, <3>4
      DEF Register, RegisterFind, StationIsFree, RecordStep, FindById, RejectTouch, Rename,
          Reject, Revoke, DeleteRecord, StationStep, FindRecord, DeleteByStationId,
          StationExists, CountSessions, ResetPassword, ResetReply
    <3> QED BY <3>1, <3>2, <3>3, <3>4
  <2> QED BY <2>1, <2>2, <2>3, FreshMoves
<1> QED BY <1>1, <1>2

LEMMA FreshStep == IInv /\ NumbersAreFresh /\ [Next]_vars => NumbersAreFresh'
<1> SUFFICES ASSUME IInv, NumbersAreFresh, [Next]_vars PROVE NumbersAreFresh'
  OBVIOUS
<1>1. ASSUME NEW c \in Calls,
             \/ Requested(c) \/ Provision(c) \/ Register(c) \/ RecordStep(c)
             \/ StationStep(c) \/ CallFails(c)
      PROVE  NumbersAreFresh'
  BY <1>1, FreshRequest, FreshFind, FreshGenerate, FreshCommit, FreshOthers DEF Provision
<1>2. ASSUME \/ \E k \in Sockets :
                  \/ \E s \in StationIds, p \in Passwords :
                       (p = 0 \/ <<s, p>> \in given) /\ Upgrade(k, s, p)
                  \/ Verified(k) \/ Close(k)
             \/ \E s \in StationIds : StartSession(s)
             \/ Done \/ UNCHANGED vars
      PROVE  NumbersAreFresh'
  <2>1. UNCHANGED <<stations, lastNumber, call>>
    BY <1>2 DEF Upgrade, Verified, Close, StartSession, Done, vars, tables
  <2> QED BY <2>1, FreshQuiet DEF NumbersAreFresh
<1>3. CASE Crash
  <2>1. UNCHANGED <<stations, lastNumber>> /\ \A d \in Calls : call'[d] = Idle
    BY <1>3 DEF Crash, tables
  <2> QED BY <2>1, FreshQuiet DEF AtCommit, Awaiting
<1> QED BY <1>1, <1>2, <1>3 DEF Next

(* The sequence never draws the id of a station twice, nor one that two     *)
(* provisionings hold, except ids that people chose                         *)
(* (provision.service.ts:119-129).                                          *)
THEOREM DrawnNumbersAreFresh == Spec => []NumbersAreFresh
<1>1. Init => NumbersAreFresh
  BY DEF Init, NumbersAreFresh, Drawn, AtCommit, Awaiting
<1> QED BY <1>1, FreshStep, Inductive, PTL DEF Spec

(* The password of a station changes by a reset of it, or by a provisioning *)
(* while no other serial number's record is linked to it, which knew the    *)
(* station from its record or drew a number that people chose too: no other *)
(* id comes twice, whatever was deleted (provision.service.ts:60-84, 119).  *)
THEOREM RotationsExplained == Spec => RotationsAreExplained
<1>1. ASSUME IInv, NumbersAreFresh, [Next]_vars,
             NEW s \in stations \cap stations', password'[s] # password[s]
      PROVE  \E c \in Calls :
               /\ call[c] # Idle /\ call[c].at = "commit" /\ call[c].station = s
               /\ \/ call[c].op = "reset"
                  \/ /\ call[c].op = "provision"
                     /\ LinkedTo(s) \subseteq WithSerial(call[c].serial)
                     /\ StationOf(call[c].read) = s \/ s \in ClientIds
  <2>1. TablesType /\ s \in StationIds
    BY <1>1 DEF IInv, TypeOK, TablesType
  <2>2. PICK c \in Calls : ProvisionCommit(c) \/ DeleteStation(c) \/ ResetPassword(c)
    BY <1>1, PasswordWriters
  <2>3. CASE ProvisionCommit(c)
    <3>1. /\ AtCommit(c) /\ Linkable(call[c].serial, call[c].station)
          /\ password' = [password EXCEPT ![call[c].station] = call[c].n]
      BY <1>1, <2>3 DEF ProvisionCommit, AtCommit
    <3>2. call[c].station = s
      BY <1>1, <2>1, <3>1 DEF TablesType
    <3>3. StationOf(call[c].read) = s \/ s \in ClientIds
      <4>1. CASE Drawn(c)
        BY <1>1, <3>2, <4>1 DEF NumbersAreFresh
      <4>2. CASE ~Drawn(c)
        BY <1>1, <3>1, <3>2, <4>2 DEF Drawn, AtCommit, Awaiting, IInv, ReadDecides
      <4> QED BY <4>1, <4>2
    <3> QED BY <3>1, <3>2, <3>3 DEF Linkable, AtCommit, Awaiting
  <2>4. CASE DeleteStation(c)
    <3>1. /\ stations' = stations \ {call[c].station}
          /\ password' = [password EXCEPT ![call[c].station] = 0]
      BY <1>1, <2>4 DEF DeleteStation
    <3> QED BY <1>1, <2>1, <3>1 DEF TablesType
  <2>5. CASE ResetPassword(c)
    <3>1. /\ call[c] # Idle /\ call[c].at = "commit" /\ call[c].op = "reset"
          /\ password' = [password EXCEPT ![call[c].station] = call[c].n]
      BY <1>1, <2>5 DEF ResetPassword, Awaiting
    <3> QED BY <1>1, <2>1, <3>1 DEF TablesType
  <2> QED BY <2>2, <2>3, <2>4, <2>5
<1>2. IInv /\ NumbersAreFresh /\ [Next]_vars =>
        [\A s \in stations \cap stations' : password'[s] # password[s] =>
           \E c \in Calls :
             /\ call[c] # Idle /\ call[c].at = "commit" /\ call[c].station = s
             /\ \/ call[c].op = "reset"
                \/ /\ call[c].op = "provision"
                   /\ LinkedTo(s) \subseteq WithSerial(call[c].serial)
                   /\ StationOf(call[c].read) = s \/ s \in ClientIds]_vars
  BY <1>1
<1> QED
  BY <1>2, Inductive, DrawnNumbersAreFresh, PTL DEF Spec, RotationsAreExplained

(* Of one request.                                                          *)
LEMMA OwnStep ==
  ASSUME IInv, [Next]_vars, NEW c \in Calls,
         Awaiting(c, "provision", "commit"), call'[c].at = "reply"
  PROVE  ProvisionCommit(c)
<1> USE DEF tables, history
<1>1. CallsType /\ call[c] # Idle /\ call[c].op = "provision" /\ call[c].at = "commit"
  BY DEF IInv, TypeOK, Awaiting
<1>2. call'[c] # call[c] /\ call'[c] # Idle
  BY <1>1
<1>3. \A d \in Calls : Return(d) => call'[c] = IF d = c THEN Idle ELSE call[c]
  BY <1>1 DEF CallsType, Return
<1>4. \A d \in Calls, at \in Awaits : d # c /\ Goto(d, at) => call'[c] = call[c]
  BY <1>1 DEF CallsType, Goto
<1>5. ASSUME NEW d \in Calls,
             \/ Requested(d) \/ Provision(d) \/ Register(d) \/ RecordStep(d)
             \/ StationStep(d) \/ CallFails(d)
      PROVE  ProvisionCommit(c)
  <2>1. CASE Requested(d)
    <3>1. call[d] = Idle /\ \E q : call' = [call EXCEPT ![d] = q]
      BY <2>1 DEF Requested, RequestProvision, RequestRegister, RequestOnRecord,
                  RequestOnStation, Request
    <3> QED BY <1>1, <1>2, <3>1 DEF CallsType
  <2>2. CASE Provision(d) /\ d # c
    <3>1. \/ Return(d) \/ \E at \in Awaits : Goto(d, at)
          \/ \E q : call' = [call EXCEPT ![d] = q]
      BY <2>2 DEF Provision, ProvisionFind, GenerateStationId, ProvisionCommit,
                  ProvisionReply, Awaits
    <3> QED BY <1>1, <1>2, <1>3, <1>4, <2>2, <3>1 DEF CallsType
  <2>3. CASE Provision(d) /\ d = c
    BY <1>1, <2>3 DEF Provision, ProvisionFind, GenerateStationId, ProvisionReply, Awaiting
  <2>4. CASE Register(d) \/ RecordStep(d) \/ StationStep(d)
    <3>1. call[d].op # "provision"
      BY <2>4
      DEF Register, RegisterFind, StationIsFree, RegisterCommit, RecordStep, FindById,
          RejectTouch, Rename, Reject, Revoke, DeleteRecord, StationStep, FindRecord,
          DeleteByStationId, StationExists, CountSessions, DeleteStation, CreateStation,
          ResetPassword, ResetReply, Awaiting
    <3>2. Return(d) \/ \E at \in Awaits : Goto(d, at)
      BY <2>4
      DEF Register, RegisterFind, StationIsFree, RegisterCommit, RecordStep, FindById,
          RejectTouch, Rename, Reject, Revoke, DeleteRecord, StationStep, FindRecord,
          DeleteByStationId, StationExists, CountSessions, DeleteStation, CreateStation,
          ResetPassword, ResetReply, GotoIf, Awaits
    <3> QED BY <1>1, <1>2, <1>3, <1>4, <3>1, <3>2
  <2>5. CASE CallFails(d)
    BY <1>2, <1>3, <2>5 DEF CallFails
  <2> QED BY <1>5, <2>1, <2>2, <2>3, <2>4, <2>5
<1>6. ASSUME NEW k \in Sockets,
             \/ \E s \in StationIds, p \in Passwords :
                  (p = 0 \/ <<s, p>> \in given) /\ Upgrade(k, s, p)
             \/ Verified(k) \/ Close(k)
      PROVE  FALSE
  BY <1>2, <1>6 DEF Upgrade, Verified, Close
<1>7. ASSUME \/ \E s \in StationIds : StartSession(s)
             \/ Crash \/ Done \/ UNCHANGED vars
      PROVE  FALSE
  BY <1>2, <1>7 DEF StartSession, Crash, Done, vars
<1> QED BY <1>5, <1>6, <1>7 DEF Next

(* A provisioning whose record nobody wrote since it read it revives no     *)
(* rejected or revoked record, and moves none to another station            *)
(* (provision.service.ts:27-66).                                            *)
THEOREM UndisturbedKeeps == Spec => UndisturbedProvisionKeeps
<1>1. ASSUME IInv, [Next]_vars, NEW c \in Calls, NEW i \in RecordIds,
             Awaiting(c, "provision", "commit"), call'[c].at = "reply",
             record[i] = call[c].read
      PROVE  /\ record[i].status \notin Barred
             /\ record[i].station # 0 => record'[i].station = record[i].station
             /\ record[i].station = 0 /\ record[i].client # 0 =>
                  record'[i].station = record[i].client
  <2>1. ProvisionCommit(c)
    BY <1>1, OwnStep
  <2>2. /\ record[i] \in Records /\ record[i].serial = call[c].serial
        /\ Admitted(record[i])
        /\ StationOf(record[i]) # 0 => call[c].station = StationOf(record[i])
    BY <1>1 DEF IInv, ReadDecides, Awaiting
  <2>3. Linkable(call[c].serial, call[c].station)
    <3>1. SUFFICES ASSUME Return(c) PROVE FALSE
      BY <2>1 DEF ProvisionCommit
    <3>2. call'[c] = Idle
      BY <1>1, <3>1, ReturnShape DEF IInv, TypeOK
    <3> QED BY <1>1, <3>2
  <2>4. i \in WithSerial(call[c].serial)
    BY <1>1, <2>2, RecordFacts DEF WithSerial, IInv, TypeOK
  <2>5. record'[i] = [record[i] EXCEPT !.station = call[c].station, !.status = "provisioned"]
    BY <2>1, <2>3, <2>4 DEF ProvisionCommit
  <2>6. record'[i].station = call[c].station
    BY <2>2, <2>5 DEF Records
  <2> QED BY <2>2, <2>6 DEF Admitted, StationOf
<1>2. IInv /\ [Next]_vars =>
        [\A c \in Calls, i \in RecordIds :
           /\ Awaiting(c, "provision", "commit") /\ call'[c].at = "reply"
           /\ record[i] = call[c].read
           => /\ record[i].status \notin Barred
              /\ record[i].station # 0 => record'[i].station = record[i].station
              /\ record[i].station = 0 /\ record[i].client # 0 =>
                   record'[i].station = record[i].client]_vars
  BY <1>1
<1> QED BY <1>2, Inductive, PTL DEF Spec, UndisturbedProvisionKeeps
==============================================================================
