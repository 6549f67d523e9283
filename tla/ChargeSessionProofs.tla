-------------------------- MODULE ChargeSessionProofs --------------------------
(* Proofs about ChargeSession, for any number of sessions, connectors,      *)
(* handlers in flight, calls and faults: its types, that rows and events    *)
(* agree, that a session's start comes first and that faults pay for what   *)
(* is published twice; and, while nothing fails, what the Core, the charger *)
(* and the outbox agree on.                                                 *)
EXTENDS ChargeSession, FiniteSetTheorems, SequenceTheorems, TLAPS

USE DEF NoTx

------------------------------------------------------------------------------
(* The inductive invariant                                                  *)

(* A row is kept for every card start in flight.                            *)
Room == nextTx + Cardinality(CardStarts) <= MaxTx + 1

RowsFree == \A t \in TxIds : t >= nextTx => status[t] = "none"

(* What a handler carries from its read: rows that exist, and started ones  *)
(* where it is about to publish something of them.                          *)
Knows(s) ==
  call[s] # Idle =>
    /\ \A t \in call[s].found : t < nextTx
    /\ \/ call[s].at = "report"
       \/ call[s].msg.action = "StopTransaction" /\ call[s].at = "commit"
       => \A t \in call[s].found : linked[t]
    /\ call[s].msg.action = "StatusNotification" /\ call[s].at = "read"
       => call[s].msg.connector \in Connectors

HandlersKnow == \A s \in Slots : Knows(s)

TableInv  == SessionsType /\ RowsFree
EventsInv == OutboxType /\ OutboxAgreesWithRows /\ StartComesFirst
CallsInv  == HandlersType /\ Room /\ HandlersKnow

IInv == TableInv /\ EventsInv /\ CallsInv /\ DevicesType /\ HistoryType

------------------------------------------------------------------------------
(* Data                                                                     *)

LEMMA MessageFields ==
  ASSUME NEW m \in Messages
  PROVE  /\ m.action \in {"StartTransaction", "StopTransaction"}
              => m.connector \in Connectors /\ m.tx \in TxIds \cup {NoTx}
         /\ m.action = "MeterValues" => m.connector \in Connectors
         /\ m.action = "StatusNotification"
              => m.connector \in Connectors \cup {Station} /\ m.report \in Reports
BY DEF Messages

LEMMA IdleIsNone == Idle \notin Handlers /\ Idle.at \notin Points
BY DEF Idle, Handlers, Points

LEMMA EventsDiffer ==
  /\ \A a, b, t, u : TxEvent(a, t) = TxEvent(b, u) => a = b /\ t = u
  /\ \A a \in TxEventTypes, b \in ConnectorEventTypes :
       \A t, c : TxEvent(a, t) # ConnectorEvent(b, c)
  /\ \A a \in TxEventTypes : \A t : TxEvent(a, t) # [type |-> "StationOnline"]
BY DEF TxEvent, ConnectorEvent, TxEventTypes, ConnectorEventTypes

LEMMA EventsAreEvents ==
  /\ \A a \in TxEventTypes, t \in TxIds : TxEvent(a, t) \in Events
  /\ \A b \in ConnectorEventTypes, c \in Connectors : ConnectorEvent(b, c) \in Events
  /\ [type |-> "StationOnline"] \in Events
BY DEF TxEvent, ConnectorEvent, Events, TxEvents, ConnectorEvents, StationEvents

LEMMA Appends ==
  ASSUME OutboxType, NEW es \in Seq(Events), Publish(es)
  PROVE  /\ OutboxType'
         /\ DOMAIN outbox \subseteq DOMAIN outbox'
         /\ \A i \in DOMAIN outbox : outbox'[i] = outbox[i]
         /\ \A i \in DOMAIN outbox' \ DOMAIN outbox : \E k \in DOMAIN es : outbox'[i] = es[k]
         /\ \A i \in DOMAIN outbox' \ DOMAIN outbox, j \in DOMAIN outbox : j < i
         /\ \A e : Published(e)' <=> Published(e) \/ e \in ToSet(es)
<1>1. outbox' \in Seq(Events) /\ outbox' = outbox \o es
  BY DEF OutboxType, Publish
<1>2. /\ Len(outbox') = Len(outbox) + Len(es)
      /\ \A i \in 1 .. Len(outbox) : outbox'[i] = outbox[i]
      /\ \A k \in 1 .. Len(es) : outbox'[Len(outbox) + k] = es[k]
      /\ Len(outbox) \in Nat /\ Len(es) \in Nat
  BY <1>1 DEF OutboxType
<1>3. DOMAIN outbox = 1 .. Len(outbox) /\ DOMAIN es = 1 .. Len(es)
      /\ DOMAIN outbox' = 1 .. Len(outbox')
  BY <1>1 DEF OutboxType
<1>4. \A i \in DOMAIN outbox' \ DOMAIN outbox : i - Len(outbox) \in DOMAIN es
        /\ outbox'[i] = es[i - Len(outbox)]
  BY <1>2, <1>3
<1>5. \A i \in DOMAIN outbox' \ DOMAIN outbox, j \in DOMAIN outbox : j < i
  BY <1>2, <1>3
<1>6. ASSUME NEW e
      PROVE  Published(e)' <=> Published(e) \/ e \in ToSet(es)
  <2>1. ASSUME Published(e) PROVE Published(e)'
    BY <1>2, <1>3, <2>1 DEF Published, ToSet
  <2>2. ASSUME e \in ToSet(es) PROVE Published(e)'
    <3>1. PICK k \in 1 .. Len(es) : es[k] = e
      BY <1>3, <2>2 DEF ToSet
    <3>2. Len(outbox) + k \in DOMAIN outbox' /\ outbox'[Len(outbox) + k] = e
      BY <1>2, <1>3, <3>1
    <3> QED
      BY <3>2 DEF Published, ToSet
  <2>3. ASSUME Published(e)' PROVE Published(e) \/ e \in ToSet(es)
    BY <1>2, <1>3, <1>4, <2>3 DEF Published, ToSet
  <2> QED
    BY <2>1, <2>2, <2>3
<1> QED
  BY <1>1, <1>2, <1>3, <1>4, <1>5, <1>6 DEF OutboxType

LEMMA AppendsOne ==
  ASSUME NEW e \in Events
  PROVE  /\ <<e>> \in Seq(Events)
         /\ ToSet(<<e>>) = {e}
         /\ \A k \in DOMAIN <<e>> : <<e>>[k] = e
BY DEF ToSet

(* Events that tell of a session that has started keep the order.           *)
LEMMA StartStaysFirst ==
  ASSUME OutboxType, StartComesFirst, NEW es \in Seq(Events), Publish(es),
         \A k \in DOMAIN es, t \in TxIds :
           es[k] \in {TxEvent("TransactionStopped", t), TxEvent("MeterValueUpdate", t)}
             => Published(TxEvent("TransactionStarted", t))
  PROVE  StartComesFirst'
<1> SUFFICES ASSUME NEW i \in DOMAIN outbox', NEW t \in TxIds,
                    outbox'[i] \in {TxEvent("TransactionStopped", t),
                                    TxEvent("MeterValueUpdate", t)}
             PROVE  \E j \in 1 .. i - 1 : outbox'[j] = TxEvent("TransactionStarted", t)
  BY DEF StartComesFirst
<1>0. /\ DOMAIN outbox = 1 .. Len(outbox) /\ Len(outbox) \in Nat
      /\ DOMAIN outbox' = 1 .. Len(outbox') /\ Len(outbox') \in Nat
  BY Appends DEF OutboxType
<1>1. CASE i \in DOMAIN outbox
  <2>1. PICK j \in 1 .. i - 1 : outbox[j] = TxEvent("TransactionStarted", t)
    BY <1>1, Appends DEF StartComesFirst
  <2>2. j \in DOMAIN outbox
    BY <1>0, <1>1
  <2> QED
    BY <2>1, <2>2, Appends
<1>2. CASE i \notin DOMAIN outbox
  <2>1. Published(TxEvent("TransactionStarted", t))
    BY <1>2, Appends
  <2>2. PICK j \in DOMAIN outbox : outbox[j] = TxEvent("TransactionStarted", t)
    BY <2>1 DEF Published, ToSet
  <2>3. j < i /\ outbox'[j] = outbox[j]
    BY <1>2, Appends
  <2>4. j \in 1 .. i - 1
    BY <1>0, <2>3
  <2> QED
    BY <2>2, <2>3, <2>4
<1> QED
  BY <1>1, <1>2

------------------------------------------------------------------------------
(* Calls in flight                                                          *)

LEMMA Starts ==
  /\ IsFiniteSet(CardStarts) /\ Cardinality(CardStarts) \in Nat
  /\ IsFiniteSet(CardStarts)' /\ Cardinality(CardStarts)' \in Nat
<1>1. /\ CardStarts \subseteq Slots /\ CardStarts' \subseteq Slots
      /\ IsFiniteSet(Slots)
  BY SlotAssumption DEF CardStarts
<1> QED
  BY <1>1, FS_Subset, FS_CardinalityType

(* The step of one slot.                                                    *)
OneMoves(s) ==
  /\ call' \in [Slots -> Handlers \cup {Idle}]
  /\ \A r \in Slots \ {s} : call'[r] = call[r]

LEMMA InFlight ==
  ASSUME HandlersType, NEW s \in Slots, call[s] # Idle
  PROVE  /\ call[s] \in Handlers /\ call[s].msg \in Messages
         /\ call[s].found \subseteq TxIds
BY DEF HandlersType, Handlers

LEMMA ReturnShape ==
  ASSUME HandlersType, NEW s \in Slots, Return(s)
  PROVE  /\ OneMoves(s) /\ call'[s] = Idle
         /\ awaiting' \in Slots \cup {NoSlot}
         /\ CardStarts' = CardStarts \ {s}
<1>1. /\ OneMoves(s) /\ call'[s] = Idle
      /\ awaiting' \in Slots \cup {NoSlot}
  BY DEF HandlersType, Return, OneMoves
<1>2. CardStarts' = CardStarts \ {s}
  BY <1>1 DEF CardStarts, OneMoves
<1> QED
  BY <1>1, <1>2

(* A handler goes on: its await and what it found change.                   *)
Goes(s, point, T) ==
  /\ OneMoves(s)
  /\ call'[s] \in Handlers /\ call'[s] # Idle
  /\ call'[s].at = point /\ call'[s].msg = call[s].msg /\ call'[s].found = T
  /\ CardStarts' = CardStarts

LEMMA RecordGoes ==
  ASSUME HandlersType, NEW s \in Slots, call[s] # Idle,
         NEW h \in Handlers, h.msg = call[s].msg, call' = [call EXCEPT ![s] = h]
  PROVE  Goes(s, h.at, h.found)
<1>1. OneMoves(s) /\ call'[s] = h
  BY DEF HandlersType, OneMoves
<1>2. h # Idle
  BY IdleIsNone
<1>3. CardStarts' = CardStarts
  BY <1>1, <1>2 DEF CardStarts, OneMoves
<1> QED
  BY <1>1, <1>2, <1>3 DEF Goes

LEMMA GotoShape ==
  ASSUME HandlersType, NEW s \in Slots, call[s] # Idle, NEW point \in Points, Goto(s, point)
  PROVE  Goes(s, point, call[s].found) /\ UNCHANGED charger
<1> DEFINE h == [call[s] EXCEPT !.at = point]
<1>1. call' = [call EXCEPT ![s] = h] /\ UNCHANGED charger
  BY DEF Goto
<1>2. call[s] \in Handlers
  BY InFlight
<1>3. /\ h \in Handlers /\ h.msg = call[s].msg
      /\ h.at = point /\ h.found = call[s].found
  BY <1>2 DEF Handlers
<1> HIDE DEF h
<1> QED
  BY <1>1, <1>3, RecordGoes

LEMMA GotoWithShape ==
  ASSUME HandlersType, NEW s \in Slots, call[s] # Idle, NEW point \in Points,
         NEW T \in SUBSET TxIds, GotoWith(s, point, T)
  PROVE  Goes(s, point, T) /\ UNCHANGED charger
<1> DEFINE h == [call[s] EXCEPT !.at = point, !.found = T]
<1>1. call' = [call EXCEPT ![s] = h] /\ UNCHANGED charger
  BY DEF GotoWith
<1>2. call[s] \in Handlers
  BY InFlight
<1>3. /\ h \in Handlers /\ h.msg = call[s].msg
      /\ h.at = point /\ h.found = T
  BY <1>2 DEF Handlers
<1> HIDE DEF h
<1> QED
  BY <1>1, <1>3, RecordGoes

(* Others still know what they knew, as rows are not taken back.            *)
LEMMA OthersKnow ==
  ASSUME HandlersKnow, HandlersType, NEW s \in Slots, OneMoves(s), TableInv, TableInv',
         nextTx' >= nextTx, \A t \in TxIds : linked[t] => linked'[t],
         Knows(s)'
  PROVE  HandlersKnow'
<1>1. ASSUME NEW r \in Slots \ {s}
      PROVE  Knows(r)'
  <2>1. call'[r] = call[r]
    BY DEF OneMoves
  <2>2. CASE call[r] = Idle
    BY <2>1, <2>2 DEF Knows
  <2>3. CASE call[r] # Idle
    <3>1. call[r].found \subseteq TxIds
      BY <2>3, InFlight
    <3>2. Knows(r)
      BY DEF HandlersKnow
    <3>3. nextTx \in Nat /\ nextTx' \in Nat
      BY TxAssumption DEF TableInv, SessionsType
    <3>4. \A t \in call[r].found : t < nextTx'
      BY <2>3, <3>1, <3>2, <3>3 DEF Knows, TxIds
    <3> QED
      BY <2>1, <2>3, <3>1, <3>2, <3>4 DEF Knows
  <2> QED
    BY <2>2, <2>3
<1> QED
  BY <1>1 DEF HandlersKnow

LEMMA IdleKnows == \A s \in Slots : call[s] = Idle => Knows(s)
BY DEF Knows

(* No card start joins those that have a row kept for them.                 *)
LEMMA RoomStays ==
  ASSUME TableInv, Room, nextTx' = nextTx, CardStarts' \subseteq CardStarts
  PROVE  Room'
<1>1. Cardinality(CardStarts)' <= Cardinality(CardStarts)
  BY Starts, FS_Subset
<1> QED
  BY <1>1, Starts, TxAssumption DEF Room, TableInv, SessionsType

LEMMA FreeRow ==
  ASSUME TableInv, RoomForTx
  PROVE  nextTx \in TxIds /\ nextTx \in Nat
BY Starts, TxAssumption DEF RoomForTx, TableInv, SessionsType, TxIds

------------------------------------------------------------------------------
(* What a step does to each part of the invariant                           *)

LEMMA Quiet ==
  ASSUME IInv, UNCHANGED <<sessions, outbox>>
  PROVE  TableInv' /\ EventsInv' /\ nextTx' = nextTx /\ linked' = linked
<1>1. UNCHANGED <<nextTx, status, conn, linked, billed, failReason>>
  BY DEF sessions
<1>2. TableInv'
  BY <1>1 DEF IInv, TableInv, SessionsType, RowsFree
<1>3. EventsInv'
  BY <1>1 DEF IInv, EventsInv, OutboxType, OutboxAgreesWithRows, StartComesFirst, Published
<1> QED
  BY <1>1, <1>2, <1>3

(* A handler returns, with no row taken back.                               *)
LEMMA Returns ==
  ASSUME IInv, NEW s \in Slots, Return(s), TableInv', nextTx' = nextTx,
         \A t \in TxIds : linked[t] => linked'[t],
         running' \in [Connectors -> TxIds \cup {NoTx}]
  PROVE  CallsInv'
<1>1. /\ OneMoves(s) /\ call'[s] = Idle /\ CardStarts' = CardStarts \ {s}
      /\ awaiting' \in Slots \cup {NoSlot}
  BY ReturnShape DEF IInv, CallsInv
<1>2. HandlersType'
  BY <1>1 DEF HandlersType, OneMoves
<1>3. Room'
  BY <1>1, RoomStays DEF IInv, CallsInv
<1>4. Knows(s)'
  BY <1>1 DEF Knows
<1>5. nextTx' >= nextTx
  BY TxAssumption DEF IInv, TableInv, SessionsType
<1>6. HandlersKnow'
  BY <1>1, <1>4, <1>5, OthersKnow DEF IInv, CallsInv
<1> QED
  BY <1>2, <1>3, <1>6 DEF CallsInv

(* A handler goes on to its next await, knowing of rows T.                  *)
LEMMA GoesOn ==
  ASSUME IInv, NEW s \in Slots, call[s] # Idle, NEW point \in Points \ {"read"},
         NEW T \in SUBSET TxIds, Goes(s, point, T), UNCHANGED charger,
         TableInv', nextTx' = nextTx,
         \A t \in TxIds : linked[t] => linked'[t],
         \A t \in T : t < nextTx,
         \/ point = "report"
         \/ call[s].msg.action = "StopTransaction" /\ point = "commit"
         => \A t \in T : linked'[t]
  PROVE  CallsInv'
<1>1. /\ OneMoves(s) /\ CardStarts' = CardStarts
      /\ call'[s].at = point /\ call'[s].msg = call[s].msg /\ call'[s].found = T
  BY DEF Goes
<1>2. HandlersType'
  BY <1>1 DEF IInv, CallsInv, HandlersType, OneMoves, charger
<1>3. Room'
  BY <1>1, RoomStays DEF IInv, CallsInv
<1>4. Knows(s)'
  BY <1>1 DEF Knows
<1>5. nextTx' >= nextTx
  BY TxAssumption DEF IInv, TableInv, SessionsType
<1>6. HandlersKnow'
  BY <1>1, <1>4, <1>5, OthersKnow DEF IInv, CallsInv
<1> QED
  BY <1>2, <1>3, <1>6 DEF CallsInv

(* A handler returns and leaves rows and events alone.                      *)
LEMMA QuietReturn ==
  ASSUME IInv, NEW s \in Slots, Return(s), UNCHANGED <<sessions, outbox>>,
         running' \in [Connectors -> TxIds \cup {NoTx}]
  PROVE  TableInv' /\ EventsInv' /\ CallsInv'
<1>1. TableInv' /\ EventsInv' /\ nextTx' = nextTx /\ linked' = linked
  BY Quiet
<1> QED
  BY <1>1, Returns

LEMMA AnswerReturns ==
  ASSUME HandlersType, NEW s \in Slots, NEW c \in Connectors, NEW t \in TxIds \cup {NoTx},
         Answer(s, c, t)
  PROVE  Return(s) /\ running' \in [Connectors -> TxIds \cup {NoTx}]
<1>1. Return(s)
  BY DEF Answer
<1>2. running' \in [Connectors -> TxIds \cup {NoTx}]
  BY DEF Answer, HandlersType
<1> QED
  BY <1>1, <1>2

(* Rows that exist come to their end.                                       *)
LEMMA RowsEnd ==
  ASSUME TableInv, NEW T \in SUBSET TxIds, \A t \in T : t < nextTx,
         NEW st \in TxStatuses, NEW reason \in FailReasons, End(T, st, reason),
         UNCHANGED <<nextTx, conn, linked, billed>>
  PROVE  /\ TableInv'
         /\ \A t \in TxIds : status'[t] = IF t \in T THEN st ELSE status[t]
<1>1. \A t \in TxIds : status'[t] = IF t \in T THEN st ELSE status[t]
  BY DEF End
<1>2. SessionsType'
  BY DEF TableInv, SessionsType, End
<1>3. \A t \in T : ~(t >= nextTx)
  BY TxAssumption DEF TxIds, TableInv, SessionsType
<1>4. RowsFree'
  BY <1>1, <1>3 DEF TableInv, RowsFree
<1> QED
  BY <1>1, <1>2, <1>4 DEF TableInv

(* A row that is neither free nor unknown exists.                           *)
LEMMA RowsExist ==
  ASSUME TableInv, NEW t \in TxIds, status[t] # "none"
  PROVE  t < nextTx
BY TxAssumption DEF TxIds, TableInv, SessionsType, RowsFree

LEMMA RowAdded ==
  ASSUME TableInv, nextTx \in TxIds, NEW c \in Connectors, NEW st \in TxStatuses,
         NewTx(c, st), linked' \in [TxIds -> BOOLEAN], UNCHANGED <<billed, failReason>>
  PROVE  /\ TableInv'
         /\ nextTx' = nextTx + 1
         /\ status[nextTx] = "none" /\ status'[nextTx] = st
         /\ \A t \in TxIds \ {nextTx} : status'[t] = status[t]
<1>1. /\ nextTx' = nextTx + 1 /\ status'[nextTx] = st
      /\ \A t \in TxIds \ {nextTx} : status'[t] = status[t]
  BY DEF NewTx, TableInv, SessionsType
<1>2. nextTx' \in 1 .. MaxTx + 1
  BY <1>1, TxAssumption DEF TxIds
<1>3. SessionsType'
  BY <1>2 DEF NewTx, TableInv, SessionsType
<1>4. RowsFree'
  BY <1>1 DEF TxIds, TableInv, RowsFree
<1>5. status[nextTx] = "none"
  BY TxAssumption DEF TxIds, TableInv, RowsFree
<1> QED
  BY <1>1, <1>3, <1>4, <1>5 DEF TableInv

(* Rows and events change together.                                         *)
LEMMA Agrees ==
  ASSUME EventsInv, NEW es \in Seq(Events), Publish(es),
         \A t \in TxIds :
           /\ linked'[t] <=> linked[t] \/ TxEvent("TransactionStarted", t) \in ToSet(es)
           /\ billed'[t] <=> billed[t] \/ TxEvent("TransactionStopped", t) \in ToSet(es)
           /\ status'[t] = "Active" => linked'[t]
           /\ linked'[t] => status'[t] \notin {"none", "Pending"}
  PROVE  OutboxAgreesWithRows'
<1>1. \A e : Published(e)' <=> Published(e) \/ e \in ToSet(es)
  BY Appends DEF EventsInv
<1> QED
  BY <1>1 DEF EventsInv, OutboxAgreesWithRows

(* Events that concern no session.                                          *)
LEMMA NoneOfSessions ==
  ASSUME IInv, NEW es \in Seq(Events), Publish(es), UNCHANGED sessions,
         \A k \in DOMAIN es, a \in TxEventTypes : \A t : es[k] # TxEvent(a, t)
  PROVE  TableInv' /\ EventsInv' /\ nextTx' = nextTx /\ linked' = linked
<1>1. UNCHANGED <<nextTx, status, conn, linked, billed, failReason>>
  BY DEF sessions
<1>2. TableInv'
  BY <1>1 DEF IInv, TableInv, SessionsType, RowsFree
<1>3. \A a \in TxEventTypes : \A t : TxEvent(a, t) \notin ToSet(es)
  BY DEF ToSet
<1>4. OutboxAgreesWithRows'
  <2>1. {"TransactionStarted", "TransactionStopped"} \subseteq TxEventTypes
    BY DEF TxEventTypes
  <2>2. EventsInv
    BY DEF IInv
  <2>3. \A t \in TxIds :
          /\ linked'[t] <=> linked[t] \/ TxEvent("TransactionStarted", t) \in ToSet(es)
          /\ billed'[t] <=> billed[t] \/ TxEvent("TransactionStopped", t) \in ToSet(es)
          /\ status'[t] = "Active" => linked'[t]
          /\ linked'[t] => status'[t] \notin {"none", "Pending"}
    BY <1>1, <1>3, <2>1, <2>2 DEF EventsInv, OutboxAgreesWithRows
  <2> QED
    BY <2>2, <2>3, Agrees
<1>5. OutboxType'
  BY Appends DEF IInv, EventsInv
<1>6. StartComesFirst'
  <2>1. \A k \in DOMAIN es, t \in TxIds :
          es[k] \notin {TxEvent("TransactionStopped", t), TxEvent("MeterValueUpdate", t)}
    BY DEF TxEventTypes
  <2> QED
    BY <2>1, StartStaysFirst DEF IInv, EventsInv
<1> QED
  BY <1>1, <1>2, <1>4, <1>5, <1>6 DEF EventsInv

------------------------------------------------------------------------------
(* The Portal, the timer and the charger                                    *)

LEMMA PortalStep ==
  ASSUME IInv, NEW c \in Connectors, CreatePending(c)
  PROVE  IInv'
<1> USE DEF CreatePending
<1>1. nextTx \in TxIds /\ nextTx \in Nat
  BY FreeRow DEF IInv
<1>2. UNCHANGED <<linked, billed, outbox, call, awaiting, running>>
  BY DEF charger
<1>3. linked' \in [TxIds -> BOOLEAN] /\ NewTx(c, "Pending") /\ "Pending" \in TxStatuses
  BY <1>2 DEF IInv, TableInv, SessionsType, TxStatuses
<1>4. /\ TableInv'
      /\ nextTx' = nextTx + 1
      /\ status[nextTx] = "none" /\ status'[nextTx] = "Pending"
      /\ \A t \in TxIds \ {nextTx} : status'[t] = status[t]
  BY <1>1, <1>3, RowAdded DEF IInv
<1>5. EventsInv'
  <2>1. OutboxAgreesWithRows'
    BY <1>2, <1>4 DEF IInv, EventsInv, OutboxAgreesWithRows, Published
  <2> QED
    BY <1>2, <2>1 DEF IInv, EventsInv, OutboxType, StartComesFirst
<1>6. CallsInv'
  <2>1. HandlersType'
    BY <1>2 DEF IInv, CallsInv, HandlersType
  <2>2. CardStarts' = CardStarts
    BY <1>2 DEF CardStarts
  <2>3. Room'
    BY <1>1, <1>4, <2>2, Starts, TxAssumption DEF RoomForTx, Room
  <2>4. HandlersKnow'
    <3> SUFFICES ASSUME NEW s \in Slots, call[s] # Idle
                 PROVE  Knows(s)'
      BY <1>2 DEF HandlersKnow, Knows
    <3>1. Knows(s) /\ call[s].found \subseteq TxIds
      BY InFlight DEF IInv, CallsInv, HandlersKnow
    <3>2. \A t \in call[s].found : t < nextTx'
      BY <1>1, <1>4, <3>1 DEF Knows, TxIds
    <3> QED
      BY <1>2, <3>1, <3>2 DEF Knows
  <2> QED
    BY <2>1, <2>3, <2>4 DEF CallsInv
<1>7. DevicesType' /\ HistoryType'
  BY DEF IInv, DevicesType, HistoryType, devices, history
<1> QED
  BY <1>4, <1>5, <1>6, <1>7 DEF IInv

(* Sessions that never started come to an end: no event tells of them.      *)
LEMMA EndsAgree ==
  ASSUME TableInv, EventsInv, NEW T \in SUBSET TxIds, NEW st \in {"Stopped", "Failed"},
         \A t \in TxIds : status'[t] = IF t \in T THEN st ELSE status[t],
         UNCHANGED <<linked, billed, outbox>>
  PROVE  EventsInv'
<1>1. OutboxAgreesWithRows'
  BY DEF EventsInv, OutboxAgreesWithRows, Published
<1> QED
  BY <1>1 DEF EventsInv, OutboxType, StartComesFirst

LEMMA TimerStep ==
  ASSUME IInv, SessionTimeout
  PROVE  IInv'
<1>1. PICK newest \in Waiting : End({t \in Waiting : t <= newest}, "Failed", "session_timeout")
  BY DEF SessionTimeout
<1> DEFINE T == {t \in Waiting : t <= newest}
<1>2. UNCHANGED <<nextTx, conn, linked, billed, outbox, call, awaiting, running, devices, history>>
  BY DEF SessionTimeout, charger
<1>3. T \in SUBSET TxIds /\ \A t \in T : t < nextTx
  BY RowsExist DEF Waiting, IInv
<1>4. "Failed" \in TxStatuses /\ "session_timeout" \in FailReasons
  BY DEF TxStatuses, FailReasons
<1> HIDE DEF T
<1>5. /\ TableInv'
      /\ \A t \in TxIds : status'[t] = IF t \in T THEN "Failed" ELSE status[t]
  BY <1>1, <1>2, <1>3, <1>4, RowsEnd DEF IInv, T
<1>6. EventsInv'
  BY <1>2, <1>3, <1>5, EndsAgree DEF IInv
<1>7. CallsInv'
  BY <1>2 DEF IInv, CallsInv, HandlersType, Room, CardStarts, HandlersKnow, Knows
<1>8. DevicesType' /\ HistoryType'
  BY <1>2 DEF IInv, DevicesType, HistoryType, devices, history
<1> QED
  BY <1>5, <1>6, <1>7, <1>8 DEF IInv

(* A call begins.                                                           *)
LEMMA BeginStep ==
  ASSUME IInv, NEW s \in Slots, NEW m \in Messages, Begin(s, m),
         m.action = "StartTransaction" /\ m.tx = NoTx => RoomForTx,
         running' \in [Connectors -> TxIds \cup {NoTx}]
  PROVE  IInv'
<1> DEFINE h == [at |-> Entry(m), msg |-> m, found |-> {}, wasInFault |-> FALSE]
<1>1. /\ call[s] = Idle /\ call' = [call EXCEPT ![s] = h] /\ awaiting' = s
      /\ sent < MaxCalls /\ sent' = sent + 1
      /\ UNCHANGED <<sessions, devices, outbox, faults>>
  BY DEF Begin
<1>2. /\ h \in Handlers /\ h # Idle /\ h.msg = m /\ h.found = {} /\ h.at = Entry(m)
  BY IdleIsNone DEF Handlers, Entry, Points
<1> HIDE DEF h
<1>3. OneMoves(s) /\ call'[s] = h
  BY <1>1, <1>2 DEF IInv, CallsInv, HandlersType, OneMoves
<1>4. TableInv' /\ EventsInv' /\ nextTx' = nextTx /\ linked' = linked
  BY <1>1, Quiet
<1>5. HandlersType'
  BY <1>1, <1>3 DEF HandlersType, OneMoves
<1>6. Room'
  <2>1. CASE m.action = "StartTransaction" /\ m.tx = NoTx
    <3>1. CardStarts' = CardStarts \cup {s} /\ s \notin CardStarts
      BY <1>1, <1>2, <1>3, <2>1 DEF CardStarts, OneMoves
    <3>2. Cardinality(CardStarts)' = Cardinality(CardStarts) + 1
      BY <3>1, Starts, FS_AddElement
    <3> QED
      BY <1>4, <2>1, <3>2, Starts, TxAssumption
      DEF RoomForTx, Room, IInv, TableInv, SessionsType
  <2>2. CASE ~(m.action = "StartTransaction" /\ m.tx = NoTx)
    <3>1. CardStarts' \subseteq CardStarts
      BY <1>2, <1>3, <2>2 DEF CardStarts, OneMoves
    <3> QED
      BY <1>4, <3>1, RoomStays DEF IInv, CallsInv
  <2> QED
    BY <2>1, <2>2
<1>7. Knows(s)'
  <2>1. h.at # "report"
    BY <1>2 DEF Entry
  <2>2. m.action = "StopTransaction" => h.at # "commit"
    BY <1>2 DEF Entry
  <2>3. m.action = "StatusNotification" /\ h.at = "read" => m.connector \in Connectors
    BY <1>2, MessageFields DEF Entry
  <2> QED
    BY <1>2, <1>3, <2>1, <2>2, <2>3 DEF Knows
<1>8. HandlersKnow'
  <2>1. nextTx' >= nextTx
    BY <1>4, TxAssumption DEF IInv, TableInv, SessionsType
  <2> QED
    BY <1>3, <1>4, <1>7, <2>1, OthersKnow DEF IInv, CallsInv
<1>9. DevicesType' /\ HistoryType'
  BY <1>1, CallsAssumption DEF IInv, DevicesType, HistoryType, devices
<1> QED
  BY <1>4, <1>5, <1>6, <1>8, <1>9 DEF IInv, CallsInv

LEMMA ChargerStep ==
  ASSUME IInv, NEW s \in Slots, Send(s)
  PROVE  IInv'
<1>0. running \in [Connectors -> TxIds \cup {NoTx}]
  BY DEF IInv, CallsInv, HandlersType
<1>1. CASE \E c \in Connectors, t \in TxIds \cup {NoTx} : SendStart(s, c, t)
  <2>1. PICK c \in Connectors, t \in TxIds \cup {NoTx} : SendStart(s, c, t)
    BY <1>1
  <2> DEFINE m == [action |-> "StartTransaction", connector |-> c, tx |-> t]
  <2>2. m \in Messages /\ (m.tx = NoTx => RoomForTx) /\ Begin(s, m) /\ running' = running
    BY <2>1 DEF SendStart, Messages
  <2> HIDE DEF m
  <2> QED
    BY <1>0, <2>2, BeginStep
<1>2. CASE \E c \in Connectors : SendStop(s, c)
  <2>1. PICK c \in Connectors : SendStop(s, c)
    BY <1>2
  <2> DEFINE m == [action |-> "StopTransaction", connector |-> c, tx |-> running[c]]
  <2>2. /\ m \in Messages /\ m.action # "StartTransaction"
        /\ Begin(s, m) /\ running' = running
    BY <1>0, <2>1 DEF SendStop, Messages
  <2> HIDE DEF m
  <2> QED
    BY <1>0, <2>2, BeginStep
<1>3. CASE \E c \in Connectors : SendMeterValues(s, c)
  <2>1. PICK c \in Connectors : SendMeterValues(s, c)
    BY <1>3
  <2> DEFINE m == [action |-> "MeterValues", connector |-> c]
  <2>2. /\ m \in Messages /\ m.action # "StartTransaction"
        /\ Begin(s, m) /\ running' = running
    BY <2>1 DEF SendMeterValues, Messages
  <2> HIDE DEF m
  <2> QED
    BY <1>0, <2>2, BeginStep
<1>4. CASE \E c \in Connectors \cup {Station}, r \in Reports : SendStatus(s, c, r)
  <2>1. PICK c \in Connectors \cup {Station}, r \in Reports : SendStatus(s, c, r)
    BY <1>4
  <2> DEFINE m == [action |-> "StatusNotification", connector |-> c, report |-> r]
  <2>2. /\ m \in Messages /\ m.action # "StartTransaction"
        /\ Begin(s, m) /\ running' = running
    BY <2>1 DEF SendStatus, Messages
  <2> HIDE DEF m
  <2> QED
    BY <1>0, <2>2, BeginStep
<1>5. CASE SendBoot(s)
  <2> DEFINE m == [action |-> "BootNotification"]
  <2>1. m \in Messages /\ m.action # "StartTransaction" /\ Begin(s, m)
    BY <1>5 DEF SendBoot, Messages
  <2>2. running' \in [Connectors -> TxIds \cup {NoTx}]
    BY <1>0, <1>5 DEF SendBoot
  <2> HIDE DEF m
  <2> QED
    BY <2>1, <2>2, BeginStep
<1> QED
  BY <1>1, <1>2, <1>3, <1>4, <1>5 DEF Send

------------------------------------------------------------------------------
(* The handlers                                                             *)

(* The part a handler's step leaves alone.                                  *)
LEMMA DevicesStay ==
  ASSUME IInv, UNCHANGED <<devices, history>>
  PROVE  DevicesType' /\ HistoryType'
BY DEF IInv, DevicesType, HistoryType, devices, history

LEMMA HandlerReads ==
  ASSUME IInv, NEW s \in Slots,
         \/ StartRead(s) \/ StopRead(s) \/ MeterRead(s) \/ StatusRead(s)
         \/ StatusFindStuck(s)
  PROVE  IInv'
<1>0. /\ HandlersType /\ TableInv
      /\ running \in [Connectors -> TxIds \cup {NoTx}]
      /\ UNCHANGED <<sessions, outbox, devices, history>>
      /\ call[s] # Idle /\ call[s] \in Handlers /\ call[s].msg \in Messages
  BY InFlight
  DEF IInv, CallsInv, HandlersType, StartRead, StopRead, MeterRead, StatusRead,
      StatusFindStuck, At
<1>1. /\ TableInv' /\ EventsInv' /\ nextTx' = nextTx /\ linked' = linked
      /\ DevicesType' /\ HistoryType'
  BY <1>0, Quiet, DevicesStay
<1>2. ASSUME StartRead(s) PROVE CallsInv'
  <2> DEFINE t == call[s].msg.tx
  <2>0. call[s].msg.action = "StartTransaction" /\ t \in TxIds \cup {NoTx}
    BY <1>0, <1>2, MessageFields DEF StartRead, At
  <2>1. CASE Startable(t)
    <3>1. GotoWith(s, "activate", {t}) /\ {t} \in SUBSET TxIds /\ status[t] # "none"
      BY <1>2, <2>0, <2>1 DEF StartRead, Startable
    <3>2. Goes(s, "activate", {t}) /\ UNCHANGED charger
      BY <1>0, <3>1, GotoWithShape DEF Points
    <3>3. t < nextTx
      BY <1>0, <3>1, RowsExist
    <3> QED
      BY <1>0, <1>1, <2>0, <3>1, <3>2, <3>3, GoesOn DEF Points
  <2>2. CASE ~Startable(t)
    <3>1. Goto(s, "create")
      BY <1>2, <2>2 DEF StartRead
    <3>2. Goes(s, "create", call[s].found) /\ UNCHANGED charger
      BY <1>0, <3>1, GotoShape DEF Points
    <3>3. call[s].found \in SUBSET TxIds /\ \A u \in call[s].found : u < nextTx
      BY <1>0, InFlight DEF IInv, CallsInv, HandlersKnow, Knows
    <3> QED
      BY <1>0, <1>1, <2>0, <3>2, <3>3, GoesOn DEF Points
  <2> QED
    BY <2>1, <2>2
<1>3. ASSUME StopRead(s) PROVE CallsInv'
  <2> DEFINE m == call[s].msg
  <2>0. m.connector \in Connectors /\ m.tx \in TxIds \cup {NoTx}
    BY <1>0, <1>3, MessageFields DEF StopRead, At
  <2>1. CASE m.tx # NoTx /\ linked[m.tx]
    <3>1. GotoWith(s, "commit", {m.tx}) /\ {m.tx} \in SUBSET TxIds
      BY <1>3, <2>0, <2>1 DEF StopRead
    <3>2. Goes(s, "commit", {m.tx}) /\ UNCHANGED charger
      BY <1>0, <3>1, GotoWithShape DEF Points
    <3>3. status[m.tx] # "none"
      BY <2>0, <2>1 DEF IInv, EventsInv, OutboxAgreesWithRows
    <3>4. m.tx < nextTx
      BY <1>0, <3>1, <3>3, RowsExist
    <3> QED
      BY <1>0, <1>1, <2>1, <3>1, <3>2, <3>4, GoesOn DEF Points
  <2>2. CASE ~(m.tx # NoTx /\ linked[m.tx])
    <3>1. Answer(s, m.connector, NoTx)
      BY <1>3, <2>2 DEF StopRead
    <3>2. Return(s) /\ running' \in [Connectors -> TxIds \cup {NoTx}]
      BY <1>0, <2>0, <3>1, AnswerReturns
    <3> QED
      BY <1>0, <3>2, QuietReturn
  <2> QED
    BY <2>1, <2>2
<1>4. ASSUME MeterRead(s) PROVE CallsInv'
  <2>1. CASE Return(s) /\ UNCHANGED running
    BY <1>0, <2>1, QuietReturn
  <2>2. CASE \E t \in ActiveOn(call[s].msg.connector) : GotoWith(s, "report", {t})
    <3>1. PICK t \in TxIds : status[t] = "Active" /\ GotoWith(s, "report", {t})
      BY <2>2 DEF ActiveOn
    <3>2. Goes(s, "report", {t}) /\ UNCHANGED charger
      BY <1>0, <3>1, GotoWithShape DEF Points
    <3>3. t < nextTx /\ linked[t]
      BY <1>0, <3>1, RowsExist DEF IInv, EventsInv, OutboxAgreesWithRows
    <3> QED
      BY <1>0, <1>1, <3>2, <3>3, GoesOn DEF Points
  <2> QED
    BY <1>4, <2>1, <2>2 DEF MeterRead
<1>5. ASSUME StatusRead(s) PROVE CallsInv'
  <2> DEFINE h == [call[s] EXCEPT !.at = "commit",
                                  !.wasInFault = errorCode[call[s].msg.connector]]
  <2>1. call[s].msg.connector \in Connectors /\ call[s].msg.action = "StatusNotification"
    BY <1>0, <1>5 DEF StatusRead, At, IInv, CallsInv, HandlersKnow, Knows
  <2>2. errorCode[call[s].msg.connector] \in BOOLEAN
    BY <2>1 DEF IInv, DevicesType
  <2>3. /\ h \in Handlers /\ h.msg = call[s].msg /\ h.at = "commit"
        /\ h.found = call[s].found
    BY <1>0, <2>2 DEF Handlers, Points
  <2>4. call' = [call EXCEPT ![s] = h] /\ UNCHANGED charger
    BY <1>5 DEF StatusRead
  <2> HIDE DEF h
  <2>5. Goes(s, "commit", call[s].found)
    BY <1>0, <2>3, <2>4, RecordGoes
  <2>6. call[s].found \in SUBSET TxIds /\ \A u \in call[s].found : u < nextTx
    BY <1>0, InFlight DEF IInv, CallsInv, HandlersKnow, Knows
  <2> QED
    BY <1>0, <1>1, <2>1, <2>4, <2>5, <2>6, GoesOn DEF Points
<1>6. ASSUME StatusFindStuck(s) PROVE CallsInv'
  <2> DEFINE T == {t \in Stuck : conn[t] = call[s].msg.connector}
  <2>1. /\ T \in SUBSET TxIds /\ \A t \in T : t < nextTx
    BY <1>0, RowsExist DEF Stuck
  <2>2. CASE Return(s) /\ UNCHANGED running
    BY <1>0, <2>2, QuietReturn
  <2>3. CASE GotoWith(s, "sweep", T)
    <3> HIDE DEF T
    <3>1. Goes(s, "sweep", T) /\ UNCHANGED charger
      BY <1>0, <2>1, <2>3, GotoWithShape DEF Points
    <3> QED
      BY <1>0, <1>1, <2>1, <3>1, GoesOn DEF Points
  <2> QED
    BY <1>6, <2>2, <2>3 DEF StatusFindStuck
<1> QED
  BY <1>1, <1>2, <1>3, <1>4, <1>5, <1>6 DEF IInv

(* A card's session is created and answered.                                *)
LEMMA CreateStep ==
  ASSUME IInv, NEW s \in Slots, StartCreate(s)
  PROVE  IInv'
<1> DEFINE c == call[s].msg.connector
           e == TxEvent("TransactionStarted", nextTx)
<1>0. /\ call[s] # Idle /\ call[s].msg.action = "StartTransaction" /\ call[s].msg.tx = NoTx
      /\ NewTx(c, "Active") /\ linked' = [linked EXCEPT ![nextTx] = TRUE]
      /\ Publish(<<e>>) /\ Answer(s, c, nextTx)
      /\ UNCHANGED <<billed, failReason, devices, history>>
  BY DEF StartCreate, At
<1>1. c \in Connectors
  BY <1>0, InFlight, MessageFields DEF IInv, CallsInv
<1>2. s \in CardStarts
  BY <1>0 DEF CardStarts
<1>3. Cardinality(CardStarts \ {s}) = Cardinality(CardStarts) - 1 /\ Cardinality(CardStarts) >= 1
  <2>1. Cardinality(CardStarts) # 0
    BY <1>2, Starts, FS_EmptySet
  <2>2. Cardinality(CardStarts \ {s}) = Cardinality(CardStarts) - 1
    BY <1>2, Starts, FS_RemoveElement
  <2> QED
    BY <2>1, <2>2, Starts
<1>4. nextTx \in TxIds /\ nextTx \in Nat
  BY <1>3, Starts, TxAssumption DEF IInv, CallsInv, Room, TableInv, SessionsType, TxIds
<1>5. /\ linked' \in [TxIds -> BOOLEAN] /\ linked'[nextTx]
      /\ \A t \in TxIds \ {nextTx} : linked'[t] = linked[t]
      /\ "Active" \in TxStatuses
  BY <1>0, <1>4 DEF IInv, TableInv, SessionsType, TxStatuses
<1> HIDE DEF c
<1>6. /\ TableInv'
      /\ nextTx' = nextTx + 1
      /\ status[nextTx] = "none" /\ status'[nextTx] = "Active"
      /\ \A t \in TxIds \ {nextTx} : status'[t] = status[t]
  BY <1>0, <1>1, <1>4, <1>5, RowAdded DEF IInv
<1>7. /\ e \in Events /\ <<e>> \in Seq(Events) /\ ToSet(<<e>>) = {e}
      /\ \A k \in DOMAIN <<e>> : <<e>>[k] = e
  BY <1>4, EventsAreEvents, AppendsOne DEF TxEventTypes
<1>8. /\ \A t : e = TxEvent("TransactionStarted", t) <=> t = nextTx
      /\ \A t : e # TxEvent("TransactionStopped", t) /\ e # TxEvent("MeterValueUpdate", t)
  BY EventsDiffer
<1> HIDE DEF e
<1>9. EventsInv'
  <2>1. EventsInv
    BY DEF IInv
  <2>2. OutboxAgreesWithRows'
    <3>1. \A t \in TxIds :
            /\ linked'[t] <=> linked[t] \/ TxEvent("TransactionStarted", t) \in ToSet(<<e>>)
            /\ billed'[t] <=> billed[t] \/ TxEvent("TransactionStopped", t) \in ToSet(<<e>>)
            /\ status'[t] = "Active" => linked'[t]
            /\ linked'[t] => status'[t] \notin {"none", "Pending"}
      BY <1>0, <1>5, <1>6, <1>7, <1>8, <2>1 DEF EventsInv, OutboxAgreesWithRows
    <3> QED
      BY <1>0, <1>7, <2>1, <3>1, Agrees
  <2>3. OutboxType'
    BY <1>0, <1>7, <2>1, Appends DEF EventsInv
  <2>4. StartComesFirst'
    BY <1>0, <1>7, <1>8, <2>1, StartStaysFirst DEF EventsInv
  <2> QED
    BY <2>2, <2>3, <2>4 DEF EventsInv
<1>10. CallsInv'
  <2>1. Return(s) /\ running' \in [Connectors -> TxIds \cup {NoTx}]
    BY <1>0, <1>1, <1>4, AnswerReturns DEF IInv, CallsInv
  <2>2. /\ OneMoves(s) /\ call'[s] = Idle /\ CardStarts' = CardStarts \ {s}
        /\ awaiting' \in Slots \cup {NoSlot}
    BY <2>1, ReturnShape DEF IInv, CallsInv
  <2>3. HandlersType'
    BY <2>1, <2>2 DEF HandlersType, OneMoves
  <2>4. Room'
    BY <1>3, <1>4, <1>6, <2>2, Starts, TxAssumption DEF IInv, CallsInv, Room
  <2>5. HandlersKnow'
    <3>1. nextTx' >= nextTx /\ \A t \in TxIds : linked[t] => linked'[t]
      BY <1>4, <1>5, <1>6
    <3>2. Knows(s)'
      BY <2>2 DEF Knows
    <3> QED
      BY <1>6, <2>2, <3>1, <3>2, OthersKnow DEF IInv, CallsInv
  <2> QED
    BY <2>3, <2>4, <2>5 DEF CallsInv
<1>11. DevicesType' /\ HistoryType'
  BY <1>0, DevicesStay
<1> QED
  BY <1>6, <1>9, <1>10, <1>11 DEF IInv

(* The one session a handler found and writes an event of.                  *)
LEMMA ActivateStep ==
  ASSUME IInv, NEW s \in Slots, StartActivate(s)
  PROVE  IInv'
<1>0. PICK t \in call[s].found :
        /\ status' = [status EXCEPT ![t] = "Active"]
        /\ linked' = [linked EXCEPT ![t] = TRUE]
        /\ Publish(<<TxEvent("TransactionStarted", t)>>)
  BY DEF StartActivate
<1> DEFINE e == TxEvent("TransactionStarted", t)
<1>1. /\ call[s] # Idle /\ call[s].msg.action = "StartTransaction"
      /\ Goto(s, "occupy")
      /\ UNCHANGED <<nextTx, conn, billed, failReason, devices, history>>
  BY DEF StartActivate, At
<1>2. /\ call[s].found \in SUBSET TxIds /\ t \in TxIds
      /\ \A u \in call[s].found : u < nextTx
  BY <1>1, InFlight DEF IInv, CallsInv, HandlersKnow, Knows
<1>3. /\ linked' \in [TxIds -> BOOLEAN] /\ linked'[t]
      /\ \A u \in TxIds \ {t} : linked'[u] = linked[u] /\ status'[u] = status[u]
      /\ status' \in [TxIds -> TxStatuses] /\ status'[t] = "Active"
  BY <1>0, <1>2 DEF IInv, TableInv, SessionsType, TxStatuses
<1>4. TableInv'
  <2>1. SessionsType'
    BY <1>1, <1>3 DEF IInv, TableInv, SessionsType
  <2>2. ~(t >= nextTx)
    BY <1>2, TxAssumption DEF TxIds, IInv, TableInv, SessionsType
  <2>3. RowsFree'
    BY <1>1, <1>3, <2>2 DEF IInv, TableInv, RowsFree
  <2> QED
    BY <2>1, <2>3 DEF TableInv
<1>5. /\ e \in Events /\ <<e>> \in Seq(Events) /\ ToSet(<<e>>) = {e}
      /\ \A k \in DOMAIN <<e>> : <<e>>[k] = e
  BY <1>2, EventsAreEvents, AppendsOne DEF TxEventTypes
<1>6. /\ \A u : e = TxEvent("TransactionStarted", u) <=> u = t
      /\ \A u : e # TxEvent("TransactionStopped", u) /\ e # TxEvent("MeterValueUpdate", u)
  BY EventsDiffer
<1>7. Publish(<<e>>)
  BY <1>0
<1> HIDE DEF e
<1>8. EventsInv'
  <2>1. EventsInv
    BY DEF IInv
  <2>2. \A u \in TxIds :
          /\ linked'[u] <=> linked[u] \/ TxEvent("TransactionStarted", u) \in ToSet(<<e>>)
          /\ billed'[u] <=> billed[u] \/ TxEvent("TransactionStopped", u) \in ToSet(<<e>>)
          /\ status'[u] = "Active" => linked'[u]
          /\ linked'[u] => status'[u] \notin {"none", "Pending"}
    BY <1>1, <1>3, <1>5, <1>6, <2>1 DEF EventsInv, OutboxAgreesWithRows
  <2>3. OutboxAgreesWithRows'
    BY <1>5, <1>7, <2>1, <2>2, Agrees
  <2>4. OutboxType'
    BY <1>5, <1>7, <2>1, Appends DEF EventsInv
  <2>5. StartComesFirst'
    BY <1>5, <1>6, <1>7, <2>1, StartStaysFirst DEF EventsInv
  <2> QED
    BY <2>3, <2>4, <2>5 DEF EventsInv
<1>9. CallsInv'
  <2>1. Goes(s, "occupy", call[s].found) /\ UNCHANGED charger
    BY <1>1, GotoShape DEF IInv, CallsInv, Points
  <2>2. \A u \in TxIds : linked[u] => linked'[u]
    BY <1>3
  <2> QED
    BY <1>1, <1>2, <1>4, <2>1, <2>2, GoesOn DEF Points
<1>10. DevicesType' /\ HistoryType'
  BY <1>1, DevicesStay
<1> QED
  BY <1>4, <1>8, <1>9, <1>10 DEF IInv

LEMMA StopStep ==
  ASSUME IInv, NEW s \in Slots, StopCommit(s)
  PROVE  IInv'
<1>0. PICK t \in call[s].found :
        /\ status' = [status EXCEPT ![t] = "Stopped"]
        /\ billed' = [billed EXCEPT ![t] = TRUE]
        /\ failReason' = [failReason EXCEPT ![t] = "null"]
        /\ Publish(<<TxEvent("TransactionStopped", t)>>)
  BY DEF StopCommit
<1> DEFINE e == TxEvent("TransactionStopped", t)
<1>1. /\ call[s] # Idle /\ call[s].msg.action = "StopTransaction" /\ call[s].at = "commit"
      /\ Goto(s, "free")
      /\ UNCHANGED <<nextTx, conn, linked, devices, history>>
  BY DEF StopCommit, At
<1>2. /\ call[s].found \in SUBSET TxIds /\ t \in TxIds /\ linked[t]
      /\ \A u \in call[s].found : u < nextTx
  BY <1>1, InFlight DEF IInv, CallsInv, HandlersKnow, Knows
<1>3. /\ billed' \in [TxIds -> BOOLEAN] /\ billed'[t]
      /\ \A u \in TxIds \ {t} : billed'[u] = billed[u] /\ status'[u] = status[u]
      /\ status' \in [TxIds -> TxStatuses] /\ status'[t] = "Stopped"
      /\ failReason' \in [TxIds -> FailReasons]
  BY <1>0, <1>2 DEF IInv, TableInv, SessionsType, TxStatuses, FailReasons
<1>4. TableInv'
  <2>1. SessionsType'
    BY <1>1, <1>3 DEF IInv, TableInv, SessionsType
  <2>2. ~(t >= nextTx)
    BY <1>2, TxAssumption DEF TxIds, IInv, TableInv, SessionsType
  <2>3. RowsFree'
    BY <1>1, <1>3, <2>2 DEF IInv, TableInv, RowsFree
  <2> QED
    BY <2>1, <2>3 DEF TableInv
<1>5. /\ e \in Events /\ <<e>> \in Seq(Events) /\ ToSet(<<e>>) = {e}
      /\ \A k \in DOMAIN <<e>> : <<e>>[k] = e
  BY <1>2, EventsAreEvents, AppendsOne DEF TxEventTypes
<1>6. /\ \A u : e = TxEvent("TransactionStopped", u) <=> u = t
      /\ \A u : e # TxEvent("TransactionStarted", u) /\ e # TxEvent("MeterValueUpdate", u)
  BY EventsDiffer
<1>7. Publish(<<e>>)
  BY <1>0
<1>8. Published(TxEvent("TransactionStarted", t))
  BY <1>2 DEF IInv, EventsInv, OutboxAgreesWithRows
<1> HIDE DEF e
<1>9. EventsInv'
  <2>1. EventsInv
    BY DEF IInv
  <2>2. \A u \in TxIds :
          /\ linked'[u] <=> linked[u] \/ TxEvent("TransactionStarted", u) \in ToSet(<<e>>)
          /\ billed'[u] <=> billed[u] \/ TxEvent("TransactionStopped", u) \in ToSet(<<e>>)
          /\ status'[u] = "Active" => linked'[u]
          /\ linked'[u] => status'[u] \notin {"none", "Pending"}
    BY <1>1, <1>3, <1>5, <1>6, <2>1 DEF EventsInv, OutboxAgreesWithRows
  <2>3. OutboxAgreesWithRows'
    BY <1>5, <1>7, <2>1, <2>2, Agrees
  <2>4. OutboxType'
    BY <1>5, <1>7, <2>1, Appends DEF EventsInv
  <2>5. StartComesFirst'
    BY <1>5, <1>6, <1>7, <1>8, <2>1, StartStaysFirst DEF EventsInv
  <2> QED
    BY <2>3, <2>4, <2>5 DEF EventsInv
<1>10. CallsInv'
  <2>1. Goes(s, "free", call[s].found) /\ UNCHANGED charger
    BY <1>1, GotoShape DEF IInv, CallsInv, Points
  <2> QED
    BY <1>1, <1>2, <1>4, <2>1, GoesOn DEF Points
<1>11. DevicesType' /\ HistoryType'
  BY <1>1, DevicesStay
<1> QED
  BY <1>4, <1>9, <1>10, <1>11 DEF IInv

LEMMA MeterStep ==
  ASSUME IInv, NEW s \in Slots, MeterReport(s)
  PROVE  IInv'
<1>0. PICK t \in call[s].found : Publish(<<TxEvent("MeterValueUpdate", t)>>)
  BY DEF MeterReport
<1> DEFINE e == TxEvent("MeterValueUpdate", t)
<1>1. /\ call[s] # Idle /\ call[s].at = "report" /\ Return(s)
      /\ UNCHANGED <<nextTx, status, conn, linked, billed, failReason>>
      /\ UNCHANGED <<devices, running, history>>
  BY DEF MeterReport, At, sessions
<1>2. t \in TxIds /\ linked[t]
  BY <1>1, InFlight DEF IInv, CallsInv, HandlersKnow, Knows
<1>3. TableInv'
  BY <1>1 DEF IInv, TableInv, SessionsType, RowsFree
<1>4. /\ e \in Events /\ <<e>> \in Seq(Events) /\ ToSet(<<e>>) = {e}
      /\ \A k \in DOMAIN <<e>> : <<e>>[k] = e
  BY <1>2, EventsAreEvents, AppendsOne DEF TxEventTypes
<1>5. /\ \A u : e = TxEvent("MeterValueUpdate", u) <=> u = t
      /\ \A u : e # TxEvent("TransactionStarted", u) /\ e # TxEvent("TransactionStopped", u)
  BY EventsDiffer
<1>6. Publish(<<e>>)
  BY <1>0
<1>7. Published(TxEvent("TransactionStarted", t))
  BY <1>2 DEF IInv, EventsInv, OutboxAgreesWithRows
<1> HIDE DEF e
<1>8. EventsInv'
  <2>1. EventsInv
    BY DEF IInv
  <2>2. \A u \in TxIds :
          /\ linked'[u] <=> linked[u] \/ TxEvent("TransactionStarted", u) \in ToSet(<<e>>)
          /\ billed'[u] <=> billed[u] \/ TxEvent("TransactionStopped", u) \in ToSet(<<e>>)
          /\ status'[u] = "Active" => linked'[u]
          /\ linked'[u] => status'[u] \notin {"none", "Pending"}
    BY <1>1, <1>4, <1>5, <2>1 DEF EventsInv, OutboxAgreesWithRows
  <2>3. OutboxAgreesWithRows'
    BY <1>4, <1>6, <2>1, <2>2, Agrees
  <2>4. OutboxType'
    BY <1>4, <1>6, <2>1, Appends DEF EventsInv
  <2>5. StartComesFirst'
    BY <1>4, <1>5, <1>6, <1>7, <2>1, StartStaysFirst DEF EventsInv
  <2> QED
    BY <2>3, <2>4, <2>5 DEF EventsInv
<1>9. CallsInv'
  <2>1. running' \in [Connectors -> TxIds \cup {NoTx}]
    BY <1>1 DEF IInv, CallsInv, HandlersType
  <2> QED
    BY <1>1, <1>3, <2>1, Returns
<1>10. DevicesType' /\ HistoryType'
  BY <1>1, DevicesStay
<1> QED
  BY <1>3, <1>8, <1>9, <1>10 DEF IInv

(* Side effects on the connector, and a report on the station.              *)
LEMMA DeviceSteps ==
  ASSUME IInv, NEW s \in Slots,
         StartOccupy(s) \/ StopFree(s) \/ StatusStation(s) \/ StartUnknownTag(s)
  PROVE  IInv'
<1>0. /\ HandlersType /\ UNCHANGED <<sessions, outbox, history>>
      /\ call[s] # Idle /\ call[s].msg \in Messages /\ call[s].found \subseteq TxIds
      /\ running \in [Connectors -> TxIds \cup {NoTx}]
  BY InFlight
  DEF IInv, CallsInv, HandlersType, StartOccupy, StopFree, StatusStation,
      StartUnknownTag, At
<1>1. /\ Return(s) /\ running' \in [Connectors -> TxIds \cup {NoTx}]
      /\ DevicesType'
  <2>1. CASE StartOccupy(s)
    <3>1. call[s].msg.connector \in Connectors /\ call[s].msg.tx \in TxIds \cup {NoTx}
      BY <1>0, <2>1, MessageFields DEF StartOccupy, At
    <3>2. DevicesType'
      BY <2>1, <3>1 DEF StartOccupy, IInv, DevicesType, ConnectorStatuses
    <3> QED
      BY <1>0, <2>1, <3>1, <3>2, AnswerReturns DEF StartOccupy
  <2>2. CASE StopFree(s)
    <3>1. call[s].msg.connector \in Connectors
      BY <1>0, <2>2, MessageFields DEF StopFree, At
    <3>2. DevicesType'
      BY <2>2 DEF StopFree, IInv, DevicesType, ConnectorStatuses
    <3> QED
      BY <1>0, <2>2, <3>1, <3>2, AnswerReturns DEF StopFree
  <2>3. CASE StatusStation(s)
    BY <1>0, <2>3 DEF StatusStation, IInv, DevicesType
  <2>4. CASE StartUnknownTag(s)
    BY <1>0, <2>4 DEF StartUnknownTag, IInv, DevicesType, devices
  <2> QED
    BY <2>1, <2>2, <2>3, <2>4
<1>2. TableInv' /\ EventsInv' /\ CallsInv'
  BY <1>0, <1>1, QuietReturn
<1>3. HistoryType'
  BY <1>0 DEF IInv, HistoryType, history
<1> QED
  BY <1>1, <1>2, <1>3 DEF IInv

(* Events of connectors and of the station.                                 *)
LEMMA ReportStep ==
  ASSUME IInv, NEW s \in Slots, StatusCommit(s)
  PROVE  IInv'
<1> DEFINE m == call[s].msg
           changed == ConnectorEvent("ConnectorStatusChanged", m.connector)
           es == <<changed>> \o FaultEvents(m, call[s].wasInFault)
<1>0. /\ call[s] # Idle /\ m.action = "StatusNotification" /\ m.connector # Station
      /\ shown' = [shown EXCEPT ![m.connector] = ConnectorStatus(m.report.status)]
      /\ errorCode' = [errorCode EXCEPT ![m.connector] = m.report.error]
      /\ Publish(es)
      /\ UNCHANGED <<sessions, station, history>>
  BY DEF StatusCommit, At
<1>1. m.connector \in Connectors /\ m.report \in Reports
  BY <1>0, InFlight, MessageFields DEF IInv, CallsInv
<1>2. DevicesType' /\ HistoryType'
  <2>1. ConnectorStatus(m.report.status) \in ConnectorStatuses /\ m.report.error \in BOOLEAN
    BY <1>1, ReportsAssumption DEF ConnectorStatus, ConnectorStatuses
  <2> QED
    BY <1>0, <1>1, <2>1 DEF IInv, DevicesType, HistoryType, history
<1>3. /\ es \in Seq(Events)
      /\ \A k \in DOMAIN es, a \in TxEventTypes : \A t : es[k] # TxEvent(a, t)
  <2> DEFINE raised == ConnectorEvent("FaultRaised", m.connector)
             cleared == ConnectorEvent("FaultCleared", m.connector)
             P == {changed, raised, cleared}
  <2>1. P \subseteq Events
    BY <1>1, EventsAreEvents DEF ConnectorEventTypes
  <2>2. \A a \in TxEventTypes : \A t : TxEvent(a, t) \notin P
    BY EventsDiffer DEF ConnectorEventTypes
  <2>3. <<changed>> \in Seq(P) /\ FaultEvents(m, call[s].wasInFault) \in Seq(P)
    <3>1. FaultEvents(m, call[s].wasInFault) \in {<<raised>>, <<cleared>>, <<>>}
      BY DEF FaultEvents
    <3>2. {changed, raised, cleared} \subseteq P
      OBVIOUS
    <3> HIDE DEF changed, raised, cleared, P
    <3>3. <<>> \in Seq(P) /\ \A x \in P : <<x>> \in Seq(P)
      BY EmptySeq
    <3> QED
      BY <3>1, <3>2, <3>3, Zenon
  <2> HIDE DEF P
  <2>4. es \in Seq(P)
    BY <2>3, ConcatProperties
  <2> HIDE DEF es
  <2>5. \A k \in DOMAIN es : es[k] \in P
    BY <2>4, ElementOfSeq, LenProperties
  <2>6. es \in Seq(Events)
    BY <2>1, <2>4, SeqMonotonic
  <2> QED
    BY <2>2, <2>5, <2>6
<1> HIDE DEF es
<1>4. TableInv' /\ EventsInv' /\ nextTx' = nextTx /\ linked' = linked
  BY <1>0, <1>3, NoneOfSessions
<1>5. CallsInv'
  <2>1. CASE Goto(s, "stuck")
    <3>1. Goes(s, "stuck", call[s].found) /\ UNCHANGED charger
      BY <1>0, <2>1, GotoShape DEF IInv, CallsInv, Points
    <3>2. call[s].found \in SUBSET TxIds /\ \A u \in call[s].found : u < nextTx
      BY <1>0, InFlight DEF IInv, CallsInv, HandlersKnow, Knows
    <3> QED
      BY <1>0, <1>4, <3>1, <3>2, GoesOn DEF Points
  <2>2. CASE Return(s) /\ UNCHANGED running
    BY <1>4, <2>2, Returns DEF IInv, CallsInv, HandlersType
  <2> QED
    BY <2>1, <2>2 DEF StatusCommit
<1> QED
  BY <1>2, <1>4, <1>5 DEF IInv

LEMMA OnlineStep ==
  ASSUME IInv, NEW s \in Slots, BootOnline(s)
  PROVE  IInv'
<1> DEFINE e == [type |-> "StationOnline"]
<1>0. /\ call[s] # Idle /\ call[s].msg.action = "BootNotification"
      /\ station' = "Online" /\ Publish(<<e>>) /\ Goto(s, "reset")
      /\ UNCHANGED <<sessions, shown, errorCode, history>>
  BY DEF BootOnline, At
<1>1. /\ <<e>> \in Seq(Events)
      /\ \A k \in DOMAIN <<e>>, a \in TxEventTypes : \A t : <<e>>[k] # TxEvent(a, t)
  <2>1. /\ <<e>> \in Seq(Events) /\ \A k \in DOMAIN <<e>> : <<e>>[k] = e
    BY EventsAreEvents, AppendsOne
  <2> QED
    BY <2>1, EventsDiffer
<1> HIDE DEF e
<1>2. TableInv' /\ EventsInv' /\ nextTx' = nextTx /\ linked' = linked
  BY <1>0, <1>1, NoneOfSessions
<1>3. CallsInv'
  <2>1. Goes(s, "reset", call[s].found) /\ UNCHANGED charger
    BY <1>0, GotoShape DEF IInv, CallsInv, Points
  <2>2. call[s].found \in SUBSET TxIds /\ \A u \in call[s].found : u < nextTx
    BY <1>0, InFlight DEF IInv, CallsInv, HandlersKnow, Knows
  <2> QED
    BY <1>0, <1>2, <2>1, <2>2, GoesOn DEF Points
<1>4. DevicesType' /\ HistoryType'
  BY <1>0 DEF IInv, DevicesType, HistoryType, history
<1> QED
  BY <1>2, <1>3, <1>4 DEF IInv

(* The cleanups after a status report and a reboot.                         *)
LEMMA CleanupSteps ==
  ASSUME IInv, NEW s \in Slots, StatusSweep(s) \/ BootReset(s)
  PROVE  IInv'
<1>1. PICK T \in SUBSET TxIds, reason \in FailReasons :
        End(T, "Stopped", reason) /\ \A t \in T : t < nextTx
  <2>1. CASE StatusSweep(s)
    <3>1. call[s] # Idle /\ End(call[s].found, "Stopped", "StatusNotification:Available")
      BY <2>1 DEF StatusSweep, At
    <3>2. call[s].found \in SUBSET TxIds /\ \A u \in call[s].found : u < nextTx
      BY <3>1, InFlight DEF IInv, CallsInv, HandlersKnow, Knows
    <3> QED
      BY <3>1, <3>2 DEF FailReasons
  <2>2. CASE BootReset(s)
    <3>1. End(Stuck, "Stopped", "BootNotification:Reset")
      BY <2>2 DEF BootReset
    <3>2. Stuck \in SUBSET TxIds /\ \A u \in Stuck : u < nextTx
      BY RowsExist DEF Stuck, IInv
    <3> QED
      BY <3>1, <3>2 DEF FailReasons
  <2> QED
    BY <2>1, <2>2
<1>2. /\ Return(s) /\ UNCHANGED <<nextTx, conn, linked, billed, devices, history>>
      /\ UNCHANGED <<outbox, running>>
  BY DEF StatusSweep, BootReset
<1>3. /\ TableInv'
      /\ \A t \in TxIds : status'[t] = IF t \in T THEN "Stopped" ELSE status[t]
  BY <1>1, <1>2, RowsEnd DEF IInv, TxStatuses
<1>4. EventsInv'
  BY <1>2, <1>3, EndsAgree DEF IInv
<1>5. CallsInv'
  BY <1>2, <1>3, Returns DEF IInv, CallsInv, HandlersType
<1>6. DevicesType' /\ HistoryType'
  BY <1>2, DevicesStay
<1> QED
  BY <1>3, <1>4, <1>5, <1>6 DEF IInv

------------------------------------------------------------------------------
(* Failures                                                                 *)

LEMMA FaultCounted ==
  ASSUME IInv, CostsFault, UNCHANGED <<devices, sent>>
  PROVE  DevicesType' /\ HistoryType'
BY FaultsAssumption DEF IInv, DevicesType, HistoryType, devices, CostsFault

LEMMA FailureSteps ==
  ASSUME IInv, NEW s \in Slots, CallFails(s) \/ SideEffectFails(s)
  PROVE  IInv'
<1>1. CostsFault /\ UNCHANGED <<sessions, devices, outbox, sent>>
  BY DEF CallFails, SideEffectFails
<1>2. Return(s) /\ running' \in [Connectors -> TxIds \cup {NoTx}]
  <2>1. CASE CallFails(s)
    BY <2>1 DEF CallFails, IInv, CallsInv, HandlersType
  <2>2. CASE At(s, "StartTransaction", "occupy")
             /\ Answer(s, call[s].msg.connector, call[s].msg.tx)
    <3>1. call[s].msg.connector \in Connectors /\ call[s].msg.tx \in TxIds \cup {NoTx}
      BY <2>2, InFlight, MessageFields DEF At, IInv, CallsInv
    <3> QED
      BY <2>2, <3>1, AnswerReturns DEF IInv, CallsInv
  <2>3. CASE At(s, "StopTransaction", "free")
             /\ Answer(s, call[s].msg.connector, NoTx)
    <3>1. call[s].msg.connector \in Connectors
      BY <2>3, InFlight, MessageFields DEF At, IInv, CallsInv
    <3> QED
      BY <2>3, <3>1, AnswerReturns DEF IInv, CallsInv
  <2> QED
    BY <2>1, <2>2, <2>3 DEF SideEffectFails
<1>3. TableInv' /\ EventsInv' /\ CallsInv'
  BY <1>1, <1>2, QuietReturn
<1> QED
  BY <1>1, <1>3, FaultCounted DEF IInv

LEMMA GiveUpStep ==
  ASSUME IInv, GiveUp
  PROVE  IInv'
<1>1. /\ awaiting' = NoSlot /\ CostsFault
      /\ UNCHANGED <<sessions, devices, outbox, call, running, sent>>
  BY DEF GiveUp
<1>2. TableInv' /\ EventsInv' /\ nextTx' = nextTx /\ linked' = linked
  BY <1>1, Quiet
<1>3. CallsInv'
  BY <1>1, <1>2 DEF IInv, CallsInv, HandlersType, Room, CardStarts, HandlersKnow, Knows
<1> QED
  BY <1>1, <1>2, <1>3, FaultCounted DEF IInv

LEMMA CrashStep ==
  ASSUME IInv, Crash
  PROVE  IInv'
<1>1. /\ awaiting' = NoSlot /\ CostsFault /\ call' = [s \in Slots |-> Idle]
      /\ UNCHANGED <<sessions, devices, outbox, running, sent>>
  BY DEF Crash
<1>2. TableInv' /\ EventsInv' /\ nextTx' = nextTx /\ linked' = linked
  BY <1>1, Quiet
<1>3. CallsInv'
  <2>1. HandlersType'
    BY <1>1 DEF IInv, CallsInv, HandlersType
  <2>2. HandlersKnow'
    BY <1>1 DEF HandlersKnow, Knows
  <2>3. CardStarts' \subseteq CardStarts
    BY <1>1 DEF CardStarts
  <2>4. Room'
    BY <1>2, <2>3, RoomStays DEF IInv, CallsInv
  <2> QED
    BY <2>1, <2>2, <2>4 DEF CallsInv
<1> QED
  BY <1>1, <1>2, <1>3, FaultCounted DEF IInv

LEMMA Stutter ==
  ASSUME IInv, UNCHANGED vars
  PROVE  IInv'
<1>1. UNCHANGED <<sessions, outbox>> /\ UNCHANGED <<devices, history>>
      /\ UNCHANGED <<call, awaiting, running>>
  BY DEF vars, charger
<1>2. TableInv' /\ EventsInv' /\ nextTx' = nextTx /\ linked' = linked
  BY <1>1, Quiet
<1>3. CallsInv'
  BY <1>1, <1>2 DEF IInv, CallsInv, HandlersType, Room, CardStarts, HandlersKnow, Knows
<1> QED
  BY <1>1, <1>2, <1>3, DevicesStay DEF IInv

------------------------------------------------------------------------------
(* The theorems                                                             *)

LEMMA InitInvariant == Init => IInv
<1> SUFFICES ASSUME Init PROVE IInv
  OBVIOUS
<1> USE DEF Init
<1>1. TableInv
  BY TxAssumption DEF TableInv, SessionsType, RowsFree, TxStatuses, FailReasons
<1>2. EventsInv
  BY DEF EventsInv, OutboxType, OutboxAgreesWithRows, StartComesFirst, Published, ToSet
<1>3. CallsInv
  <2>1. CardStarts = {}
    BY DEF CardStarts
  <2>2. Room
    BY <2>1, FS_EmptySet, TxAssumption DEF Room
  <2> QED
    BY <2>2 DEF CallsInv, HandlersType, HandlersKnow, Knows
<1>4. DevicesType /\ HistoryType
  BY CallsAssumption, FaultsAssumption DEF DevicesType, HistoryType
<1> QED
  BY <1>1, <1>2, <1>3, <1>4 DEF IInv

LEMMA NextInvariant == IInv /\ [Next]_vars => IInv'
<1> SUFFICES ASSUME IInv, [Next]_vars PROVE IInv'
  OBVIOUS
<1>1. ASSUME NEW c \in Connectors, CreatePending(c) PROVE IInv'
  BY <1>1, PortalStep
<1>2. CASE SessionTimeout
  BY <1>2, TimerStep
<1>3. ASSUME NEW s \in Slots, Send(s) PROVE IInv'
  BY <1>3, ChargerStep
<1>4. ASSUME NEW s \in Slots, Handle(s) PROVE IInv'
  BY <1>4, HandlerReads, CreateStep, ActivateStep, StopStep, MeterStep, DeviceSteps,
     ReportStep, OnlineStep, CleanupSteps
  DEF Handle
<1>5. ASSUME NEW s \in Slots, CallFails(s) \/ SideEffectFails(s) PROVE IInv'
  BY <1>5, FailureSteps
<1>6. CASE GiveUp
  BY <1>6, GiveUpStep
<1>7. CASE Crash
  BY <1>7, CrashStep
<1>8. CASE Done \/ UNCHANGED vars
  BY <1>8, Stutter DEF Done
<1> QED
  BY <1>1, <1>2, <1>3, <1>4, <1>5, <1>6, <1>7, <1>8 DEF Next

THEOREM Invariance == Spec => []IInv
BY InitInvariant, NextInvariant, PTL DEF Spec

(* Every variable keeps its type: no handler leaves a row, a connector or   *)
(* an event outside what the schema and the outbox know, and the table      *)
(* never needs a row more than were kept for it.                            *)
THEOREM TypeCorrect == Spec => []TypeOK
<1>1. IInv => TypeOK
  BY DEF IInv, TableInv, EventsInv, CallsInv, TypeOK
<1> QED
  BY <1>1, Invariance, PTL

(* In whatever order handlers interleave, fail or die, exactly the started  *)
(* rows have their TransactionStarted and exactly the billed ones their     *)
(* TransactionStopped in the outbox.                                        *)
THEOREM RowsAndEventsAgree == Spec => []OutboxAgreesWithRows
<1>1. IInv => OutboxAgreesWithRows
  BY DEF IInv, EventsInv
<1> QED
  BY <1>1, Invariance, PTL

(* No meter value and no stop of a session reaches the outbox before its    *)
(* start.                                                                   *)
THEOREM StartsComeFirst == Spec => []StartComesFirst
<1>1. IInv => StartComesFirst
  BY DEF IInv, EventsInv
<1> QED
  BY <1>1, Invariance, PTL


------------------------------------------------------------------------------
(* What a handler carries through its awaits, and what the charger          *)
(* remembers: the row a start names is of its connector, the row a stop     *)
(* names has started.                                                       *)

RowsOnConnectors == \A t \in TxIds : conn[t] \in Connectors <=> t < nextTx

CarriesStart(s) ==
  call[s].msg.action = "StartTransaction" =>
    /\ call[s].msg.tx = NoTx => call[s].at \in {"read", "create"}
    /\ call[s].msg.tx # NoTx =>
         /\ conn[call[s].msg.tx] = call[s].msg.connector
         /\ call[s].at = "activate" => call[s].found = {call[s].msg.tx}
         /\ call[s].at = "occupy" => linked[call[s].msg.tx]

CarriesStop(s) ==
  call[s].msg.action = "StopTransaction" =>
    /\ call[s].msg.tx # NoTx => /\ linked[call[s].msg.tx]
                                /\ conn[call[s].msg.tx] = call[s].msg.connector
    /\ call[s].at \in {"read", "commit", "free"}
    /\ call[s].at # "read" => call[s].msg.tx # NoTx
    /\ call[s].at = "commit" => call[s].found = {call[s].msg.tx}

Carries(s) == call[s] # Idle => CarriesStart(s) /\ CarriesStop(s)

RunningIsKnown ==
  \A c \in Connectors :
    running[c] # NoTx => linked[running[c]] /\ conn[running[c]] = c

CarryInv ==
  RowsOnConnectors /\ RunningIsKnown /\ \A s \in Slots : Carries(s)

(* Rows are not taken back.                                                 *)
RowsKept ==
  \A t \in TxIds : /\ linked[t] => linked'[t]
                   /\ t < nextTx => conn'[t] = conn[t]

LEMMA LinkedExists ==
  ASSUME IInv, NEW t \in TxIds, linked[t]
  PROVE  t < nextTx
BY RowsExist DEF IInv, EventsInv, OutboxAgreesWithRows

LEMMA CreatesARow ==
  ASSUME IInv, NEW s \in Slots, call[s] # Idle,
         call[s].msg.action = "StartTransaction", call[s].msg.tx = NoTx
  PROVE  nextTx \in TxIds
<1>1. s \in CardStarts
  BY DEF CardStarts
<1>2. Cardinality(CardStarts) # 0
  BY <1>1, Starts, FS_EmptySet
<1> QED
  BY <1>2, Starts, TxAssumption DEF IInv, CallsInv, Room, TableInv, SessionsType, TxIds

LEMMA Carried ==
  ASSUME IInv, CarryInv, RowsKept, RowsOnConnectors', RunningIsKnown',
         NEW s \in Slots, OneMoves(s), Carries(s)'
  PROVE  CarryInv'
<1> SUFFICES ASSUME NEW r \in Slots \ {s}, call[r] # Idle PROVE Carries(r)'
  BY DEF CarryInv, Carries, OneMoves
<1>1. call'[r] = call[r] /\ Carries(r)
  BY DEF CarryInv, OneMoves
<1>2. CarriesStart(r)'
  <2> SUFFICES ASSUME call[r].msg.action = "StartTransaction", call[r].msg.tx # NoTx
               PROVE  /\ conn'[call[r].msg.tx] = conn[call[r].msg.tx]
                      /\ linked[call[r].msg.tx] => linked'[call[r].msg.tx]
    BY <1>1 DEF Carries, CarriesStart
  <2>1. call[r].msg.tx \in TxIds /\ call[r].msg.connector \in Connectors
    BY InFlight, MessageFields DEF IInv, CallsInv
  <2>2. call[r].msg.tx < nextTx
    BY <1>1, <2>1 DEF CarryInv, RowsOnConnectors, Carries, CarriesStart
  <2> QED
    BY <2>1, <2>2 DEF RowsKept
<1>3. CarriesStop(r)'
  <2> SUFFICES ASSUME call[r].msg.action = "StopTransaction", call[r].msg.tx # NoTx
               PROVE  linked'[call[r].msg.tx] /\ conn'[call[r].msg.tx] = call[r].msg.connector
    BY <1>1 DEF Carries, CarriesStop
  <2>1. /\ call[r].msg.tx \in TxIds /\ linked[call[r].msg.tx]
        /\ conn[call[r].msg.tx] = call[r].msg.connector
    BY <1>1, InFlight, MessageFields DEF IInv, CallsInv, Carries, CarriesStop
  <2> QED
    BY <2>1, LinkedExists DEF RowsKept
<1> QED
  BY <1>1, <1>2, <1>3 DEF Carries

LEMMA NoNewRow ==
  ASSUME IInv, CarryInv, UNCHANGED <<nextTx, conn>>, \A t \in TxIds : linked[t] => linked'[t]
  PROVE  /\ RowsKept /\ RowsOnConnectors'
         /\ running' = running => RunningIsKnown'
<1>1. running \in [Connectors -> TxIds \cup {NoTx}]
  BY DEF IInv, CallsInv, HandlersType
<1> QED
  BY <1>1 DEF RowsKept, CarryInv, RowsOnConnectors, RunningIsKnown

LEMMA NewRow ==
  ASSUME IInv, CarryInv, NEW c \in Connectors, NEW st, NewTx(c, st), nextTx \in TxIds,
         \A t \in TxIds : linked[t] => linked'[t]
  PROVE  /\ RowsKept /\ RowsOnConnectors' /\ conn'[nextTx] = c
         /\ \A t \in TxIds \ {nextTx} : conn'[t] = conn[t]
         /\ running' = running => RunningIsKnown'
<1>0. /\ running \in [Connectors -> TxIds \cup {NoTx}]
      /\ conn \in [TxIds -> Connectors \cup {Station}] /\ nextTx \in Nat
  BY TxAssumption DEF IInv, CallsInv, HandlersType, TableInv, SessionsType
<1>1. /\ nextTx' = nextTx + 1 /\ conn'[nextTx] = c
      /\ \A t \in TxIds \ {nextTx} : conn'[t] = conn[t]
  BY <1>0 DEF NewTx
<1>2. \A t \in TxIds : t < nextTx' <=> t < nextTx \/ t = nextTx
  BY <1>0, <1>1 DEF TxIds
<1>3. \A t \in TxIds : t < nextTx => t # nextTx
  BY <1>0 DEF TxIds
<1>4. RowsKept /\ RowsOnConnectors'
  BY <1>1, <1>2, <1>3 DEF RowsKept, CarryInv, RowsOnConnectors
<1>5. ASSUME running' = running PROVE RunningIsKnown'
  <2> SUFFICES ASSUME NEW d \in Connectors, running[d] # NoTx
               PROVE  linked'[running[d]] /\ conn'[running[d]] = d
    BY <1>5 DEF RunningIsKnown
  <2>1. running[d] \in TxIds /\ linked[running[d]] /\ conn[running[d]] = d
    BY <1>0 DEF CarryInv, RunningIsKnown
  <2>2. running[d] # nextTx
    BY <1>3, <2>1, LinkedExists
  <2> QED
    BY <1>1, <2>1, <2>2
<1> QED
  BY <1>1, <1>4, <1>5

(* The charger is told that t runs on c, or that nothing does.              *)
LEMMA Told ==
  ASSUME IInv, CarryInv, RowsKept, NEW s \in Slots, NEW c \in Connectors,
         NEW t \in TxIds \cup {NoTx}, Answer(s, c, t),
         t # NoTx => linked'[t] /\ conn'[t] = c
  PROVE  RunningIsKnown'
<1>0. running \in [Connectors -> TxIds \cup {NoTx}]
  BY DEF IInv, CallsInv, HandlersType
<1>1. \A d \in Connectors : running'[d] = running[d] \/ (d = c /\ running'[d] = t)
  BY <1>0 DEF Answer
<1> QED
  BY <1>0, <1>1, LinkedExists DEF CarryInv, RunningIsKnown, RowsKept

LEMMA CarryBegin ==
  ASSUME IInv, CarryInv, NEW s \in Slots, NEW m \in Messages, Begin(s, m), RunningIsKnown',
         m.action = "StartTransaction" /\ m.tx # NoTx => conn[m.tx] = m.connector,
         m.action = "StopTransaction" /\ m.tx # NoTx => linked[m.tx] /\ conn[m.tx] = m.connector
  PROVE  CarryInv'
<1> DEFINE h == [at |-> Entry(m), msg |-> m, found |-> {}, wasInFault |-> FALSE]
<1>1. call' = [call EXCEPT ![s] = h] /\ UNCHANGED sessions
  BY DEF Begin
<1>2. h.msg = m /\ h.at = Entry(m)
  OBVIOUS
<1> HIDE DEF h
<1>3. OneMoves(s) /\ call'[s] = h
  <2>1. h \in Handlers
    BY DEF h, Handlers, Entry, Points
  <2> QED
    BY <1>1, <2>1 DEF IInv, CallsInv, HandlersType, OneMoves
<1>4. m.action \in {"StartTransaction", "StopTransaction"} => h.at = "read"
  BY <1>2 DEF Entry
<1>5. Carries(s)'
  BY <1>1, <1>2, <1>3, <1>4 DEF Carries, CarriesStart, CarriesStop, sessions
<1> QED
  BY <1>1, <1>3, <1>5, NoNewRow, Carried DEF sessions

LEMMA CarrySend ==
  ASSUME IInv, CarryInv, NEW s \in Slots, Send(s)
  PROVE  CarryInv'
<1>0. /\ running \in [Connectors -> TxIds \cup {NoTx}]
      /\ running' = running => RunningIsKnown'
  <2>1. UNCHANGED sessions
    BY DEF Send, SendStart, SendStop, SendMeterValues, SendStatus, SendBoot, Begin
  <2> QED
    BY <2>1, NoNewRow DEF IInv, CallsInv, HandlersType, sessions
<1>1. CASE \E c \in Connectors, t \in TxIds \cup {NoTx} : SendStart(s, c, t)
  <2>1. PICK c \in Connectors, t \in TxIds \cup {NoTx} : SendStart(s, c, t)
    BY <1>1
  <2> DEFINE m == [action |-> "StartTransaction", connector |-> c, tx |-> t]
  <2>2. /\ m \in Messages /\ Begin(s, m) /\ running' = running
        /\ m.action = "StartTransaction" /\ (m.tx # NoTx => conn[m.tx] = m.connector)
    BY <2>1 DEF SendStart, Messages
  <2> HIDE DEF m
  <2> QED
    BY <1>0, <2>2, CarryBegin
<1>2. CASE \E c \in Connectors : SendStop(s, c)
  <2>1. PICK c \in Connectors : SendStop(s, c)
    BY <1>2
  <2> DEFINE m == [action |-> "StopTransaction", connector |-> c, tx |-> running[c]]
  <2>2. /\ m \in Messages /\ Begin(s, m) /\ running' = running
        /\ m.action = "StopTransaction"
        /\ (m.tx # NoTx => linked[m.tx] /\ conn[m.tx] = m.connector)
    BY <1>0, <2>1 DEF SendStop, Messages, CarryInv, RunningIsKnown
  <2> HIDE DEF m
  <2> QED
    BY <1>0, <2>2, CarryBegin
<1>3. CASE \E c \in Connectors : SendMeterValues(s, c)
  <2>1. PICK c \in Connectors : SendMeterValues(s, c)
    BY <1>3
  <2> DEFINE m == [action |-> "MeterValues", connector |-> c]
  <2>2. /\ m \in Messages /\ Begin(s, m) /\ running' = running /\ m.action = "MeterValues"
    BY <2>1 DEF SendMeterValues, Messages
  <2> HIDE DEF m
  <2> QED
    BY <1>0, <2>2, CarryBegin
<1>4. CASE \E c \in Connectors \cup {Station}, r \in Reports : SendStatus(s, c, r)
  <2>1. PICK c \in Connectors \cup {Station}, r \in Reports : SendStatus(s, c, r)
    BY <1>4
  <2> DEFINE m == [action |-> "StatusNotification", connector |-> c, report |-> r]
  <2>2. /\ m \in Messages /\ Begin(s, m) /\ running' = running /\ m.action = "StatusNotification"
    BY <2>1 DEF SendStatus, Messages
  <2> HIDE DEF m
  <2> QED
    BY <1>0, <2>2, CarryBegin
<1>5. CASE SendBoot(s)
  <2> DEFINE m == [action |-> "BootNotification"]
  <2>1. m \in Messages /\ Begin(s, m) /\ m.action = "BootNotification"
    BY <1>5 DEF SendBoot, Messages
  <2>2. RunningIsKnown'
    BY <1>0, <1>5 DEF SendBoot, RunningIsKnown
  <2> HIDE DEF m
  <2> QED
    BY <2>1, <2>2, CarryBegin
<1> QED
  BY <1>1, <1>2, <1>3, <1>4, <1>5 DEF Send

(* A handler goes on; what it is about to write it has found.               *)
LEMMA CarryGoes ==
  ASSUME IInv, CarryInv, NEW s \in Slots, call[s] # Idle, NEW point, NEW T,
         Goes(s, point, T), UNCHANGED <<running, nextTx, conn>>,
         \A t \in TxIds : linked[t] => linked'[t],
         call[s].msg.action = "StartTransaction" =>
           /\ call[s].msg.tx = NoTx => point \in {"read", "create"}
           /\ call[s].msg.tx # NoTx =>
                /\ point = "activate" => T = {call[s].msg.tx}
                /\ point = "occupy" => linked'[call[s].msg.tx],
         call[s].msg.action = "StopTransaction" =>
           /\ point \in {"commit", "free"} /\ call[s].msg.tx # NoTx
           /\ point = "commit" => T = {call[s].msg.tx}
  PROVE  CarryInv'
<1>1. /\ OneMoves(s) /\ call'[s].at = point
      /\ call'[s].msg = call[s].msg /\ call'[s].found = T
  BY DEF Goes
<1>2. Carries(s)
  BY DEF CarryInv
<1>3. CarriesStart(s)'
  BY <1>1, <1>2 DEF Carries, CarriesStart
<1>4. CarriesStop(s)'
  <2>1. call[s].msg.action = "StopTransaction" => call[s].msg.tx \in TxIds \cup {NoTx}
    BY InFlight, MessageFields DEF IInv, CallsInv
  <2> QED
    BY <1>1, <1>2, <2>1 DEF Carries, CarriesStop
<1>5. Carries(s)'
  BY <1>3, <1>4 DEF Carries
<1> QED
  BY <1>1, <1>5, NoNewRow, Carried

LEMMA CarryReturn ==
  ASSUME IInv, CarryInv, NEW s \in Slots, Return(s), UNCHANGED <<nextTx, conn>>,
         \A t \in TxIds : linked[t] => linked'[t],
         running' = running \/ RunningIsKnown'
  PROVE  CarryInv'
<1>1. OneMoves(s) /\ call'[s] = Idle
  BY ReturnShape DEF IInv, CallsInv
<1>2. Carries(s)'
  BY <1>1 DEF Carries
<1> QED
  BY <1>1, <1>2, NoNewRow, Carried

LEMMA CarryStart ==
  ASSUME IInv, CarryInv, NEW s \in Slots,
         StartRead(s) \/ StartCreate(s) \/ StartUnknownTag(s) \/ StartActivate(s) \/ StartOccupy(s)
  PROVE  CarryInv'
<1>0. /\ HandlersType /\ call[s] # Idle /\ call[s].msg.action = "StartTransaction"
      /\ call[s].msg.connector \in Connectors /\ call[s].msg.tx \in TxIds \cup {NoTx}
      /\ CarriesStart(s) /\ linked \in [TxIds -> BOOLEAN]
  <2>1. /\ HandlersType /\ call[s] # Idle /\ call[s].msg.action = "StartTransaction"
    BY DEF IInv, CallsInv, StartRead, StartCreate, StartUnknownTag, StartActivate, StartOccupy, At
  <2> QED
    BY <2>1, InFlight, MessageFields DEF CarryInv, Carries, IInv, TableInv, SessionsType
<1>1. CASE StartRead(s)
  <2> DEFINE t == call[s].msg.tx
  <2>0. UNCHANGED <<nextTx, conn, linked>>
    BY <1>1 DEF StartRead, sessions
  <2>1. CASE Startable(t)
    <3>1. GotoWith(s, "activate", {t}) /\ {t} \in SUBSET TxIds
      BY <1>0, <1>1, <2>1 DEF StartRead, Startable
    <3>2. Goes(s, "activate", {t}) /\ running' = running
      BY <1>0, <3>1, GotoWithShape DEF Points, charger
    <3> QED
      BY <1>0, <2>0, <2>1, <3>2, CarryGoes DEF Startable
  <2>2. CASE ~Startable(t)
    <3>1. Goto(s, "create")
      BY <1>1, <2>2 DEF StartRead
    <3>2. Goes(s, "create", call[s].found) /\ running' = running
      BY <1>0, <3>1, GotoShape DEF Points, charger
    <3> QED
      BY <1>0, <2>0, <3>2, CarryGoes
  <2> QED
    BY <2>1, <2>2
<1>2. CASE StartCreate(s)
  <2> DEFINE c == call[s].msg.connector
  <2>1. /\ NewTx(c, "Active") /\ linked' = [linked EXCEPT ![nextTx] = TRUE]
        /\ Answer(s, c, nextTx)
    BY <1>2 DEF StartCreate
  <2>2. nextTx \in TxIds
    BY <1>0, <1>2, CreatesARow DEF StartCreate
  <2>3. linked'[nextTx] /\ \A t \in TxIds : linked[t] => linked'[t]
    BY <1>0, <2>1, <2>2
  <2>4. RowsKept /\ RowsOnConnectors' /\ conn'[nextTx] = c
    BY <1>0, <2>1, <2>2, <2>3, NewRow
  <2>5. RunningIsKnown'
    BY <1>0, <2>1, <2>2, <2>3, <2>4, Told
  <2>6. OneMoves(s) /\ Carries(s)'
    BY <1>0, <2>1, ReturnShape DEF Answer, Carries
  <2> QED
    BY <2>4, <2>5, <2>6, Carried
<1>3. CASE StartUnknownTag(s)
  BY <1>3, CarryReturn DEF StartUnknownTag, sessions
<1>4. CASE StartActivate(s)
  <2>1. call[s].msg.tx \in TxIds /\ call[s].found = {call[s].msg.tx}
    BY <1>0, <1>4 DEF StartActivate, At, CarriesStart
  <2>2. /\ linked' = [linked EXCEPT ![call[s].msg.tx] = TRUE]
        /\ Goto(s, "occupy") /\ UNCHANGED <<nextTx, conn>>
    BY <1>4, <2>1 DEF StartActivate
  <2>3. Goes(s, "occupy", call[s].found) /\ running' = running
    BY <1>0, <2>2, GotoShape DEF Points, charger
  <2>4. linked'[call[s].msg.tx] /\ \A t \in TxIds : linked[t] => linked'[t]
    BY <1>0, <2>1, <2>2
  <2> QED
    BY <1>0, <2>1, <2>2, <2>3, <2>4, CarryGoes DEF TxIds
<1>5. CASE StartOccupy(s)
  <2>1. /\ Answer(s, call[s].msg.connector, call[s].msg.tx) /\ call[s].at = "occupy"
        /\ UNCHANGED <<nextTx, conn, linked>>
    BY <1>5 DEF StartOccupy, At, sessions
  <2>2. RunningIsKnown'
    BY <1>0, <2>1, NoNewRow, Told DEF CarriesStart
  <2> QED
    BY <2>1, <2>2, CarryReturn DEF Answer
<1> QED
  BY <1>1, <1>2, <1>3, <1>4, <1>5

LEMMA CarryStop ==
  ASSUME IInv, CarryInv, NEW s \in Slots, StopRead(s) \/ StopCommit(s) \/ StopFree(s)
  PROVE  CarryInv'
<1>0. /\ HandlersType /\ call[s] # Idle /\ call[s].msg.action = "StopTransaction"
      /\ call[s].msg.connector \in Connectors /\ call[s].msg.tx \in TxIds \cup {NoTx}
      /\ CarriesStop(s) /\ UNCHANGED <<nextTx, conn, linked>>
  <2>1. /\ HandlersType /\ call[s] # Idle /\ call[s].msg.action = "StopTransaction"
        /\ UNCHANGED <<nextTx, conn, linked>>
    BY DEF IInv, CallsInv, StopRead, StopCommit, StopFree, At, sessions
  <2> QED
    BY <2>1, InFlight, MessageFields DEF CarryInv, Carries
<1>1. ASSUME Answer(s, call[s].msg.connector, NoTx) PROVE CarryInv'
  <2>1. RunningIsKnown'
    BY <1>0, <1>1, NoNewRow, Told
  <2> QED
    BY <1>0, <1>1, <2>1, CarryReturn DEF Answer
<1>2. CASE StopRead(s)
  <2>1. CASE call[s].msg.tx # NoTx /\ linked[call[s].msg.tx]
    <3>1. GotoWith(s, "commit", {call[s].msg.tx}) /\ {call[s].msg.tx} \in SUBSET TxIds
      BY <1>0, <1>2, <2>1 DEF StopRead
    <3>2. Goes(s, "commit", {call[s].msg.tx}) /\ running' = running
      BY <1>0, <3>1, GotoWithShape DEF Points, charger
    <3> QED
      BY <1>0, <2>1, <3>2, CarryGoes
  <2> QED
    BY <1>1, <1>2, <2>1 DEF StopRead
<1>3. CASE StopCommit(s)
  <2>1. Goto(s, "free") /\ call[s].at = "commit"
    BY <1>3 DEF StopCommit, At
  <2>2. Goes(s, "free", call[s].found) /\ running' = running
    BY <1>0, <2>1, GotoShape DEF Points, charger
  <2> QED
    BY <1>0, <2>1, <2>2, CarryGoes DEF CarriesStop
<1>4. CASE StopFree(s)
  BY <1>1, <1>4 DEF StopFree
<1> QED
  BY <1>2, <1>3, <1>4

(* The other handlers name no row.                                          *)
LEMMA CarryOther ==
  ASSUME IInv, CarryInv, NEW s \in Slots, call[s] # Idle,
         call[s].msg.action \notin {"StartTransaction", "StopTransaction"},
         \/ Return(s)
         \/ \E point \in Points : Goto(s, point) \/ \E T \in SUBSET TxIds : GotoWith(s, point, T)
         \/ StatusRead(s),
         UNCHANGED <<nextTx, conn, linked, running>>
  PROVE  CarryInv'
<1>1. CASE Return(s)
  BY <1>1, CarryReturn
<1>2. CASE \E point \in Points : Goto(s, point) \/ \E T \in SUBSET TxIds : GotoWith(s, point, T)
  <2>1. \E point \in Points : \E T \in SUBSET TxIds : Goes(s, point, T)
    BY <1>2, GotoShape, GotoWithShape, InFlight DEF IInv, CallsInv
  <2> QED
    BY <2>1, CarryGoes
<1>3. CASE StatusRead(s)
  <2> DEFINE h == [call[s] EXCEPT !.at = "commit",
                                  !.wasInFault = errorCode[call[s].msg.connector]]
  <2>1. call[s] \in Handlers /\ HandlersType
    BY InFlight DEF IInv, CallsInv
  <2>2. errorCode[call[s].msg.connector] \in BOOLEAN
    BY <1>3 DEF StatusRead, At, IInv, CallsInv, HandlersKnow, Knows, DevicesType
  <2>3. h \in Handlers /\ h.msg = call[s].msg
    BY <2>1, <2>2 DEF Handlers, Points
  <2>4. call' = [call EXCEPT ![s] = h]
    BY <1>3 DEF StatusRead
  <2> HIDE DEF h
  <2>5. Goes(s, h.at, h.found)
    BY <2>1, <2>3, <2>4, RecordGoes
  <2> QED
    BY <2>5, CarryGoes
<1> QED
  BY <1>1, <1>2, <1>3

LEMMA CarryHandle ==
  ASSUME IInv, CarryInv, NEW s \in Slots, Handle(s)
  PROVE  CarryInv'
<1>1. CASE MeterRead(s) \/ MeterReport(s)
  <2>1. /\ call[s] # Idle /\ call[s].msg.action = "MeterValues"
        /\ Return(s) \/ \E T \in SUBSET TxIds : GotoWith(s, "report", T)
        /\ UNCHANGED <<nextTx, conn, linked, running>>
    BY <1>1 DEF MeterRead, MeterReport, At, GotoWith, ActiveOn, sessions, charger
  <2> QED
    BY <2>1, CarryOther DEF Points
<1>2. CASE StatusStation(s) \/ StatusRead(s) \/ StatusCommit(s)
  <2>1. /\ call[s] # Idle /\ call[s].msg.action = "StatusNotification"
        /\ Return(s) \/ Goto(s, "stuck") \/ StatusRead(s)
        /\ UNCHANGED <<nextTx, conn, linked, running>>
    BY <1>2 DEF StatusStation, StatusRead, StatusCommit, At, Goto, sessions, charger
  <2> QED
    BY <2>1, CarryOther DEF Points
<1>3. CASE StatusFindStuck(s) \/ StatusSweep(s)
  <2>1. /\ call[s] # Idle /\ call[s].msg.action = "StatusNotification"
        /\ Return(s) \/ \E T \in SUBSET TxIds : GotoWith(s, "sweep", T)
        /\ UNCHANGED <<nextTx, conn, linked, running>>
    BY <1>3 DEF StatusFindStuck, StatusSweep, At, GotoWith, Stuck, sessions, charger
  <2> QED
    BY <2>1, CarryOther DEF Points
<1>4. CASE BootOnline(s) \/ BootReset(s)
  <2>1. /\ call[s] # Idle /\ call[s].msg.action = "BootNotification"
        /\ Return(s) \/ Goto(s, "reset")
        /\ UNCHANGED <<nextTx, conn, linked, running>>
    BY <1>4 DEF BootOnline, BootReset, At, Goto, sessions, charger
  <2> QED
    BY <2>1, CarryOther DEF Points
<1> QED
  BY <1>1, <1>2, <1>3, <1>4, CarryStart, CarryStop DEF Handle

LEMMA CarryFails ==
  ASSUME IInv, CarryInv, NEW s \in Slots, CallFails(s) \/ SideEffectFails(s)
  PROVE  CarryInv'
<1>0. UNCHANGED <<nextTx, conn, linked>> /\ HandlersType
  BY DEF CallFails, SideEffectFails, sessions, IInv, CallsInv
<1>1. CASE CallFails(s)
  BY <1>0, <1>1, CarryReturn DEF CallFails
<1>2. ASSUME NEW a \in {"StartTransaction", "StopTransaction"}, NEW p, At(s, a, p),
             NEW t \in {call[s].msg.tx, NoTx}, Answer(s, call[s].msg.connector, t),
             t # NoTx => a = "StartTransaction" /\ p = "occupy"
      PROVE  CarryInv'
  <2>1. /\ call[s].msg.connector \in Connectors /\ call[s].msg.tx \in TxIds \cup {NoTx}
        /\ CarriesStart(s)
    BY <1>0, <1>2, InFlight, MessageFields DEF At, CarryInv, Carries
  <2>2. t # NoTx => linked'[t] /\ conn'[t] = call[s].msg.connector
    BY <1>0, <1>2, <2>1 DEF At, CarriesStart
  <2>3. RunningIsKnown'
    BY <1>0, <1>2, <2>1, <2>2, NoNewRow, Told
  <2> QED
    BY <1>0, <1>2, <2>3, CarryReturn DEF Answer
<1>3. CASE SideEffectFails(s)
  BY <1>2, <1>3 DEF SideEffectFails
<1> QED
  BY <1>1, <1>3

LEMMA CarryStep == IInv /\ CarryInv /\ [Next]_vars => CarryInv'
<1> SUFFICES ASSUME IInv, CarryInv, [Next]_vars PROVE CarryInv'
  OBVIOUS
<1>1. ASSUME NEW c \in Connectors, CreatePending(c) PROVE CarryInv'
  <2>1. /\ NewTx(c, "Pending") /\ UNCHANGED <<linked, call, running>>
        /\ nextTx \in TxIds
    BY <1>1, FreeRow DEF CreatePending, charger, IInv
  <2>2. RowsKept /\ RowsOnConnectors' /\ RunningIsKnown'
    BY <2>1, NewRow
  <2> SUFFICES ASSUME NEW s \in Slots PROVE Carries(s)'
    BY <2>2 DEF CarryInv
  <2>3. OneMoves(s) /\ Carries(s)
    BY <2>1 DEF OneMoves, IInv, CallsInv, HandlersType, CarryInv
  <2>4. ASSUME call[s] # Idle, call[s].msg.action \in {"StartTransaction", "StopTransaction"},
               call[s].msg.tx # NoTx
        PROVE  conn'[call[s].msg.tx] = conn[call[s].msg.tx]
    <3>1. call[s].msg.tx \in TxIds /\ call[s].msg.connector \in Connectors
      BY <2>4, InFlight, MessageFields DEF IInv, CallsInv
    <3>2. call[s].msg.tx < nextTx
      BY <2>3, <2>4, <3>1 DEF CarryInv, RowsOnConnectors, Carries, CarriesStart, CarriesStop
    <3> QED
      BY <2>2, <3>1, <3>2 DEF RowsKept
  <2> QED
    BY <2>1, <2>3, <2>4 DEF Carries, CarriesStart, CarriesStop
<1>2. CASE SessionTimeout \/ GiveUp \/ UNCHANGED vars
  <2>1. UNCHANGED <<nextTx, conn, linked, call, running>>
    BY <1>2 DEF SessionTimeout, GiveUp, vars, sessions, charger
  <2> QED
    BY <2>1, NoNewRow DEF CarryInv, Carries, CarriesStart, CarriesStop
<1>3. CASE Crash
  <2>1. UNCHANGED <<nextTx, conn, linked, running>> /\ \A s \in Slots : call'[s] = Idle
    BY <1>3 DEF Crash, sessions
  <2> QED
    BY <2>1, NoNewRow DEF CarryInv, Carries
<1> QED
  BY <1>1, <1>2, <1>3, CarrySend, CarryHandle, CarryFails DEF Next, Done

LEMMA CarryInit == Init => CarryInv
BY StationAssumption, TxAssumption
DEF Init, CarryInv, RowsOnConnectors, RunningIsKnown, Carries, TxIds

------------------------------------------------------------------------------
(* Counting.  Every handler but the one whose answer the charger awaits has *)
(* cost a fault.  A session's start is tried again only by handlers that    *)
(* read it pending; its stop only by the handlers in flight and by one more *)
(* call, while the charger believes that the session runs.                  *)

Orphans == {s \in Slots : call[s] # Idle /\ awaiting # s}

Starting(t) ==
  {s \in Slots : /\ call[s] # Idle /\ call[s].msg.action = "StartTransaction"
                 /\ call[s].msg.tx = t /\ call[s].at = "activate"}

Stopping(t) ==
  {s \in Slots : /\ call[s] # Idle /\ call[s].msg.action = "StopTransaction"
                 /\ call[s].msg.tx = t /\ call[s].at \in {"read", "commit"}}

AwaitsStop(t) ==
  \E s \in Slots :
    awaiting = s /\ call[s] # Idle /\ call[s].msg.action = "StopTransaction"
    /\ call[s].msg.tx = t

AwaitsStart(t) ==
  \E s \in Slots :
    awaiting = s /\ call[s] # Idle /\ call[s].msg.action = "StartTransaction"
    /\ call[s].msg.tx = t /\ call[s].at \in {"activate", "occupy"}

StopsAhead(t) == (running[conn[t]] = t /\ ~AwaitsStop(t)) \/ AwaitsStart(t)
MayStop(t) == IF StopsAhead(t) THEN 1 ELSE 0

StartSum(t) == Times(TxEvent("TransactionStarted", t)) + Cardinality(Starting(t))
StopSum(t)  == Times(TxEvent("TransactionStopped", t)) + Cardinality(Stopping(t)) + MayStop(t)

OrphansArePaid == Cardinality(Orphans) <= faults
SumsArePaid ==
  \A t \in TxIds : linked[t] => StartSum(t) <= 1 + faults /\ StopSum(t) <= 1 + faults

CountInv == OrphansArePaid /\ SumsArePaid

LEMMA SlotSets ==
  /\ \A X \in SUBSET Slots : IsFiniteSet(X) /\ Cardinality(X) \in Nat
  /\ \A X, Y \in SUBSET Slots : X \subseteq Y => Cardinality(X) <= Cardinality(Y)
  /\ \A X \in SUBSET Slots, s \in Slots :
       /\ Cardinality(X \cup {s}) = IF s \in X THEN Cardinality(X) ELSE Cardinality(X) + 1
       /\ s \in X => Cardinality(X \ {s}) = Cardinality(X) - 1
<1>1. ASSUME NEW X \in SUBSET Slots PROVE IsFiniteSet(X) /\ Cardinality(X) \in Nat
  BY SlotAssumption, FS_Subset, FS_CardinalityType
<1>2. ASSUME NEW X \in SUBSET Slots, NEW Y \in SUBSET Slots, X \subseteq Y
      PROVE  Cardinality(X) <= Cardinality(Y)
  BY <1>1, <1>2, FS_Subset
<1>3. ASSUME NEW X \in SUBSET Slots, NEW s \in Slots
      PROVE  /\ Cardinality(X \cup {s}) = IF s \in X THEN Cardinality(X) ELSE Cardinality(X) + 1
             /\ s \in X => Cardinality(X \ {s}) = Cardinality(X) - 1
  BY <1>1, FS_AddElement, FS_RemoveElement
<1> QED
  BY <1>1, <1>2, <1>3

LEMMA SetsOfSlots ==
  /\ Orphans \in SUBSET Slots /\ Orphans' \in SUBSET Slots
  /\ \A t : /\ Starting(t) \in SUBSET Slots /\ Starting(t)' \in SUBSET Slots
            /\ Stopping(t) \in SUBSET Slots /\ Stopping(t)' \in SUBSET Slots
BY DEF Orphans, Starting, Stopping

LEMMA TimesType ==
  ASSUME OutboxType, NEW e
  PROVE  /\ {i \in DOMAIN outbox : outbox[i] = e} \subseteq 1 .. Len(outbox)
         /\ IsFiniteSet({i \in DOMAIN outbox : outbox[i] = e})
         /\ Times(e) \in Nat
         /\ ~Published(e) => Times(e) = 0
<1> DEFINE K == {i \in DOMAIN outbox : outbox[i] = e}
<1>1. DOMAIN outbox = 1 .. Len(outbox) /\ Len(outbox) \in Nat
  BY DEF OutboxType
<1>2. K \subseteq 1 .. Len(outbox)
  BY <1>1
<1>3. IsFiniteSet(K)
  <2>1. IsFiniteSet(1 .. Len(outbox))
    BY <1>1, FS_Interval
  <2> QED
    BY <1>2, <2>1, FS_Subset
<1>4. Times(e) = Cardinality(K)
  BY DEF Times
<1>5. ~Published(e) => K = {}
  BY <1>1 DEF Published, ToSet
<1> QED
  BY <1>2, <1>3, <1>4, <1>5, FS_CardinalityType, FS_EmptySet

LEMMA TimesKept ==
  ASSUME OutboxType, NEW es \in Seq(Events), Publish(es), NEW e, e \notin ToSet(es)
  PROVE  Times(e)' = Times(e)
<1>1. \A k \in DOMAIN es : es[k] # e
  BY DEF ToSet
<1>2. {i \in DOMAIN outbox' : outbox'[i] = e} = {i \in DOMAIN outbox : outbox[i] = e}
  BY <1>1, Appends
<1> QED
  BY <1>2 DEF Times

LEMMA TimesCounted ==
  ASSUME OutboxType, NEW e \in Events, Publish(<<e>>)
  PROVE  Times(e)' = Times(e) + 1
<1> DEFINE K == {i \in DOMAIN outbox : outbox[i] = e}
           n == Len(outbox) + 1
<1>1. /\ DOMAIN outbox = 1 .. Len(outbox) /\ Len(outbox) \in Nat
      /\ outbox' = outbox \o <<e>> /\ outbox \in Seq(Events)
  BY DEF OutboxType, Publish
<1>2. /\ DOMAIN outbox' = 1 .. n /\ outbox'[n] = e
      /\ \A i \in 1 .. Len(outbox) : outbox'[i] = outbox[i]
  BY <1>1
<1>3. {i \in DOMAIN outbox' : outbox'[i] = e} = K \cup {n} /\ n \notin K
  BY <1>1, <1>2
<1>4. IsFiniteSet(K)
  BY TimesType
<1> HIDE DEF K, n
<1>5. Cardinality(K \cup {n}) = Cardinality(K) + 1
  BY <1>3, <1>4, FS_AddElement
<1> QED
  BY <1>3, <1>5 DEF Times, K

LEMMA SumTypes ==
  ASSUME IInv, NEW t \in TxIds
  PROVE  /\ StartSum(t) \in Nat /\ StopSum(t) \in Nat /\ faults \in Nat
         /\ Times(TxEvent("TransactionStarted", t)) \in Nat
         /\ Times(TxEvent("TransactionStopped", t)) \in Nat
         /\ Cardinality(Starting(t)) \in Nat /\ Cardinality(Stopping(t)) \in Nat
         /\ MayStop(t) \in {0, 1}
<1>1. /\ Times(TxEvent("TransactionStarted", t)) \in Nat
      /\ Times(TxEvent("TransactionStopped", t)) \in Nat
  BY TimesType DEF IInv, EventsInv
<1>2. Cardinality(Starting(t)) \in Nat /\ Cardinality(Stopping(t)) \in Nat
  BY SlotSets, SetsOfSlots
<1>3. MayStop(t) \in {0, 1} /\ faults \in Nat
  BY DEF MayStop, IInv, HistoryType
<1> QED
  BY <1>1, <1>2, <1>3 DEF StartSum, StopSum

(* The sums of a row that does not publish grow with the handlers only.     *)
LEMMA SumsKept ==
  ASSUME IInv, NEW t \in TxIds,
         Times(TxEvent("TransactionStarted", t))' = Times(TxEvent("TransactionStarted", t)),
         Times(TxEvent("TransactionStopped", t))' = Times(TxEvent("TransactionStopped", t)),
         Starting(t)' \subseteq Starting(t), Stopping(t)' \subseteq Stopping(t)
  PROVE  /\ StartSum(t)' <= StartSum(t)
         /\ StopSum(t)' <= StopSum(t) + 1
         /\ (StopsAhead(t)' => StopsAhead(t)) => StopSum(t)' <= StopSum(t)
<1>1. /\ Cardinality(Starting(t))' <= Cardinality(Starting(t))
      /\ Cardinality(Stopping(t))' <= Cardinality(Stopping(t))
      /\ Cardinality(Starting(t))' \in Nat /\ Cardinality(Stopping(t))' \in Nat
  BY SlotSets, SetsOfSlots
<1>2. /\ MayStop(t) \in {0, 1} /\ MayStop(t)' \in {0, 1}
      /\ (StopsAhead(t)' => StopsAhead(t)) => MayStop(t)' <= MayStop(t)
  BY DEF MayStop
<1> QED
  BY <1>1, <1>2, SumTypes DEF StartSum, StopSum

(* Slots other than s stay where they are in the sets.                      *)
LEMMA OthersCount ==
  ASSUME NEW s \in Slots, OneMoves(s), NEW t
  PROVE  /\ Starting(t)' \ {s} = Starting(t) \ {s}
         /\ Stopping(t)' \ {s} = Stopping(t) \ {s}
BY DEF OneMoves, Starting, Stopping

LEMMA OrphansStay ==
  ASSUME IInv, OrphansArePaid, NEW s \in Slots, OneMoves(s), faults' = faults,
         \/ call'[s] = Idle /\ awaiting' = (IF awaiting = s THEN NoSlot ELSE awaiting)
         \/ call[s] # Idle /\ awaiting' = awaiting
         \/ awaiting = NoSlot /\ awaiting' = s
  PROVE  OrphansArePaid'
<1>1. Orphans' \subseteq Orphans
  BY SlotAssumption DEF Orphans, OneMoves
<1>2. faults \in Nat
  BY DEF IInv, HistoryType
<1> QED
  BY <1>1, <1>2, SlotSets, SetsOfSlots DEF OrphansArePaid

(* Nothing is published of session t, and it does not start.                *)
Unpublished(t) ==
  /\ linked'[t] => linked[t]
  /\ Times(TxEvent("TransactionStarted", t))' = Times(TxEvent("TransactionStarted", t))
  /\ Times(TxEvent("TransactionStopped", t))' = Times(TxEvent("TransactionStopped", t))

LEMMA NothingPublished ==
  ASSUME UNCHANGED <<linked, outbox>>
  PROVE  \A t \in TxIds : Unpublished(t)
BY DEF Unpublished, Times

LEMMA OthersPublished ==
  ASSUME IInv, NEW es \in Seq(Events), Publish(es)
  PROVE  \A t \in TxIds :
           /\ linked'[t] => linked[t]
           /\ TxEvent("TransactionStarted", t) \notin ToSet(es)
           /\ TxEvent("TransactionStopped", t) \notin ToSet(es)
           => Unpublished(t)
BY TimesKept DEF Unpublished, IInv, EventsInv

LEMMA NotStarted ==
  ASSUME IInv, CarryInv, NEW t \in TxIds, ~linked[t]
  PROVE  /\ Times(TxEvent("TransactionStarted", t)) = 0
         /\ Times(TxEvent("TransactionStopped", t)) = 0
         /\ ~billed[t]
         /\ Stopping(t) = {}
<1>1. ~Published(TxEvent("TransactionStarted", t))
  BY DEF IInv, EventsInv, OutboxAgreesWithRows
<1>2. ~Published(TxEvent("TransactionStopped", t))
  <2> SUFFICES ASSUME NEW i \in DOMAIN outbox, outbox[i] = TxEvent("TransactionStopped", t)
               PROVE  FALSE
    BY DEF Published, ToSet
  <2>1. PICK j \in 1 .. i - 1 : outbox[j] = TxEvent("TransactionStarted", t)
    BY DEF IInv, EventsInv, StartComesFirst
  <2>2. j \in DOMAIN outbox
    BY DEF IInv, EventsInv, OutboxType
  <2> QED
    BY <1>1, <2>1, <2>2 DEF Published, ToSet
<1>3. ~billed[t]
  BY <1>2 DEF IInv, EventsInv, OutboxAgreesWithRows
<1>4. Stopping(t) = {}
  <2>1. \A s \in Slots : Carries(s)
    BY DEF CarryInv
  <2>2. t # NoTx
    BY DEF TxIds
  <2> QED
    BY <2>1, <2>2 DEF Stopping, Carries, CarriesStop
<1> QED
  BY <1>1, <1>2, <1>3, <1>4, TimesType DEF IInv, EventsInv

(* A handler returns that has published nothing of a session.               *)
LEMMA CountReturn ==
  ASSUME IInv, CountInv, NEW s \in Slots, call[s] # Idle, Return(s), faults' = faults,
         RowsKept, NEW X \in SUBSET TxIds, \A t \in TxIds \ X : Unpublished(t),
         \A t \in X : linked'[t] => StartSum(t)' <= 1 + faults /\ StopSum(t)' <= 1 + faults,
         awaiting # s => running' = running,
         \A t \in TxIds \ X : linked[t] /\ awaiting = s /\ running'[conn[t]] = t => StopsAhead(t)
  PROVE  CountInv'
<1>1. /\ OneMoves(s) /\ call'[s] = Idle
      /\ awaiting' = IF awaiting = s THEN NoSlot ELSE awaiting
  BY ReturnShape DEF Return, IInv, CallsInv
<1>2. OrphansArePaid'
  BY <1>1, OrphansStay DEF CountInv
<1>3. SumsArePaid'
  <2> SUFFICES ASSUME NEW t \in TxIds \ X, linked[t]
               PROVE  StartSum(t)' <= 1 + faults /\ StopSum(t)' <= 1 + faults
    BY DEF SumsArePaid, Unpublished
  <2>0. conn'[t] = conn[t]
    BY LinkedExists DEF RowsKept
  <2>1. Starting(t)' \subseteq Starting(t) /\ Stopping(t)' \subseteq Stopping(t)
    BY <1>1 DEF OneMoves, Starting, Stopping
  <2>2. StopsAhead(t)' => StopsAhead(t)
    <3>1. CASE awaiting = s
      <4>1. ~AwaitsStart(t)'
        BY <1>1, <3>1, SlotAssumption DEF AwaitsStart
      <4> QED
        BY <2>0, <3>1, <4>1 DEF StopsAhead
    <3>2. CASE awaiting # s
      <4>1. awaiting' = awaiting /\ running' = running
            /\ \A r \in Slots : awaiting = r => call'[r] = call[r]
        BY <1>1, <3>2 DEF OneMoves
      <4> QED
        BY <2>0, <4>1 DEF StopsAhead, AwaitsStop, AwaitsStart
    <3> QED
      BY <3>1, <3>2
  <2>3. StartSum(t)' <= StartSum(t) /\ StopSum(t)' <= StopSum(t)
    BY <2>1, <2>2, SumsKept DEF Unpublished
  <2>4. StartSum(t)' \in Int /\ StopSum(t)' \in Int
    BY SlotSets, SetsOfSlots, SumTypes DEF StartSum, StopSum, MayStop, Unpublished
  <2> QED
    BY <2>3, <2>4, SumTypes DEF CountInv, SumsArePaid
<1> QED
  BY <1>2, <1>3 DEF CountInv

(* A handler goes on that has published nothing of a session.               *)
LEMMA CountGoes ==
  ASSUME IInv, CountInv, NEW s \in Slots, call[s] # Idle, NEW point, NEW T,
         Goes(s, point, T), UNCHANGED charger, faults' = faults,
         RowsKept, NEW X \in SUBSET TxIds, \A t \in TxIds \ X : Unpublished(t),
         \A t \in X : linked'[t] => StartSum(t)' <= 1 + faults /\ StopSum(t)' <= 1 + faults,
         call[s].msg.action = "StartTransaction" /\ point \in {"activate", "occupy"}
           => call[s].msg.tx \in X \/ ~linked[call[s].msg.tx],
         call[s].msg.action = "StopTransaction" /\ point \in {"read", "commit"}
           => call[s].msg.tx \in X \/ call[s].at \in {"read", "commit"}
  PROVE  CountInv'
<1>1. /\ OneMoves(s) /\ call'[s] # Idle /\ call'[s].at = point
      /\ call'[s].msg = call[s].msg /\ awaiting' = awaiting /\ running' = running
  BY DEF Goes, charger
<1>2. OrphansArePaid'
  BY <1>1, OrphansStay DEF CountInv
<1>3. SumsArePaid'
  <2> SUFFICES ASSUME NEW t \in TxIds \ X, linked[t]
               PROVE  StartSum(t)' <= 1 + faults /\ StopSum(t)' <= 1 + faults
    BY DEF SumsArePaid, Unpublished
  <2>0. conn'[t] = conn[t]
    BY LinkedExists DEF RowsKept
  <2>1. Starting(t)' \subseteq Starting(t) /\ Stopping(t)' \subseteq Stopping(t)
    BY <1>1 DEF OneMoves, Starting, Stopping
  <2>2. StopsAhead(t)' => StopsAhead(t)
    <3>1. AwaitsStop(t)' <=> AwaitsStop(t)
      BY <1>1 DEF OneMoves, AwaitsStop
    <3>2. AwaitsStart(t)' => AwaitsStart(t)
      BY <1>1 DEF OneMoves, AwaitsStart
    <3> QED
      BY <1>1, <2>0, <3>1, <3>2 DEF StopsAhead
  <2>3. StartSum(t)' <= StartSum(t) /\ StopSum(t)' <= StopSum(t)
    BY <2>1, <2>2, SumsKept DEF Unpublished
  <2>4. StartSum(t)' \in Int /\ StopSum(t)' \in Int
    BY SlotSets, SetsOfSlots, SumTypes DEF StartSum, StopSum, MayStop, Unpublished
  <2> QED
    BY <2>3, <2>4, SumTypes DEF CountInv, SumsArePaid
<1> QED
  BY <1>2, <1>3 DEF CountInv

LEMMA OnConnector ==
  ASSUME IInv, CarryInv, NEW t \in TxIds, linked[t]
  PROVE  conn[t] \in Connectors
BY LinkedExists DEF CarryInv, RowsOnConnectors

(* A call begins: it takes the one stop ahead, if it is a stop.             *)
LEMMA CountBegin ==
  ASSUME IInv, CarryInv, CountInv, NEW s \in Slots, NEW m \in Messages, Begin(s, m),
         \A c \in Connectors : running'[c] \in {running[c], NoTx},
         m.action = "StopTransaction" /\ m.tx # NoTx =>
           running[m.connector] = m.tx /\ conn[m.tx] = m.connector
  PROVE  CountInv'
<1> DEFINE h == [at |-> Entry(m), msg |-> m, found |-> {}, wasInFault |-> FALSE]
<1>1. /\ call' = [call EXCEPT ![s] = h] /\ call[s] = Idle /\ UNCHANGED <<linked, conn, outbox>>
      /\ awaiting = NoSlot /\ awaiting' = s /\ faults' = faults
  BY DEF Begin, sessions
<1>2. /\ h.msg = m /\ h.at = Entry(m) /\ h \in Handlers
  BY DEF Handlers, Entry, Points
<1> HIDE DEF h
<1>3. OneMoves(s) /\ call'[s] = h /\ h # Idle
  BY <1>1, <1>2, IdleIsNone DEF IInv, CallsInv, HandlersType, OneMoves
<1>4. OrphansArePaid'
  BY <1>1, <1>3, OrphansStay DEF CountInv
<1>5. SumsArePaid'
  <2> SUFFICES ASSUME NEW t \in TxIds, linked[t]
               PROVE  StartSum(t)' <= 1 + faults /\ StopSum(t)' <= 1 + faults
    BY <1>1 DEF SumsArePaid
  <2>0. /\ h.at \notin {"activate", "occupy"} /\ t # NoTx /\ conn'[t] = conn[t]
        /\ conn[t] \in Connectors
    BY <1>1, <1>2, OnConnector DEF Entry, TxIds
  <2>1. Starting(t)' \subseteq Starting(t)
    BY <1>2, <1>3, <2>0 DEF OneMoves, Starting
  <2>2. ~AwaitsStop(t) /\ ~AwaitsStart(t) /\ ~AwaitsStart(t)'
    BY <1>1, <1>2, <1>3, <2>0, SlotAssumption DEF AwaitsStop, AwaitsStart
  <2>3. Unpublished(t)
    BY <1>1, NothingPublished
  <2>4. StartSum(t) <= 1 + faults /\ StopSum(t) <= 1 + faults
    BY DEF CountInv, SumsArePaid
  <2>5. StartSum(t)' \in Int /\ StopSum(t)' \in Int
    BY <2>3, SlotSets, SetsOfSlots, SumTypes DEF StartSum, StopSum, MayStop, Unpublished
  <2>6. CASE m.action = "StopTransaction" /\ m.tx = t
    <3>1. Stopping(t)' \subseteq Stopping(t) \cup {s} /\ s \notin Stopping(t)
      BY <1>1, <1>3 DEF OneMoves, Stopping
    <3>2. Cardinality(Stopping(t))' <= Cardinality(Stopping(t)) + 1
      <4>1. Cardinality(Stopping(t) \cup {s}) = Cardinality(Stopping(t)) + 1
        BY <3>1, SlotSets, SetsOfSlots
      <4>2. Stopping(t) \cup {s} \in SUBSET Slots
        BY SetsOfSlots
      <4> QED
        BY <3>1, <4>1, <4>2, SlotSets, SetsOfSlots
    <3>3. AwaitsStop(t)'
      BY <1>1, <1>2, <1>3, <2>6 DEF AwaitsStop
    <3>4. MayStop(t) = 1 /\ MayStop(t)' = 0
      BY <2>0, <2>2, <2>6, <3>3 DEF MayStop, StopsAhead
    <3>5. Cardinality(Starting(t))' <= Cardinality(Starting(t))
      BY <2>1, SlotSets, SetsOfSlots
    <3>6. Cardinality(Starting(t))' \in Nat /\ Cardinality(Stopping(t))' \in Nat
      BY SlotSets, SetsOfSlots
    <3>7. StartSum(t)' <= StartSum(t)
      BY <2>3, <3>5, <3>6, SumTypes DEF StartSum, Unpublished
    <3>8. StopSum(t)' <= StopSum(t)
      BY <2>3, <3>2, <3>4, <3>6, SumTypes DEF StopSum, Unpublished
    <3> QED
      BY <2>4, <2>5, <3>7, <3>8, SumTypes
  <2>7. CASE ~(m.action = "StopTransaction" /\ m.tx = t)
    <3>1. Stopping(t)' \subseteq Stopping(t)
      BY <1>2, <1>3, <2>7 DEF OneMoves, Stopping
    <3>2. StopsAhead(t)' => StopsAhead(t)
      BY <2>0, <2>2 DEF StopsAhead
    <3>3. StartSum(t)' <= StartSum(t) /\ StopSum(t)' <= StopSum(t)
      BY <2>1, <2>3, <3>1, <3>2, SumsKept DEF Unpublished
    <3> QED
      BY <2>4, <2>5, <3>3, SumTypes
  <2> QED
    BY <2>6, <2>7
<1> QED
  BY <1>4, <1>5 DEF CountInv

LEMMA CountSend ==
  ASSUME IInv, CarryInv, CountInv, NEW s \in Slots, Send(s)
  PROVE  CountInv'
<1>0. running \in [Connectors -> TxIds \cup {NoTx}]
  BY DEF IInv, CallsInv, HandlersType
<1>1. CASE \E c \in Connectors, t \in TxIds \cup {NoTx} : SendStart(s, c, t)
  <2>1. PICK c \in Connectors, t \in TxIds \cup {NoTx} : SendStart(s, c, t)
    BY <1>1
  <2> DEFINE m == [action |-> "StartTransaction", connector |-> c, tx |-> t]
  <2>2. m \in Messages /\ Begin(s, m) /\ running' = running /\ m.action = "StartTransaction"
    BY <2>1 DEF SendStart, Messages
  <2> HIDE DEF m
  <2> QED
    BY <1>0, <2>2, CountBegin
<1>2. CASE \E c \in Connectors : SendStop(s, c)
  <2>1. PICK c \in Connectors : SendStop(s, c)
    BY <1>2
  <2> DEFINE m == [action |-> "StopTransaction", connector |-> c, tx |-> running[c]]
  <2>2. /\ m \in Messages /\ Begin(s, m) /\ running' = running
        /\ (m.tx # NoTx => running[m.connector] = m.tx /\ conn[m.tx] = m.connector)
    BY <1>0, <2>1 DEF SendStop, Messages, CarryInv, RunningIsKnown
  <2> HIDE DEF m
  <2> QED
    BY <1>0, <2>2, CountBegin
<1>3. CASE \E c \in Connectors : SendMeterValues(s, c)
  <2>1. PICK c \in Connectors : SendMeterValues(s, c)
    BY <1>3
  <2> DEFINE m == [action |-> "MeterValues", connector |-> c]
  <2>2. m \in Messages /\ Begin(s, m) /\ running' = running /\ m.action = "MeterValues"
    BY <2>1 DEF SendMeterValues, Messages
  <2> HIDE DEF m
  <2> QED
    BY <1>0, <2>2, CountBegin
<1>4. CASE \E c \in Connectors \cup {Station}, r \in Reports : SendStatus(s, c, r)
  <2>1. PICK c \in Connectors \cup {Station}, r \in Reports : SendStatus(s, c, r)
    BY <1>4
  <2> DEFINE m == [action |-> "StatusNotification", connector |-> c, report |-> r]
  <2>2. m \in Messages /\ Begin(s, m) /\ running' = running /\ m.action = "StatusNotification"
    BY <2>1 DEF SendStatus, Messages
  <2> HIDE DEF m
  <2> QED
    BY <1>0, <2>2, CountBegin
<1>5. CASE SendBoot(s)
  <2> DEFINE m == [action |-> "BootNotification"]
  <2>1. m \in Messages /\ Begin(s, m) /\ m.action = "BootNotification"
    BY <1>5 DEF SendBoot, Messages
  <2>2. \A c \in Connectors : running'[c] \in {running[c], NoTx}
    BY <1>0, <1>5 DEF SendBoot
  <2> HIDE DEF m
  <2> QED
    BY <2>1, <2>2, CountBegin
<1> QED
  BY <1>1, <1>2, <1>3, <1>4, <1>5 DEF Send

(* The charger is answered that u runs on connector c: of the other         *)
(* sessions none runs that did not run before.                              *)
LEMMA StillRuns ==
  ASSUME IInv, CarryInv, RowsKept, NEW s \in Slots, NEW c \in Connectors,
         NEW u \in TxIds \cup {NoTx}, Answer(s, c, u),
         NEW t \in TxIds, linked[t], t # u, running'[conn[t]] = t
  PROVE  running[conn[t]] = t
BY OnConnector DEF Answer, IInv, CallsInv, HandlersType, TxIds

LEMMA AwaitsNone ==
  ASSUME NEW s \in Slots, awaiting = s, NEW t,
         call[s].msg.action # "StopTransaction" \/ call[s].msg.tx # t
  PROVE  ~AwaitsStop(t)
BY DEF AwaitsStop

(* A session starts: what may publish its start once more has been paid.    *)
LEMMA CountOfNew ==
  ASSUME IInv, CarryInv, CountInv, NEW t \in TxIds, ~linked[t],
         Times(TxEvent("TransactionStarted", t))' = 1,
         Times(TxEvent("TransactionStopped", t))' = 0,
         Cardinality(Starting(t))' <= faults, Stopping(t)' \subseteq Stopping(t)
  PROVE  StartSum(t)' <= 1 + faults /\ StopSum(t)' <= 1 + faults
<1>1. Stopping(t)' = {}
  BY NotStarted
<1>2. Cardinality(Stopping(t))' = 0
  BY <1>1, FS_EmptySet
<1>3. faults \in Nat /\ Cardinality(Starting(t))' \in Nat
  BY SlotSets, SetsOfSlots DEF IInv, HistoryType
<1> QED
  BY <1>2, <1>3 DEF StartSum, StopSum, MayStop

LEMMA StartingIsPaid ==
  ASSUME IInv, CountInv, NEW s \in Slots, NEW t, s \in Starting(t)
  PROVE  Cardinality(Starting(t) \ {s}) <= faults
<1>1. Starting(t) \subseteq Orphans \cup {r \in Slots : awaiting = r}
  BY DEF Starting, Orphans
<1>2. Cardinality(Starting(t)) <= Cardinality(Orphans) + 1
  <2>1. CASE \E r \in Slots : awaiting = r
    <3>1. PICK r \in Slots : awaiting = r
      BY <2>1
    <3>2. Starting(t) \subseteq Orphans \cup {r} /\ Orphans \cup {r} \in SUBSET Slots
      BY <1>1, <3>1, SetsOfSlots
    <3>3. Cardinality(Orphans \cup {r}) <= Cardinality(Orphans) + 1
      BY SlotSets, SetsOfSlots
    <3> QED
      BY <3>2, <3>3, SlotSets, SetsOfSlots
  <2>2. CASE ~ \E r \in Slots : awaiting = r
    <3>1. Starting(t) \subseteq Orphans
      BY <1>1, <2>2
    <3> QED
      BY <3>1, SlotSets, SetsOfSlots
  <2> QED
    BY <2>1, <2>2
<1>3. Cardinality(Starting(t) \ {s}) = Cardinality(Starting(t)) - 1
  BY SlotSets, SetsOfSlots
<1>4. faults \in Nat /\ Cardinality(Orphans) \in Nat /\ Cardinality(Starting(t)) \in Nat
  BY SlotSets, SetsOfSlots DEF IInv, HistoryType
<1> QED
  BY <1>2, <1>3, <1>4 DEF CountInv, OrphansArePaid

LEMMA CountReturns ==
  ASSUME IInv, CountInv, NEW s \in Slots, call[s] # Idle, Return(s), faults' = faults,
         RowsKept, \A t \in TxIds : Unpublished(t),
         awaiting # s => running' = running,
         \A t \in TxIds : linked[t] /\ awaiting = s /\ running'[conn[t]] = t => StopsAhead(t)
  PROVE  CountInv'
<1> DEFINE X == {}
<1>1. X \in SUBSET TxIds /\ TxIds \ X = TxIds /\ \A t \in X : FALSE
  OBVIOUS
<1> HIDE DEF X
<1> QED
  BY <1>1, CountReturn

LEMMA CountGoesOn ==
  ASSUME IInv, CountInv, NEW s \in Slots, call[s] # Idle, NEW point, NEW T,
         Goes(s, point, T), UNCHANGED charger, faults' = faults,
         RowsKept, \A t \in TxIds : Unpublished(t),
         call[s].msg.action = "StartTransaction" /\ point \in {"activate", "occupy"}
           => ~linked[call[s].msg.tx],
         call[s].msg.action = "StopTransaction" /\ point \in {"read", "commit"}
           => call[s].at \in {"read", "commit"}
  PROVE  CountInv'
<1> DEFINE X == {}
<1>1. X \in SUBSET TxIds /\ TxIds \ X = TxIds /\ \A t \in X : FALSE
  OBVIOUS
<1> HIDE DEF X
<1> QED
  BY <1>1, CountGoes

LEMMA NoStopsAhead ==
  ASSUME IInv, CarryInv, NEW s \in Slots, awaiting = s, \A t : ~AwaitsStop(t),
         running' = running, UNCHANGED conn
  PROVE  \A t \in TxIds : running'[conn[t]] = t => StopsAhead(t)
BY DEF StopsAhead

LEMMA CountStarts ==
  ASSUME IInv, CarryInv, CountInv, NEW s \in Slots,
         StartRead(s) \/ StartUnknownTag(s) \/ StartOccupy(s)
  PROVE  CountInv'
<1>0. /\ HandlersType /\ call[s] # Idle /\ call[s].msg.action = "StartTransaction"
      /\ call[s].msg.connector \in Connectors /\ call[s].msg.tx \in TxIds \cup {NoTx}
      /\ CarriesStart(s) /\ UNCHANGED <<nextTx, conn, linked, outbox, faults>>
  <2>1. /\ HandlersType /\ call[s] # Idle /\ call[s].msg.action = "StartTransaction"
        /\ UNCHANGED <<nextTx, conn, linked, outbox, faults>>
    BY DEF IInv, CallsInv, StartRead, StartUnknownTag, StartOccupy, At, sessions, history
  <2> QED
    BY <2>1, InFlight, MessageFields DEF CarryInv, Carries
<1>1. RowsKept /\ \A t \in TxIds : Unpublished(t)
  BY <1>0, NoNewRow, NothingPublished
<1>2. awaiting = s => \A t : ~AwaitsStop(t)
  BY <1>0, AwaitsNone
<1>3. CASE StartRead(s)
  <2> DEFINE t == call[s].msg.tx
  <2>1. CASE Startable(t)
    <3>1. GotoWith(s, "activate", {t}) /\ {t} \in SUBSET TxIds
      BY <1>0, <1>3, <2>1 DEF StartRead, Startable
    <3>2. ~linked[t]
      BY <1>0, <2>1 DEF Startable, IInv, EventsInv, OutboxAgreesWithRows
    <3>3. Goes(s, "activate", {t}) /\ UNCHANGED charger
      BY <1>0, <3>1, GotoWithShape DEF Points
    <3> QED
      BY <1>0, <1>1, <3>2, <3>3, CountGoesOn
  <2>2. CASE ~Startable(t)
    <3>1. Goto(s, "create")
      BY <1>3, <2>2 DEF StartRead
    <3>2. Goes(s, "create", call[s].found) /\ UNCHANGED charger
      BY <1>0, <3>1, GotoShape DEF Points
    <3> QED
      BY <1>0, <1>1, <3>2, CountGoesOn
  <2> QED
    BY <2>1, <2>2
<1>4. CASE StartUnknownTag(s)
  <2>1. Return(s) /\ running' = running
    BY <1>4 DEF StartUnknownTag
  <2> QED
    BY <1>0, <1>1, <1>2, <2>1, NoStopsAhead, CountReturns
<1>5. CASE StartOccupy(s)
  <2> DEFINE u == call[s].msg.tx
  <2>1. Answer(s, call[s].msg.connector, u) /\ call[s].at = "occupy"
    BY <1>5 DEF StartOccupy, At
  <2>2. Return(s) /\ (awaiting # s => running' = running)
    BY <2>1 DEF Answer
  <2>3. ASSUME NEW t \in TxIds, linked[t], awaiting = s, running'[conn[t]] = t
        PROVE  StopsAhead(t)
    <3>1. CASE t = u
      BY <1>0, <2>1, <2>3, <3>1 DEF StopsAhead, AwaitsStart
    <3>2. CASE t # u
      <4>1. running[conn[t]] = t
        BY <1>0, <1>1, <2>1, <2>3, <3>2, StillRuns
      <4> QED
        BY <1>2, <2>3, <4>1 DEF StopsAhead
    <3> QED
      BY <3>1, <3>2
  <2> QED
    BY <1>0, <1>1, <2>2, <2>3, CountReturns
<1> QED
  BY <1>3, <1>4, <1>5

LEMMA CountCreate ==
  ASSUME IInv, CarryInv, CountInv, NEW s \in Slots, StartCreate(s)
  PROVE  CountInv'
<1>p. nextTx \in TxIds
  BY CreatesARow DEF StartCreate, At
<1>u. PICK u \in TxIds : u = nextTx
  BY <1>p
<1>c. PICK c : c = call[s].msg.connector
  OBVIOUS
<1>e. PICK e : e = TxEvent("TransactionStarted", u)
  OBVIOUS
<1>0. /\ HandlersType /\ call[s] # Idle /\ call[s].msg.action = "StartTransaction"
      /\ c \in Connectors /\ u \in TxIds /\ linked \in [TxIds -> BOOLEAN]
  <2>1. /\ HandlersType /\ call[s] # Idle /\ call[s].msg.action = "StartTransaction"
        /\ call[s].msg.tx = NoTx
    BY DEF IInv, CallsInv, StartCreate, At
  <2> QED
    BY <2>1, <1>c, InFlight, MessageFields DEF IInv, TableInv, SessionsType
<1>1. /\ NewTx(c, "Active") /\ linked' = [linked EXCEPT ![u] = TRUE]
      /\ Publish(<<e>>) /\ Answer(s, c, u) /\ faults' = faults
  BY <1>u, <1>c, <1>e DEF StartCreate, history
<1>2. /\ e \in Events /\ <<e>> \in Seq(Events) /\ ToSet(<<e>>) = {e}
  <2>1. e \in Events
    BY <1>0, <1>e, EventsAreEvents DEF TxEventTypes
  <2> QED
    BY <2>1, AppendsOne
<1>3. Return(s) /\ (awaiting # s => running' = running)
  BY <1>1 DEF Answer
<1>4. \A t \in TxIds : linked[t] => linked'[t]
  BY <1>0, <1>1
<1>5. RowsKept
  BY <1>0, <1>1, <1>4, <1>p, NewRow
<1>6. \A t \in TxIds : TxEvent("TransactionStopped", t) # e
  BY <1>e, EventsDiffer
<1>7. \A t \in TxIds \ {u} : Unpublished(t)
  <2> SUFFICES ASSUME NEW t \in TxIds \ {u} PROVE Unpublished(t)
    OBVIOUS
  <2>1. TxEvent("TransactionStarted", t) # e
    BY <1>e, EventsDiffer
  <2>2. linked'[t] => linked[t]
    BY <1>0, <1>1
  <2> QED
    BY <1>1, <1>2, <1>6, <2>1, <2>2, OthersPublished
<1>8. ~linked[u]
  <2>1. u \in Nat
    BY <1>0 DEF TxIds
  <2> QED
    BY <1>0, <1>u, <2>1, LinkedExists
<1>9. StartSum(u)' <= 1 + faults /\ StopSum(u)' <= 1 + faults
  <2>1. Times(TxEvent("TransactionStarted", u))' = 1
    BY <1>0, <1>1, <1>2, <1>8, <1>e, NotStarted, TimesCounted DEF IInv, EventsInv
  <2>2. Times(TxEvent("TransactionStopped", u))' = 0
    <3>1. TxEvent("TransactionStopped", u) \notin ToSet(<<e>>)
      BY <1>0, <1>2, <1>6
    <3>2. Times(TxEvent("TransactionStopped", u))' = Times(TxEvent("TransactionStopped", u))
      BY <1>1, <1>2, <3>1, TimesKept DEF IInv, EventsInv
    <3> QED
      BY <1>0, <1>8, <3>2, NotStarted
  <2>3. OneMoves(s) /\ call'[s] = Idle
    BY <1>0, <1>3, ReturnShape
  <2>4. Starting(u)' = {}
    <3> SUFFICES ASSUME NEW r \in Slots, r # s, call[r] # Idle,
                        call[r].msg.action = "StartTransaction", call[r].msg.tx = u
                 PROVE  FALSE
      BY <2>3 DEF Starting, OneMoves
    <3>1. u # NoTx /\ u \in Nat
      BY <1>0 DEF TxIds
    <3>2. call[r].msg.connector \in Connectors /\ conn[u] = call[r].msg.connector
      BY <1>0, <3>1, InFlight, MessageFields DEF CarryInv, Carries, CarriesStart
    <3>3. u < nextTx
      BY <1>0, <1>u, <3>2 DEF CarryInv, RowsOnConnectors
    <3> QED
      BY <1>u, <3>1, <3>3
  <2>5. Stopping(u)' \subseteq Stopping(u)
    BY <2>3 DEF Stopping, OneMoves
  <2>6. Cardinality(Starting(u))' <= faults
    BY <2>4, FS_EmptySet DEF IInv, HistoryType
  <2> QED
    BY <1>0, <1>8, <2>1, <2>2, <2>5, <2>6, CountOfNew
<1>10. ASSUME NEW t \in TxIds \ {u}, linked[t], awaiting = s, running'[conn[t]] = t
       PROVE  StopsAhead(t)
  <2>1. running[conn[t]] = t
    BY <1>0, <1>1, <1>5, <1>10, StillRuns
  <2> QED
    BY <1>0, <1>10, <2>1, AwaitsNone DEF StopsAhead
<1> DEFINE X == {u}
<1>11. /\ X \in SUBSET TxIds /\ \A t \in TxIds \ X : Unpublished(t)
       /\ \A t \in X : linked'[t] => StartSum(t)' <= 1 + faults /\ StopSum(t)' <= 1 + faults
       /\ \A t \in TxIds \ X : linked[t] /\ awaiting = s /\ running'[conn[t]] = t => StopsAhead(t)
  BY <1>0, <1>7, <1>9, <1>10
<1> HIDE DEF X
<1> QED
  BY <1>0, <1>1, <1>3, <1>5, <1>11, CountReturn

LEMMA CountActivate ==
  ASSUME IInv, CarryInv, CountInv, NEW s \in Slots, StartActivate(s)
  PROVE  CountInv'
<1>u. PICK u : u = call[s].msg.tx
  OBVIOUS
<1>e. PICK e : e = TxEvent("TransactionStarted", u)
  OBVIOUS
<1>0. /\ HandlersType /\ call[s] # Idle /\ call[s].msg.action = "StartTransaction"
      /\ call[s].at = "activate" /\ u \in TxIds /\ call[s].found = {u}
      /\ linked \in [TxIds -> BOOLEAN]
  <2>1. /\ HandlersType /\ call[s] # Idle /\ call[s].msg.action = "StartTransaction"
        /\ call[s].at = "activate"
    BY DEF IInv, CallsInv, StartActivate, At
  <2> QED
    BY <1>u, <2>1, InFlight, MessageFields DEF CarryInv, Carries, CarriesStart, IInv, TableInv, SessionsType
<1>1. /\ linked' = [linked EXCEPT ![u] = TRUE] /\ Publish(<<e>>)
      /\ Goto(s, "occupy") /\ UNCHANGED <<nextTx, conn, faults>>
  BY <1>0, <1>e DEF StartActivate, history
<1>2. /\ e \in Events /\ <<e>> \in Seq(Events) /\ ToSet(<<e>>) = {e}
  <2>1. e \in Events
    BY <1>0, <1>e, EventsAreEvents DEF TxEventTypes
  <2> QED
    BY <2>1, AppendsOne
<1>3. Goes(s, "occupy", call[s].found) /\ UNCHANGED charger
  BY <1>0, <1>1, GotoShape DEF Points
<1>4. RowsKept
  <2>1. \A t \in TxIds : linked[t] => linked'[t]
    BY <1>0, <1>1
  <2> QED
    BY <1>1, <2>1, NoNewRow
<1>6. \A t \in TxIds : TxEvent("TransactionStopped", t) # e
  BY <1>e, EventsDiffer
<1>7. \A t \in TxIds \ {u} : Unpublished(t)
  <2> SUFFICES ASSUME NEW t \in TxIds \ {u} PROVE Unpublished(t)
    OBVIOUS
  <2>1. TxEvent("TransactionStarted", t) # e
    BY <1>e, EventsDiffer
  <2>2. linked'[t] => linked[t]
    BY <1>0, <1>1
  <2> QED
    BY <1>1, <1>2, <1>6, <2>1, <2>2, OthersPublished
<1>8. StartSum(u)' <= 1 + faults /\ StopSum(u)' <= 1 + faults
  <2>1. Times(TxEvent("TransactionStarted", u))' = Times(TxEvent("TransactionStarted", u)) + 1
    BY <1>1, <1>2, <1>e, TimesCounted DEF IInv, EventsInv
  <2>2. Times(TxEvent("TransactionStopped", u))' = Times(TxEvent("TransactionStopped", u))
    <3>1. TxEvent("TransactionStopped", u) \notin ToSet(<<e>>)
      BY <1>0, <1>2, <1>6
    <3> QED
      BY <1>1, <1>2, <3>1, TimesKept DEF IInv, EventsInv
  <2>3. OneMoves(s) /\ call'[s].at = "occupy" /\ call'[s].msg = call[s].msg /\ call'[s] # Idle
    BY <1>3 DEF Goes
  <2>4. s \in Starting(u) /\ Starting(u)' = Starting(u) \ {s}
    BY <1>0, <1>u, <2>3 DEF Starting, OneMoves
  <2>5. Stopping(u)' \subseteq Stopping(u)
    BY <1>0, <1>u, <2>3 DEF Stopping, OneMoves
  <2>6. CASE ~linked[u]
    <3>1. Times(TxEvent("TransactionStarted", u)) = 0 /\ Times(TxEvent("TransactionStopped", u)) = 0
      BY <1>0, <2>6, NotStarted
    <3>2. Cardinality(Starting(u))' <= faults
      BY <2>4, StartingIsPaid
    <3>3. Times(TxEvent("TransactionStarted", u))' = 1 /\ Times(TxEvent("TransactionStopped", u))' = 0
      BY <2>1, <2>2, <3>1
    <3> QED
      BY <1>0, <2>5, <2>6, <3>2, <3>3, CountOfNew
  <2>7. CASE linked[u]
    <3>1. Cardinality(Starting(u))' = Cardinality(Starting(u)) - 1
      BY <2>4, SlotSets, SetsOfSlots
    <3>2. Cardinality(Stopping(u))' <= Cardinality(Stopping(u)) /\ Cardinality(Stopping(u))' \in Nat
      BY <2>5, SlotSets, SetsOfSlots
    <3>3. StopsAhead(u)' => StopsAhead(u)
      BY <1>0, <1>1, <1>3, <1>u, <2>3 DEF StopsAhead, AwaitsStop, AwaitsStart, OneMoves, charger
    <3>4. MayStop(u)' <= MayStop(u) /\ MayStop(u)' \in {0, 1}
      BY <3>3 DEF MayStop
    <3>5. StartSum(u) <= 1 + faults /\ StopSum(u) <= 1 + faults
      BY <1>0, <2>7 DEF CountInv, SumsArePaid
    <3>6. StartSum(u)' <= 1 + faults
      BY <1>0, <2>1, <3>1, <3>5, SumTypes DEF StartSum
    <3>7. StopSum(u)' <= 1 + faults
      BY <1>0, <2>2, <3>2, <3>4, <3>5, SumTypes DEF StopSum
    <3> QED
      BY <3>6, <3>7
  <2> QED
    BY <2>6, <2>7
<1> DEFINE X == {u}
<1>9. /\ X \in SUBSET TxIds /\ \A t \in TxIds \ X : Unpublished(t)
      /\ u \in X
      /\ \A t \in X : linked'[t] => StartSum(t)' <= 1 + faults /\ StopSum(t)' <= 1 + faults
  BY <1>0, <1>7, <1>8, <1>u
<1> HIDE DEF X
<1> QED
  BY <1>0, <1>1, <1>3, <1>4, <1>9, <1>u, CountGoes

LEMMA CountStops ==
  ASSUME IInv, CarryInv, CountInv, NEW s \in Slots, StopRead(s) \/ StopFree(s)
  PROVE  CountInv'
<1> DEFINE u == call[s].msg.tx
           c == call[s].msg.connector
<1>0. /\ HandlersType /\ call[s] # Idle /\ call[s].msg.action = "StopTransaction"
      /\ c \in Connectors /\ u \in TxIds \cup {NoTx}
      /\ CarriesStop(s) /\ UNCHANGED <<nextTx, conn, linked, outbox, faults>>
  <2>1. /\ HandlersType /\ call[s] # Idle /\ call[s].msg.action = "StopTransaction"
        /\ UNCHANGED <<nextTx, conn, linked, outbox, faults>>
    BY DEF IInv, CallsInv, StopRead, StopFree, At, sessions, history
  <2> QED
    BY <2>1, InFlight, MessageFields DEF CarryInv, Carries
<1>1. RowsKept /\ \A t \in TxIds : Unpublished(t)
  BY <1>0, NoNewRow, NothingPublished
<1>2. ASSUME Answer(s, c, NoTx) PROVE CountInv'
  <2>1. Return(s) /\ (awaiting # s => running' = running)
    BY <1>2 DEF Answer
  <2>2. ASSUME NEW t \in TxIds, linked[t], awaiting = s, running'[conn[t]] = t
        PROVE  StopsAhead(t)
    <3>1. running[conn[t]] = t /\ t # NoTx
      BY <1>0, <1>1, <1>2, <2>2, StillRuns DEF TxIds
    <3>2. t # u
      <4> SUFFICES ASSUME t = u PROVE FALSE
        OBVIOUS
      <4>1. conn[t] = c
        BY <1>0, <3>1 DEF CarriesStop
      <4>2. running'[c] = NoTx
        BY <1>0, <1>2, <2>2 DEF Answer, HandlersType
      <4> QED
        BY <2>2, <3>1, <4>1, <4>2
    <3> QED
      BY <2>2, <3>1, <3>2, AwaitsNone DEF StopsAhead
  <2> QED
    BY <1>0, <1>1, <2>1, <2>2, CountReturns
<1>3. ASSUME StopRead(s), u # NoTx, linked[u] PROVE CountInv'
  <2>1. GotoWith(s, "commit", {u}) /\ {u} \in SUBSET TxIds /\ call[s].at = "read"
    BY <1>0, <1>3 DEF StopRead, At
  <2>2. Goes(s, "commit", {u}) /\ UNCHANGED charger
    BY <1>0, <2>1, GotoWithShape DEF Points
  <2> QED
    BY <1>0, <1>1, <2>1, <2>2, CountGoesOn
<1> QED
  BY <1>2, <1>3 DEF StopRead, StopFree

LEMMA CountBill ==
  ASSUME IInv, CarryInv, CountInv, NEW s \in Slots, StopCommit(s)
  PROVE  CountInv'
<1>u. PICK u : u = call[s].msg.tx
  OBVIOUS
<1>e. PICK e : e = TxEvent("TransactionStopped", u)
  OBVIOUS
<1>0. /\ HandlersType /\ call[s] # Idle /\ call[s].msg.action = "StopTransaction"
      /\ call[s].at = "commit" /\ u \in TxIds /\ linked[u] /\ call[s].found = {u}
  <2>1. /\ HandlersType /\ call[s] # Idle /\ call[s].msg.action = "StopTransaction"
        /\ call[s].at = "commit"
    BY DEF IInv, CallsInv, StopCommit, At
  <2> QED
    BY <1>u, <2>1, InFlight, MessageFields DEF CarryInv, Carries, CarriesStop
<1>1. /\ Publish(<<e>>) /\ Goto(s, "free") /\ UNCHANGED <<nextTx, conn, linked, faults>>
  BY <1>0, <1>e DEF StopCommit, history
<1>2. /\ e \in Events /\ <<e>> \in Seq(Events) /\ ToSet(<<e>>) = {e}
  <2>1. e \in Events
    BY <1>0, <1>e, EventsAreEvents DEF TxEventTypes
  <2> QED
    BY <2>1, AppendsOne
<1>3. Goes(s, "free", call[s].found) /\ UNCHANGED charger
  BY <1>0, <1>1, GotoShape DEF Points
<1>4. RowsKept
  BY <1>1, NoNewRow
<1>6. \A t \in TxIds : TxEvent("TransactionStarted", t) # e
  BY <1>e, EventsDiffer
<1>7. \A t \in TxIds \ {u} : Unpublished(t)
  <2> SUFFICES ASSUME NEW t \in TxIds \ {u} PROVE Unpublished(t)
    OBVIOUS
  <2>1. TxEvent("TransactionStopped", t) # e
    BY <1>e, EventsDiffer
  <2> QED
    BY <1>1, <1>2, <1>6, <2>1, OthersPublished
<1>8. StartSum(u)' <= 1 + faults /\ StopSum(u)' <= 1 + faults
  <2>1. Times(TxEvent("TransactionStopped", u))' = Times(TxEvent("TransactionStopped", u)) + 1
    BY <1>1, <1>2, <1>e, TimesCounted DEF IInv, EventsInv
  <2>2. Times(TxEvent("TransactionStarted", u))' = Times(TxEvent("TransactionStarted", u))
    <3>1. TxEvent("TransactionStarted", u) \notin ToSet(<<e>>)
      BY <1>0, <1>2, <1>6
    <3> QED
      BY <1>1, <1>2, <3>1, TimesKept DEF IInv, EventsInv
  <2>3. OneMoves(s) /\ call'[s].at = "free" /\ call'[s].msg = call[s].msg /\ call'[s] # Idle
    BY <1>3 DEF Goes
  <2>4. s \in Stopping(u) /\ Stopping(u)' = Stopping(u) \ {s}
    BY <1>0, <1>u, <2>3 DEF Stopping, OneMoves
  <2>5. Starting(u)' \subseteq Starting(u)
    BY <1>0, <1>u, <2>3 DEF Starting, OneMoves
  <2>6. Cardinality(Stopping(u))' = Cardinality(Stopping(u)) - 1
    BY <2>4, SlotSets, SetsOfSlots
  <2>7. Cardinality(Starting(u))' <= Cardinality(Starting(u)) /\ Cardinality(Starting(u))' \in Nat
    BY <2>5, SlotSets, SetsOfSlots
  <2>8. StopsAhead(u)' => StopsAhead(u)
    BY <1>0, <1>1, <1>3, <1>u, <2>3 DEF StopsAhead, AwaitsStop, AwaitsStart, OneMoves, charger
  <2>9. MayStop(u)' <= MayStop(u) /\ MayStop(u)' \in {0, 1}
    BY <2>8 DEF MayStop
  <2>10. StartSum(u) <= 1 + faults /\ StopSum(u) <= 1 + faults
    BY <1>0 DEF CountInv, SumsArePaid
  <2>11. StartSum(u)' <= 1 + faults
    BY <1>0, <2>2, <2>7, <2>10, SumTypes DEF StartSum
  <2>12. StopSum(u)' <= 1 + faults
    BY <1>0, <2>1, <2>6, <2>9, <2>10, SumTypes DEF StopSum
  <2> QED
    BY <2>11, <2>12
<1> DEFINE X == {u}
<1>9. /\ X \in SUBSET TxIds /\ \A t \in TxIds \ X : Unpublished(t)
      /\ \A t \in X : linked'[t] => StartSum(t)' <= 1 + faults /\ StopSum(t)' <= 1 + faults
  BY <1>0, <1>7, <1>8, <1>u
<1> HIDE DEF X
<1> QED
  BY <1>0, <1>1, <1>3, <1>4, <1>9, <1>u, CountGoes

(* The other handlers neither start nor stop a session.                     *)
LEMMA CountOther ==
  ASSUME IInv, CarryInv, CountInv, NEW s \in Slots, call[s] # Idle,
         call[s].msg.action \notin {"StartTransaction", "StopTransaction"},
         \/ Return(s)
         \/ \E point \in Points : Goto(s, point) \/ \E T \in SUBSET TxIds : GotoWith(s, point, T)
         \/ StatusRead(s),
         \A t \in TxIds : Unpublished(t),
         UNCHANGED <<nextTx, conn, linked, running, faults>>
  PROVE  CountInv'
<1>0. HandlersType
  BY DEF IInv, CallsInv
<1>1. RowsKept
  BY NoNewRow
<1>2. CASE Return(s)
  <2>1. awaiting = s => \A t : ~AwaitsStop(t)
    BY AwaitsNone
  <2> QED
    BY <1>1, <1>2, <2>1, NoStopsAhead, CountReturns
<1>3. ASSUME NEW point, NEW T, Goes(s, point, T), UNCHANGED charger PROVE CountInv'
  BY <1>1, <1>3, CountGoesOn
<1>4. CASE \E point \in Points : Goto(s, point) \/ \E T \in SUBSET TxIds : GotoWith(s, point, T)
  BY <1>0, <1>3, <1>4, GotoShape, GotoWithShape
<1>5. CASE StatusRead(s)
  <2> DEFINE h == [call[s] EXCEPT !.at = "commit",
                                  !.wasInFault = errorCode[call[s].msg.connector]]
  <2>1. call[s] \in Handlers
    BY <1>0, InFlight
  <2>2. errorCode[call[s].msg.connector] \in BOOLEAN
    BY <1>5 DEF StatusRead, At, IInv, CallsInv, HandlersKnow, Knows, DevicesType
  <2>3. h \in Handlers /\ h.msg = call[s].msg
    BY <2>1, <2>2 DEF Handlers, Points
  <2>4. call' = [call EXCEPT ![s] = h] /\ UNCHANGED charger
    BY <1>5 DEF StatusRead
  <2> HIDE DEF h
  <2>5. Goes(s, h.at, h.found)
    BY <1>0, <2>1, <2>3, <2>4, RecordGoes
  <2> QED
    BY <1>3, <2>4, <2>5
<1> QED
  BY <1>2, <1>4, <1>5

(* Events of connectors and of the station tell of no session.              *)
LEMMA NoneOfThem ==
  ASSUME IInv, NEW es \in Seq(Events), Publish(es), UNCHANGED linked,
         \A e \in ToSet(es), t \in TxIds :
           e \notin {TxEvent("TransactionStarted", t), TxEvent("TransactionStopped", t)}
  PROVE  \A t \in TxIds : Unpublished(t)
BY OthersPublished

LEMMA CountHandle ==
  ASSUME IInv, CarryInv, CountInv, NEW s \in Slots, Handle(s)
  PROVE  CountInv'
<1>0. HandlersType
  BY DEF IInv, CallsInv
<1>1. CASE MeterRead(s) \/ StatusStation(s) \/ StatusRead(s) \/ StatusFindStuck(s)
           \/ StatusSweep(s) \/ BootReset(s)
  <2>1. /\ call[s] # Idle
        /\ call[s].msg.action \in {"MeterValues", "StatusNotification", "BootNotification"}
        /\ UNCHANGED <<nextTx, conn, linked, running, outbox, faults>>
    BY <1>1 DEF MeterRead, StatusStation, StatusRead, StatusFindStuck, StatusSweep, BootReset,
       At, GotoWith, sessions, charger, history
  <2>2. Return(s) \/ StatusRead(s) \/ \E T \in SUBSET TxIds :
          GotoWith(s, "report", T) \/ GotoWith(s, "sweep", T)
    BY <1>1 DEF MeterRead, StatusStation, StatusFindStuck, StatusSweep, BootReset, ActiveOn, Stuck
  <2>3. {"report", "sweep"} \subseteq Points
    BY DEF Points
  <2> QED
    BY <2>1, <2>2, <2>3, NothingPublished, CountOther
<1>2. CASE MeterReport(s)
  <2>1. /\ call[s] # Idle /\ call[s].msg.action = "MeterValues" /\ Return(s)
        /\ UNCHANGED <<nextTx, conn, linked, running, faults>>
    BY <1>2 DEF MeterReport, At, sessions, history
  <2>2. PICK u \in call[s].found : Publish(<<TxEvent("MeterValueUpdate", u)>>)
    BY <1>2 DEF MeterReport
  <2>3. PICK e : e = TxEvent("MeterValueUpdate", u)
    OBVIOUS
  <2>4. e \in Events
    BY <1>0, <2>1, <2>3, InFlight, EventsAreEvents DEF TxEventTypes
  <2>5. /\ Publish(<<e>>) /\ <<e>> \in Seq(Events)
        /\ \A x \in ToSet(<<e>>), t \in TxIds :
             x \notin {TxEvent("TransactionStarted", t), TxEvent("TransactionStopped", t)}
    BY <2>2, <2>3, <2>4, AppendsOne, EventsDiffer
  <2> QED
    BY <2>1, <2>5, NoneOfThem, CountOther
<1>3. CASE StatusCommit(s)
  <2>1. /\ call[s] # Idle /\ call[s].msg.action = "StatusNotification"
        /\ Return(s) \/ Goto(s, "stuck")
        /\ UNCHANGED <<nextTx, conn, linked, running, faults>>
    BY <1>3 DEF StatusCommit, At, Goto, sessions, charger, history
  <2>2. PICK c : c = call[s].msg.connector
    OBVIOUS
  <2>3. c \in Connectors
    BY <1>0, <1>3, <2>1, <2>2, InFlight, MessageFields DEF StatusCommit
  <2>4. PICK es : es = <<ConnectorEvent("ConnectorStatusChanged", c)>>
                        \o FaultEvents(call[s].msg, call[s].wasInFault)
    OBVIOUS
  <2>5. \E f \in {<<>>, <<ConnectorEvent("FaultRaised", c)>>, <<ConnectorEvent("FaultCleared", c)>>} :
          es = <<ConnectorEvent("ConnectorStatusChanged", c)>> \o f
    BY <2>2, <2>4 DEF FaultEvents
  <2>6. /\ es \in Seq(Events)
        /\ \A x \in ToSet(es) : \E b \in ConnectorEventTypes : x = ConnectorEvent(b, c)
    <3>1. /\ \A b \in {"ConnectorStatusChanged", "FaultRaised", "FaultCleared"} :
               ConnectorEvent(b, c) \in Events
      BY <2>3, EventsAreEvents DEF ConnectorEventTypes
    <3>2. es \in Seq(Events)
      <4>1. PICK f \in Seq(Events), x \in Events : es = <<x>> \o f
        <5>1. PICK x : x = ConnectorEvent("ConnectorStatusChanged", c)
          OBVIOUS
        <5>2. PICK f : /\ f \in {<<>>, <<ConnectorEvent("FaultRaised", c)>>,
                                 <<ConnectorEvent("FaultCleared", c)>>}
                       /\ es = <<x>> \o f
          BY <2>5, <5>1
        <5>3. x \in Events
          BY <3>1, <5>1
        <5>4. /\ <<ConnectorEvent("FaultRaised", c)>> \in Seq(Events)
              /\ <<ConnectorEvent("FaultCleared", c)>> \in Seq(Events)
              /\ <<>> \in Seq(Events)
          BY <3>1, AppendsOne
        <5>5. f \in Seq(Events)
          BY <5>2, <5>4
        <5> QED
          BY <5>2, <5>3, <5>5
      <4> QED
        BY <4>1
    <3>3. \A k \in DOMAIN es : es[k] \in {ConnectorEvent("ConnectorStatusChanged", c),
             ConnectorEvent("FaultRaised", c), ConnectorEvent("FaultCleared", c)}
      BY <2>5, <3>1
    <3> QED
      BY <3>2, <3>3 DEF ToSet, ConnectorEventTypes
  <2>7. Publish(es) /\ "stuck" \in Points
    BY <1>3, <2>2, <2>4 DEF StatusCommit, Points
  <2>8. \A x \in ToSet(es), t \in TxIds :
          x \notin {TxEvent("TransactionStarted", t), TxEvent("TransactionStopped", t)}
    BY <2>6, EventsDiffer DEF TxEventTypes
  <2> QED
    BY <2>1, <2>6, <2>7, <2>8, NoneOfThem, CountOther
<1>4. CASE BootOnline(s)
  <2>1. /\ call[s] # Idle /\ call[s].msg.action = "BootNotification" /\ Goto(s, "reset")
        /\ UNCHANGED <<nextTx, conn, linked, running, faults>>
    BY <1>4 DEF BootOnline, At, Goto, sessions, charger, history
  <2>2. PICK e : e = [type |-> "StationOnline"]
    OBVIOUS
  <2>3. /\ Publish(<<e>>) /\ <<e>> \in Seq(Events)
        /\ \A x \in ToSet(<<e>>) : x = e
    BY <1>4, <2>2, AppendsOne, EventsAreEvents DEF BootOnline
  <2>4. \A t \in TxIds : e \notin {TxEvent("TransactionStarted", t), TxEvent("TransactionStopped", t)}
    BY <2>2, EventsDiffer DEF TxEventTypes
  <2>5. "reset" \in Points
    BY DEF Points
  <2> QED
    BY <2>1, <2>3, <2>4, <2>5, NoneOfThem, CountOther
<1> QED
  BY <1>1, <1>2, <1>3, <1>4, CountStarts, CountCreate, CountActivate, CountStops, CountBill
  DEF Handle

(* A fault pays for one more handler or one more call.                      *)
LEMMA CountFault ==
  ASSUME IInv, CountInv, CostsFault, UNCHANGED <<sessions, outbox>>,
         Cardinality(Orphans)' <= Cardinality(Orphans) + 1,
         \A t \in TxIds : Starting(t)' \subseteq Starting(t) /\ Stopping(t)' \subseteq Stopping(t)
  PROVE  CountInv'
<1>0. faults' = faults + 1 /\ UNCHANGED <<linked, outbox>> /\ faults \in Nat
  BY DEF CostsFault, sessions, IInv, HistoryType
<1>1. OrphansArePaid'
  <2>1. Cardinality(Orphans)' \in Nat /\ Cardinality(Orphans) \in Nat
    BY SlotSets, SetsOfSlots
  <2> QED
    BY <1>0, <2>1 DEF CountInv, OrphansArePaid
<1>2. SumsArePaid'
  <2> SUFFICES ASSUME NEW t \in TxIds, linked[t]
               PROVE  StartSum(t)' <= 1 + faults' /\ StopSum(t)' <= 1 + faults'
    BY <1>0 DEF SumsArePaid
  <2>1. Unpublished(t)
    BY <1>0, NothingPublished
  <2>2. StartSum(t)' <= StartSum(t) /\ StopSum(t)' <= StopSum(t) + 1
    BY <2>1, SumsKept DEF Unpublished
  <2>3. StartSum(t)' \in Int /\ StopSum(t)' \in Int
    BY <2>1, SlotSets, SetsOfSlots, SumTypes DEF StartSum, StopSum, MayStop, Unpublished
  <2>4. StartSum(t) <= 1 + faults /\ StopSum(t) <= 1 + faults
    BY DEF CountInv, SumsArePaid
  <2> QED
    BY <1>0, <2>2, <2>3, <2>4, SumTypes
<1> QED
  BY <1>1, <1>2 DEF CountInv

LEMMA CountFails ==
  ASSUME IInv, CountInv, NEW s \in Slots, CallFails(s) \/ SideEffectFails(s)
  PROVE  CountInv'
<1>1. CostsFault /\ UNCHANGED <<sessions, outbox>> /\ Return(s)
  BY DEF CallFails, SideEffectFails, Answer
<1>2. OneMoves(s) /\ call'[s] = Idle /\ awaiting' = IF awaiting = s THEN NoSlot ELSE awaiting
  BY <1>1, ReturnShape DEF Return, IInv, CallsInv
<1>3. Orphans' \subseteq Orphans
  BY <1>2 DEF Orphans, OneMoves
<1>4. Cardinality(Orphans)' <= Cardinality(Orphans) + 1
  BY <1>3, SlotSets, SetsOfSlots
<1>5. \A t \in TxIds : Starting(t)' \subseteq Starting(t) /\ Stopping(t)' \subseteq Stopping(t)
  BY <1>2 DEF Starting, Stopping, OneMoves
<1> QED
  BY <1>1, <1>4, <1>5, CountFault

LEMMA CountGiveUp ==
  ASSUME IInv, CountInv, GiveUp
  PROVE  CountInv'
<1>1. /\ CostsFault /\ UNCHANGED <<sessions, outbox, call>> /\ awaiting \in Slots
  BY DEF GiveUp, IInv, CallsInv, HandlersType
<1>2. PICK s \in Slots : s = awaiting
  BY <1>1
<1>3. Orphans' \subseteq Orphans \cup {s}
  BY <1>1, <1>2 DEF Orphans
<1>4. Orphans \cup {s} \in SUBSET Slots
  BY SetsOfSlots
<1>5. Cardinality(Orphans \cup {s}) <= Cardinality(Orphans) + 1
  BY SlotSets, SetsOfSlots
<1>6. Cardinality(Orphans)' <= Cardinality(Orphans) + 1
  BY <1>3, <1>4, <1>5, SlotSets, SetsOfSlots
<1>7. \A t \in TxIds : Starting(t)' \subseteq Starting(t) /\ Stopping(t)' \subseteq Stopping(t)
  BY <1>1 DEF Starting, Stopping
<1> QED
  BY <1>1, <1>6, <1>7, CountFault

LEMMA CountCrash ==
  ASSUME IInv, CountInv, Crash
  PROVE  CountInv'
<1>1. CostsFault /\ UNCHANGED <<sessions, outbox>> /\ \A s \in Slots : call'[s] = Idle
  BY DEF Crash
<1>2. Orphans' \subseteq Orphans
  BY <1>1 DEF Orphans
<1>3. Cardinality(Orphans)' <= Cardinality(Orphans) + 1
  BY <1>2, SlotSets, SetsOfSlots
<1>4. \A t \in TxIds : Starting(t)' \subseteq Starting(t) /\ Stopping(t)' \subseteq Stopping(t)
  BY <1>1 DEF Starting, Stopping
<1> QED
  BY <1>1, <1>3, <1>4, CountFault

LEMMA CountQuiet ==
  ASSUME IInv, CountInv, RowsKept, UNCHANGED <<linked, outbox, call, awaiting, running, faults>>
  PROVE  CountInv'
<1>1. OrphansArePaid'
  BY DEF CountInv, OrphansArePaid, Orphans
<1>2. SumsArePaid'
  <2> SUFFICES ASSUME NEW t \in TxIds, linked[t]
               PROVE  StartSum(t)' <= 1 + faults /\ StopSum(t)' <= 1 + faults
    BY DEF SumsArePaid
  <2>1. conn'[t] = conn[t]
    BY LinkedExists DEF RowsKept
  <2>2. StartSum(t)' = StartSum(t)
    BY DEF StartSum, Times, Starting
  <2>3. StopsAhead(t)' <=> StopsAhead(t)
    BY <2>1 DEF StopsAhead, AwaitsStop, AwaitsStart
  <2>4. Times(TxEvent("TransactionStopped", t))' = Times(TxEvent("TransactionStopped", t))
        /\ Stopping(t)' = Stopping(t)
    BY DEF Times, Stopping
  <2>5. StopSum(t)' = StopSum(t)
    BY <2>3, <2>4 DEF StopSum, MayStop
  <2> QED
    BY <2>2, <2>5 DEF CountInv, SumsArePaid
<1> QED
  BY <1>1, <1>2 DEF CountInv

LEMMA CountStep == IInv /\ CarryInv /\ CountInv /\ [Next]_vars => CountInv'
<1> SUFFICES ASSUME IInv, CarryInv, CountInv, [Next]_vars PROVE CountInv'
  OBVIOUS
<1>1. ASSUME NEW c \in Connectors, CreatePending(c) PROVE CountInv'
  <2>1. /\ NewTx(c, "Pending") /\ UNCHANGED <<linked, outbox, call, awaiting, running, faults>>
        /\ nextTx \in TxIds
    BY <1>1, FreeRow DEF CreatePending, charger, history, IInv
  <2>2. RowsKept
    BY <2>1, NewRow
  <2> QED
    BY <2>1, <2>2, CountQuiet
<1>2. CASE SessionTimeout \/ UNCHANGED vars
  <2>1. UNCHANGED <<nextTx, conn, linked, outbox, call, awaiting, running, faults>>
    BY <1>2 DEF SessionTimeout, vars, sessions, charger, history
  <2> QED
    BY <2>1, NoNewRow, CountQuiet
<1> QED
  BY <1>1, <1>2, CountSend, CountHandle, CountFails, CountGiveUp, CountCrash DEF Next, Done

LEMMA CountInit == Init => CountInv
<1> SUFFICES ASSUME Init PROVE CountInv
  OBVIOUS
<1>1. Orphans = {}
  BY DEF Init, Orphans
<1>2. \A t \in TxIds : ~linked[t]
  BY DEF Init
<1> QED
  BY <1>1, <1>2, FS_EmptySet DEF Init, CountInv, OrphansArePaid, SumsArePaid

THEOREM Counting == Spec => [](IInv /\ CarryInv /\ CountInv)
<1>1. Init => IInv /\ CarryInv /\ CountInv
  BY InitInvariant, CarryInit, CountInit
<1>2. IInv /\ CarryInv /\ CountInv /\ [Next]_vars => (IInv /\ CarryInv /\ CountInv)'
  BY NextInvariant, CarryStep, CountStep
<1> QED
  BY <1>1, <1>2, PTL DEF Spec

(* Whatever is retried, lost or dies: every TransactionStarted and every    *)
(* TransactionStopped of a session beyond the first is paid for by a lost   *)
(* answer, a failed query or a crash.                                       *)
THEOREM SessionsStartOnce == Spec => []OnceUnlessRetried
<1>1. IInv /\ CarryInv /\ CountInv => OnceUnlessRetried
  <2> SUFFICES ASSUME IInv, CarryInv, CountInv, NEW t \in TxIds
               PROVE  /\ Times(TxEvent("TransactionStarted", t)) <= 1 + faults
                      /\ Times(TxEvent("TransactionStopped", t)) <= 1 + faults
    BY DEF OnceUnlessRetried
  <2>1. CASE linked[t]
    <3>1. StartSum(t) <= 1 + faults /\ StopSum(t) <= 1 + faults
      BY <2>1 DEF CountInv, SumsArePaid
    <3> QED
      BY <3>1, SumTypes DEF StartSum, StopSum
  <2>2. CASE ~linked[t]
    BY <2>2, NotStarted, SumTypes
  <2> QED
    BY <2>1, <2>2
<1> QED
  BY <1>1, Counting, PTL

------------------------------------------------------------------------------
(* Without faults.  The charger waits for every answer, so at most one      *)
(* handler works, between its reads and its writes no other writes, and     *)
(* what it read still holds.                                                *)

Alone == \A s \in Slots : call[s] # Idle => awaiting = s

StartAwaited(s) ==
  call[s].msg.action = "StartTransaction" => running[call[s].msg.connector] = NoTx

StopAwaited(s) ==
  call[s].msg.action = "StopTransaction" =>
    /\ running[call[s].msg.connector] = call[s].msg.tx
    /\ call[s].at = "free" => status[call[s].msg.tx] = "Stopped"

FoundOpen(s) ==
  call[s].at \in {"activate", "sweep", "report"} => \A t \in call[s].found : ~billed[t]

FaultRead(s) ==
  call[s].msg.action = "StatusNotification" /\ call[s].at = "commit"
  /\ call[s].msg.connector # Station
    => call[s].wasInFault = errorCode[call[s].msg.connector]

Awaited(s) ==
  call[s] # Idle => StartAwaited(s) /\ StopAwaited(s) /\ FoundOpen(s) /\ FaultRead(s)

(* An active row the charger does not run is about to be cleaned up by the  *)
(* boot in flight, or about to be told to the charger.                      *)
MendedBy(s, t) ==
  /\ call[s] # Idle
  /\ \/ call[s].msg.action = "BootNotification"
     \/ call[s].msg.action = "StartTransaction" /\ call[s].at = "occupy"
        /\ call[s].msg.tx = t

ActiveRuns ==
  \A t \in TxIds : status[t] = "Active" =>
    running[conn[t]] = t \/ \E s \in Slots : MendedBy(s, t)

BilledStays == \A t \in TxIds : billed[t] => status[t] = "Stopped" /\ failReason[t] = "null"

Serial == Alone /\ (\A s \in Slots : Awaited(s)) /\ ActiveRuns /\ BilledStays

SerialInv == faults = 0 => Serial

LEMMA OthersIdle ==
  ASSUME Alone, NEW s \in Slots, call[s] # Idle
  PROVE  awaiting = s /\ \A r \in Slots \ {s} : call[r] = Idle
BY DEF Alone

LEMMA RunsOn ==
  ASSUME Serial, NEW s \in Slots, call[s] # Idle,
         call[s].msg.action # "BootNotification", NEW t \in TxIds, status[t] = "Active"
  PROVE  \/ running[conn[t]] = t
         \/ call[s].msg.action = "StartTransaction" /\ call[s].at = "occupy"
            /\ call[s].msg.tx = t
BY OthersIdle DEF Serial, ActiveRuns, MendedBy

LEMMA OpenUnbilled ==
  ASSUME BilledStays, NEW t \in TxIds, status[t] # "Stopped"
  PROVE  ~billed[t]
BY DEF BilledStays

(* The handler returns: nothing is in flight.                               *)
LEMMA SerialReturn ==
  ASSUME IInv, Serial, NEW s \in Slots, call[s] # Idle, Return(s), BilledStays',
         \A t \in TxIds : status'[t] = "Active" => running'[conn'[t]] = t
  PROVE  Serial'
<1>1. OneMoves(s) /\ call'[s] = Idle
  BY ReturnShape DEF IInv, CallsInv
<1>2. \A r \in Slots : call'[r] = Idle
  BY <1>1, OthersIdle DEF OneMoves, Serial
<1> QED
  BY <1>2 DEF Serial, Alone, Awaited, ActiveRuns

LEMMA SerialGoes ==
  ASSUME IInv, Serial, NEW s \in Slots, call[s] # Idle, OneMoves(s), call'[s] # Idle,
         UNCHANGED charger, BilledStays', Awaited(s)',
         \A t \in TxIds : status'[t] = "Active" => running[conn'[t]] = t \/ MendedBy(s, t)'
  PROVE  Serial'
<1>1. \A r \in Slots \ {s} : call'[r] = Idle
  BY OthersIdle DEF OneMoves, Serial
<1>2. awaiting' = s /\ running' = running
  BY OthersIdle DEF charger, Serial
<1> QED
  BY <1>1, <1>2 DEF Serial, Alone, Awaited, ActiveRuns

LEMMA SerialBegin ==
  ASSUME IInv, Serial, NEW s \in Slots, NEW m \in Messages, Begin(s, m),
         running' = running \/ m.action = "BootNotification",
         m.action = "StartTransaction" => running[m.connector] = NoTx,
         m.action = "StopTransaction" => running[m.connector] = m.tx
  PROVE  Serial'
<1> DEFINE h == [at |-> Entry(m), msg |-> m, found |-> {}, wasInFault |-> FALSE]
<1>1. /\ call' = [call EXCEPT ![s] = h] /\ awaiting = NoSlot /\ awaiting' = s
      /\ UNCHANGED <<status, conn, billed, failReason>>
  BY DEF Begin, sessions
<1>2. h.msg = m /\ h.at = Entry(m) /\ h.found = {} /\ h \in Handlers
  BY DEF Handlers, Entry, Points
<1> HIDE DEF h
<1>3. OneMoves(s) /\ call'[s] = h /\ h # Idle
  BY <1>1, <1>2, IdleIsNone DEF IInv, CallsInv, HandlersType, OneMoves
<1>4. \A r \in Slots : call[r] = Idle
  BY <1>1, SlotAssumption DEF Serial, Alone
<1>5. Alone'
  BY <1>1, <1>3, <1>4 DEF Alone, OneMoves
<1>6. Awaited(s)'
  <2>1. h.at \in {"read", "commit"}
        /\ (h.at = "commit" /\ m.action = "StatusNotification" => m.connector = Station)
        /\ (m.action \in {"StartTransaction", "StopTransaction"} => h.at = "read")
    BY <1>2 DEF Entry
  <2>2. StartAwaited(s)' /\ StopAwaited(s)' /\ FoundOpen(s)' /\ FaultRead(s)'
    BY <1>2, <1>3, <2>1 DEF StartAwaited, StopAwaited, FoundOpen, FaultRead
  <2> QED
    BY <2>2 DEF Awaited
<1>7. ActiveRuns'
  <2> SUFFICES ASSUME NEW t \in TxIds, status[t] = "Active"
               PROVE  running'[conn[t]] = t \/ MendedBy(s, t)'
    BY <1>1 DEF ActiveRuns
  <2>1. running[conn[t]] = t
    BY <1>4 DEF Serial, ActiveRuns, MendedBy
  <2> QED
    BY <1>2, <1>3, <2>1 DEF MendedBy
<1>8. \A r \in Slots : Awaited(r)'
  BY <1>3, <1>4, <1>6 DEF Awaited, OneMoves
<1> QED
  BY <1>1, <1>5, <1>7, <1>8 DEF Serial, BilledStays

LEMMA SerialSend ==
  ASSUME IInv, Serial, NEW s \in Slots, Send(s)
  PROVE  Serial'
<1>0. running \in [Connectors -> TxIds \cup {NoTx}]
  BY DEF IInv, CallsInv, HandlersType
<1>1. CASE \E c \in Connectors, t \in TxIds \cup {NoTx} : SendStart(s, c, t)
  <2>1. PICK c \in Connectors, t \in TxIds \cup {NoTx} : SendStart(s, c, t)
    BY <1>1
  <2> DEFINE m == [action |-> "StartTransaction", connector |-> c, tx |-> t]
  <2>2. /\ m \in Messages /\ Begin(s, m) /\ running' = running
        /\ m.action = "StartTransaction" /\ running[m.connector] = NoTx
    BY <2>1 DEF SendStart, Messages
  <2> HIDE DEF m
  <2> QED
    BY <2>2, SerialBegin
<1>2. CASE \E c \in Connectors : SendStop(s, c)
  <2>1. PICK c \in Connectors : SendStop(s, c)
    BY <1>2
  <2> DEFINE m == [action |-> "StopTransaction", connector |-> c, tx |-> running[c]]
  <2>2. /\ m \in Messages /\ Begin(s, m) /\ running' = running
        /\ m.action = "StopTransaction" /\ running[m.connector] = m.tx
    BY <1>0, <2>1 DEF SendStop, Messages
  <2> HIDE DEF m
  <2> QED
    BY <2>2, SerialBegin
<1>3. CASE \E c \in Connectors : SendMeterValues(s, c)
  <2>1. PICK c \in Connectors : SendMeterValues(s, c)
    BY <1>3
  <2> DEFINE m == [action |-> "MeterValues", connector |-> c]
  <2>2. m \in Messages /\ Begin(s, m) /\ running' = running /\ m.action = "MeterValues"
    BY <2>1 DEF SendMeterValues, Messages
  <2> HIDE DEF m
  <2> QED
    BY <2>2, SerialBegin
<1>4. CASE \E c \in Connectors \cup {Station}, r \in Reports : SendStatus(s, c, r)
  <2>1. PICK c \in Connectors \cup {Station}, r \in Reports : SendStatus(s, c, r)
    BY <1>4
  <2> DEFINE m == [action |-> "StatusNotification", connector |-> c, report |-> r]
  <2>2. m \in Messages /\ Begin(s, m) /\ running' = running /\ m.action = "StatusNotification"
    BY <2>1 DEF SendStatus, Messages
  <2> HIDE DEF m
  <2> QED
    BY <2>2, SerialBegin
<1>5. CASE SendBoot(s)
  <2> DEFINE m == [action |-> "BootNotification"]
  <2>1. m \in Messages /\ Begin(s, m) /\ m.action = "BootNotification"
    BY <1>5 DEF SendBoot, Messages
  <2> HIDE DEF m
  <2> QED
    BY <2>1, SerialBegin
<1> QED
  BY <1>1, <1>2, <1>3, <1>4, <1>5 DEF Send

LEMMA SerialStart ==
  ASSUME IInv, CarryInv, Serial, NEW s \in Slots,
         StartRead(s) \/ StartCreate(s) \/ StartUnknownTag(s) \/ StartActivate(s) \/ StartOccupy(s)
  PROVE  Serial'
<1>p. PICK c, u : c = call[s].msg.connector /\ u = call[s].msg.tx
  OBVIOUS
<1>0. /\ HandlersType /\ call[s] # Idle /\ call[s].msg.action = "StartTransaction"
      /\ c \in Connectors /\ u \in TxIds \cup {NoTx}
      /\ CarriesStart(s) /\ BilledStays /\ awaiting = s /\ SessionsType
  <2>1. /\ HandlersType /\ call[s] # Idle /\ call[s].msg.action = "StartTransaction"
    BY DEF IInv, CallsInv, StartRead, StartCreate, StartUnknownTag, StartActivate, StartOccupy, At
  <2> QED
    BY <1>p, <2>1, InFlight, MessageFields, OthersIdle
    DEF CarryInv, Carries, Serial, IInv, TableInv
<1>1. running[c] = NoTx /\ FoundOpen(s)
  BY <1>0, <1>p DEF Serial, Awaited, StartAwaited
<1>2. \A t \in TxIds : status[t] = "Active" =>
        running[conn[t]] = t \/ (call[s].at = "occupy" /\ u = t)
  BY <1>0, <1>p, RunsOn
<1>3. ASSUME NEW t \in TxIds, running[conn[t]] = t PROVE conn[t] # c /\ t # NoTx
  BY <1>1, <1>3 DEF TxIds
<1>4. CASE StartRead(s)
  <2>0. UNCHANGED <<status, conn, billed, failReason>> /\ call[s].at = "read"
    BY <1>4 DEF StartRead, sessions, At
  <2>1. CASE Startable(u)
    <3>1. GotoWith(s, "activate", {u}) /\ {u} \in SUBSET TxIds /\ u \in TxIds
      BY <1>0, <1>4, <1>p, <2>1 DEF StartRead, Startable
    <3>2. Goes(s, "activate", {u}) /\ UNCHANGED charger
      BY <1>0, <3>1, GotoWithShape DEF Points
    <3>3. ~billed[u]
      BY <1>0, <2>1, <3>1, OpenUnbilled DEF Startable
    <3>4. Awaited(s)'
      <4>1. call'[s].msg = call[s].msg /\ call'[s].at = "activate" /\ call'[s].found = {u}
            /\ running' = running
        BY <3>2 DEF Goes, charger
      <4> QED
        BY <1>0, <1>1, <1>p, <2>0, <3>3, <4>1
        DEF Awaited, StartAwaited, StopAwaited, FoundOpen, FaultRead
    <3> QED
      BY <1>0, <1>2, <2>0, <3>2, <3>4, SerialGoes DEF Goes, BilledStays
  <2>2. CASE ~Startable(u)
    <3>1. Goto(s, "create")
      BY <1>4, <1>p, <2>2 DEF StartRead
    <3>2. Goes(s, "create", call[s].found) /\ UNCHANGED charger
      BY <1>0, <3>1, GotoShape DEF Points
    <3>3. Awaited(s)'
      <4>1. call'[s].msg = call[s].msg /\ call'[s].at = "create" /\ running' = running
        BY <3>2 DEF Goes, charger
      <4> QED
        BY <1>0, <1>1, <1>p, <2>0, <4>1
        DEF Awaited, StartAwaited, StopAwaited, FoundOpen, FaultRead
    <3> QED
      BY <1>0, <1>2, <2>0, <3>2, <3>3, SerialGoes DEF Goes, BilledStays
  <2> QED
    BY <2>1, <2>2
<1>5. CASE StartCreate(s)
  <2>0. nextTx \in TxIds
    BY <1>0, <1>5, CreatesARow DEF StartCreate
  <2>n. PICK n \in TxIds : n = nextTx
    BY <2>0
  <2>1. /\ NewTx(c, "Active") /\ Answer(s, c, n) /\ call[s].at = "create"
        /\ UNCHANGED <<billed, failReason>>
    BY <1>5, <1>p, <2>n DEF StartCreate, At
  <2>2. /\ status' = [status EXCEPT ![n] = "Active"] /\ conn' = [conn EXCEPT ![n] = c]
        /\ running' = [running EXCEPT ![c] = n] /\ Return(s)
    BY <1>0, <2>1, <2>n DEF NewTx, Answer
  <2>3. status[n] = "none"
    BY <1>0, <2>n DEF IInv, TableInv, RowsFree, TxIds, SessionsType
  <2>4. ~billed[n]
    BY <1>0, <2>3, OpenUnbilled
  <2>5. BilledStays'
    BY <1>0, <2>1, <2>2, <2>4 DEF BilledStays, SessionsType
  <2>6. ASSUME NEW t \in TxIds, status'[t] = "Active" PROVE running'[conn'[t]] = t
    <3>1. CASE t = n
      <4>1. conn'[n] = c /\ running'[c] = n
        BY <1>0, <2>2 DEF SessionsType, HandlersType
      <4> QED
        BY <3>1, <4>1
    <3>2. CASE t # n
      <4>1. status[t] = "Active" /\ conn'[t] = conn[t]
        BY <1>0, <2>2, <2>6, <3>2 DEF SessionsType
      <4>2. running[conn[t]] = t
        BY <1>2, <2>1, <4>1
      <4>3. conn[t] # c
        BY <1>3, <4>2
      <4> QED
        BY <1>0, <2>2, <4>1, <4>2, <4>3 DEF HandlersType
    <3> QED
      BY <3>1, <3>2
  <2> QED
    BY <1>0, <2>2, <2>5, <2>6, SerialReturn
<1>6. CASE StartUnknownTag(s)
  <2>1. Return(s) /\ UNCHANGED <<status, conn, billed, failReason, running>> /\ call[s].at = "create"
    BY <1>6 DEF StartUnknownTag, sessions, At
  <2> QED
    BY <1>0, <1>2, <2>1, SerialReturn DEF BilledStays
<1>7. CASE StartActivate(s)
  <2>0. call[s].at = "activate" /\ u \in TxIds /\ call[s].found = {u}
    BY <1>0, <1>7, <1>p DEF StartActivate, At, CarriesStart
  <2>1. /\ status' = [status EXCEPT ![u] = "Active"] /\ Goto(s, "occupy")
        /\ UNCHANGED <<conn, billed, failReason>>
    BY <1>7, <2>0 DEF StartActivate
  <2>2. Goes(s, "occupy", call[s].found) /\ UNCHANGED charger
    BY <1>0, <2>1, GotoShape DEF Points
  <2>3. /\ call'[s].msg = call[s].msg /\ call'[s].at = "occupy" /\ running' = running
        /\ call'[s] # Idle
    BY <2>2 DEF Goes, charger
  <2>4. Awaited(s)'
    BY <1>0, <1>1, <1>p, <2>3 DEF Awaited, StartAwaited, StopAwaited, FoundOpen, FaultRead
  <2>5. ~billed[u]
    BY <1>1, <2>0 DEF FoundOpen
  <2>6. BilledStays'
    BY <1>0, <2>0, <2>1, <2>5 DEF BilledStays, SessionsType
  <2>7. ASSUME NEW t \in TxIds, status'[t] = "Active"
        PROVE  running[conn'[t]] = t \/ MendedBy(s, t)'
    BY <1>0, <1>2, <1>p, <2>0, <2>1, <2>3, <2>7 DEF MendedBy, SessionsType
  <2> QED
    BY <1>0, <2>2, <2>4, <2>6, <2>7, SerialGoes DEF Goes
<1>8. CASE StartOccupy(s)
  <2>1. /\ Answer(s, c, u) /\ call[s].at = "occupy"
        /\ UNCHANGED <<status, conn, billed, failReason>>
    BY <1>8, <1>p DEF StartOccupy, sessions, At
  <2>2. Return(s) /\ running' = [running EXCEPT ![c] = u]
    BY <1>0, <2>1 DEF Answer
  <2>3. ASSUME NEW t \in TxIds, status[t] = "Active" PROVE running'[conn[t]] = t
    <3>1. CASE t = u
      <4>1. conn[t] = c
        BY <1>0, <1>p, <2>1, <3>1 DEF CarriesStart, TxIds
      <4> QED
        BY <1>0, <2>2, <3>1, <4>1 DEF HandlersType
    <3>2. CASE t # u
      <4>1. running[conn[t]] = t
        BY <1>2, <2>3, <3>2
      <4>2. conn[t] # c
        BY <1>3, <4>1
      <4> QED
        BY <1>0, <2>2, <4>1, <4>2 DEF HandlersType
    <3> QED
      BY <3>1, <3>2
  <2> QED
    BY <1>0, <2>1, <2>2, <2>3, SerialReturn DEF BilledStays
<1> QED
  BY <1>4, <1>5, <1>6, <1>7, <1>8

LEMMA SerialStop ==
  ASSUME IInv, CarryInv, Serial, NEW s \in Slots, StopRead(s) \/ StopCommit(s) \/ StopFree(s)
  PROVE  Serial'
<1>p. PICK c, u : c = call[s].msg.connector /\ u = call[s].msg.tx
  OBVIOUS
<1>0. /\ HandlersType /\ call[s] # Idle /\ call[s].msg.action = "StopTransaction"
      /\ c \in Connectors /\ u \in TxIds \cup {NoTx}
      /\ CarriesStop(s) /\ BilledStays /\ awaiting = s /\ SessionsType
  <2>1. /\ HandlersType /\ call[s] # Idle /\ call[s].msg.action = "StopTransaction"
    BY DEF IInv, CallsInv, StopRead, StopCommit, StopFree, At
  <2> QED
    BY <1>p, <2>1, InFlight, MessageFields, OthersIdle
    DEF CarryInv, Carries, Serial, IInv, TableInv
<1>1. running[c] = u /\ StopAwaited(s)
  BY <1>0, <1>p DEF Serial, Awaited, StopAwaited
<1>2. \A t \in TxIds : status[t] = "Active" => running[conn[t]] = t
  BY <1>0, RunsOn
<1>3. ASSUME Answer(s, c, NoTx), UNCHANGED <<status, conn, billed, failReason>>,
             u = NoTx \/ status[u] = "Stopped"
      PROVE  Serial'
  <2>1. Return(s) /\ running' = [running EXCEPT ![c] = NoTx]
    BY <1>0, <1>3 DEF Answer
  <2>2. ASSUME NEW t \in TxIds, status[t] = "Active" PROVE running'[conn[t]] = t
    <3>1. running[conn[t]] = t
      BY <1>2, <2>2
    <3>2. conn[t] # c
      BY <1>1, <1>3, <2>2, <3>1 DEF TxIds
    <3> QED
      BY <1>0, <2>1, <3>1, <3>2 DEF HandlersType
  <2> QED
    BY <1>0, <1>3, <2>1, <2>2, SerialReturn DEF BilledStays
<1>4. CASE StopRead(s)
  <2>0. UNCHANGED <<status, conn, billed, failReason>> /\ call[s].at = "read"
    BY <1>4 DEF StopRead, sessions, At
  <2>1. CASE u # NoTx /\ linked[u]
    <3>1. GotoWith(s, "commit", {u}) /\ {u} \in SUBSET TxIds
      BY <1>0, <1>4, <1>p, <2>1 DEF StopRead
    <3>2. Goes(s, "commit", {u}) /\ UNCHANGED charger
      BY <1>0, <3>1, GotoWithShape DEF Points
    <3>3. Awaited(s)'
      <4>1. call'[s].msg = call[s].msg /\ call'[s].at = "commit" /\ running' = running
        BY <3>2 DEF Goes, charger
      <4> QED
        BY <1>0, <1>1, <1>p, <4>1 DEF Awaited, StartAwaited, StopAwaited, FoundOpen, FaultRead
    <3> QED
      BY <1>0, <1>2, <2>0, <3>2, <3>3, SerialGoes DEF Goes, BilledStays
  <2>2. CASE ~(u # NoTx /\ linked[u])
    <3>1. Answer(s, c, NoTx) /\ u = NoTx
      BY <1>0, <1>4, <1>p, <2>2 DEF StopRead, CarriesStop
    <3> QED
      BY <1>3, <2>0, <3>1
  <2> QED
    BY <2>1, <2>2
<1>5. CASE StopCommit(s)
  <2>0. u \in TxIds /\ call[s].found = {u}
    BY <1>0, <1>5, <1>p DEF StopCommit, At, CarriesStop
  <2>1. /\ status' = [status EXCEPT ![u] = "Stopped"] /\ billed' = [billed EXCEPT ![u] = TRUE]
        /\ failReason' = [failReason EXCEPT ![u] = "null"] /\ Goto(s, "free") /\ conn' = conn
    BY <1>5, <2>0 DEF StopCommit
  <2>2. Goes(s, "free", call[s].found) /\ UNCHANGED charger
    BY <1>0, <2>1, GotoShape DEF Points
  <2>3. Awaited(s)'
    <3>1. call'[s].msg = call[s].msg /\ call'[s].at = "free" /\ running' = running
      BY <2>2 DEF Goes, charger
    <3>2. status'[u] = "Stopped"
      BY <1>0, <2>0, <2>1 DEF SessionsType
    <3> QED
      BY <1>0, <1>1, <1>p, <3>1, <3>2 DEF Awaited, StartAwaited, StopAwaited, FoundOpen, FaultRead
  <2>4. BilledStays'
    BY <1>0, <2>0, <2>1 DEF BilledStays, SessionsType
  <2>5. \A t \in TxIds : status'[t] = "Active" => status[t] = "Active"
    BY <1>0, <2>0, <2>1 DEF SessionsType
  <2> QED
    BY <1>0, <1>2, <2>1, <2>2, <2>3, <2>4, <2>5, SerialGoes DEF Goes
<1>6. CASE StopFree(s)
  <2>1. /\ Answer(s, c, NoTx) /\ UNCHANGED <<status, conn, billed, failReason>>
        /\ call[s].at = "free"
    BY <1>6, <1>p DEF StopFree, sessions, At
  <2> QED
    BY <1>0, <1>1, <1>3, <1>p, <2>1 DEF StopAwaited
<1> QED
  BY <1>4, <1>5, <1>6

(* The other handlers neither start nor stop a session, nor tell the        *)
(* charger of one.                                                          *)
LEMMA SerialMeter ==
  ASSUME IInv, Serial, NEW s \in Slots, MeterRead(s) \/ MeterReport(s)
  PROVE  Serial'
<1>0. /\ HandlersType /\ call[s] # Idle /\ call[s].msg.action = "MeterValues"
      /\ BilledStays /\ UNCHANGED <<status, conn, billed, failReason>>
  BY DEF IInv, CallsInv, Serial, MeterRead, MeterReport, At, sessions
<1>1. BilledStays' /\ \A t \in TxIds : status'[t] = "Active" => running[conn'[t]] = t
  BY <1>0, RunsOn DEF BilledStays
<1>2. CASE Return(s) /\ UNCHANGED running
  BY <1>0, <1>1, <1>2, SerialReturn
<1>3. CASE \E t \in ActiveOn(call[s].msg.connector) : GotoWith(s, "report", {t})
  <2>1. PICK t \in TxIds : GotoWith(s, "report", {t}) /\ status[t] = "Active"
    BY <1>3 DEF ActiveOn
  <2>2. Goes(s, "report", {t}) /\ UNCHANGED charger
    BY <1>0, <2>1, GotoWithShape DEF Points
  <2>3. Awaited(s)'
    <3>1. ~billed'[t]
      BY <1>0, <2>1, OpenUnbilled
    <3>2. call'[s].msg = call[s].msg /\ call'[s].at = "report" /\ call'[s].found = {t}
      BY <2>2 DEF Goes
    <3> QED
      BY <1>0, <3>1, <3>2 DEF Awaited, StartAwaited, StopAwaited, FoundOpen, FaultRead
  <2> QED
    BY <1>0, <1>1, <2>2, <2>3, SerialGoes DEF Goes
<1> QED
  BY <1>2, <1>3 DEF MeterRead, MeterReport

LEMMA SerialReport ==
  ASSUME IInv, Serial, NEW s \in Slots, StatusStation(s) \/ StatusRead(s) \/ StatusCommit(s)
  PROVE  Serial'
<1>0. /\ HandlersType /\ call[s] # Idle /\ call[s].msg.action = "StatusNotification"
      /\ BilledStays /\ UNCHANGED <<status, conn, billed, failReason>>
  BY DEF IInv, CallsInv, Serial, StatusStation, StatusRead, StatusCommit, At, sessions
<1>1. BilledStays' /\ \A t \in TxIds : status'[t] = "Active" => running[conn'[t]] = t
  BY <1>0, RunsOn DEF BilledStays
<1>2. CASE Return(s) /\ UNCHANGED running
  BY <1>0, <1>1, <1>2, SerialReturn
<1>3. CASE Goto(s, "stuck")
  <2>1. Goes(s, "stuck", call[s].found) /\ UNCHANGED charger
    BY <1>0, <1>3, GotoShape DEF Points
  <2>2. Awaited(s)'
    <3>1. call'[s].msg = call[s].msg /\ call'[s].at = "stuck"
      BY <2>1 DEF Goes
    <3> QED
      BY <1>0, <3>1 DEF Awaited, StartAwaited, StopAwaited, FoundOpen, FaultRead
  <2> QED
    BY <1>0, <1>1, <2>1, <2>2, SerialGoes DEF Goes
<1>4. CASE StatusRead(s)
  <2> DEFINE h == [call[s] EXCEPT !.at = "commit",
                                  !.wasInFault = errorCode[call[s].msg.connector]]
  <2>1. call[s] \in Handlers
    BY <1>0, InFlight
  <2>2. errorCode[call[s].msg.connector] \in BOOLEAN
    BY <1>4 DEF StatusRead, At, IInv, CallsInv, HandlersKnow, Knows, DevicesType
  <2>3. /\ h \in Handlers /\ h.msg = call[s].msg /\ h.at = "commit"
        /\ h.wasInFault = errorCode[call[s].msg.connector]
    BY <2>1, <2>2 DEF Handlers, Points
  <2>4. call' = [call EXCEPT ![s] = h] /\ UNCHANGED <<charger, errorCode>>
    BY <1>4 DEF StatusRead, devices
  <2> HIDE DEF h
  <2>5. OneMoves(s) /\ call'[s] = h /\ h # Idle
    BY <1>0, <2>3, <2>4, IdleIsNone DEF OneMoves, HandlersType
  <2>6. Awaited(s)'
    BY <1>0, <2>3, <2>4, <2>5 DEF Awaited, StartAwaited, StopAwaited, FoundOpen, FaultRead
  <2> QED
    BY <1>0, <1>1, <2>4, <2>5, <2>6, SerialGoes
<1> QED
  BY <1>2, <1>3, <1>4 DEF StatusStation, StatusCommit

LEMMA SerialCleanup ==
  ASSUME IInv, Serial, NEW s \in Slots, StatusFindStuck(s) \/ StatusSweep(s)
  PROVE  Serial'
<1>0. /\ HandlersType /\ call[s] # Idle /\ call[s].msg.action = "StatusNotification"
      /\ BilledStays /\ UNCHANGED <<conn, billed>>
  BY DEF IInv, CallsInv, Serial, StatusFindStuck, StatusSweep, At, sessions
<1>1. \A t \in TxIds : status[t] = "Active" => running[conn[t]] = t
  BY <1>0, RunsOn
<1>2. CASE StatusFindStuck(s)
  <2> DEFINE T == {t \in Stuck : conn[t] = call[s].msg.connector}
  <2>0. UNCHANGED <<status, conn, billed, failReason>>
    BY <1>2 DEF StatusFindStuck, sessions
  <2>1. CASE Return(s) /\ UNCHANGED running
    BY <1>0, <1>1, <2>0, <2>1, SerialReturn DEF BilledStays
  <2>2. CASE GotoWith(s, "sweep", T)
    <3>1. T \in SUBSET TxIds /\ \A t \in T : ~billed[t]
      BY <1>0, OpenUnbilled DEF Stuck
    <3> HIDE DEF T
    <3>2. Goes(s, "sweep", T) /\ UNCHANGED charger
      BY <1>0, <2>2, <3>1, GotoWithShape DEF Points
    <3>3. Awaited(s)'
      <4>1. call'[s].msg = call[s].msg /\ call'[s].at = "sweep" /\ call'[s].found = T
        BY <3>2 DEF Goes
      <4> QED
        BY <1>0, <3>1, <4>1 DEF Awaited, StartAwaited, StopAwaited, FoundOpen, FaultRead
    <3> QED
      BY <1>0, <1>1, <2>0, <3>2, <3>3, SerialGoes DEF Goes, BilledStays
  <2> QED
    BY <1>2, <2>1, <2>2 DEF StatusFindStuck
<1>3. CASE StatusSweep(s)
  <2> DEFINE T == call[s].found
  <2>1. /\ End(T, "Stopped", "StatusNotification:Available") /\ Return(s) /\ running' = running
        /\ call[s].at = "sweep"
    BY <1>3 DEF StatusSweep, At
  <2>2. \A t \in T : ~billed[t]
    BY <1>0, <2>1 DEF Serial, Awaited, FoundOpen
  <2>3. BilledStays'
    BY <1>0, <2>1, <2>2 DEF BilledStays, End
  <2>4. \A t \in TxIds : status'[t] = "Active" => status[t] = "Active"
    BY <2>1 DEF End
  <2> QED
    BY <1>0, <1>1, <2>1, <2>3, <2>4, SerialReturn
<1> QED
  BY <1>2, <1>3

LEMMA SerialBoot ==
  ASSUME IInv, Serial, NEW s \in Slots, BootOnline(s) \/ BootReset(s)
  PROVE  Serial'
<1>0. /\ HandlersType /\ call[s] # Idle /\ call[s].msg.action = "BootNotification"
      /\ BilledStays /\ UNCHANGED <<conn, billed>>
  BY DEF IInv, CallsInv, Serial, BootOnline, BootReset, At, sessions
<1>1. CASE BootOnline(s)
  <2>1. Goto(s, "reset") /\ UNCHANGED <<status, conn, billed, failReason>>
    BY <1>1 DEF BootOnline, sessions
  <2>2. Goes(s, "reset", call[s].found) /\ UNCHANGED charger
    BY <1>0, <2>1, GotoShape DEF Points
  <2>3. call'[s].msg = call[s].msg /\ call'[s].at = "reset" /\ call'[s] # Idle
    BY <2>2 DEF Goes
  <2>4. Awaited(s)' /\ \A t \in TxIds : MendedBy(s, t)'
    BY <1>0, <2>3 DEF Awaited, StartAwaited, StopAwaited, FoundOpen, FaultRead, MendedBy
  <2> QED
    BY <1>0, <2>1, <2>2, <2>4, SerialGoes DEF Goes, BilledStays
<1>2. CASE BootReset(s)
  <2>1. End(Stuck, "Stopped", "BootNotification:Reset") /\ Return(s) /\ running' = running
    BY <1>2 DEF BootReset
  <2>2. \A t \in Stuck : ~billed[t]
    BY <1>0, OpenUnbilled DEF Stuck
  <2>3. BilledStays'
    BY <1>0, <2>1, <2>2 DEF BilledStays, End
  <2>4. \A t \in TxIds : status'[t] # "Active"
    BY <2>1 DEF End, Stuck
  <2> QED
    BY <1>0, <2>1, <2>3, <2>4, SerialReturn
<1> QED
  BY <1>1, <1>2

(* The Portal's insert and the timer touch no row that is active or billed. *)
LEMMA SerialPortal ==
  ASSUME IInv, CarryInv, Serial,
         SessionTimeout \/ \E c \in Connectors : CreatePending(c)
  PROVE  Serial'
<1>0. /\ UNCHANGED <<linked, billed, call, awaiting, running, errorCode>> /\ BilledStays
  BY DEF SessionTimeout, CreatePending, devices, charger, Serial
<1>1. /\ \A t \in TxIds : status[t] = "Stopped" => status'[t] = "Stopped" /\ failReason'[t] = failReason[t]
      /\ \A t \in TxIds : status'[t] = "Active" => status[t] = "Active" /\ conn'[t] = conn[t]
  <2>1. CASE SessionTimeout
    BY <2>1 DEF SessionTimeout, End, Waiting
  <2>2. ASSUME NEW c \in Connectors, CreatePending(c)
        PROVE  /\ \A t \in TxIds : status[t] = "Stopped" =>
                    status'[t] = "Stopped" /\ failReason'[t] = failReason[t]
               /\ \A t \in TxIds : status'[t] = "Active" => status[t] = "Active" /\ conn'[t] = conn[t]
    <3>1. NewTx(c, "Pending") /\ failReason' = failReason /\ nextTx \in TxIds
      BY <2>2, FreeRow DEF CreatePending, IInv
    <3>2. status[nextTx] = "none" /\ SessionsType
      BY <3>1 DEF IInv, TableInv, RowsFree, TxIds
    <3>3. status' = [status EXCEPT ![nextTx] = "Pending"] /\ conn' = [conn EXCEPT ![nextTx] = c]
      BY <3>1 DEF NewTx
    <3> QED
      BY <3>1, <3>2, <3>3 DEF SessionsType
  <2> QED
    BY <2>1, <2>2
<1>2. BilledStays'
  BY <1>0, <1>1 DEF BilledStays
<1>3. Alone' /\ ActiveRuns'
  BY <1>0, <1>1 DEF Serial, Alone, ActiveRuns, MendedBy
<1>4. ASSUME NEW s \in Slots, call[s] # Idle PROVE Awaited(s)'
  <2>1. Awaited(s) /\ call'[s] = call[s]
    BY <1>0 DEF Serial
  <2>2. StopAwaited(s)'
    <3>1. ASSUME call[s].msg.action = "StopTransaction", call[s].at = "free"
          PROVE  call[s].msg.tx \in TxIds
      BY <1>4, <3>1, InFlight, MessageFields DEF CarryInv, Carries, CarriesStop, IInv, CallsInv
    <3> QED
      BY <1>0, <1>1, <1>4, <2>1, <3>1 DEF Awaited, StopAwaited
  <2>3. StartAwaited(s)' /\ FoundOpen(s)' /\ FaultRead(s)'
    BY <1>0, <1>4, <2>1 DEF Awaited, StartAwaited, FoundOpen, FaultRead
  <2> QED
    BY <2>2, <2>3 DEF Awaited
<1>5. \A s \in Slots : Awaited(s)'
  BY <1>0, <1>4 DEF Awaited
<1> QED
  BY <1>2, <1>3, <1>5 DEF Serial

(* Faults are counted and never taken back.                                 *)
LEMMA FaultsCost ==
  ASSUME IInv, [Next]_vars, faults' = 0
  PROVE  /\ faults = 0
         /\ \/ \E c \in Connectors : CreatePending(c)
            \/ SessionTimeout
            \/ \E s \in Slots : Send(s) \/ Handle(s)
            \/ UNCHANGED vars
<1>0. faults \in Nat
  BY DEF IInv, HistoryType
<1>1. ~CostsFault
  BY <1>0 DEF CostsFault
<1>2. \/ \E c \in Connectors : CreatePending(c)
      \/ SessionTimeout
      \/ \E s \in Slots : Send(s) \/ Handle(s)
      \/ UNCHANGED vars
  BY <1>1 DEF Next, CallFails, SideEffectFails, GiveUp, Crash, Done
<1>3. faults' = faults
  <2>1. CASE \E s \in Slots : Send(s)
    <3>1. PICK s \in Slots : Send(s)
      BY <2>1
    <3>2. \E m : Begin(s, m)
      BY <3>1 DEF Send, SendStart, SendStop, SendMeterValues, SendStatus, SendBoot
    <3> QED
      BY <3>2 DEF Begin
  <2>2. CASE \E s \in Slots : Handle(s)
    BY <2>2 DEF Handle, StartRead, StartCreate, StartUnknownTag, StartActivate, StartOccupy,
       StopRead, StopCommit, StopFree, MeterRead, MeterReport, StatusStation, StatusRead,
       StatusCommit, StatusFindStuck, StatusSweep, BootOnline, BootReset, history
  <2> QED
    BY <1>2, <2>1, <2>2 DEF CreatePending, SessionTimeout, vars, history
<1> QED
  BY <1>2, <1>3

LEMMA SerialStep == IInv /\ CarryInv /\ SerialInv /\ [Next]_vars => SerialInv'
<1> SUFFICES ASSUME IInv, CarryInv, SerialInv, [Next]_vars, faults' = 0 PROVE Serial'
  BY DEF SerialInv
<1>1. Serial
  BY FaultsCost DEF SerialInv
<1>2. CASE UNCHANGED vars
  BY <1>1, <1>2 DEF vars, sessions, devices, charger, Serial, Alone, Awaited, StartAwaited,
     StopAwaited, FoundOpen, FaultRead, ActiveRuns, MendedBy, BilledStays
<1> QED
  BY <1>1, <1>2, FaultsCost, SerialPortal, SerialSend, SerialStart, SerialStop, SerialMeter,
     SerialReport, SerialCleanup, SerialBoot
  DEF Handle

LEMMA SerialInit == Init => SerialInv
BY DEF Init, SerialInv, Serial, Alone, Awaited, ActiveRuns, BilledStays

THEOREM SerialHandlers == Spec => [](IInv /\ CarryInv /\ SerialInv)
<1>1. Init => IInv /\ CarryInv /\ SerialInv
  BY InitInvariant, CarryInit, SerialInit
<1>2. IInv /\ CarryInv /\ SerialInv /\ [Next]_vars => (IInv /\ CarryInv /\ SerialInv)'
  BY NextInvariant, CarryStep, SerialStep
<1> QED
  BY <1>1, <1>2, PTL DEF Spec

(* While no answer is lost and nothing fails, an active row between two     *)
(* calls is the transaction the charger runs on its connector.              *)
THEOREM ActiveIsWhatRuns == Spec => []ActiveIsRunning
<1>1. IInv /\ SerialInv => ActiveIsRunning
  <2> SUFFICES ASSUME IInv, SerialInv, faults = 0, awaiting = NoSlot
               PROVE  \A t \in TxIds : status[t] = "Active" => running[conn[t]] = t
    BY DEF ActiveIsRunning
  <2>1. \A s \in Slots : call[s] = Idle
    BY SlotAssumption DEF SerialInv, Serial, Alone
  <2> QED
    BY <2>1 DEF SerialInv, Serial, ActiveRuns, MendedBy
<1> QED
  BY <1>1, SerialHandlers, PTL

(* While no answer is lost and nothing fails, no start, reboot, status      *)
(* report or timeout touches the row of a billed session.                   *)
THEOREM BillsAreFinal == Spec => []BilledIsFinal
<1>1. SerialInv => BilledIsFinal
  BY DEF SerialInv, Serial, BilledStays, BilledIsFinal
<1> QED
  BY <1>1, SerialHandlers, PTL

------------------------------------------------------------------------------
(* What the outbox tells the Portal without faults                          *)

NoMeters ==
  \A i, j \in DOMAIN outbox, t \in TxIds :
    /\ outbox[i] = TxEvent("TransactionStopped", t)
    /\ outbox[j] = TxEvent("MeterValueUpdate", t)
    => j < i

FaultsTold == \A c \in Connectors : errorCode[c] <=> FaultTold(c)

Story == NoMeters /\ FaultsTold
StoryInv == faults = 0 => Story

LEMMA AppendedLast ==
  ASSUME OutboxType, NEW es \in Seq(Events), Publish(es), NEW e \in ToSet(es)
  PROVE  \E i \in DOMAIN outbox' \ DOMAIN outbox : outbox'[i] = e
<1>1. PICK k \in 1 .. Len(es) : es[k] = e
  BY DEF ToSet
<1>2. /\ outbox' = outbox \o es /\ outbox \in Seq(Events)
      /\ Len(outbox) \in Nat /\ Len(es) \in Nat
  BY DEF OutboxType, Publish
<1>3. outbox'[Len(outbox) + k] = e /\ Len(outbox) + k \in DOMAIN outbox'
  BY <1>1, <1>2
<1>4. Len(outbox) + k \notin DOMAIN outbox
  BY <1>1, <1>2
<1> QED
  BY <1>3, <1>4

LEMMA NoNewMeters ==
  ASSUME OutboxType, NoMeters, NEW es \in Seq(Events), Publish(es),
         \A k \in DOMAIN es, t \in TxIds :
           es[k] = TxEvent("MeterValueUpdate", t)
             => ~Published(TxEvent("TransactionStopped", t))'
  PROVE  NoMeters'
<1> SUFFICES ASSUME NEW i \in DOMAIN outbox', NEW j \in DOMAIN outbox', NEW t \in TxIds,
                    outbox'[i] = TxEvent("TransactionStopped", t),
                    outbox'[j] = TxEvent("MeterValueUpdate", t)
             PROVE  j < i
  BY DEF NoMeters
<1>1. Published(TxEvent("TransactionStopped", t))'
  BY DEF Published, ToSet
<1>2. j \in DOMAIN outbox
  BY <1>1, Appends
<1>3. CASE i \in DOMAIN outbox
  BY <1>2, <1>3, Appends DEF NoMeters
<1>4. CASE i \notin DOMAIN outbox
  BY <1>2, <1>4, Appends
<1> QED
  BY <1>3, <1>4

LEMMA ToldStill ==
  ASSUME OutboxType, NEW es \in Seq(Events), Publish(es), NEW c,
         ConnectorEvent("FaultRaised", c) \notin ToSet(es),
         ConnectorEvent("FaultCleared", c) \notin ToSet(es)
  PROVE  FaultTold(c)' <=> FaultTold(c)
<1> DEFINE r == ConnectorEvent("FaultRaised", c)
           d == ConnectorEvent("FaultCleared", c)
<1>1. \A k \in DOMAIN es : es[k] # r /\ es[k] # d
  BY DEF ToSet
<1>2. \A i \in DOMAIN outbox' \ DOMAIN outbox : outbox'[i] # r /\ outbox'[i] # d
  BY <1>1, Appends
<1>3. DOMAIN outbox \subseteq DOMAIN outbox' /\ \A i \in DOMAIN outbox : outbox'[i] = outbox[i]
  BY Appends
<1> HIDE DEF r, d
<1>4. (\E i \in DOMAIN outbox' : /\ outbox'[i] = r
                                 /\ \A j \in DOMAIN outbox' : outbox'[j] = d => j < i)
      <=> (\E i \in DOMAIN outbox : /\ outbox[i] = r
                                    /\ \A j \in DOMAIN outbox : outbox[j] = d => j < i)
  BY <1>2, <1>3
<1> QED
  BY <1>4 DEF FaultTold, r, d

LEMMA ToldNow ==
  ASSUME OutboxType, NEW es \in Seq(Events), Publish(es), NEW c,
         ConnectorEvent("FaultRaised", c) \in ToSet(es),
         ConnectorEvent("FaultCleared", c) \notin ToSet(es)
  PROVE  FaultTold(c)'
<1>1. PICK i \in DOMAIN outbox' \ DOMAIN outbox : outbox'[i] = ConnectorEvent("FaultRaised", c)
  BY AppendedLast
<1>2. \A k \in DOMAIN es : es[k] # ConnectorEvent("FaultCleared", c)
  BY DEF ToSet
<1>3. \A j \in DOMAIN outbox' : outbox'[j] = ConnectorEvent("FaultCleared", c) => j \in DOMAIN outbox
  BY <1>2, Appends
<1>4. \A j \in DOMAIN outbox : j < i
  BY Appends
<1> QED
  BY <1>1, <1>3, <1>4 DEF FaultTold

LEMMA ClearedNow ==
  ASSUME OutboxType, NEW es \in Seq(Events), Publish(es), NEW c,
         ConnectorEvent("FaultRaised", c) \notin ToSet(es),
         ConnectorEvent("FaultCleared", c) \in ToSet(es)
  PROVE  ~FaultTold(c)'
<1> SUFFICES ASSUME NEW i \in DOMAIN outbox', outbox'[i] = ConnectorEvent("FaultRaised", c),
                    \A j \in DOMAIN outbox' :
                      outbox'[j] = ConnectorEvent("FaultCleared", c) => j < i
             PROVE  FALSE
  BY DEF FaultTold
<1>1. PICK j \in DOMAIN outbox' \ DOMAIN outbox : outbox'[j] = ConnectorEvent("FaultCleared", c)
  BY AppendedLast
<1>2. \A k \in DOMAIN es : es[k] # ConnectorEvent("FaultRaised", c)
  BY DEF ToSet
<1>3. i \in DOMAIN outbox
  BY <1>2, Appends
<1>4. i < j /\ j < i
  BY <1>1, <1>3, Appends
<1>5. i \in Nat /\ j \in Nat
  BY Appends DEF OutboxType
<1> QED
  BY <1>4, <1>5

LEMMA ConnectorEventsDiffer ==
  /\ \A a, b, c, d : ConnectorEvent(a, c) = ConnectorEvent(b, d) => a = b /\ c = d
  /\ \A c : ConnectorEvent("FaultRaised", c) # [type |-> "StationOnline"]
  /\ \A c : ConnectorEvent("FaultCleared", c) # [type |-> "StationOnline"]
BY DEF ConnectorEvent

(* One event that is neither of a fault nor a late meter value.             *)
LEMMA StoryGoesOn ==
  ASSUME IInv, Story, NEW e \in Events, Publish(<<e>>), UNCHANGED errorCode,
         \A c : e # ConnectorEvent("FaultRaised", c) /\ e # ConnectorEvent("FaultCleared", c),
         \A t \in TxIds : e = TxEvent("MeterValueUpdate", t)
           => ~Published(TxEvent("TransactionStopped", t))
  PROVE  Story'
<1>1. <<e>> \in Seq(Events) /\ ToSet(<<e>>) = {e} /\ \A k \in DOMAIN <<e>> : <<e>>[k] = e
  BY AppendsOne
<1>2. OutboxType
  BY DEF IInv, EventsInv
<1>3. FaultsTold'
  BY <1>1, <1>2, ToldStill DEF Story, FaultsTold
<1>4. NoMeters'
  <2>1. \A t \in TxIds : e = TxEvent("MeterValueUpdate", t)
          => ~Published(TxEvent("TransactionStopped", t))'
    <3> SUFFICES ASSUME NEW t \in TxIds, e = TxEvent("MeterValueUpdate", t)
                 PROVE  ~Published(TxEvent("TransactionStopped", t))'
      OBVIOUS
    <3>1. TxEvent("TransactionStopped", t) # e
      BY EventsDiffer
    <3>2. \A x : Published(x)' <=> Published(x) \/ x \in ToSet(<<e>>)
      BY <1>1, <1>2, Appends
    <3> QED
      BY <1>1, <3>1, <3>2, Zenon
  <2> QED
    BY <1>1, <1>2, <2>1, NoNewMeters DEF Story
<1> QED
  BY <1>3, <1>4 DEF Story

LEMMA StoryStands ==
  ASSUME Story, UNCHANGED <<outbox, errorCode>>
  PROVE  Story'
BY DEF Story, NoMeters, FaultsTold, FaultTold

LEMMA StoryOfSessions ==
  ASSUME IInv, Story, NEW s \in Slots, StartCreate(s) \/ StartActivate(s) \/ StopCommit(s)
  PROVE  Story'
<1>1. call[s] # Idle /\ call[s].found \subseteq TxIds /\ UNCHANGED errorCode
  BY InFlight DEF IInv, CallsInv, StartCreate, StartActivate, StopCommit, At, devices
<1>2. ASSUME NEW a \in {"TransactionStarted", "TransactionStopped"}, NEW t \in TxIds,
             Publish(<<TxEvent(a, t)>>)
      PROVE  Story'
  <2>1. PICK e : e = TxEvent(a, t)
    OBVIOUS
  <2>2. /\ e \in Events
        /\ \A c : e # ConnectorEvent("FaultRaised", c) /\ e # ConnectorEvent("FaultCleared", c)
        /\ \A u \in TxIds : e # TxEvent("MeterValueUpdate", u)
    BY <2>1, EventsAreEvents, EventsDiffer DEF TxEventTypes, ConnectorEventTypes
  <2> QED
    BY <1>1, <1>2, <2>1, <2>2, StoryGoesOn
<1>3. CASE StartCreate(s)
  <2>1. nextTx \in TxIds
    BY <1>3, CreatesARow DEF StartCreate, At
  <2> QED
    BY <1>2, <1>3, <2>1 DEF StartCreate
<1>4. CASE StartActivate(s)
  BY <1>1, <1>2, <1>4 DEF StartActivate
<1>5. CASE StopCommit(s)
  BY <1>1, <1>2, <1>5 DEF StopCommit
<1> QED
  BY <1>3, <1>4, <1>5

LEMMA StoryOfMeters ==
  ASSUME IInv, Serial, Story, NEW s \in Slots, MeterReport(s)
  PROVE  Story'
<1>1. /\ call[s] # Idle /\ call[s].found \subseteq TxIds /\ UNCHANGED errorCode
      /\ call[s].at = "report"
  BY InFlight DEF IInv, CallsInv, MeterReport, At, devices
<1>2. PICK t \in call[s].found : Publish(<<TxEvent("MeterValueUpdate", t)>>)
  BY DEF MeterReport
<1>3. t \in TxIds /\ ~billed[t]
  BY <1>1 DEF Serial, Awaited, FoundOpen
<1>4. ~Published(TxEvent("TransactionStopped", t))
  BY <1>3 DEF IInv, EventsInv, OutboxAgreesWithRows
<1>5. PICK e : e = TxEvent("MeterValueUpdate", t)
  OBVIOUS
<1>6. /\ e \in Events
      /\ \A c : e # ConnectorEvent("FaultRaised", c) /\ e # ConnectorEvent("FaultCleared", c)
      /\ \A u \in TxIds : e = TxEvent("MeterValueUpdate", u) => u = t
  BY <1>3, <1>5, EventsAreEvents, EventsDiffer DEF TxEventTypes, ConnectorEventTypes
<1> QED
  BY <1>1, <1>2, <1>4, <1>5, <1>6, StoryGoesOn

LEMMA StoryOfBoots ==
  ASSUME IInv, Story, NEW s \in Slots, BootOnline(s)
  PROVE  Story'
<1>1. PICK e : e = [type |-> "StationOnline"]
  OBVIOUS
<1>2. /\ e \in Events /\ Publish(<<e>>) /\ UNCHANGED errorCode
      /\ \A c : e # ConnectorEvent("FaultRaised", c) /\ e # ConnectorEvent("FaultCleared", c)
      /\ \A u \in TxIds : e # TxEvent("MeterValueUpdate", u)
  BY <1>1, EventsAreEvents, EventsDiffer, ConnectorEventsDiffer DEF BootOnline, TxEventTypes
<1> QED
  BY <1>2, StoryGoesOn

LEMMA AppendsTwo ==
  ASSUME NEW a \in Events, NEW b \in Events
  PROVE  <<a>> \o <<b>> \in Seq(Events) /\ ToSet(<<a>> \o <<b>>) = {a, b}
<1>1. PICK p, q : p = <<a>> /\ q = <<b>>
  OBVIOUS
<1>2. /\ p \in Seq(Events) /\ Len(p) = 1 /\ p[1] = a
      /\ q \in Seq(Events) /\ Len(q) = 1 /\ q[1] = b
  BY <1>1
<1>3. PICK es : es = p \o q
  OBVIOUS
<1>4. es \in Seq(Events) /\ Len(es) = 2 /\ es[1] = a /\ es[2] = b
  <2>1. /\ es \in Seq(Events) /\ Len(es) = Len(p) + Len(q)
        /\ \A i \in 1 .. Len(p) + Len(q) :
             es[i] = IF i <= Len(p) THEN p[i] ELSE q[i - Len(p)]
    BY <1>2, <1>3, ConcatProperties
  <2>2. es[1] = p[1] /\ es[2] = q[1]
    BY <1>2, <2>1
  <2> QED
    BY <1>2, <2>1, <2>2
<1>5. ToSet(es) = {a, b}
  <2>1. DOMAIN es = {1, 2}
    BY <1>4
  <2> QED
    BY <1>4, <2>1 DEF ToSet
<1> QED
  BY <1>1, <1>3, <1>4, <1>5

(* A status report writes the events of its fault beside the error code.    *)
LEMMA StoryOfReports ==
  ASSUME IInv, Serial, Story, NEW s \in Slots, StatusCommit(s)
  PROVE  Story'
<1>1. PICK m, c : m = call[s].msg /\ c = m.connector
  OBVIOUS
<1>2. /\ call[s] # Idle /\ m.action = "StatusNotification" /\ c # Station
      /\ call[s].at = "commit"
      /\ errorCode' = [errorCode EXCEPT ![c] = m.report.error]
      /\ Publish(<<ConnectorEvent("ConnectorStatusChanged", c)>>
                   \o FaultEvents(m, call[s].wasInFault))
  BY <1>1 DEF StatusCommit, At
<1>3. /\ c \in Connectors /\ m.report.error \in BOOLEAN /\ OutboxType
      /\ errorCode \in [Connectors -> BOOLEAN]
  BY <1>1, <1>2, InFlight, MessageFields, ReportsAssumption
  DEF IInv, CallsInv, EventsInv, DevicesType
<1>4. call[s].wasInFault = errorCode[c]
  BY <1>1, <1>2 DEF Serial, Awaited, FaultRead
<1>5. PICK x, r, d : /\ x = ConnectorEvent("ConnectorStatusChanged", c)
                     /\ r = ConnectorEvent("FaultRaised", c)
                     /\ d = ConnectorEvent("FaultCleared", c)
  OBVIOUS
<1>6. x \in Events /\ r \in Events /\ d \in Events /\ x # r /\ x # d /\ r # d
  BY <1>3, <1>5, EventsAreEvents, ConnectorEventsDiffer DEF ConnectorEventTypes
<1>7. PICK f : f = IF m.report.error THEN <<r>> ELSE IF errorCode[c] THEN <<d>> ELSE <<>>
  OBVIOUS
<1>8. Publish(<<x>> \o f)
  BY <1>1, <1>2, <1>4, <1>5, <1>7 DEF FaultEvents
<1>9. /\ <<x>> \o f \in Seq(Events)
      /\ ToSet(<<x>> \o f) = {x} \cup ToSet(f)
      /\ ToSet(f) = IF m.report.error THEN {r} ELSE IF errorCode[c] THEN {d} ELSE {}
  <2>1. CASE m.report.error
    <3>1. f = <<r>>
      BY <1>7, <2>1
    <3>2. ToSet(f) = {r}
      BY <1>6, <3>1, AppendsOne
    <3>3. <<x>> \o f \in Seq(Events) /\ ToSet(<<x>> \o f) = {x, r}
      BY <1>6, <3>1, AppendsTwo
    <3> QED
      BY <1>6, <2>1, <3>1, <3>2, <3>3
  <2>2. CASE ~m.report.error /\ errorCode[c]
    <3>1. f = <<d>>
      BY <1>7, <2>2
    <3>2. ToSet(f) = {d}
      BY <1>6, <3>1, AppendsOne
    <3>3. <<x>> \o f \in Seq(Events) /\ ToSet(<<x>> \o f) = {x, d}
      BY <1>6, <3>1, AppendsTwo
    <3> QED
      BY <1>6, <2>2, <3>1, <3>2, <3>3
  <2>3. CASE ~m.report.error /\ ~errorCode[c]
    <3>1. f = <<>>
      BY <1>7, <2>3
    <3>2. <<x>> \o f = <<x>>
      BY <3>1
    <3> QED
      BY <1>6, <2>3, <3>1, <3>2 DEF ToSet
  <2> QED
    BY <2>1, <2>2, <2>3
<1>10. PICK es : es = <<x>> \o f
  OBVIOUS
<1>11. /\ es \in Seq(Events) /\ Publish(es)
       /\ ToSet(es) = {x} \cup (IF m.report.error THEN {r} ELSE IF errorCode[c] THEN {d} ELSE {})
  BY <1>8, <1>9, <1>10
<1>12. NoMeters'
  <2>1. \A u \in TxIds : TxEvent("MeterValueUpdate", u) \notin ToSet(es)
    BY <1>5, <1>11, EventsDiffer DEF TxEventTypes, ConnectorEventTypes
  <2> QED
    BY <1>3, <1>11, <2>1, NoNewMeters DEF Story, ToSet
<1>13. ASSUME NEW k \in Connectors PROVE errorCode'[k] <=> FaultTold(k)'
  <2>0. errorCode[k] <=> FaultTold(k)
    BY DEF Story, FaultsTold
  <2>1. CASE k # c
    <3>1. ConnectorEvent("FaultRaised", k) \notin ToSet(es)
          /\ ConnectorEvent("FaultCleared", k) \notin ToSet(es)
      BY <1>5, <1>11, <2>1, ConnectorEventsDiffer
    <3>2. FaultTold(k)' <=> FaultTold(k)
      BY <1>3, <1>11, <3>1, ToldStill
    <3>3. errorCode'[k] = errorCode[k]
      BY <1>2, <1>3, <2>1
    <3> QED
      BY <2>0, <3>2, <3>3
  <2>2. CASE k = c
    <3>0. errorCode'[k] = m.report.error
      BY <1>2, <1>3, <2>2
    <3>1. CASE m.report.error
      <4>1. r \in ToSet(es) /\ d \notin ToSet(es)
        BY <1>6, <1>11, <3>1
      <4> QED
        BY <1>3, <1>5, <1>11, <2>2, <3>0, <3>1, <4>1, ToldNow
    <3>2. CASE ~m.report.error /\ errorCode[c]
      <4>1. d \in ToSet(es) /\ r \notin ToSet(es)
        BY <1>6, <1>11, <3>2
      <4> QED
        BY <1>3, <1>5, <1>11, <2>2, <3>0, <3>2, <4>1, ClearedNow
    <3>3. CASE ~m.report.error /\ ~errorCode[c]
      <4>1. d \notin ToSet(es) /\ r \notin ToSet(es)
        BY <1>6, <1>11, <3>3
      <4>2. FaultTold(k)' <=> FaultTold(k)
        BY <1>3, <1>5, <1>11, <2>2, <4>1, ToldStill
      <4> QED
        BY <2>0, <2>2, <3>0, <3>3, <4>2
    <3> QED
      BY <3>1, <3>2, <3>3
  <2> QED
    BY <2>1, <2>2
<1> QED
  BY <1>12, <1>13 DEF Story, FaultsTold

LEMMA StoryStep == IInv /\ SerialInv /\ StoryInv /\ [Next]_vars => StoryInv'
<1> SUFFICES ASSUME IInv, SerialInv, StoryInv, [Next]_vars, faults' = 0 PROVE Story'
  BY DEF StoryInv
<1>1. Serial /\ Story
  BY FaultsCost DEF SerialInv, StoryInv
<1>2. CASE SessionTimeout \/ UNCHANGED vars \/ \E c \in Connectors : CreatePending(c)
  BY <1>1, <1>2, StoryStands DEF SessionTimeout, CreatePending, vars, devices
<1>3. ASSUME NEW s \in Slots, Send(s) PROVE Story'
  <2>1. \E m : Begin(s, m)
    BY <1>3 DEF Send, SendStart, SendStop, SendMeterValues, SendStatus, SendBoot
  <2> QED
    BY <1>1, <2>1, StoryStands DEF Begin, devices
<1>4. ASSUME NEW s \in Slots, Handle(s) PROVE Story'
  <2>1. \/ UNCHANGED <<outbox, errorCode>>
        \/ StartCreate(s) \/ StartActivate(s) \/ StopCommit(s) \/ MeterReport(s)
        \/ StatusCommit(s) \/ BootOnline(s)
    BY <1>4 DEF Handle, StartRead, StartUnknownTag, StartOccupy, StopRead, StopFree, MeterRead,
       StatusStation, StatusRead, StatusFindStuck, StatusSweep, BootReset, devices
  <2> QED
    BY <1>1, <2>1, StoryStands, StoryOfSessions, StoryOfMeters, StoryOfBoots, StoryOfReports
<1> QED
  BY <1>2, <1>3, <1>4, FaultsCost

LEMMA StoryInit == Init => StoryInv
BY DEF Init, StoryInv, Story, NoMeters, FaultsTold, FaultTold

THEOREM StoryHolds == Spec => [](IInv /\ CarryInv /\ SerialInv /\ StoryInv)
<1>1. Init => IInv /\ CarryInv /\ SerialInv /\ StoryInv
  BY InitInvariant, CarryInit, SerialInit, StoryInit
<1>2. IInv /\ CarryInv /\ SerialInv /\ StoryInv /\ [Next]_vars
        => (IInv /\ CarryInv /\ SerialInv /\ StoryInv)'
  BY NextInvariant, CarryStep, SerialStep, StoryStep
<1> QED
  BY <1>1, <1>2, PTL DEF Spec

(* While no answer is lost and nothing fails, no meter value of a session   *)
(* reaches the outbox after its bill.                                       *)
THEOREM BillsComeLast == Spec => []NoMeterAfterBill
<1>1. StoryInv => NoMeterAfterBill
  BY DEF StoryInv, Story, NoMeters, NoMeterAfterBill
<1> QED
  BY <1>1, StoryHolds, PTL

(* While no answer is lost and nothing fails, the fault events in the       *)
(* outbox say of every connector whether its row has an error code.         *)
THEOREM FaultEventsTell == Spec => []FaultEventsTellErrors
<1>1. StoryInv => FaultEventsTellErrors
  BY DEF StoryInv, Story, FaultsTold, FaultEventsTellErrors
<1> QED
  BY <1>1, StoryHolds, PTL
=============================================================================
