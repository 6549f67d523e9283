------------------------ MODULE FirmwareCampaignProofs ------------------------
(***************************************************************************)
(* Proofs about FirmwareCampaign: type correctness, that the dispatch loop *)
(* never writes over a charger's report, and, without faults, that ended   *)
(* rows are final, completed campaigns complete, and the last report       *)
(* completes a running one; for any campaigns, stations and number of      *)
(* handlers in flight.                                                     *)
(***************************************************************************)
EXTENDS FirmwareCampaign, TLAPS

USE MatchingAssumption, StationAssumption, CampaignAssumption, SlotAssumption,
    FaultsAssumption

------------------------------------------------------------------------------
(* Type correctness.  What a handler or the loop has in hand is typed by   *)
(* the await it is at.                                                     *)

HandlerHasRow ==
  \A s \in Slots :
    call[s] # Idle /\ call[s].at # "find" => call[s].row \in Campaigns

LoopHasStation ==
  \A c \in Campaigns : pc[c] # "next" => current[c] \in Stations

TypeInv == TypeOK /\ HandlerHasRow /\ LoopHasStation

LEMMA Statuses ==
  /\ {"queued", "sent", "send_error", "none"} \subseteq RowStatuses
  /\ \A r \in Reports : Mapped[r] \in Open \cup Final
  /\ Open \cup Final \subseteq RowStatuses
BY DEF RowStatuses, Reports, Mapped, Open, Final, Ended

(* The records of the handlers in flight.                                  *)
LEMMA HandlerFields ==
  ASSUME NEW h \in Handlers
  PROVE  /\ h # Idle
         /\ h.at \in {"find", "update", "count", "complete"}
         /\ h.station \in Stations /\ h.report \in Reports
         /\ h.row \in Campaigns \cup {NoCampaign}
BY DEF Handlers, Idle

LEMMA HandlerMoves ==
  ASSUME NEW h \in Handlers, NEW p \in {"find", "update", "count", "complete"}
  PROVE  /\ [h EXCEPT !.at = p] \in Handlers
         /\ [h EXCEPT !.at = p].at = p
         /\ [h EXCEPT !.at = p].row = h.row
         /\ [h EXCEPT !.at = p].station = h.station
         /\ [h EXCEPT !.at = p].report = h.report
BY DEF Handlers

LEMMA HandlerFinds ==
  ASSUME NEW h \in Handlers, NEW c \in Campaigns
  PROVE  LET g == [h EXCEPT !.at = "update", !.row = c] IN
         /\ g \in Handlers
         /\ g.at = "update" /\ g.row = c
         /\ g.station = h.station /\ g.report = h.report
BY DEF Handlers

LEMMA TypeInit == Init => TypeInv
<1> SUFFICES ASSUME Init PROVE TypeInv
  OBVIOUS
<1>1. TablesType
  BY DEF Init, TablesType, CampaignStatuses, RowStatuses
<1>2. DispatchType /\ LoopHasStation
  BY DEF Init, DispatchType, LoopHasStation
<1>3. HandlersType /\ HandlerHasRow
  BY DEF Init, HandlersType, HandlerHasRow
<1> QED
  BY <1>1, <1>2, <1>3 DEF TypeInv, TypeOK

LEMMA SetRowType ==
  ASSUME TablesType, NEW c \in Campaigns, NEW w \in Stations, NEW st \in RowStatuses,
         SetRow(c, w, st), UNCHANGED campaign
  PROVE  /\ TablesType'
         /\ progress'[c][w] = st
         /\ \A d \in Campaigns, v \in Stations :
              d # c \/ v # w => progress'[d][v] = progress[d][v]
<1>1. progress' \in [Campaigns -> [Stations -> RowStatuses]]
  BY DEF TablesType, SetRow
<1>2. Touch(newer[w], c) \in SUBSET (Campaigns \X Campaigns)
  BY DEF TablesType, Touch
<1>3. newer' \in [Stations -> SUBSET (Campaigns \X Campaigns)]
  BY <1>2 DEF TablesType, SetRow
<1>4. /\ progress'[c][w] = st
      /\ \A d \in Campaigns, v \in Stations :
           d # c \/ v # w => progress'[d][v] = progress[d][v]
  BY DEF TablesType, SetRow
<1> QED
  BY <1>1, <1>3, <1>4 DEF TablesType

LEMMA StartType ==
  ASSUME TypeInv, NEW c \in Campaigns, Start(c)
  PROVE  TypeInv'
<1>1. progress' \in [Campaigns -> [Stations -> RowStatuses]]
  BY Statuses DEF Start, TypeInv, TypeOK, TablesType
<1>2. \A w \in Stations : Touch(newer[w], c) \in SUBSET (Campaigns \X Campaigns)
  BY DEF TypeInv, TypeOK, TablesType, Touch
<1>3. newer' \in [Stations -> SUBSET (Campaigns \X Campaigns)]
  BY <1>2 DEF Start, TypeInv, TypeOK, TablesType
<1>4. campaign' \in [Campaigns -> CampaignStatuses]
  BY DEF Start, TypeInv, TypeOK, TablesType, CampaignStatuses
<1>5. TablesType'
  BY <1>1, <1>3, <1>4 DEF TablesType
<1>6. Matching[c] \in SUBSET Stations
  OBVIOUS
<1>7. DispatchType' /\ LoopHasStation'
  BY <1>6 DEF Start, TypeInv, TypeOK, DispatchType, LoopHasStation
<1>8. HandlersType' /\ HandlerHasRow'
  BY DEF Start, TypeInv, TypeOK, HandlersType, HandlerHasRow, charger
<1> QED
  BY <1>5, <1>7, <1>8 DEF TypeInv, TypeOK

LEMMA CancelType ==
  ASSUME TypeInv, NEW c \in Campaigns, CancelRead(c) \/ CancelCommit(c) \/ CancelFails(c)
  PROVE  TypeInv'
<1>1. TablesType'
  BY DEF CancelRead, CancelCommit, CancelFails, TypeInv, TypeOK, TablesType, tables,
         CampaignStatuses
<1>2. DispatchType' /\ LoopHasStation'
  BY DEF CancelRead, CancelCommit, CancelFails, TypeInv, TypeOK, DispatchType,
         LoopHasStation, dispatch
<1>3. HandlersType' /\ HandlerHasRow'
  BY DEF CancelRead, CancelCommit, CancelFails, TypeInv, TypeOK, HandlersType,
         HandlerHasRow, charger, CostsFault
<1> QED
  BY <1>1, <1>2, <1>3 DEF TypeInv, TypeOK

LEMMA LoopType ==
  ASSUME TypeInv, NEW c \in Campaigns, Loop(c), UNCHANGED faults \/ CostsFault
  PROVE  DispatchType' /\ LoopHasStation' /\ HandlersType' /\ HandlerHasRow'
<1>1. DispatchType' /\ LoopHasStation'
  BY DEF Loop, DispatchGoto, TypeInv, TypeOK, DispatchType, LoopHasStation
<1>2. HandlersType' /\ HandlerHasRow'
  BY DEF Loop, TypeInv, TypeOK, HandlersType, HandlerHasRow, charger, CostsFault
<1> QED
  BY <1>1, <1>2

LEMMA DispatchStepType ==
  ASSUME TypeInv, NEW c \in Campaigns, Dispatch(c)
  PROVE  TypeInv'
<1>1. ASSUME NEW w \in Stations, DispatchNext(c, w) PROVE TypeInv'
  <2>1. DispatchType' /\ LoopHasStation'
    BY <1>1 DEF DispatchNext, DispatchGoto, TypeInv, TypeOK, DispatchType, LoopHasStation
  <2>2. TablesType' /\ HandlersType' /\ HandlerHasRow'
    BY <1>1 DEF DispatchNext, TypeInv, TypeOK, TablesType, HandlersType, HandlerHasRow,
                tables, charger
  <2> QED
    BY <2>1, <2>2 DEF TypeInv, TypeOK
<1>2. CASE Deliver(c)
  <2>1. DispatchType' /\ LoopHasStation'
    BY <1>2 DEF Deliver, DispatchGoto, TypeInv, TypeOK, DispatchType, LoopHasStation
  <2>2. TablesType' /\ HandlerHasRow'
    BY <1>2 DEF Deliver, TypeInv, TypeOK, TablesType, HandlerHasRow, tables
  <2>3. HandlersType'
    BY <1>2 DEF Deliver, TypeInv, TypeOK, HandlersType
  <2> QED
    BY <2>1, <2>2, <2>3 DEF TypeInv, TypeOK
<1>3. CASE SendReturns(c) \/ SendThrows(c)
  <2>1. DispatchType' /\ LoopHasStation'
    BY <1>3 DEF SendReturns, SendThrows, DispatchGoto, TypeInv, TypeOK, DispatchType,
                LoopHasStation
  <2>2. TablesType' /\ HandlersType' /\ HandlerHasRow'
    BY <1>3 DEF SendReturns, SendThrows, TypeInv, TypeOK, TablesType, HandlersType,
                HandlerHasRow, tables, charger, CostsFault
  <2> QED
    BY <2>1, <2>2 DEF TypeInv, TypeOK
<1>4. CASE RecordSent(c) \/ RecordSendError(c)
  <2>1. current[c] \in Stations
    BY <1>4 DEF RecordSent, RecordSendError, TypeInv, LoopHasStation
  <2>2. TablesType'
    BY <1>4, <2>1, Statuses, SetRowType DEF RecordSent, RecordSendError, Loop, TypeInv, TypeOK
  <2> QED
    BY <1>4, <2>2, LoopType DEF RecordSent, RecordSendError, TypeInv, TypeOK
<1>5. CASE RecordFails(c)
  <2>1. TablesType'
    BY <1>5 DEF RecordFails, Loop, TypeInv, TypeOK, TablesType
  <2> QED
    BY <1>5, <2>1, LoopType DEF RecordFails, TypeInv, TypeOK
<1> QED
  BY <1>1, <1>2, <1>3, <1>4, <1>5 DEF Dispatch

LEMMA AtHandler ==
  ASSUME TypeInv, NEW s \in Slots, NEW p, At(s, p)
  PROVE  call[s] \in Handlers /\ call[s] # Idle /\ call[s].at = p
BY DEF At, TypeInv, TypeOK, HandlersType

LEMMA ReturnType ==
  ASSUME TypeInv, NEW s \in Slots, Return(s), UNCHANGED <<cancelling, job>>,
         UNCHANGED faults \/ CostsFault
  PROVE  HandlersType' /\ HandlerHasRow'
<1>1. HandlersType'
  BY DEF Return, TypeInv, TypeOK, HandlersType, CostsFault
<1>2. HandlerHasRow'
  BY DEF Return, TypeInv, TypeOK, HandlersType, HandlerHasRow
<1> QED
  BY <1>1, <1>2

LEMMA HandlerGotoType ==
  ASSUME TypeInv, NEW s \in Slots, call[s] \in Handlers, call[s].row \in Campaigns,
         NEW p \in {"update", "count", "complete"}, HandlerGoto(s, p),
         UNCHANGED <<cancelling, job>>, UNCHANGED faults \/ CostsFault
  PROVE  HandlersType' /\ HandlerHasRow'
<1>1. /\ [call[s] EXCEPT !.at = p] \in Handlers
      /\ [call[s] EXCEPT !.at = p].row = call[s].row
  BY HandlerMoves, p \in {"find", "update", "count", "complete"}, Zenon
<1>2. /\ call' = [call EXCEPT ![s] = [call[s] EXCEPT !.at = p]]
      /\ awaiting' = awaiting
  BY DEF HandlerGoto
<1>3. HandlersType'
  BY <1>1, <1>2 DEF TypeInv, TypeOK, HandlersType, CostsFault
<1>4. HandlerHasRow'
  BY <1>1, <1>2 DEF TypeInv, TypeOK, HandlersType, HandlerHasRow
<1> QED
  BY <1>3, <1>4

LEMMA AfterUpdateType ==
  ASSUME TypeInv, NEW s \in Slots, At(s, "update"), AfterUpdate(s),
         UNCHANGED <<cancelling, job>>, UNCHANGED faults \/ CostsFault
  PROVE  HandlersType' /\ HandlerHasRow'
<1>1. call[s] \in Handlers /\ call[s].row \in Campaigns
  BY AtHandler DEF TypeInv, HandlerHasRow
<1>2. "count" \in {"update", "count", "complete"}
  OBVIOUS
<1>3. CASE Return(s)
  BY <1>3, ReturnType
<1>4. CASE HandlerGoto(s, "count")
  BY <1>1, <1>2, <1>4, HandlerGotoType
<1> QED
  BY <1>3, <1>4 DEF AfterUpdate

LEMMA FindRowType ==
  ASSUME TypeInv, NEW s \in Slots, FindRow(s)
  PROVE  HandlersType' /\ HandlerHasRow'
<1>1. CASE Return(s)
  BY <1>1, ReturnType DEF FindRow
<1>2. ASSUME NEW c \in Campaigns,
             call' = [call EXCEPT ![s].at = "update", ![s].row = c],
             UNCHANGED awaiting
      PROVE  HandlersType' /\ HandlerHasRow'
  <2> DEFINE g == [call[s] EXCEPT !.at = "update", !.row = c]
  <2>1. call[s] \in Handlers
    BY AtHandler DEF FindRow
  <2>2. g \in Handlers /\ g.row = c
    BY <2>1, HandlerFinds
  <2>3. call' = [call EXCEPT ![s] = g]
    BY <1>2
  <2> HIDE DEF g
  <2>a. UNCHANGED <<cancelling, job, faults>>
    BY DEF FindRow, charger
  <2>b. call' \in [Slots -> Handlers \cup {Idle}]
    BY <2>2, <2>3 DEF TypeInv, TypeOK, HandlersType
  <2>4. HandlersType'
    BY <1>2, <2>a, <2>b DEF TypeInv, TypeOK, HandlersType
  <2>5. HandlerHasRow'
    BY <2>2, <2>3 DEF TypeInv, TypeOK, HandlersType, HandlerHasRow
  <2> QED
    BY <2>4, <2>5
<1>3. NewestOpen(call[s].station) \subseteq Campaigns
  BY DEF NewestOpen
<1> QED
  BY <1>1, <1>2, <1>3 DEF FindRow

LEMMA HandleType ==
  ASSUME TypeInv, NEW s \in Slots, Handle(s)
  PROVE  TypeInv'
<1>d. ASSUME UNCHANGED dispatch PROVE DispatchType' /\ LoopHasStation'
  BY <1>d DEF TypeInv, TypeOK, DispatchType, LoopHasStation, dispatch
<1>t. ASSUME UNCHANGED tables PROVE TablesType'
  BY <1>t DEF TypeInv, TypeOK, TablesType, tables
<1>1. CASE FindRow(s)
  BY <1>1, <1>d, <1>t, FindRowType DEF FindRow, TypeInv, TypeOK
<1>2. CASE UpdateRow(s)
  <2>1. /\ call[s].row \in Campaigns /\ call[s].station \in Stations
        /\ Mapped[call[s].report] \in RowStatuses
    BY <1>2, AtHandler, HandlerFields, Statuses DEF UpdateRow, TypeInv, HandlerHasRow
  <2>2. TablesType'
    BY <1>2, <2>1, SetRowType DEF UpdateRow, TypeInv, TypeOK
  <2>3. HandlersType' /\ HandlerHasRow'
    BY <1>2, AfterUpdateType DEF UpdateRow
  <2> QED
    BY <1>2, <1>d, <2>2, <2>3 DEF UpdateRow, TypeInv, TypeOK
<1>3. CASE UpdateFails(s)
  BY <1>3, <1>d, <1>t, AfterUpdateType DEF UpdateFails, TypeInv, TypeOK
<1>4. CASE CountRemaining(s)
  <2>1. call[s] \in Handlers /\ call[s].row \in Campaigns
    BY <1>4, AtHandler DEF CountRemaining, TypeInv, HandlerHasRow
  <2>2. HandlersType' /\ HandlerHasRow'
    <3>1. CASE Return(s)
      BY <1>4, <3>1, ReturnType DEF CountRemaining
    <3>2. CASE HandlerGoto(s, "complete")
      BY <1>4, <2>1, <3>2, HandlerGotoType DEF CountRemaining
    <3> QED
      BY <1>4, <3>1, <3>2 DEF CountRemaining
  <2> QED
    BY <1>4, <1>d, <1>t, <2>2 DEF CountRemaining, TypeInv, TypeOK
<1>5. CASE Complete(s)
  <2>1. TablesType'
    BY <1>5 DEF Complete, TypeInv, TypeOK, TablesType, CampaignStatuses
  <2> QED
    BY <1>5, <1>d, <2>1, ReturnType DEF Complete, TypeInv, TypeOK
<1>6. CASE QueryFails(s)
  BY <1>6, <1>d, <1>t, ReturnType DEF QueryFails, TypeInv, TypeOK
<1> QED
  BY <1>1, <1>2, <1>3, <1>4, <1>5, <1>6 DEF Handle

(* A charger begins a call: what the handler is given.                     *)
LEMMA ReportRecord ==
  ASSUME TypeInv, NEW s \in Slots, NEW w \in Stations, Report(s, w)
  PROVE  /\ call[s] = Idle /\ awaiting[w] = NoSlot
         /\ awaiting' = [awaiting EXCEPT ![w] = s]
         /\ job' \in [Stations -> {"none", "accepted"} \cup (Open \ {"sent"})]
         /\ \E h \in Handlers : /\ h.at = "find" /\ h.station = w
                                /\ call' = [call EXCEPT ![s] = h]
<1>1. PICK stage \in Stages(job[w]) :
        /\ job' = [job EXCEPT ![w] = stage[2]]
        /\ call' = [call EXCEPT ![s] =
                      [at |-> "find", station |-> w, report |-> stage[1],
                       row |-> NoCampaign]]
  BY DEF Report
<1>2. job[w] \in {"none", "accepted", "downloading", "downloaded", "installing"}
  BY DEF TypeInv, TypeOK, HandlersType, Open
<1>3. stage[1] \in Reports /\ stage[2] \in {"none", "accepted"} \cup (Open \ {"sent"})
  BY <1>2 DEF Stages, Reports, Open
<1> DEFINE h == [at |-> "find", station |-> w, report |-> stage[1], row |-> NoCampaign]
<1>4. h \in Handlers /\ h.at = "find" /\ h.station = w
  BY <1>3 DEF Handlers
<1>5. job' \in [Stations -> {"none", "accepted"} \cup (Open \ {"sent"})]
  BY <1>1, <1>3 DEF TypeInv, TypeOK, HandlersType
<1>6. call' = [call EXCEPT ![s] = h]
  BY <1>1
<1> QED
  BY <1>4, <1>5, <1>6 DEF Report

LEMMA ReportType ==
  ASSUME TypeInv, NEW s \in Slots, NEW w \in Stations, Report(s, w)
  PROVE  TypeInv'
<1>1. PICK h \in Handlers : /\ h.at = "find" /\ h.station = w
                            /\ call' = [call EXCEPT ![s] = h]
  BY ReportRecord
<1>2. HandlersType'
  BY <1>1, ReportRecord DEF Report, TypeInv, TypeOK, HandlersType
<1>3. HandlerHasRow'
  BY <1>1 DEF TypeInv, TypeOK, HandlersType, HandlerHasRow
<1>4. TablesType' /\ DispatchType' /\ LoopHasStation'
  BY DEF Report, TypeInv, TypeOK, TablesType, DispatchType, LoopHasStation, tables, dispatch
<1> QED
  BY <1>2, <1>3, <1>4 DEF TypeInv, TypeOK

LEMMA TypeStep == TypeInv /\ [Next]_vars => TypeInv'
<1> SUFFICES ASSUME TypeInv, [Next]_vars PROVE TypeInv'
  OBVIOUS
<1>1. ASSUME NEW c \in Campaigns,
             Start(c) \/ CancelRead(c) \/ CancelCommit(c) \/ CancelFails(c) \/ Dispatch(c)
      PROVE  TypeInv'
  BY <1>1, StartType, CancelType, DispatchStepType
<1>2. ASSUME NEW s \in Slots, (\E w \in Stations : Report(s, w)) \/ Handle(s)
      PROVE  TypeInv'
  BY <1>2, ReportType, HandleType
<1>3. ASSUME NEW w \in Stations, GiveUp(w) PROVE TypeInv'
  <2>1. HandlersType' /\ HandlerHasRow'
    BY <1>3 DEF GiveUp, TypeInv, TypeOK, HandlersType, HandlerHasRow, CostsFault
  <2>2. TablesType' /\ DispatchType' /\ LoopHasStation'
    BY <1>3 DEF GiveUp, TypeInv, TypeOK, TablesType, DispatchType, LoopHasStation,
                tables, dispatch
  <2> QED
    BY <2>1, <2>2 DEF TypeInv, TypeOK
<1>4. CASE Crash
  <2>1. HandlersType' /\ HandlerHasRow'
    BY <1>4 DEF Crash, TypeInv, TypeOK, HandlersType, HandlerHasRow, CostsFault
  <2>2. TablesType' /\ DispatchType' /\ LoopHasStation'
    BY <1>4 DEF Crash, TypeInv, TypeOK, TablesType, DispatchType, LoopHasStation, tables
  <2> QED
    BY <2>1, <2>2 DEF TypeInv, TypeOK
<1>5. CASE Done \/ UNCHANGED vars
  <2>1. UNCHANGED vars
    BY <1>5 DEF Done
  <2>2. TablesType' /\ DispatchType' /\ LoopHasStation'
    BY <2>1 DEF vars, TypeInv, TypeOK, TablesType, DispatchType, LoopHasStation,
                tables, dispatch
  <2>3. HandlersType' /\ HandlerHasRow'
    BY <2>1 DEF vars, TypeInv, TypeOK, HandlersType, HandlerHasRow, charger
  <2> QED
    BY <2>2, <2>3 DEF TypeInv, TypeOK
<1> QED
  BY <1>1, <1>2, <1>3, <1>4, <1>5 DEF Next

(* Tables, loops, handlers and chargers stay within their types.           *)
THEOREM TypeCorrect == Spec => []TypeOK
<1>1. TypeInv => TypeOK
  BY DEF TypeInv
<1> QED
  BY TypeInit, TypeStep, <1>1, PTL DEF Spec

------------------------------------------------------------------------------
(* Dispatch and reports.  A row is written by the loop while it is queued   *)
(* and by a handler once it is not: a handler has in hand only rows it      *)
(* found open, and no row becomes queued again.                            *)

AbsentIsEmpty ==
  \A c \in Campaigns : campaign[c] = "absent" =>
    /\ todo[c] = {} /\ current[c] = NoStation
    /\ \A w \in Stations : progress[c][w] = "none"

LoopTakesOnce == \A c \in Campaigns : current[c] \notin todo[c]

HandledIsSent ==
  \A s \in Slots :
    call[s] # Idle /\ call[s].at # "find" =>
      progress[call[s].row][call[s].station] \notin {"none", "queued"}

DispatchInv ==
  AbsentIsEmpty /\ LoopTakesOnce /\ HandledIsSent /\ DispatchCoversNoReport

LEMMA DispatchInit == Init => DispatchInv
BY DEF Init, DispatchInv, AbsentIsEmpty, LoopTakesOnce, HandledIsSent,
       DispatchCoversNoReport

(* Handlers after a step of one of them that leaves it with the row it had, *)
(* or returns.                                                              *)
HandlerKeepsRow(s) ==
  /\ \A r \in Slots \ {s} : call'[r] = call[r]
  /\ call'[s] # Idle /\ call'[s].at # "find" =>
       /\ call[s] # Idle /\ call[s].at # "find"
       /\ call'[s].row = call[s].row /\ call'[s].station = call[s].station

LEMMA ReturnKeepsRow ==
  ASSUME TypeInv, NEW s \in Slots, Return(s)
  PROVE  HandlerKeepsRow(s)
BY DEF HandlerKeepsRow, Return, TypeInv, TypeOK, HandlersType

LEMMA GotoKeepsRow ==
  ASSUME TypeInv, NEW s \in Slots, NEW p \in {"update", "count", "complete"},
         call[s] \in Handlers, call[s].at # "find", HandlerGoto(s, p)
  PROVE  /\ HandlerKeepsRow(s)
         /\ call'[s].at = p /\ call'[s] \in Handlers
         /\ call'[s].row = call[s].row /\ call'[s].station = call[s].station
         /\ UNCHANGED awaiting
<1>1. /\ [call[s] EXCEPT !.at = p] \in Handlers
      /\ [call[s] EXCEPT !.at = p].at = p
      /\ [call[s] EXCEPT !.at = p].row = call[s].row
      /\ [call[s] EXCEPT !.at = p].station = call[s].station
  BY HandlerMoves, p \in {"find", "update", "count", "complete"}, Zenon
<1>2. /\ call' = [call EXCEPT ![s] = [call[s] EXCEPT !.at = p]]
      /\ awaiting' = awaiting
  BY DEF HandlerGoto
<1>3. call[s] # Idle
  BY HandlerFields
<1>4. call'[s] = [call[s] EXCEPT !.at = p] /\ \A r \in Slots \ {s} : call'[r] = call[r]
  BY <1>2 DEF TypeInv, TypeOK, HandlersType
<1> QED
  BY <1>1, <1>2, <1>3, <1>4 DEF HandlerKeepsRow

(* A step of a handler that leaves the rows as they are.                   *)
LEMMA QuietHandlerDispatch ==
  ASSUME TypeInv, DispatchInv, NEW s \in Slots, HandlerKeepsRow(s),
         UNCHANGED <<progress, dispatch>>,
         \A c \in Campaigns : campaign'[c] = "absent" => campaign[c] = "absent"
  PROVE  DispatchInv'
<1>1. AbsentIsEmpty' /\ LoopTakesOnce' /\ DispatchCoversNoReport'
  BY DEF DispatchInv, AbsentIsEmpty, LoopTakesOnce, DispatchCoversNoReport, dispatch
<1>2. HandledIsSent'
  BY DEF DispatchInv, HandledIsSent, HandlerKeepsRow
<1> QED
  BY <1>1, <1>2 DEF DispatchInv

(* A step in which no handler and no row changes.                          *)
LEMMA QuietLoopDispatch ==
  ASSUME TypeInv, DispatchInv, UNCHANGED <<progress, call>>,
         \A c \in Campaigns :
           /\ campaign'[c] = "absent" => campaign[c] = "absent"
           /\ todo'[c] \subseteq todo[c]
           /\ current'[c] \in {current[c], NoStation} \/ current'[c] \in todo[c] \ todo'[c]
           /\ campaign'[c] = "absent" => current'[c] = NoStation
  PROVE  DispatchInv'
<1>1. NoStation \notin Stations /\ todo \in [Campaigns -> SUBSET Stations]
  BY DEF TypeInv, TypeOK, DispatchType
<1>2. AbsentIsEmpty'
  BY DEF DispatchInv, AbsentIsEmpty
<1>3. LoopTakesOnce'
  BY <1>1 DEF DispatchInv, LoopTakesOnce
<1>4. DispatchCoversNoReport'
  BY DEF DispatchInv, DispatchCoversNoReport
<1>5. HandledIsSent'
  BY DEF DispatchInv, HandledIsSent
<1> QED
  BY <1>2, <1>3, <1>4, <1>5 DEF DispatchInv

LEMMA AbsentStatus ==
  ASSUME TypeInv, NEW st \in {"running", "completed", "cancelled"}, NEW c \in Campaigns,
         campaign' = [campaign EXCEPT ![c] = st]
  PROVE  \A d \in Campaigns : campaign'[d] = "absent" => campaign[d] = "absent"
BY DEF TypeInv, TypeOK, TablesType

LEMMA StartDispatch ==
  ASSUME TypeInv, DispatchInv, NEW c \in Campaigns, Start(c)
  PROVE  DispatchInv'
<1>1. /\ campaign[c] = "absent" /\ campaign' = [campaign EXCEPT ![c] = "running"]
      /\ progress' = [progress EXCEPT ![c] =
                        [w \in Stations |-> IF w \in Matching[c] THEN "queued" ELSE "none"]]
      /\ todo' = [todo EXCEPT ![c] = Matching[c]]
      /\ UNCHANGED <<current, call>>
      /\ Matching[c] \in SUBSET Stations
  BY DEF Start
<1>2. /\ progress \in [Campaigns -> [Stations -> RowStatuses]]
      /\ campaign \in [Campaigns -> CampaignStatuses]
      /\ todo \in [Campaigns -> SUBSET Stations]
  BY DEF TypeInv, TypeOK, TablesType, DispatchType
<1>3. current[c] = NoStation
  BY <1>1 DEF DispatchInv, AbsentIsEmpty
<1>4. AbsentIsEmpty'
  BY <1>1, <1>2 DEF DispatchInv, AbsentIsEmpty
<1>5. LoopTakesOnce'
  BY <1>1, <1>2, <1>3 DEF DispatchInv, LoopTakesOnce
<1>6. DispatchCoversNoReport'
  BY <1>1, <1>2, <1>3 DEF DispatchInv, DispatchCoversNoReport
<1>7. HandledIsSent'
  <2> SUFFICES ASSUME NEW s \in Slots, call[s] # Idle, call[s].at # "find"
               PROVE  progress'[call[s].row][call[s].station] \notin {"none", "queued"}
    BY <1>1 DEF HandledIsSent
  <2>1. call[s].row \in Campaigns /\ call[s].station \in Stations
    BY HandlerFields DEF TypeInv, TypeOK, HandlersType, HandlerHasRow
  <2>2. progress[call[s].row][call[s].station] \notin {"none", "queued"}
    BY DEF DispatchInv, HandledIsSent
  <2>3. call[s].row # c
    BY <1>1, <2>1, <2>2 DEF DispatchInv, AbsentIsEmpty
  <2> QED
    BY <1>1, <1>2, <2>1, <2>2, <2>3
<1> QED
  BY <1>4, <1>5, <1>6, <1>7 DEF DispatchInv

LEMMA RecordDispatch ==
  ASSUME TypeInv, DispatchInv, NEW c \in Campaigns, RecordSent(c) \/ RecordSendError(c)
  PROVE  DispatchInv'
<1>1. PICK st \in {"sent", "send_error"} : SetRow(c, current[c], st)
  BY DEF RecordSent, RecordSendError
<1>2. /\ current[c] \in Stations /\ Loop(c) /\ UNCHANGED <<campaign, todo, call>>
      /\ current' = [current EXCEPT ![c] = NoStation]
  BY DEF RecordSent, RecordSendError, TypeInv, LoopHasStation, Loop
<1>3. /\ progress'[c][current[c]] = st
      /\ \A d \in Campaigns, v \in Stations :
           d # c \/ v # current[c] => progress'[d][v] = progress[d][v]
  BY <1>1, <1>2, Statuses, SetRowType DEF TypeInv, TypeOK
<1>4. /\ todo \in [Campaigns -> SUBSET Stations]
      /\ current \in [Campaigns -> Stations \cup {NoStation}]
  BY DEF TypeInv, TypeOK, DispatchType
<1>5. /\ \A d \in Campaigns \ {c} : current'[d] = current[d]
      /\ current'[c] = NoStation
  BY <1>2, <1>4
<1>6. campaign[c] # "absent"
  BY <1>2 DEF DispatchInv, AbsentIsEmpty
<1>7. AbsentIsEmpty'
  BY <1>2, <1>3, <1>5, <1>6 DEF DispatchInv, AbsentIsEmpty
<1>8. LoopTakesOnce'
  BY <1>2, <1>4, <1>5 DEF DispatchInv, LoopTakesOnce
<1>9. DispatchCoversNoReport'
  BY <1>2, <1>3, <1>4, <1>5 DEF DispatchInv, DispatchCoversNoReport, LoopTakesOnce
<1>10. HandledIsSent'
  <2> SUFFICES ASSUME NEW s \in Slots, call[s] # Idle, call[s].at # "find"
               PROVE  progress'[call[s].row][call[s].station] \notin {"none", "queued"}
    BY <1>2 DEF HandledIsSent
  <2>1. call[s].row \in Campaigns /\ call[s].station \in Stations
    BY HandlerFields DEF TypeInv, TypeOK, HandlersType, HandlerHasRow
  <2>2. progress[call[s].row][call[s].station] \notin {"none", "queued"}
    BY DEF DispatchInv, HandledIsSent
  <2> QED
    BY <1>3, <2>1, <2>2
<1> QED
  BY <1>7, <1>8, <1>9, <1>10 DEF DispatchInv

LEMMA LoopStepDispatch ==
  ASSUME TypeInv, DispatchInv, NEW c \in Campaigns, Dispatch(c)
  PROVE  DispatchInv'
<1>t. /\ todo \in [Campaigns -> SUBSET Stations]
      /\ current \in [Campaigns -> Stations \cup {NoStation}]
  BY DEF TypeInv, TypeOK, DispatchType
<1>1. ASSUME NEW w \in Stations, DispatchNext(c, w) PROVE DispatchInv'
  <2>1. /\ w \in todo[c]
        /\ todo' = [todo EXCEPT ![c] = todo[c] \ {w}]
        /\ current' = [current EXCEPT ![c] = w]
        /\ UNCHANGED <<campaign, progress, call>>
    BY <1>1 DEF DispatchNext, tables
  <2>2. campaign[c] # "absent"
    BY <2>1 DEF DispatchInv, AbsentIsEmpty
  <2>3. \A d \in Campaigns : campaign[d] = "absent" => current[d] = NoStation
    BY DEF DispatchInv, AbsentIsEmpty
  <2> QED
    BY <1>t, <2>1, <2>2, <2>3, QuietLoopDispatch
<1>2. CASE Deliver(c) \/ SendReturns(c) \/ SendThrows(c)
  <2>1. UNCHANGED <<campaign, progress, call, todo, current>>
    BY <1>2 DEF Deliver, SendReturns, SendThrows, tables
  <2> QED
    BY <2>1, QuietLoopDispatch DEF DispatchInv, AbsentIsEmpty
<1>3. CASE RecordSent(c) \/ RecordSendError(c)
  BY <1>3, RecordDispatch
<1>4. CASE RecordFails(c)
  <2>1. /\ UNCHANGED <<campaign, progress, call, todo>>
        /\ current' = [current EXCEPT ![c] = NoStation]
    BY <1>4 DEF RecordFails, Loop
  <2> QED
    BY <1>t, <2>1, QuietLoopDispatch DEF DispatchInv, AbsentIsEmpty
<1> QED
  BY <1>1, <1>2, <1>3, <1>4 DEF Dispatch

LEMMA AfterUpdateKeepsRow ==
  ASSUME TypeInv, NEW s \in Slots, At(s, "update"), AfterUpdate(s)
  PROVE  HandlerKeepsRow(s)
<1>1. call[s] \in Handlers /\ call[s].at # "find"
  BY AtHandler
<1> QED
  BY <1>1, ReturnKeepsRow, GotoKeepsRow DEF AfterUpdate

(* A handler takes the row it finds: an open one.                          *)
LEMMA FindRowCases ==
  ASSUME TypeInv, NEW s \in Slots, FindRow(s)
  PROVE  \/ Return(s)
         \/ \E c \in Campaigns, h \in Handlers :
              /\ progress[c][call[s].station] \in Open
              /\ h.at = "update" /\ h.row = c
              /\ h.station = call[s].station /\ h.report = call[s].report
              /\ call' = [call EXCEPT ![s] = h]
              /\ UNCHANGED awaiting
<1>1. CASE NewestOpen(call[s].station) = {}
  BY <1>1 DEF FindRow
<1>2. CASE NewestOpen(call[s].station) # {}
  <2>1. PICK c \in NewestOpen(call[s].station) :
          /\ call' = [call EXCEPT ![s].at = "update", ![s].row = c]
          /\ UNCHANGED awaiting
    BY <1>2 DEF FindRow
  <2>2. c \in Campaigns /\ progress[c][call[s].station] \in Open
    BY DEF NewestOpen
  <2> DEFINE h == [call[s] EXCEPT !.at = "update", !.row = c]
  <2>3. call[s] \in Handlers
    BY AtHandler DEF FindRow
  <2>4. /\ h \in Handlers /\ h.at = "update" /\ h.row = c
        /\ h.station = call[s].station /\ h.report = call[s].report
    BY <2>2, <2>3, HandlerFinds
  <2>5. call' = [call EXCEPT ![s] = h]
    BY <2>1
  <2> HIDE DEF h
  <2> QED
    BY <2>1, <2>2, <2>4, <2>5
<1> QED
  BY <1>1, <1>2

LEMMA HandleDispatch ==
  ASSUME TypeInv, DispatchInv, NEW s \in Slots, Handle(s)
  PROVE  DispatchInv'
<1>q. ASSUME HandlerKeepsRow(s), UNCHANGED <<tables, dispatch>> PROVE DispatchInv'
  BY <1>q, QuietHandlerDispatch DEF tables
<1>1. CASE FindRow(s)
  <2>1. UNCHANGED <<tables, dispatch>>
    BY <1>1 DEF FindRow
  <2>2. CASE Return(s)
    BY <1>q, <2>1, <2>2, ReturnKeepsRow
  <2>3. ASSUME NEW c \in Campaigns, NEW h \in Handlers,
               progress[c][call[s].station] \in Open,
               h.row = c, h.station = call[s].station,
               call' = [call EXCEPT ![s] = h]
        PROVE  DispatchInv'
    <3>1. AbsentIsEmpty' /\ LoopTakesOnce' /\ DispatchCoversNoReport'
      BY <2>1 DEF DispatchInv, AbsentIsEmpty, LoopTakesOnce, DispatchCoversNoReport,
                  dispatch, tables
    <3>2. HandledIsSent'
      BY <2>1, <2>3 DEF DispatchInv, HandledIsSent, tables, TypeInv, TypeOK, HandlersType, Open
    <3> QED
      BY <3>1, <3>2 DEF DispatchInv
  <2> QED
    BY <1>1, <2>2, <2>3, FindRowCases
<1>2. CASE UpdateRow(s)
  <2> DEFINE c == call[s].row
             w == call[s].station
             st == Mapped[call[s].report]
  <2>1. /\ call[s] \in Handlers /\ call[s] # Idle /\ call[s].at = "update"
        /\ c \in Campaigns /\ w \in Stations /\ st \in Open \cup Final
        /\ progress[c][w] \notin {"none", "queued"}
    BY <1>2, AtHandler, HandlerFields, Statuses
    DEF UpdateRow, TypeInv, HandlerHasRow, DispatchInv, HandledIsSent
  <2>2. /\ SetRow(c, w, st) /\ UNCHANGED <<campaign, todo, current>>
        /\ HandlerKeepsRow(s)
    BY <1>2, AfterUpdateKeepsRow DEF UpdateRow, dispatch
  <2> HIDE DEF c, w, st
  <2>3. /\ progress'[c][w] = st
        /\ \A d \in Campaigns, v \in Stations :
             d # c \/ v # w => progress'[d][v] = progress[d][v]
    BY <2>1, <2>2, Statuses, SetRowType DEF TypeInv, TypeOK
  <2>4. \A d \in Campaigns, v \in Stations :
          /\ progress[d][v] \in {"none", "queued"} => progress'[d][v] = progress[d][v]
          /\ progress[d][v] \notin {"none", "queued"}
               => progress'[d][v] \notin {"none", "queued"}
    BY <2>1, <2>3 DEF Open, Final
  <2>5. todo \in [Campaigns -> SUBSET Stations]
        /\ current \in [Campaigns -> Stations \cup {NoStation}]
    BY DEF TypeInv, TypeOK, DispatchType
  <2>6. AbsentIsEmpty' /\ LoopTakesOnce'
    BY <2>2, <2>4 DEF DispatchInv, AbsentIsEmpty, LoopTakesOnce
  <2>7. DispatchCoversNoReport'
    BY <2>2, <2>4, <2>5 DEF DispatchInv, DispatchCoversNoReport
  <2>8. HandledIsSent'
    <3> SUFFICES ASSUME NEW r \in Slots, call'[r] # Idle, call'[r].at # "find"
                 PROVE  progress'[call'[r].row][call'[r].station] \notin {"none", "queued"}
      BY DEF HandledIsSent
    <3>1. /\ call[r] # Idle /\ call[r].at # "find"
          /\ call'[r].row = call[r].row /\ call'[r].station = call[r].station
      BY <2>2 DEF HandlerKeepsRow
    <3>2. call[r].row \in Campaigns /\ call[r].station \in Stations
      BY <3>1, HandlerFields DEF TypeInv, TypeOK, HandlersType, HandlerHasRow
    <3> QED
      BY <2>4, <3>1, <3>2 DEF DispatchInv, HandledIsSent
  <2> QED
    BY <2>6, <2>7, <2>8 DEF DispatchInv
<1>3. CASE UpdateFails(s)
  BY <1>3, <1>q, AfterUpdateKeepsRow DEF UpdateFails
<1>4. CASE CountRemaining(s)
  <2>1. call[s] \in Handlers /\ call[s].at # "find"
    BY <1>4, AtHandler DEF CountRemaining
  <2> QED
    BY <1>4, <1>q, <2>1, ReturnKeepsRow, GotoKeepsRow DEF CountRemaining
<1>5. CASE Complete(s)
  <2>1. /\ HandlerKeepsRow(s) /\ UNCHANGED <<progress, dispatch>>
        /\ campaign' = [campaign EXCEPT ![call[s].row] = "completed"]
    BY <1>5, ReturnKeepsRow DEF Complete
  <2>2. call[s].row \in Campaigns
    BY <1>5, AtHandler DEF Complete, TypeInv, HandlerHasRow
  <2>3. \A d \in Campaigns : campaign'[d] = "absent" => campaign[d] = "absent"
    BY <2>1, <2>2, AbsentStatus
  <2> QED
    BY <2>1, <2>3, QuietHandlerDispatch
<1>6. CASE QueryFails(s)
  BY <1>6, <1>q, ReturnKeepsRow DEF QueryFails
<1> QED
  BY <1>1, <1>2, <1>3, <1>4, <1>5, <1>6 DEF Handle

LEMMA DispatchStep == TypeInv /\ DispatchInv /\ [Next]_vars => DispatchInv'
<1> SUFFICES ASSUME TypeInv, DispatchInv, [Next]_vars PROVE DispatchInv'
  OBVIOUS
<1>1. ASSUME NEW c \in Campaigns, Start(c) \/ Dispatch(c) PROVE DispatchInv'
  BY <1>1, StartDispatch, LoopStepDispatch
<1>2. ASSUME NEW c \in Campaigns, CancelRead(c) \/ CancelCommit(c) \/ CancelFails(c)
      PROVE  DispatchInv'
  <2>1. UNCHANGED <<progress, call, todo, current>>
    BY <1>2 DEF CancelRead, CancelCommit, CancelFails, tables, dispatch
  <2>2. \A d \in Campaigns : campaign'[d] = "absent" => campaign[d] = "absent"
    BY <1>2, AbsentStatus DEF CancelRead, CancelCommit, CancelFails, tables
  <2> QED
    BY <2>1, <2>2, QuietLoopDispatch DEF DispatchInv, AbsentIsEmpty
<1>3. ASSUME NEW s \in Slots, NEW w \in Stations, Report(s, w) PROVE DispatchInv'
  <2>1. PICK h \in Handlers : h.at = "find" /\ call' = [call EXCEPT ![s] = h]
    BY <1>3, ReportRecord
  <2>2. HandlerKeepsRow(s)
    BY <2>1 DEF HandlerKeepsRow, TypeInv, TypeOK, HandlersType
  <2> QED
    BY <1>3, <2>2, QuietHandlerDispatch DEF Report, tables
<1>4. ASSUME NEW s \in Slots, Handle(s) PROVE DispatchInv'
  BY <1>4, HandleDispatch
<1>5. ASSUME NEW w \in Stations, GiveUp(w) PROVE DispatchInv'
  <2>1. UNCHANGED <<progress, call, campaign, todo, current>>
    BY <1>5 DEF GiveUp, tables, dispatch
  <2> QED
    BY <2>1, QuietLoopDispatch DEF DispatchInv, AbsentIsEmpty
<1>6. CASE Crash
  <2>1. /\ \A c \in Campaigns : todo'[c] = {} /\ current'[c] = NoStation
        /\ \A s \in Slots : call'[s] = Idle
        /\ UNCHANGED <<campaign, progress>>
    BY <1>6 DEF Crash, tables
  <2>2. AbsentIsEmpty' /\ LoopTakesOnce' /\ DispatchCoversNoReport' /\ HandledIsSent'
    BY <2>1 DEF DispatchInv, AbsentIsEmpty, LoopTakesOnce, DispatchCoversNoReport,
                HandledIsSent
  <2> QED
    BY <2>2 DEF DispatchInv
<1>7. CASE Done \/ UNCHANGED vars
  <2>1. UNCHANGED <<progress, call, campaign, todo, current>>
    BY <1>7 DEF Done, vars, tables, dispatch
  <2> QED
    BY <2>1, QuietLoopDispatch DEF DispatchInv, AbsentIsEmpty
<1> QED
  BY <1>1, <1>2, <1>3, <1>4, <1>5, <1>6, <1>7 DEF Next

(* The loop of dispatchAll writes only rows that are still queued, so it    *)
(* never covers what a charger has reported, whatever fails                 *)
(* (firmwareCampaign.service.ts:126-171).                                   *)
THEOREM DispatchIsSafe == Spec => []DispatchCoversNoReport
<1>1. DispatchInv => DispatchCoversNoReport
  BY DEF DispatchInv
<1> QED
  BY TypeInit, TypeStep, DispatchInit, DispatchStep, <1>1, PTL DEF Spec

------------------------------------------------------------------------------
(* Without faults the reports of one charger are handled one after the     *)
(* other, so a row found open is still open when it is updated, and a      *)
(* campaign counted done is still done when it is completed.               *)

OneAtATime ==
  faults = 0 => \A s \in Slots : call[s] # Idle => awaiting[call[s].station] = s

FoundIsOpen ==
  faults = 0 =>
    \A s \in Slots : call[s] # Idle /\ call[s].at = "update" =>
      progress[call[s].row][call[s].station] \in Open

CountedIsDone ==
  faults = 0 =>
    \A s \in Slots : call[s] # Idle /\ call[s].at = "complete" =>
      Remaining(call[s].row) = {}

SerialInv == OneAtATime /\ FoundIsOpen /\ CountedIsDone /\ CompletedIsComplete

LEMMA SerialInit == Init => SerialInv
BY DEF Init, SerialInv, OneAtATime, FoundIsOpen, CountedIsDone, CompletedIsComplete

LEMMA FaultSerial ==
  ASSUME TypeInv, CostsFault
  PROVE  SerialInv'
<1>1. faults' # 0
  BY DEF CostsFault, TypeInv, TypeOK, HandlersType
<1> QED
  BY <1>1 DEF SerialInv, OneAtATime, FoundIsOpen, CountedIsDone, CompletedIsComplete

(* What a step may do to rows: those that ended stay, those open change     *)
(* only by the handler that holds them, and none is added to a campaign     *)
(* that was started.                                                        *)
RowsMove(s) ==
  /\ \A c \in Campaigns, w \in Stations :
       /\ progress[c][w] \in Ended => progress'[c][w] = progress[c][w]
       /\ campaign[c] # "absent" /\ progress[c][w] = "none" => progress'[c][w] = "none"
       /\ progress[c][w] \in Open =>
            \/ progress'[c][w] \in Open
            \/ s \in Slots /\ call[s] # Idle /\ awaiting[w] = s

(* A campaign with nothing remaining keeps nothing remaining.              *)
LEMMA DoneStaysDone ==
  ASSUME NEW s, RowsMove(s), NEW c \in Campaigns, campaign[c] # "absent",
         Remaining(c) = {}
  PROVE  Remaining(c)' = {}
BY DEF RowsMove, Remaining, Targets

LEMMA HandledIsStarted ==
  ASSUME TypeInv, DispatchInv, NEW s \in Slots, call[s] # Idle, call[s].at # "find"
  PROVE  /\ call[s].row \in Campaigns /\ call[s].station \in Stations
         /\ campaign[call[s].row] # "absent"
<1>1. call[s].row \in Campaigns /\ call[s].station \in Stations
  BY HandlerFields DEF TypeInv, TypeOK, HandlersType, HandlerHasRow
<1> QED
  BY <1>1 DEF DispatchInv, AbsentIsEmpty, HandledIsSent

(* What slot s has after the step; the other handlers stay as they are.    *)
HandlersMove(s) ==
  /\ \A r \in Slots \ {s} :
       /\ call'[r] = call[r]
       /\ call[r] # Idle => awaiting'[call[r].station] = r
  /\ s \in Slots /\ call'[s] # Idle =>
       /\ awaiting'[call'[s].station] = s
       /\ call'[s].at = "update" => progress'[call'[s].row][call'[s].station] \in Open
       /\ call'[s].at = "complete" =>
            \A c \in Campaigns : call'[s].row = c => Remaining(c)' = {}

LEMMA SerialKeep ==
  ASSUME TypeInv, TypeInv', DispatchInv, SerialInv, faults = 0, NEW s,
         RowsMove(s), HandlersMove(s),
         \A c \in Campaigns :
           campaign'[c] = "completed" => campaign[c] = "completed" \/ Remaining(c)' = {}
  PROVE  SerialInv'
<1>1. OneAtATime'
  BY DEF HandlersMove, OneAtATime
<1>2. FoundIsOpen'
  <2> SUFFICES ASSUME NEW r \in Slots, call'[r] # Idle, call'[r].at = "update"
               PROVE  progress'[call'[r].row][call'[r].station] \in Open
    BY DEF FoundIsOpen
  <2>1. CASE r = s
    BY <2>1 DEF HandlersMove
  <2>2. CASE r # s
    <3>1. call'[r] = call[r]
      BY <2>2 DEF HandlersMove
    <3>2. /\ call[r].row \in Campaigns /\ call[r].station \in Stations
          /\ progress[call[r].row][call[r].station] \in Open
          /\ awaiting[call[r].station] = r
      BY <3>1, HandledIsStarted DEF SerialInv, FoundIsOpen, OneAtATime
    <3> QED
      BY <2>2, <3>1, <3>2 DEF RowsMove
  <2> QED
    BY <2>1, <2>2
<1>3. ASSUME NEW c \in Campaigns, campaign[c] # "absent", Remaining(c) = {}
      PROVE  Remaining(c)' = {}
  BY <1>3, DoneStaysDone
<1>4. ASSUME NEW r \in Slots, call'[r] # Idle, call'[r].at = "complete",
             NEW c \in Campaigns, c = call'[r].row
      PROVE  Remaining(c)' = {}
  <2>1. CASE r = s
    BY <1>4, <2>1 DEF HandlersMove
  <2>2. CASE r # s
    <3>1. call'[r] = call[r]
      BY <2>2 DEF HandlersMove
    <3>2. /\ c = call[r].row /\ campaign[c] # "absent" /\ Remaining(call[r].row) = {}
      BY <1>4, <3>1, HandledIsStarted DEF SerialInv, CountedIsDone
    <3>3. Remaining(c) = {}
      BY <3>2 DEF Remaining, Targets
    <3> QED
      BY <1>3, <3>2, <3>3
  <2> QED
    BY <2>1, <2>2
<1>5. CountedIsDone'
  <2> SUFFICES ASSUME NEW r \in Slots, call'[r] # Idle, call'[r].at = "complete"
               PROVE  (Remaining(call[r].row) = {})'
    BY DEF CountedIsDone
  <2>1. call'[r].row \in Campaigns
    BY DEF TypeInv, HandlerHasRow
  <2>2. PICK c \in Campaigns : c = call'[r].row
    BY <2>1
  <2>3. Remaining(c)' = {}
    BY <1>4, <2>2
  <2> QED
    BY <2>2, <2>3 DEF Remaining, Targets
<1>6. CompletedIsComplete'
  <2> SUFFICES ASSUME NEW c \in Campaigns, campaign'[c] = "completed"
               PROVE  Remaining(c)' = {}
    BY DEF CompletedIsComplete
  <2>1. CASE campaign[c] = "completed"
    <3>1. Remaining(c) = {} /\ campaign[c] # "absent"
      BY <2>1 DEF SerialInv, CompletedIsComplete
    <3> QED
      BY <1>3, <3>1
  <2> QED
    BY <2>1
<1> QED
  BY <1>1, <1>2, <1>5, <1>6 DEF SerialInv

(* A step of the service: no handler moves and no open row is written.      *)
LEMMA ServiceSerial ==
  ASSUME TypeInv, TypeInv', DispatchInv, SerialInv, faults = 0,
         UNCHANGED <<call, awaiting>>,
         \A c \in Campaigns : campaign'[c] = "completed" => campaign[c] = "completed",
         \A c \in Campaigns, w \in Stations :
           progress'[c][w] # progress[c][w] =>
             progress[c][w] = "queued" \/ (campaign[c] = "absent" /\ progress[c][w] = "none")
  PROVE  SerialInv' /\ RowsMove(NoSlot)
<1>1. NoSlot \notin Slots
  OBVIOUS
<1>2. RowsMove(NoSlot)
  BY DEF RowsMove, Ended, Final, Open
<1>3. HandlersMove(NoSlot)
  BY <1>1 DEF HandlersMove, SerialInv, OneAtATime
<1> QED
  BY <1>2, <1>3, SerialKeep

LEMMA LoopSerial ==
  ASSUME TypeInv, TypeInv', DispatchInv, SerialInv, faults = 0, faults' = 0,
         NEW c \in Campaigns, Start(c) \/ Dispatch(c)
  PROVE  SerialInv' /\ RowsMove(NoSlot)
<1>0. ~CostsFault
  BY DEF CostsFault
<1>1. CASE Start(c)
  <2>1. /\ \A d \in Campaigns : campaign'[d] = "completed" => campaign[d] = "completed"
        /\ UNCHANGED <<call, awaiting>>
    BY <1>1 DEF Start, TypeInv, TypeOK, TablesType, charger
  <2>2. \A d \in Campaigns, w \in Stations :
          progress'[d][w] # progress[d][w] =>
            campaign[d] = "absent" /\ progress[d][w] = "none"
    BY <1>1 DEF Start, TypeInv, TypeOK, TablesType, DispatchInv, AbsentIsEmpty
  <2> QED
    BY <2>1, <2>2, ServiceSerial
<1>2. CASE RecordSent(c) \/ RecordSendError(c)
  <2>1. PICK st \in {"sent", "send_error"} : SetRow(c, current[c], st)
    BY <1>2 DEF RecordSent, RecordSendError
  <2>2. current[c] \in Stations /\ UNCHANGED <<campaign, call, awaiting>>
    BY <1>2 DEF RecordSent, RecordSendError, TypeInv, LoopHasStation, Loop, charger
  <2>3. progress[c][current[c]] = "queued"
    BY <2>2 DEF DispatchInv, DispatchCoversNoReport
  <2>4. \A d \in Campaigns, v \in Stations :
          d # c \/ v # current[c] => progress'[d][v] = progress[d][v]
    BY <2>1, <2>2, Statuses, SetRowType DEF TypeInv, TypeOK
  <2>5. \A d \in Campaigns, v \in Stations :
          progress'[d][v] # progress[d][v] => progress[d][v] = "queued"
    BY <2>3, <2>4
  <2>6. \A d \in Campaigns : campaign'[d] = "completed" => campaign[d] = "completed"
    BY <2>2
  <2> QED
    BY <2>2, <2>5, <2>6, ServiceSerial
<1>3. CASE (\E w \in Stations : DispatchNext(c, w)) \/ Deliver(c) \/ SendReturns(c)
           \/ SendThrows(c)
  <2>1. UNCHANGED <<campaign, progress, call, awaiting>>
    BY <1>3 DEF DispatchNext, Deliver, SendReturns, SendThrows, tables, charger
  <2> QED
    BY <2>1, ServiceSerial
<1> QED
  BY <1>0, <1>1, <1>2, <1>3 DEF Dispatch, RecordFails

(* Handlers do not take each other's place.                                *)
LEMMA OthersAwait ==
  ASSUME TypeInv, SerialInv, faults = 0, NEW s \in Slots,
         \A r \in Slots \ {s} : call'[r] = call[r],
         \/ UNCHANGED awaiting
         \/ awaiting' = [w \in Stations |-> IF awaiting[w] = s THEN NoSlot ELSE awaiting[w]]
  PROVE  \A r \in Slots \ {s} :
           call'[r] = call[r] /\ (call[r] # Idle => awaiting'[call[r].station] = r)
<1>1. \A r \in Slots : call[r] # Idle =>
        call[r].station \in Stations /\ awaiting[call[r].station] = r
  BY HandlerFields DEF TypeInv, TypeOK, HandlersType, SerialInv, OneAtATime
<1> QED
  BY <1>1

LEMMA ReturnMoves ==
  ASSUME TypeInv, SerialInv, faults = 0, NEW s \in Slots, Return(s)
  PROVE  HandlersMove(s)
<1>1. call'[s] = Idle /\ \A r \in Slots \ {s} : call'[r] = call[r]
  BY DEF Return, TypeInv, TypeOK, HandlersType
<1> QED
  BY <1>1, OthersAwait DEF Return, HandlersMove

LEMMA UpdateRowMoves ==
  ASSUME TypeInv, DispatchInv, SerialInv, faults = 0, NEW s \in Slots, UpdateRow(s)
  PROVE  RowsMove(s) /\ HandlersMove(s)
<1> DEFINE c == call[s].row
           w == call[s].station
           st == Mapped[call[s].report]
<1>1. /\ call[s] \in Handlers /\ call[s] # Idle /\ call[s].at = "update"
      /\ c \in Campaigns /\ w \in Stations /\ st \in Open \cup Final
      /\ progress[c][w] \in Open /\ awaiting[w] = s
  BY AtHandler, HandlerFields, Statuses
  DEF UpdateRow, TypeInv, HandlerHasRow, SerialInv, FoundIsOpen, OneAtATime
<1>2. SetRow(c, w, st) /\ UNCHANGED campaign
  BY DEF UpdateRow
<1>3. HandlersMove(s)
  <2>1. CASE Return(s)
    BY <2>1, ReturnMoves
  <2>2. CASE HandlerGoto(s, "count")
    <3>1. /\ call'[s].at = "count" /\ call'[s].station = w /\ UNCHANGED awaiting
          /\ \A r \in Slots \ {s} : call'[r] = call[r]
      BY <1>1, <2>2, GotoKeepsRow DEF HandlerKeepsRow
    <3> QED
      BY <1>1, <3>1, OthersAwait DEF HandlersMove
  <2> QED
    BY <2>1, <2>2 DEF UpdateRow, AfterUpdate
<1> HIDE DEF c, w, st
<1>4. /\ progress'[c][w] = st
      /\ \A d \in Campaigns, v \in Stations :
           d # c \/ v # w => progress'[d][v] = progress[d][v]
  BY <1>1, <1>2, Statuses, SetRowType DEF TypeInv, TypeOK
<1>5. progress[c][w] \notin Ended /\ progress[c][w] # "none"
  BY <1>1 DEF Open, Ended, Final
<1>6. RowsMove(s)
  BY <1>1, <1>4, <1>5 DEF RowsMove
<1> QED
  BY <1>3, <1>6

(* A step of a handler that writes no row.                                 *)
LEMMA QuietHandlerSerial ==
  ASSUME TypeInv, TypeInv', DispatchInv, SerialInv, faults = 0, NEW s \in Slots,
         HandlersMove(s), UNCHANGED progress,
         \A c \in Campaigns :
           campaign'[c] = "completed" => campaign[c] = "completed" \/ Remaining(c)' = {}
  PROVE  SerialInv' /\ RowsMove(s)
<1>1. RowsMove(s)
  BY DEF RowsMove
<1> QED
  BY <1>1, SerialKeep

LEMMA HandleSerial ==
  ASSUME TypeInv, TypeInv', DispatchInv, SerialInv, faults = 0, faults' = 0,
         NEW s \in Slots, Handle(s)
  PROVE  SerialInv' /\ RowsMove(s)
<1>0. ~CostsFault
  BY DEF CostsFault
<1>1. CASE FindRow(s)
  <2>1. UNCHANGED <<campaign, progress>> /\ call[s] \in Handlers /\ call[s] # Idle
    BY <1>1, AtHandler DEF FindRow, tables
  <2>2. ASSUME NEW c \in Campaigns, NEW h \in Handlers,
               progress[c][call[s].station] \in Open, h.at = "update", h.row = c,
               h.station = call[s].station, call' = [call EXCEPT ![s] = h],
               UNCHANGED awaiting
        PROVE  HandlersMove(s)
    <3>1. call'[s] = h /\ \A r \in Slots \ {s} : call'[r] = call[r]
      BY <2>2 DEF TypeInv, TypeOK, HandlersType
    <3>2. awaiting'[call'[s].station] = s
      BY <2>1, <2>2, <3>1 DEF SerialInv, OneAtATime
    <3> QED
      BY <2>1, <2>2, <3>1, <3>2, OthersAwait DEF HandlersMove
  <2>3. HandlersMove(s)
    BY <1>1, <2>2, ReturnMoves, FindRowCases
  <2> QED
    BY <2>1, <2>3, QuietHandlerSerial
<1>2. CASE UpdateRow(s)
  <2>1. \A c \in Campaigns : campaign'[c] = "completed" => campaign[c] = "completed"
    BY <1>2 DEF UpdateRow
  <2> QED
    BY <1>2, <2>1, UpdateRowMoves, SerialKeep
<1>3. CASE CountRemaining(s)
  <2>1. /\ UNCHANGED <<campaign, progress>> /\ call[s] \in Handlers /\ call[s] # Idle
        /\ call[s].at = "count" /\ call[s].row \in Campaigns
    BY <1>3, AtHandler DEF CountRemaining, tables, TypeInv, HandlerHasRow
  <2>2. CASE Return(s)
    BY <2>1, <2>2, ReturnMoves, QuietHandlerSerial
  <2>3. CASE Remaining(call[s].row) = {} /\ HandlerGoto(s, "complete")
    <3>1. /\ call'[s].at = "complete" /\ call'[s].row = call[s].row
          /\ call'[s].station = call[s].station /\ UNCHANGED awaiting
          /\ \A r \in Slots \ {s} : call'[r] = call[r]
      BY <2>1, <2>3, GotoKeepsRow DEF HandlerKeepsRow
    <3>2. awaiting'[call'[s].station] = s
      BY <2>1, <3>1 DEF SerialInv, OneAtATime
    <3>3. \A c \in Campaigns : call'[s].row = c => Remaining(c)' = {}
      BY <2>1, <2>3, <3>1 DEF Remaining, Targets
    <3>4. HandlersMove(s)
      BY <3>1, <3>2, <3>3, OthersAwait DEF HandlersMove
    <3> QED
      BY <2>1, <3>4, QuietHandlerSerial
  <2> QED
    BY <1>3, <2>2, <2>3 DEF CountRemaining
<1>4. CASE Complete(s)
  <2>1. /\ call[s] # Idle /\ call[s].at = "complete" /\ call[s].row \in Campaigns
        /\ campaign' = [campaign EXCEPT ![call[s].row] = "completed"]
        /\ UNCHANGED progress /\ Return(s)
    BY <1>4, AtHandler DEF Complete, TypeInv, HandlerHasRow
  <2>2. \A c \in Campaigns \ {call[s].row} : campaign'[c] = campaign[c]
    BY <2>1 DEF TypeInv, TypeOK, TablesType
  <2>3. \A c \in Campaigns : c = call[s].row => Remaining(c)' = {}
    BY <2>1 DEF SerialInv, CountedIsDone, Remaining, Targets
  <2> QED
    BY <2>1, <2>2, <2>3, ReturnMoves, QuietHandlerSerial
<1> QED
  BY <1>0, <1>1, <1>2, <1>3, <1>4 DEF Handle, UpdateFails, QueryFails

LEMMA FaultsStep == [Next]_vars => UNCHANGED faults \/ CostsFault
<1>1. ASSUME NEW c \in Campaigns,
             Start(c) \/ CancelRead(c) \/ CancelCommit(c) \/ CancelFails(c)
      PROVE  UNCHANGED faults \/ CostsFault
  BY <1>1 DEF Start, CancelRead, CancelCommit, CancelFails
<1>2. ASSUME NEW c \in Campaigns, Dispatch(c) PROVE UNCHANGED faults \/ CostsFault
  BY <1>2 DEF Dispatch, DispatchNext, Deliver, SendReturns, SendThrows, RecordSent,
              RecordSendError, RecordFails
<1>3. ASSUME NEW s \in Slots, (\E w \in Stations : Report(s, w)) \/ Handle(s)
      PROVE  UNCHANGED faults \/ CostsFault
  BY <1>3 DEF Report, Handle, FindRow, UpdateRow, UpdateFails, CountRemaining, Complete,
              QueryFails
<1> QED
  BY <1>1, <1>2, <1>3 DEF Next, GiveUp, Crash, Done, vars

LEMMA SerialStep ==
  TypeInv /\ DispatchInv /\ SerialInv /\ [Next]_vars =>
    /\ SerialInv'
    /\ faults' = 0 => \E s : RowsMove(s)
<1> SUFFICES ASSUME TypeInv, DispatchInv, SerialInv, [Next]_vars
             PROVE  SerialInv' /\ (faults' = 0 => \E s : RowsMove(s))
  OBVIOUS
<1>t. TypeInv'
  BY TypeStep
<1>0. CASE faults' # 0
  BY <1>0 DEF SerialInv, OneAtATime, FoundIsOpen, CountedIsDone, CompletedIsComplete
<1>n. CASE faults' = 0
  <2>0. faults = 0 /\ ~CostsFault
    BY <1>n, FaultsStep DEF CostsFault, TypeInv, TypeOK, HandlersType
  <2>1. ASSUME NEW c \in Campaigns, Start(c) \/ Dispatch(c)
        PROVE  SerialInv' /\ RowsMove(NoSlot)
    BY <1>t, <1>n, <2>0, <2>1, LoopSerial
  <2>2. ASSUME NEW c \in Campaigns, CancelRead(c) \/ CancelCommit(c)
        PROVE  SerialInv' /\ RowsMove(NoSlot)
    <3>1. UNCHANGED <<progress, call, awaiting>>
      BY <2>2 DEF CancelRead, CancelCommit, tables, charger
    <3>2. \A d \in Campaigns : campaign'[d] = "completed" => campaign[d] = "completed"
      BY <2>2 DEF CancelRead, CancelCommit, tables, TypeInv, TypeOK, TablesType
    <3> QED
      BY <1>t, <2>0, <3>1, <3>2, ServiceSerial
  <2>3. ASSUME NEW s \in Slots, NEW w \in Stations, Report(s, w)
        PROVE  SerialInv' /\ RowsMove(s)
    <3>1. PICK h \in Handlers : /\ h.at = "find" /\ h.station = w
                                /\ call' = [call EXCEPT ![s] = h]
      BY <2>3, ReportRecord
    <3>2. /\ call'[s] = h /\ \A r \in Slots \ {s} : call'[r] = call[r]
          /\ UNCHANGED <<campaign, progress>>
      BY <2>3, <3>1 DEF Report, tables, TypeInv, TypeOK, HandlersType
    <3>3. awaiting[w] = NoSlot /\ awaiting' = [awaiting EXCEPT ![w] = s]
      BY <2>3, ReportRecord
    <3>4. \A r \in Slots : call[r] # Idle =>
            /\ call[r].station \in Stations /\ awaiting[call[r].station] = r
            /\ call[r].station # w
      BY <2>0, <3>3, HandlerFields
      DEF TypeInv, TypeOK, HandlersType, SerialInv, OneAtATime
    <3>5. HandlersMove(s)
      BY <3>1, <3>2, <3>3, <3>4 DEF HandlersMove, TypeInv, TypeOK, HandlersType
    <3> QED
      BY <1>t, <2>0, <3>2, <3>5, QuietHandlerSerial
  <2>4. ASSUME NEW s \in Slots, Handle(s) PROVE SerialInv' /\ RowsMove(s)
    BY <1>t, <1>n, <2>0, <2>4, HandleSerial
  <2>5. CASE Done \/ UNCHANGED vars
    <3>1. UNCHANGED <<campaign, progress, call, awaiting>>
      BY <2>5 DEF Done, vars, tables, charger
    <3>2. SerialInv' /\ RowsMove(NoSlot)
      BY <1>t, <2>0, <3>1, ServiceSerial
    <3> QED
      BY <3>2
  <2> QED
    BY <2>0, <2>1, <2>2, <2>3, <2>4, <2>5 DEF Next, CancelFails, GiveUp, Crash
<1> QED
  BY <1>0, <1>n

(* A completed campaign has no charger left to finish, unless the reports   *)
(* of one charger overlap (firmwareStatusNotification.handler.ts:129-151).  *)
THEOREM CompletionIsReal == Spec => []CompletedIsComplete
<1>1. SerialInv => CompletedIsComplete
  BY DEF SerialInv
<1> QED
  BY TypeInit, TypeStep, DispatchInit, DispatchStep, SerialInit, SerialStep, <1>1,
     PTL DEF Spec

(* Nothing reopens or changes a row that ended: neither the loop of a later *)
(* campaign nor a handler that found the row before.                        *)
THEOREM EndsAreFinal == Spec => EndedIsFinal
<1>1. TypeInv /\ DispatchInv /\ SerialInv /\ [Next]_vars =>
        [\A c \in Campaigns, w \in Stations :
           progress[c][w] \in Ended /\ faults' = 0
             => progress'[c][w] = progress[c][w]]_vars
  BY SerialStep DEF RowsMove
<1> QED
  BY TypeInit, TypeStep, DispatchInit, DispatchStep, SerialInit, SerialStep, <1>1,
     PTL DEF Spec, EndedIsFinal

------------------------------------------------------------------------------
(* The last report completes the campaign: while nothing has failed, a     *)
(* running campaign whose rows all ended well or badly is in the hands of   *)
(* a handler that has still to count its rows or to complete it.           *)

Counts(s, c) ==
  call[s] # Idle /\ call[s].at \in {"count", "complete"} /\ call[s].row = c

AllReported(c) ==
  campaign[c] = "running" /\ \A w \in Targets(c) : progress[c][w] \in Final

LastCounts ==
  faults = 0 =>
    \A c \in Campaigns : AllReported(c) => \E s \in Slots : Counts(s, c)

LEMMA LastInit == Init => LastCounts
BY DEF Init, LastCounts, AllReported

(* It is kept by a step that reports the last row of no campaign, or does   *)
(* so in a handler that goes on to count, and takes no counter away.       *)
LEMMA LastKeep ==
  ASSUME LastCounts, faults = 0,
         \A c \in Campaigns :
           AllReported(c)' =>
             \/ \E s \in Slots : Counts(s, c)'
             \/ AllReported(c) /\ \A s \in Slots : Counts(s, c) => Counts(s, c)'
  PROVE  LastCounts'
<1> SUFFICES ASSUME NEW c \in Campaigns, AllReported(c)'
             PROVE  \E s \in Slots : Counts(s, c)'
  BY DEF LastCounts
<1>1. CASE \E s \in Slots : Counts(s, c)'
  BY <1>1
<1>2. CASE AllReported(c) /\ \A s \in Slots : Counts(s, c) => Counts(s, c)'
  BY <1>2 DEF LastCounts
<1> QED
  BY <1>1, <1>2

(* A row written with a status that is not final is in the campaign's way.  *)
LEMMA PendingRow ==
  ASSUME NEW c \in Campaigns, NEW w \in Stations, progress'[c][w] \notin Final,
         progress'[c][w] # "none"
  PROVE  ~AllReported(c)'
BY DEF AllReported, Targets

(* A step that only makes running campaigns start or stop.                 *)
LEMMA QuietRows ==
  ASSUME LastCounts, faults = 0, UNCHANGED <<progress, call>>,
         \A c \in Campaigns : campaign'[c] = "running" => campaign[c] = "running"
  PROVE  LastCounts'
<1>1. \A c \in Campaigns : AllReported(c)' => AllReported(c)
  BY DEF AllReported, Targets
<1>2. \A c \in Campaigns, s \in Slots : Counts(s, c) => Counts(s, c)'
  BY DEF Counts
<1> QED
  BY <1>1, <1>2, LastKeep

LEMMA LoopLast ==
  ASSUME TypeInv, DispatchInv, LastCounts, faults = 0, faults' = 0,
         NEW c \in Campaigns, Start(c) \/ Dispatch(c)
  PROVE  LastCounts'
<1>0. ~CostsFault
  BY DEF CostsFault
<1>1. CASE Start(c)
  <2>1. PICK w \in Stations : w \in Matching[c]
    BY <1>1 DEF Start
  <2>2. progress'[c][w] = "queued"
    BY <1>1, <2>1 DEF Start, TypeInv, TypeOK, TablesType
  <2>3. ~AllReported(c)'
    BY <2>2, PendingRow DEF Final
  <2>4. /\ UNCHANGED call
        /\ \A d \in Campaigns \ {c} : campaign'[d] = campaign[d] /\ progress'[d] = progress[d]
    BY <1>1 DEF Start, TypeInv, TypeOK, TablesType
  <2>5. \A d \in Campaigns : AllReported(d)' => AllReported(d)
    BY <2>3, <2>4 DEF AllReported, Targets
  <2>6. \A d \in Campaigns, s \in Slots : Counts(s, d) => Counts(s, d)'
    BY <2>4 DEF Counts
  <2> QED
    BY <2>5, <2>6, LastKeep
<1>2. CASE RecordSent(c) \/ RecordSendError(c)
  <2>1. PICK st \in {"sent", "send_error"} : SetRow(c, current[c], st)
    BY <1>2 DEF RecordSent, RecordSendError
  <2>2. current[c] \in Stations /\ UNCHANGED <<campaign, call>>
    BY <1>2 DEF RecordSent, RecordSendError, TypeInv, LoopHasStation, Loop
  <2>3. /\ progress'[c][current[c]] = st
        /\ \A d \in Campaigns, v \in Stations :
             d # c \/ v # current[c] => progress'[d][v] = progress[d][v]
    BY <2>1, <2>2, Statuses, SetRowType DEF TypeInv, TypeOK
  <2>4. ~AllReported(c)'
    BY <2>2, <2>3, PendingRow DEF Final
  <2>5. \A d \in Campaigns : AllReported(d)' => AllReported(d)
    BY <2>2, <2>3, <2>4 DEF AllReported, Targets
  <2>6. \A d \in Campaigns, s \in Slots : Counts(s, d) => Counts(s, d)'
    BY <2>2 DEF Counts
  <2> QED
    BY <2>5, <2>6, LastKeep
<1>3. CASE (\E w \in Stations : DispatchNext(c, w)) \/ Deliver(c) \/ SendReturns(c)
           \/ SendThrows(c)
  <2>1. UNCHANGED <<campaign, progress, call>>
    BY <1>3 DEF DispatchNext, Deliver, SendReturns, SendThrows, tables
  <2> QED
    BY <2>1, QuietRows
<1> QED
  BY <1>0, <1>1, <1>2, <1>3 DEF Dispatch, RecordFails

(* A step of a handler that was not counting, and writes no row.           *)
LEMMA NoCounterMoves ==
  ASSUME LastCounts, faults = 0, NEW s \in Slots,
         call[s] = Idle \/ call[s].at \in {"find", "update"},
         \A r \in Slots \ {s} : call'[r] = call[r],
         UNCHANGED <<campaign, progress>>
  PROVE  LastCounts'
<1>1. \A c \in Campaigns : AllReported(c)' => AllReported(c)
  BY DEF AllReported, Targets
<1>2. \A c \in Campaigns, r \in Slots : Counts(r, c) => Counts(r, c)'
  BY DEF Counts
<1> QED
  BY <1>1, <1>2, LastKeep

LEMMA UpdateRowLast ==
  ASSUME TypeInv, LastCounts, faults = 0, NEW s \in Slots, UpdateRow(s)
  PROVE  LastCounts'
<1>1. /\ call[s] \in Handlers /\ call[s] # Idle /\ call[s].at = "update"
      /\ call[s].row \in Campaigns /\ call[s].station \in Stations
      /\ Mapped[call[s].report] \in Open \cup Final
  BY AtHandler, HandlerFields, Statuses DEF UpdateRow, TypeInv, HandlerHasRow
<1>2. PICK c \in Campaigns, w \in Stations, st \in Open \cup Final :
        c = call[s].row /\ w = call[s].station /\ st = Mapped[call[s].report]
  BY <1>1
<1>3. SetRow(c, w, st) /\ AfterUpdate(s) /\ UNCHANGED campaign
  BY <1>2 DEF UpdateRow
<1>4. /\ progress'[c][w] = st
      /\ \A d \in Campaigns, v \in Stations :
           d # c \/ v # w => progress'[d][v] = progress[d][v]
  BY <1>3, Statuses, SetRowType DEF TypeInv, TypeOK
<1>5. \A d \in Campaigns \ {c} : AllReported(d)' => AllReported(d)
  BY <1>3, <1>4 DEF AllReported, Targets
<1>6. \A r \in Slots \ {s} : call'[r] = call[r]
  BY <1>3, <1>1, AfterUpdateKeepsRow DEF HandlerKeepsRow, At
<1>7. \A d \in Campaigns, r \in Slots : Counts(r, d) => Counts(r, d)'
  BY <1>1, <1>6 DEF Counts
<1>8. CASE st \in Final
  <2>1. HandlerGoto(s, "count")
    BY <1>2, <1>3, <1>8 DEF AfterUpdate
  <2>2. call'[s].at = "count" /\ call'[s].row = c /\ call'[s] \in Handlers
    BY <1>1, <1>2, <2>1, GotoKeepsRow
  <2>3. Counts(s, c)'
    BY <2>2, HandlerFields DEF Counts
  <2> QED
    BY <1>5, <1>7, <2>3, LastKeep
<1>9. CASE st \notin Final
  <2>1. st # "none"
    BY DEF Open, Final
  <2>2. ~AllReported(c)'
    BY <1>4, <1>9, <2>1, PendingRow
  <2> QED
    BY <1>5, <1>7, <2>2, LastKeep
<1> QED
  BY <1>8, <1>9

LEMMA CountLast ==
  ASSUME TypeInv, LastCounts, faults = 0, NEW s \in Slots, CountRemaining(s)
  PROVE  LastCounts'
<1>1. /\ UNCHANGED <<campaign, progress>> /\ call[s] \in Handlers /\ call[s] # Idle
      /\ call[s].at = "count" /\ call[s].row \in Campaigns
  BY AtHandler DEF CountRemaining, tables, TypeInv, HandlerHasRow
<1>2. \A d \in Campaigns : AllReported(d)' => AllReported(d)
  BY <1>1 DEF AllReported, Targets
<1>3. CASE Remaining(call[s].row) = {} /\ HandlerGoto(s, "complete")
  <2>1. /\ call'[s].at = "complete" /\ call'[s].row = call[s].row /\ call'[s] \in Handlers
        /\ \A r \in Slots \ {s} : call'[r] = call[r]
    BY <1>1, <1>3, GotoKeepsRow DEF HandlerKeepsRow
  <2>2. \A d \in Campaigns, r \in Slots : Counts(r, d) => Counts(r, d)'
    BY <2>1, HandlerFields DEF Counts
  <2> QED
    BY <1>2, <2>2, LastKeep
<1>4. CASE Remaining(call[s].row) # {} /\ Return(s)
  <2>1. PICK c \in Campaigns : c = call[s].row
    BY <1>1
  <2>2. PICK w \in Stations : w \in Targets(c) /\ progress[c][w] \notin Ended
    BY <1>4, <2>1 DEF Remaining, Targets
  <2>3. ~AllReported(c)
    BY <2>2 DEF AllReported, Ended
  <2>4. \A r \in Slots \ {s} : call'[r] = call[r]
    BY <1>4, ReturnKeepsRow DEF HandlerKeepsRow
  <2>5. \A d \in Campaigns \ {c}, r \in Slots : Counts(r, d) => Counts(r, d)'
    BY <2>1, <2>4 DEF Counts
  <2> QED
    BY <1>2, <2>3, <2>5, LastKeep
<1> QED
  BY <1>3, <1>4 DEF CountRemaining

LEMMA CompleteLast ==
  ASSUME TypeInv, LastCounts, faults = 0, NEW s \in Slots, Complete(s)
  PROVE  LastCounts'
<1>1. PICK c \in Campaigns : c = call[s].row
  BY AtHandler DEF Complete, TypeInv, HandlerHasRow
<1>2. /\ campaign'[c] = "completed" /\ UNCHANGED progress
      /\ \A d \in Campaigns \ {c} : campaign'[d] = campaign[d]
  BY <1>1 DEF Complete, TypeInv, TypeOK, TablesType
<1>3. \A r \in Slots \ {s} : call'[r] = call[r]
  BY ReturnKeepsRow DEF Complete, HandlerKeepsRow
<1>4. /\ ~AllReported(c)'
      /\ \A d \in Campaigns \ {c} : AllReported(d)' => AllReported(d)
  BY <1>2 DEF AllReported, Targets
<1>5. \A d \in Campaigns \ {c}, r \in Slots : Counts(r, d) => Counts(r, d)'
  BY <1>1, <1>3 DEF Counts
<1> QED
  BY <1>4, <1>5, LastKeep

LEMMA HandleLast ==
  ASSUME TypeInv, LastCounts, faults = 0, faults' = 0, NEW s \in Slots, Handle(s)
  PROVE  LastCounts'
<1>0. ~CostsFault
  BY DEF CostsFault
<1>1. CASE FindRow(s)
  <2>1. /\ call[s].at = "find" /\ UNCHANGED <<campaign, progress>>
        /\ \A r \in Slots \ {s} : call'[r] = call[r]
    BY <1>1, AtHandler, FindRowCases
    DEF FindRow, tables, Return, TypeInv, TypeOK, HandlersType
  <2> QED
    BY <2>1, NoCounterMoves
<1> QED
  BY <1>0, <1>1, UpdateRowLast, CountLast, CompleteLast DEF Handle, UpdateFails, QueryFails

LEMMA LastStep ==
  TypeInv /\ DispatchInv /\ LastCounts /\ [Next]_vars => LastCounts'
<1> SUFFICES ASSUME TypeInv, DispatchInv, LastCounts, [Next]_vars PROVE LastCounts'
  OBVIOUS
<1>0. CASE faults' # 0
  BY <1>0 DEF LastCounts
<1>n. CASE faults' = 0
  <2>0. faults = 0 /\ ~CostsFault
    BY <1>n, FaultsStep DEF CostsFault, TypeInv, TypeOK, HandlersType
  <2>1. ASSUME NEW c \in Campaigns, Start(c) \/ Dispatch(c) PROVE LastCounts'
    BY <1>n, <2>0, <2>1, LoopLast
  <2>2. ASSUME NEW c \in Campaigns, CancelRead(c) \/ CancelCommit(c) PROVE LastCounts'
    <3>1. UNCHANGED <<progress, call>>
      BY <2>2 DEF CancelRead, CancelCommit, tables
    <3>2. \A d \in Campaigns : campaign'[d] = "running" => campaign[d] = "running"
      BY <2>2 DEF CancelRead, CancelCommit, tables, TypeInv, TypeOK, TablesType
    <3> QED
      BY <2>0, <3>1, <3>2, QuietRows
  <2>3. ASSUME NEW s \in Slots, NEW w \in Stations, Report(s, w) PROVE LastCounts'
    <3>1. PICK h \in Handlers : /\ h.at = "find" /\ h.station = w
                                /\ call' = [call EXCEPT ![s] = h]
      BY <2>3, ReportRecord
    <3>2. /\ call[s] = Idle /\ UNCHANGED <<campaign, progress>>
          /\ \A r \in Slots \ {s} : call'[r] = call[r]
      BY <2>3, <3>1 DEF Report, tables, TypeInv, TypeOK, HandlersType
    <3> QED
      BY <2>0, <3>2, NoCounterMoves
  <2>4. ASSUME NEW s \in Slots, Handle(s) PROVE LastCounts'
    BY <1>n, <2>0, <2>4, HandleLast
  <2>5. CASE Done \/ UNCHANGED vars
    <3>1. UNCHANGED <<campaign, progress, call>>
      BY <2>5 DEF Done, vars, tables
    <3> QED
      BY <2>0, <3>1, QuietRows
  <2> QED
    BY <2>0, <2>1, <2>2, <2>3, <2>4, <2>5 DEF Next, CancelFails, GiveUp, Crash
<1> QED
  BY <1>0, <1>n

(* Once every charger of a running campaign has reported the end and no     *)
(* handler is left, the campaign is completed: whichever of them overlap,   *)
(* the last to update its row still has to count, and counts zero           *)
(* (firmwareStatusNotification.handler.ts:129-151).                         *)
THEOREM LastReportCloses == Spec => []LastReportCompletes
<1>1. LastCounts => LastReportCompletes
  BY DEF LastCounts, AllReported, Counts, LastReportCompletes, Quiet
<1> QED
  BY TypeInit, TypeStep, DispatchInit, DispatchStep, LastInit, LastStep, <1>1,
     PTL DEF Spec
==============================================================================
