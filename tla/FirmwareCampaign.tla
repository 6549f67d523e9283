--------------------------- MODULE FirmwareCampaign ---------------------------
(***************************************************************************)
(* Firmware campaigns: services/firmwareCampaign.service.ts, which starts  *)
(* them, sends UpdateFirmware to one charger after the other and cancels   *)
(* them, and the handler of FirmwareStatusNotification, which moves the    *)
(* row of a charger on and completes the campaign.  The two share the      *)
(* table firmware_campaign_progress and nothing orders them.               *)
(***************************************************************************)
EXTENDS Naturals

CONSTANTS
  Campaigns,  \* campaigns ever started: bounds the model
  Stations,
  Matching,   \* the stations each campaign's filter resolves to
  Slots,      \* FirmwareStatusNotifications in flight together: bounds it
  NoStation,
  NoCampaign,
  NoSlot,
  MaxFaults   \* lost answers, failed queries and crashes: bounds the model

ASSUME MatchingAssumption == Matching \in [Campaigns -> SUBSET Stations]
ASSUME StationAssumption == NoStation \notin Stations
ASSUME CampaignAssumption == NoCampaign \notin Campaigns
ASSUME SlotAssumption == NoSlot \notin Slots
ASSUME FaultsAssumption == MaxFaults \in Nat

VARIABLES
  campaign,        \* firmware_campaign.status
  progress,        \* firmware_campaign_progress.status, by campaign, station
  newer,           \* by station, which row was updated after which (updatedAt)
  (* dispatchAll of each campaign: the stations to come, the one at hand,   *)
  (* and the await it is at                                                 *)
  todo, current, pc,
  cancelling,      \* campaigns that cancel() read as running
  call,            \* the handlers in flight
  (* external, the charger: what it is doing, the handler it waits for      *)
  job, awaiting,
  faults           \* history

tables   == <<campaign, progress, newer>>
dispatch == <<todo, current, pc>>
charger  == <<job, awaiting>>
vars == <<tables, dispatch, cancelling, call, charger, faults>>

(* Faulty variant of Open, for mutation testing.                          *)
OpenOrQueued == {"queued", "sent", "downloading", "downloaded", "installing"}

(* Faulty variant of Open, for mutation testing.                          *)
OpenOrFailed == {"sent", "downloading", "downloaded", "installing", "failed"}

CampaignStatuses == {"absent", "running", "completed", "cancelled"}
Open == {"sent", "downloading", "downloaded", "installing"}
Final == {"installed", "failed"}
Ended == Final \cup {"send_error"}
RowStatuses == {"none", "queued"} \cup Open \cup Ended

(* Reports that move a row.  A report of Idle, or of a status OCPP does not *)
(* have, ends with the first transaction of the handler, which updates the  *)
(* station's firmwareStatus and writes FirmwareStatusChanged: nothing here  *)
(* depends on either, and they are left out.                               *)
Reports ==
  {"Downloading", "Downloaded", "DownloadFailed",
   "Installing", "Installed", "InstallationFailed"}

(* Faulty variant of Mapped, for mutation testing.                        *)
Unmapped == [r \in Reports |-> r]

(* STATUS_MAP: what a report makes of a row.                               *)
Mapped ==
  [r \in Reports |->
     CASE r = "Downloading" -> "downloading"
       [] r = "Downloaded"  -> "downloaded"
       [] r = "Installing"  -> "installing"
       [] r = "Installed"   -> "installed"
       [] r \in {"DownloadFailed", "InstallationFailed"} -> "failed"]

Idle == [at |-> "idle"]
Handlers ==
  [at : {"find", "update", "count", "complete"},
   station : Stations, report : Reports, row : Campaigns \cup {NoCampaign}]

TablesType ==
  /\ campaign \in [Campaigns -> CampaignStatuses]
  /\ progress \in [Campaigns -> [Stations -> RowStatuses]]
  /\ newer \in [Stations -> SUBSET (Campaigns \X Campaigns)]
DispatchType ==
  /\ todo \in [Campaigns -> SUBSET Stations]
  /\ current \in [Campaigns -> Stations \cup {NoStation}]
  /\ pc \in [Campaigns -> {"next", "sending", "delivered", "sent", "error"}]
HandlersType ==
  /\ cancelling \in SUBSET Campaigns
  /\ call \in [Slots -> Handlers \cup {Idle}]
  /\ job \in [Stations -> {"none", "accepted"} \cup (Open \ {"sent"})]
  /\ awaiting \in [Stations -> Slots \cup {NoSlot}]
  /\ faults \in 0 .. MaxFaults

TypeOK == TablesType /\ DispatchType /\ HandlersType

Init ==
  /\ campaign = [c \in Campaigns |-> "absent"]
  /\ progress = [c \in Campaigns |-> [w \in Stations |-> "none"]]
  /\ newer = [w \in Stations |-> {}]
  /\ todo = [c \in Campaigns |-> {}]
  /\ current = [c \in Campaigns |-> NoStation]
  /\ pc = [c \in Campaigns |-> "next"]
  /\ cancelling = {}
  /\ call = [s \in Slots |-> Idle]
  /\ job = [w \in Stations |-> "none"]
  /\ awaiting = [w \in Stations |-> NoSlot]
  /\ faults = 0

CostsFault == faults < MaxFaults /\ faults' = faults + 1

(* The row of campaign c is now the one updated last.                      *)
Touch(order, c) ==
  {p \in order : p[2] # c} \cup {<<c, d>> : d \in Campaigns \ {c}}

(* An UPDATE of the row of campaign c and station w.                       *)
SetRow(c, w, st) ==
  /\ progress' = [progress EXCEPT ![c][w] = st]
  /\ newer' = [newer EXCEPT ![w] = Touch(@, c)]

Targets(c) == {w \in Stations : progress[c][w] # "none"}

------------------------------------------------------------------------------
(* start, cancel                                                           *)

(* An active firmware and at least one target: the campaign and its rows    *)
(* are created in one transaction, and dispatchAll started, not awaited.   *)
Start(c) ==
  LET T == Matching[c] IN
  /\ campaign[c] = "absent"
  /\ T # {}
  /\ campaign' = [campaign EXCEPT ![c] = "running"]
  /\ progress' = [progress EXCEPT ![c] =
                    [w \in Stations |-> IF w \in T THEN "queued" ELSE "none"]]
  /\ newer' = [w \in Stations |->
                 IF w \in T THEN Touch(newer[w], c) ELSE newer[w]]
  /\ todo' = [todo EXCEPT ![c] = T]
  /\ UNCHANGED <<current, pc, cancelling, call, charger, faults>>

(* A campaign that is not running is refused.                              *)
CancelRead(c) ==
  /\ campaign[c] = "running"
  /\ cancelling' = cancelling \cup {c}
  /\ UNCHANGED <<tables, dispatch, call, charger, faults>>

(* The update names the campaign by id; nobody tells dispatchAll.          *)
CancelCommit(c) ==
  /\ c \in cancelling
  /\ cancelling' = cancelling \ {c}
  /\ campaign' = [campaign EXCEPT ![c] = "cancelled"]
  /\ UNCHANGED <<progress, newer, dispatch, call, charger, faults>>

CancelFails(c) ==
  /\ c \in cancelling
  /\ CostsFault
  /\ cancelling' = cancelling \ {c}
  /\ UNCHANGED <<tables, dispatch, call, charger>>

------------------------------------------------------------------------------
(* dispatchAll                                                             *)

DispatchGoto(c, p) == pc' = [pc EXCEPT ![c] = p]

(* The next station: connected or not.                                     *)
DispatchNext(c, w) ==
  /\ pc[c] = "next"
  /\ w \in todo[c]
  /\ todo' = [todo EXCEPT ![c] = @ \ {w}]
  /\ current' = [current EXCEPT ![c] = w]
  /\ \/ DispatchGoto(c, "sending")
     \/ DispatchGoto(c, "error")
  /\ UNCHANGED <<tables, cancelling, call, charger, faults>>

(* External: UpdateFirmware reaches the charger, which starts anew.        *)
Deliver(c) ==
  /\ pc[c] = "sending"
  /\ job' = [job EXCEPT ![current[c]] = "accepted"]
  /\ DispatchGoto(c, "delivered")
  /\ UNCHANGED <<tables, todo, current, cancelling, call, awaiting,
                 faults>>

(* The charger's answer returned, and OcppCommand recorded it.             *)
SendReturns(c) ==
  /\ pc[c] = "delivered"
  /\ DispatchGoto(c, "sent")
  /\ UNCHANGED <<tables, todo, current, cancelling, call, charger,
                 faults>>

(* It throws: the socket was gone or the charger refused; or, a fault, the  *)
(* charger got the command and its answer is lost.                         *)
SendThrows(c) ==
  /\ \/ pc[c] = "sending" /\ UNCHANGED faults
     \/ pc[c] = "delivered" /\ CostsFault
  /\ DispatchGoto(c, "error")
  /\ UNCHANGED <<tables, todo, current, cancelling, call, charger>>

Loop(c) ==
  /\ DispatchGoto(c, "next")
  /\ current' = [current EXCEPT ![c] = NoStation]
  /\ UNCHANGED <<campaign, todo, cancelling, call, charger>>

RecordSent(c) ==
  /\ pc[c] = "sent"
  /\ SetRow(c, current[c], "sent")
  /\ Loop(c)
  /\ UNCHANGED faults

RecordSendError(c) ==
  /\ pc[c] = "error"
  /\ SetRow(c, current[c], "send_error")
  /\ Loop(c)
  /\ UNCHANGED faults

(* updateMany(...).catch(() => {}): the row stays as it is.                *)
RecordFails(c) ==
  /\ pc[c] \in {"sent", "error"}
  /\ CostsFault
  /\ Loop(c)
  /\ UNCHANGED <<progress, newer>>

------------------------------------------------------------------------------
(* The charger (external) reports the stages of the update it is doing, one *)
(* call at a time, and is idle after the last; it may try a failed download *)
(* again by itself.                                                        *)

Stages(j) ==
  CASE j = "none"        -> {}
    [] j = "accepted"    -> {<<"Downloading", "downloading">>,
                             <<"DownloadFailed", "none">>,
                             <<"DownloadFailed", "accepted">>}
    [] j = "downloading" -> {<<"Downloaded", "downloaded">>,
                             <<"DownloadFailed", "none">>,
                             <<"DownloadFailed", "accepted">>}
    [] j = "downloaded"  -> {<<"Installing", "installing">>,
                             <<"InstallationFailed", "none">>}
    [] j = "installing"  -> {<<"Installed", "none">>,
                             <<"InstallationFailed", "none">>}

Report(s, w) ==
  /\ call[s] = Idle
  /\ awaiting[w] = NoSlot
  /\ \E stage \in Stages(job[w]) :
       /\ job' = [job EXCEPT ![w] = stage[2]]
       /\ call' = [call EXCEPT ![s] =
                     [at |-> "find", station |-> w, report |-> stage[1],
                      row |-> NoCampaign]]
  /\ awaiting' = [awaiting EXCEPT ![w] = s]
  /\ UNCHANGED <<tables, dispatch, cancelling, faults>>

(* The answer is lost or too late: the charger goes on without it.         *)
GiveUp(w) ==
  /\ awaiting[w] # NoSlot
  /\ CostsFault
  /\ awaiting' = [awaiting EXCEPT ![w] = NoSlot]
  /\ UNCHANGED <<tables, dispatch, cancelling, call, job>>

------------------------------------------------------------------------------
(* firmwareStatusNotificationHandler                                       *)

At(s, point) == call[s] # Idle /\ call[s].at = point

HandlerGoto(s, point) ==
  /\ call' = [call EXCEPT ![s].at = point]
  /\ UNCHANGED awaiting

Return(s) ==
  /\ call' = [call EXCEPT ![s] = Idle]
  /\ awaiting' = [w \in Stations |->
                    IF awaiting[w] = s THEN NoSlot ELSE awaiting[w]]

(* The open row of the station that was updated last, whatever campaign     *)
(* the report is about.                                                    *)
NewestOpen(w) ==
  {c \in Campaigns :
     /\ progress[c][w] \in Open
     /\ \A d \in Campaigns : progress[d][w] \in Open => <<d, c>> \notin newer[w]}

FindRow(s) ==
  /\ At(s, "find")
  /\ IF NewestOpen(call[s].station) = {}
     THEN Return(s)
     ELSE \E c \in NewestOpen(call[s].station) :
            /\ call' = [call EXCEPT ![s].at = "update", ![s].row = c]
            /\ UNCHANGED awaiting
  /\ UNCHANGED <<tables, dispatch, cancelling, job, faults>>

AfterUpdate(s) ==
  IF Mapped[call[s].report] \in Final THEN HandlerGoto(s, "count") ELSE Return(s)

(* The update names the row by id; its status is not looked at again.      *)
UpdateRow(s) ==
  /\ At(s, "update")
  /\ SetRow(call[s].row, call[s].station, Mapped[call[s].report])
  /\ AfterUpdate(s)
  /\ UNCHANGED <<campaign, dispatch, cancelling, job, faults>>

(* Logged, and the handler goes on to count.                               *)
UpdateFails(s) ==
  /\ At(s, "update")
  /\ CostsFault
  /\ AfterUpdate(s)
  /\ UNCHANGED <<tables, dispatch, cancelling, job>>

(* Faulty variant of Remaining, for mutation testing.                     *)
NotFailed(c) == {w \in Targets(c) : progress[c][w] \notin {"installed", "send_error"}}

(* Faulty variant of Remaining, for mutation testing.                     *)
StillOpen(c) == {w \in Targets(c) : progress[c][w] \in Open}

Remaining(c) == {w \in Targets(c) : progress[c][w] \notin Ended}

CountRemaining(s) ==
  /\ At(s, "count")
  /\ IF Remaining(call[s].row) = {} THEN HandlerGoto(s, "complete") ELSE Return(s)
  /\ UNCHANGED <<tables, dispatch, cancelling, job, faults>>

(* Whatever the campaign's status is by now.                               *)
Complete(s) ==
  /\ At(s, "complete")
  /\ campaign' = [campaign EXCEPT ![call[s].row] = "completed"]
  /\ Return(s)
  /\ UNCHANGED <<progress, newer, dispatch, cancelling, job, faults>>

(* The queries after the update are caught: the handler just returns.      *)
QueryFails(s) ==
  /\ At(s, "find") \/ At(s, "count") \/ At(s, "complete")
  /\ CostsFault
  /\ Return(s)
  /\ UNCHANGED <<tables, dispatch, cancelling, job>>

------------------------------------------------------------------------------
(* The process dies; no one resumes the dispatch of a running campaign.    *)
Crash ==
  /\ CostsFault
  /\ todo' = [c \in Campaigns |-> {}]
  /\ current' = [c \in Campaigns |-> NoStation]
  /\ pc' = [c \in Campaigns |-> "next"]
  /\ cancelling' = {}
  /\ call' = [s \in Slots |-> Idle]
  /\ awaiting' = [w \in Stations |-> NoSlot]
  /\ UNCHANGED <<tables, job>>

(* Every campaign was started, and everything has ended.                   *)
Done ==
  /\ \A c \in Campaigns : campaign[c] # "absent" /\ todo[c] = {} /\ pc[c] = "next"
  /\ \A s \in Slots : call[s] = Idle
  /\ UNCHANGED vars

Dispatch(c) ==
  \/ \E w \in Stations : DispatchNext(c, w)
  \/ Deliver(c) \/ SendReturns(c) \/ SendThrows(c)
  \/ RecordSent(c) \/ RecordSendError(c) \/ RecordFails(c)

Handle(s) ==
  \/ FindRow(s) \/ UpdateRow(s) \/ UpdateFails(s)
  \/ CountRemaining(s) \/ Complete(s) \/ QueryFails(s)

Next ==
  \/ \E c \in Campaigns :
       \/ Start(c) \/ CancelRead(c) \/ CancelCommit(c) \/ CancelFails(c)
       \/ Dispatch(c)
  \/ \E s \in Slots :
       \/ \E w \in Stations : Report(s, w)
       \/ Handle(s)
  \/ \E w \in Stations : GiveUp(w)
  \/ Crash
  \/ Done

Spec == Init /\ [][Next]_vars

------------------------------------------------------------------------------
(* Properties                                                              *)

(* dispatchAll writes "sent" and "send_error" without looking at the row,   *)
(* while the charger may report before the send has returned: yet the write *)
(* never covers a report, because the handler leaves queued rows alone.    *)
DispatchCoversNoReport ==
  \A c \in Campaigns :
    /\ current[c] # NoStation => progress[c][current[c]] = "queued"
    /\ \A w \in todo[c] : progress[c][w] = "queued"

(* Unless reports of one charger overlap, a row that ended stays as it      *)
(* ended, also when a later campaign updates the same charger.             *)
EndedIsFinal ==
  [][\A c \in Campaigns, w \in Stations :
       progress[c][w] \in Ended /\ faults' = 0
         => progress'[c][w] = progress[c][w]]_vars

(* A completed campaign has no row left to end, unless reports overlap.    *)
CompletedIsComplete ==
  \A c \in Campaigns :
    campaign[c] = "completed" /\ faults = 0 => Remaining(c) = {}

(* Nothing about campaign c is under way.                                  *)
Quiet(c) ==
  /\ todo[c] = {} /\ pc[c] = "next"
  /\ \A s \in Slots : call[s] = Idle

(* When the chargers have reported the end of every row, the campaign does  *)
(* not stay running: whichever handlers overlap, one of them counts zero.  *)
LastReportCompletes ==
  \A c \in Campaigns :
    /\ campaign[c] = "running"
    /\ Quiet(c)
    /\ faults = 0
    => \E w \in Targets(c) : progress[c][w] \notin Final

(* prisma/schema.prisma:549: a running campaign has at least one charger    *)
(* that is not done.  (Once nothing is in flight, and nothing failed.)     *)
RunningHasWorkLeft ==
  \A c \in Campaigns :
    campaign[c] = "running" /\ Quiet(c) /\ faults = 0 => Remaining(c) # {}
==============================================================================
