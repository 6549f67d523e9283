----------------------------- MODULE OcppCommand -----------------------------
(***************************************************************************)
(* Commands from the Core to a charger: sendCommand (ocpp/commands/        *)
(* _sender.ts), the in-memory map of waiting answers                       *)
(* (ocpp/pendingRequests.ts), the table ocpp_command_result, and its two   *)
(* janitors, bootstrapCleanup and the sweeper                              *)
(* (services/ocppCommandResult.service.ts), with a process that crashes    *)
(* and a network that loses and duplicates.                                *)
(***************************************************************************)
EXTENDS Naturals, FiniteSets, SequencesExt

CONSTANTS
  Commands,   \* messageIds of the commands ever sent: bounds the model
  MaxFaults   \* crashes and failed queries: bounds the model

ASSUME FaultsAssumption == MaxFaults \in Nat

VARIABLES
  row,        \* ocpp_command_result.status of each command's row
  pc,         \* the await each invocation of sendCommand is at
  settled,    \* what the promise of waitFor was settled with
  told,       \* what the caller of sendCommand was told
  outbox,     \* OcppCommandResultReceived events, in commit order
  calls,      \* CALL frames on their way to the charger
  answers,    \* CALLRESULT and CALLERROR frames on their way back
  proc,       \* the Core process
  faults      \* history: faults so far

vars == <<row, pc, settled, told, outbox, calls, answers, proc, faults>>

Results  == {"completed", "error", "timeout"}
(* A CALLERROR may speak of a timeout in its text.                        *)
Frames   == {"CallResult", "CallError", "CallErrorTimeout"}
Points   == {"new", "insert", "send", "wait", "record", "returned", "dead"}
InMemory == {"insert", "send", "wait", "record"}
Event(c, r) == [messageId |-> c, status |-> r]
Frame(c, r) == [messageId |-> c, answer |-> r]

RowType ==
  /\ row \in [Commands -> Results \cup {"absent", "pending"}]
  /\ outbox \in Seq([messageId : Commands, status : Results])
SenderType ==
  /\ pc \in [Commands -> Points]
  /\ settled \in [Commands -> Frames \cup {"Timeout", "none"}]
  /\ told \in [Commands -> Results \cup {"none"}]
WireType ==
  /\ calls \in SUBSET Commands
  /\ answers \in SUBSET [messageId : Commands, answer : Frames]
ProcessType ==
  /\ proc \in {"booting", "up"}
  /\ faults \in 0 .. MaxFaults

TypeOK == RowType /\ SenderType /\ WireType /\ ProcessType

Init ==
  /\ row = [c \in Commands |-> "absent"]
  /\ pc = [c \in Commands |-> "new"]
  /\ settled = [c \in Commands |-> "none"]
  /\ told = [c \in Commands |-> "none"]
  /\ outbox = <<>>
  /\ calls = {}
  /\ answers = {}
  /\ proc = "booting"
  /\ faults = 0

CostsFault == faults < MaxFaults /\ faults' = faults + 1

Goto(c, p) == pc' = [pc EXCEPT ![c] = p]

------------------------------------------------------------------------------
(* sendCommand                                                             *)

(* The station is connected: a messageId is drawn, the insert starts.      *)
Begin(c) ==
  /\ proc = "up"
  /\ pc[c] = "new"
  /\ Goto(c, "insert")
  /\ UNCHANGED <<row, settled, told, outbox, calls, answers, proc, faults>>

InsertPending(c) ==
  /\ pc[c] = "insert"
  /\ row' = [row EXCEPT ![c] = "pending"]
  /\ Goto(c, "send")
  /\ UNCHANGED <<settled, told, outbox, calls, answers, proc, faults>>

(* Logged; the command is sent without a row.                              *)
InsertFails(c) ==
  /\ pc[c] = "insert"
  /\ CostsFault
  /\ Goto(c, "send")
  /\ UNCHANGED <<row, settled, told, outbox, calls, answers, proc>>

(* waitFor registers the promise before the CALL is written to the socket  *)
(* fetched before the insert, which may be gone by now.                    *)
Transmit(c) ==
  /\ pc[c] = "send"
  /\ calls' \in {calls, calls \cup {c}}
  /\ Goto(c, "wait")
  /\ UNCHANGED <<row, settled, told, outbox, answers, proc, faults>>

(* Faulty variant of Waits, for mutation testing.                         *)
WaitsForever(c) == pc[c] \in {"wait", "record", "returned"}

(* pendingRequests: resolve, reject and the timer; the first of them takes *)
(* the entry out of the map, and without an entry nothing happens.         *)
Waits(c) == pc[c] = "wait"

Settle(c, r) ==
  IF Waits(c)
  THEN settled' = [settled EXCEPT ![c] = r] /\ Goto(c, "record")
  ELSE UNCHANGED <<settled, pc>>

ReceiveAnswer(f) ==
  /\ f \in answers
  /\ answers' = answers \ {f}
  /\ Settle(f.messageId, f.answer)
  /\ UNCHANGED <<row, told, outbox, calls, proc, faults>>

TimerFires(c) ==
  /\ Waits(c)
  /\ Settle(c, "Timeout")
  /\ UNCHANGED <<row, told, outbox, calls, answers, proc, faults>>

(* A result is a timeout when the text of the error has the word, whoever   *)
(* wrote it.                                                               *)
FinalStatus(r) ==
  CASE r = "CallResult" -> "completed"
    [] r = "CallError"  -> "error"
    [] r \in {"CallErrorTimeout", "Timeout"} -> "timeout"

Return(c) ==
  /\ told' = [told EXCEPT ![c] = FinalStatus(settled[c])]
  /\ Goto(c, "returned")

(* Faulty variant of RecordResult, for mutation testing.                  *)
RecordRowOnly(c) ==
  /\ pc[c] = "record"
  /\ row[c] # "absent"
  /\ row' = [row EXCEPT ![c] = FinalStatus(settled[c])]
  /\ Return(c)
  /\ UNCHANGED <<settled, outbox, calls, answers, proc, faults>>

(* One transaction: the row, whatever it says, and the event.              *)
RecordResult(c) ==
  /\ pc[c] = "record"
  /\ row[c] # "absent"
  /\ row' = [row EXCEPT ![c] = FinalStatus(settled[c])]
  /\ outbox' = Append(outbox, Event(c, FinalStatus(settled[c])))
  /\ Return(c)
  /\ UNCHANGED <<settled, calls, answers, proc, faults>>

(* It rejects, as it must when there is no row: logged, the caller is told. *)
RecordFails(c) ==
  /\ pc[c] = "record"
  /\ IF row[c] = "absent" THEN UNCHANGED faults ELSE CostsFault
  /\ Return(c)
  /\ UNCHANGED <<row, settled, outbox, calls, answers, proc>>

------------------------------------------------------------------------------
(* External: the charger answers a call once; frames get lost.             *)

ChargerAnswers(c, a) ==
  /\ c \in calls
  /\ calls' = calls \ {c}
  /\ answers' = answers \cup {Frame(c, a)}
  /\ UNCHANGED <<row, pc, settled, told, outbox, proc, faults>>

LoseFrames ==
  /\ calls \cup answers # {}
  /\ calls' = {}
  /\ answers' = {}
  /\ UNCHANGED <<row, pc, settled, told, outbox, proc, faults>>

------------------------------------------------------------------------------
(* ocppCommandResult.service.ts                                            *)

Pending == {c \in Commands : row[c] = "pending"}

TimeOut(T) == row' = [c \in Commands |-> IF c \in T THEN "timeout" ELSE row[c]]

(* Before the process listens: every row an earlier process left pending.  *)
BootstrapCleanup ==
  /\ proc = "booting"
  /\ TimeOut(Pending)
  /\ proc' = "up"
  /\ UNCHANGED <<pc, settled, told, outbox, calls, answers, faults>>

(* Logged; the process starts all the same.                                *)
BootstrapCleanupFails ==
  /\ proc = "booting"
  /\ CostsFault
  /\ proc' = "up"
  /\ UNCHANGED <<row, pc, settled, told, outbox, calls, answers>>

(* Faulty variant of StalePending, for mutation testing.                  *)
StaleSettled == {c \in Pending : pc[c] \in {"record", "returned"}}

(* Rows older than the response timeout and a minute: their timer has fired *)
(* by then, or died with its process; the transaction that records the      *)
(* result may still be under way.                                          *)
StalePending == {c \in Pending : pc[c] \in {"record", "returned", "dead"}}

Sweep ==
  /\ proc = "up"
  /\ StalePending # {}
  /\ \E T \in SUBSET StalePending : T # {} /\ TimeOut(T)
  /\ UNCHANGED <<pc, settled, told, outbox, calls, answers, proc, faults>>

------------------------------------------------------------------------------
(* The process ends, by a crash or by the supervisor: the map of waiting    *)
(* answers, the sockets and everything awaited are gone.                   *)
Crash ==
  /\ proc = "up"
  /\ CostsFault
  /\ pc' = [c \in Commands |-> IF pc[c] \in InMemory THEN "dead" ELSE pc[c]]
  /\ calls' = {}
  /\ answers' = {}
  /\ proc' = "booting"
  /\ UNCHANGED <<row, settled, told, outbox>>

(* Every command the model has was sent.                                   *)
Done ==
  /\ \A c \in Commands : pc[c] \in {"returned", "dead"}
  /\ UNCHANGED vars

Sender(c) ==
  \/ Begin(c) \/ InsertPending(c) \/ InsertFails(c) \/ Transmit(c)
  \/ TimerFires(c) \/ RecordResult(c) \/ RecordFails(c)

Next ==
  \/ \E c \in Commands :
       \/ Sender(c)
       \/ \E a \in Frames : ChargerAnswers(c, a)
  \/ \E f \in answers : ReceiveAnswer(f)
  \/ LoseFrames
  \/ BootstrapCleanup \/ BootstrapCleanupFails \/ Sweep
  \/ Crash
  \/ Done

SafeSpec == Init /\ [][Next]_vars

(* Awaits return, timers fire, the sweeper runs every minute and the        *)
(* supervisor restarts the process; nothing is assumed of the charger.      *)
Fairness ==
  /\ \A c \in Commands :
       WF_vars(InsertPending(c) \/ InsertFails(c) \/ Transmit(c)
               \/ TimerFires(c) \/ RecordResult(c) \/ RecordFails(c))
  /\ WF_vars(BootstrapCleanup \/ BootstrapCleanupFails)
  /\ WF_vars(Sweep)

Spec == SafeSpec /\ Fairness

------------------------------------------------------------------------------
(* Properties                                                              *)

(* What was published about a command is what its row says, and it was      *)
(* published once: late answers, timers and the two janitors never add a    *)
(* second outcome or rewrite one that consumers have seen.                 *)
PublishedOutcomeIsFinal ==
  \A i, j \in DOMAIN outbox :
    /\ row[outbox[i].messageId] = outbox[i].status
    /\ outbox[i].messageId = outbox[j].messageId => i = j

(* Without faults the caller of sendCommand, the row and the event agree on *)
(* the outcome, although the sweeper may have written timeout in between.   *)
CallerRowAndEventAgree ==
  faults = 0 =>
    \A c \in Commands : told[c] # "none" =>
      row[c] = told[c] /\ Event(c, told[c]) \in ToSet(outbox)

(* An outcome once recorded as the charger's answer is never lost again.    *)
AnswerIsKept ==
  [][\A c \in Commands : row[c] \in {"completed", "error"} => row'[c] = row[c]]_vars

(* No row stays pending, although the timers that watch it are in memory:   *)
(* whatever crashes, a janitor finds it.                                   *)
NothingStaysPending ==
  \A c \in Commands : row[c] = "pending" ~> row[c] # "pending"
==============================================================================
