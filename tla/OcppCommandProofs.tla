-------------------------- MODULE OcppCommandProofs --------------------------
(***************************************************************************)
(* Proofs about OcppCommand: type correctness, that a command has one      *)
(* outcome which everyone sees, and that an answer once recorded is kept,  *)
(* for any set of commands and any number of faults.                       *)
(***************************************************************************)
EXTENDS OcppCommand, TLAPS

USE FaultsAssumption

------------------------------------------------------------------------------
(* The inductive invariant.  The row of a command is written by whoever    *)
(* holds the command (its invocation of sendCommand) or, while it says     *)
(* pending, by a janitor.                                                  *)

(* The promise of a command at "record" was settled.                       *)
SettledBeforeRecord == \A c \in Commands : pc[c] = "record" => settled[c] # "none"

(* A command that has not inserted its row has none.                       *)
AbsentBeforeInsert ==
  \A c \in Commands : pc[c] \in {"new", "insert"} => row[c] = "absent"

(* Only the end of sendCommand records an answer, and tells the caller.    *)
AnsweredIsReturned ==
  \A c \in Commands :
    row[c] \in {"completed", "error"} \/ told[c] # "none" => pc[c] = "returned"

(* The outcome of an event is the row's, and the command is over.          *)
EventIsRow ==
  \A i \in DOMAIN outbox :
    /\ pc[outbox[i].messageId] = "returned"
    /\ row[outbox[i].messageId] = outbox[i].status

OneEventEach ==
  \A i, j \in DOMAIN outbox : outbox[i].messageId = outbox[j].messageId => i = j

(* Without faults a command that was sent has its row.                     *)
SentHasRow ==
  faults = 0 =>
    \A c \in Commands : pc[c] \in {"send", "wait", "record"} => row[c] # "absent"

TypeInv == TypeOK /\ SettledBeforeRecord
OutcomeInv ==
  /\ AbsentBeforeInsert
  /\ AnsweredIsReturned
  /\ EventIsRow
  /\ OneEventEach
CallerInv == SentHasRow /\ CallerRowAndEventAgree

------------------------------------------------------------------------------
(* Type correctness                                                        *)

LEMMA FinalStatusType ==
  ASSUME NEW r \in Frames \cup {"Timeout"}
  PROVE  FinalStatus(r) \in Results
BY DEF FinalStatus, Frames, Results

LEMMA TypeInit == Init => TypeInv
<1> SUFFICES ASSUME Init PROVE TypeInv
  OBVIOUS
<1>1. RowType /\ SenderType
  BY DEF Init, RowType, SenderType, Points
<1>2. WireType /\ ProcessType /\ SettledBeforeRecord
  BY DEF Init, WireType, ProcessType, SettledBeforeRecord
<1> QED
  BY <1>1, <1>2 DEF TypeInv, TypeOK

LEMMA GotoType ==
  ASSUME TypeInv, NEW c \in Commands, NEW p \in Points \ {"record"}, Goto(c, p),
         UNCHANGED <<settled, told>>
  PROVE  SenderType' /\ SettledBeforeRecord'
BY DEF TypeInv, TypeOK, SenderType, SettledBeforeRecord, Goto

LEMMA SettleType ==
  ASSUME TypeInv, NEW c \in Commands, NEW r \in Frames \cup {"Timeout"},
         Settle(c, r), UNCHANGED told
  PROVE  SenderType' /\ SettledBeforeRecord'
BY DEF TypeInv, TypeOK, SenderType, SettledBeforeRecord, Settle, Goto, Points, Frames

(* What sendCommand tells its caller when its row was recorded, or was not. *)
LEMMA ReturnType ==
  ASSUME TypeInv, NEW c \in Commands, pc[c] = "record", Return(c), UNCHANGED settled
  PROVE  /\ SenderType' /\ SettledBeforeRecord'
         /\ FinalStatus(settled[c]) \in Results
<1>1. settled[c] \in Frames \cup {"Timeout"}
  BY DEF TypeInv, TypeOK, SenderType, SettledBeforeRecord
<1>2. FinalStatus(settled[c]) \in Results
  BY <1>1, FinalStatusType
<1>3. SenderType' /\ SettledBeforeRecord'
  BY <1>2 DEF TypeInv, TypeOK, SenderType, SettledBeforeRecord, Return, Goto, Points
<1> QED
  BY <1>2, <1>3

LEMMA SenderStepType ==
  ASSUME TypeInv, NEW c \in Commands, Sender(c)
  PROVE  TypeInv'
<1> USE DEF TypeInv, TypeOK
<1>p. {"insert", "send", "wait", "returned"} \subseteq Points \ {"record"}
  BY DEF Points
<1>1. CASE Begin(c)
  BY <1>1, <1>p, GotoType DEF Begin, RowType, WireType, ProcessType
<1>2. CASE InsertPending(c)
  <2>1. RowType'
    BY <1>2 DEF InsertPending, RowType
  <2> QED
    BY <1>2, <1>p, <2>1, GotoType DEF InsertPending, WireType, ProcessType
<1>3. CASE InsertFails(c)
  <2>1. ProcessType'
    BY <1>3 DEF InsertFails, CostsFault, ProcessType
  <2> QED
    BY <1>3, <1>p, <2>1, GotoType DEF InsertFails, WireType, RowType
<1>4. CASE Transmit(c)
  <2>1. WireType'
    BY <1>4 DEF Transmit, WireType
  <2> QED
    BY <1>4, <1>p, <2>1, GotoType DEF Transmit, RowType, ProcessType
<1>5. CASE TimerFires(c)
  BY <1>5, SettleType DEF TimerFires, RowType, WireType, ProcessType
<1>6. CASE RecordResult(c)
  <2>1. SenderType' /\ SettledBeforeRecord' /\ FinalStatus(settled[c]) \in Results
    BY <1>6, ReturnType DEF RecordResult
  <2>2. Event(c, FinalStatus(settled[c])) \in [messageId : Commands, status : Results]
    BY <2>1 DEF Event
  <2>3. RowType'
    BY <1>6, <2>1, <2>2 DEF RecordResult, RowType
  <2> QED
    BY <1>6, <2>1, <2>3 DEF RecordResult, WireType, ProcessType
<1>7. CASE RecordFails(c)
  <2>1. SenderType' /\ SettledBeforeRecord'
    BY <1>7, ReturnType DEF RecordFails
  <2>2. ProcessType'
    BY <1>7 DEF RecordFails, CostsFault, ProcessType
  <2> QED
    BY <1>7, <2>1, <2>2 DEF RecordFails, RowType, WireType
<1> QED
  BY <1>1, <1>2, <1>3, <1>4, <1>5, <1>6, <1>7 DEF Sender

LEMMA TypeStep == TypeInv /\ [Next]_vars => TypeInv'
<1> SUFFICES ASSUME TypeInv, [Next]_vars PROVE TypeInv'
  OBVIOUS
<1> USE DEF TypeInv, TypeOK
<1>1. ASSUME NEW c \in Commands, Sender(c) PROVE TypeInv'
  BY <1>1, SenderStepType
<1>2. ASSUME NEW c \in Commands, NEW a \in Frames, ChargerAnswers(c, a)
      PROVE  TypeInv'
  <2>1. Frame(c, a) \in [messageId : Commands, answer : Frames]
    BY DEF Frame
  <2>2. WireType'
    BY <1>2, <2>1 DEF ChargerAnswers, WireType
  <2> QED
    BY <1>2, <2>2 DEF ChargerAnswers, RowType, SenderType, ProcessType, SettledBeforeRecord
<1>3. ASSUME NEW f \in answers, ReceiveAnswer(f) PROVE TypeInv'
  <2>1. f.messageId \in Commands /\ f.answer \in Frames
    BY DEF WireType
  <2>2. SenderType' /\ SettledBeforeRecord'
    BY <1>3, <2>1, SettleType DEF ReceiveAnswer
  <2>3. WireType'
    BY <1>3 DEF ReceiveAnswer, WireType
  <2> QED
    BY <1>3, <2>2, <2>3 DEF ReceiveAnswer, RowType, ProcessType
<1>4. CASE LoseFrames
  <2>1. WireType'
    BY <1>4 DEF LoseFrames, WireType
  <2> QED
    BY <1>4, <2>1 DEF LoseFrames, RowType, SenderType, ProcessType, SettledBeforeRecord
<1>5. CASE BootstrapCleanup \/ BootstrapCleanupFails
  <2>1. RowType'
    BY <1>5 DEF BootstrapCleanup, BootstrapCleanupFails, TimeOut, RowType, Results
  <2>2. ProcessType'
    BY <1>5 DEF BootstrapCleanup, BootstrapCleanupFails, CostsFault, ProcessType
  <2> QED
    BY <1>5, <2>1, <2>2 DEF BootstrapCleanup, BootstrapCleanupFails, SenderType,
                            WireType, SettledBeforeRecord
<1>6. CASE Sweep
  <2>1. RowType'
    BY <1>6 DEF Sweep, TimeOut, RowType, Results
  <2> QED
    BY <1>6, <2>1 DEF Sweep, SenderType, WireType, ProcessType, SettledBeforeRecord
<1>7. CASE Crash
  <2>1. SenderType' /\ SettledBeforeRecord'
    BY <1>7 DEF Crash, SenderType, SettledBeforeRecord, Points, InMemory
  <2>2. ProcessType' /\ WireType'
    BY <1>7 DEF Crash, CostsFault, ProcessType, WireType
  <2> QED
    BY <1>7, <2>1, <2>2 DEF Crash, RowType
<1>8. CASE Done \/ UNCHANGED vars
  BY <1>8 DEF Done, vars, RowType, SenderType, WireType, ProcessType, SettledBeforeRecord
<1> QED
  BY <1>1, <1>2, <1>3, <1>4, <1>5, <1>6, <1>7, <1>8 DEF Next

(* The tables, the map of waiting answers, the frames and the process stay  *)
(* within their types.                                                     *)
THEOREM TypeCorrect == SafeSpec => []TypeOK
<1>1. TypeInv => TypeOK
  BY DEF TypeInv
<1> QED
  BY TypeInit, TypeStep, <1>1, PTL DEF SafeSpec

------------------------------------------------------------------------------
(* One outcome                                                             *)

LEMMA OutcomeInit == Init => OutcomeInv
<1> SUFFICES ASSUME Init PROVE OutcomeInv
  OBVIOUS
<1>1. AbsentBeforeInsert /\ AnsweredIsReturned
  BY DEF Init, AbsentBeforeInsert, AnsweredIsReturned
<1>2. EventIsRow /\ OneEventEach
  BY DEF Init, EventIsRow, OneEventEach
<1> QED
  BY <1>1, <1>2 DEF OutcomeInv

LEMMA ElementsOf ==
  ASSUME NEW S, NEW s \in Seq(S)
  PROVE  \A i \in DOMAIN s : s[i] \in S
OBVIOUS

LEMMA AppendElements ==
  ASSUME NEW S, NEW s \in Seq(S), NEW e \in S
  PROVE  ToSet(Append(s, e)) = ToSet(s) \cup {e}
<1>1. /\ DOMAIN Append(s, e) = 1 .. Len(s) + 1
      /\ Append(s, e)[Len(s) + 1] = e
      /\ \A k \in 1 .. Len(s) : Append(s, e)[k] = s[k]
      /\ DOMAIN s = 1 .. Len(s) /\ Len(s) \in Nat
  OBVIOUS
<1>2. ToSet(Append(s, e)) \subseteq ToSet(s) \cup {e}
  BY <1>1 DEF ToSet
<1>3. ToSet(s) \cup {e} \subseteq ToSet(Append(s, e))
  BY <1>1 DEF ToSet
<1> QED
  BY <1>2, <1>3

LEMMA EventFields ==
  ASSUME TypeOK
  PROVE  \A i \in DOMAIN outbox :
           outbox[i].messageId \in Commands /\ outbox[i].status \in Results
<1>1. \A i \in DOMAIN outbox : outbox[i] \in [messageId : Commands, status : Results]
  BY ElementsOf DEF TypeOK, RowType
<1> QED
  BY <1>1

(* A step that writes no event and leaves the rows and the ends of the      *)
(* commands that are over.                                                  *)
LEMMA QuietKeepsEvents ==
  ASSUME EventIsRow, OneEventEach, UNCHANGED outbox,
         \A c \in Commands : pc[c] = "returned" /\ row[c] # "pending"
                               => pc'[c] = "returned" /\ row'[c] = row[c],
         TypeOK
  PROVE  EventIsRow' /\ OneEventEach'
<1>1. \A i \in DOMAIN outbox :
        outbox[i].messageId \in Commands /\ outbox[i].status \in Results
  BY EventFields
<1>2. \A i \in DOMAIN outbox : row[outbox[i].messageId] # "pending"
  BY <1>1 DEF EventIsRow, Results
<1> QED
  BY <1>1, <1>2 DEF EventIsRow, OneEventEach

(* A step of the command's own that leaves its row alone.                  *)
LEMMA MoveKeepsOutcome ==
  ASSUME TypeOK, OutcomeInv, UNCHANGED <<row, told, outbox>>,
         NEW c \in Commands, NEW p \in Points, Goto(c, p), pc[c] # "returned",
         p = "insert" => row[c] = "absent", p # "new"
  PROVE  OutcomeInv'
<1>1. AbsentBeforeInsert' /\ AnsweredIsReturned'
  BY DEF OutcomeInv, AbsentBeforeInsert, AnsweredIsReturned, Goto, TypeOK, SenderType
<1>2. EventIsRow' /\ OneEventEach'
  BY QuietKeepsEvents DEF OutcomeInv, Goto, TypeOK, SenderType
<1> QED
  BY <1>1, <1>2 DEF OutcomeInv

(* A janitor writes only rows that are pending.                            *)
LEMMA TimeOutKeepsOutcome ==
  ASSUME TypeOK, OutcomeInv, UNCHANGED <<pc, told, outbox>>,
         NEW T \in SUBSET Pending, TimeOut(T)
  PROVE  OutcomeInv'
<1>1. AbsentBeforeInsert' /\ AnsweredIsReturned'
  BY DEF OutcomeInv, AbsentBeforeInsert, AnsweredIsReturned, TimeOut, Pending
<1>2. EventIsRow' /\ OneEventEach'
  BY QuietKeepsEvents DEF OutcomeInv, TimeOut, Pending
<1> QED
  BY <1>1, <1>2 DEF OutcomeInv

(* The one step that writes an event: the command had none before.         *)
LEMMA RecordKeepsOutcome ==
  ASSUME TypeInv, OutcomeInv, NEW c \in Commands, RecordResult(c)
  PROVE  OutcomeInv'
<1> DEFINE r == FinalStatus(settled[c])
<1>1. r \in Results
  BY ReturnType DEF RecordResult
<1>2. /\ pc[c] = "record"
      /\ row' = [row EXCEPT ![c] = r]
      /\ outbox' = Append(outbox, Event(c, r))
      /\ told' = [told EXCEPT ![c] = r]
      /\ pc' = [pc EXCEPT ![c] = "returned"]
  BY DEF RecordResult, Return, Goto
<1>3. /\ pc' \in [Commands -> Points] /\ pc \in [Commands -> Points]
      /\ row \in [Commands -> Results \cup {"absent", "pending"}]
      /\ told \in [Commands -> Results \cup {"none"}]
      /\ outbox \in Seq([messageId : Commands, status : Results])
  BY <1>2 DEF TypeInv, TypeOK, SenderType, RowType, Points
<1>4. AbsentBeforeInsert' /\ AnsweredIsReturned'
  BY <1>2, <1>3 DEF OutcomeInv, AbsentBeforeInsert, AnsweredIsReturned
<1>5. /\ Event(c, r) \in [messageId : Commands, status : Results]
      /\ Event(c, r).messageId = c /\ Event(c, r).status = r
  BY <1>1 DEF Event
<1>6. /\ DOMAIN outbox' = 1 .. Len(outbox) + 1 /\ DOMAIN outbox = 1 .. Len(outbox)
      /\ Len(outbox) \in Nat
      /\ outbox'[Len(outbox) + 1] = Event(c, r)
      /\ \A i \in DOMAIN outbox : outbox'[i] = outbox[i]
  BY <1>2, <1>3, <1>5
<1>7. \A i \in DOMAIN outbox :
        outbox[i].messageId \in Commands /\ outbox[i].messageId # c
  BY <1>2, EventFields DEF OutcomeInv, EventIsRow, TypeInv
<1>8. EventIsRow'
  BY <1>2, <1>3, <1>5, <1>6, <1>7 DEF OutcomeInv, EventIsRow
<1>9. OneEventEach'
  <2> SUFFICES ASSUME NEW i \in DOMAIN outbox', NEW j \in DOMAIN outbox',
                      outbox'[i].messageId = outbox'[j].messageId
               PROVE  i = j
    BY DEF OneEventEach
  <2>1. CASE i \in DOMAIN outbox /\ j \in DOMAIN outbox
    BY <2>1, <1>6 DEF OutcomeInv, OneEventEach
  <2>2. CASE i \in DOMAIN outbox /\ j = Len(outbox) + 1
    BY <2>2, <1>5, <1>6, <1>7
  <2>3. CASE i = Len(outbox) + 1 /\ j \in DOMAIN outbox
    BY <2>3, <1>5, <1>6, <1>7
  <2> QED
    BY <2>1, <2>2, <2>3, <1>6
<1> QED
  BY <1>4, <1>8, <1>9 DEF OutcomeInv

LEMMA SenderStepOutcome ==
  ASSUME TypeInv, OutcomeInv, NEW c \in Commands, Sender(c)
  PROVE  OutcomeInv'
<1>t. TypeOK
  BY DEF TypeInv
<1>p. {"insert", "send", "wait", "record", "returned"} \subseteq Points
  BY DEF Points
<1>1. CASE Begin(c)
  BY <1>1, <1>t, <1>p, MoveKeepsOutcome DEF Begin, OutcomeInv, AbsentBeforeInsert
<1>2. CASE InsertPending(c)
  <2>1. /\ row \in [Commands -> Results \cup {"absent", "pending"}]
        /\ pc \in [Commands -> Points]
    BY <1>t DEF TypeOK, RowType, SenderType
  <2>2. AbsentBeforeInsert' /\ AnsweredIsReturned'
    BY <1>2, <2>1 DEF OutcomeInv, AbsentBeforeInsert, AnsweredIsReturned,
                      InsertPending, Goto
  <2>3. EventIsRow' /\ OneEventEach'
    BY <1>2, <1>t, <2>1, QuietKeepsEvents DEF OutcomeInv, InsertPending, Goto
  <2> QED
    BY <2>2, <2>3 DEF OutcomeInv
<1>3. CASE InsertFails(c)
  BY <1>3, <1>t, <1>p, MoveKeepsOutcome DEF InsertFails
<1>4. CASE Transmit(c)
  BY <1>4, <1>t, <1>p, MoveKeepsOutcome DEF Transmit
<1>5. CASE TimerFires(c)
  BY <1>5, <1>t, <1>p, MoveKeepsOutcome DEF TimerFires, Settle, Waits
<1>6. CASE RecordResult(c)
  BY <1>6, RecordKeepsOutcome
<1>7. CASE RecordFails(c)
  <2>1. /\ pc[c] = "record"
        /\ pc' = [pc EXCEPT ![c] = "returned"]
        /\ told' = [told EXCEPT ![c] = FinalStatus(settled[c])]
        /\ UNCHANGED <<row, outbox>>
    BY <1>7 DEF RecordFails, Return, Goto
  <2>2. /\ pc \in [Commands -> Points]
        /\ told \in [Commands -> Results \cup {"none"}]
    BY <1>t DEF TypeOK, SenderType
  <2>3. AbsentBeforeInsert' /\ AnsweredIsReturned'
    BY <2>1, <2>2 DEF OutcomeInv, AbsentBeforeInsert, AnsweredIsReturned
  <2>4. EventIsRow' /\ OneEventEach'
    BY <1>t, <2>1, <2>2, QuietKeepsEvents DEF OutcomeInv
  <2> QED
    BY <2>3, <2>4 DEF OutcomeInv
<1> QED
  BY <1>1, <1>2, <1>3, <1>4, <1>5, <1>6, <1>7 DEF Sender

LEMMA OutcomeStep == TypeInv /\ OutcomeInv /\ [Next]_vars => OutcomeInv'
<1> SUFFICES ASSUME TypeInv, OutcomeInv, [Next]_vars PROVE OutcomeInv'
  OBVIOUS
<1>t. TypeOK
  BY DEF TypeInv
<1>q. ASSUME UNCHANGED <<row, pc, told, outbox>> PROVE OutcomeInv'
  BY <1>q DEF OutcomeInv, AbsentBeforeInsert, AnsweredIsReturned, EventIsRow, OneEventEach
<1>1. ASSUME NEW c \in Commands, Sender(c) PROVE OutcomeInv'
  BY <1>1, SenderStepOutcome
<1>2. ASSUME NEW c \in Commands, NEW a \in Frames, ChargerAnswers(c, a)
      PROVE  OutcomeInv'
  BY <1>2, <1>q DEF ChargerAnswers
<1>3. ASSUME NEW f \in answers, ReceiveAnswer(f) PROVE OutcomeInv'
  <2>1. f.messageId \in Commands
    BY <1>t DEF TypeOK, WireType
  <2>2. CASE Waits(f.messageId)
    <3>1. "record" \in Points
      BY DEF Points
    <3> QED
      BY <1>3, <1>t, <2>1, <2>2, <3>1, MoveKeepsOutcome DEF ReceiveAnswer, Settle, Waits
  <2>3. CASE ~Waits(f.messageId)
    BY <1>3, <2>3, <1>q DEF ReceiveAnswer, Settle
  <2> QED
    BY <2>2, <2>3
<1>4. CASE LoseFrames
  BY <1>4, <1>q DEF LoseFrames
<1>5. CASE BootstrapCleanup
  BY <1>5, <1>t, TimeOutKeepsOutcome DEF BootstrapCleanup
<1>6. CASE BootstrapCleanupFails
  BY <1>6, <1>q DEF BootstrapCleanupFails
<1>7. CASE Sweep
  <2>1. PICK T \in SUBSET StalePending : TimeOut(T)
    BY <1>7 DEF Sweep
  <2>2. T \in SUBSET Pending
    BY DEF StalePending
  <2> QED
    BY <1>7, <1>t, <2>1, <2>2, TimeOutKeepsOutcome DEF Sweep
<1>8. CASE Crash
  <2>1. /\ \A c \in Commands : pc'[c] = IF pc[c] \in InMemory THEN "dead" ELSE pc[c]
        /\ UNCHANGED <<row, told, outbox>>
    BY <1>8 DEF Crash
  <2>2. AbsentBeforeInsert' /\ AnsweredIsReturned'
    BY <2>1 DEF OutcomeInv, AbsentBeforeInsert, AnsweredIsReturned, InMemory
  <2>3. EventIsRow' /\ OneEventEach'
    BY <1>t, <2>1, QuietKeepsEvents DEF OutcomeInv, InMemory
  <2> QED
    BY <2>2, <2>3 DEF OutcomeInv
<1>9. CASE Done \/ UNCHANGED vars
  BY <1>9, <1>q DEF Done, vars
<1> QED
  BY <1>1, <1>2, <1>3, <1>4, <1>5, <1>6, <1>7, <1>8, <1>9 DEF Next

(* What was published about a command is what its row says, for good, and   *)
(* nothing is published twice (_sender.ts:56-125).                         *)
THEOREM OneOutcome == SafeSpec => []PublishedOutcomeIsFinal
<1>1. OutcomeInv => PublishedOutcomeIsFinal
  BY DEF OutcomeInv, EventIsRow, OneEventEach, PublishedOutcomeIsFinal
<1> QED
  BY TypeInit, TypeStep, OutcomeInit, OutcomeStep, <1>1, PTL DEF SafeSpec

------------------------------------------------------------------------------
(* Answers are kept                                                        *)

LEMMA KeepStep ==
  TypeInv /\ OutcomeInv /\ [Next]_vars =>
    \A c \in Commands : row[c] \in {"completed", "error"} => row'[c] = row[c]
<1> SUFFICES ASSUME TypeInv, OutcomeInv, [Next]_vars,
                    NEW c \in Commands, row[c] \in {"completed", "error"}
             PROVE  row'[c] = row[c]
  OBVIOUS
<1>1. /\ pc[c] = "returned"
      /\ row \in [Commands -> Results \cup {"absent", "pending"}]
  BY DEF OutcomeInv, AnsweredIsReturned, TypeInv, TypeOK, RowType
<1>2. ASSUME NEW d \in Commands, Sender(d) PROVE row'[c] = row[c]
  BY <1>1, <1>2 DEF Sender, Begin, InsertPending, InsertFails, Transmit, TimerFires,
                    RecordResult, RecordFails
<1>3. ASSUME NEW T \in SUBSET Pending, TimeOut(T) PROVE row'[c] = row[c]
  BY <1>3 DEF TimeOut, Pending
<1>4. CASE BootstrapCleanup \/ Sweep
  <2>1. StalePending \subseteq Pending
    BY DEF StalePending
  <2> QED
    BY <1>3, <1>4, <2>1 DEF BootstrapCleanup, Sweep
<1> QED
  BY <1>2, <1>4 DEF Next, ChargerAnswers, ReceiveAnswer, LoseFrames,
                    BootstrapCleanupFails, Crash, Done, vars

(* The charger's answer, once in the row, is not written over by a timer,   *)
(* a janitor or a restart (ocppCommandResult.service.ts:26, 50).           *)
THEOREM AnswersAreKept == SafeSpec => AnswerIsKept
<1>1. TypeInv /\ OutcomeInv /\ [Next]_vars =>
        [\A c \in Commands : row[c] \in {"completed", "error"} => row'[c] = row[c]]_vars
  BY KeepStep
<1> QED
  BY TypeInit, TypeStep, OutcomeInit, OutcomeStep, <1>1, PTL DEF SafeSpec, AnswerIsKept

------------------------------------------------------------------------------
(* The caller, the row and the event                                       *)

LEMMA CallerInit == Init => CallerInv
BY DEF Init, CallerInv, SentHasRow, CallerRowAndEventAgree

(* A step that costs no fault, writes no event, tells nobody and leaves     *)
(* the rows of the commands that are over.                                  *)
LEMMA QuietKeepsCaller ==
  ASSUME TypeInv, OutcomeInv, CallerInv, UNCHANGED <<told, outbox, faults>>,
         \A c \in Commands :
           /\ row[c] \in Results => row'[c] = row[c]
           /\ row'[c] = "absent" => row[c] = "absent"
           /\ pc'[c] \in {"send", "wait", "record"} =>
                pc[c] \in {"send", "wait", "record"} \/ row'[c] # "absent"
  PROVE  CallerInv'
<1>1. SentHasRow'
  BY DEF CallerInv, SentHasRow
<1>2. CallerRowAndEventAgree'
  <2>1. told \in [Commands -> Results \cup {"none"}]
    BY DEF TypeInv, TypeOK, SenderType
  <2> QED
    BY <2>1 DEF CallerInv, CallerRowAndEventAgree
<1> QED
  BY <1>1, <1>2 DEF CallerInv

(* After a fault nothing is claimed.                                       *)
LEMMA FaultKeepsCaller ==
  ASSUME TypeInv, CostsFault
  PROVE  CallerInv'
<1>1. faults' # 0
  BY DEF CostsFault, TypeInv, TypeOK, ProcessType
<1> QED
  BY <1>1 DEF CallerInv, SentHasRow, CallerRowAndEventAgree

LEMMA RecordKeepsCaller ==
  ASSUME TypeInv, OutcomeInv, CallerInv, NEW c \in Commands, RecordResult(c)
  PROVE  CallerInv'
<1> DEFINE r == FinalStatus(settled[c])
<1>1. r \in Results
  BY ReturnType DEF RecordResult
<1>2. /\ pc[c] = "record" /\ row[c] # "absent" /\ UNCHANGED faults
      /\ row' = [row EXCEPT ![c] = r]
      /\ outbox' = Append(outbox, Event(c, r))
      /\ told' = [told EXCEPT ![c] = r]
      /\ pc' = [pc EXCEPT ![c] = "returned"]
  BY DEF RecordResult, Return, Goto
<1>3. /\ pc \in [Commands -> Points]
      /\ row \in [Commands -> Results \cup {"absent", "pending"}]
      /\ told \in [Commands -> Results \cup {"none"}]
      /\ outbox \in Seq([messageId : Commands, status : Results])
  BY DEF TypeInv, TypeOK, SenderType, RowType
<1>4. SentHasRow'
  BY <1>1, <1>2, <1>3 DEF CallerInv, SentHasRow, Results
<1>5. ToSet(outbox') = ToSet(outbox) \cup {Event(c, r)}
  <2> DEFINE S == [messageId : Commands, status : Results]
  <2>1. outbox \in Seq(S) /\ Event(c, r) \in S
    BY <1>1, <1>3 DEF Event
  <2> HIDE DEF S, r
  <2>2. ToSet(Append(outbox, Event(c, r))) = ToSet(outbox) \cup {Event(c, r)}
    BY <2>1, AppendElements
  <2> QED
    BY <1>2, <2>2
<1>6. \A d \in Commands \ {c} : told'[d] = told[d] /\ row'[d] = row[d]
  BY <1>2, <1>3
<1>7. told'[c] = r /\ row'[c] = r
  BY <1>2, <1>3
<1>8. CallerRowAndEventAgree'
  BY <1>2, <1>5, <1>6, <1>7 DEF CallerInv, CallerRowAndEventAgree
<1> QED
  BY <1>4, <1>8 DEF CallerInv

LEMMA CallerStep == TypeInv /\ OutcomeInv /\ CallerInv /\ [Next]_vars => CallerInv'
<1> SUFFICES ASSUME TypeInv, OutcomeInv, CallerInv, [Next]_vars PROVE CallerInv'
  OBVIOUS
<1>t. /\ row \in [Commands -> Results \cup {"absent", "pending"}]
      /\ pc \in [Commands -> Points]
      /\ told \in [Commands -> Results \cup {"none"}]
  BY DEF TypeInv, TypeOK, RowType, SenderType
<1>q. ASSUME UNCHANGED <<row, pc, told, outbox, faults>> PROVE CallerInv'
  BY <1>q, QuietKeepsCaller
<1>1. ASSUME NEW c \in Commands, Sender(c) PROVE CallerInv'
  <2>1. CASE Begin(c)
    BY <1>t, <2>1, QuietKeepsCaller DEF Begin, Goto
  <2>2. CASE InsertPending(c)
    BY <1>t, <2>2, QuietKeepsCaller
    DEF InsertPending, Goto, OutcomeInv, AbsentBeforeInsert, Results
  <2>3. CASE InsertFails(c)
    BY <2>3, FaultKeepsCaller DEF InsertFails
  <2>4. CASE Transmit(c)
    BY <1>t, <2>4, QuietKeepsCaller DEF Transmit, Goto
  <2>5. CASE TimerFires(c)
    BY <1>t, <2>5, QuietKeepsCaller DEF TimerFires, Settle, Waits, Goto
  <2>6. CASE RecordResult(c)
    BY <2>6, RecordKeepsCaller
  <2>7. CASE RecordFails(c)
    <3>1. CASE row[c] = "absent"
      <4>1. faults # 0 /\ UNCHANGED faults
        BY <2>7, <3>1 DEF RecordFails, CallerInv, SentHasRow
      <4> QED
        BY <4>1 DEF CallerInv, SentHasRow, CallerRowAndEventAgree
    <3>2. CASE row[c] # "absent"
      BY <2>7, <3>2, FaultKeepsCaller DEF RecordFails
    <3> QED
      BY <3>1, <3>2
  <2> QED
    BY <1>1, <2>1, <2>2, <2>3, <2>4, <2>5, <2>6, <2>7 DEF Sender
<1>2. ASSUME NEW c \in Commands, NEW a \in Frames, ChargerAnswers(c, a)
      PROVE  CallerInv'
  BY <1>2, <1>q DEF ChargerAnswers
<1>3. ASSUME NEW f \in answers, ReceiveAnswer(f) PROVE CallerInv'
  BY <1>t, <1>3, QuietKeepsCaller DEF ReceiveAnswer, Settle, Waits, Goto
<1>4. CASE LoseFrames \/ Done \/ UNCHANGED vars
  BY <1>4, <1>q DEF LoseFrames, Done, vars
<1>5. CASE BootstrapCleanupFails \/ Crash
  BY <1>5, FaultKeepsCaller DEF BootstrapCleanupFails, Crash
<1>6. ASSUME NEW T \in SUBSET Pending, TimeOut(T), UNCHANGED <<pc, told, outbox, faults>>
      PROVE  CallerInv'
  BY <1>t, <1>6, QuietKeepsCaller DEF TimeOut, Pending, Results
<1>7. CASE BootstrapCleanup \/ Sweep
  <2>1. StalePending \subseteq Pending
    BY DEF StalePending
  <2> QED
    BY <1>6, <1>7, <2>1 DEF BootstrapCleanup, Sweep
<1> QED
  BY <1>1, <1>2, <1>3, <1>4, <1>5, <1>7 DEF Next

(* Without faults the caller of sendCommand, the row and the event agree,   *)
(* even if the sweeper wrote timeout while the answer was being recorded.   *)
THEOREM CallerAgrees == SafeSpec => []CallerRowAndEventAgree
<1>1. CallerInv => CallerRowAndEventAgree
  BY DEF CallerInv
<1> QED
  BY TypeInit, TypeStep, OutcomeInit, OutcomeStep, CallerInit, CallerStep, <1>1,
     PTL DEF SafeSpec
==============================================================================
