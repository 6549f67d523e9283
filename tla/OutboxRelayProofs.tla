-------------------------- MODULE OutboxRelayProofs --------------------------
(***************************************************************************)
(* Proofs about OutboxRelay: type correctness, the critical section that   *)
(* `running` makes of tick(), what is known of a row the relay retired,    *)
(* the refinement of EventDelivery (its safety part), how often an event   *)
(* is appended and in which order.                                         *)
(***************************************************************************)
EXTENDS OutboxRelay, FiniteSetTheorems, WellFoundedInduction, TLAPS

USE RowsAssumption, AttemptsAssumption, FaultsAssumption DEF Ids

------------------------------------------------------------------------------
(* Sequences: what appending does to the set of elements.                  *)

LEMMA AppendElements ==
  ASSUME NEW S, NEW s \in Seq(S), NEW e \in S
  PROVE  /\ Append(s, e) \in Seq(S)
         /\ ToSet(Append(s, e)) = ToSet(s) \cup {e}
<1>1. Append(s, e) \in Seq(S)
  OBVIOUS
<1>2. /\ DOMAIN Append(s, e) = 1 .. Len(s) + 1
      /\ Append(s, e)[Len(s) + 1] = e
      /\ \A k \in 1 .. Len(s) : Append(s, e)[k] = s[k]
      /\ DOMAIN s = 1 .. Len(s) /\ Len(s) \in Nat
  OBVIOUS
<1>3. ToSet(Append(s, e)) \subseteq ToSet(s) \cup {e}
  BY <1>2 DEF ToSet
<1>4. ToSet(s) \cup {e} \subseteq ToSet(Append(s, e))
  BY <1>2 DEF ToSet
<1> QED
  BY <1>1, <1>3, <1>4

LEMMA IdsAppended ==
  \A s \in Seq(Ids), e \in Ids : ToSet(Append(s, e)) = ToSet(s) \cup {e}
<1> HIDE DEF Ids
<1>1. ASSUME NEW s \in Seq(Ids), NEW e \in Ids
      PROVE  ToSet(Append(s, e)) = ToSet(s) \cup {e}
  BY AppendElements
<1> QED BY <1>1

(* A batch is made of eligible rows.                                       *)
LEMMA BatchIsEligible == Batch(Eligible) \subseteq Eligible
BY DEF Batch

------------------------------------------------------------------------------
(* Type correctness.  The types alone are not inductive: `attempts` stays  *)
(* within MaxAttempts because a batch holds only rows read below it.       *)

BatchBelowLimit ==
  \A t \in Ticks : \A i \in todo[t] : seen[t][i] < MaxAttempts

TypeInv == TypeOK /\ BatchBelowLimit

LEMMA NoAttemptsType == NoAttempts \in [Ids -> 0 .. MaxAttempts]
BY DEF NoAttempts

LEMMA TypeInit == Init => TypeInv
<1> SUFFICES ASSUME Init PROVE TypeInv
  OBVIOUS
<1>1. TableType
  BY NoAttemptsType DEF Init, TableType, RowStates
<1>2. RedisType
  BY DEF Init, RedisType
<1>3. RelayType
  BY NoAttemptsType DEF Init, RelayType, ProcStates, Points
<1>4. HistoryType
  BY DEF Init, HistoryType
<1>5. BatchBelowLimit
  BY DEF Init, BatchBelowLimit
<1> QED
  BY <1>1, <1>2, <1>3, <1>4, <1>5 DEF TypeInv, TypeOK

LEMMA FinishType ==
  ASSUME RelayType, BatchBelowLimit, NEW t \in Ticks, Finish(t)
  PROVE  RelayType' /\ BatchBelowLimit'
BY NoAttemptsType DEF RelayType, BatchBelowLimit, Finish, Points

LEMMA AdvanceType ==
  ASSUME RelayType, BatchBelowLimit, NEW t \in Ticks, NEW i \in Ids, Advance(t, i)
  PROVE  RelayType' /\ BatchBelowLimit'
<1>1. CASE todo[t] = {i}
  BY <1>1, FinishType DEF Advance
<1>2. CASE todo[t] # {i}
  <2>1. /\ pc' = [pc EXCEPT ![t] = "publish"]
        /\ todo' = [todo EXCEPT ![t] = @ \ {i}]
        /\ UNCHANGED <<seen, proc, running>>
    BY <1>2 DEF Advance, process
  <2>2. RelayType'
    BY <2>1 DEF RelayType, Points
  <2>3. BatchBelowLimit'
    BY <2>1 DEF RelayType, BatchBelowLimit
  <2> QED
    BY <2>2, <2>3
<1> QED
  BY <1>1, <1>2

LEMMA GotoType ==
  ASSUME RelayType, BatchBelowLimit, NEW t \in Ticks, NEW p \in Points, Goto(t, p)
  PROVE  RelayType' /\ BatchBelowLimit'
BY DEF RelayType, BatchBelowLimit, Goto, process

(* A command sent again: the same await goes on.                           *)
LEMMA StaysPut ==
  ASSUME RelayType, NEW t \in Ticks, UNCHANGED <<process, local>>
  PROVE  Goto(t, pc[t])
BY DEF RelayType, Goto, local

LEMMA HandleType ==
  ASSUME TypeInv, NEW t \in Ticks, NEW i \in Ids, Handle(t, i)
  PROVE  TypeInv'
<1> USE DEF TypeInv, TypeOK
<1>a. {"mark", "failed", "retire"} \subseteq Points
  BY DEF Points
<1>b. At(t, i, "failed") \/ At(t, i, "retire") => seen[t][i] + 1 \in 0 .. MaxAttempts
  BY DEF At, BatchBelowLimit, RelayType
<1>c. Append(stream, i) \in Seq(Ids) /\ Append(dlq, i) \in Seq(Ids)
  BY AppendElements DEF RedisType
<1>1. CASE PublishOk(t, i)
  <2>1. RedisType'
    BY <1>1, <1>c DEF PublishOk, RedisType
  <2> QED
    BY <1>1, <1>a, <2>1, GotoType DEF PublishOk, TableType, HistoryType, table, history
<1>2. CASE PublishFails(t, i)
  <2>1. RedisType'
    BY <1>2, <1>c DEF PublishFails, RedisType
  <2>2. HistoryType'
    BY <1>2 DEF PublishFails, HistoryType
  <2> QED
    BY <1>2, <1>a, <2>1, <2>2, GotoType DEF PublishFails, TableType, table
<1>3. CASE MarkOk(t, i)
  <2>1. TableType'
    BY <1>3 DEF MarkOk, TableType
  <2> QED
    BY <1>3, <2>1, AdvanceType DEF MarkOk, RedisType, HistoryType, redis, history
<1>4. CASE MarkFails(t, i)
  <2>1. HistoryType'
    BY <1>4 DEF MarkFails, CostsFault, HistoryType
  <2> QED
    BY <1>4, <1>a, <2>1, GotoType DEF MarkFails, TableType, RedisType, table, redis
<1>5. CASE RecordFailure(t, i)
  <2>1. TableType'
    BY <1>5, <1>b DEF RecordFailure, TableType
  <2> QED
    BY <1>5, <2>1, AdvanceType DEF RecordFailure, RedisType, HistoryType, redis, history
<1>6. CASE DeadLetterOk(t, i)
  <2>1. RedisType'
    BY <1>6, <1>c DEF DeadLetterOk, RedisType
  <2> QED
    BY <1>6, <1>a, <2>1, GotoType DEF DeadLetterOk, TableType, HistoryType, table, history
<1>7. CASE DeadLetterFails(t, i)
  <2>1. RedisType'
    BY <1>7, <1>c DEF DeadLetterFails, RedisType
  <2>2. HistoryType'
    BY <1>7 DEF DeadLetterFails, HistoryType
  <2> QED
    BY <1>7, <1>a, <2>1, <2>2, GotoType DEF DeadLetterFails, TableType, table
<1>8. CASE Retire(t, i)
  <2>1. TableType'
    BY <1>8, <1>b DEF Retire, TableType
  <2> QED
    BY <1>8, <2>1, AdvanceType DEF Retire, RedisType, HistoryType, redis, history
<1>9. CASE UpdateFails(t, i)
  <2>1. HistoryType'
    BY <1>9 DEF UpdateFails, CostsFault, HistoryType
  <2> QED
    BY <1>9, <2>1, FinishType DEF UpdateFails, TableType, RedisType, table, redis
<1>10. CASE PublishAgain(t, i) \/ DeadLetterAgain(t, i)
  <2>1. RedisType'
    BY <1>10, <1>c DEF PublishAgain, DeadLetterAgain, RedisType
  <2>2. HistoryType'
    <3>1. CostsFault /\ UNCHANGED <<dlqLost, troubled, late>>
      BY <1>10 DEF PublishAgain, DeadLetterAgain
    <3> QED
      BY <3>1, FaultsAssumption DEF CostsFault, HistoryType
  <2>3. UNCHANGED <<table, process, local>>
    BY <1>10 DEF PublishAgain, DeadLetterAgain
  <2>4. TableType' /\ RelayType' /\ BatchBelowLimit'
    BY <2>3 DEF TableType, RelayType, BatchBelowLimit, table, process, local
  <2> QED
    BY <2>1, <2>2, <2>4
<1> QED
  BY <1>1, <1>2, <1>3, <1>4, <1>5, <1>6, <1>7, <1>8, <1>9, <1>10 DEF Handle

LEMMA TickStepType ==
  ASSUME TypeInv, NEW t \in Ticks, TickStep(t)
  PROVE  TypeInv'
<1> USE DEF TypeInv, TypeOK
<1>1. CASE Query(t)
  <2>1. CASE Batch(Eligible) = {}
    BY <1>1, <2>1, FinishType
    DEF Query, TableType, RedisType, HistoryType, table, redis, history
  <2>2. CASE Batch(Eligible) # {}
    <3>1. Batch(Eligible) \subseteq {i \in Ids : attempts[i] < MaxAttempts}
      BY BatchIsEligible DEF Eligible
    <3>2. RelayType'
      BY <1>1, <2>2, <3>1 DEF Query, RelayType, TableType, Points, process
    <3>3. BatchBelowLimit'
      BY <1>1, <2>2, <3>1 DEF Query, RelayType, TableType, BatchBelowLimit
    <3> QED
      BY <1>1, <3>2, <3>3
      DEF Query, TableType, RedisType, HistoryType, table, redis, history
  <2> QED
    BY <2>1, <2>2
<1>2. CASE QueryFails(t)
  <2>1. HistoryType'
    BY <1>2 DEF QueryFails, CostsFault, HistoryType
  <2> QED
    BY <1>2, <2>1, FinishType DEF QueryFails, TableType, RedisType, table, redis
<1> QED
  BY <1>1, <1>2, HandleType DEF TickStep

LEMMA DieType ==
  ASSUME TypeInv, Die
  PROVE  TableType' /\ RedisType' /\ RelayType' /\ BatchBelowLimit'
<1> USE DEF TypeInv, TypeOK
<1>1. TableType'
  BY DEF Die, TableType, RowStates
<1>2. RelayType' /\ BatchBelowLimit'
  BY NoAttemptsType DEF Die, RelayType, BatchBelowLimit, ProcStates, Points
<1> QED
  BY <1>1, <1>2 DEF Die, RedisType, redis

LEMMA TypeStep == TypeInv /\ [Next]_vars => TypeInv'
<1> SUFFICES ASSUME TypeInv, [Next]_vars PROVE TypeInv'
  OBVIOUS
<1> USE DEF TypeInv, TypeOK
<1>1. CASE WriteOutbox
  <2>1. TableType'
    BY <1>1 DEF WriteOutbox, TableType, RowStates
  <2> QED
    BY <1>1, <2>1 DEF WriteOutbox, RedisType, RelayType, HistoryType,
      BatchBelowLimit, redis, process, local, history
<1>2. ASSUME NEW i \in Ids, Commit(i) \/ Rollback(i) PROVE TypeInv'
  <2>1. TableType'
    BY <1>2 DEF Commit, Rollback, TableType, RowStates
  <2>2. HistoryType'
    BY <1>2 DEF Commit, Rollback, HistoryType, history
  <2> QED
    BY <1>2, <2>1, <2>2 DEF Commit, Rollback, RedisType, RelayType,
      BatchBelowLimit, redis, process, local
<1>3. ASSUME NEW t \in Ticks, StartTick(t) PROVE TypeInv'
  <2>1. RelayType' /\ BatchBelowLimit'
    BY <1>3 DEF StartTick, RelayType, BatchBelowLimit, Points
  <2> QED
    BY <1>3, <2>1 DEF StartTick, TableType, RedisType, HistoryType,
      table, redis, history
<1>4. CASE StartRelay
  BY <1>4 DEF StartRelay, TableType, RedisType, RelayType, HistoryType,
    BatchBelowLimit, ProcStates, table, redis, local, history
<1>5. CASE StopRelay
  <2>1. HistoryType'
    BY <1>5 DEF StopRelay, CostsFault, HistoryType
  <2>2. RelayType' /\ BatchBelowLimit'
    BY <1>5 DEF StopRelay, RelayType, BatchBelowLimit, ProcStates, local
  <2> QED
    BY <1>5, <2>1, <2>2 DEF StopRelay, TableType, RedisType, table, redis
<1>6. CASE Exit
  BY <1>6, DieType DEF Exit, HistoryType, history
<1>7. CASE Crash
  <2>1. HistoryType'
    BY <1>7 DEF Crash, CostsFault, HistoryType
  <2> QED
    BY <1>7, <2>1, DieType DEF Crash
<1>8. CASE UNCHANGED vars
  BY <1>8 DEF TableType, RedisType, RelayType, HistoryType, BatchBelowLimit,
    vars, table, redis, process, local, history
<1> QED
  BY <1>1, <1>2, <1>3, <1>4, <1>5, <1>6, <1>7, <1>8, TickStepType DEF Next

(* Every variable keeps its type; in particular no row is ever tried more  *)
(* than MAX_ATTEMPTS times by its own count.                               *)
THEOREM TypeCorrect == SafeSpec => []TypeOK
<1>1. TypeInv => TypeOK
  BY DEF TypeInv
<1> QED
  BY <1>1, TypeInit, TypeStep, PTL DEF SafeSpec

------------------------------------------------------------------------------
(* The inductive invariant.  `running` admits one invocation of tick() at  *)
(* a time (Control), so nobody else touches the rows of its batch          *)
(* (BatchIsCurrent) and what it did to the row at hand is still so when it *)
(* marks or retires it (RowAtHand).                                        *)

Control ==
  \A t \in Ticks :
    /\ pc[t] # "idle" => running /\ \A u \in Ticks : pc[u] # "idle" => u = t
    /\ pc[t] \notin InBatch => todo[t] = {}

BatchIsCurrent ==
  \A t \in Ticks : \A i \in todo[t] :
    rowState[i] = "committed" /\ ~published[i] /\ seen[t][i] = attempts[i]

RowAtHand ==
  \A t \in Ticks : \A i \in Ids :
    /\ At(t, i, "mark") => i \in ToSet(stream)
    /\ At(t, i, "retire") => LastAttempt(t, i) /\ i \in ToSet(dlq) \cup dlqLost

(* The sequence is ahead of every row: an insertion never reuses an id.    *)
FreshRows == \A i \in Ids : i >= nextId => rowState[i] = "free"

RetiredIsCommitted == \A i \in Ids : published[i] => rowState[i] = "committed"

IInv ==
  /\ TypeInv
  /\ Control
  /\ BatchIsCurrent
  /\ RowAtHand
  /\ FreshRows
  /\ RetiredIsCommitted
  /\ RetiredIsAccountedFor
  /\ OnlyCommittedEventsLeave

LEMMA InvInit == Init => IInv
<1> SUFFICES ASSUME Init PROVE IInv
  OBVIOUS
<1>1. TypeInv
  BY TypeInit
<1>2. Control /\ BatchIsCurrent /\ RowAtHand
  BY DEF Init, Control, BatchIsCurrent, RowAtHand, At, InBatch
<1>3. FreshRows /\ RetiredIsCommitted /\ RetiredIsAccountedFor
  BY DEF Init, FreshRows, RetiredIsCommitted, RetiredIsAccountedFor, NoAttempts
<1>4. OnlyCommittedEventsLeave
  BY DEF Init, OnlyCommittedEventsLeave, ToSet
<1> QED
  BY <1>1, <1>2, <1>3, <1>4 DEF IInv

(* What the three ways of moving on inside tick() do to its local state.   *)
LEMMA FinishControl ==
  ASSUME RelayType, Control, NEW t \in Ticks, pc[t] # "idle", Finish(t)
  PROVE  Control' /\ \A u \in Ticks : todo'[u] = {}
BY DEF RelayType, Control, Finish, InBatch

LEMMA AdvanceControl ==
  ASSUME RelayType, Control, NEW t \in Ticks, NEW i \in Ids,
         pc[t] \in InBatch, i \in todo[t], Advance(t, i)
  PROVE  /\ Control'
         /\ \A u \in Ticks : u # t => todo'[u] = {}
         /\ todo'[t] \subseteq todo[t] \ {i}
         /\ todo'[t] # {} => seen' = seen /\ pc'[t] = "publish"
<1>1. CASE todo[t] = {i}
  BY <1>1, FinishControl DEF Advance, InBatch
<1>2. CASE todo[t] # {i}
  <2>1. /\ pc'[t] = "publish" /\ todo'[t] = todo[t] \ {i}
        /\ seen' = seen /\ running' = running
        /\ \A u \in Ticks : u # t => pc'[u] = pc[u] /\ todo'[u] = todo[u]
    BY <1>2 DEF Advance, RelayType, process
  <2>2. running /\ \A u \in Ticks : u # t => pc[u] = "idle" /\ todo[u] = {}
    BY DEF Control, InBatch
  <2> QED
    BY <2>1, <2>2 DEF Control, InBatch
<1> QED
  BY <1>1, <1>2

LEMMA GotoControl ==
  ASSUME RelayType, Control, NEW t \in Ticks, pc[t] \in InBatch,
         NEW p \in InBatch, Goto(t, p)
  PROVE  /\ Control'
         /\ \A u \in Ticks : u # t => todo'[u] = {}
         /\ todo' = todo /\ seen' = seen /\ pc'[t] = p
BY DEF Goto, RelayType, Control, process, InBatch

LEMMA EmptyBatches ==
  ASSUME \A u \in Ticks : todo'[u] = {}
  PROVE  BatchIsCurrent' /\ RowAtHand'
BY DEF BatchIsCurrent, RowAtHand, At

(* A row at hand: the facts the invariant gives about it.                  *)
LEMMA AtHand ==
  ASSUME IInv, NEW t \in Ticks, NEW i \in Ids, NEW p \in InBatch, At(t, i, p)
  PROVE  /\ pc[t] = p /\ i \in todo[t] /\ \A j \in todo[t] : i <= j
         /\ rowState[i] = "committed" /\ ~published[i]
         /\ seen[t][i] = attempts[i] /\ seen[t][i] < MaxAttempts
BY DEF IInv, At, BatchIsCurrent, TypeInv, BatchBelowLimit

(* The steps that go from one await of the row at hand to the next: the    *)
(* table is untouched, the streams may have grown by that row.             *)
LEMMA GotoInv ==
  ASSUME IInv, TypeInv', FreshRows', NEW t \in Ticks, NEW i \in Ids,
         NEW p \in InBatch, At(t, i, p), NEW q \in InBatch, Goto(t, q),
         UNCHANGED table,
         ToSet(stream) \subseteq ToSet(stream'),
         ToSet(stream') \subseteq ToSet(stream) \cup {i},
         ToSet(dlq) \subseteq ToSet(dlq'),
         ToSet(dlq') \subseteq ToSet(dlq) \cup {i},
         dlqLost \subseteq dlqLost',
         q = "mark" => i \in ToSet(stream'),
         q = "retire" => LastAttempt(t, i) /\ i \in ToSet(dlq') \cup dlqLost'
  PROVE  IInv'
<1>1. /\ pc[t] = p /\ i \in todo[t] /\ \A j \in todo[t] : i <= j
      /\ rowState[i] = "committed" /\ ~published[i]
  BY AtHand
<1>2. /\ Control'
      /\ \A u \in Ticks : u # t => todo'[u] = {}
      /\ todo' = todo /\ seen' = seen /\ pc'[t] = q
  BY <1>1, GotoControl DEF IInv, TypeInv, TypeOK
<1>3. BatchIsCurrent'
  BY <1>2 DEF IInv, BatchIsCurrent, table
<1>4. RowAtHand'
  <2> SUFFICES ASSUME NEW u \in Ticks, NEW j \in Ids, NEW r \in {"mark", "retire"},
                      At(u, j, r)'
               PROVE  /\ r = "mark" => j \in ToSet(stream')
                      /\ r = "retire" => LastAttempt(u, j)' /\ j \in ToSet(dlq') \cup dlqLost'
    BY DEF RowAtHand
  <2>1. u = t /\ q = r
    BY <1>2 DEF At
  <2>2. j = i
    BY <1>1, <1>2, <2>1 DEF At
  <2>3. LastAttempt(u, j)' <=> LastAttempt(t, i)
    BY <1>2, <2>1, <2>2 DEF LastAttempt
  <2> QED
    BY <2>1, <2>2, <2>3
<1>5. RetiredIsCommitted' /\ RetiredIsAccountedFor'
  BY DEF IInv, RetiredIsCommitted, RetiredIsAccountedFor, table
<1>6. OnlyCommittedEventsLeave'
  BY <1>1 DEF IInv, OnlyCommittedEventsLeave, table
<1> QED
  BY <1>2, <1>3, <1>4, <1>5, <1>6 DEF IInv

(* The steps that finish the row at hand: only that row changes, and if it *)
(* is not to be looked at again its event is accounted for.                *)
LEMMA AdvanceInv ==
  ASSUME IInv, TypeInv', FreshRows', NEW t \in Ticks, NEW i \in Ids,
         NEW p \in InBatch, At(t, i, p), Advance(t, i),
         UNCHANGED <<rowState, stream, dlq, dlqLost>>,
         \A j \in Ids \ {i} : attempts'[j] = attempts[j] /\ published'[j] = published[j],
         published'[i] \/ attempts'[i] = MaxAttempts
           => i \in ToSet(stream) \cup ToSet(dlq) \cup dlqLost
  PROVE  IInv'
<1>1. /\ pc[t] = p /\ i \in todo[t] /\ rowState[i] = "committed"
  BY AtHand
<1>2. /\ Control'
      /\ \A u \in Ticks : u # t => todo'[u] = {}
      /\ todo'[t] \subseteq todo[t] \ {i}
      /\ todo'[t] # {} => seen' = seen /\ pc'[t] = "publish"
  BY <1>1, AdvanceControl DEF IInv, TypeInv, TypeOK
<1>3. BatchIsCurrent'
  <2> SUFFICES ASSUME NEW u \in Ticks, NEW j \in todo'[u]
               PROVE  rowState'[j] = "committed" /\ ~published'[j] /\ seen'[u][j] = attempts'[j]
    BY DEF BatchIsCurrent
  <2>1. u = t /\ j \in todo[t] /\ j # i /\ seen' = seen /\ j \in Ids
    BY <1>2 DEF IInv, TypeInv, TypeOK, RelayType
  <2> QED
    BY <2>1 DEF IInv, BatchIsCurrent
<1>4. RowAtHand'
  BY <1>2 DEF RowAtHand, At
<1>5. RetiredIsCommitted'
  BY <1>1 DEF IInv, RetiredIsCommitted
<1>6. RetiredIsAccountedFor'
  BY DEF IInv, RetiredIsAccountedFor
<1>7. OnlyCommittedEventsLeave'
  BY DEF IInv, OnlyCommittedEventsLeave
<1> QED
  BY <1>2, <1>3, <1>4, <1>5, <1>6, <1>7 DEF IInv

(* The steps that end the invocation without touching table or streams.    *)
LEMMA FinishInv ==
  ASSUME IInv, TypeInv', FreshRows', NEW t \in Ticks, pc[t] # "idle", Finish(t),
         UNCHANGED <<table, redis, dlqLost>>
  PROVE  IInv'
<1>1. Control' /\ BatchIsCurrent' /\ RowAtHand'
  BY FinishControl, EmptyBatches DEF IInv, TypeInv, TypeOK
<1>2. RetiredIsCommitted' /\ RetiredIsAccountedFor' /\ OnlyCommittedEventsLeave'
  BY DEF IInv, RetiredIsCommitted, RetiredIsAccountedFor,
    OnlyCommittedEventsLeave, table, redis
<1> QED
  BY <1>1, <1>2 DEF IInv

LEMMA HandleInv ==
  ASSUME IInv, TypeInv', FreshRows', NEW t \in Ticks, NEW i \in Ids, Handle(t, i)
  PROVE  IInv'
<1>a. InBatch = {"publish", "mark", "failed", "retire"}
  BY DEF InBatch
<1>b. /\ ToSet(Append(stream, i)) = ToSet(stream) \cup {i}
      /\ ToSet(Append(dlq, i)) = ToSet(dlq) \cup {i}
  <2>1. stream \in Seq(Ids) /\ dlq \in Seq(Ids)
    BY DEF IInv, TypeInv, TypeOK, RedisType
  <2>2. ToSet(Append(stream, i)) = ToSet(stream) \cup {i}
    BY <2>1, IdsAppended
  <2>3. ToSet(Append(dlq, i)) = ToSet(dlq) \cup {i}
    BY <2>1, IdsAppended
  <2> QED BY <2>2, <2>3
<1>c. RelayType /\ TableType
  BY DEF IInv, TypeInv, TypeOK
<1>1. CASE PublishOk(t, i)
  <2>1. /\ At(t, i, "publish") /\ Goto(t, "mark") /\ UNCHANGED <<table, dlq, dlqLost>>
        /\ ToSet(stream') = ToSet(stream) \cup {i}
    BY <1>1, <1>b DEF PublishOk, history
  <2> QED
    BY <1>a, <2>1, GotoInv
<1>2. CASE PublishFails(t, i)
  <2>1. /\ At(t, i, "publish") /\ Goto(t, "failed") /\ UNCHANGED <<table, dlq, dlqLost>>
        /\ ToSet(stream') \in {ToSet(stream), ToSet(stream) \cup {i}}
    BY <1>2, <1>b DEF PublishFails
  <2> QED
    BY <1>a, <2>1, GotoInv
<1>3. CASE MarkOk(t, i)
  <2>1. /\ At(t, i, "mark") /\ Advance(t, i)
        /\ published' = [published EXCEPT ![i] = TRUE]
        /\ UNCHANGED <<rowState, attempts, stream, dlq, dlqLost>>
    BY <1>3 DEF MarkOk, redis, history
  <2>2. i \in ToSet(stream)
    BY <2>1 DEF IInv, RowAtHand
  <2>3. \A j \in Ids \ {i} : attempts'[j] = attempts[j] /\ published'[j] = published[j]
    BY <1>c, <2>1 DEF TableType
  <2> QED
    BY <1>a, <2>1, <2>2, <2>3, AdvanceInv
<1>4. CASE MarkFails(t, i)
  <2>1. At(t, i, "mark") /\ Goto(t, "failed") /\ UNCHANGED <<table, stream, dlq, dlqLost>>
    BY <1>4 DEF MarkFails, redis
  <2> QED
    BY <1>a, <2>1, GotoInv
<1>5. CASE RecordFailure(t, i)
  <2>1. /\ At(t, i, "failed") /\ Advance(t, i) /\ ~LastAttempt(t, i)
        /\ attempts' = [attempts EXCEPT ![i] = seen[t][i] + 1]
        /\ UNCHANGED <<rowState, published, stream, dlq, dlqLost>>
    BY <1>5 DEF RecordFailure, redis, history
  <2>2. ~published'[i] /\ attempts'[i] # MaxAttempts
    BY <1>a, <1>c, <2>1, AtHand DEF TableType, RelayType, LastAttempt
  <2>3. \A j \in Ids \ {i} : attempts'[j] = attempts[j] /\ published'[j] = published[j]
    BY <1>c, <2>1 DEF TableType
  <2> QED
    BY <1>a, <2>1, <2>2, <2>3, AdvanceInv
<1>6. CASE DeadLetterOk(t, i)
  <2>1. /\ At(t, i, "failed") /\ Goto(t, "retire") /\ LastAttempt(t, i)
        /\ UNCHANGED <<table, stream, dlqLost>>
        /\ ToSet(dlq') = ToSet(dlq) \cup {i}
    BY <1>6, <1>b DEF DeadLetterOk, history
  <2> QED
    BY <1>a, <2>1, GotoInv
<1>7. CASE DeadLetterFails(t, i)
  <2>1. /\ At(t, i, "failed") /\ Goto(t, "retire") /\ LastAttempt(t, i)
        /\ UNCHANGED <<table, stream>>
        /\ \/ ToSet(dlq') = ToSet(dlq) \cup {i} /\ dlqLost' = dlqLost
           \/ ToSet(dlq') = ToSet(dlq) /\ dlqLost' = dlqLost \cup ({i} \ ToSet(dlq))
    BY <1>7, <1>b DEF DeadLetterFails
  <2> QED
    BY <1>a, <2>1, GotoInv
<1>8. CASE Retire(t, i)
  <2>1. /\ At(t, i, "retire") /\ Advance(t, i)
        /\ attempts' = [attempts EXCEPT ![i] = seen[t][i] + 1]
        /\ published' = [published EXCEPT ![i] = TRUE]
        /\ UNCHANGED <<rowState, stream, dlq, dlqLost>>
    BY <1>8 DEF Retire, redis, history
  <2>2. i \in ToSet(dlq) \cup dlqLost
    BY <2>1 DEF IInv, RowAtHand
  <2>3. \A j \in Ids \ {i} : attempts'[j] = attempts[j] /\ published'[j] = published[j]
    BY <1>c, <2>1 DEF TableType
  <2> QED
    BY <1>a, <2>1, <2>2, <2>3, AdvanceInv
<1>9. CASE UpdateFails(t, i)
  <2>1. pc[t] # "idle" /\ Finish(t) /\ UNCHANGED <<table, redis, dlqLost>>
    BY <1>9 DEF UpdateFails, At
  <2> QED
    BY <2>1, FinishInv
<1>10. CASE PublishAgain(t, i)
  <2>1. /\ At(t, i, "publish") /\ UNCHANGED <<process, local, table, dlq, dlqLost>>
        /\ ToSet(stream') = ToSet(stream) \cup {i}
    BY <1>10, <1>b DEF PublishAgain
  <2>2. Goto(t, "publish")
    BY <1>c, <2>1, StaysPut DEF At
  <2> QED
    BY <1>a, <2>1, <2>2, GotoInv
<1>11. CASE DeadLetterAgain(t, i)
  <2>1. /\ At(t, i, "failed") /\ UNCHANGED <<process, local, table, stream, dlqLost>>
        /\ ToSet(dlq') = ToSet(dlq) \cup {i}
    BY <1>11, <1>b DEF DeadLetterAgain
  <2>2. Goto(t, "failed")
    BY <1>c, <2>1, StaysPut DEF At
  <2> QED
    BY <1>a, <2>1, <2>2, GotoInv
<1> QED
  BY <1>1, <1>2, <1>3, <1>4, <1>5, <1>6, <1>7, <1>8, <1>9, <1>10, <1>11 DEF Handle

LEMMA TickStepInv ==
  ASSUME IInv, TypeInv', FreshRows', NEW t \in Ticks, TickStep(t)
  PROVE  IInv'
<1>1. CASE Query(t) /\ Batch(Eligible) = {}
  BY <1>1, FinishInv DEF Query, history
<1>2. CASE Query(t) /\ Batch(Eligible) # {}
  <2>1. /\ pc[t] = "query"
        /\ todo' = [todo EXCEPT ![t] = Batch(Eligible)]
        /\ seen' = [seen EXCEPT ![t] = attempts]
        /\ pc' = [pc EXCEPT ![t] = "publish"]
        /\ UNCHANGED <<rowState, attempts, published, stream, dlq, dlqLost, running>>
    BY <1>2 DEF Query, table, redis, process, history
  <2>2. RelayType
    BY DEF IInv, TypeInv, TypeOK
  <2>3. Batch(Eligible) \subseteq {i \in Ids : rowState[i] = "committed" /\ ~published[i]}
    BY BatchIsEligible DEF Eligible
  <2>4. Control'
    BY <2>1, <2>2 DEF IInv, Control, RelayType, InBatch
  <2>5. BatchIsCurrent'
    BY <2>1, <2>2, <2>3 DEF IInv, BatchIsCurrent, RelayType
  <2>6. RowAtHand'
    BY <2>1, <2>2 DEF IInv, RowAtHand, RelayType, Control, At, InBatch
  <2>7. RetiredIsCommitted' /\ RetiredIsAccountedFor' /\ OnlyCommittedEventsLeave'
    BY <2>1 DEF IInv, RetiredIsCommitted, RetiredIsAccountedFor, OnlyCommittedEventsLeave
  <2> QED
    BY <2>4, <2>5, <2>6, <2>7 DEF IInv
<1>3. CASE QueryFails(t)
  BY <1>3, FinishInv DEF QueryFails
<1> QED
  BY <1>1, <1>2, <1>3, HandleInv DEF TickStep, Query

LEMMA FreshStep == IInv /\ [Next]_vars => FreshRows'
<1> SUFFICES ASSUME IInv, [Next]_vars PROVE FreshRows'
  OBVIOUS
<1>1. TableType /\ FreshRows
  BY DEF IInv, TypeInv, TypeOK
<1>2. CASE WriteOutbox
  BY <1>1, <1>2 DEF WriteOutbox, TableType, FreshRows
<1>3. ASSUME NEW i \in Ids, Commit(i) \/ Rollback(i) PROVE FreshRows'
  BY <1>1, <1>3 DEF Commit, Rollback, TableType, FreshRows
<1>4. CASE Exit \/ Crash
  BY <1>1, <1>4 DEF Exit, Crash, Die, TableType, FreshRows
<1>5. CASE UNCHANGED <<nextId, rowState>>
  BY <1>1, <1>5 DEF FreshRows
<1>6. ASSUME NEW t \in Ticks, StartTick(t) \/ TickStep(t)
      PROVE  UNCHANGED <<nextId, rowState>>
  BY <1>6 DEF StartTick, TickStep, Query, QueryFails, Handle, PublishAgain, PublishOk,
    PublishFails, DeadLetterAgain, MarkOk, MarkFails, RecordFailure, DeadLetterOk,
    DeadLetterFails, Retire, UpdateFails, table
<1> QED
  BY <1>2, <1>3, <1>4, <1>5, <1>6 DEF Next, StartRelay, StopRelay, table, vars

LEMMA InvStep == IInv /\ [Next]_vars => IInv'
<1> SUFFICES ASSUME IInv, [Next]_vars PROVE IInv'
  OBVIOUS
<1>a. TypeInv' /\ FreshRows'
  BY TypeStep, FreshStep DEF IInv
<1>b. TableType /\ RelayType
  BY DEF IInv, TypeInv, TypeOK
<1>c. ASSUME UNCHANGED <<attempts, published, stream, dlq, dlqLost>>,
             \A i \in Ids : rowState[i] = "committed" => rowState'[i] = "committed"
      PROVE  RetiredIsCommitted' /\ RetiredIsAccountedFor' /\ OnlyCommittedEventsLeave'
  <2>1. ToSet(stream) \subseteq Ids /\ ToSet(dlq) \subseteq Ids
    BY DEF IInv, TypeInv, TypeOK, RedisType, ToSet
  <2> QED
    BY <1>c, <2>1 DEF IInv, RetiredIsCommitted, RetiredIsAccountedFor,
      OnlyCommittedEventsLeave
<1>1. CASE WriteOutbox \/ \E i \in Ids : Commit(i) \/ Rollback(i)
  <2>1. \A i \in Ids : rowState[i] = "committed" => rowState'[i] = "committed"
    BY <1>1, <1>b DEF IInv, WriteOutbox, Commit, Rollback, TableType, FreshRows
  <2>2. UNCHANGED <<attempts, published, redis, process, local, dlqLost>>
    BY <1>1 DEF WriteOutbox, Commit, Rollback, history
  <2>3. Control' /\ RowAtHand'
    BY <2>2 DEF IInv, Control, RowAtHand, At, LastAttempt, redis, process, local
  <2>4. BatchIsCurrent'
    BY <1>b, <2>1, <2>2 DEF IInv, BatchIsCurrent, RelayType, local
  <2> QED
    BY <1>a, <1>c, <2>1, <2>2, <2>3, <2>4 DEF IInv, redis
<1>2. ASSUME NEW t \in Ticks, StartTick(t) PROVE IInv'
  <2>1. /\ ~running /\ pc[t] = "idle" /\ running' = TRUE
        /\ pc' = [pc EXCEPT ![t] = "query"]
        /\ UNCHANGED <<table, redis, todo, seen, history>>
    BY <1>2 DEF StartTick, TickMayStart
  <2>2. Control'
    BY <1>b, <2>1 DEF IInv, Control, RelayType, InBatch
  <2>3. BatchIsCurrent'
    BY <2>1 DEF IInv, BatchIsCurrent, table
  <2>4. RowAtHand'
    BY <1>b, <2>1 DEF IInv, RowAtHand, At, LastAttempt, RelayType, redis, history
  <2>5. RetiredIsCommitted' /\ RetiredIsAccountedFor' /\ OnlyCommittedEventsLeave'
    BY <1>c, <2>1 DEF table, redis, history
  <2> QED
    BY <1>a, <2>2, <2>3, <2>4, <2>5 DEF IInv
<1>3. CASE StartRelay \/ StopRelay \/ UNCHANGED vars
  <2>1. UNCHANGED <<table, redis, running, local, dlqLost>>
    BY <1>3 DEF StartRelay, StopRelay, vars, process, history
  <2>2. Control' /\ RowAtHand' /\ BatchIsCurrent'
    BY <2>1 DEF IInv, Control, RowAtHand, BatchIsCurrent, At, LastAttempt,
      table, redis, local
  <2> QED
    BY <1>a, <1>c, <2>1, <2>2 DEF IInv, table, redis
<1>4. CASE Exit \/ Crash
  <2>1. Die /\ UNCHANGED dlqLost
    BY <1>4 DEF Exit, Crash, history
  <2>2. Control' /\ BatchIsCurrent' /\ RowAtHand'
    BY <2>1, EmptyBatches DEF Die, Control, InBatch
  <2>3. \A i \in Ids : rowState[i] = "committed" => rowState'[i] = "committed"
    BY <2>1 DEF Die
  <2> QED
    BY <1>a, <1>c, <2>1, <2>2, <2>3 DEF IInv, Die, redis
<1> QED
  BY <1>a, <1>1, <1>2, <1>3, <1>4, TickStepInv DEF Next

LEMMA Invariance == SafeSpec => []IInv
BY InvInit, InvStep, PTL DEF SafeSpec

------------------------------------------------------------------------------
(* The results                                                             *)

(* `running` alone (no lock, no row locking) keeps what a tick read of its *)
(* batch current until it has handled it.                                  *)
THEOREM CriticalSection == SafeSpec => []SnapshotIsCurrent
<1>1. IInv => SnapshotIsCurrent
  BY DEF IInv, BatchIsCurrent, SnapshotIsCurrent
<1> QED
  BY <1>1, Invariance, PTL

(* For any number of rows, attempts, ticks, faults and crashes: the relay  *)
(* gives up a row only with its event on a stream, or after the failed     *)
(* dead-letter append the code logs and ignores.                           *)
THEOREM NoEventForgotten == SafeSpec => []RetiredIsAccountedFor
<1>1. IInv => RetiredIsAccountedFor
  BY DEF IInv
<1> QED
  BY <1>1, Invariance, PTL

(* An event on either stream belongs to a committed business transaction.  *)
THEOREM OutboxAtomicity == SafeSpec => []OnlyCommittedEventsLeave
<1>1. IInv => OnlyCommittedEventsLeave
  BY DEF IInv
<1> QED
  BY <1>1, Invariance, PTL

(* A retired row stays silent: the action property, from the invariant.    *)
LEMMA AppendGrows ==
  ASSUME NEW S, NEW s \in Seq(S), NEW e
  PROVE  s # Append(s, e)
OBVIOUS

LEMMA SilentStep ==
  ASSUME IInv, [Next]_vars, NEW i \in Ids, published[i]
  PROVE  published'[i] /\ stream' # Append(stream, i) /\ dlq' # Append(dlq, i)
<1>a. stream \in Seq(Ids) /\ dlq \in Seq(Ids) /\ TableType
  BY DEF IInv, TypeInv, TypeOK, RedisType
<1>b. stream # Append(stream, i) /\ dlq # Append(dlq, i)
  BY <1>a, AppendGrows
<1>c. \A j \in Ids : j # i =>
        Append(stream, j) # Append(stream, i) /\ Append(dlq, j) # Append(dlq, i)
  BY <1>a
<1>1. ASSUME NEW t \in Ticks, NEW j \in Ids, Handle(t, j)
      PROVE  published'[i] /\ stream' # Append(stream, i) /\ dlq' # Append(dlq, i)
  <2>1. j # i
    BY <1>1, AtHand DEF Handle, PublishAgain, PublishOk, PublishFails, MarkOk,
      MarkFails, RecordFailure, DeadLetterAgain, DeadLetterOk, DeadLetterFails, Retire, UpdateFails, InBatch
  <2>2. published'[i]
    BY <1>1, <1>a, <2>1 DEF Handle, PublishAgain, PublishOk, PublishFails, MarkOk,
      MarkFails, RecordFailure, DeadLetterAgain, DeadLetterOk, DeadLetterFails, Retire, UpdateFails,
      TableType, table
  <2>3. stream' \in {stream, Append(stream, j)} /\ dlq' \in {dlq, Append(dlq, j)}
    BY <1>1 DEF Handle, PublishAgain, PublishOk, PublishFails, MarkOk,
      MarkFails, RecordFailure, DeadLetterAgain, DeadLetterOk, DeadLetterFails, Retire, UpdateFails, redis
  <2> QED
    BY <1>b, <1>c, <2>1, <2>2, <2>3
<1>2. CASE UNCHANGED <<published, stream, dlq>>
  BY <1>2, <1>b
<1> QED
  BY <1>1, <1>2 DEF Next, WriteOutbox, Commit, Rollback, StartTick, TickStep,
    Query, QueryFails, StartRelay, StopRelay, Exit, Crash, Die, vars, table, redis

THEOREM SilentAfterRetirement == SafeSpec => RetiredStaysSilent
<1>1. IInv /\ [Next]_vars => [KeepsSilence]_vars
  BY SilentStep DEF KeepsSilence
<1> QED
  BY <1>1, Invariance, PTL DEF SafeSpec, RetiredStaysSilent

------------------------------------------------------------------------------
(* Refinement: every step of the relay is a step of EventDelivery, or      *)
(* leaves what EventDelivery sees alone.                                   *)

LEMMA DeliveryInit == Init => Delivery!Init
BY DEF Init, Delivery!Init, ToSet

LEMMA DeliveryStep == IInv /\ [Next]_vars => [Delivery!Next]_(Delivery!vars)
<1> SUFFICES ASSUME IInv, [Next]_vars PROVE [Delivery!Next]_(Delivery!vars)
  OBVIOUS
<1>a. /\ stream \in Seq(Ids) /\ dlq \in Seq(Ids) /\ TableType /\ RelayType
      /\ \A i \in Ids : /\ ToSet(Append(stream, i)) = ToSet(stream) \cup {i}
                        /\ ToSet(Append(dlq, i)) = ToSet(dlq) \cup {i}
  <2>1. stream \in Seq(Ids) /\ dlq \in Seq(Ids) /\ TableType /\ RelayType
    BY DEF IInv, TypeInv, TypeOK, RedisType
  <2>2. ASSUME NEW i \in Ids
        PROVE  /\ ToSet(Append(stream, i)) = ToSet(stream) \cup {i}
               /\ ToSet(Append(dlq, i)) = ToSet(dlq) \cup {i}
    <3>1. ToSet(Append(stream, i)) = ToSet(stream) \cup {i}
      BY <2>1, IdsAppended
    <3>2. ToSet(Append(dlq, i)) = ToSet(dlq) \cup {i}
      BY <2>1, IdsAppended
    <3> QED BY <3>1, <3>2
  <2> QED BY <2>1, <2>2
<1>1. ASSUME NEW i \in Ids, Commit(i) PROVE Delivery!Write(i)
  BY <1>1, <1>a DEF Commit, Delivery!Write, TableType, redis
<1>2. ASSUME UNCHANGED <<published, stream, dlq, dlqLost>>,
             \A i \in Ids : rowState'[i] = "committed" <=> rowState[i] = "committed"
      PROVE  UNCHANGED Delivery!vars
  BY <1>2 DEF Delivery!vars
<1>3. CASE WriteOutbox
  BY <1>2, <1>3, <1>a DEF WriteOutbox, IInv, FreshRows, TableType, redis, history
<1>4. ASSUME NEW i \in Ids, Rollback(i) PROVE UNCHANGED Delivery!vars
  BY <1>2, <1>4, <1>a DEF Rollback, TableType, redis, history
<1>5. CASE Exit \/ Crash
  BY <1>2, <1>5, <1>a DEF Exit, Crash, Die, TableType, redis, history
<1>6. CASE StartRelay \/ StopRelay \/ UNCHANGED vars
  BY <1>2, <1>6 DEF StartRelay, StopRelay, vars, table, redis, history
<1>7. ASSUME NEW t \in Ticks, StartTick(t) \/ Query(t) \/ QueryFails(t)
      PROVE  UNCHANGED Delivery!vars
  BY <1>2, <1>7 DEF StartTick, Query, QueryFails, table, redis, history
<1>8. ASSUME NEW t \in Ticks, NEW i \in Ids, Handle(t, i)
      PROVE  Delivery!Next \/ UNCHANGED Delivery!vars
  <2>0. i \in Ids /\ rowState[i] = "committed" /\ ~published[i]
    BY <1>8, AtHand DEF Handle, PublishAgain, PublishOk, PublishFails, MarkOk,
      MarkFails, RecordFailure, DeadLetterAgain, DeadLetterOk, DeadLetterFails, Retire, UpdateFails, InBatch
  <2>a. rowState' = rowState
    BY <1>8 DEF Handle, PublishAgain, PublishOk, PublishFails, MarkOk,
      MarkFails, RecordFailure, DeadLetterAgain, DeadLetterOk, DeadLetterFails, Retire, UpdateFails, table
  <2>1. ASSUME stream' = Append(stream, i), UNCHANGED <<published, dlq, dlqLost>>
        PROVE  Delivery!Deliver(i)
    BY <1>a, <2>0, <2>a, <2>1 DEF Delivery!Deliver
  <2>2. ASSUME dlq' = Append(dlq, i), UNCHANGED <<published, stream, dlqLost>>
        PROVE  Delivery!DeadLetter(i)
    BY <1>a, <2>0, <2>a, <2>2 DEF Delivery!DeadLetter
  <2>3. ASSUME i \notin ToSet(dlq), dlqLost' = dlqLost \cup {i}, UNCHANGED <<published, stream, dlq>>
        PROVE  Delivery!Drop(i)
    BY <1>a, <2>0, <2>a, <2>3 DEF Delivery!Drop
  <2>4. ASSUME published' = [published EXCEPT ![i] = TRUE],
               i \in ToSet(stream) \cup ToSet(dlq) \cup dlqLost,
               UNCHANGED <<stream, dlq, dlqLost>>
        PROVE  Delivery!Retire(i)
    <3>1. {j \in Ids : published'[j]} = {j \in Ids : published[j]} \cup {i}
      BY <1>a, <2>4 DEF TableType
    <3> QED
      BY <2>0, <2>a, <2>4, <3>1 DEF Delivery!Retire, Delivery!Settled
  <2>5. CASE PublishAgain(t, i) \/ PublishOk(t, i) \/ PublishFails(t, i)
    BY <1>2, <2>5, <2>a, <2>0, <2>1
    DEF PublishAgain, PublishOk, PublishFails, table, history, Delivery!Next
  <2>6. CASE MarkFails(t, i) \/ RecordFailure(t, i) \/ UpdateFails(t, i)
    BY <1>2, <2>6, <2>a DEF MarkFails, RecordFailure, UpdateFails, table, redis, history
  <2>7. CASE DeadLetterAgain(t, i) \/ DeadLetterOk(t, i) \/ DeadLetterFails(t, i)
    <3>1. \/ dlq' = Append(dlq, i) /\ UNCHANGED <<published, stream, dlqLost>>
          \/ dlqLost' = dlqLost \cup ({i} \ ToSet(dlq)) /\ UNCHANGED <<published, stream, dlq>>
      BY <2>7 DEF DeadLetterAgain, DeadLetterOk, DeadLetterFails, table, history
    <3> QED
      BY <1>2, <2>0, <2>a, <2>2, <2>3, <3>1 DEF Delivery!Next
  <2>8. CASE MarkOk(t, i)
    BY <2>8, <2>0, <2>4 DEF MarkOk, IInv, RowAtHand, redis, history, Delivery!Next
  <2>9. CASE Retire(t, i)
    BY <2>9, <2>0, <2>4 DEF Retire, IInv, RowAtHand, redis, history, Delivery!Next
  <2> QED
    BY <1>8, <2>5, <2>6, <2>7, <2>8, <2>9 DEF Handle
<1> QED
  BY <1>1, <1>3, <1>4, <1>5, <1>6, <1>7, <1>8 DEF Next, TickStep, Delivery!Next

THEOREM RelayImplementsDelivery == SafeSpec => Delivery!SafeSpec
BY DeliveryInit, DeliveryStep, Invariance, PTL DEF SafeSpec, Delivery!SafeSpec

------------------------------------------------------------------------------
(* Counting.  An event is appended once for every attempt the table counts, *)
(* once more for the attempt in hand or the one that succeeded, and once    *)
(* for every fault that kept the relay from writing an attempt down or made *)
(* ioredis send the same command again.                                     *)

LEMMA OccurrencesAppended ==
  ASSUME NEW S, NEW s \in Seq(S), NEW e \in S
  PROVE  \A i : /\ Occurrences(s, i) \in Nat
                /\ Occurrences(Append(s, e), i) =
                     IF i = e THEN Occurrences(s, i) + 1 ELSE Occurrences(s, i)
<1> SUFFICES ASSUME NEW i
             PROVE  /\ Occurrences(s, i) \in Nat
                    /\ Occurrences(Append(s, e), i) =
                         IF i = e THEN Occurrences(s, i) + 1 ELSE Occurrences(s, i)
  OBVIOUS
<1> DEFINE K == {k \in DOMAIN s : s[k] = i}
           L == {k \in DOMAIN Append(s, e) : Append(s, e)[k] = i}
           n == Len(s) + 1
<1>1. /\ DOMAIN Append(s, e) = 1 .. n
      /\ Append(s, e)[n] = e
      /\ \A k \in 1 .. Len(s) : Append(s, e)[k] = s[k]
      /\ DOMAIN s = 1 .. Len(s) /\ Len(s) \in Nat
  OBVIOUS
<1>2. IsFiniteSet(K)
  <2>1. K \subseteq 1 .. Len(s)
    BY <1>1
  <2>2. IsFiniteSet(1 .. Len(s))
    BY <1>1, FS_Interval
  <2> QED
    BY <2>1, <2>2, FS_Subset
<1>3. L = (IF i = e THEN K \cup {n} ELSE K) /\ n \notin K
  BY <1>1
<1>4. Occurrences(s, i) = Cardinality(K) /\ Occurrences(Append(s, e), i) = Cardinality(L)
  BY DEF Occurrences
<1> HIDE DEF K, L, n
<1>5. Cardinality(K) \in Nat /\ Cardinality(K \cup {n}) = Cardinality(K) + 1
  BY <1>2, <1>3, FS_CardinalityType, FS_AddElement
<1> QED
  BY <1>3, <1>4, <1>5

LEMMA StreamCounted ==
  ASSUME stream \in Seq(Ids), NEW e \in Ids, NEW i
  PROVE  /\ Occurrences(stream, i) \in Nat
         /\ Occurrences(Append(stream, e), i) =
              IF i = e THEN Occurrences(stream, i) + 1 ELSE Occurrences(stream, i)
<1> HIDE DEF Ids
<1> QED
  BY OccurrencesAppended

(* The row at hand may have been appended in this attempt.                  *)
InHand(t, i) == At(t, i, "mark") \/ At(t, i, "failed") \/ At(t, i, "retire")

(* The fault of a shutdown is spent when the process ends, not when the     *)
(* relay is told to stop: until then the row in hand may still be marked.   *)
Spent == IF proc = "stopping" THEN faults - 1 ELSE faults

Counted(i) ==
  /\ published[i] => Occurrences(stream, i) <= MaxAttempts + Spent
  /\ ~published[i] =>
       \/ Occurrences(stream, i) <= attempts[i] + Spent
       \/ /\ \E t \in Ticks : InHand(t, i)
          /\ Occurrences(stream, i) <= attempts[i] + 1 + Spent

AppendsAreCounted ==
  /\ proc = "stopping" => faults >= 1
  /\ \A i \in Ids : Counted(i)

LEMMA SpentType ==
  ASSUME IInv, AppendsAreCounted
  PROVE  /\ Spent \in Nat /\ Spent <= faults /\ faults \in Nat
         /\ \A i \in Ids : Occurrences(stream, i) \in Nat /\ attempts[i] \in Nat
<1>1. stream \in Seq(Ids) /\ faults \in Nat /\ \A i \in Ids : attempts[i] \in Nat
  BY DEF IInv, TypeInv, TypeOK, RedisType, TableType, HistoryType
<1>2. \A i \in Ids : Occurrences(stream, i) \in Nat
  BY <1>1, StreamCounted
<1> QED
  BY <1>1, <1>2 DEF AppendsAreCounted, Spent

(* Steps that append nothing and count nothing; a row in hand is let go     *)
(* only against a fault.                                                    *)
LEMMA NothingCounted ==
  ASSUME IInv, AppendsAreCounted, UNCHANGED <<attempts, published, stream>>,
         proc' = "stopping" => faults' >= 1, Spent' \in Int,
         \/ Spent' = Spent /\ \A t \in Ticks, i \in Ids : InHand(t, i) => InHand(t, i)'
         \/ Spent' >= Spent + 1
  PROVE  AppendsAreCounted'
<1>1. /\ Spent \in Nat
      /\ \A i \in Ids : Occurrences(stream, i) \in Nat /\ attempts[i] \in Nat
  BY SpentType
<1>2. \A i : Occurrences(stream, i)' = Occurrences(stream, i)
  BY DEF Occurrences
<1> SUFFICES ASSUME NEW i \in Ids PROVE Counted(i)'
  BY DEF AppendsAreCounted
<1>3. Counted(i)
  BY DEF AppendsAreCounted
<1> HIDE DEF Spent, InHand
<1>4. CASE Spent' >= Spent + 1
  BY <1>1, <1>2, <1>3, <1>4 DEF Counted
<1>5. CASE Spent' = Spent /\ \A t \in Ticks, j \in Ids : InHand(t, j) => InHand(t, j)'
  BY <1>1, <1>2, <1>3, <1>5 DEF Counted
<1> QED
  BY <1>4, <1>5

LEMMA SpentGrows ==
  ASSUME faults \in Nat, proc = "stopping" => faults >= 1,
         UNCHANGED proc, faults' \in {faults, faults + 1}
  PROVE  Spent' \in {Spent, Spent + 1} /\ (proc' = "stopping" => faults' >= 1)
<1>1. CASE faults' = faults
  BY <1>1 DEF Spent
<1>2. CASE faults' = faults + 1
  BY <1>2 DEF Spent
<1> QED
  BY <1>1, <1>2

(* The steps on the row at hand: no other row is appended or counted.       *)
LEMMA RowCounted ==
  ASSUME IInv, AppendsAreCounted, NEW t \in Ticks, NEW i \in Ids, NEW p \in InBatch,
         At(t, i, p), UNCHANGED proc, faults' \in {faults, faults + 1},
         \A j \in Ids \ {i} : /\ attempts'[j] = attempts[j] /\ published'[j] = published[j]
                              /\ Occurrences(stream, j)' = Occurrences(stream, j),
         Counted(i)'
  PROVE  AppendsAreCounted'
<1>0. faults \in Nat /\ Spent \in Nat /\ (proc = "stopping" => faults >= 1)
  BY SpentType DEF AppendsAreCounted
<1>1. Spent' \in {Spent, Spent + 1} /\ (proc' = "stopping" => faults' >= 1)
  BY <1>0, SpentGrows
<1> SUFFICES ASSUME NEW j \in Ids \ {i} PROVE Counted(j)'
  BY <1>1 DEF AppendsAreCounted
<1>2. ~ \E u \in Ticks : InHand(u, j)
  BY DEF IInv, Control, InHand, At, InBatch
<1>3. /\ Occurrences(stream, j) \in Nat /\ attempts[j] \in Nat
      /\ Counted(j)
  BY SpentType DEF AppendsAreCounted
<1>4. attempts'[j] = attempts[j] /\ published'[j] = published[j]
  OBVIOUS
<1>5. Occurrences(stream, j)' = Occurrences(stream, j)
  OBVIOUS
<1> HIDE DEF Spent, InHand
<1> QED
  BY <1>0, <1>1, <1>2, <1>3, <1>4, <1>5 DEF Counted

LEMMA HandleCounts ==
  ASSUME IInv, AppendsAreCounted, NEW t \in Ticks, NEW i \in Ids, Handle(t, i)
  PROVE  AppendsAreCounted'
<1>0. TableType /\ RelayType /\ stream \in Seq(Ids)
  BY DEF IInv, TypeInv, TypeOK, RedisType
<1>1. /\ TableType /\ RelayType /\ Spent \in Nat /\ stream \in Seq(Ids)
      /\ \A j \in Ids : Occurrences(stream, j) \in Nat
      /\ attempts[i] \in Nat
  BY <1>0, SpentType
<1>s. UNCHANGED proc
  BY DEF Handle, PublishAgain, PublishOk, PublishFails, MarkOk, MarkFails, RecordFailure,
    DeadLetterAgain, DeadLetterOk, DeadLetterFails, Retire, UpdateFails, Goto, Advance,
    Finish, process
<1>t. UNCHANGED faults => UNCHANGED Spent
  BY <1>s DEF Spent
<1>2. InBatch = {"publish", "mark", "failed", "retire"} /\ Counted(i)
  BY DEF InBatch, AppendsAreCounted
<1>3. CASE PublishOk(t, i) \/ PublishFails(t, i)
  <2>1. /\ At(t, i, "publish") /\ stream' \in {stream, Append(stream, i)}
        /\ UNCHANGED <<attempts, published, faults, todo>>
        /\ pc' = [pc EXCEPT ![t] = "mark"] \/ pc' = [pc EXCEPT ![t] = "failed"]
    BY <1>3 DEF PublishOk, PublishFails, Goto, table, history
  <2>2. \A j \in Ids : Occurrences(stream, j)' \in
          {Occurrences(stream, j), Occurrences(stream, j) + (IF j = i THEN 1 ELSE 0)}
    <3>1. CASE stream' = stream
      BY <1>1, <2>1, <3>1 DEF Occurrences
    <3>2. CASE stream' = Append(stream, i)
      <4>1. \A j : Occurrences(stream, j)' = Occurrences(Append(stream, i), j)
        BY <3>2 DEF Occurrences
      <4> QED
        BY <1>1, <4>1, StreamCounted
    <3> QED
      BY <2>1, <3>1, <3>2
  <2>3. ~published[i] /\ InHand(t, i)'
    BY <1>1, <1>2, <2>1, AtHand DEF InHand, At, RelayType
  <2>5. ~ \E u \in Ticks : InHand(u, i)
    BY <2>1 DEF InHand, At, IInv, Control
  <2>4. Counted(i)'
    BY <1>1, <1>2, <1>t, <2>1, <2>2, <2>3, <2>5 DEF Counted
  <2> QED
    BY <1>1, <1>2, <2>1, <2>2, <2>4, <1>s, RowCounted
<1>4. CASE MarkOk(t, i)
  <2>1. /\ At(t, i, "mark") /\ published' = [published EXCEPT ![i] = TRUE]
        /\ UNCHANGED <<attempts, stream, faults>>
    BY <1>4 DEF MarkOk, redis, history
  <2>2. seen[t][i] = attempts[i] /\ seen[t][i] < MaxAttempts /\ ~published[i]
    BY <1>2, <2>1, AtHand
  <2>3. \A j \in Ids : Occurrences(stream, j)' = Occurrences(stream, j)
    BY <2>1 DEF Occurrences
  <2>4. Counted(i)'
    BY <1>1, <1>2, <1>t, <2>1, <2>2, <2>3 DEF Counted, TableType
  <2> QED
    BY <1>1, <1>2, <2>1, <2>3, <2>4, <1>s, RowCounted DEF TableType
<1>5. CASE RecordFailure(t, i) \/ Retire(t, i)
  <2>1. /\ At(t, i, "failed") \/ At(t, i, "retire")
        /\ attempts' = [attempts EXCEPT ![i] = seen[t][i] + 1]
        /\ published' \in {published, [published EXCEPT ![i] = TRUE]}
        /\ UNCHANGED <<stream, faults>>
    BY <1>5 DEF RecordFailure, Retire, redis, history
  <2>2. seen[t][i] = attempts[i] /\ seen[t][i] < MaxAttempts /\ ~published[i]
    BY <1>2, <2>1, AtHand
  <2>3. \A j \in Ids : Occurrences(stream, j)' = Occurrences(stream, j)
    BY <2>1 DEF Occurrences
  <2>4. attempts'[i] = attempts[i] + 1
    BY <1>1, <2>1, <2>2 DEF TableType
  <2>5. Counted(i)'
    BY <1>1, <1>2, <1>t, <2>1, <2>2, <2>3, <2>4 DEF Counted
  <2> QED
    BY <1>1, <1>2, <2>1, <2>3, <2>5, <1>s, RowCounted DEF TableType
<1>6. CASE MarkFails(t, i) \/ UpdateFails(t, i)
  <2>1. UNCHANGED <<attempts, published, stream>> /\ faults' = faults + 1
    BY <1>6 DEF MarkFails, UpdateFails, CostsFault, table, redis
  <2> QED
    BY <1>1, <1>s, <2>1, SpentType, NothingCounted DEF Spent
<1>7. CASE DeadLetterOk(t, i) \/ DeadLetterFails(t, i)
  <2>1. /\ At(t, i, "failed") /\ UNCHANGED <<attempts, published, stream, faults, todo>>
        /\ pc' = [pc EXCEPT ![t] = "retire"]
    BY <1>7 DEF DeadLetterOk, DeadLetterFails, Goto, table, history
  <2>2. \A u \in Ticks, j \in Ids : InHand(u, j) => InHand(u, j)'
    BY <1>1, <2>1 DEF InHand, At, RelayType
  <2> QED
    BY <1>1, <1>s, <1>t, <2>1, <2>2, NothingCounted DEF AppendsAreCounted
<1>8. CASE PublishAgain(t, i)
  <2>1. /\ At(t, i, "publish") /\ stream' = Append(stream, i) /\ faults' = faults + 1
        /\ UNCHANGED <<attempts, published>>
    BY <1>8 DEF PublishAgain, CostsFault, table
  <2>2. \A j \in Ids : Occurrences(stream, j)' =
                          Occurrences(stream, j) + (IF j = i THEN 1 ELSE 0)
    <3>1. \A j : Occurrences(stream, j)' = Occurrences(Append(stream, i), j)
      BY <2>1 DEF Occurrences
    <3> QED
      BY <1>1, <3>1, StreamCounted
  <2>3. ~published[i]
    BY <1>2, <2>1, AtHand
  <2>4. ~ \E u \in Ticks : InHand(u, i)
    BY <2>1 DEF InHand, At, IInv, Control
  <2>5. Spent' = Spent + 1
    BY <1>s, <2>1, SpentType DEF Spent
  <2>6. Counted(i)'
    BY <1>1, <1>2, <2>1, <2>2, <2>3, <2>4, <2>5 DEF Counted
  <2> QED
    BY <1>1, <1>2, <2>1, <2>2, <2>6, <1>s, RowCounted
<1>9. CASE DeadLetterAgain(t, i)
  <2>1. UNCHANGED <<attempts, published, stream>> /\ faults' = faults + 1
    BY <1>9 DEF DeadLetterAgain, CostsFault, table
  <2> QED
    BY <1>1, <1>s, <2>1, SpentType, NothingCounted DEF Spent
<1> QED
  BY <1>3, <1>4, <1>5, <1>6, <1>7, <1>8, <1>9 DEF Handle

LEMMA CountStep == IInv /\ AppendsAreCounted /\ [Next]_vars => AppendsAreCounted'
<1> SUFFICES ASSUME IInv, AppendsAreCounted, [Next]_vars PROVE AppendsAreCounted'
  OBVIOUS
<1>0. /\ RelayType /\ Spent \in Nat /\ faults \in Nat
      /\ proc = "stopping" => faults >= 1
  BY SpentType DEF IInv, TypeInv, TypeOK, AppendsAreCounted
<1>1. ASSUME UNCHANGED <<attempts, published, stream, pc, todo>>, Spent' = Spent,
             proc' = "stopping" => faults' >= 1
      PROVE  AppendsAreCounted'
  <2>1. \A t \in Ticks, i \in Ids : InHand(t, i) => InHand(t, i)'
    BY <1>1 DEF InHand, At
  <2> QED
    BY <1>0, <1>1, <2>1, NothingCounted
<1>2. CASE WriteOutbox \/ (\E i \in Ids : Commit(i) \/ Rollback(i)) \/ UNCHANGED vars
  <2>1. UNCHANGED <<attempts, published, stream, pc, todo, proc, faults>>
    BY <1>2 DEF WriteOutbox, Commit, Rollback, vars, table, redis, process, local, history
  <2> QED
    BY <1>0, <1>1, <2>1 DEF Spent
<1>3. CASE StartRelay \/ StopRelay
  <2>1. /\ UNCHANGED <<attempts, published, stream, pc, todo>>
        /\ \/ proc = "booting" /\ proc' = "up" /\ faults' = faults
           \/ proc = "up" /\ proc' = "stopping" /\ faults' = faults + 1
    BY <1>3 DEF StartRelay, StopRelay, CostsFault, table, redis, local, history
  <2> QED
    BY <1>0, <1>1, <2>1 DEF Spent
<1>4. ASSUME NEW t \in Ticks, StartTick(t) \/ Query(t)
      PROVE  AppendsAreCounted'
  <2>1. /\ pc[t] \notin InBatch /\ UNCHANGED <<attempts, published, stream, proc, faults>>
        /\ \A u \in Ticks \ {t} : pc'[u] = pc[u] /\ todo'[u] = todo[u]
    BY <1>0, <1>4 DEF StartTick, Query, Finish, InBatch, RelayType, table, redis, process, history
  <2>2. \A u \in Ticks, j \in Ids : InHand(u, j) => InHand(u, j)'
    BY <2>1 DEF InHand, At, InBatch
  <2>3. Spent' = Spent
    BY <2>1 DEF Spent
  <2> QED
    BY <1>0, <2>1, <2>2, <2>3, NothingCounted
<1>5. ASSUME NEW t \in Ticks, QueryFails(t)
      PROVE  AppendsAreCounted'
  <2>1. UNCHANGED <<attempts, published, stream, proc>> /\ faults' = faults + 1
    BY <1>5 DEF QueryFails, CostsFault, Finish, table, redis
  <2> QED
    BY <1>0, <2>1, NothingCounted DEF Spent
<1>6. ASSUME NEW t \in Ticks, NEW i \in Ids, Handle(t, i)
      PROVE  AppendsAreCounted'
  BY <1>6, HandleCounts
<1>7. CASE Exit \/ Crash
  <2>1. /\ UNCHANGED <<attempts, published, stream>> /\ proc' = "booting"
        /\ \/ proc = "stopping" /\ faults' = faults
           \/ faults' = faults + 1
    BY <1>7 DEF Exit, Crash, Die, CostsFault, redis, history
  <2> QED
    BY <1>0, <2>1, NothingCounted DEF Spent
<1> QED
  BY <1>2, <1>3, <1>4, <1>5, <1>6, <1>7 DEF Next, TickStep

LEMMA CountInit == Init => AppendsAreCounted
<1> SUFFICES ASSUME Init PROVE AppendsAreCounted
  OBVIOUS
<1>1. IInv
  BY InvInit
<1>2. stream = <<>> /\ faults = 0 /\ proc = "booting" /\ attempts = NoAttempts
  BY DEF Init
<1>3. \A i : Occurrences(stream, i) = 0
  <2>1. \A i : {k \in DOMAIN stream : stream[k] = i} = {}
    BY <1>2
  <2> QED
    BY <2>1, FS_EmptySet DEF Occurrences
<1>4. \A i \in Ids : ~published[i] /\ attempts[i] = 0
  BY DEF Init, NoAttempts
<1> QED
  BY <1>2, <1>3, <1>4 DEF AppendsAreCounted, Counted, Spent

(* However many rows, attempts, ticks and faults there are: an event is on  *)
(* the stream at most MAX_ATTEMPTS times, plus once for each fault.         *)
THEOREM AppendsAreBounded == SafeSpec => []BoundedDuplication
<1>1. IInv /\ AppendsAreCounted => BoundedDuplication
  <2> SUFFICES ASSUME IInv, AppendsAreCounted, NEW i \in Ids
               PROVE  Occurrences(stream, i) <= MaxAttempts + faults
    BY DEF BoundedDuplication
  <2>1. /\ Spent \in Nat /\ Spent <= faults /\ faults \in Nat
        /\ Occurrences(stream, i) \in Nat /\ attempts[i] \in 0 .. MaxAttempts
    BY SpentType DEF IInv, TypeInv, TypeOK, TableType
  <2>2. ASSUME NEW t \in Ticks, InHand(t, i) PROVE attempts[i] < MaxAttempts
    BY <2>2, AtHand DEF InHand, InBatch
  <2> QED
    BY <2>1, <2>2 DEF AppendsAreCounted, Counted
<1> QED
  BY <1>1, Invariance, InvInit, CountInit, CountStep, PTL DEF SafeSpec

------------------------------------------------------------------------------
(* Order.  The first time an event is on the stream.                        *)

LEMMA LeastExists ==
  ASSUME NEW T \in SUBSET Nat, T # {}
  PROVE  Min(T) \in T /\ \A k \in T : Min(T) <= k
<1>1. PICK m \in T : \A k \in T : ~ (<<k, m>> \in OpToRel(<, Nat))
  BY NatLessThanWellFounded, WFMin
<1>2. \A k \in T : m <= k
  <2> SUFFICES ASSUME NEW k \in T, k < m PROVE FALSE
    OBVIOUS
  <2>1. <<k, m>> \in Nat \X Nat
    OBVIOUS
  <2>2. <<k, m>> \in OpToRel(<, Nat)
    BY <2>1, Zenon DEF OpToRel
  <2> QED
    BY <1>1, <2>2
<1> QED
  BY <1>2 DEF Min

LEMMA FirstIsFirst ==
  ASSUME NEW S, NEW s \in Seq(S), NEW i \in ToSet(s)
  PROVE  /\ First(s, i) \in DOMAIN s /\ s[First(s, i)] = i
         /\ \A k \in DOMAIN s : s[k] = i => First(s, i) <= k
<1> DEFINE K == {k \in 1 .. Len(s) : s[k] = i}
<1>1. DOMAIN s = 1 .. Len(s) /\ Len(s) \in Nat
  OBVIOUS
<1>2. K # {} /\ K \in SUBSET Nat
  BY <1>1 DEF ToSet
<1>3. First(s, i) = Min(K)
  BY <1>2 DEF First, SelectInSeq
<1>4. Min(K) \in K /\ \A k \in K : Min(K) <= k
  BY <1>2, LeastExists
<1> QED
  BY <1>1, <1>3, <1>4

(* Appending does not move what is there, and comes after it.               *)
LEMMA FirstAppended ==
  ASSUME NEW S, NEW s \in Seq(S), NEW e \in S
  PROVE  /\ \A i \in ToSet(s) : First(Append(s, e), i) = First(s, i)
         /\ e \notin ToSet(s) => \A i \in ToSet(s) : First(s, i) < First(Append(s, e), e)
<1>1. /\ Append(s, e) \in Seq(S)
      /\ ToSet(Append(s, e)) = ToSet(s) \cup {e}
  BY AppendElements
<1>2. /\ DOMAIN Append(s, e) = 1 .. Len(s) + 1
      /\ Append(s, e)[Len(s) + 1] = e
      /\ \A k \in 1 .. Len(s) : Append(s, e)[k] = s[k]
      /\ DOMAIN s = 1 .. Len(s) /\ Len(s) \in Nat
  OBVIOUS
<1>3. ASSUME NEW i \in ToSet(s) PROVE First(Append(s, e), i) = First(s, i)
  <2>1. /\ First(s, i) \in 1 .. Len(s) /\ s[First(s, i)] = i
        /\ \A k \in 1 .. Len(s) : s[k] = i => First(s, i) <= k
    BY <1>2, FirstIsFirst
  <2>2. /\ First(Append(s, e), i) \in 1 .. Len(s) + 1
        /\ Append(s, e)[First(Append(s, e), i)] = i
        /\ \A k \in 1 .. Len(s) + 1 : Append(s, e)[k] = i => First(Append(s, e), i) <= k
    BY <1>1, <1>2, FirstIsFirst
  <2> HIDE DEF First
  <2>3. First(Append(s, e), i) <= First(s, i)
    BY <1>2, <2>1, <2>2
  <2>4. First(s, i) <= First(Append(s, e), i)
    BY <1>2, <2>1, <2>2, <2>3
  <2> QED
    BY <2>1, <2>2, <2>3, <2>4
<1>4. ASSUME e \notin ToSet(s), NEW i \in ToSet(s)
      PROVE  First(s, i) < First(Append(s, e), e)
  <2>1. First(s, i) \in 1 .. Len(s)
    BY <1>2, FirstIsFirst
  <2>2. /\ First(Append(s, e), e) \in 1 .. Len(s) + 1
        /\ Append(s, e)[First(Append(s, e), e)] = e
    BY <1>1, <1>2, FirstIsFirst
  <2>3. \A k \in 1 .. Len(s) : s[k] # e
    BY <1>2, <1>4 DEF ToSet
  <2>4. First(Append(s, e), e) = Len(s) + 1
    BY <1>2, <2>2, <2>3
  <2> QED
    BY <1>2, <2>1, <2>4
<1> QED
  BY <1>3, <1>4

(* Whoever has a lower id than an eligible row of a batch, and is eligible, *)
(* is in the batch.                                                         *)
LEMMA BatchTakesTheLowest ==
  ASSUME NEW S \in SUBSET Ids, NEW i \in S, NEW j \in Batch(S), i < j
  PROVE  i \in Batch(S)
<1> DEFINE A == {k \in S : k <= i}
           B == {k \in S : k <= j}
<1>1. j \in S /\ Cardinality(B) <= BatchSize
  BY DEF Batch
<1>2. A \subseteq B /\ B \subseteq 1 .. MaxRows
  <2>1. i \in Int /\ j \in Int /\ \A k \in S : k \in 1 .. MaxRows /\ k \in Int
    BY <1>1
  <2>2. \A k \in S : k <= i => k <= j
    BY <2>1
  <2> QED
    BY <2>1, <2>2
<1>3. IsFiniteSet(B)
  <2>1. IsFiniteSet(1 .. MaxRows)
    BY FS_Interval
  <2> QED
    BY <1>2, <2>1, FS_Subset
<1>4. Cardinality(A) <= Cardinality(B) /\ Cardinality(A) \in Nat /\ Cardinality(B) \in Nat
  BY <1>2, <1>3, FS_Subset, FS_CardinalityType
<1>5. Cardinality(A) <= BatchSize
  BY <1>1, <1>4, BatchAssumption
<1> QED
  BY <1>5 DEF Batch

(* What is on the stream, and what a tick has in its batch, has every row   *)
(* of a lower id before it, unless that row had trouble or came late.       *)
OnTime(i) == rowState[i] = "committed" /\ i \notin troubled \cup late

StreamInOrder ==
  \A i \in Ids, j \in ToSet(stream) :
    i < j /\ OnTime(i) => i \in ToSet(stream) /\ First(stream, i) < First(stream, j)

BatchInOrder ==
  \A t \in Ticks : \A i \in Ids, j \in todo[t] :
    i < j /\ OnTime(i) => i \in ToSet(stream) \cup todo[t]

FailuresAreTrouble ==
  /\ \A i \in Ids : attempts[i] # 0 => i \in troubled
  /\ ToSet(dlq) \cup dlqLost \subseteq troubled
  /\ \A t \in Ticks, i \in Ids : At(t, i, "failed") \/ At(t, i, "retire") => i \in troubled

OrderInv == StreamInOrder /\ BatchInOrder /\ FailuresAreTrouble

LEMMA OrderInit == Init => OrderInv
BY DEF Init, OrderInv, StreamInOrder, BatchInOrder, FailuresAreTrouble, NoAttempts, At, ToSet

(* Steps that send nothing, try nothing and take nothing into a batch.      *)
LEMMA OrderStays ==
  ASSUME OrderInv, UNCHANGED <<attempts, stream, dlq, dlqLost, troubled, late>>,
         \A i \in Ids : rowState'[i] = "committed" => rowState[i] = "committed",
         \A t \in Ticks : \/ todo'[t] = {}
                          \/ todo'[t] = todo[t] /\ (pc'[t] = pc[t] \/ pc'[t] \notin InBatch)
  PROVE  OrderInv'
<1>1. \A i \in Ids : OnTime(i)' => OnTime(i)
  BY DEF OnTime
<1>2. StreamInOrder'
  BY <1>1 DEF OrderInv, StreamInOrder
<1>3. BatchInOrder'
  BY <1>1 DEF OrderInv, BatchInOrder
<1>4. FailuresAreTrouble'
  BY DEF OrderInv, FailuresAreTrouble, At, InBatch
<1> QED
  BY <1>2, <1>3, <1>4 DEF OrderInv

(* A row that commits after a later one is late.                            *)
LEMMA CommitOrder ==
  ASSUME IInv, OrderInv, NEW i \in Ids, Commit(i)
  PROVE  OrderInv'
<1>1. /\ UNCHANGED <<attempts, stream, dlq, dlqLost, troubled, todo, pc>>
      /\ late \subseteq late'
      /\ \A j \in Ids : j # i => rowState'[j] = rowState[j]
      /\ \A j \in Ids : j > i /\ rowState[j] = "committed" => i \in late'
      /\ ToSet(stream) \subseteq Ids
  BY DEF Commit, redis, local, IInv, TypeInv, TypeOK, TableType, RedisType, ToSet
<1>2. \A k \in Ids : OnTime(k)' => k \notin troubled' \cup late' /\ (k # i => OnTime(k))
  BY <1>1 DEF OnTime
<1>3. \A k \in Ids, j \in Ids : k < j /\ OnTime(k)' /\ rowState[j] = "committed" => OnTime(k)
  BY <1>1, <1>2
<1>4. \A j \in ToSet(stream) : j \in Ids /\ rowState[j] = "committed"
  BY <1>1 DEF IInv, OnlyCommittedEventsLeave
<1>5. \A t \in Ticks : \A j \in todo[t] : j \in Ids /\ rowState[j] = "committed"
  BY DEF IInv, BatchIsCurrent, TypeInv, TypeOK, RelayType
<1>6. StreamInOrder'
  BY <1>1, <1>3, <1>4 DEF OrderInv, StreamInOrder
<1>7. BatchInOrder'
  BY <1>1, <1>3, <1>5 DEF OrderInv, BatchInOrder
<1>8. FailuresAreTrouble'
  BY <1>1 DEF OrderInv, FailuresAreTrouble, At
<1> QED
  BY <1>6, <1>7, <1>8 DEF OrderInv

LEMMA QueryOrder ==
  ASSUME IInv, OrderInv, NEW t \in Ticks, Query(t), Batch(Eligible) # {}
  PROVE  OrderInv'
<1>1. /\ todo' = [todo EXCEPT ![t] = Batch(Eligible)]
      /\ pc' = [pc EXCEPT ![t] = "publish"]
      /\ UNCHANGED <<rowState, attempts, published, stream, dlq, dlqLost, troubled, late>>
  BY DEF Query, table, redis, history
<1>2. TableType /\ RelayType /\ Eligible \in SUBSET Ids
  BY DEF IInv, TypeInv, TypeOK, Eligible
<1>3. \A i \in Ids : OnTime(i)' = OnTime(i)
  BY <1>1 DEF OnTime
<1>4. \A i \in Ids : OnTime(i) => i \in ToSet(stream) \/ i \in Eligible
  <2> SUFFICES ASSUME NEW i \in Ids, OnTime(i), i \notin ToSet(stream) PROVE i \in Eligible
    OBVIOUS
  <2>1. rowState[i] = "committed" /\ attempts[i] = 0 /\ i \notin ToSet(dlq) \cup dlqLost
    BY DEF OnTime, OrderInv, FailuresAreTrouble
  <2>2. ~published[i]
    BY <2>1 DEF IInv, RetiredIsAccountedFor
  <2> QED
    BY <2>1, <2>2 DEF Eligible
<1>5. StreamInOrder'
  BY <1>1, <1>3 DEF OrderInv, StreamInOrder
<1>6. BatchInOrder'
  <2> SUFFICES ASSUME NEW u \in Ticks, NEW i \in Ids, NEW j \in todo'[u], i < j, OnTime(i)
               PROVE  i \in ToSet(stream) \cup todo'[u]
    BY <1>1, <1>3 DEF BatchInOrder
  <2>1. CASE u = t
    BY <1>1, <1>2, <1>4, <2>1, BatchTakesTheLowest DEF RelayType
  <2>2. CASE u # t
    BY <1>1, <1>2, <2>2 DEF OrderInv, BatchInOrder, RelayType
  <2> QED
    BY <2>1, <2>2
<1>7. FailuresAreTrouble'
  BY <1>1, <1>2 DEF OrderInv, FailuresAreTrouble, At, RelayType
<1> QED
  BY <1>5, <1>6, <1>7 DEF OrderInv

(* From one await of the row at hand to the next.                           *)
LEMMA GotoOrder ==
  ASSUME IInv, OrderInv, NEW t \in Ticks, NEW i \in Ids, NEW p \in InBatch, At(t, i, p),
         NEW q \in InBatch, Goto(t, q), UNCHANGED <<table, late>>,
         stream' = stream \/ (p = "publish" /\ stream' = Append(stream, i)),
         troubled \subseteq troubled', ToSet(dlq') \cup dlqLost' \subseteq troubled',
         q \notin {"publish", "mark"} => i \in troubled'
  PROVE  OrderInv'
<1>1. /\ pc' = [pc EXCEPT ![t] = q] /\ todo' = todo
      /\ UNCHANGED <<rowState, attempts, late>>
  BY DEF Goto, table
<1>2. RelayType /\ stream \in Seq(Ids) /\ ToSet(stream) \subseteq Ids
  BY DEF IInv, TypeInv, TypeOK, RedisType, ToSet
<1>3. \A k \in Ids : OnTime(k)' => OnTime(k)
  BY <1>1 DEF OnTime
<1>4. StreamInOrder' /\ ToSet(stream) \subseteq ToSet(stream')
  <2>1. CASE stream' = stream
    BY <1>3, <2>1 DEF OrderInv, StreamInOrder
  <2>2. CASE stream' = Append(stream, i)
    <3>1. ToSet(stream') = ToSet(stream) \cup {i}
      BY <1>2, <2>2, IdsAppended
    <3>2. /\ \A k \in ToSet(stream) : First(stream', k) = First(stream, k)
          /\ i \notin ToSet(stream) =>
               \A k \in ToSet(stream) : First(stream, k) < First(stream', i)
      <4> HIDE DEF Ids, First
      <4> QED
        BY <1>2, <2>2, FirstAppended
    <3>3. \A k \in Ids : k < i /\ OnTime(k) => k \in ToSet(stream)
      BY AtHand, <1>2 DEF OrderInv, BatchInOrder, RelayType
    <3> SUFFICES ASSUME NEW k \in Ids, NEW j \in ToSet(stream'), k < j, OnTime(k)
                 PROVE  k \in ToSet(stream) /\ First(stream', k) < First(stream', j)
      BY <1>3, <3>1 DEF StreamInOrder
    <3>4. CASE j \in ToSet(stream)
      BY <3>2, <3>4 DEF OrderInv, StreamInOrder
    <3>5. CASE j \notin ToSet(stream)
      BY <3>1, <3>2, <3>3, <3>5
    <3> QED
      BY <3>4, <3>5
  <2> QED
    BY <1>2, <2>1, <2>2, IdsAppended
<1>5. BatchInOrder'
  BY <1>1, <1>3, <1>4 DEF OrderInv, BatchInOrder
<1>6. FailuresAreTrouble'
  <2>1. \A u \in Ticks, k \in Ids : At(u, k, "failed")' \/ At(u, k, "retire")' => k \in troubled'
    <3> SUFFICES ASSUME NEW u \in Ticks, NEW k \in Ids, At(u, k, "failed")' \/ At(u, k, "retire")'
                 PROVE  k \in troubled'
      OBVIOUS
    <3>1. CASE u = t
      <4>1. k = i /\ q \notin {"publish", "mark"}
        BY <1>1, <1>2, <3>1 DEF At, RelayType
      <4> QED
        BY <4>1
    <3>2. CASE u # t
      BY <1>1, <1>2, <3>2 DEF At, RelayType, OrderInv, FailuresAreTrouble
    <3> QED
      BY <3>1, <3>2
  <2> QED
    BY <1>1, <2>1 DEF OrderInv, FailuresAreTrouble
<1> QED
  BY <1>4, <1>5, <1>6 DEF OrderInv

(* The row at hand is let go: it is on the stream, or had trouble.          *)
LEMMA AdvanceOrder ==
  ASSUME IInv, OrderInv, NEW t \in Ticks, NEW i \in Ids, NEW p \in InBatch, At(t, i, p),
         Advance(t, i), UNCHANGED <<rowState, stream, dlq, dlqLost, troubled, late>>,
         i \in ToSet(stream) \cup troubled,
         \A j \in Ids : attempts'[j] # attempts[j] => j \in troubled
  PROVE  OrderInv'
<1>1. /\ pc[t] = p /\ i \in todo[t] /\ RelayType /\ Control
  BY AtHand DEF IInv, TypeInv, TypeOK
<1>2. /\ \A u \in Ticks : u # t => todo'[u] = {}
      /\ todo'[t] = {} \/ (todo'[t] = todo[t] \ {i} /\ pc'[t] = "publish")
  <2>1. /\ \A u \in Ticks : u # t => todo'[u] = {}
        /\ todo'[t] # {} => pc'[t] = "publish"
    BY <1>1, AdvanceControl
  <2>2. todo'[t] \in {{}, todo[t] \ {i}}
    BY <1>1 DEF Advance, Finish, RelayType
  <2> QED
    BY <2>1, <2>2
<1>3. \A k \in Ids : OnTime(k)' = OnTime(k)
  BY DEF OnTime
<1>4. StreamInOrder'
  BY <1>3 DEF OrderInv, StreamInOrder
<1>5. BatchInOrder'
  <2> SUFFICES ASSUME NEW u \in Ticks, NEW k \in Ids, NEW j \in todo'[u], k < j, OnTime(k)
               PROVE  k \in ToSet(stream) \cup todo'[u]
    BY <1>3 DEF BatchInOrder
  <2>1. u = t /\ todo'[t] = todo[t] \ {i} /\ j \in todo[t]
    BY <1>2
  <2>2. k \in ToSet(stream) \cup todo[t]
    BY <2>1 DEF OrderInv, BatchInOrder
  <2>3. k = i => k \in ToSet(stream)
    BY DEF OnTime
  <2> QED
    BY <2>1, <2>2, <2>3
<1>6. FailuresAreTrouble'
  BY <1>2 DEF OrderInv, FailuresAreTrouble, At
<1> QED
  BY <1>4, <1>5, <1>6 DEF OrderInv

LEMMA HandleOrder ==
  ASSUME IInv, OrderInv, NEW t \in Ticks, NEW i \in Ids, Handle(t, i)
  PROVE  OrderInv'
<1>a. /\ InBatch = {"publish", "mark", "failed", "retire"} /\ TableType
      /\ ToSet(Append(dlq, i)) = ToSet(dlq) \cup {i}
  BY IdsAppended DEF InBatch, IInv, TypeInv, TypeOK, RedisType
<1>b. /\ ToSet(dlq) \cup dlqLost \subseteq troubled
      /\ At(t, i, "failed") \/ At(t, i, "retire") => i \in troubled
      /\ At(t, i, "mark") => i \in ToSet(stream)
  BY DEF OrderInv, FailuresAreTrouble, IInv, RowAtHand
<1>c. RelayType
  BY DEF IInv, TypeInv, TypeOK
<1>1. CASE PublishOk(t, i)
  <2>1. /\ At(t, i, "publish") /\ Goto(t, "mark") /\ stream' = Append(stream, i)
        /\ UNCHANGED <<table, dlq, dlqLost, troubled, late>>
    BY <1>1 DEF PublishOk, history
  <2> QED
    BY <1>a, <1>b, <2>1, GotoOrder
<1>2. CASE PublishFails(t, i)
  <2>1. /\ At(t, i, "publish") /\ Goto(t, "failed") /\ stream' \in {stream, Append(stream, i)}
        /\ troubled' = troubled \cup {i} /\ UNCHANGED <<table, dlq, dlqLost, late>>
    BY <1>2 DEF PublishFails
  <2> QED
    BY <1>a, <1>b, <2>1, GotoOrder
<1>3. CASE MarkFails(t, i)
  <2>1. /\ At(t, i, "mark") /\ Goto(t, "failed")
        /\ troubled' = troubled \cup {i} /\ UNCHANGED <<table, stream, dlq, dlqLost, late>>
    BY <1>3 DEF MarkFails, redis
  <2> QED
    BY <1>a, <1>b, <2>1, GotoOrder
<1>4. CASE DeadLetterOk(t, i) \/ DeadLetterFails(t, i)
  <2>1. /\ At(t, i, "failed") /\ Goto(t, "retire")
        /\ dlq' \in {dlq, Append(dlq, i)} /\ dlqLost' \subseteq dlqLost \cup {i}
        /\ UNCHANGED <<table, stream, troubled, late>>
    BY <1>4 DEF DeadLetterOk, DeadLetterFails, history
  <2>2. ToSet(dlq') \cup dlqLost' \subseteq troubled /\ i \in troubled
    BY <1>a, <1>b, <2>1
  <2> QED
    BY <1>a, <2>1, <2>2, GotoOrder
<1>5. CASE MarkOk(t, i)
  <2>1. /\ At(t, i, "mark") /\ Advance(t, i)
        /\ UNCHANGED <<rowState, attempts, stream, dlq, dlqLost, troubled, late>>
    BY <1>5 DEF MarkOk, redis, history
  <2> QED
    BY <1>a, <1>b, <2>1, AdvanceOrder
<1>6. CASE RecordFailure(t, i) \/ Retire(t, i)
  <2>1. /\ At(t, i, "failed") \/ At(t, i, "retire")
        /\ Advance(t, i) /\ attempts' = [attempts EXCEPT ![i] = seen[t][i] + 1]
        /\ UNCHANGED <<rowState, stream, dlq, dlqLost, troubled, late>>
    BY <1>6 DEF RecordFailure, Retire, redis, history
  <2>2. \A j \in Ids : attempts'[j] # attempts[j] => j \in troubled
    BY <1>a, <1>b, <2>1 DEF TableType
  <2> QED
    BY <1>a, <1>b, <2>1, <2>2, AdvanceOrder
<1>7. CASE UpdateFails(t, i)
  <2>1. pc[t] # "idle" /\ Finish(t) /\ UNCHANGED <<table, redis, dlqLost, troubled, late>>
    BY <1>7 DEF UpdateFails, At
  <2>2. \A u \in Ticks : todo'[u] = {}
    BY <2>1, FinishControl DEF IInv, TypeInv, TypeOK
  <2> QED
    BY <2>1, <2>2, OrderStays DEF table, redis
<1>8. CASE PublishAgain(t, i)
  <2>1. /\ At(t, i, "publish") /\ stream' = Append(stream, i)
        /\ UNCHANGED <<process, local, table, dlq, dlqLost, troubled, late>>
    BY <1>8 DEF PublishAgain
  <2>2. Goto(t, "publish")
    BY <1>c, <2>1, StaysPut DEF At
  <2> QED
    BY <1>a, <1>b, <2>1, <2>2, GotoOrder
<1>9. CASE DeadLetterAgain(t, i)
  <2>1. /\ At(t, i, "failed") /\ dlq' = Append(dlq, i)
        /\ UNCHANGED <<process, local, table, stream, dlqLost, troubled, late>>
    BY <1>9 DEF DeadLetterAgain
  <2>2. Goto(t, "failed")
    BY <1>c, <2>1, StaysPut DEF At
  <2>3. ToSet(dlq') \cup dlqLost' \subseteq troubled' /\ i \in troubled'
    BY <1>a, <1>b, <2>1
  <2> QED
    BY <1>a, <2>1, <2>2, <2>3, GotoOrder
<1> QED
  BY <1>1, <1>2, <1>3, <1>4, <1>5, <1>6, <1>7, <1>8, <1>9 DEF Handle

LEMMA OrderStep == IInv /\ OrderInv /\ [Next]_vars => OrderInv'
<1> SUFFICES ASSUME IInv, OrderInv, [Next]_vars PROVE OrderInv'
  OBVIOUS
<1>0. TableType /\ RelayType /\ Control
  BY DEF IInv, TypeInv, TypeOK
<1>1. CASE WriteOutbox \/ (\E i \in Ids : Rollback(i)) \/ StartRelay \/ StopRelay \/ UNCHANGED vars
  <2>1. /\ UNCHANGED <<attempts, stream, dlq, dlqLost, troubled, late, todo, pc>>
        /\ \A i \in Ids : rowState'[i] = "committed" => rowState[i] = "committed"
    BY <1>0, <1>1 DEF WriteOutbox, Rollback, StartRelay, StopRelay, vars, table, redis,
      local, history, TableType
  <2> QED
    BY <2>1, OrderStays
<1>2. ASSUME NEW i \in Ids, Commit(i) PROVE OrderInv'
  BY <1>2, CommitOrder
<1>3. ASSUME NEW t \in Ticks, StartTick(t) PROVE OrderInv'
  <2>1. /\ UNCHANGED <<rowState, attempts, stream, dlq, dlqLost, troubled, late, todo>>
        /\ \A u \in Ticks : pc'[u] = pc[u] \/ pc'[u] \notin InBatch
    BY <1>0, <1>3 DEF StartTick, RelayType, InBatch, table, redis, history
  <2> QED
    BY <2>1, OrderStays
<1>4. ASSUME NEW t \in Ticks, (Query(t) /\ Batch(Eligible) = {}) \/ QueryFails(t)
      PROVE  OrderInv'
  <2>1. /\ UNCHANGED <<rowState, attempts, stream, dlq, dlqLost, troubled, late>>
        /\ pc[t] # "idle" /\ Finish(t)
    BY <1>4 DEF Query, QueryFails, table, redis, history
  <2>2. \A u \in Ticks : todo'[u] = {}
    BY <1>0, <2>1, FinishControl
  <2> QED
    BY <2>1, <2>2, OrderStays
<1>5. ASSUME NEW t \in Ticks, Query(t), Batch(Eligible) # {} PROVE OrderInv'
  BY <1>5, QueryOrder
<1>6. ASSUME NEW t \in Ticks, NEW i \in Ids, Handle(t, i) PROVE OrderInv'
  BY <1>6, HandleOrder
<1>7. CASE Exit \/ Crash
  <2>1. /\ UNCHANGED <<attempts, stream, dlq, dlqLost, troubled, late>>
        /\ \A t \in Ticks : todo'[t] = {}
        /\ \A i \in Ids : rowState'[i] = "committed" => rowState[i] = "committed"
    BY <1>7 DEF Exit, Crash, Die, redis, history
  <2> QED
    BY <2>1, OrderStays
<1> QED
  BY <1>1, <1>2, <1>3, <1>4, <1>5, <1>6, <1>7 DEF Next, TickStep

(* The relay publishes in the order of the ids: whatever overtook a row     *)
(* did so because an attempt of that row failed or it was committed late.   *)
THEOREM PublishesInOrder == SafeSpec => []OvertakenOnlyAfterTrouble
<1>1. IInv /\ OrderInv => OvertakenOnlyAfterTrouble
  <2> SUFFICES ASSUME IInv, OrderInv, NEW i \in ToSet(stream), NEW j \in ToSet(stream),
                      i < j, First(stream, j) < First(stream, i), i \notin troubled \cup late
               PROVE  FALSE
    BY DEF OvertakenOnlyAfterTrouble
  <2>1. /\ stream \in Seq(Ids) /\ i \in Ids /\ rowState[i] = "committed"
    BY DEF IInv, TypeInv, TypeOK, RedisType, ToSet, OnlyCommittedEventsLeave
  <2>2. First(stream, i) < First(stream, j)
    BY <2>1 DEF OrderInv, StreamInOrder, OnTime
  <2>3. First(stream, i) \in Nat /\ First(stream, j) \in Nat
    <3> HIDE DEF Ids
    <3>1. First(stream, i) \in DOMAIN stream /\ First(stream, j) \in DOMAIN stream
      BY <2>1, FirstIsFirst
    <3> QED
      BY <2>1, <3>1
  <2> QED
    BY <2>2, <2>3
<1> QED
  BY <1>1, Invariance, OrderInit, OrderStep, PTL DEF SafeSpec
=============================================================================
