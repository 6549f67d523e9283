----------------------------- MODULE OutboxRelay -----------------------------
(***************************************************************************)
(* The transactional outbox of the Core and the relay that empties it      *)
(* (packages/core/src/outbox).  Business transactions insert rows of       *)
(* outbox_event; a timer runs tick(), which reads a batch of unpublished   *)
(* rows and, one await at a time, XADDs each to the Redis stream and marks *)
(* its row.  Every await is a step of its own: between two of them the     *)
(* process may crash and other transactions commit.                        *)
(***************************************************************************)
EXTENDS Naturals, FiniteSets, SequencesExt

CONSTANTS
  MaxRows,      \* rows ever inserted: bounds the model
  MaxAttempts,  \* MAX_ATTEMPTS, 10 in the code
  BatchSize,    \* BATCH_SIZE, 100 in the code
  Ticks,        \* invocations of tick() that may be in flight together
  MaxFaults     \* database errors, crashes, shutdowns and lost connections to
                \* Redis: bounds the model

ASSUME RowsAssumption == MaxRows \in Nat
ASSUME AttemptsAssumption == MaxAttempts \in Nat \ {0}
ASSUME BatchAssumption == BatchSize \in Nat \ {0}
ASSUME FaultsAssumption == MaxFaults \in Nat

Ids == 1 .. MaxRows

VARIABLES
  (* table outbox_event; ids come from a BIGSERIAL and so are taken at     *)
  (* insertion, before the surrounding transaction commits                 *)
  nextId, rowState, attempts, published,
  (* the Redis streams csms:core:events and csms:core:events:dlq           *)
  stream, dlq,
  (* the Core process: its life cycle and the module variable `running`    *)
  proc, running,
  (* the tick() invocations: where each awaits, the rows of its batch it   *)
  (* still has to handle, and `attempts` as its findMany returned them     *)
  pc, todo, seen,
  (* history: faults so far; rows whose dead-letter append failed without  *)
  (* a trace; rows with a failed attempt; rows committed after a later one *)
  faults, dlqLost, troubled, late

table   == <<nextId, rowState, attempts, published>>
redis   == <<stream, dlq>>
process == <<proc, running>>
local   == <<pc, todo, seen>>
history == <<faults, dlqLost, troubled, late>>
vars    == <<table, redis, process, local, history>>

RowStates  == {"free", "open", "committed", "aborted"}
ProcStates == {"booting", "up", "stopping"}
Points     == {"idle", "query", "publish", "mark", "failed", "retire"}
InBatch    == {"publish", "mark", "failed", "retire"}

NoAttempts == [i \in Ids |-> 0]

TableType ==
  /\ nextId \in 1 .. MaxRows + 1
  /\ rowState \in [Ids -> RowStates]
  /\ attempts \in [Ids -> 0 .. MaxAttempts]
  /\ published \in [Ids -> BOOLEAN]

RedisType ==
  /\ stream \in Seq(Ids)
  /\ dlq \in Seq(Ids)

RelayType ==
  /\ proc \in ProcStates
  /\ running \in BOOLEAN
  /\ pc \in [Ticks -> Points]
  /\ todo \in [Ticks -> SUBSET Ids]
  /\ seen \in [Ticks -> [Ids -> 0 .. MaxAttempts]]

HistoryType ==
  /\ faults \in 0 .. MaxFaults
  /\ dlqLost \in SUBSET Ids
  /\ troubled \in SUBSET Ids
  /\ late \in SUBSET Ids

TypeOK == TableType /\ RedisType /\ RelayType /\ HistoryType

Init ==
  /\ nextId = 1
  /\ rowState = [i \in Ids |-> "free"]
  /\ attempts = NoAttempts
  /\ published = [i \in Ids |-> FALSE]
  /\ stream = <<>>
  /\ dlq = <<>>
  /\ proc = "booting"
  /\ running = FALSE
  /\ pc = [t \in Ticks |-> "idle"]
  /\ todo = [t \in Ticks |-> {}]
  /\ seen = [t \in Ticks |-> NoAttempts]
  /\ faults = 0
  /\ dlqLost = {}
  /\ troubled = {}
  /\ late = {}

------------------------------------------------------------------------------
(* Business transactions                                                   *)

(* writeOutbox inside an open $transaction: the row exists, uncommitted.   *)
WriteOutbox ==
  /\ proc # "booting"
  /\ nextId <= MaxRows
  /\ rowState' = [rowState EXCEPT ![nextId] = "open"]
  /\ nextId' = nextId + 1
  /\ UNCHANGED <<attempts, published, redis, process, local, history>>

Commit(i) ==
  /\ rowState[i] = "open"
  /\ rowState' = [rowState EXCEPT ![i] = "committed"]
  /\ late' = IF \E j \in Ids : j > i /\ rowState[j] = "committed"
             THEN late \cup {i} ELSE late
  /\ UNCHANGED <<nextId, attempts, published, redis, process, local,
                 faults, dlqLost, troubled>>

Rollback(i) ==
  /\ rowState[i] = "open"
  /\ rowState' = [rowState EXCEPT ![i] = "aborted"]
  /\ UNCHANGED <<nextId, attempts, published, redis, process, local, history>>

------------------------------------------------------------------------------
(* The relay                                                               *)

CostsFault == faults < MaxFaults /\ faults' = faults + 1

(* finally { running = false }: the invocation t is over.                  *)
Finish(t) ==
  /\ running' = FALSE
  /\ pc' = [pc EXCEPT ![t] = "idle"]
  /\ todo' = [todo EXCEPT ![t] = {}]
  /\ seen' = [seen EXCEPT ![t] = NoAttempts]
  /\ UNCHANGED proc

(* The for loop goes on to the next row of the batch, or tick() returns.   *)
Advance(t, i) ==
  IF todo[t] = {i}
  THEN Finish(t)
  ELSE /\ pc' = [pc EXCEPT ![t] = "publish"]
       /\ todo' = [todo EXCEPT ![t] = @ \ {i}]
       /\ UNCHANGED <<seen, process>>

Goto(t, p) ==
  /\ pc' = [pc EXCEPT ![t] = p]
  /\ UNCHANGED <<todo, seen, process>>

(* Faulty variant of TickMayStart, for mutation testing.                  *)
TickMayStartUnguarded == TRUE

(* `if (running) return` *)
TickMayStart == ~running

StartTick(t) ==
  /\ proc = "up"
  /\ TickMayStart
  /\ pc[t] = "idle"
  /\ running' = TRUE
  /\ pc' = [pc EXCEPT ![t] = "query"]
  /\ UNCHANGED <<table, redis, proc, todo, seen, history>>

(* Faulty variant of Eligible, for mutation testing.                      *)
EligibleUncommitted ==
  {i \in Ids : rowState[i] \in {"open", "committed"}
               /\ ~published[i] /\ attempts[i] < MaxAttempts}

(* Faulty variant of Eligible, for mutation testing.                      *)
EligibleIgnoringPublished ==
  {i \in Ids : rowState[i] = "committed" /\ attempts[i] < MaxAttempts}

(* publishedAt IS NULL AND attempts < MAX_ATTEMPTS, of the committed rows  *)
Eligible ==
  {i \in Ids : rowState[i] = "committed"
               /\ ~published[i] /\ attempts[i] < MaxAttempts}

(* Faulty variant of Batch, for mutation testing.                         *)
HighestBatch(S) == {i \in S : Cardinality({j \in S : j >= i}) <= BatchSize}

(* orderBy id asc, take BATCH_SIZE *)
Batch(S) == {i \in S : Cardinality({j \in S : j <= i}) <= BatchSize}

Query(t) ==
  /\ pc[t] = "query"
  /\ IF Batch(Eligible) = {}
     THEN Finish(t)
     ELSE /\ todo' = [todo EXCEPT ![t] = Batch(Eligible)]
          /\ seen' = [seen EXCEPT ![t] = attempts]
          /\ pc' = [pc EXCEPT ![t] = "publish"]
          /\ UNCHANGED process
  /\ UNCHANGED <<table, redis, history>>

QueryFails(t) ==
  /\ pc[t] = "query"
  /\ CostsFault
  /\ Finish(t)
  /\ UNCHANGED <<table, redis, dlqLost, troubled, late>>

(* The loop handles the rows in the order of their ids.                    *)
At(t, i, p) ==
  /\ pc[t] = p
  /\ i \in todo[t]
  /\ \A j \in todo[t] : i <= j

(* Redis has appended the event, the connection is lost before the answer   *)
(* comes, and ioredis sends the command again: the same await goes on.      *)
PublishAgain(t, i) ==
  /\ At(t, i, "publish")
  /\ CostsFault
  /\ stream' = Append(stream, i)
  /\ UNCHANGED <<table, dlq, process, local, dlqLost, troubled, late>>

PublishOk(t, i) ==
  /\ At(t, i, "publish")
  /\ stream' = Append(stream, i)
  /\ Goto(t, "mark")
  /\ UNCHANGED <<table, dlq, history>>

(* xadd rejects: Redis may have run the command before the reply was lost. *)
PublishFails(t, i) ==
  /\ At(t, i, "publish")
  /\ stream' \in {stream, Append(stream, i)}
  /\ troubled' = troubled \cup {i}
  /\ Goto(t, "failed")
  /\ UNCHANGED <<table, dlq, faults, dlqLost, late>>

MarkOk(t, i) ==
  /\ At(t, i, "mark")
  /\ published' = [published EXCEPT ![i] = TRUE]
  /\ Advance(t, i)
  /\ UNCHANGED <<nextId, rowState, attempts, redis, history>>

(* The update throws into the same catch block as a failed publish.        *)
MarkFails(t, i) ==
  /\ At(t, i, "mark")
  /\ CostsFault
  /\ troubled' = troubled \cup {i}
  /\ Goto(t, "failed")
  /\ UNCHANGED <<table, redis, dlqLost, late>>

(* Faulty variant of LastAttempt, for mutation testing.                   *)
LastAttemptLate(t, i) == seen[t][i] + 1 > MaxAttempts

(* nextAttempts >= MAX_ATTEMPTS *)
LastAttempt(t, i) == seen[t][i] + 1 >= MaxAttempts

RecordFailure(t, i) ==
  /\ At(t, i, "failed")
  /\ ~LastAttempt(t, i)
  /\ attempts' = [attempts EXCEPT ![i] = seen[t][i] + 1]
  /\ Advance(t, i)
  /\ UNCHANGED <<nextId, rowState, published, redis, history>>

(* PublishAgain, of the other stream.                                       *)
DeadLetterAgain(t, i) ==
  /\ At(t, i, "failed")
  /\ LastAttempt(t, i)
  /\ CostsFault
  /\ dlq' = Append(dlq, i)
  /\ UNCHANGED <<table, stream, process, local, dlqLost, troubled, late>>

DeadLetterOk(t, i) ==
  /\ At(t, i, "failed")
  /\ LastAttempt(t, i)
  /\ dlq' = Append(dlq, i)
  /\ Goto(t, "retire")
  /\ UNCHANGED <<table, stream, history>>

(* moveToDeadLetter throws: caught and logged, the loop goes on to retire  *)
(* the row.  Here too the append may have happened, now or before.         *)
DeadLetterFails(t, i) ==
  /\ At(t, i, "failed")
  /\ LastAttempt(t, i)
  /\ \/ dlq' = Append(dlq, i) /\ UNCHANGED dlqLost
     \/ dlqLost' = dlqLost \cup ({i} \ ToSet(dlq)) /\ UNCHANGED dlq
  /\ Goto(t, "retire")
  /\ UNCHANGED <<table, stream, faults, troubled, late>>

(* Faulty variant of Retire, for mutation testing.                        *)
RetireIncrements(t, i) ==
  /\ At(t, i, "retire")
  /\ attempts' = [attempts EXCEPT ![i] = @ + seen[t][i] + 1]
  /\ published' = [published EXCEPT ![i] = TRUE]
  /\ Advance(t, i)
  /\ UNCHANGED <<nextId, rowState, redis, history>>

Retire(t, i) ==
  /\ At(t, i, "retire")
  /\ attempts' = [attempts EXCEPT ![i] = seen[t][i] + 1]
  /\ published' = [published EXCEPT ![i] = TRUE]
  /\ Advance(t, i)
  /\ UNCHANGED <<nextId, rowState, redis, history>>

(* An update inside the catch block throws: the whole tick is abandoned.   *)
UpdateFails(t, i) ==
  /\ \/ At(t, i, "failed") /\ ~LastAttempt(t, i)
     \/ At(t, i, "retire")
  /\ CostsFault
  /\ Finish(t)
  /\ UNCHANGED <<table, redis, dlqLost, troubled, late>>

------------------------------------------------------------------------------
(* The process                                                             *)

(* startOutboxRelay, called once by setupCoreInfra.                        *)
StartRelay ==
  /\ proc = "booting"
  /\ proc' = "up"
  /\ UNCHANGED <<table, redis, running, local, history>>

(* stopOutboxRelay: no new tick, the one in flight goes on.                *)
StopRelay ==
  /\ proc = "up"
  /\ CostsFault
  /\ proc' = "stopping"
  /\ UNCHANGED <<table, redis, running, local, dlqLost, troubled, late>>

(* The process ends: volatile state is gone, open transactions roll back.  *)
Die ==
  /\ proc' = "booting"
  /\ running' = FALSE
  /\ pc' = [t \in Ticks |-> "idle"]
  /\ todo' = [t \in Ticks |-> {}]
  /\ seen' = [t \in Ticks |-> NoAttempts]
  /\ rowState' = [i \in Ids |-> IF rowState[i] = "open" THEN "aborted"
                                ELSE rowState[i]]
  /\ UNCHANGED <<nextId, attempts, published, redis>>

Exit ==
  /\ proc = "stopping"
  /\ Die
  /\ UNCHANGED history

Crash ==
  /\ proc # "booting"
  /\ CostsFault
  /\ Die
  /\ UNCHANGED <<dlqLost, troubled, late>>

------------------------------------------------------------------------------
Handle(t, i) ==
  \/ PublishAgain(t, i) \/ PublishOk(t, i) \/ PublishFails(t, i)
  \/ MarkOk(t, i) \/ MarkFails(t, i)
  \/ RecordFailure(t, i)
  \/ DeadLetterAgain(t, i) \/ DeadLetterOk(t, i) \/ DeadLetterFails(t, i)
  \/ Retire(t, i)
  \/ UpdateFails(t, i)

TickStep(t) ==
  \/ Query(t) \/ QueryFails(t)
  \/ \E i \in Ids : Handle(t, i)

Next ==
  \/ WriteOutbox
  \/ \E i \in Ids : Commit(i) \/ Rollback(i)
  \/ \E t \in Ticks : StartTick(t) \/ TickStep(t)
  \/ StartRelay \/ StopRelay \/ Exit \/ Crash

SafeSpec == Init /\ [][Next]_vars

(* setInterval keeps firing, an await always comes back, a started         *)
(* transaction ends, a process that died is restarted by its supervisor.   *)
Fairness ==
  /\ WF_vars(\E t \in Ticks : StartTick(t))
  /\ \A t \in Ticks : WF_vars(TickStep(t))
  /\ \A i \in Ids : WF_vars(Commit(i) \/ Rollback(i))
  /\ WF_vars(StartRelay)
  /\ WF_vars(Exit)

Spec == SafeSpec /\ Fairness

------------------------------------------------------------------------------
(* Properties                                                              *)

Occurrences(s, i) == Cardinality({k \in DOMAIN s : s[k] = i})
First(s, i) == SelectInSeq(s, LAMBDA x : x = i)

(* The flag `running` is what makes tick() a critical section: while an    *)
(* invocation is in flight no other one is, so the attempts it read are    *)
(* still the attempts of the rows of its batch and none is published.      *)
SnapshotIsCurrent ==
  \A t \in Ticks : pc[t] \in InBatch =>
    \A i \in todo[t] : seen[t][i] = attempts[i] /\ ~published[i]

(* The relay stops looking at a row only when the row's event is on the    *)
(* stream or on the dead-letter stream, with one exception the code has:   *)
(* the dead-letter append of its last attempt failed (outboxRelay:98-105). *)
RetiredIsAccountedFor ==
  \A i \in Ids :
    published[i] \/ attempts[i] = MaxAttempts
      => i \in ToSet(stream) \cup ToSet(dlq) \cup dlqLost

(* The outbox pattern proper: no consumer ever sees an event whose         *)
(* business transaction did not commit, whatever crashes.                  *)
OnlyCommittedEventsLeave ==
  \A i \in ToSet(stream) \cup ToSet(dlq) : rowState[i] = "committed"

(* Once marked, a row is finished: its event is never appended again to    *)
(* either stream, and the mark is never taken back.                        *)
KeepsSilence ==
  \A i \in Ids : published[i] =>
    published'[i] /\ stream' # Append(stream, i) /\ dlq' # Append(dlq, i)
RetiredStaysSilent == [][KeepsSilence]_vars

(* At-least-once does not mean unboundedly often: an event is appended at  *)
(* most MAX_ATTEMPTS times, plus once per database error, crash or         *)
(* connection that was lost with its XADD unanswered (redis.ts:5, ioredis).*)
BoundedDuplication ==
  \A i \in Ids : Occurrences(stream, i) <= MaxAttempts + faults

(* Events reach the stream in id order, except that a row may be overtaken *)
(* when an attempt of it failed or its transaction committed after that of *)
(* a later row.                                                            *)
OvertakenOnlyAfterTrouble ==
  \A i, j \in ToSet(stream) :
    i < j /\ First(stream, j) < First(stream, i)
      => i \in troubled \cup late

(* Every committed event leaves the outbox, even with Redis down for good  *)
(* (it is then retired after MAX_ATTEMPTS) and across crashes.             *)
EveryEventIsRetired ==
  \A i \in Ids : rowState[i] = "committed" ~> published[i]

(* The relay implements EventDelivery.                                     *)
Delivery ==
  INSTANCE EventDelivery WITH
    Events       <- Ids,
    written      <- {i \in Ids : rowState[i] = "committed"},
    delivered    <- ToSet(stream),
    deadLettered <- ToSet(dlq),
    dropped      <- dlqLost,
    retired      <- {i \in Ids : published[i]}

ImplementsDelivery == Delivery!Spec
=============================================================================
