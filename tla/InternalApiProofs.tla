-------------------------- MODULE InternalApiProofs --------------------------
(***************************************************************************)
(* Proofs about InternalApi, for any number of requests and of faults: what *)
(* OcppCommandProofs says of commands holds of those the API sends, a key   *)
(* sends one command unless its requests raced, and a stored response is    *)
(* kept.                                                                   *)
(***************************************************************************)
EXTENDS InternalApi, OcppCommandProofs

USE ApiFaultsAssumption

------------------------------------------------------------------------------
(* The API only ever takes steps of OcppCommand, or leaves it alone.        *)

ReqStep(r) ==
  \/ Refuse(r) \/ Replay(r) \/ Pass(r) \/ GetFails(r)
  \/ SetInProgress(r) \/ SetInProgressFails(r)
  \/ Reject(r) \/ LookupFails(r) \/ AnswerSession(r)

LEMMA ApiStepKinds ==
  ASSUME [ApiNext]_all
  PROVE  \/ \E r \in Requests : ReqStep(r) /\ UNCHANGED <<vars, route>>
         \/ \E r \in Requests : StartSession(r) \/ StartCommand(r)
         \/ CommandStep /\ UNCHANGED <<route, api>>
         \/ MarkerExpires /\ UNCHANGED vars
         \/ ResponseExpires /\ UNCHANGED vars
         \/ ApiCrash
         \/ UNCHANGED all
<1>1. ASSUME NEW r \in Requests, ReqStep(r) PROVE UNCHANGED <<vars, route>>
  BY <1>1 DEF ReqStep, Refuse, Replay, Pass, GetFails, SetInProgress,
     SetInProgressFails, Reject, LookupFails, AnswerSession
<1>2. MarkerExpires \/ ResponseExpires => UNCHANGED vars
  BY DEF MarkerExpires, ResponseExpires
<1> QED
  BY <1>1, <1>2 DEF ApiNext, Handler, ReqStep, ApiDone

LEMMA ApiStepIsCommandStep == [ApiNext]_all => [Next]_vars
<1> SUFFICES ASSUME [ApiNext]_all PROVE [Next]_vars
  OBVIOUS
<1>1. ASSUME NEW r \in Requests, StartSession(r) \/ StartCommand(r) PROVE Next
  BY <1>1 DEF StartSession, StartCommand, Requests, Sender, Next
<1>2. CommandStep => Next
  BY DEF CommandStep, Sender, Next
<1>3. ApiCrash => Next
  BY DEF ApiCrash, Next
<1>4. UNCHANGED all => UNCHANGED vars
  BY DEF all
<1> QED
  BY <1>1, <1>2, <1>3, <1>4, ApiStepKinds

(* Under the API a command does what OcppCommand says, whatever becomes of  *)
(* the requests: every property proved there holds here.                   *)
THEOREM ApiImplementsCommands == ApiSafeSpec => SafeSpec
<1>1. ApiInit => Init
  BY DEF ApiInit
<1> QED
  BY <1>1, ApiStepIsCommandStep, PTL DEF ApiSafeSpec, SafeSpec

(* So the outcome of a command the Portal asked for is published once and   *)
(* is its row's for good, across retries of the request.                   *)
THEOREM ApiOneOutcome == ApiSafeSpec => []PublishedOutcomeIsFinal
BY ApiImplementsCommands, OneOutcome, PTL

------------------------------------------------------------------------------
(* Type correctness.  AnswerSession needs that the caller of a command that *)
(* returned was told something.                                            *)

ReturnedIsTold == \A c \in Commands : pc[c] = "returned" => told[c] \in Results

RequestType ==
  /\ route \in Routes
  /\ req \in [Requests -> ReqPoints]
  /\ reply \in [Requests -> Statuses \cup {"none", "duplicate"}]
  /\ overlapped \in [Requests -> SUBSET Requests]
EntryType ==
  /\ cached \in Cacheable \cup {"none", "inProgress"}
  /\ stored \in BOOLEAN
  /\ expired \in BOOLEAN
  /\ apiFaults \in 0 .. MaxApiFaults

ApiTypeInv == TypeInv /\ ReturnedIsTold /\ RequestType /\ EntryType

LEMMA ToldStep == TypeInv /\ ReturnedIsTold /\ [Next]_vars => ReturnedIsTold'
<1> SUFFICES ASSUME TypeInv, ReturnedIsTold, [Next]_vars PROVE ReturnedIsTold'
  OBVIOUS
<1> USE DEF ReturnedIsTold
<1>t. /\ pc \in [Commands -> Points]
      /\ told \in [Commands -> Results \cup {"none"}]
  BY DEF TypeInv, TypeOK, SenderType
<1>m. ASSUME NEW c \in Commands, NEW p, p # "returned", Goto(c, p), UNCHANGED told
      PROVE  ReturnedIsTold'
  BY <1>t, <1>m DEF Goto
<1>r. ASSUME NEW c \in Commands, pc[c] = "record", Return(c), UNCHANGED settled
      PROVE  ReturnedIsTold'
  <2>1. FinalStatus(settled[c]) \in Results
    BY <1>r, ReturnType
  <2> QED
    BY <1>t, <1>r, <2>1 DEF Return, Goto
<1>1. ASSUME NEW c \in Commands, Sender(c) PROVE ReturnedIsTold'
  <2>1. CASE Begin(c) \/ InsertPending(c) \/ InsertFails(c) \/ Transmit(c)
    BY <1>m, <2>1 DEF Begin, InsertPending, InsertFails, Transmit
  <2>2. CASE TimerFires(c)
    BY <1>m, <2>2 DEF TimerFires, Settle
  <2>3. CASE RecordResult(c) \/ RecordFails(c)
    BY <1>r, <2>3 DEF RecordResult, RecordFails
  <2> QED
    BY <1>1, <2>1, <2>2, <2>3 DEF Sender
<1>2. ASSUME NEW f \in answers, ReceiveAnswer(f) PROVE ReturnedIsTold'
  <2>1. f.messageId \in Commands
    BY <1>2 DEF TypeInv, TypeOK, WireType
  <2> QED
    BY <1>m, <1>2, <2>1 DEF ReceiveAnswer, Settle
<1>3. ASSUME UNCHANGED <<pc, told>> PROVE ReturnedIsTold'
  BY <1>3
<1>4. ASSUME NEW c \in Commands, NEW a \in Frames, ChargerAnswers(c, a)
      PROVE  ReturnedIsTold'
  BY <1>3, <1>4 DEF ChargerAnswers
<1>5. CASE LoseFrames \/ BootstrapCleanup \/ BootstrapCleanupFails \/ Sweep \/ Done
  BY <1>3, <1>5 DEF LoseFrames, BootstrapCleanup, BootstrapCleanupFails, Sweep,
     Done, vars
<1>6. CASE Crash
  BY <1>t, <1>6 DEF Crash, InMemory
<1>7. CASE UNCHANGED vars
  BY <1>3, <1>7 DEF vars
<1> QED
  BY <1>1, <1>2, <1>4, <1>5, <1>6, <1>7 DEF Next

LEMMA ApiTypeInit == ApiInit => ApiTypeInv
<1> SUFFICES ASSUME ApiInit PROVE ApiTypeInv
  OBVIOUS
<1>1. TypeInv
  BY TypeInit DEF ApiInit
<1>2. ReturnedIsTold
  BY DEF ApiInit, Init, ReturnedIsTold
<1>3. RequestType
  BY DEF ApiInit, RequestType, ReqPoints, Statuses, Cacheable
<1>4. EntryType
  <2>1. apiFaults \in 0 .. MaxApiFaults
    BY DEF ApiInit
  <2> QED
    BY <2>1 DEF ApiInit, EntryType
<1> QED
  BY <1>1, <1>2, <1>3, <1>4 DEF ApiTypeInv

LEMMA MoveType ==
  ASSUME RequestType, NEW r \in Requests, NEW p \in ReqPoints, Move(r, p)
  PROVE  req' \in [Requests -> ReqPoints]
BY DEF RequestType, Move

LEMMA AnswerType ==
  ASSUME RequestType, EntryType, NEW r \in Requests, NEW s \in Statuses, Answer(r, s)
  PROVE  /\ req' \in [Requests -> ReqPoints]
         /\ reply' \in [Requests -> Statuses \cup {"none", "duplicate"}]
         /\ overlapped' = overlapped
         /\ EntryType'
<1>1. req' \in [Requests -> ReqPoints]
  BY MoveType DEF Answer, ReqPoints
<1>2. reply' \in [Requests -> Statuses \cup {"none", "duplicate"}]
  BY DEF Answer, Respond, RespondUncached, RequestType
<1>3. overlapped' = overlapped
  BY DEF Answer, Respond, RespondUncached
<1>4. EntryType'
  <2>1. CASE Respond(r, s) /\ UNCHANGED apiFaults
    BY <2>1 DEF Respond, EntryType
  <2>2. CASE RespondUncached(r, s) /\ CostsApiFault
    BY <2>2 DEF RespondUncached, CostsApiFault, EntryType
  <2> QED
    BY <2>1, <2>2 DEF Answer
<1> QED
  BY <1>1, <1>2, <1>3, <1>4

LEMMA ReqStepType ==
  ASSUME ApiTypeInv, NEW r \in Requests, ReqStep(r), UNCHANGED route
  PROVE  RequestType' /\ EntryType'
<1>t. RequestType /\ EntryType
  BY DEF ApiTypeInv
<1>m. ASSUME NEW p \in ReqPoints, Move(r, p) PROVE req' \in [Requests -> ReqPoints]
  BY <1>t, <1>m, MoveType
<1>1. CASE Refuse(r) \/ Replay(r)
  <2>1. /\ req' \in [Requests -> ReqPoints]
        /\ UNCHANGED <<cached, stored, overlapped, expired, apiFaults>>
    BY <1>1, <1>m DEF Refuse, Replay, AnswerAtOnce, ReqPoints
  <2>2. reply' \in [Requests -> Statuses \cup {"none", "duplicate"}]
    BY <1>t, <1>1 DEF Refuse, Replay, AnswerAtOnce, RequestType, Statuses
  <2> QED
    BY <1>t, <2>1, <2>2 DEF RequestType, EntryType
<1>2. CASE Pass(r) \/ GetFails(r)
  <2>1. /\ req' \in [Requests -> ReqPoints]
        /\ UNCHANGED <<reply, cached, stored, expired>>
    BY <1>2, <1>m DEF Pass, GetFails, PassOn, ReqPoints
  <2>2. overlapped' \in [Requests -> SUBSET Requests]
    BY <1>t, <1>2 DEF Pass, GetFails, PassOn, At, RequestType
  <2>3. apiFaults' \in 0 .. MaxApiFaults
    BY <1>t, <1>2 DEF Pass, GetFails, CostsApiFault, EntryType
  <2> QED
    BY <1>t, <2>1, <2>2, <2>3 DEF RequestType, EntryType
<1>3. CASE SetInProgress(r) \/ SetInProgressFails(r)
  <2>1. /\ req' \in [Requests -> ReqPoints]
        /\ UNCHANGED <<reply, overlapped, stored, expired>>
    BY <1>3, <1>m DEF SetInProgress, SetInProgressFails, ReqPoints
  <2>2. cached' \in Cacheable \cup {"none", "inProgress"}
    BY <1>t, <1>3 DEF SetInProgress, SetInProgressFails, Marked, EntryType
  <2>3. apiFaults' \in 0 .. MaxApiFaults
    BY <1>t, <1>3 DEF SetInProgress, SetInProgressFails, CostsApiFault, EntryType
  <2> QED
    BY <1>t, <2>1, <2>2, <2>3 DEF RequestType, EntryType
<1>4. CASE Reject(r)
  BY <1>t, <1>4, AnswerType DEF Reject, RequestType, Statuses, Cacheable
<1>5. CASE LookupFails(r)
  <2>1. req' \in [Requests -> ReqPoints]
    BY <1>5, <1>m DEF LookupFails, ReqPoints
  <2>2. /\ reply' \in [Requests -> Statuses \cup {"none", "duplicate"}]
        /\ UNCHANGED <<cached, stored, overlapped, expired>>
    BY <1>t, <1>5 DEF LookupFails, Respond, RequestType, Statuses, Cacheable
  <2>3. apiFaults' \in 0 .. MaxApiFaults
    BY <1>t, <1>5 DEF LookupFails, CostsApiFault, EntryType
  <2> QED
    BY <1>t, <2>1, <2>2, <2>3 DEF RequestType, EntryType
<1>6. CASE AnswerSession(r)
  <2>1. told[r] \in Results
    BY <1>6 DEF AnswerSession, ApiTypeInv, ReturnedIsTold, Requests
  <2>2. Outcomes(told[r]) \subseteq Statuses
    BY <2>1 DEF Results, Outcomes, Statuses, Cacheable
  <2> QED
    BY <1>t, <1>6, <2>2, AnswerType DEF AnswerSession, RequestType
<1> QED
  BY <1>1, <1>2, <1>3, <1>4, <1>5, <1>6 DEF ReqStep

LEMMA ApiTypeStep == ApiTypeInv /\ [ApiNext]_all => ApiTypeInv'
<1> SUFFICES ASSUME ApiTypeInv, [ApiNext]_all PROVE ApiTypeInv'
  OBVIOUS
<1>t. TypeInv /\ ReturnedIsTold /\ RequestType /\ EntryType
  BY DEF ApiTypeInv
<1>1. TypeInv' /\ ReturnedIsTold'
  BY <1>t, ApiStepIsCommandStep, TypeStep, ToldStep
<1>2. RequestType' /\ EntryType'
  <2>1. ASSUME NEW r \in Requests, ReqStep(r), UNCHANGED route
        PROVE  RequestType' /\ EntryType'
    BY <2>1, ReqStepType
  <2>2. ASSUME NEW r \in Requests, StartSession(r) PROVE RequestType' /\ EntryType'
    <3>1. req' \in [Requests -> ReqPoints]
      BY <1>t, <2>2, MoveType DEF StartSession, ReqPoints
    <3> QED
      BY <1>t, <2>2, <3>1 DEF StartSession, RequestType, EntryType
  <2>3. ASSUME NEW r \in Requests, StartCommand(r) PROVE RequestType' /\ EntryType'
    BY <1>t, <2>3, AnswerType DEF StartCommand, RequestType, Statuses, Cacheable
  <2>4. CASE UNCHANGED <<route, api>>
    BY <1>t, <2>4 DEF api, RequestType, EntryType
  <2>5. CASE MarkerExpires \/ ResponseExpires
    BY <1>t, <2>5 DEF MarkerExpires, ResponseExpires, RequestType, EntryType
  <2>6. CASE ApiCrash
    <3>1. req' \in [Requests -> ReqPoints]
      BY <1>t, <2>6 DEF ApiCrash, RequestType, ReqPoints
    <3> QED
      BY <1>t, <2>6, <3>1 DEF ApiCrash, RequestType, EntryType
  <2>7. UNCHANGED all => UNCHANGED <<route, api>>
    BY DEF all
  <2> QED
    BY <2>1, <2>2, <2>3, <2>4, <2>5, <2>6, <2>7, ApiStepKinds
<1> QED
  BY <1>1, <1>2 DEF ApiTypeInv

(* Requests, the entry in Redis and the commands under them stay within     *)
(* their types.                                                            *)
THEOREM ApiTypeCorrect == ApiSafeSpec => []ApiTypeOK
<1>1. ApiTypeInv => ApiTypeOK
  BY DEF ApiTypeInv, ApiTypeOK, TypeInv, RequestType, EntryType
<1> QED
  BY ApiTypeInit, ApiTypeStep, <1>1, PTL DEF ApiSafeSpec

------------------------------------------------------------------------------
(* A stored response is kept.  The strengthening: a request has a reply      *)
(* only once it is answered, so an answer never replaces the reply the      *)
(* stored response was taken from.                                         *)

UnansweredHasNone == \A r \in Requests : req[r] # "answered" => reply[r] = "none"

KeptInv == UnansweredHasNone /\ ResponseIsKept

LEMMA KeptInit == ApiInit => KeptInv
BY DEF ApiInit, KeptInv, UnansweredHasNone, ResponseIsKept

(* One request gets its reply; the entry is left alone, or is the reply.    *)
LEMMA ReplyKeeps ==
  ASSUME RequestType, EntryType, KeptInv, NEW r \in Requests, req[r] # "answered",
         NEW s \in Statuses \cup {"duplicate"},
         reply' = [reply EXCEPT ![r] = s], Move(r, "answered"),
         \/ UNCHANGED <<cached, stored>>
         \/ s \in Cacheable /\ cached' = s
  PROVE  KeptInv'
<1>t. /\ reply \in [Requests -> Statuses \cup {"none", "duplicate"}]
      /\ req \in [Requests -> ReqPoints]
      /\ reply[r] = "none"
  BY DEF RequestType, KeptInv, UnansweredHasNone
<1>1. UnansweredHasNone'
  BY <1>t DEF Move, KeptInv, UnansweredHasNone
<1>2. reply'[r] = s /\ \A q \in Requests \ {r} : reply'[q] = reply[q]
  BY <1>t
<1>3. ResponseIsKept'
  <2>1. CASE UNCHANGED <<cached, stored>>
    <3> SUFFICES ASSUME stored
                 PROVE  cached \in {reply'[q] : q \in Requests} \cap Cacheable
      BY <2>1 DEF ResponseIsKept
    <3>1. PICK q \in Requests : reply[q] = cached /\ cached \in Cacheable
      BY DEF KeptInv, ResponseIsKept
    <3>2. q # r
      BY <1>t, <3>1 DEF Cacheable
    <3> QED
      BY <1>2, <3>1, <3>2
  <2>2. CASE s \in Cacheable /\ cached' = s
    BY <1>2, <2>2 DEF ResponseIsKept
  <2> QED
    BY <2>1, <2>2
<1> QED
  BY <1>1, <1>3 DEF KeptInv

LEMMA AnswerKeeps ==
  ASSUME RequestType, EntryType, KeptInv, NEW r \in Requests, req[r] # "answered",
         NEW s \in Statuses, Answer(r, s)
  PROVE  KeptInv'
<1>1. /\ reply' = [reply EXCEPT ![r] = s]
      /\ Move(r, "answered")
  BY DEF Answer, Respond, RespondUncached
<1>2. \/ UNCHANGED <<cached, stored>>
      \/ s \in Cacheable /\ cached' = s
  <2>1. CASE Respond(r, s)
    BY <2>1 DEF Respond
  <2>2. CASE RespondUncached(r, s)
    BY <2>2 DEF RespondUncached
  <2> QED
    BY <2>1, <2>2 DEF Answer
<1> QED
  BY <1>1, <1>2, ReplyKeeps

(* No request is answered, and a stored response stays in Redis.            *)
LEMMA QuietKeeps ==
  ASSUME KeptInv, UNCHANGED reply,
         \A r \in Requests : req[r] = "answered" => req'[r] = "answered",
         stored' => stored /\ cached' = cached
  PROVE  KeptInv'
<1>1. UnansweredHasNone'
  BY DEF KeptInv, UnansweredHasNone
<1>2. ResponseIsKept'
  BY DEF KeptInv, ResponseIsKept
<1> QED
  BY <1>1, <1>2 DEF KeptInv

LEMMA KeptStep == ApiTypeInv /\ KeptInv /\ [ApiNext]_all => KeptInv'
<1> SUFFICES ASSUME ApiTypeInv, KeptInv, [ApiNext]_all PROVE KeptInv'
  OBVIOUS
<1>t. RequestType /\ EntryType
  BY DEF ApiTypeInv
<1>r. req \in [Requests -> ReqPoints]
  BY <1>t DEF RequestType
<1>1. ASSUME NEW r \in Requests, ReqStep(r) PROVE KeptInv'
  <2>1. CASE Refuse(r)
    BY <1>t, <2>1, ReplyKeeps DEF Refuse, Comes, AnswerAtOnce
  <2>2. CASE Replay(r)
    <3>1. cached \in Statuses
      BY <2>2 DEF Replay, Statuses
    <3> QED
      BY <1>t, <2>2, <3>1, ReplyKeeps DEF Replay, Comes, AnswerAtOnce
  <2>3. CASE Pass(r) \/ GetFails(r)
    BY <1>r, <2>3, QuietKeeps DEF Pass, GetFails, Comes, PassOn, Move
  <2>4. CASE SetInProgress(r) \/ SetInProgressFails(r)
    <3>1. stored => Marked = cached
      BY DEF KeptInv, ResponseIsKept, Marked, Cacheable
    <3> QED
      BY <1>r, <2>4, <3>1, QuietKeeps DEF SetInProgress, SetInProgressFails, Move
  <2>5. CASE Reject(r)
    BY <1>t, <2>5, AnswerKeeps DEF Reject, Statuses, Cacheable
  <2>6. CASE LookupFails(r)
    <3>1. reply' = [reply EXCEPT ![r] = "5xx"] /\ UNCHANGED <<cached, stored>>
      BY <2>6 DEF LookupFails, Respond, Cacheable
    <3> QED
      BY <1>t, <2>6, <3>1, ReplyKeeps DEF LookupFails, Statuses
  <2>7. CASE AnswerSession(r)
    <3>1. told[r] \in Results
      BY <2>7 DEF AnswerSession, ApiTypeInv, ReturnedIsTold, Requests
    <3>2. Outcomes(told[r]) \subseteq Statuses
      BY <3>1 DEF Results, Outcomes, Statuses, Cacheable
    <3> QED
      BY <1>t, <2>7, <3>2, AnswerKeeps DEF AnswerSession
  <2> QED
    BY <1>1, <2>1, <2>2, <2>3, <2>4, <2>5, <2>6, <2>7 DEF ReqStep
<1>2. ASSUME NEW r \in Requests, StartSession(r) PROVE KeptInv'
  BY <1>r, <1>2, QuietKeeps DEF StartSession, Move
<1>3. ASSUME NEW r \in Requests, StartCommand(r) PROVE KeptInv'
  BY <1>t, <1>3, AnswerKeeps DEF StartCommand, Statuses, Cacheable
<1>4. CASE UNCHANGED <<route, api>>
  BY <1>4, QuietKeeps DEF api
<1>5. CASE MarkerExpires
  <2>1. ~stored
    BY <1>5 DEF MarkerExpires, KeptInv, ResponseIsKept, Cacheable
  <2> QED
    BY <1>5, <2>1, QuietKeeps DEF MarkerExpires
<1>6. CASE ResponseExpires
  BY <1>6, QuietKeeps DEF ResponseExpires
<1>7. CASE ApiCrash
  BY <1>7, QuietKeeps DEF ApiCrash
<1>8. UNCHANGED all => UNCHANGED <<route, api>>
  BY DEF all
<1> QED
  BY <1>1, <1>2, <1>3, <1>4, <1>5, <1>6, <1>7, <1>8, ApiStepKinds

(* A stored response stays the answer of its key for its day: raced         *)
(* requests, failures of Redis and restarts do not cover or lose it.       *)
THEOREM ResponseKept == ApiSafeSpec => []ResponseIsKept
<1>1. KeptInv => ResponseIsKept
  BY DEF KeptInv
<1> QED
  BY ApiTypeInit, ApiTypeStep, KeptInit, KeptStep, <1>1, PTL DEF ApiSafeSpec

------------------------------------------------------------------------------
(* One command per key.  The strengthening counts the requests that were    *)
(* let through, whether or not they have sent their command yet: once one   *)
(* of them has done its SET the entry exists, so a further one must have    *)
(* come before that, while the first was between GET and SET.               *)

Calm == faults = 0 /\ apiFaults = 0 /\ ~expired
Marking(r) == req[r] = "mark"
PastMark(r) == req[r] \in {"handler", "await"} \/ pc[r] # "new"
LetThrough == {r \in Requests : Marking(r) \/ PastMark(r)}

EntryAfterMark == Calm => \A r \in Requests : PastMark(r) => cached # "none"
LetThroughRaced ==
  Calm => \A q, r \in LetThrough :
            q # r => q \in overlapped[r] \/ r \in overlapped[q]

OnceInv == EntryAfterMark /\ LetThroughRaced

LEMMA OnceInit == ApiInit => OnceInv
BY DEF ApiInit, Init, OnceInv, EntryAfterMark, LetThroughRaced, LetThrough,
   Marking, PastMark, Requests

LEMMA CalmBefore == ApiTypeInv /\ [ApiNext]_all /\ Calm' => Calm /\ ~ApiCrash
<1> SUFFICES ASSUME ApiTypeInv, [ApiNext]_all, Calm' PROVE Calm /\ ~ApiCrash
  OBVIOUS
<1>t. faults \in Nat /\ apiFaults \in Nat /\ EntryType
  BY DEF ApiTypeInv, TypeInv, TypeOK, ProcessType, EntryType
<1>1. faults = 0 /\ ~Crash
  <2>1. [Next]_vars /\ faults' = 0
    BY ApiStepIsCommandStep DEF Calm
  <2>2. UNCHANGED faults \/ CostsFault => faults = 0
    BY <1>t, <2>1 DEF CostsFault
  <2>3. ~CostsFault
    BY <1>t, <2>1 DEF CostsFault
  <2>4. ~Crash
    BY <2>3 DEF Crash
  <2>5. UNCHANGED faults
    BY <2>1, <2>3, <2>4 DEF Next, Sender, Begin, InsertPending, InsertFails,
       Transmit, TimerFires, RecordResult, RecordFails, ChargerAnswers,
       ReceiveAnswer, LoseFrames, BootstrapCleanup, BootstrapCleanupFails,
       Sweep, Done, vars
  <2> QED
    BY <2>2, <2>4, <2>5
<1>2. apiFaults = 0 /\ ~expired
  <2>1. ~CostsApiFault
    BY <1>t DEF CostsApiFault, Calm
  <2>2. ASSUME NEW r \in Requests, ReqStep(r) \/ StartSession(r) \/ StartCommand(r)
        PROVE  UNCHANGED <<apiFaults, expired>>
    BY <2>1, <2>2 DEF ReqStep, Refuse, Replay, AnswerAtOnce, Pass, GetFails, PassOn,
       SetInProgress, SetInProgressFails, Reject, LookupFails, AnswerSession,
       StartSession, StartCommand, Answer, Respond, RespondUncached
  <2>3. ~MarkerExpires /\ ~ResponseExpires
    BY DEF MarkerExpires, ResponseExpires, Calm
  <2>4. UNCHANGED all \/ UNCHANGED <<route, api>> \/ ApiCrash
          => UNCHANGED <<apiFaults, expired>>
    BY DEF all, api, ApiCrash
  <2>5. UNCHANGED <<apiFaults, expired>>
    BY <2>2, <2>3, <2>4, ApiStepKinds
  <2> QED
    BY <2>5 DEF Calm
<1> QED
  BY <1>1, <1>2 DEF Calm, ApiCrash

(* Apart from Begin no step takes a command out of "new".                   *)
LEMMA CommandStepBegins ==
  ASSUME TypeOK, CommandStep
  PROVE  \A c \in Commands : pc[c] = "new" => pc'[c] = "new"
<1>t. pc \in [Commands -> Points]
  BY DEF TypeOK, SenderType
<1>m. ASSUME NEW c \in Commands, NEW p, pc[c] # "new", Goto(c, p)
      PROVE  \A d \in Commands : pc[d] = "new" => pc'[d] = "new"
  BY <1>t, <1>m DEF Goto
<1>1. ASSUME NEW c \in Commands,
             \/ InsertPending(c) \/ InsertFails(c) \/ Transmit(c)
             \/ TimerFires(c) \/ RecordResult(c) \/ RecordFails(c)
      PROVE  \A d \in Commands : pc[d] = "new" => pc'[d] = "new"
  BY <1>1, <1>m DEF InsertPending, InsertFails, Transmit, TimerFires, Waits, Settle,
     RecordResult, RecordFails, Return
<1>2. ASSUME NEW f \in answers, ReceiveAnswer(f)
      PROVE  \A d \in Commands : pc[d] = "new" => pc'[d] = "new"
  <2>1. f.messageId \in Commands
    BY <1>2 DEF TypeOK, WireType
  <2> QED
    BY <1>2, <1>m, <2>1 DEF ReceiveAnswer, Settle, Waits
<1>3. ASSUME NEW c \in Commands, NEW a \in Frames, ChargerAnswers(c, a)
      PROVE  UNCHANGED pc
  BY <1>3 DEF ChargerAnswers
<1>4. LoseFrames \/ BootstrapCleanup \/ BootstrapCleanupFails \/ Sweep => UNCHANGED pc
  BY DEF LoseFrames, BootstrapCleanup, BootstrapCleanupFails, Sweep
<1> QED
  BY <1>1, <1>2, <1>3, <1>4 DEF CommandStep

(* No request is let through, and the entry does not go.                    *)
LEMMA QuietOnce ==
  ASSUME OnceInv, Calm, UNCHANGED overlapped,
         \A r \in Requests : PastMark(r)' => PastMark(r) \/ (Marking(r) /\ cached' # "none"),
         \A r \in Requests : Marking(r)' => Marking(r),
         cached # "none" => cached' # "none"
  PROVE  OnceInv'
<1>1. EntryAfterMark'
  BY DEF OnceInv, EntryAfterMark
<1>2. LetThrough' \subseteq LetThrough
  BY DEF LetThrough
<1>3. LetThroughRaced'
  BY <1>2 DEF OnceInv, LetThroughRaced
<1> QED
  BY <1>1, <1>3 DEF OnceInv

LEMMA OnceStep == ApiTypeInv /\ OnceInv /\ [ApiNext]_all => OnceInv'
<1> SUFFICES ASSUME ApiTypeInv, OnceInv, [ApiNext]_all, Calm' PROVE OnceInv'
  BY DEF OnceInv, EntryAfterMark, LetThroughRaced
<1>c. Calm /\ ~ApiCrash
  BY CalmBefore
<1>t. RequestType /\ EntryType /\ TypeOK
  BY DEF ApiTypeInv, TypeInv
<1>r. /\ req \in [Requests -> ReqPoints]
      /\ overlapped \in [Requests -> SUBSET Requests]
  BY <1>t DEF RequestType
<1>f. ~CostsApiFault
  BY <1>t DEF CostsApiFault, Calm, EntryType
<1>m. ASSUME NEW r \in Requests, UNCHANGED <<pc, overlapped>>, Move(r, "answered"),
             cached # "none" => cached' # "none"
      PROVE  OnceInv'
  BY <1>c, <1>r, <1>m, QuietOnce DEF Move, PastMark, Marking
<1>a. ASSUME NEW r \in Requests, NEW s \in Statuses, Answer(r, s)
      PROVE  /\ Move(r, "answered")
             /\ UNCHANGED overlapped
             /\ cached # "none" => cached' # "none"
  BY <1>a DEF Answer, Respond, RespondUncached, Cacheable
<1>1. ASSUME NEW r \in Requests, ReqStep(r), UNCHANGED vars PROVE OnceInv'
  <2>p. UNCHANGED pc
    BY <1>1 DEF vars
  <2>1. CASE Refuse(r) \/ Replay(r)
    BY <1>m, <2>p, <2>1 DEF Refuse, Replay, AnswerAtOnce
  <2>2. CASE Pass(r)
    <3>1. \A q \in Requests : ~PastMark(q)
      BY <1>c, <2>2 DEF Pass, OnceInv, EntryAfterMark
    <3>2. /\ req' = [req EXCEPT ![r] = "mark"]
          /\ overlapped' = [overlapped EXCEPT ![r] = At("mark")]
      BY <2>2 DEF Pass, PassOn, Move
    <3>3. \A q \in Requests : ~PastMark(q)'
      BY <1>r, <2>p, <3>1, <3>2 DEF PastMark
    <3>4. \A q \in LetThrough' \ {r} : q \in LetThrough /\ q \in At("mark")
      BY <1>r, <3>2, <3>3 DEF LetThrough, Marking, At
    <3>5. LetThroughRaced'
      <4> SUFFICES ASSUME NEW q \in LetThrough', NEW x \in LetThrough', q # x
                   PROVE  q \in overlapped'[x] \/ x \in overlapped'[q]
        BY DEF LetThroughRaced
      <4>1. q \in Requests /\ x \in Requests
        BY DEF LetThrough
      <4>2. CASE q = r \/ x = r
        BY <1>r, <3>2, <3>4, <4>2
      <4>3. CASE q # r /\ x # r
        BY <1>c, <1>r, <3>2, <3>4, <4>1, <4>3 DEF OnceInv, LetThroughRaced
      <4> QED
        BY <4>2, <4>3
    <3> QED
      BY <3>3, <3>5 DEF OnceInv, EntryAfterMark
  <2>3. CASE SetInProgress(r)
    <3>1. cached' # "none"
      BY <2>3 DEF SetInProgress, Marked
    <3>2. req[r] = "mark" /\ req' = [req EXCEPT ![r] = "handler"] /\ UNCHANGED overlapped
      BY <2>3 DEF SetInProgress, Move
    <3> QED
      BY <1>c, <1>r, <2>p, <3>1, <3>2, QuietOnce DEF PastMark, Marking
  <2>4. CASE Reject(r)
    BY <1>a, <1>m, <2>p, <2>4 DEF Reject, Statuses, Cacheable
  <2>5. CASE AnswerSession(r)
    <3>1. told[r] \in Results
      BY <2>5 DEF AnswerSession, ApiTypeInv, ReturnedIsTold, Requests
    <3>2. Outcomes(told[r]) \subseteq Statuses
      BY <3>1 DEF Results, Outcomes, Statuses, Cacheable
    <3> QED
      BY <1>a, <1>m, <2>p, <2>5, <3>2 DEF AnswerSession
  <2> QED
    BY <1>1, <1>f, <2>1, <2>2, <2>3, <2>4, <2>5
    DEF ReqStep, GetFails, SetInProgressFails, LookupFails
<1>2. ASSUME NEW r \in Requests, StartSession(r) \/ StartCommand(r) PROVE OnceInv'
  <2>1. /\ req[r] = "handler"
        /\ UNCHANGED overlapped
        /\ cached # "none" => cached' # "none"
        /\ Move(r, "await") \/ Move(r, "answered")
    BY <1>2, <1>a DEF StartSession, StartCommand, Statuses, Cacheable
  <2>2. Goto(r, "insert") /\ pc \in [Commands -> Points]
    BY <1>2, <1>t DEF StartSession, StartCommand, Begin, TypeOK, SenderType
  <2> QED
    BY <1>c, <1>r, <2>1, <2>2, QuietOnce DEF Move, Goto, PastMark, Marking, Requests
<1>3. CASE CommandStep /\ UNCHANGED <<route, api>>
  BY <1>c, <1>t, <1>3, CommandStepBegins, QuietOnce DEF api, PastMark, Marking, Requests
<1>4. CASE UNCHANGED all
  BY <1>c, <1>4, QuietOnce DEF all, vars, api, PastMark, Marking
<1>5. ~MarkerExpires /\ ~ResponseExpires
  BY DEF MarkerExpires, ResponseExpires, Calm
<1> QED
  BY <1>c, <1>1, <1>2, <1>3, <1>4, <1>5, ApiStepKinds

(* While Redis, the process and the clock do not interfere, two commands of *)
(* one key were sent by requests that did their GET before the other's SET. *)
THEOREM OneCommand == ApiSafeSpec => []OneCommandUnlessRaced
<1>1. OnceInv => OneCommandUnlessRaced
  BY DEF OnceInv, LetThroughRaced, LetThrough, PastMark, Calm,
     OneCommandUnlessRaced, Requests
<1> QED
  BY ApiTypeInit, ApiTypeStep, OnceInit, OnceStep, <1>1, PTL DEF ApiSafeSpec
==============================================================================
