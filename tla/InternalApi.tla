----------------------------- MODULE InternalApi -----------------------------
(***************************************************************************)
(* Requests of the Portal that carry one Idempotency-Key, around the        *)
(* commands they send: the middleware (internal-api/idempotency.middleware  *)
(* .ts) with its entry in Redis, the routes that answer with the charger's  *)
(* answer (routes/sessions.routes.ts, and the update of one station in      *)
(* routes/firmware.routes.ts) and those that answer 202 at once             *)
(* (routes/commands.routes.ts). A request sends at most one command and has *)
(* its name. Requests with other keys, or with none, share nothing with     *)
(* these but the charger.                                                   *)
(***************************************************************************)
EXTENDS OcppCommand

CONSTANT MaxApiFaults  \* failed calls of Redis and queries: bounds the model

ASSUME ApiFaultsAssumption == MaxApiFaults \in Nat

VARIABLES
  route,      \* what the key's requests ask for
  req,        \* the await each request is at
  reply,      \* the class of the status each request was answered with
  cached,     \* idempotency:internal:<key> in Redis
  stored,     \* history: a response was stored and has not expired
  overlapped, \* history: requests between GET and SET when this one did GET
  expired,    \* history: an entry expired
  apiFaults   \* history: such faults so far

api  == <<req, reply, cached, stored, overlapped, expired, apiFaults>>
all  == <<vars, route, api>>

Requests == Commands
Routes   == {"sessions", "commands"}
ReqPoints == {"new", "mark", "handler", "await", "answered", "dead"}
(* Statuses below 500 are cached, the others are not.                      *)
Cacheable == {"2xx", "4xx"}
Statuses  == Cacheable \cup {"5xx"}

ApiTypeOK ==
  /\ TypeOK
  /\ route \in Routes
  /\ req \in [Requests -> ReqPoints]
  /\ reply \in [Requests -> Statuses \cup {"none", "duplicate"}]
  /\ cached \in Cacheable \cup {"none", "inProgress"}
  /\ stored \in BOOLEAN
  /\ overlapped \in [Requests -> SUBSET Requests]
  /\ expired \in BOOLEAN
  /\ apiFaults \in 0 .. MaxApiFaults

ApiInit ==
  /\ Init
  /\ route \in Routes
  /\ req = [r \in Requests |-> "new"]
  /\ reply = [r \in Requests |-> "none"]
  /\ cached = "none"
  /\ stored = FALSE
  /\ overlapped = [r \in Requests |-> {}]
  /\ expired = FALSE
  /\ apiFaults = 0

At(p) == {r \in Requests : req[r] = p}
Move(r, p) == req' = [req EXCEPT ![r] = p]

CostsApiFault == apiFaults < MaxApiFaults /\ apiFaults' = apiFaults + 1

------------------------------------------------------------------------------
(* idempotencyMiddleware: GET                                              *)

Comes(r) == proc = "up" /\ req[r] = "new"

AnswerAtOnce(r, s) ==
  /\ reply' = [reply EXCEPT ![r] = s]
  /\ Move(r, "answered")
  /\ UNCHANGED <<cached, stored, overlapped, expired, apiFaults>>

(* 409 DUPLICATE_REQUEST                                                   *)
Refuse(r) ==
  /\ Comes(r)
  /\ cached = "inProgress"
  /\ AnswerAtOnce(r, "duplicate")
  /\ UNCHANGED <<vars, route>>

(* X-Idempotent-Replayed                                                   *)
Replay(r) ==
  /\ Comes(r)
  /\ cached \in Cacheable
  /\ AnswerAtOnce(r, cached)
  /\ UNCHANGED <<vars, route>>

PassOn(r) ==
  /\ Move(r, "mark")
  /\ overlapped' = [overlapped EXCEPT ![r] = At("mark")]
  /\ UNCHANGED <<reply, cached, stored, expired>>

Pass(r) ==
  /\ Comes(r)
  /\ cached = "none"
  /\ PassOn(r)
  /\ UNCHANGED <<vars, route, apiFaults>>

(* Fail-open: as if there were no entry.                                   *)
GetFails(r) ==
  /\ Comes(r)
  /\ CostsApiFault
  /\ PassOn(r)
  /\ UNCHANGED <<vars, route>>

------------------------------------------------------------------------------
(* idempotencyMiddleware: SET                                              *)

(* Faulty variant of Marked, for mutation testing.                        *)
MarkedAlways == "inProgress"

(* SET NX EX 120                                                           *)
Marked == IF cached = "none" THEN "inProgress" ELSE cached

(* Faulty variant of SetInProgress, for mutation testing.                 *)
SkipMarker(r) ==
  /\ req[r] = "mark"
  /\ Move(r, "handler")
  /\ UNCHANGED <<vars, route, reply, cached, stored, overlapped, expired,
                 apiFaults>>

(* Whether NX wrote the marker is not looked at.                           *)
SetInProgress(r) ==
  /\ req[r] = "mark"
  /\ cached' = Marked
  /\ Move(r, "handler")
  /\ UNCHANGED <<vars, route, reply, stored, overlapped, expired,
                 apiFaults>>

(* Fail-open; Redis may have done what it could not confirm.               *)
SetInProgressFails(r) ==
  /\ req[r] = "mark"
  /\ CostsApiFault
  /\ cached' \in {cached, Marked}
  /\ Move(r, "handler")
  /\ UNCHANGED <<vars, route, reply, stored, overlapped, expired>>

(* The wrapped res.json. The SET is not awaited: Redis gets the commands of *)
(* the one connection in the order in which they are issued.               *)
Respond(r, s) ==
  /\ reply' = [reply EXCEPT ![r] = s]
  /\ IF s \in Cacheable
     THEN cached' = s /\ stored' = TRUE
     ELSE UNCHANGED <<cached, stored>>
  /\ UNCHANGED <<overlapped, expired>>

RespondUncached(r, s) ==
  /\ s \in Cacheable
  /\ reply' = [reply EXCEPT ![r] = s]
  /\ cached' \in {cached, s}
  /\ UNCHANGED <<stored, overlapped, expired>>

(* Either the response is stored, or Redis fails and that is logged.       *)
Answer(r, s) ==
  /\ Move(r, "answered")
  /\ \/ Respond(r, s) /\ UNCHANGED apiFaults
     \/ RespondUncached(r, s) /\ CostsApiFault

------------------------------------------------------------------------------
(* The routes                                                              *)

(* The body is incomplete, or the station unknown or not connected.        *)
Reject(r) ==
  /\ req[r] = "handler"
  /\ Answer(r, "4xx")
  /\ UNCHANGED <<vars, route>>

(* The lookup of the station rejects: the common error handler says 500.   *)
LookupFails(r) ==
  /\ req[r] = "handler"
  /\ CostsApiFault
  /\ Move(r, "answered")
  /\ Respond(r, "5xx")
  /\ UNCHANGED <<vars, route>>

(* sessions.routes: sendCommand is awaited.                                *)
StartSession(r) ==
  /\ route = "sessions"
  /\ req[r] = "handler"
  /\ Begin(r)
  /\ Move(r, "await")
  /\ UNCHANGED <<route, reply, cached, stored, overlapped, expired,
                 apiFaults>>

(* sendAsyncCommandResponse: sendCommand runs on, the answer is 202.       *)
StartCommand(r) ==
  /\ route = "commands"
  /\ req[r] = "handler"
  /\ Begin(r)
  /\ Answer(r, "2xx")
  /\ UNCHANGED route

(* Faulty variant of Outcomes, for mutation testing.                      *)
OutcomesOfAnswers(t) == IF t = "completed" THEN {"2xx", "4xx"} ELSE {}

(* mapOcppError and the check for Rejected, by what the caller was told.   *)
Outcomes(t) ==
  CASE t = "completed" -> {"2xx", "4xx"}
    [] t = "error"     -> {"4xx", "5xx"}
    [] t = "timeout"   -> {"5xx"}

AnswerSession(r) ==
  /\ req[r] = "await"
  /\ pc[r] = "returned"
  /\ \E s \in Outcomes(told[r]) : Answer(r, s)
  /\ UNCHANGED <<vars, route>>

------------------------------------------------------------------------------
(* Two minutes; the handlers are through by then, with the half minute a    *)
(* charger has to answer and the margin the code allows for.               *)
MarkerExpires ==
  /\ cached = "inProgress"
  /\ At("mark") \cup At("handler") \cup At("await") = {}
  /\ cached' = "none"
  /\ expired' = TRUE
  /\ UNCHANGED <<vars, route, req, reply, stored, overlapped, apiFaults>>

(* A day.                                                                  *)
ResponseExpires ==
  /\ cached \in Cacheable
  /\ cached' = "none"
  /\ stored' = FALSE
  /\ expired' = TRUE
  /\ UNCHANGED <<vars, route, req, reply, overlapped, apiFaults>>

(* Requests under way get no answer; Redis keeps the entry.                *)
ApiCrash ==
  /\ Crash
  /\ req' = [r \in Requests |->
               IF req[r] \in {"mark", "handler", "await"}
               THEN "dead" ELSE req[r]]
  /\ UNCHANGED <<route, reply, cached, stored, overlapped, expired,
                 apiFaults>>

(* Every request came and every command ended; that no request is left      *)
(* without an answer is NoRequestHangs.                                    *)
ApiDone ==
  /\ At("new") = {}
  /\ \A c \in Commands : pc[c] \in {"new", "returned", "dead"}
  /\ UNCHANGED all

------------------------------------------------------------------------------
(* The command goes on as OcppCommand has it, whoever waits for it.        *)
CommandStep ==
  \/ \E c \in Commands :
       \/ InsertPending(c) \/ InsertFails(c) \/ Transmit(c)
       \/ TimerFires(c) \/ RecordResult(c) \/ RecordFails(c)
       \/ \E a \in Frames : ChargerAnswers(c, a)
  \/ \E f \in answers : ReceiveAnswer(f)
  \/ LoseFrames
  \/ BootstrapCleanup \/ BootstrapCleanupFails \/ Sweep

Handler(r) ==
  \/ Reject(r) \/ LookupFails(r) \/ StartSession(r) \/ StartCommand(r)
  \/ AnswerSession(r)

ApiNext ==
  \/ \E r \in Requests :
       \/ Refuse(r) \/ Replay(r) \/ Pass(r) \/ GetFails(r)
       \/ SetInProgress(r) \/ SetInProgressFails(r)
       \/ Handler(r)
  \/ CommandStep /\ UNCHANGED <<route, api>>
  \/ MarkerExpires \/ ResponseExpires
  \/ ApiCrash
  \/ ApiDone

ApiSafeSpec == ApiInit /\ [][ApiNext]_all

(* Redis and the database answer or fail: no request is left at an await.   *)
ApiFairness ==
  \A r \in Requests :
    WF_all(SetInProgress(r) \/ SetInProgressFails(r) \/ Handler(r))

ApiSpec == ApiSafeSpec /\ Fairness /\ ApiFairness

------------------------------------------------------------------------------
(* Properties                                                              *)

(* Two requests of a key both send their command only when each did its GET *)
(* before the other's SET NX: once the marker is set no further one reaches *)
(* the handler, until Redis, the process or the clock takes it away.       *)
OneCommandUnlessRaced ==
  faults = 0 /\ apiFaults = 0 /\ ~expired =>
    \A q, r \in Requests :
      q # r /\ pc[q] # "new" /\ pc[r] # "new" =>
        q \in overlapped[r] \/ r \in overlapped[q]

(* A response that was stored stays the answer of its key until its day is  *)
(* over: no late marker of a raced request covers it, no failure of Redis   *)
(* and no restart loses it, and it is one that a request was given.        *)
ResponseIsKept ==
  stored => cached \in {reply[r] : r \in Requests} \cap Cacheable

(* The Portal waits for no answer for ever, whatever the charger does: the  *)
(* timer of the command ends the wait of the request.                      *)
NoRequestHangs ==
  \A r \in Requests : req[r] # "new" ~> req[r] \in {"answered", "dead"}
==============================================================================
