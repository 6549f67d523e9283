# Formal models of the Core

TLA+ models, model-checking configurations and machine-checked proofs for the Core of the
charging-station management system: the process that speaks OCPP 1.6-J with the chargers, owns
their tables, and tells the Portal what happens through a Redis stream. Paths are relative to
the repository (`packages/...` is `src/packages/...` in `PROJECT.json`).

    cd tla
    tlc -workers 2 -config OutboxSafety.cfg MCOutboxRelay     # one run
    tlapm OutboxRelayProofs.tla                               # the proofs

`PROJECT.json` lists the runs, what each shows, the lines of code behind every definition
(`map`), the hazards of the code with the properties that cover them, and the theorems.

## 1. Inventory

The Core is one Node.js process (`ecosystem.config.js`: fork mode, one instance). JavaScript
runs to completion between two `await`s, so the unit of interleaving is the await: every
database query, Redis command and socket callback is a point at which other handlers run and at
which the process may die. Postgres (through Prisma) and Redis survive it; module variables,
maps, timers and sockets do not.

| Component | Source | State | Operations | Interacts with |
|---|---|---|---|---|
| Outbox | `packages/core/src/outbox` | table `outbox_event`; streams `csms:core:events` and `...:dlq`; variable `running` | `writeOutbox`, `tick`, start, stop | every handler writes it in its transaction; the Portal reads the stream |
| Sessions and connectors | `ocpp/handlers/{start,stop}Transaction, meterValues, statusNotification, bootNotification`, `jobs/processors/sessionTimeout` | tables `transaction`, `connector`, `charging_station` | five OCPP handlers, a timeout job | chargers; Portal inserts pending sessions; outbox |
| Connections | `ocpp/server.ts`, `connectionManager.ts`, `gateway.impl.ts` | map station → socket; `charging_station.status` | connect, message, close, error, register, forceDisconnect | chargers; commands; re-provisioning (`forceDisconnect`) |
| Commands | `ocpp/commands/*`, `pendingRequests.ts`, `services/ocppCommandResult.service.ts` | map messageId → promise; table `ocpp_command_result` | sendCommand, resolve/reject/timer, bootstrapCleanup, sweeper | internal API and campaigns call it; chargers; outbox |
| Firmware campaigns | `services/firmwareCampaign.service.ts`, `handlers/firmwareStatusNotification` | tables `firmware_campaign`, `firmware_campaign_progress` | start, dispatchAll, cancel, report | commands; chargers; outbox |
| Firmware files | `services/firmware.service.ts`, `controllers/firmware.controller.ts` | a directory, table `firmware` | upload, update, delete, download | campaigns refer to rows; chargers download |
| Provisioning | `services/provision.service.ts`, `station.service.ts`, their controllers and routes, `shared/utils/auth.ts` | tables `charger_provisioning`, `charging_station`, `station_id_sequence` | register, provision, update, reject, revoke, delete of a record; create, delete, resetPassword of a station; the password check of a handshake | chargers; the Portal; connections |
| Idempotency | `internal-api/idempotency.middleware.ts` | Redis keys | one middleware around write routes | every internal write |
| Diagnostics | `getDiagnostics.command`, `diagnosticsStatusNotification` | tables `diagnostics_request`, `ocpp_command_result` | request, report | the map of waiting answers; chargers; the sweeper |
| Id tokens | `handlers/authorize`, `routes/idTokens` | table `id_token` | register, update, delete, authorize | sessions refer to cards |
| Jobs | `jobs/*`, `bootstrap.ts` | BullMQ queue `charge-goal` | add, work | sessions; Portal |
| Process life cycle | `apps/core-server`, `bootstrap.ts` | – | boot order, shutdown | all |

The remaining packages (configuration, logging, HTTP routing, message parsing, migrations, the
Portal) keep no protocol state of the Core; `PROJECT.json` gives the reason for each.

What makes the code hard, by component, and what makes it correct:

* **Outbox.** A tick outlives the timer's period; XADD succeeds and the process dies before the
  row is marked, or the connection drops before its answer and the command is sent again; the update in
  the catch block throws; ids are drawn before commit, so a lower id
  may become visible later. Correct: every committed event reaches the stream or the dead-letter
  stream, an event is not forgotten before that, duplicates are bounded by failures, nothing of a
  rolled-back transaction leaves.
* **Sessions.** `server.ts` starts a handler per frame and awaits none, so two frames of one
  charger (after a client-side timeout, or from an old and a new socket) are handled together; each
  handler reads first, then updates *by id*. Correct: rows and events agree, no event about a
  session precedes its start, a session is billed once, an active row is a session that really
  runs.
* **Connections.** The close event of a replaced socket arrives after its successor registered;
  error precedes close; the offline transaction is not awaited. Correct: the registry points at
  the newest socket, other sockets go away, the row and the announced status agree.
* **Commands.** Answer, timer, sweeper and crash race for one outcome. Correct: one published
  outcome that the row agrees with, no row pending for ever.
* **Idempotency.** The marker is a GET, then an await, then a SET NX whose result nobody looks at;
  Redis may fail at each of the three calls and the code goes on; the entry outlives the process, and
  the request does not. Correct: a second command for a key only by a race, a failure or an expiry,
  the stored response stays the answer, no request hangs.
* **Campaigns.** `dispatchAll` and the reports write the same rows; "all done" is a count followed
  by an update; several chargers finish together. Correct: a finished row stays finished,
  completion exactly when nothing is left.
* **Provisioning.** Requests of chargers and of operators read, await and write the same record;
  only `provision` and `register` group their writes in a transaction, and a status is written on the
  strength of a read. A generated id may be one that somebody typed. Passwords rotate while old
  sockets are open or in their handshake. Correct: unique keys and links hold, a password in the table
  was handed to somebody, an old device does not stay connected, a station that a record holds is not given to another serial number.
* **Firmware files.** A row and its file are written one after the other, by uploads and deletes that
  may overlap, fail or die in between; the file's name is a function of its contents, so two requests
  may mean the same file. Correct: a row's file is there and whole, a file without a row goes.
* **Diagnostics.** One operation in two tables, each update a statement of its own; a report names no
  request and is attributed to the newest open one; the sweeper writes one of the tables. Correct: an
  ended request stays ended, a failure is told by both tables.
* **Id tokens.** The check for open sessions and the delete are two queries, and the foreign key sets
  null instead of refusing. Correct: an open session keeps its card.

## 2. The modules

Each module's variables are the tables and maps above, reduced to the columns the protocol reads;
each action is one await (or one socket/timer event). A step that a transaction makes atomic is
one action, with the event it writes to the outbox. `PROJECT.json` maps every definition to its
lines.

* `EventDelivery.tla` – the abstract promise to the Portal: an event written is delivered,
  dead-lettered or (named honestly) dropped, and only then retired.
* `OutboxRelay.tla` – the detailed relay. `Ticks` are invocations of `tick()`; `pc`, `todo`, `seen`
  are where one awaits, its batch, and the `attempts` it read. `PublishFails`/`DeadLetterFails`
  leave open whether Redis executed the command before the reply was lost. One `xadd` call may
  append more than once: when the connection drops after Redis has run it and before its answer
  comes, ioredis sends it again (`shared/config/redis.ts:5-11`, `maxRetriesPerRequest`; resending
  unfulfilled commands is the library's default). `PublishAgain` and `DeadLetterAgain` are those
  appends: the await goes on, and each costs a fault. Database errors, crashes, shutdowns and such
  lost connections are bounded by `MaxFaults`; calls that Redis rejects are not.
  `OutboxRelayProofs.tla` holds the proofs.
* `ChargeSession.tla` – one station. A handler is a record in a slot (`call[s]`: await, message,
  what its read returned). The charger is external: one call at a time until it is answered or
  gives up (`GiveUp`, a fault), and it repeats StopTransaction if it must. `found` carries the ids
  a handler read, so stale reads are real. `ChargeSessionProofs.tla` holds the proofs.
* `Connection.tla` – the sockets of one station, the registry, and the three writers of its status.
  `ConnectionProofs.tla` holds the proofs.
* `OcppCommand.tla` – commands, the map of waiting answers, a network that loses frames, both
  janitors. `CALLERROR`s whose text contains the word timeout are told apart, as
  `_sender.ts` classifies by text. `OcppCommandProofs.tla` holds the proofs.
* `InternalApi.tla` – extends `OcppCommand` by those who send the commands: requests of one
  Idempotency-Key go through the middleware (`new` is before GET, `mark` between GET and SET NX,
  `handler` before the route's first effect) to a route that awaits the command (`StartSession`,
  `AnswerSession`) or one that answers 202 and lets it run (`StartCommand`). `ApiNext` replaces
  `OcppCommand`'s free choice of a command to begin by those two, and keeps all of its other steps.
  The entry in Redis is `cached`; `overlapped`, `expired` and `stored` are history. A marker
  expires only when nobody is between GET and answer: two minutes against the half minute of a
  command's timer (the margin is the code's own reason for 120 s, `idempotency.middleware.ts:23`).
  `InternalApiProofs.tla` holds the proofs.
* `FirmwareCampaign.tla` – campaigns over several stations; the relation `newer` is the `updatedAt` order
  that `findFirst` uses. `FirmwareCampaignProofs.tla` holds the proofs.
* `Provisioning.tla` – requests in flight are records in slots, as in `ChargeSession`; the n-th
  request creates the record n or the password n, since ids are autoincremented and passwords random
  and neither repeats. Ids that people choose (`ClientIds`) are numbers the sequence may draw too. The
  history variables say what a password check cannot: `given`, the passwords replied; `forgotten`,
  those whose reply a crash prevented; `tolerated`, the sockets that a rotation left without
  meaning to end them (a first provisioning, a reset, a deletion, or a handshake that had read the old
  hash before the reply). The sockets are here to be let in, replaced and terminated; what their
  closing does is `Connection`. `ProvisioningProofs.tla` holds the proofs.
* `FirmwareStore.tla` – `rows`, the directory `disk` (a file is absent, whole, or truncated by an
  upload that is still writing it), `campaigns` that refer to rows, and requests in flight: upload,
  delete, update, the start of a campaign, and the chargers' downloads. A file is its SHA-256 and its
  original name. `raced` remembers the files that two requests were about to change at once.
* `Diagnostics.tla` – both tables, `pc` of each `sendGetDiagnostics`, the reports in flight with the
  row each has found, the sweeper (`Sweep`) and the restart's cleanup. `overtaken` remembers the
  requests that a report or an error closed behind another report's back.
* `IdTokens.tla` – cards, the sessions that refer to them and the deletes in flight.
  `card` is what a session was opened with, `late` the two ways past the check.
* `Records.tla` – `FirmwareStore`, `Diagnostics` and `IdTokens` as alternatives: they share no state,
  so a behaviour is one of one of them, the others at rest. `RecordsProofs.tla` holds the proofs about
  all three.
* `MC*.tla` – the values for TLC. No cfg replaces a definition of a component.

Definitions preceded by "Faulty variant of X" are the bugs that mutation testing puts in the
place of X (`mutants` in `PROJECT.json`); no specification uses them.

`InternalApi` is a composition: requests share the table, the map of waiting answers, the process
and its crashes with the commands. The others stand on their own: what one component sees of another is in its actions (events are
appended to `outbox` in the modules of the writers, and what happens to them then is
`OutboxRelay`, whose `WriteOutbox`/`Commit`/`Rollback` are those writers). A product of two of them
would multiply state without a shared variable beyond that append.

### Abstractions

* `outbox`, where it appears in a writer's module, is the sequence of events in commit order.
* Payloads, timestamps, prices and texts are left out, except where a decision depends on them
  (status, error or not, the id of the transaction, the word timeout).
* Append-only tables that nothing reads back (`meter_value`, `fault_log`, `offline_log`,
  `ocpp_message`) and `chargeGoalQueue.add` are left out, and so are the firmwareStatus column of the
  station and the FirmwareStatusChanged event of the first transaction of
  `firmwareStatusNotification`.
* `failReason` set by StopTransaction from a reason other than Local/Remote is treated as null.
* The station's row exists: the handlers run behind `verifyClient`, which read it.
* A rejected query had no effect, for Postgres; an ambiguous commit acknowledgement is not modelled.
* `Done` in a module stutters when the bounds are used up, so that TLC still reports any other
  deadlock. `Spec` with `CHECK_DEADLOCK` on is used in every run.

## 3. The runs

| Run | Instance | Shows |
|---|---|---|
| `outbox_safety` | 3 rows, 2 attempts, batches of 2, 2 ticks, 1 fault (a failed query, crash, shutdown or lost connection) | the critical section (`SnapshotIsCurrent`), a retired row is left alone (`RetiredStaysSilent`), an event is appended at most once per attempt and once per fault (`BoundedDuplication`), reordering only after a failure or an out-of-order commit (`OvertakenOnlyAfterTrouble`) |
| `outbox_liveness` | 2 rows, batches of 1 | the relay implements `EventDelivery` (`ImplementsDelivery`): no event is forgotten, none of a rolled-back transaction leaves, and every committed one is retired |
| `session_safety` | 2 sessions, 1 connector, 2 slots, 4 calls, 2 faults | rows and events agree, start first, once unless retried, under overlap, failures and crashes |
| `session_serial` | 2 sessions, 2 connectors, 1 slot, 5 calls, no faults | what holds when the charger waits for its answers: `ActiveIsRunning`, `BilledIsFinal`, `FaultEventsTellErrors`, `NoMeterAfterBill` |
| `session_revived` (violation) | 1 session, 2 calls | a Failed session becomes Active again |
| `connection_safety` | 3 sockets, 2 frames, 1 fault | registry, announcements, and old sockets closing |
| `connection_silent_close` (violation) | 1 socket | a socket that errors closes without StationOffline |
| `internal_api` | 2 requests of one key, each with a command; 2 faults of the sender, 1 of Redis or a route | one final outcome that row, event and caller agree on; no row pending and no request waiting for ever; one command per key unless the requests raced (`OneCommandUnlessRaced`); a stored response kept (`ResponseIsKept`) |
| `firmware_campaign` | 2 campaigns, 2 stations, 2 handlers; up to 2 faults | completion and finality with overlapping handlers; dispatch never covers a report, whatever fails |
| `firmware_stuck` (violation) | 1 campaign, 2 stations | a campaign whose last row is a send_error stays running |
| `provisioning` | 2 serial numbers, 4 requests, 2 at a time, 1 socket, 1 chosen id, 1 fault | keys and links (`TypeOK`), nobody locked out (`PasswordWasHandedOut`), old devices disconnected (`OldCredentialsAreOut`), why a password may change (`RotationsAreExplained`: a reset, a record that names the station, or a drawn number that people chose too), what an undisturbed provisioning keeps (`UndisturbedProvisionKeeps`) |
| `records` | firmware: 4 requests, 1 binary, 2 names, 1 fault; or diagnostics: 1 charger, 2 requests, 2 reports at a time, 1 fault; or cards: 2 cards, 2 sessions, 2 deletes | a row's file is whole unless two requests met at it (`RowsKeepTheirFile`); no orphan without faults (`NothingIsLeftOnDisk`); `FailureIsOnBothTables`; a report does not undo an end unless overtaken (`EndIsKept`); `OpenSessionsKeepTheirCard` |

Why the bounds are enough: each hazard is a race of two parties over one row, so two of each
(ticks, handlers, commands, campaigns, requests) make it happen, a third socket is needed for a close that is
stale twice over, and a third outbox row lets a batch of two be followed by another. Two attempts
distinguish a first failure from the last. Two faults allow a retry *and* a failure of it (in `internal_api`: a crash and a failed insert or cleanup), and the
one of `MaxApiFaults` is enough for a request to pass a marker it did not see;
`session_serial` has none on purpose, because its properties are about the charger that waits, and
they are false with overlapping handlers (`session_safety` states what survives that).
Every bound costs a constant named `Max...` or a set in the cfg. Slots and connectors
are interchangeable, so they are reduced by symmetry; the runs that check liveness use none.
The three campaign properties that mention `faults = 0` exclude the cases where two reports of
*one* charger overlap (`GiveUp`), a crash, or a failed query; reports of different chargers do
overlap in that run. With faults the run follows one campaign only (`FaultsInOneCampaign`), since
what its property needs is one dispatch loop and the reports it meets. In `records`, four requests are
an upload, a delete, a second upload and a download or campaign start, all of one binary: the second
name tells whether a file is the one the row names. Requests are interchangeable and begin in a fixed
order (`InOrder`). `provisioning` has four requests because register, provision, an operator's step
and a provisioning again is the shortest history with an old device in it.

**Fairness.** `OutboxRelay`: the timer fires (weak fairness of `StartTick`), an await returns, a
transaction ends, a supervisor restarts the process (`ecosystem.config.js`, autorestart).
`Connection`: a closing socket closes (`connectionManager` terminates it after a second), queries
return. `OcppCommand`: timers fire, queries return, the sweeper runs every minute, the process is
restarted; nothing is assumed of the charger or the network. `InternalApi` adds that a call of
Redis or a query of a route ends, by a result or an error. The runs of `ChargeSession`,
`FirmwareCampaign`, `Provisioning` and `Records` check safety and assume none.

### Divergences the runs show

The three violation runs are the `findings` of `PROJECT.json`, each against a sentence of a
document, comment or schema. Further ones were seen while modelling and have no run of their own:
a station's late offline transaction (`server.ts:101`) may commit after the BootNotification of the
new socket and leave a connected station shown as unreachable; two overlapping StatusNotifications
may clear an error without a FaultCleared, since `wasInFault` is read before the transaction
(`statusNotification.handler.ts:101`); a command whose pending row could not be inserted is
answered but no event is written (`_sender.ts:56`, `:106`); the stream is not in the order of the
ids (`outboxRelay.ts:76`), which `OvertakenOnlyAfterTrouble` bounds; `outboxRelay.ts:57` says that
a row at the last attempt moves to the dead-letter stream, but when that append fails too (lines
98-105) and left no trace the row is retired and is on neither stream (`Drop` in `EventDelivery`).

Of the internal API: a request that ends in a 5xx or with the process leaves its marker, so a retry is
refused for up to two minutes, although `idempotency.middleware.ts:110` and
`outputs/2026-05-24_phase2b_core_internal_api_report.md` (section 4) say that such a request may be
retried; the comment at `idempotency.middleware.ts:53` says that NX prevents a race, but its result
is not looked at and both requests go on (`OneCommandUnlessRaced` states what is left); and
`commands.routes.ts:66` puts a messageId of its own into the 202, which is not the one that
`OcppCommandResultReceived` will carry.

Of provisioning: `provision.service.ts:54-55` says the old device's credentials end at once, but a
handshake that read the old hash before is still let in (`tolerated`), and that the station id is
kept, but two overlapping first provisionings draw two ids and the record keeps the later one;
a rejection or revocation between the read (27) and the transaction (69) is overwritten, and the
check that a provisioned record keeps its serial number (219) is as far from its update;
revoking and deleting leave an open socket alone; `station.service.ts:155-156` says a deleted
station leaves its provisioning record behind, but `station.controller.ts:75-80` has deleted
it before, even when the station's own deletion is then refused; and
`documents/design_guide/12` (lines 51, 312) still has provisioning answer 409 the second time.
`UndisturbedProvisionKeeps` is what remains true: a provisioning that nobody disturbed revives and
moves nothing. And a station can be taken over: `station.service.ts` lets people create one under any
id, the sequence may draw that id later (`provision.service.ts:119-129`), and the transaction
*upserts* (69-84): if a record of another serial number is linked to the station, the unique key
refuses; if no record is, its password is rotated and the station belongs to the new charger. The
history is create(1), reset(1), register(a), provision(a) with 1 in `ClientIds`.
`RotationsAreExplained` holds of every station, linked or not, and says that this is the only way:
an id that people did not choose is never drawn twice, whatever was deleted in between
(`DrawnNumbersAreFresh`).

Of firmware files: `firmware.service.ts:33` promises a rollback of the file when the row cannot be
created, but of two uploads of one binary the one that fails on the unique hash (81-84) unlinks the
file that the row of the other names; an upload that follows a delete has its file removed by the
delete's `unlink`, which comes after the row is gone (119-123); a write that fails, being
outside the `try`, leaves part of a file; and a crash between the two halves of either leaves a file
without a row. `createReadStream` of a download has no error listener
(`firmware.controller.ts:117`): when the file goes between `existsSync` and the open, the process ends by
an uncaught exception (`StreamFails`). `RowsKeepTheirFile` states that the first two are the only
ways to lose the file of a row.

Of diagnostics: the handler's comment (`diagnosticsStatusNotification.handler.ts:18`) speaks of
requests not completed and not ended by status, the query asks for `completedAt` only (and rightly so,
as far as `EndIsKept` goes); a report found its request open and updates it by id, so it may write over
an end written meanwhile (`overtaken`); a report of a request that has timed out is filed on the
next one; and a request whose command was lost in a crash stays open, since the janitors
write `ocpp_command_result` only.

Of id tokens: the delete's check (`idTokens.routes.ts:152`) protects sessions that are open by then; one
that starts between check and delete loses its card, because `transaction_idTag_fkey` is `ON DELETE SET
NULL`, and so does one that is revived after it ended (the `session_revived` race). Ended
sessions always lose theirs. `startTransaction.handler.ts` does not look at a card's status: a card
blocked after, or without, an `Authorize` starts a session.

## 4. The proofs

`OutboxRelayProofs` proves, for any number of rows, attempts, ticks, any batch size and any
number of faults, from the named assumptions on the constants alone:

| Theorem | Says |
|---|---|
| `TypeCorrect` | `TypeOK` is invariant |
| `CriticalSection` | `SnapshotIsCurrent` |
| `NoEventForgotten` | `RetiredIsAccountedFor` |
| `OutboxAtomicity` | `OnlyCommittedEventsLeave` |
| `SilentAfterRetirement` | `RetiredStaysSilent` |
| `AppendsAreBounded` | `BoundedDuplication` |
| `PublishesInOrder` | `OvertakenOnlyAfterTrouble` |
| `RelayImplementsDelivery` | every behaviour of the relay is one of `EventDelivery!SafeSpec` |

The argument. `TypeOK` is not inductive: `RecordFailure` writes `seen + 1`, which stays within
`MaxAttempts` only because a batch was read below it (`BatchBelowLimit`). The safety invariants
need to know why a second tick cannot interfere: the strengthening `IInv` says that a tick that is
not idle implies `running`, that there is at most one, that what it read is what the table holds,
that a row being marked is on the stream and a row being retired is on the dead-letter stream or
lost, that rows beyond `nextId` are free, and that every retired row is accounted for. `FinishInv`,
`AdvanceInv` and `GotoInv` prove once what the three ways of leaving an await preserve, and
`HandleInv` has one case per action. The refinement needs `IInv` for one thing: `Retire` and `Deliver`
of the abstract module are guarded by "not retired before" and "settled before".

What is counted over the stream needs no induction over data: `AppendsAreCounted` relates the number of
appends of a row to its `attempts`, one more while the row is in a tick's hands between XADD and the
update, and one more per fault spent, a command sent again being one (the fault of a shutdown is spent when the process ends, not when the
relay is told to stop: until then the row may still be marked, which is what `Spent` says). Only the
change of `Occurrences` by one `Append` is used, and that is a fact about one step. The order needs that
the query takes a prefix of what is open: `StreamInOrder` and `BatchInOrder` say that whatever is on the
stream, or in a batch, has every committed row of a lower id before it or with it, unless that row was
late or had trouble, and `FailuresAreTrouble` that a row which lost an attempt had trouble.

`ChargeSessionProofs`, `OcppCommandProofs`, `InternalApiProofs`, `ConnectionProofs`, `FirmwareCampaignProofs`,
`ProvisioningProofs` and `RecordsProofs` prove the
safety properties of their runs likewise, for any sets of sessions, commands, sockets, stations, campaigns,
requests and any number of faults:

| Module | Theorems | The invariant and why it is needed |
|---|---|---|
| `ChargeSessionProofs` | `TypeCorrect`, `RowsAndEventsAgree`, `StartsComeFirst` | what a handler carries past its read: rows that exist, and where it is about to publish a stop or a meter value, rows that are linked (`Knows`); no other handler takes either back, which is why acting on a stale read keeps rows and events together. `Room` (a row is kept for every card start in flight; slots are finitely many) is what the bound `MaxTx` needs. |
| | `SessionsStartOnce` | a count, like the outbox's: the events of a session, the handlers about to publish another, and the stop its charger may still ask for are together at most one more than the faults (`SumsArePaid`), and a handler whose answer nobody awaits was paid for by a fault (`OrphansArePaid`). It rests on `CarryInv`: a handler's rows are those of the connector and the transaction of its call. |
| | `ActiveIsWhatRuns`, `BillsAreFinal` | without faults a call in flight is the one the charger waits for (`Alone`), and what its handler has read still holds (`Awaited`); an active row is then the transaction that runs, or the call in flight is about to mend it (`ActiveRuns`, `MendedBy`). The two properties are proved together (`SerialInv`): the rows that a start, meter values or a status report has in hand are not billed (`FoundOpen`), since the stop that bills is the only call in flight. |
| | `BillsComeLast`, `FaultEventsTell` | `StoryInv`, which is inductive on top of the last: the session that a handler of meter values found is not billed when it reports (`FoundOpen`), and `wasInFault` is the `errorCode` that the transaction replaces (`FaultRead`). |
| `OcppCommandProofs` | `TypeCorrect`, `OneOutcome`, `AnswersAreKept`, `CallerAgrees` | a command that has not inserted its row has none, an answer in the row means `sendCommand` has returned, an event's outcome is its row's and there is one event each: so a janitor, which takes pending rows only, can neither repeat nor change an outcome. `CallerAgrees` adds that without faults a sent command has its row. |
| `ConnectionProofs` | `TypeCorrect`, `RegistryIsLive`, `OpenIsRegistered`, `UnreachableAnnounced` | each property is inductive once types are known |
| `InternalApiProofs` | `ApiImplementsCommands`, `ApiOneOutcome`, `ApiTypeCorrect`, `ResponseKept`, `OneCommand` | `ApiImplementsCommands` shows that every behaviour of the composition is one of `OcppCommand`, so its invariants carry over. `ResponseKept` needs that an unanswered request has no reply yet, so storing one cannot touch the reply that is cached. `OneCommand` needs two parts: without faults and expiries the entry is there as soon as one request is past its SET NX (`EntryAfterMark`), and any two requests that were let through overlapped (`LetThroughRaced`). |
| `FirmwareCampaignProofs` | `TypeCorrect`, `DispatchIsSafe`, `CompletionIsReal`, `EndsAreFinal`, `LastReportCloses` | for dispatch: a campaign not started has no rows, the loop takes a station once, and the row in a handler's hands was sent before. For `CompletionIsReal` and `EndsAreFinal`, without faults: a charger has one handler at a time, the row it found is open, and one that counted has ended its row. `LastReportCloses` needs `LastCounts`: a running campaign whose rows have all ended has a handler in flight that will count them or has counted zero. |
| `ProvisioningProofs` | `TypeCorrect`, `NobodyLockedOut`, `OldDevicesAreOut`, `DrawnNumbersAreFresh`, `RotationsExplained`, `UndisturbedKeeps` | a request past its read holds an admitted record of its serial number and the station that one names (`ReadDecides`); what a socket read in its handshake is the table's hash, or a provisioning again is about to close it, or it is tolerated (`SocketsCurrent`). `TableStepInv` proves once what every write of a station and its password preserves. `RotationsExplained` needs that a drawn number is fresh (`NumbersAreFresh`): every station id and every id a request is about to use is one that people chose or one the sequence has passed, and two requests share a drawn number only if people chose it too. `TypeOK` includes the unique keys, which is where `Linkable` and the checks of the transactions are used. |
| `RecordsProofs`, firmware files | `TypeCorrect`, `FilesKept`, `DiskIsClean` | while a row names a file nobody is about to change it, and a request alone with its file finds there what it has written (`FileIsSafe`, for every file two requests have not met at). That a delete unlinks the file of the row it deleted needs `IdsAreDone` (a row is what it was when it was read) and `UniqueKeys`. `Quiet`, `OtherFiles` and `AtFilePreserves` prove once what steps away from a file, at another file, and at the file preserve. `DiskIsClean` needs `NoOrphans`: whoever has a file on the disk that no row names will create the row or remove the file. |
| `RecordsProofs`, id tokens | `CardsKept` | what a delete has checked still holds when it deletes, late sessions aside (`CheckStillHolds`), and a pending session that a start has found exists (`FoundExist`). |
| `RecordsProofs`, diagnostics | `EndsKept`, `FailuresAreRecorded` | a report has a request in hand that was open when it found it, and if it is closed by now, that is in `overtaken` (`ClosedInHand`), so only those can be reopened. For failures, without faults: a call under way has its row, one about to close its request has recorded the failure, and a request that is closed without a report is one whose call has returned (`FailureIsRecorded`); so the janitors, which take pending results only, touch none of them. |
| `RecordsProofs`, all three | `EachPartRuns`, `AllTypesCorrect` | a step of the composition is a step of each part or leaves it alone, so that what is proved of a part holds in it. |

Every invariant and every action property that a passing run checks is stated by a theorem. Beyond the
prover is liveness under fairness and ENABLED: `UnregisteredSocketsClose`, `NothingStaysPending`,
`NoRequestHangs` and the fairness part of `ImplementsDelivery` are model-checked only.

Some theorems state what no run lists, because a listed property says more of the small
instance: `RetiredIsAccountedFor` and `OnlyCommittedEventsLeave` (in `ImplementsDelivery`),
`RegisteredIsNotClosed`, `AnswerIsKept`.

## 5. Not modelled, and the plan

Done in this order, the most important behaviour first: outbox and its proofs; sessions;
connections; commands; campaigns; provisioning; the internal API over the commands; their
proofs; firmware files, diagnostics and id tokens; the proofs of sessions; the remaining safety properties of
every run. Next: an abstract specification of a charge session and one of a campaign, refined by their modules.

Not modelled, and why:

* **Job queue** – the processors are single statements (the session timeout is an action of
  `ChargeSession`). Which worker gets a job is BullMQ's choice; the Core's worker on `charge-goal`
  takes and drops jobs its comment leaves to the Portal's (`bootstrap.ts:67`), which is not in the
  repository.
* **Routes** of the internal API and of the portal – one service call or query each, and the services
  are modelled; the two families that do more (commands, sessions) are `InternalApi`.
* **Message parsing, schema validation** – pure checks before a handler; the models' messages are those
  that pass.
* **Orderly shutdown** – the order in which Node closes its servers; a crash is the harsher case
  and is in every module with state in memory.
* **Authorize and the update of a card** – a read, and a write of columns nothing in the Core decides on.

Left out for good: pure I/O (HTTP routing, logging, parsing), configuration, generated code, the
Portal, and the database engine itself.
