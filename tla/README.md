# TLA+ verification of AIM Data

AIM Data (`src/app`) is a FastAPI program that runs in a customer's container. It
ingests files and turns them into Parquet, lets an assistant query them, sells them on
the ai.market marketplace, delivers what was bought, and meters what it uses. It is
one process with one asyncio event loop, a SQL database, a few JSON files, and
threads and subprocesses for extraction. The marketplace is a remote service.

What goes wrong in such a program goes wrong between two awaits: a row read before a
request and written after it, an answer applied to a state the request was not sent
in, a background task that is the only way out of a state, a crash between a charge
and its record. The modules here model seven subsystems where that matters most
(billing, credentials, datasets, delivery, verification runs, the co-pilot's sessions
and those of external agents), TLC checks them on small instances, and TLAPS proves
their safety properties for every value of the constants.

Contents: [parts](#the-parts-of-the-system) ·
[modules](#modules-and-how-they-correspond-to-the-code) ·
[runs](#what-each-run-checks-and-its-bounds) · [fairness](#fairness) ·
[proofs](#what-is-proved) · [disagreements](#where-the-code-and-its-words-disagree) ·
[limits](#what-is-only-model-checked-and-what-is-left-out) · [plan](#plan)

## The parts of the system

`PROJECT.json` names the files of each part. *Hard* says what makes a part hard to
test; "-" means that it is request-local, pure or only reads.

| Part | State | Operations | Talks to | Hard | What makes it correct |
|---|---|---|---|---|---|
| deduction queue | table `deductions` | enqueue, claim, send, record, requeue, lease reset, mark | marketplace; usage metering on the same rows | two senders per row, crash between charge and record, backoff, dead tasks | a charge has a row, is made once, is called paid only if made; every row is settled |
| usage metering | - (rows of the queue) | `report_usage`, `check_balance`, auto reload | deduction queue, serial | cancelled streams, repeated messages, an await inside a transaction | usage that happened is recorded |
| billing reconciliation | - | compare local and remote rows | marketplace | - | reports only; nothing schedules it |
| serial lifecycle | `serial.json`, its copy in memory | provision, activate, refresh, poll, metered calls | serial API, offline queue, registration | late answers, restarts, failed saves, revocation | credentials match the state; breaker; bounded offline use; a way out of every state |
| offline queue | `pending_usage.jsonl` | append, flush | serial lifecycle | cap, crash inside flush | nothing accepted is lost |
| registration | registration file | register the install | activation manager | - | done once |
| dataset lifecycle | table `dataset_records`, uploads, Parquet files, the in-memory queue | upload, import, batch, extract, confirm, describe, disclose, publish, delete | extraction, marketplace, facets | stale copies saved over newer rows, deletion during extraction, restart, workers sharing one field | a ready dataset has its file; nothing is undone or brought back; the queue never stops |
| process worker | a subprocess | extract under a memory limit | dataset lifecycle | kill, timeout | outcome is reported |
| fulfillment over the trust channel | delivery queue, `FulfillmentLog`, websocket, waiters | deliver, stream in windows, wait, retry, refuse | marketplace | lost connection, late and duplicate acknowledgements, timeouts | flow control; "complete" means whole; one failure does not block the next |
| data verification | table `data_verification_runs` with lease, claim flags and report | quote, start, scan, report, withdraw, refresh | marketplace, scanner | two starts of one run, a lease that expires under its holder, crash between a claim and what it claims, stale quotes | one report per run, kept before it is sent; a waiting start goes on |
| copilot sessions | sessions, one per user; stream tasks; balances; a lock | connect, replace, stream, stop, disconnect, relay a command | usage metering, tools | a replacement, a stop and a cleanup of one session overlap; tasks awaited with the lock held | one session per user, no stream the manager cannot find, nothing outlives its endpoint |
| copilot tools and prompts | - | dispatch a tool call | most others | - | tool calls what it names |
| chat attachments | files with expiry | store, fetch, expire | copilot | - | expiry |
| approval tokens | tokens | issue, consume, expire | tools | double use | consumed once |
| nudges and notifications | rows, event bus | emit, dismiss | browser | - | - |
| connectivity and MCP | operator's flag and its file, tokens, reservations and bindings of event streams, watchdogs; rate windows | enable, disable, GET, POST, revoke, query | query engine | decisions taken before a wait for a lock, sessions closed by five kinds of tasks, an idle session of a revoked token | a closed gate is quiet, slots are returned, sessions end for a reason of their own and do end |
| marketplace publication | versions, uploads | build and push a listing | marketplace, dataset lifecycle | partial upload | what is listed is what was pushed |
| raw files and raw listings | rows | register, list, delist | marketplace | stale file | listing and file agree |
| data requests | cache of requests | poll, match | marketplace | cursor | no request is skipped |
| billing of queries | usage rows, entitlement cache | record, refresh | Stripe proxy | stale cache | - |
| attestation, compliance, pipeline | JSON reports | compute | dataset files | lock per dataset | - |
| query engine and previews | - | DuckDB reads | files | - | reads only |
| file extraction | - | convert | files | - | pure |
| database and S3 connections | credentials, jobs | scan, extract | external sources | job restart | - |
| authentication | users, sessions, keys | login, check | - | - | request-local |
| portal | portal sessions | login, search | datasets | - | request-local |
| artifacts and preferences | files | read, write | - | - | - |
| application lifespan and configuration | background tasks | start, stop | all | dead tasks are not restarted | order of start |
| self update and tunnel | container, process | replace, open | Docker | effects outside the program | - |
| diagnostics, logging and errors | counters | observe | all | - | - |
| user interface | browser | - | API | - | - |
| deployment and migrations | - | - | - | - | - |

Interactions that the models keep: `report_usage` and the queue processor write the same
rows; the processor awaits auto reload inside its transaction; the activation manager,
the metered calls and the server share one store and one file; the processing worker,
the requests and the deletion share one row, each with a copy of its own; the
delivery worker and the websocket client share a waiter; starts, quotes, refreshes and
commands share the row of a verification run; endpoints, streams and REST commands share
the maps of the session manager; agents' requests, watchdogs and the operator share the
registry of the MCP guard.

## Modules and how they correspond to the code

The event loop is the reason for the granularity: everything between two awaits is one
action, because nothing else of the process can run in between. A handler with a
request in the middle is therefore a *send* and a *finish* action, and the state it read
before is a variable (`snap`, `wcopy`, `rcopy`, `ctok`). Threads of an extraction are
split further. A crash or restart may come between any two actions. Definitions keep
the names of the code where they can; `PROJECT.json` maps each to its lines.
Definitions under a comment that begins with "Mutant" are deliberate mistakes: for each
property there is one that breaks it when it replaces the definition it imitates.

Five modules are abstract specifications, each with a few actions and none of the
machinery: `BillingLedger`, `FileTransfer`, `VerificationReport`, `SessionRegistry` and
`WorkQueue`. A detailed module instantiates one with expressions over its own variables;
that every step of it is a step of the abstract one or a stutter is checked by a run and
proved.

**`BillingLedger`** says of charges that they are recorded, then deducted at most once,
then reported as paid.

**`DeductionQueue`** (`deduction_queue.py`, `metering_service.py`, parts of
`routers/copilot.py`, `main.py`, `auto_reload_service.py`). `status`, `attempt`, `due`,
`age` are the columns of a row (`next_attempt_at` as "due or not", the lease as an
age); `wpc`, `claimed`, `snap`, `wcur`, `wreply` are the processor; `cpc`, `creply` the
calls of `report_usage`; `charged` the marketplace's keys; `locked` and `frozen` the
open transaction and the blocked loop. `Enqueue`, `AnswerCall`, `FinishCall`,
`CancelCall` are `report_usage`; `Claim`, `SendNext`, `AnswerWorker`, the `Record...`
actions and `Requeue` are one pass of `process_all_pending`; `MonitorExpiredLeases` is
the lease monitor, enabled by a constant because nothing in `app/` schedules it. It
commits two transactions: `Expire` is both, `Reset` the first alone, which is what a
database error (`MonitorFails`), a restart (`ResetOnly` in `Crash`) or a row that auto
reload keeps locked (`BurialBlocks`) leave. `interrupted` counts those as history.
`RefinesLedger` instantiates the ledger with the rows and the completed rows.

**`SerialLifecycle`** (`serial_store.py`, `activation_manager.py`, `serial_metering.py`,
answers of `serial_client.py`, the first request of `registration_service.py`). The
store's fields and their copy in `serial.json` (`disk`); the manager's position `at` and
request `req`; the metered calls; the server's valid tokens. Every action that
saves may find the save raising, which leaves memory ahead of the file. `_request`
repeats an attempt that timed out, and an attempt whose answer is lost may be served all
the same, later too: `stray` holds the tokens such attempts carry, `ServeUnheard` is the
server that issues a token nobody hears of. `grace` and `heard` are history: data calls
allowed without the server since it last answered, and the last token an answer brought.

**`DatasetLifecycle`** (`processing_service.py`, `processing_queue.py`, the handlers of
`routers/datasets.py`, imports, batches, disclosure and publication). `row` is the
table; `wcopy` and `rcopy` the records that workers and requests hold across an await
and write back whole. `Save` is `_save_record`, which inserts a row that is gone.
Extraction is split into its file steps (partial file, rename, in-memory fallback); a
stream whose subprocess gave up ends like one that is whole (`StreamCutShort`). A deletion
may fail at either file or at the row (`DiscardFails`). `created`, `deleted` (ids of which
a deletion removed the row or the Parquet file) and `setBack` are history.

**`WorkQueue`** says of a queue with several workers that a job is queued once, taken in
its turn by one worker, and never again: not after it failed, not after a crash.
`RefinesQueue` of `DatasetLifecycle` maps the queue and the workers' datasets to it; the
jobs of the past are the ids that were given out and are no longer uploaded, queued or
extracted. What happens to a dataset's row afterwards is outside this abstraction.

**`Fulfillment`** (`fulfillment_service.py`, `trust_channel_client.py`,
`models/fulfillment.py`). The worker `pc`, its window `start`, the next chunk, one
waiter, one link with two channels, the log, and a marketplace that acknowledges what it
has received, early or late, or refuses. Chunks are indices; bytes, hashes and sizes
are not modelled.

**`FileTransfer`** says what the receiver of a file may rely on: no chunk more than a
window ahead of what it acknowledged, acknowledgements that never go back, one outcome, no
chunk after it, and "complete" only for a file that has arrived, but for its last window
if a connection was lost, or for a link that sent no chunk. `RefinesTransfer` of
`Fulfillment` maps what the marketplace has received to it.

**`VerificationReport`** says of a run's report that it is written down, delivered as often as need be, never replaced, and noted as accepted only
when the marketplace has it.

**`DataVerificationRun`** (`data_verification_local_service.py`, its model and client).
`row` is the table, a record per run; `latest` the run created last. Quotes, starts,
refreshes (`Syncs`) and commands are requests with a step `pc`, the run they are `on`,
the marketplace's `answer` on its way and what their own copy of the row says
(`acked`, `dated`). Every exchange is three steps, request, `Serve...` at the
marketplace and the step that uses the answer, and an answer may be lost. A start has a
heartbeat (`beat`) and a lease (`row.owner`, `row.live`); a stall lets the lease expire
under its holder, a restart takes all requests and leaves the claim flags. `together` is
history. `RefinesReport` instantiates the abstract specification with the table's reports.

**`SessionRegistry`** says of sessions that one is registered once and never again, only
while the registry is open, and together with others only if all of them fit. Which sets
fit is a parameter, so it is refined twice: by `CopilotSessions`, where no two sessions of
one user fit and the registry is always open, and by `McpGuard`, where up to
`MAX_MCP_CONNECTIONS` fit and the operator opens and closes it (`RefinesRegistry` in both).
The sessions of the past are those beyond their connect or admission that are not
registered.

**`CopilotSessions`** (`routers/copilot.py`: `ConnectionManager`, `websocket_copilot`,
`_brain_stream_task`, `send_command`). One endpoint per websocket, one task per message,
`lock`, `active`, `current`, `inflight` and `balances` of the manager. An endpoint may
lose its connection at any await. The task's last step, metering, is an await that goes
on after it was cancelled. `orphaned` is history: sessions that another coroutine removed
while their stream ran. The calls of `report_usage` inside a stream are those of
`DeductionQueue`.

**`McpGuard`** (`routers/mcp.py`, `connectivity_state.py`, `connectivity_token_service.py`,
the check of `mcp_server.py`). A GET and its session are one element of `Conns` with a
`step`, a watchdog (`watch`) and, after a failed check in a tool, a task that closes it
(`closers`). `reservations`, `bindings` and `overdue` are the registry; `GateFree` and
`LockFree` are `enqueue_gate` and `_registry_lock`, which only a POST or a disable hold
across an await: a POST that is "sending" holds both while the SDK reads its body from the
client and hands it over. Reading the time before the wait for the lock is why a sweep may pass over
what became overdue since (`Sweeps`). `doubted` is history: sessions named by a request
whose token could not be checked. The SDK is external: it delivers a message or fails.

`DeductionQueue` composes the queue processor with `report_usage` and the ledger;
`SerialLifecycle` store, manager, metering, registration and offline queue;
`DatasetLifecycle` the table, the queue, the extraction and the requests; `Fulfillment`
service and client; `DataVerificationRun` the local service with the marketplace's
payment; `CopilotSessions` the endpoints with the manager, the tasks and the REST
commands; `McpGuard` the operator's state with the guard and the tokens. They share no
state but the database: no module composes them with each other.

`MC*` modules give the constants for TLC; `*Proofs` modules hold the theorems.

## What each run checks and its bounds

| Run | Instance | Checks |
|---|---|---|
| `deduction_queue` | keys k1, k2; k1 reported twice; 2 attempts; batch 1; one crash or database error; auto reload | `LeasesAreHeld`, `ChargedIsRecorded`, `SettledReopenedOnlyInFlight`, `RefinesLedger` |
| `deduction_monitored` | one key reported twice, 3 attempts, monitor, auto reload, one fault | `AttemptsBounded`, `AttemptsNeverLost`; a due row is claimed, a claimed row is settled |
| `deduction_retry` | one key | *violated*: a retryable row returns |
| `serial_lifecycle` | two calls, threshold 2, 2 tokens, lost and repeated requests, one restart or failed save | credentials, a store and file that are current, offline allowance; an unprovisioned serial is retried, a degraded one probed |
| `serial_stuck` | one call, one token | *violated*: a provisioned serial is retried |
| `dataset_lifecycle` | one dataset, one worker, two requests, one fault | a ready dataset has its file, extracting is held, nothing is undone but by an old copy |
| `dataset_queue` | two datasets, two workers, one request, one fault | the shared current item, one turn for each file (`RefinesQueue`), and that only endless conversions stop the queue |
| `dataset_deleted` | one dataset, one worker | *violated*: a deletion aborts the worker |
| `fulfillment` | two deliveries of 5 chunks, windows of 2, one lost connection, one restart or failed write | flow control, meaning of complete, the transfer as the receiver sees it (`RefinesTransfer`), outcome in the log, no delivery blocks the next |
| `data_verification` | two quotes, two starts, a refresh, two commands; five requests, restarts, failed heartbeats and stalls in all | `ScanClaimIsFree`, `ActiveAlone`, `RefinesReport`; a waiting start goes on |
| `copilot_sessions` | one user, two websockets, two messages, one relayed command | one session per user, streams are found, gone is gone, a session is registered once (`RefinesRegistry`); whoever waits goes on |
| `mcp_guard` | two agents with a token each, one POST at a time, 2 slots | a closed gate is quiet, slots are owned and given once (`RefinesRegistry`), sessions end for a cause, a bad token ends them unless a POST keeps the lock |

`deduction_queue` and `data_verification` also check `TypeOK`. Every module's `TypeOK` is
proved (`TypeCorrect`), and the other proofs use it.

Why these bounds. Two senders race on one row, so one key reported twice is the
smallest instance with every race of the queue, and a second key lets the processor
hold one row while another waits (`BatchSize` 1 makes a pass leave one behind); two
attempts are the first, where a row may be retried, and the last. Three attempts in the
monitored run let the processor's stale count differ from the monitor's by one and still be
short of the limit, and one fault cuts the monitor once; its liveness is checked with one
row, because two rows and the monitor do not fit. That auto reload blocks the monitor's
second transaction takes a second row, so `BurialBlocks` is reached only by the proofs. In the serial run two overlapping calls are what a counter of
failures needs to be counted wrongly, a threshold of 2 is reached by them, by a poll
or by a call repeated after a restart, and the second token is the one a refresh
brings. A dataset's hazards are two holders of one record against a third writer: one
worker and two requests. Five chunks in windows of two make a first, a middle and a last,
shorter window; the acknowledgement points include one inside a window (an early answer),
its end and the end of the next. Two quotes and two starts are every overlap the lease is
there for: a holder, one that waits or takes over, and a run that replaces theirs; five
events let a start crash or stall after a quote and a second start recover it with an
event to spare. Two websockets of one user are a session and the one that replaces it,
with a relayed command as the third coroutine that removes one; a second user shares
nothing but the lock. Two agents are one whose session is named by the other's token;
with two of them the limit of 2 never turns a request away, so the capacity half of
`SlotsAreOwned` and `RefinesRegistry` is what the proof adds. The gate lets one POST in at a time, and a second
would wait for it. `MaxFaults`, `MaxToken`, `MaxDown`, `MaxDrops` and `MaxEvents` only
keep the state space finite. The proofs below remove every one of these bounds for the
properties they cover. `CHECK_DEADLOCK` is off because every model can come to rest: all
charges settled, everything delivered, every session ended, no more faults allowed.

## Fairness

Every fairness condition is of something the event loop, a lock or a timeout
guarantees, never of a user, the server's goodwill or the network:

- the loop runs a coroutine that is ready (`WorkerStep`, `ManagerStep`, `FinishCall`,
  `StartStep`, `EndpointStep`, `TaskStep`, `CallStep`);
- a request ends, with an answer or its timeout (`AnswerCall` over all outcomes,
  `AnswerManager`), and a streamed extraction ends by the subprocess's timeout
  (`LoopStep` of the datasets, whose other steps read a file that is finished);
- a scan of a verification run ends, although its thread has no timeout
  (`data_verification_local_service.py:685`): the one wait here that only the data bounds
  (`StartStep`);
- a wait for an acknowledgement ends after 30 s (`Timeout` and `GiveUp` are worker steps);
- time passes (`BackoffElapses`; `Expire` of `DataVerificationRun`: the lease of whoever
  stopped renewing it).

All of it is weak fairness but for one condition: `asyncio.Lock` serves its waiters in
turn, so a watchdog, or a GET that ends, has the registry lock if the lock is free again
and again (`SF_vars(WatchStep(c) \/ Close(c))`).

Three things are not assumed, and the properties say what follows. No timeout bounds a
conversion in memory (`EXTRACT_TIMEOUT_S` gives up on the DuckDB `COPY`, but leaving the
executor's `with` block waits for it, and other formats have none), so
`QueuedIsFinished` excepts a file whose conversion never ends and files behind as many
such conversions as there are workers. No timeout bounds a POST that holds the registry
lock while its client sends the body (`mcp.py:365-370`; `nginx.conf:56` does not buffer
it), so `RevokedIsClosed` holds if the lock is free again and again. Nothing schedules the
lease monitor, so no run assumes that it ever makes a step: it only may.

Uploads, deletions, connections, faults, revocations, commands and the marketplace are not
fair. Every liveness run has faults; where a background task dies of one, the property
says so (`Stopped`), because `main.py` logs it and does not restart it.

## What is proved

All theorems hold for every value of the constants, under the named assumptions
of the modules (finite key and delivery sets, positive limits, distinct markers), which
TLC also evaluates. Each follows the same argument: an inductive invariant `IInv`, of
which `Init => IInv` and `IInv /\ [Next]_vars => IInv'` are proved with one lemma per
action, and from which the property follows. Every safety property of a passing run,
invariant, action property or refinement, is stated by one of the theorems. Some state
what no run lists: `CompletedCharged`, `DeadLetterFinal`,
`BreakerStaysSound`, `MigratedWasConsumed`, `PartialStaysOwned`, `OutcomeIsFinal`,
`WithdrawnStaysDatable`, and `TypeCorrect` of five modules.

A refinement has the same layout in each module: the initial states map to the abstract
ones, one lemma per action gives the abstract step (or none) that it makes, and the
theorem puts them together under the inductive invariant. Where the invariant that the
safety proofs need was not enough, the refinement adds one of its own.

- **`DeductionQueueProofs`**. `IInv` adds to the checked invariants `CallsSound` (a
  call on its way has a row, and an "ok" it holds was charged), `WorkerSound` (the
  processor's position, the row it sends, the lock) and `CountsSound`. The last is the one the stale count
  needs: for every claimed row the table's count is the count read at the claim, or one
  more if the monitor counted it meanwhile; without it nothing bounds what
  `RecordRetryable` writes. A pass of the monitor that is cut between its transactions
  leaves a row to be claimed and counted once more, so the bounds grow with `interrupted`,
  which faults and the frozen loop bound in turn; where `LeaseMonitor` is FALSE it stays 0. Theorems: `TypeCorrect`, `CompletedCharged`,
  `ChargedRecorded`, `AttemptsStayBounded`, `LeasesStayHeld`; the action properties
  `SettledReopened`, `DeadLetterFinal`, `AttemptsKept`; and `QueueRefinesLedger`:
  every step is a ledger step or a stutter. A crash maps to `Charge(S)`, because several
  requests on their way may still be served.
- **`SerialLifecycleProofs`**. `IInv` adds `AnswerSound`, `DiskSound` (the file is as
  sound as the memory, or a restart would not be) and `GraceIsCounted`: every data call
  let through offline is counted in memory *and* on disk, which is why a restart does not
  extend the allowance. Theorems: `TypeCorrect`, `CredentialsStaySound`,
  `BreakerStaysSound`, `OfflineDataStaysBounded`. A second invariant, `CurrentInv`, is
  about who is ahead of whom: `FreshSound` (a token the manager has not stored yet is the
  last one heard of), `Newest` (until something fails, the file follows the memory, and the
  stored token is the last one heard of unless that is on its way) and `MigratedSound` (an answer
  that says migrated was right when it was sent and stays so). It gives `StoreStaysCurrent` and
  `MigratedWasConsumed`, which survives restarts and failed saves because the file is
  part of it.
- **`DatasetLifecycleProofs`**. `ReadyHasData` is far from inductive, since any copy may be
  saved later. `IInv` adds `CopiesSound` (what holds for a row that says ready holds
  for every copy that says so, but for datasets that a deletion took a file from), `OnePlace` (a dataset is in one upload, once in the queue
  *or* with one worker, so nobody rewrites the file of a ready one), `Known` (an id not yet
  given out is nowhere), `IdleSound` and `RequestsSound`. Theorems: `TypeCorrect`,
  `ReadyHasFile`, `ExtractingStaysHeld`, `PartialStaysOwned`, `CurrentRuns`, the action
  property `UndoneByOldCopy`, and `ProcessingRefinesQueue`. In the refinement `OnePlace` is
  what makes a submitted id new to the queue, and `Known` what keeps one from being
  given out twice; a restart is the `Crash` that loses what was uploaded, queued or held.
- **`FulfillmentProofs`**. `IInv` adds `WorkerSound` (the window begins after what was
  acknowledged), `WaiterSound` and `MarketSound` (no acknowledgement in flight or with
  the waiter claims more than was acknowledged; chunks in flight and received stay
  within a window of it). That the marketplace's answers never go back (`AckGrows`) rests on
  `ThroughIs`, whose existence half takes the least missing chunk by the library's
  `WFMin`. Theorems: `TypeCorrect`, `WindowIsKept`, `UnfinishedAreFaults`.
  `CompleteIsWhole` needs `WholeInv` on top: windows begin at multiples of their
  size, and what was sent of the current one has arrived or is in flight unless a connection
  was lost (`SentSound`); and a "complete" in flight is true of what is received before it
  (`AnnouncedSound`). Its exception, the window of the last chunk, is a quotient by a
  constant of unknown value; `QuotientIs` gives the solver the two inequalities that
  determine it. `OnceInv` says that a transfer is handled once: who has not had its turn
  has sent nothing (`OnceSound`, `OpenSound`), nothing follows the message that ends it
  (`EndSound`), and a link has sent no chunk (`LinkSound`). They give `CompleteStaysWhole`,
  `OutcomeIsFinal` and `DeliveryRefinesTransfer`.
- **`DataVerificationRunProofs`**. `IInv` adds `RunsSound` (a run nobody has added yet is
  blank and known to nobody), `PaymentSound` (an answer on its way, or a row, that
  says a payment is over is right for good), `WithdrawalSound`, `ReportSound` (whoever
  holds the lease and has not scanned finds no report; whoever sends one sends the one in
  the row, also after it lost the lease) and `LatestSound` (until quotes overlap, only the
  latest run can be under way). Theorems: `TypeCorrect`, `ScanClaimStaysFree`,
  `WithdrawnStaysDatable`, `ActiveStaysAlone`, and `ReportIsKept`: every step is a step of
  `VerificationReport` or a stutter.
- **`CopilotSessionsProofs`**. `IInv` adds `LockSound` (who has the lock knows the session
  it replaces, and that stays the user's), `MapsSound` and `EndpointSound` (what an
  endpoint has made sure of before it starts a stream or goes: only its own next message
  makes a new entry). Theorems: `TypeCorrect`, `SessionIsUnique`, `StreamsStayFound`,
  `GoneStaysGone`, and `SessionsRefineRegistry`, with `ActiveSound` (a registered session is
  past its connect), so that none is admitted twice.
- **`McpGuardProofs`**. `IInv` adds `OwnersSound` and `WithinLimit` (with the cardinality
  lemmas of the library, so for any limit), `PostSound` (what a POST found of the gate and
  of its token is true until it ends; what it swept stays out of the registry),
  `WatchSound` and `CloserSound` (a reason found before the wait for the lock is still one
  after it). Theorems: `TypeCorrect`, `ClosedGateIsQuiet`, `SlotsStayOwned`,
  `EveryCloseHasACause`, and `GuardRefinesRegistry`: sweeps, watchdogs, closers and a
  disable dismiss sets of sessions, and only the one admission adds to them, with the
  gate open and room for one more.

## Where the code and its words disagree

With a run (see `findings` in `PROJECT.json`):

1. `deduction_queue.py:206`: a pass that claims nothing returns before the sweep that
   returns retryable rows, so the last retryable row is never retried.
2. `activation_manager.py:198`: a refused refresh leads to "provisioned" without a
   bootstrap token, and the loop that "retries activation" cannot.
3. `processing_service.py:597`: a dataset deleted during its extraction comes back as
   `preview_ready` when the worker saves its copy.

Met while modelling, visible in the models, without a run of their own:

- `monitor_expired_leases` is scheduled by nothing: after a crash or a database error,
  rows stay `processing` (`LeaseMonitor` is a constant for this reason). Were it, what
  stops it between its two transactions (`deduction_queue.py:318-330`, `340-349`) would
  leave a pending row with no attempts left, which is sent once more.
- A row marked completed by `report_usage` can be written again by the processor's own
  late answer (`SettledReopenedOnlyInFlight` says that this is the only way).
- `check_auto_reload` is awaited inside the transaction that updated a row; another
  coroutine's synchronous statement on that row blocks the only thread (`frozen`).
- A late 401 of a metered call undoes a migration, or drops the token that a refresh has
  just brought: the answer is applied to whatever the store holds. An exception of a save
  during startup ends the task before the background loop exists.
- `fulfillment_service.py:463`: the late second answer to a window that was sent twice is
  taken for the next window's and ends the transfer without a retry.
- A refresh or an activation that the server served and whose answer was lost, or that
  `serial_client.py:91-112` repeats, may leave the store with a token the server has ended:
  the next metered call is refused, and the loop has to provision the serial anew (`StoreIsCurrent`
  speaks of the tokens that were heard of).
- `OfflineQueue.append` says when it refused an entry; no caller looks. `flush` is
  called by nothing.
- A batch confirmation or a listing id given while a worker, a disclosure or a metadata
  request holds an older copy is lost with its save; a disclosure during extraction can
  set a ready dataset back to `extracting` (`setBack`).
- `recover_stuck_records` is called by nothing: a restart leaves `uploaded` and
  `extracting` datasets as they are.
- A large document without text becomes `preview_ready` with a path to a file that was
  not written (`parquet = "empty"`).
- A subprocess that gives up on its full queue (`process_worker.py:294-300`) reports
  "cancelled" and exits with 0; `_extract_streaming` looks only for "error", renames what came
  so far and the dataset becomes `preview_ready` with a truncated file (`parquet = "cut"`).
- `delete_dataset` that fails at the row has removed the files already
  (`processing_service.py:378-391`): the row stays, cancelled, and a copy held by a
  disclosure or a metadata request makes it `preview_ready` again without a file
  (`ReadyHasData` excepts what a deletion took a file from).
- `get_position` assumes one worker; all workers write the same current item.
- A connection error in a transfer sends no `vai.fulfillment.error`; "complete" may be
  sent on a new connection although the last, unacknowledged window went down with the
  old one (`CompleteIsWhole` states exactly this exception); an acknowledgement that
  comes before its waiter is registered is dropped; queued deliveries are lost on restart.
- Two overlapping quotes add two runs and both can be authorised, although "the current
  verification run must finish before another can start" (`ActiveAlone` states the
  exception); a quote for a run that has started resets its acknowledgements; a quote is
  accepted without having been seen when readiness is answered late.
- A heartbeat that failed leaves the lease to its expiry, so a finished start can make the
  next one wait; a status answer that was overtaken is saved over a newer one.
- `copilot.py:697` calls `manager.disconnect` without `await` and returns before the
  `try`/`finally` of its endpoint: on that path no cleanup runs, and the session stays
  registered until another one of its user replaces it.
- A relayed command that fails removes the session it found and leaves its stream running
  untracked; that stream's metering re-creates a balance entry of a session that is gone
  (`orphaned` states the exception). A message repeated with one `client_message_id` is
  stored once but streamed again.
- `_persist` of the connectivity state may raise after the file was replaced: an enable
  that failed leaves "enabled" in the file, a later disable finds nothing to change, and
  the next start is enabled (`Persist`).
- A watchdog that times out while the first frame waits for the lock finds no
  reservation and ends; the promoted session has no watchdog from then on
  (`Watched` in `RevokedIsClosed` states the exception), and a revoked token is noticed only
  by its next message.
- A POST whose token cannot be checked (a database error) closes the session it names,
  whosever it is (`doubted`).
- `mcp_server.py` makes a `QueryOrchestrator` of its own next to the one of
  `get_query_orchestrator`, so the limits of one token are counted twice.

## What is only model-checked, and what is left out

Liveness stays with TLC: neither fairness nor `ENABLED` is within the prover's reach. So
do the three violated properties. No module uses recursive operators. The refinements are
of safety: the abstract specifications state no fairness.

Abstracted throughout: payloads, sizes, prices, hashes, wording, logging, metrics. Time is
abstract (due or not, expired or not). A database error is a fault of the task that met
it; row locks are modelled only where a transaction spans an await. The marketplace
honours the idempotency key, as `deduction_queue.py` assumes. In the dataset model the
task that processes an S3 object outside the queue and a PII rescan are left out. In the
queue model auto reload is only an await.

In the verification model the scanner and its connector are the choice of a report;
in the session models the windows of rate limits, histories, uploads and the rounds of a
model inside one stream are left out.

Not modelled: everything in the table above that has no module. Most of it is
request-local, reads only, or converts formats, and what TLA+ could say of it a unit test
says better; this is why the modules cover a small share of the repository's lines. The
offline queue's flush, auto reload, approval tokens and the limits of queries have
protocols of their own; they are the plan.

## Plan

In this order.

1. `OfflineQueue`: append against flush, crash inside flush, duplicates; composed with
   `SerialLifecycle`. `AutoReload`: the pending flag read before and written after an await.
2. The limits of external queries: rate windows and concurrency slots under
   cancellation and timeouts, with the two orchestrators; approval tokens.
3. Raw listings: publishing against delisting of one file, each with a request to the
   marketplace between its read and its write.
4. `DatasetLifecycle`: the S3 path outside the queue; two datasets with two requests.
5. A dataset as "absent, processing, ready", refined by `DatasetLifecycle` up to the saves
   of old copies that `UndoneOnlyByOldCopy` and `setBack` name.
