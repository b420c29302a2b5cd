# Verification of the BTC short-horizon trading system

TLA+ modules, TLC configurations and TLAPS proofs for `btc_short_horizon` and for
the two parts of the upstream framework that it depends on at run time.
The code is the reference: every definition of a component's module is
translated from the source lines listed for it in `PROJECT.json` ("map").

## 1. Inventory

### 1.1 Components and their state

| Component | Code | State it keeps | Operations | What makes it correct |
| --- | --- | --- | --- | --- |
| Live execution service | `live/service.py`, `state.py`, `risk.py`, `gateway.py` | orders, trades, venue index, progress counters, heartbeat, ambiguous markets, halted flag | `submit`, `request_cancel`, `cancel_all`, `emergency_stop`, `record_heartbeat`, `enforce_heartbeat_timeout`, `reconcile_user_event`, `resolve_submission_unknown`, `restore_from_wal` | what the log says survives; nothing working at the venue is unknown to the log; a stop holds; a fill is counted once; doubt blocks the market |
| Write-ahead log | `live/wal.py` | append-only JSONL file | `append`, `read` | the fold over the records is the state of the service |
| Opening strategy (replay) | `strategy/lifecycle.py`, `backtest/strategy.py`, `backtest/signals.py` | phase of the one placement cycle, candidate and its time, working orders, latest signal and books | `on_data`, `on_order_book_deltas`, order events of the engine | one placement cycle per market; the cycle ends when its orders have; a stale or unsynchronised input never places an order |
| Maker planning | `strategy/maker.py`, `strategy/types.py` | none (pure) | `plan`, `evaluate_cancellation` | a layer never crosses the spread, never exceeds the inventory limit |
| Forward collector: buffer | `data/forward.py`, `data/collector.py` | pending events, pending counts, unattributed gaps, tasks of `collect_forever` | `_ingest`, `mark_gap`, `flush`, periodic and final flush | no event is lost or written twice between ingest and disk; gaps are attributed |
| CLOB stream | `data/polymarket.py`, `data/quality.py`, `research/opening_evidence.py` | normalizer (book, last times), validator (epoch, last available time, seen identifiers), raw events | `apply`, `observe`, `mark_gap`, `load_forward_polymarket_book_events` | within an epoch nothing is missing and time does not run backwards; the reader can rebuild the book |
| Order-book synchronisers | `data/binance.py`, `data/okx.py` | buffered deltas, last sequence number, synced flag | snapshot, delta, reset | a book is synced only on an unbroken chain of sequence numbers |
| Immutable part store | `data/storage.py` | parts and manifests on disk | write a part, read the manifest | every part has its manifest; writing the same rows twice changes nothing |
| Runtime control | `live/runtime.py`, `live/forward_runtime.py`, `scripts/btc_forward_runtime.py` | status file, stop request file | publish, request and clear the stop, supervise the collector | a stop request is obeyed; a stale runtime is reported |
| Window rotation | `scripts/btc_forward_collector.py` | current and next market window, the running collector | discover, hand over, stop | the opening of every window is collected; epochs of two collectors differ |
| Shadow scheduler | `live/shadow_scheduler.py`, `scripts/btc_opening_shadow_scheduler.py` | output directories, catalogue files | scan, run a pass | a closed window is evaluated once, after its evidence is complete, and none is starved |
| Market catalogue | `data/gamma.py`, `data/catalog_io.py`, `data/market_catalog.py` | catalogue files | fetch, parse, write | pure I/O and parsing |
| Features, models, research, reporting | `features/`, `models/`, `research/`, `reporting/` | numeric data | batch computation | numeric code, no protocol |
| Telonex downloader | `scripts/_telonex_data_download.py` | Parquet parts, DuckDB manifest, the jobs, queue and pending commits of a run | `run_telonex_download`, dispatcher, writer thread, `ingest_batch`, roll, flush, close, orphan sweep | the manifest never claims rows that are not on disk; nothing is read twice; every day is recorded in the end |
| Polymarket execution client | `prediction_market_extensions/adapters/polymarket/execution.py` | venue ids, waits for an answer, processed fills and trades | submit one or several, cancel, handle user messages, generate events or reports | the engine is told of every fill once and of the end of every order |
| Remaining framework | `prediction_market_extensions/`, `strategies/`, `backtests/`, `crates/` | adapters around NautilusTrader | replay, loaders, plots | framework code and examples |

Paths are below `btc_short_horizon/` unless they name another top directory.

### 1.2 How the components interact

```
 venue sockets, REST snapshots                 model signals, books (replay)
      |  messages                                   |
  normalizer or synchroniser -> validator -> buffer     opening strategy <-> replay engine
      (ClobStream, DepthBook)         (EvidenceBuffer)     (OpeningStrategy)
                                           | flush
  supervisor -> rotation -> collector   part store -> reader of the evidence
      (CollectorRuntime)                               (ClobStream)

  trading engine <-> execution client <-> venue: answers, user channel
                       (ExecutionClient)

  download jobs -> queue -> writer thread -> parts and manifest   (TelonexDownload)

  caller -> live execution service -> gateway -> venue
               | append   ^ user channel (orders, trades)
             write-ahead log  ---- restore after a restart   (LiveExecution)
```

* The **collector** is one asyncio process. Handlers run one at a time on the
  event loop; a flush runs in a worker thread (`asyncio.to_thread`) and shares
  `_pending`, the pending counts and the unattributed gaps with the loop under
  `_lock`; `_flush_lock` admits one flush at a time.
* The **reader** sees only parts and manifests. What the validator decided is
  visible to it as the epoch of a row.
* The **strategy** is called back by the replay engine, one handler at a time;
  order events come back later and in order.
* The **live service** is synchronous. It calls the gateway while a handler is
  in progress; the venue moves on its own and reports by the user channel; the
  log is what a restart has.
* The service and the strategy do not meet in the repository: the strategy runs
  in the replay, the service is driven by tests and by a future canary runner.
* The **synchroniser** of a depth book is fed by the socket's task and by a
  refresh task that fetches a REST snapshot; both run on the event loop, so a
  snapshot is as old as its request when it is applied.
* The **supervisor** (`run_forward_collector_runtime`), the rotation it starts
  and the collector the rotation awaits are coroutines of one process. The
  operator speaks to them by a stop file and by signals; an observer knows only
  the status file.
* The **execution client** shares its event loop with the engine, which takes
  the events the client generates off a queue of its own: what the client reads
  of an order is behind what it has said of it. Every message about an unknown
  venue id waits in a task of its own for the answer to the post.
* The **downloader** has an event loop that dispatches downloads, a bounded
  queue, one writer thread, and a store whose lock the writer and the hourly
  drain share. The manifest is what the next run believes.

### 1.3 What is hard

* *Doubt*: a request whose answer is lost may have been executed. The service
  answers with `UNKNOWN`, a blocked market and reconciliation.
* *Crash between two effects*: gateway call and log record, kill switch record
  and `cancel_all`, part and manifest.
* *Two accounts of one fact*: cumulative order updates and incremental trades;
  the validator's epoch and the normalizer's snapshot flag; the events and the
  counts of a flush.
* *Races*: a fill with a cancellation, a flush with ingest and with another
  flush, the final flush with the sockets, an old signal with a new book.
* *Clocks*: source clocks ahead of ours, jitter, regressions, epochs numbered by
  window start.
* *Order of tasks*: an answer wakes several waits at once; what runs first, the
  engine, a cancellation or a fill, decides what the engine sees.
* *Two files for one fact*: a part and the manifest rows that name it; status
  file, stop file and what the process really does.
* *Waiting*: a cycle that waits for the last order event, a sparse stream that
  waits for the timer, a snapshot that is always too old, a stop that waits for
  a drain.

`PROJECT.json` ("hazards") lists them line by line with the properties that
would catch them, and a note where none does yet.

## 2. Modules

| Module | Models | Uses |
| --- | --- | --- |
| `OrderLifecycle` | the transition tables and record functions of `live/state.py` | |
| `OrderPromise` | abstract: what the service promises of one order at the venue | |
| `LiveExecution` | the service, its log, gateway, venue, user channel, crashes | `OrderLifecycle`, instance of `OrderPromise` |
| `LiveExecution_proofs` | theorems about `LiveExecution`: types, kill switch, shadow mode, log, heartbeat, promise, restart, orders at the venue, fills | TLAPS |
| `PlacementCycle` | abstract: one placement cycle per life of the strategy | |
| `OpeningStrategy` | the strategy with `MarketExecution` and the replay engine | instance of `PlacementCycle` |
| `OpeningStrategy_proofs` | sums over sets; theorems about `OpeningStrategy` | TLAPS |
| `EvidenceLog` | abstract: an accepted event is held until it is kept | |
| `EvidenceBuffer` | the collector's buffer, flush threads, parts and manifests | instance of `EvidenceLog` |
| `EvidenceBuffer_proofs` | sums over manifests; theorems about `EvidenceBuffer` | TLAPS |
| `ClobStream` | normalizer, validator, socket, rotation, and the reader | |
| `ClobStream_proofs` | theorems about `ClobStream` | TLAPS |
| `BookMirror` | abstract: a mirror of the venue's book is in step or says that it is not | |
| `DepthBook` | the Binance and OKX synchronisers with socket, refresh task, validator and archive | instance of `BookMirror` |
| `DepthBook_proofs` | theorems about `DepthBook` | TLAPS |
| `CollectorRuntime` | supervisor, rotation task and collector, status and stop file | |
| `CollectorRuntime_proofs` | theorems about `CollectorRuntime` | TLAPS |
| `TelonexDownload` | a run of the downloader over its store, and runs after it | |
| `TelonexDownload_proofs` | theorems about `TelonexDownload` | TLAPS |
| `ExecutionClient` | submissions, user channel, waits and events of the execution client | |
| `ExecutionClient_proofs` | sequences; theorems about `ExecutionClient` | TLAPS |
| `MCLiveExecution`, `MCOpeningStrategy`, `MCEvidenceBuffer`, `MCTelonexDownload`, `MCExecutionClient` | constants of the TLC instances | |

### 2.1 LiveExecution

One action per public method of `LiveExecutionService`, split where the method
calls out (the gateway) or loops with effects that may stop in the middle (the
maker orders of a trade): `task` says which call is in progress and where.
`SubmitDecision`, `SubmitToGateway`, then `SubmitAcknowledged`, `SubmitRejected`
or `SubmitUnknown`; `RequestCancel`, `SendCancel`, `CancelReturned` or
`CancelUnknown`; `EmergencyStop` and `StopCancelsOrders`; `RecordHeartbeat`,
`EnforceTimeout`; the order events and the trade events of
`reconcile_user_event`; `resolve_submission_unknown`; `Restore`.

The log is represented by the value that `restore_from_wal` folds out of it:
every record overwrites the snapshots it carries, so appending a record updates
that value (`WithOrder`, `StoreAndLog`). What matters about a crash - which
effects precede the append - is kept. Prices, the numeric risk limits and
order types are abstracted to "the order is within its limits"; sizes are
whole shares because fills and canary caps depend on them.

The venue accepts or refuses a post, fills, cancels, and reports on the channel;
with `TransportFaults` a request or its answer is lost (timeout and 5xx in
`gateway.py`), with `ChannelFaults` an event is lost. The paper gateway is an
in-memory venue that disappears with the process.

Which markets are blocked is kept per market, as in the code: `Blocks` where a
request stays without answer, `Releases` where any order of the market is heard
of or resolved. The history variable `lifted` holds the orders in doubt whose
block `Releases` took away on account of another order.

### 2.2 OpeningStrategy

One action per handler. `OnData` and `OnOrderBookDeltas` contain
`_process_signal` whole: every way it can end is one disjunct
(`Rejects`, `WaitsForBooks`, `SeesNoPlan`, `NamesCandidate`,
`WaitsForPersistence`, `Places`, `MaterializesNothing`, and for working orders
`RequestCancel` or nothing). Prices are abstracted to the question the decision
answers - which side, if any, has a viable edge - and this answer may differ at
every evaluation. Time is in seconds. The engine is external: it accepts or
rejects an order that was sent, fills it share by share, cancels, expires.

`Submits` is what `submit_plan` and the engine make of the layers that are left.
A strategy that is not running is not handed events (`ReportDropped`); `missed`
counts the fills among them.

The history variable `backed` records which side every event since some time
has favoured: a signal that is unclean, or by now too old, favours none, and
unusable books say nothing. It is written from the inputs, not from the
strategy's own candidate, so that the two can be compared.

### 2.3 EvidenceBuffer

`Accept`, `Duplicate`, `OutOfOrder`, `Disconnect` stand for what `_ingest` and
`mark_gap` do with the buffer. A flush is `TakeEvents`, `TakeCounts` (two locked
sections), then for each partition in order `PlacePart` and `WriteManifest`, each
of which may fail (`WriteFails`, then `SocketFlushFails` or `OtherFlushFails` by
whose flush it was). `RequestStop`, `TaskEnds`, `FinalFlush`, `End` are the end
of `collect_forever`; `Crash` loses the memory and keeps the disk.

A part is named by its content, hence it is the set of its rows. A socket
carries one stream and a message one event; the code's CLOB socket carries
several tokens and one payload may hold an event for each.

### 2.4 ClobStream

The normalizer is its timing and its snapshot flag (`Available` is `_timing`),
the validator its epoch, its last accepted time and its bounded set of
identifiers. Two messages with the same kind and source time are the same
message. A message that raises ValueError while it is parsed is rejected, with no
gap declared and, if it is a snapshot, perhaps after it has replaced the book
(`Unreadable`). A payload is stamped when the loop takes it up, so no two stored events
have the same receive time (`TakenUpLater`). Collectors follow one another as windows rotate; `EpochId` is
`epoch_id_offset + epoch_id`. The reader is an order on the stored rows
(`Before`) and statements about what it needs. That what is stored stays
stored is EvidenceBuffer's subject, so the two are not composed.

### 2.5 DepthBook

One instrument's book. The venue numbers its updates; a diff stands for
`first .. final`, a snapshot for all updates up to its number. A book is
abstracted to the last update it claims to include and the set of updates before
it that it misses (`book.missing`), so that "in step" can be compared with the
truth. `Receive` is a message of the socket (`BinanceDiff` for spot and
perpetual, which differ in how a diff must join the one before, `OkxBooks` for
OKX, whose snapshots come by the stream), `Answer` and `SnapshotArrives` are the
REST request and its application by the refresh task, `FetchFails` and
`SocketFails` the failures that the code retries after. Each of them contains the
judgement of the synchroniser, the replay of the buffer, the validator's and the
archive's share, as `forward.py` calls them one after another.
`BookMirror` says what a consumer may rely on; the refinement maps a book that
is in step to the venue's book as of its last update.

### 2.6 CollectorRuntime

An action is what one coroutine does between two awaits: the supervisor's turn
(`Poll`), its waits (`Wake`, `DrainAwaited`) and its handlers (`Shutdown`), the
rotation (`Discover`, `Retry`, `Rotate`, `Drained`) and the collector's end. The
status file carries its age, because the health check
(`check_runtime_health`) judges nothing else. What the collector collects is the
subject of the other modules.

A cancellation (`Cancel`) reaches the coroutine at the bottom of the chain of
awaits. A supervisor that waits for activity takes it itself, because
`asyncio.wait` leaves the task alone. One that awaits the task passes it on: the
task is cancelled (`TaskCancelled`), or the worker it awaits in turn, whose final
flush goes on in its thread when the await of it is cut short (`Interrupted`,
"abandoned"). Only when the task has ended does the cancellation come back up to
the supervisor. If it was awaiting the task in its loop (`Stopped`), the handler
finds the task done and publishes "stopped"; if it was in a handler already,
nothing more is published (`Shutdown`). On Windows `asyncio.run` turns SIGINT into
such a cancellation; on Unix the signals set the stop event (`Signal`). A second
cancellation of a supervisor that has not yet resumed from the first is left out.

### 2.7 TelonexDownload

A day is one (channel, market, outcome, day). The dispatcher launches downloads,
a result enters the bounded queue or waits for room, the writer thread collects
results into `held` and ingests them; `ingest_batch`, the roll of a part, its
close and the commit of its manifest rows are one step per file or transaction,
because each may fail alone (`WriteFails`, `CloseFails`, `CommitFails`) and the
process may be killed between any two (`Crash`). A part file is the
days in it and whether it has its footer; a part without one cannot be read. A
new run prunes its jobs by the manifest and sweeps the parts no row names.
Overwriting runs fetch completed days again and are recorded in `rewritten`.

### 2.8 ExecutionClient

`ready` is asyncio's queue of tasks that can run, `events` the queue of the
engine; a task that is created or woken goes to the end of `ready`, and the
engine is woken by an event that enters its empty queue. That both are first in,
first out is a property of asyncio and of the engine's queue, and external.
`Submit` posts one order or several, `Answer` is the answer (or the last of the
retries without one): in the order of the list it wakes the waits it finds in the
dictionary and rejects what failed, and the first rejection wakes the engine, so
the engine's place is among the woken tasks (`WithEngine`, `early`). Answers are
taken as well formed. A task keeps
in `linked` whether its event is still there, because `finally` removes the event
that later waits share. `Receive` creates the task of a message, `RunTask` is a
handler up to its next await, `TimeOut` a wait that ends without answer, `Apply`
one event of the engine's queue. Order messages are PLACEMENT, CANCELLATION and,
after a match, UPDATE, which says nothing new but waits and may become a report
like the others.

## 3. Runs

Runs with expectation "pass" check what holds. Deadlock is checked for
`telonex`, whose program can always be run again. Everywhere else orders,
events, trades, faults and time are bounded, so that every behaviour of the
instance ends when they are used up; those configurations say
`CHECK_DEADLOCK FALSE`.

| Run | What is checked | What it shows |
| --- | --- | --- |
| `recovery` | `MemoryIsDurable`, `VenueOrdersAccounted`, `KillSwitchHolds`, `DoubtStopsMarketUnlessLifted` | with three orders of one market, lost requests and answers, cancellations, the stop and one crash, the log stays the truth about memory and venue, no order works at the venue that the log does not know or declares settled (but for the POST that the crash cut off before its record), the kill switch holds, and no order is posted while another one is in doubt, unless the answer about a third has lifted the block |
| `fills` | `FillsCountOnce`, `ChannelNeverRaises` | over a reliable channel the sizes agree with the venue once the channel is drained, the canary gates never count a fill or a submission twice (the counters are bounded from above), and no event makes the reconciliation raise |
| `lossy` | `HeartbeatFlagMeansCancel`, `LogNeverForgets`, `KeepsPromise` | over a channel that loses events, with lost requests and answers, heartbeats, the stop and a crash, the order implements `OrderPromise`, the log takes nothing back, and a timeout that reports a cancellation has sent one, as long as nothing has crashed |
| `placement` | `NoFillLost`, `CycleWaitsForOrders`, `KeepsCycle`, `PlacementIsPersistent`, `CandidateIsPlaced`, `WorkingEnds` | one placement cycle per life, resting on an unbroken candidate, ended only with its orders, no fill lost that is reported to a running strategy; the first event that judges a candidate after its time of persistence places it, and a placement ends |
| `collection` | `ArchivedOnce`, `CountsKept`, `ReturnsEmpty`, `KeepsEvidence`, `EvidenceReachesDisk` | with overlapping flushes, a failing write, a crash and a turn of the hour, events are neither lost nor archived twice, gaps and duplicates are counted once and not after what they precede, and the buffer reaches the disk; `EvidenceLog` is implemented |
| `clob` | `ReaderAccepts`, `ReaderCanRebuild`, `EpochIsUnbroken`, `JitterKeepsEpoch` | what normalizer, validator and rotation store, the reader accepts and can rebuild a book from, epoch by epoch; jitter of the clocks alone never ends an epoch |
| `depth` | `MirrorsVenue`, `NoRefreshInStep`, `ArchiveRebuilds`, `WaitingEnds` | a book that is in step is the venue's and never steps back (`BookMirror`), no snapshot overtakes it, its epoch's archive can rebuild it, and buffered diffs do not wait for ever |
| `runtime` | `HealthyMeansAlive`, `StoppedIsClean`, `WindowsOnce`, `StopEnds` | the status file does not call a dead service healthy for longer than the age allowed, "stopped" means that no collector takes evidence in any more and, where no cancellation hides it, that none was lost, no two collectors of a process share the epochs of a window, and a stop ends the process |
| `telonex` | `ManifestIsTrue`, `ReadOnce`, `SummaryIsDurable`, `CompletedStays`, `EveryDayRecorded` | over failing writes, closes and commits, signals, kills and reruns the manifest names only rows that are there, no row is read twice, the summary counts durable days, and every day is recorded once nothing fails |
| `engine` | `FillToldOnce`, `ReceivedFillIsTold`, `OrderEnds` | messages before the answer, repeated, woken together or timed out: the engine is told of every received fill once, and of the end of every order that ends at the venue |

Several properties hold under a condition that the property itself states, mostly
in a history variable. The condition is where the code really differs (section
3.3 says how), and the property says nothing about that case; the hazards of these
places say so in `PROJECT.json`, in a note.

| Property | Excepts |
| --- | --- |
| `VenueOrdersAccounted` | the order whose POST a crash cut off from its record (`inFlightAtCrash`) |
| `HeartbeatFlagMeansCancel` | everything after a crash (`crashes`) |
| `DoubtStopsMarketUnlessLifted` | an order in doubt whose block another order's answer took away (`lifted`) |
| `NoFillLost` | fills reported after the strategy has stopped (`missed`) |
| `CycleWaitsForOrders` | an active order that was filled in full, or denied within `submit_order` (`EndGoesUnnoticed`) |
| `CandidateIsPlaced` | a plan of which the venue can represent no layer (`MaterializesNothing`) |
| `ArchivedOnce`, `CountsKept` | everything after a crash, or a flush that failed with some partitions written (`torn`) |
| `ReaderAccepts` | a regressing source clock and a restart within a window (`faults`) |
| `EpochIsUnbroken` | invalid and unreadable messages and a restart (`faults`) |
| `ReaderCanRebuild` | unreadable messages (`faults`) |
| `ArchiveRebuilds` | a gap met in the replay of the buffer (`carried`) |
| `StoppedIsClean` | a loss that is hidden by the cancellation of supervisor or task |
| `ReadOnce`, `CompletedStays` | days an overwriting run has fetched (`rewritten`) |
| `SummaryIsDurable` | runs that report a failed writer |
| `ReceivedFillIsTold` | fills a cancellation may have overtaken (`overtaken`) |
| `OrderEnds` | orders some message of which became a report (`reported`) |

Each module also has a `TypeOK`, proved in section 4.

### 3.1 Bounds

* *LiveExecution*: `recovery` has three orders of one share in one market, which
  are alike (symmetry): one that is in doubt, one that is heard of, one to be
  posted; it has no trades, which the other two runs have. `fills` has two orders,
  of sizes 1 and 2, so that one is filled at once and one partially, and two
  trades; with `TradeFirst = TRUE`, a reliable channel and `OperatorActs = FALSE`
  it asks whether counting is exact when the channel is what the code expects;
  `lost_trade_double_count` and `lossy` ask the rest. `lossy` has one order of
  two shares and one trade, because one fill is enough to be reported twice, late
  or never; time passes only there, where a heartbeat may be missed. One crash,
  because a restart restores the fold and forgets everything else, so a second
  crash starts from a state of the same kind; a channel of one to three waiting
  events. All runs are in canary mode; the theorems of section 4 hold in every
  mode, `ShadowStaysSilent` is about shadow mode.
* *OpeningStrategy*: two layers of two and one shares and both sides; five
  seconds with an entry window of two, persistence 2, work time, staleness and
  cadence 1, signals of age 0 or 9, so that candidate, placement, expiry and
  staleness all fall inside.
* *EvidenceBuffer*: two sockets, the timer and the final flush are the tasks
  that overlap; flush size 1 with three events in two partitions lets the buffer
  fill and overflow and a flush fail between partitions; one gap, one duplicate,
  one failing write, one crash.
* *ClobStream*: two windows of three time units, three stored events, one fault,
  two gaps in the life of a collector (`MaxEpoch` < `EpochStride`: a window has
  fewer gaps than seconds). Reconnection and discovery take at least as long as
  the clocks differ (leads of 0 to 2, which is also the tolerance, and delays of
  2); with a shorter handoff the reader could meet rows of the old collector
  after rows of the new one. Section 4 shows that these two conditions are all
  that the run's size contributes.
* *DepthBook*: seven updates in diffs of one or two, so that a diff overlaps a
  snapshot, follows it or leaves a hole; a buffer of two, which overflows; two
  faults, so that a resynchronisation is itself disturbed; a venue clock equal to
  ours or ahead. Binance's identifiers are contiguous here, as they are for one
  symbol's stream.
* *CollectorRuntime*: windows of three ticks and a handoff of one, eight ticks,
  hence three windows and two handovers; two faults, so that one may meet the
  handler of the other; any number of signals and of stop files made and removed.
* *TelonexDownload*: two days that share a part, a queue of one and two
  downloads, so that a download waits for room; a part is rolled at two days;
  three faults, of which overwriting runs are one kind.
* *ExecutionClient*: one order that two trades fill in part, or one trade that
  fills it in part and another order in full: two waits share one event and one
  wait carries two fills. One message comes twice, or an UPDATE comes
  (`MaxRepeats` bounds both together). The strategy cancels the first order only.
  The channel loses nothing; the client has no recovery from a lost message but
  reconciliation, which is not modelled.

### 3.2 Fairness

The live service has none: nothing in it is scheduled, every call comes from
outside, so its properties are safety properties. `OpeningStrategy!FairSpec`: the
replay runs to its end, so time passes, books keep changing, the engine answers
orders and cancellations and delivers its reports; it need not fill anything.
`EvidenceBuffer!FairSpec`: threads run, the timer fires, tasks return after a
stop and the process that has nothing left to do ends; that messages arrive is
never assumed. `ClobStream` has safety properties only. `DepthBook`: a request
has a timeout and the loop gets round to its answer; neither that diffs arrive
nor that a snapshot fits is assumed. `CollectorRuntime`: the loop gets round to
supervisor and rotation, and a drain comes to its end; not that a market is
discovered or that time passes. `TelonexDownload`: dispatcher, writer and main
program go on, and the program is run again; faults are finite. `ExecutionClient`:
requests end, with an answer or by their timeout, and the loop gets round to
every task, message and timer; the venue need not do anything.

### 3.3 Disagreements with what the repository says

Two runs have expectation "violation": they check what a doc or a comment says,
and TLC finds a behaviour of the code that breaks it. The quotes are in
`PROJECT.json` ("findings").

| Run | What happens |
| --- | --- |
| `lost_trade_double_count` | one lost trade event, and the same fill is counted by the order update and again by a later trade status |
| `closed_order_fill` | two trades wait for one answer; the first to time out removes the event they share, a cancellation closes the order, and the fill of the second is taken for a mere status update and dropped |

Others met while modelling have no run of their own. The behaviours are in the
models unless it is said otherwise, and the conditions of the checked properties
exclude them.

Live service:

* *An event of one order lifts the block of its market while another order of
  that market is UNKNOWN* (`service.py:345`, and the resolution at 323), and the
  market takes orders again. A restart blocks the market again, and with it the
  markets of orders resolved since.
* *A crash between the POST and its record* leaves an order at the venue that
  the log knows as CREATED only (`service.py:153`).
* *A crash between kill switch record and `cancel_all`*: the restarted service
  is halted and treats its timeout as handled, but has sent nothing to the venue
  (`service.py:205-220, 241-248`); `HeartbeatFlagMeansCancel` is checked without
  crash.
* *Paper mode submits although trading is not enabled* (`service.py:121-153`),
  and the paper venue numbers its orders from 1 again after a restart.

Strategy:

* *A cycle with one layer filled and one cancelled never closes*;
  `CycleWaitsForOrders` says what holds. Nor does one with an order denied within
  `submit_order`, whose denial comes before it is registered
  (`strategy.py:378`).
* *Working orders are looked at only when an event arrives* (`strategy.py:275`):
  a market that falls silent is ended by the stop.
* *A book event between two signals forgets the candidate* when it finds the
  signal older than `stale_after_seconds` (`strategy.py:226-229`). The baseline
  configuration has 1.0 s for that, a persistence of 5.0 s and a signal every
  5 s, so a candidate outlives the second before the next signal only if no book
  event comes in the other four. `CandidateIsPlaced` speaks of a candidate that
  every judged event favoured, and counts a signal that has become too old as
  one that favours none.

Collector:

* *A partial flush is archived twice.* `flush` promises to persist "atomically"
  (`forward.py:738`), but the writer stores partition after partition, and when
  a later one fails every event goes back to the buffer (`forward.py:757`),
  those already archived too. Together with new events they make a part of
  other content. `ArchivedOnce` holds until a flush is `torn`.
* *A gap is dropped with an existing manifest.* When the part of a retry is
  identical, `write` returns the manifest it finds (`storage.py:110-114`) and
  drops the counts passed in. `CountsKept` holds until then.
* *A crash leaves a part without manifest.* The cleanup at `storage.py:117-119`
  runs on an exception, not when the process dies between the two files.
* *An event accepted after a final flush that came too early is lost* when the
  process then ends; `ReturnsEmpty` asks that the periodic task has not failed.
* *`flush_size` is exceeded.* The architecture document says that it caps the
  events in memory; while one socket waits for its flush the others go on
  (`forward.py:1019`).
* *A source clock regression ends in an archive the reader refuses*
  (an epoch that goes back in time order, `opening_evidence.py:270`), although the
  architecture document (110-112) has a new epoch deal with it.
* *A restart within a window reuses its epoch numbers*: the offset is the second
  of the window's start for every process (`btc_forward_collector.py:290`,
  `compose.yaml:32`).
* *An invalid message is dropped unmarked*: a book left empty or crossed is
  INVALID (`polymarket.py:109-117, 160-168`) and nothing calls `mark_gap`
  (`forward.py:280`), so the epoch has a hole.
* *An unreadable message is rejected unmarked*, likewise (`forward.py:277-279`). A
  snapshot whose time cannot be read has replaced the book before it raises
  (`polymarket.py:105-108`), so the changes after it are stored without it.
* *A duplicate does not start an epoch* (`quality.py:95-97`), although the
  architecture document says so.

Depth books:

* *A gap inside the replay of the buffer* leaves the rest of the buffer archived
  in the epoch before; the new epoch cannot be rebuilt from its archive alone
  (`btc-short-horizon-architecture.md:217-218` says that a discontinuity resets the
  epoch). `ArchiveRebuilds` holds until then.
* *With the venue's clock ahead of ours* the validator refuses the REST
  snapshot, whose time is ours, as a regression: the epoch then starts again.
* *OKX* has no snapshot to ask for: after a gap only a reconnect heals the book.
* *A snapshot that is too old* is not asked for again until the next diff;
  `WaitingEnds` says so with `late`.

Runtime:

* The handler of a cancellation publishes "stopped" and healthy whatever has
  become of the collector: it swallows its error (`forward_runtime.py:183-189`),
  and a cancellation that came by way of the task finds the task done and does
  not look (97, 132-145, 184). So after a cancellation "stopped" may stand for a
  collector that failed or whose final flush was cut short and still runs in its
  thread. `StoppedIsClean` excepts both; that no collector takes evidence in any
  more holds there too.
* A cancellation that meets the supervisor in one of its handlers leaves no final
  status, and a stop file that cannot be read at the start raises before anything
  is published.

Telonex downloader:

* The summary counts a day after `ingest_batch`, although its part is closed and
  committed later and that may fail: then it overcounts, against the comment at
  `_telonex_data_download.py:1795-1799`. `SummaryIsDurable` is about a run whose
  writer has not failed.
* The docstring of `ingest_batch` (811), "Raising here means nothing was
  promoted", does not hold when a part has been rolled and committed, or the rows
  of empty days written, before the exception.
* An overwriting run leaves the old rows in their part, and a read over a range
  of days finds both; `ReadOnce` excepts `rewritten` days.
* After a failure of the writer the queued results are in no counter; the join
  of the writer ends after 60 s and drops what is then queued.

Execution client:

* A second way to drop a fill: the engine is already awake through another
  order's event, and the answer wakes a cancellation and a trade in one pass of
  the loop; the engine closes the order before the trade's task runs. Both ways
  are in `overtaken`.
* A cancel asked before the PLACEMENT event is applied is dropped without an
  event, and PLACEMENT is then skipped because the order is PENDING_CANCEL: it
  can never be cancelled again (`execution.py:833`). It ends when the venue ends
  it, which is all `OrderEnds` says.
* Without an answer after the retries the order is rejected here although it may
  be live at the venue; its messages then become reports.
* While MATCHED and MINED of a trade both wait, neither refreshes the account.
* A single order that fails to be signed stays INITIALIZED without an event; the
  fill of a trade that becomes FAILED is never reversed. Neither is modelled.
* An exception in the middle of a list's answer rejects orders whose ids were
  made known before (`execution.py:1304-1306`), and the fills of these orders are
  then skipped as those of closed ones. It takes an answer that is not well formed,
  such as a success without its `orderID` (1347); the model takes answers as well
  formed, and `ReceivedFillIsTold` is not about this case.

## 4. What is proved

All theorems hold for every value of the constants that the modules' assumptions
admit: any finite set of orders, trades, days and events, any mode, cap, timeout,
size of diffs, buffers and windows, and any bound. The assumptions are
`ConstantsAssumption` (LiveExecution), `ParametersAssumption` and
`NoneAssumption` (OpeningStrategy), `BufferAssumption`, `StreamAssumption`,
`DepthAssumption`, `RuntimeAssumption`, `DownloadAssumption` and
`ExecutionAssumption`; TLC evaluates each in the runs of its module. They fix
types and signs and say that sets are finite. Where a theorem needs more it says
so itself.

| Theorem | Says |
| --- | --- |
| `TypesHold` | `LiveExecution`: `Spec => []TypeOK` |
| `MemoryKnowsTheStop` | `Spec => [](up => halted = wal.halted)`: a running process knows of the kill switch exactly what the log knows |
| `KillSwitchIsSafe` | `Spec => KillSwitchHolds`: once the log has the stop, across crashes and restarts it keeps it, and no new order reaches the gateway |
| `ShadowStaysSilent` | `Spec => []ShadowNeverCalls`: in shadow mode nothing is posted or cancelled at the gateway, whatever is submitted, stopped or restarted |
| `NothingIsTakenBack` | `Spec => LogNeverForgets`: the log takes back no matched size and no final status |
| `TimeoutHasCancelled` | `Spec => []HeartbeatFlagMeansCancel` |
| `RestartRebuildsMemory` | outside paper mode, `Spec => []MemoryIsDurable`: what the process holds is what a restart would rebuild |
| `DoubtStopsItsMarket` | `Spec => DoubtStopsMarketUnlessLifted`: an order in doubt keeps every order of its market from the gateway until the answer about another order lifts the block |
| `PromiseIsKept` | `Spec => KeepsPromise`: the log implements `OrderPromise`, in every mode |
| `VenueIsAccounted` | outside paper mode, `Spec => []VenueOrdersAccounted`: no order works at the venue that the log does not know or declares settled |
| `EachFillCountsOnce` | with `Reliable`, `Spec => []FillsCountOnce`: a drained channel leaves the sizes of the venue, and the counters of the canary gates are never ahead of it |
| `HandlersNeverRaise` | with `Reliable`, `Spec => []ChannelNeverRaises`: no event of the channel makes its handler raise |
| `SizeNeverAhead` | with `Reliable`, `Spec => []MatchedNeverAhead`: the claim that `lost_trade_double_count` refutes for a lossy channel holds in this setting |
| `StrategyTypes` | `OpeningStrategy`: `Spec => []TypeOK` |
| `FillsAreKept` | `Spec => []NoFillLost`: `filled_size`, the reports on their way and those a stopped strategy is not handed add up to what the engine executed |
| `OpenCycleHasOrders` | `Spec => []CycleWaitsForOrders`: a cycle is open for an order that works, or one whose end goes unreported |
| `OnePlacementCycle` | `Spec => KeepsCycle`: the execution implements `PlacementCycle` |
| `PlacementsPersisted` | `Spec => PlacementIsPersistent`: a plan rests on an unbroken candidate of the full time of persistence |
| `CandidatesArePlaced` | `Spec => CandidateIsPlaced`: and after that time it is placed when it is next judged |
| `BufferTypes` | `EvidenceBuffer`: `Spec => []TypeOK` |
| `EventsArchivedOnce` | `Spec => []ArchivedOnce`: every part has a manifest, no event is in two |
| `CountsAreKept` | `Spec => []CountsKept`: manifests, running flush and buffer hold every gap and duplicate once, and an event's gaps are in the manifests when it is |
| `CollectorReturnsEmpty` | `Spec => []ReturnsEmpty`: nothing is left in memory when `collect_forever` returns |
| `EvidenceIsKept` | `Spec => KeepsEvidence`: the buffer implements `EvidenceLog` |
| `StreamTypes` | `ClobStream`: `Spec => []TypeOK` |
| `ArchiveCanBeRebuilt` | `Spec => []ReaderCanRebuild`: a snapshot of its epoch precedes every stored change, in the reader's order |
| `JitterCostsNothing` | `Spec => JitterKeepsEpoch`: only the socket and a regression beyond the tolerance end an epoch |
| `EpochsAreUnbroken` | with `EpochsSuffice`, `Spec => []EpochIsUnbroken`: nothing is missed within an epoch that has a book |
| `ReaderFindsOrder` | with `EpochsSuffice` and `LeadsAreShort`, `Spec => []ReaderAccepts` |
| `DepthTypes` | `DepthBook`: `Spec => []TypeOK` |
| `RefreshNeverSetsBack` | `Spec => []NoRefreshInStep`: no snapshot meets a book that is in step |
| `BookIsVenues` | `Spec => MirrorsVenue`: the synchronisers implement `BookMirror` |
| `ArchiveIsEnough` | `Spec => []ArchiveRebuilds`: the archive of an epoch rebuilds the book it shows |
| `ServiceTypes` | `CollectorRuntime`: `Spec => []TypeOK` |
| `DeadLooksUnhealthy` | `Spec => []HealthyMeansAlive`: a healthy status is of a service that lived at most the maximal age ago |
| `StopIsClean` | `Spec => StoppedIsClean`: "stopped" is published when no collector takes evidence in any more and, unless supervisor or task was cancelled, none was lost |
| `WindowIsUsedOnce` | `Spec => WindowsOnce`: no window has two collectors of one process |
| `DownloadTypes` | `TelonexDownload`: `Spec => []TypeOK` |
| `ManifestStaysTrue` | `Spec => []ManifestIsTrue`: what the manifest calls completed is in a whole part |
| `DayIsReadOnce` | `Spec => []ReadOnce`: and in one only, unless it was overwritten |
| `SummaryStaysDurable` | `Spec => []SummaryIsDurable`: a run without a writer failure has recorded what it counts |
| `CompletedDaysStay` | `Spec => CompletedStays`: what is recorded stays, until an overwriting run |
| `ClientTypes` | `ExecutionClient`: `Spec => []TypeOK` |
| `EveryFillToldOnce` | `Spec => []FillToldOnce` |
| `ReceivedFillsAreTold` | `Spec => []ReceivedFillIsTold`: a received fill is told or in a task, unless a cancellation overtook it |

*LiveExecution.* `TypeOK` is not inductive: `CancelReturned` uses the venue id of
the order whose cancellation was logged, so that id must exist. `request_cancel`
asserts it before it writes; `CancelHasVenue` states it of `task`, and
`TypeInv == TypeOK /\ CancelHasVenue` is inductive. `KillSwitchHolds` relates the
log to the gateway calls, but a call is guarded by the *memory's* `halted`; the
strengthening `StopIsKnown` (memory and log agree while the process is up, and
nothing is in progress in one that is down) closes the gap, and it is where the
order "store, append, then call" of `emergency_stop` and the fold of
`restore_from_wal` are used. `ShadowNeverCalls` rests on `ShadowIsIdle`: in shadow
mode no call ever gets as far as the gateway, no order ever becomes open, so that
a stop, a timeout or a restart has nothing to cancel. The invariants have one
lemma per group of actions (`Submitting`, `Canceling`, ...), and the helpers
(`WithOrder`, `StoreAndLog`, `Load`, `RecordMatch`) have lemmas of their own.

*The log of LiveExecution.* `LogNeverForgets` compares two values of the log, but
every new value is computed from memory. `NotBehind` therefore says that memory is
never behind the log (it may be ahead: an order being posted, a match counted
before the handler raised), and `CallFits` in which status the call in progress
left its order. `StopCancels` carries the heartbeat: until a crash, a halted
service has sent its `cancel_all` or is in the step that sends it, which is why
`enforce_heartbeat_timeout` may set its flag without sending one.

`MemoryIsDurable` needs the index from venue ids to orders: memory writes it when
the venue answers and on the evidence of `resolve_submission_unknown`, the fold
writes it with every snapshot that carries a venue id. `IndexFits` says that both
indexes name, for each id, the order the venue itself has under that id, and that
every snapshot is in its index; so a snapshot written again changes nothing. In
paper mode the venue numbers its orders from 1 again after a restart, two orders
share an id and the argument fails: the theorem assumes `Mode # "paper"`, and the
run checks canary mode.

`DoubtStopsMarketUnlessLifted` is about a step, the POST, and its invariant
`BlockInv` about states: the market of an UNKNOWN order is blocked, in memory and
in what a restart would rebuild from the log, or the order is in `lifted`. That a
POST is under way only for an order whose market was not blocked when it was
decided on gives the property; nothing is assumed about how many orders a market
has, and the mutant forgets the block in the fold.

`KeepsPromise` reads the phase of an order off the log, while the handlers decide
on the status in memory: `StatusKnown` says that they agree, except for the order
whose POST waits for its answer, which the log has as CREATED, and that no POST
waits while the log has the kill switch. Every step then is one move of one order
(`LogMoves`), the stop, or nothing (`LogKeeps`).

`VenueOrdersAccounted` compares the log with the venue, between which are the
requests under way, the answer and the channel. `VenueInv` says of each: a request
under way is of an order the venue has not seen (`PostsAreNew`), and is no longer
under way when its answer is there (`AnswerFits`); an order handed over once has
one venue order (`NewIsUntouched`, `OneOrderEach`); a cancellation on the channel
has happened (`CancelIsTold`); and an order that works is open under the id the
log has for it, or is being posted, or is UNKNOWN (`Tracked`), so that one
written off as rejected or canceled works nowhere (`WrittenOff`). `CANCELED` is
the interesting case: it is written on the word of the venue only.

The three theorems about fills assume `Reliable`, the setting of the run `fills`:
the canary loses no request, answer or event, does not crash, and the channel
reports a match by its trade before the sizes it leads to. Each is needed: with any
one of them dropped, TLC finds both properties violated on the run's instance. The
fills of an order whose POST had no answer, and of one that a crash cut off from
its events, are reported while nobody asks (`MakerUnknown`, `OrderEventIgnored`,
`Crash`), and finding the order again brings back its id but not its size; a size
that arrives without its trade before it is counted twice, as section 3 shows for a
trade that is lost (`lost_trade_double_count`). No bound on orders, trades, sizes or
the channel is assumed, nor that the operator stays away.

`FillsCountOnce` looks at the moment the channel is empty, so its invariant
`FillsInv` has to say what a channel that is not empty will make of the sizes.
`ToldBefore(v, i)` are the trades of a venue order whose first report is in front
of position `i`. An order event at `i` carries their number (`ChannelCounts`), and
the service has counted exactly those told before position 1, so that taking an
order event never changes a size, let alone shrinks it, and taking a trade adds
the next one. A trade that matches several orders is reconciled in a loop, in the
middle of which some of them have it and others do not: `Received` is the status
the service has, or holds in its hand, for one order, and `HandFits` and
`StatusesLead` say that it, the events on the channel and the venue's status follow
one another in `_TRADE_TRANSITIONS`. That is why no transition is refused. The
rest is about numbers: a venue order has matched as many shares as there are
trades with it, and no more than its size (`VenueCounts`); a size in memory is the
number of trades stored for the order, and the counter of fills the number of all
(`ServiceCounts`), which injects into the venue's. TLC checked `FillsInv` on the
run's instance, with a channel of four events, before it was proved.

*OpeningStrategy.* The sums of shares are folds. What a fold adds up is proved
first: were it wrong for some set there would be a smallest such set, and what
the fold does in one step refutes that (`SumIsPartial`, `SumByPart`,
`SumAfterUpdate`, `SumGrows`). `NoFillLost` is then part of one invariant,
`Accounts`: before a placement there is nothing (`WaitsEmpty`), the engine works
what the strategy holds to be active (`OrdersFit`), executes only what the plan
counts (`PlanFits`), the report of a fill always finds its order active and that
of an end is the last of its order (`ReportsFit`), and an order ends with a report
or where nobody notices (`EndsAreReported`). `ReportsFit` and `NoFillLost` together
say that `record_fill` never raises: what it is given fits the plan and the phase
(`FillIsAccepted`). `KeepsCycle` follows step by step from the same invariant. For
the candidate, `CandidateInv` says that before a placement the execution's
candidate is what the history of signals and books backs.

*EvidenceBuffer.* An event is accepted once, so what waits is in no part, unless a
flush failed after it had written (`WaitingIsNew`). Of the running flush, the
partitions no longer on its list have their manifest (`FlushFits`), and the one
whose part is placed has none yet, unless an earlier attempt left one
(`PlacedFits`). `EvidenceLog` follows: `Held` and `Kept` change only where an
event is accepted, a manifest written or the process goes down. For
`ReturnsEmpty`, `TasksInv` says that the final flush has the buffer to itself.

`CountsKept` adds up the counts of manifests. The sum over a set is a fold of the
community modules, which chooses an order of its own; that it grows by the count
of what is added (`SumWithNew`) is proved once, from a least set for which it
would not. The balance then follows the counts from the buffer (`counts`) into the
running flush (`Taken`) and into the manifest of their partition. That the gaps
declared before an event are never in a later manifest than the event needs
`WaitingCovered`: for an event that waits, the gaps that will be written by the
time it is are at least those declared before it. A crash, and a flush that failed
between its two files, end the claim, as in the run.

*ClobStream.* Normalizer and validator forget at different places, so each has a
fact that ties what it remembers to the archive: `SnapshotFits` (a remembered
book is stored in this epoch) and `LastFits` (nothing accepted is later than what
was announced, without a regression). `EpochFits` orders the epochs of
reconnections and collectors; it needs `EpochsSuffice`, that a collector declares
fewer gaps than `EpochStride`, for otherwise its epochs run into those of the next
window: the code numbers the epochs of a window from its time in seconds, one
for each gap, and a window is 300 seconds. `UnbrokenInv`
says that no book of the current epoch is from before a loss. `OlderAreBefore`
orders the times; it needs `LeadsAreShort`, for a venue clock further ahead than a
reconnection takes puts rows of the new epoch before rows of the old one.

*DepthBook.* `MirrorsVenue` says that a book in step misses nothing, but the next
diff is judged by its numbers alone; `IInv` therefore says of everything on the
wire, in the buffer and in the refresh task which updates it can stand for, that
diffs follow one another, and that a refresh is in flight only while the book is
out of step. `UpdateFits` and `SnapshotFits` are the lemmas about the
synchroniser's two judgements; every action preserves `IInv` and makes a step of
`BookMirror` or none. `ArchiveRebuilds` needs that a book in step has an empty
buffer (`NothingWaits`) and that the buffer of an epoch without a gap is in its
archive (`Archived`); that a snapshot replayed over the buffer leaves no update
out is shown with the buffered diff that ends first at or after the update.

*CollectorRuntime.* `IInv` ties the three places that know of a collector
together: a running one is the one its task waits for, and one that raised shows
in the task until the process ends, or is hidden by the task's cancellation, as is
one that was cut short (`CollectorFits`); the process that runs has
not published its end (`StatusFits`); a status is at least as old as the time its
task is gone (`GoneFits`); and the windows that had a collector lie behind the one
asked for next, because a collector is left only after its window, on a stop or
after it raised, and in the last two cases no other follows (`UsedFits`).

*TelonexDownload.* A part that is open or being closed is in no row of the
manifest and holds exactly its pending days (`OpenFits`, `FlushFits`); a new part
is numbered after all parts of its month, so it is no other such part. A day is
in one place of a run at a time (`OnePlace`), and one that is in a run while it
is completed is being overwritten (`OnlyOverwritten`). What is counted without a
failure is recorded or about to be (`CountedIsKept`). A crash leaves of all this
only files and manifest.

*ExecutionClient.* `ProcessedIsTold`: what the engine was told, once, is in
`_processed_fills`, and what is not in it was told not at all. The handlers ask
before and add in the same turn, without an await in between; that is the whole
of the argument, and it needs no fact about the order of tasks.

`ReceivedFillIsTold` does need it: `_handle_user_trade_in_ws_trade_msg` skips the
fill of a closed order, so one must know why no fill of it is untold. If it is
filled, the engine has applied all its fills, and what it has applied was told
(`EngineKnows`); if it is rejected, it was never known (`SubmitFits`: an order is
submitted and answered once). If it is canceled, `EndFits`: the venue trades
nothing after a cancellation, the channel keeps the order (`Before`), so each of
its fills was received before; it was told, or its task ran into one of the two
waits that `overtaken` records. `WaitFits` says which waits these are: who waits for
an order that is known waits for an event that has left the dictionary. The
sequences of tasks are reasoned about by their elements; that `FlattenSeq` of the
community modules yields exactly the elements of its parts is proved from a least
counterexample, like the sums above.

Every invariant and every action property of the passing runs is stated by one of
these theorems, the four refinements among them. Model-checked only:

* Liveness: `WorkingEnds`, `EvidenceReachesDisk`, `WaitingEnds`, `StopEnds`,
  `EveryDayRecorded`, `OrderEnds`. TLAPS proves neither liveness under fairness
  nor ENABLED.
* The counterexamples to `MatchedNeverAhead` on a lossy channel (`SizeNeverAhead`
  has its other half) and to `ClosedOrderKnowsFill`.

## 5. What is not modelled, and why

* Torn or failing appends of the log, torn part files of the collector, hash
  collisions. A failed write leaves no rows behind.
* The *shadow scheduler*: an optional service that writes diagnostics and has no
  part in trading or collecting. What reading it shows: the first window that
  fails ends the round (`scripts/btc_opening_shadow_scheduler.py:200`), and, in
  the order of time, comes first in every later round until it leaves the
  lookback, so the windows behind it wait or are never evaluated; a market named
  by two catalogue files is ready twice in one scan and the second pass raises;
  a pass that dies after it created its directory, or in the middle of the
  non-atomic `metrics.json`, leaves a window that is never evaluated again; a
  stop is not looked for within a round.
* Of the runtime control: the feeds' own health, and skew between the wall clock
  and the monotonic clock. Of the rotation: what a catalogue holds beyond "this window
  and perhaps the next".
* Of the downloader: the asynchronous HTTP client, a writer that outlives the
  close, `max_days`, the catalogue of markets, progress output.
* Of the execution client: batch cancels and cancel-all, validation and signing,
  the account balance, reports for reconciliation, the limit of 10 000 on its
  caches. Answers of the exchange are taken as well formed.
* Prices, edges, fees and sizes of a plan beyond what the decisions compare; the
  maker's pure price functions.
* HTTP clients, parsing, catalogues, features, models, research, reporting, the
  dashboard, loaders and plots of the framework, deployment: batch and numeric
  code, or I/O, without a protocol of their own.
* `record_resolution`, `redeem`, `reject_cancel`: no caller in the repository.

## 6. Plan

Done: live execution, the placement cycle, buffer and flush, the CLOB stream up
to the reader, the depth books, the collector's runtime with the rotation, the
Telonex downloader, the execution client.

Next, in this order:

1. The shadow scheduler: that a window is evaluated unless an earlier one keeps
   failing, over crashing passes and restarts.
2. A torn last record in the log; a skipped layer of a plan; batch cancels of
   the execution client.
