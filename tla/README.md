# polysignal-lab: a TLA+ model, its checks and its proofs

polysignal-lab runs paper-trading strategies on Polymarket's short binary
markets inside a NautilusTrader node. Its Python code is under
`src/polysignal_lab`; paths below are relative to that directory. This project
models the parts of it whose correctness depends on the order of things: which
callback came first, what was stale, what failed half-way, who else was writing.

## 1. Inventory

### 1.1 How the system is put together

One process runs a Nautilus `LiveNode`. In it live a *market rotation actor*,
which decides which market conditions are traded, and several *strategies*,
which subscribe to the order books of those conditions, evaluate them, submit
orders and settle positions. All of these run on one event loop: a callback
runs to its end before the next one starts. Around them are threads (a liveness
watchdog, a notification worker, an alert dispatcher, a persistence queue) and
other processes (the daily report, the dashboard, the Telegram bot), which share
the SQLite store and the JSONL logs with the node.

    market rotation --universe events, by epoch--> strategy --orders--> engine
           |                                        |  ^                  |
           |                                  subscribe  books, quotes    |
           |                                        v  |                  |
           +---- instruments, expiry ----- Nautilus data engine      order events
                                                                          |
    watchdog <-- health, last data age -- strategy --- observability queue --> SQLite
       |                                                                       ^  |
       +--> alerts, restart                    daily report processes ---------+  |
                                                   |                              |
                                                   +--> Telegram        dashboard, bot

### 1.2 Components

For each: the state it keeps, its operations, what is hard, what makes it correct.

| Component | State | Operations | Hard behaviour | Correct when |
|---|---|---|---|---|
| Market-data subscriptions (`nautilus_runtime/strategy/subscriptions.py`) | a dozen dictionaries keyed by condition or instrument: phase, awaited sides, generation and stall clocks, receipts, recovery intents, suppression | subscribe, unsubscribe, instrument available, observe book, drain, restore, retry, abandon, reopen | books delayed over a resubscription, commands that raise for one half of a market, markers cleared in different functions, retries racing answers | no illegal phase write; a waiting condition can be credited, retried and abandoned; READY means fresh books on both sides; nothing outlives its condition |
| Strategy lifecycle and heartbeat (`strategy/lifecycle.py`) | running flag, throttles, active conditions | start, stop, load, data and instrument callbacks, a five-stage heartbeat | the heartbeat's list of conditions is computed once and used through all stages | no stage resurrects a condition an earlier one retired |
| Condition evaluation and readiness (`strategy/condition_evaluation.py`, `readiness.py`, `market_data_events.py`) | readiness misses, stale markers | evaluate, classify, mark, expire | a stale marker that outlives the repair it asked for | every marker is consumed or dropped with its cause |
| Custom data routing (`strategy/custom_data_handlers.py`) | market epoch | universe, metadata, spot and anchor events | reordered or repeated universe events | an older epoch never wins |
| Market rotation (`market_rotation.py`, `instrument_markets.py`) | catalogue, epoch, startup replay and its generation, timers | instrument, expiry, start, stop, save, load | a replay scheduled before a stop fires after the next start; exits during a pending replay | a market that closed is never listed again |
| Decision pipeline, gate, orders, exits (`strategy/decision_pipeline.py`, `decision_policy.py`, `pretrade/gate.py`, `native_strategy_exit.py`) | the engine's orders and positions, read as a view | collect, arbitrate pairs, gate, deduplicate, submit, exit | a batch decided on a view that a submission of the same batch changed; partial fills; degraded feeds | one order of a kind in flight; no exit beyond the position; a stop is acted on |
| Alpha cores (`alpha/`) | a history of prices each | decide entries, layers, hedges from a view | what counts as an entry while the venue has not answered | no core enters more often or sooner than it means to |
| Resolution settlement (`strategy/resolution_settlement.py`, `order_events.py`) | settled keys, pending exits | settle from an early exit, an InstrumentClose, a Cache position or a row of the store | four sources for the same result, a refused write, a stop between record and key, reused position ids | one result per episode; a result closes its row; what is resolved is settled |
| Health alerts (`observability/liveness_watchdog.py`, `liveness_alert.py`) | alert episode, notice queue and notice in flight, two threads with their stop flags | poll, submit, deliver with retries, start, stop | a dedupe against a notice that is not the last one, a full queue, a stop that gives up waiting for a thread | the operator's last notice is what the watchdog believes; one thread each |
| Liveness evaluation and supervised restart (`observability/liveness_watchdog.py`, `runtime_health.py`, `os_signals.py`, `docker-entrypoint.sh`) | heartbeat, startup marker, restart and kill histories on disk; restart latch and fleet clock in the process | write a heartbeat, evaluate it, request a restart, escalate, kill from outside | files and pids outlive the process; a process that cannot run its own watchdog; breakers that must delay and not prevent | no boot is ended for its predecessor's silence; no restart loop; what starves or hangs is ended |
| Signal notifications (`signal_notifications.py`) | job queue, worker, once-only report request | enqueue, run, stop | a worker that dies between the alive check and the put | yesterday's report is generated in the end |
| Daily report outbox (`storage/sqlite_store.py`, `app/daily_report/build.py`) | report revisions, outbox rows with leases, publish records | claim, authorize, send, complete, retry, supersede | crashes between any two transactions, late answers, two processes | one live send; the latest report is delivered; a success is final |
| Telegram delivery (`publish/telegram_publisher.py`) | none | send with retries under a timeout | a message accepted whose answer is lost | a duplicate only after an unanswered send |
| Report projections (`storage/sqlite_store.py`, `event_projection.py`) | SQLite rows of orders, fills, positions, results | idempotent upserts | replayed events; two threads writing one order | the rows do not depend on replay or order |
| Reporting (`reporting/`, `app/daily_report/`) | none | select the rows of a day, count, break down, equity | pages that are cut off, rows that do not parse, sources that differ | every result of the day is counted once |
| Market discovery (`data/`) | none | slots, pages, tokens, status, outcome, evidence | payloads that label sides differently, markets on a boundary | a market's sides and status are read the same everywhere |
| Observability persistence (`observability_persistence.py`) | bounded queue, drop counters | submit, drain | a queue at its limit, a locked database | every queued fill is decided, the thread never blocks |
| JSONL log, retention (`storage/jsonl_store.py`, `maintenance/`) | files, archived rows | append, rotate, export, delete, compress, expire | a writer beside the job; a kill between any two steps | nothing recorded is lost |
| Promotion, dashboard, bot, frontend | read-only or offline | queries, rendering, comparison | - | - |

`PROJECT.json` lists every component with what is modelled of it or why it is
not, and every hazard at its line with the properties that would show it.

## 2. Modules

| Module | What it is |
|---|---|
| `ConditionSubscription` | the record of one condition and every function of `subscriptions.py` and of the readiness code that moves it, as operators on records |
| `StrategySubscriptions` | one strategy: the callbacks, the heartbeat and the world outside as actions over a record per condition; its properties |
| `BookFeedContract` | the abstract specification: what a strategy promises about the book feed of a condition |
| `MCStrategySubscriptions` | the instance TLC checks |
| `StrategySubscriptionsProofs` | lemmas about the operators of both modules, then the theorems |
| `DailyReportOutbox` | the delivery of one day's report by several processes through the SQLite outbox |
| `MCDailyReportOutbox` | the instance TLC checks |
| `ReportDeliveryContract` | the abstract specification: what the readers of the channel and of the record are promised |
| `DailyReportOutboxProofs` | its theorems, and those of `DailyReportContent` |
| `HealthAlerts`, `MCHealthAlerts` | the watchdog's notices: poller, bounded queue, delivery worker, starts and stops |
| `RestartSupervision`, `MCRestartSupervision` | who ends a runtime that does not work: the restart gate inside, the supervisor outside, and the files between boots |
| `SupervisionProofs` | the theorems of these two modules; their names differ, so that it can extend both |
| `ResolutionSettlement`, `MCResolutionSettlement`, `ResolutionSettlementProofs` | how a position gets its one result: exits, closes, polls, the store, restarts |
| `SettlementContract` | the abstract specification: the results are a ledger in which nothing is changed or removed |
| `MarketRotation`, `MCMarketRotation`, `MarketRotationProofs` | the rotation actor composed with the epoch gate of the strategies |
| `UniverseContract` | the abstract specification: one newest universe, told to everyone |
| `AlphaCores` | the twelve cores as functions from a view to decisions |
| `TradingDecisions`, `MCTradingDecisions`, `TradingDecisionsProofs` | one strategy in one market: exits, core, arbitration, gate, dedupe, submission, and a venue that answers late |
| `OrderReports` | the row of an order, as the store derives it from events |
| `Telemetry`, `MCTelemetry`, `TelemetryProofs` | the telemetry thread and the notification worker between the strategies and the store |
| `Retention`, `MCRetention`, `RetentionProofs` | the daily maintenance beside the running node |
| `ReportResults`, `DailyReportContent`, `MCDailyReportContent` | pure: a result from an exit or a resolution; the content of a daily report |
| `MarketDiscovery`, `MCMarketDiscovery` | pure: what discovery makes of the venue's answers |

Operators whose comment begins with *Fault:* are not the code. Each is a form
that a plausible bug would give the operator after it; putting it in that one's
place must break the property paired with it in `PROJECT.json`.

### 2.1 Subscriptions

The code keeps one dictionary per fact, keyed by condition or by instrument. The
two instruments of a condition belong to it alone, so the model turns the
dictionaries around: `record[c]` holds all facts of one condition, and a
function of the code that reads and writes several dictionaries is an operator
from a record to a record (`BeginGeneration`, `SubscribeCondition`,
`ObserveBook`, `RecoverBookSubscription`, ...), in the order in which the code
calls. A timestamp is its age in clock units; ages stop at the largest value a
guard tells apart, and an entry that every guard treats as missing becomes
`Absent`. `illegal` records that a phase write raised `AssertionError`.

| Action | Code |
|---|---|
| `OnStart`, `OnStop`, `OnLoad` | `lifecycle.py` `on_start`, `on_stop`, `on_load` |
| `OnMarketUniverse`, `OnMarketMetadata` | `custom_data_handlers.py`, behind the epoch gate |
| `OnInstrument` | `on_instrument` to `on_instrument_available` |
| `OnBook` | `on_quote`, `on_book`, `on_book_deltas` to the observation of a book and, throttled, an evaluation |
| `OnEvaluate` | trades, spot, anchor data and the pending evaluation timer |
| `EvaluationHeartbeat` ... `HeartbeatEvaluates` | `_run_evaluation_heartbeat`, stage by stage: retire and discover; flush restores and resubscribe; reconcile from the Cache; recover; evaluate |
| `ClockAdvances`, `WindowAdvances`, `InstrumentLoads` | time, the market's window, the provider filling the Cache |

The stages of a heartbeat are separate actions although no callback runs
between them. This keeps each stage readable and lets the invariants be read
between stages, where the code's own list of conditions can be stale; `stage`
bars every other action until the heartbeat is over.

Nondeterministic inputs are: which of the sides that it may refuse (`Refusable`) the
engine refuses at a callback (`Accepted`), the delay between a book's `ts_init` and its callback
(`0` or `MaxLag`), what the Cache holds, what discovery finds, which sets a
universe event lists and exits, how a market view is classified, and whether
the 500 ms throttle lets an evaluation run.

### 2.2 Daily report outbox

Each process that generates reports is a worker. The workers share three tables
and nothing else, so a SQLite transaction is an action. The exception is
`complete_daily_report_publish`: its two SELECTs run before sqlite3 opens the
transaction at the first write, so it is three actions (`CompletionReadsRow`,
`CompletionReadsPublish`, `CompletionWrites` or, when the INSERT meets another
process's, `CompletionFails`). Inside one process the store's lock keeps completions
apart; workers are processes, so here they interleave. A completion in the middle
of which another one wrote the same record is `Disturbed`.

| Action | Code |
|---|---|
| `GenerateReport` | `claim_daily_report` and the branches of `generate_and_store_daily_report` |
| `RetryPending` | `pending_daily_report_publishes`, called when a later report is generated |
| `ClaimPublish`, `AuthorizePublish`, `FindStale`, `FindExpired` | `claim_daily_report_publish`, `authorize_daily_report_publish` and its answers; BUSY is a worker with no enabled action until the other send is over |
| `PostAnswered`, `PostUnanswered`, `SendFails` | `TelegramPublisher.send` |
| `Interrupted` | the timeout around `send`, or the end of the process at any stage |
| `Completion*` | `complete_daily_report_publish` with `_record_daily_report_publish` |
| `ClockAdvances` | time; leases and the send timer run down |

`channel` is what a reader of the Telegram channel sees: how often each revision
was posted, which posts went unanswered, and which revision came last.

### 2.3 Health alerts

Two threads and the main thread share the queue, the stop flags and
`_inflight_message` without a common lock, so an action is what lies between two
accesses to them. `submit` reads the notice in flight (`SubmitDeduplicates`,
`SubmitChecks`) and puts into the queue (`SubmitPuts`) in separate steps; the
worker takes a notice (`WorkerGets`) before it marks it (`WorkerMarks`).

| Action | Code |
|---|---|
| `Start`, `Stop`, `JoinPoller`, `JoinWorker` | `LivenessWatchdog.start` and `stop`, with the dispatcher's; a join that times out keeps the handle |
| `PollOnce`, `PollerExits` | `_run` and `poll_once` up to the submit; `Decide` is `evaluate_liveness_alert` |
| `Submit*` | `HealthAlertDispatcher.submit` and the rest of `poll_once` |
| `Worker*`, `SendFails` | `HealthAlertDispatcher._run`, `_deliver_with_retry`, `_deliver_once` |

A poll's judgement of the runtime is one of `ok`, `failing`, `fatal`, and changes
at any moment. `told` is the last notice that reached the operator.
`deduplicated` and `interrupted` record the two ways in which the code drops a
notice on purpose; `NoticesAreDelivered` excludes both (section 6.2 says what the
first can lead to).

### 2.4 Restart supervision

The model spans any number of boots. A timestamp is its age, up to `Oldest`. The
heartbeat file is a record of what the gate and the supervisor read of it; its
`owner` tells the present boot, an earlier one, and an earlier one whose pid the
present boot happens to have. The many keys of misses and details become the age
of the oldest miss that counts and the worst detail.

| Action | Code |
|---|---|
| `Spawn` | `_run_nautilus_app` in `docker-entrypoint.sh`: a process and its boot id |
| `WriteMarker`, `WriteStarting` | `_prepare_sync_cli_bundle`, with best-effort writes (`FailingWrites`) |
| `WriteHeartbeat` | `write_runtime_heartbeat` in every other phase |
| `Poll`, `RequestRestart`, `RequestUnrecorded`, `DieRecording` | `_restart_if_recovery_exhausted` with its history written, not written, or truncated by the end of the process |
| `StopCompletes` | `request_process_stop` and the escalation thread |
| `Kill` | the supervisor's loop with `_heartbeat_kill_allowed` |
| `Wedge`, `Crash`, `FeedChanges`, `ClockAdvances` | the world |

`counted` holds the restarts and kills since a history was last lost. It is no
part of the code: the limits read the files, the property is about the events.

### 2.5 Resolution settlement

The engine nets: an instrument of a strategy has one position id, and a position
that closed is opened again under it. Each opening is an *episode*. Engine steps
(`EntryFill`, `ExitFill`, `ExitKilled`, `CloseFill`, ...) queue the callbacks of one
event, and no other engine step comes before they have run (`Quiet`), as on the
event loop.

| Action | Code |
|---|---|
| `HandleFill`, `HandlePosition` | `order_events.py`: the early exit result, the position's row |
| `InstrumentClose` | `handle_instrument_close` and `_settle_cache_position` |
| `Heartbeat` | `resolve_open_positions`: positions of the Cache and open rows with evidence |
| `Restart` | a new process: keys forgotten, the Cache empty (sandbox) or rebuilt (live), `reconcile_report_position_closure` run on the store |
| `EntryFill` ... `ReplayFill`, `Resolve` | the engine and the venue |

A store that refuses a write is the argument `refused` of a heartbeat, or the
second disjunct of a handler, bounded by `MaxFaults`. `Upserted` is the upsert of a
position's row with its guard against older events, `Recorded` the insert of a
result with its idempotence, `Reconciled` the closing of a row by its result. A
result's fields `by`, `overlapped` and `unshown` are history: which path wrote it,
whether an exit order worked at that time, and whether the row showed the episode.

### 2.6 Market rotation

`Instrument` is `on_instrument` whole, with its four outcomes as disjuncts:
a terminal instrument, a useless one (the other leg is missing), an inactive one,
an active one. `ExpiryTimer`, `StartupReplay`, `Start`, `Stop`, `Save` and `Boot` are
the callbacks of the same names. `Announce` is a universe event: its epoch, and
the handling of it by every strategy in the same step (`Hears`, the epoch gate of
`custom_data_handlers.py`), as the engine's message bus does it. `alerts` holds the
generations of replays that may still call back: a stop cancels its timer, but
the callback may be on its way. `closed` and `announced` are history. `catalog`, `prices`
and `sent` (metadata and prices as the strategies know them, and the price published
last) belong to the handlers that write, restore or forget them; no property reads
them.

### 2.7 Trading decisions

`AlphaCores` has the rules of the cores under their defaults: prices in cents,
seconds from the market's start, and what a core computes from price histories
(momentum, zones) as an input of the view. `TradingDecisions` composes them with
everything between a view and an order: `Blocked` (`classify_market_view`), the exit
policy before the core (`Decisions`), `PairIsWhole` and `Passes` (arbitration and
gate, together `Survives`), `Submit` (dedupe, cash, mapping). `Batches` is the fold of
`Submit` over a batch, one value for each decision, and `Apply` its last one. `Evaluate` is one step, since the pipeline
reads the orders in flight once and submits a batch without giving up control;
`Accept`, `Reject`, `Kill`, `Fill` are the venue's, in any order and in parts. `Retire`
is the expiry with its cancellations.

### 2.8 Telemetry

The strategy thread writes an order's lifecycle events itself (`OrderEvent`) and
queues fills (`OrderFilled`), which the telemetry thread takes and writes (`Drain`,
`Write`), retries while the store is locked, or gives up. The same thread asks for
yesterday's report (`Request`, `RequestPuts`). The notification worker takes jobs
(`Take`), publishes, generates reports (`Generates`, which fails a number of times) and
may `Die`; `Ensured` is `_ensure_outbox_worker`, and the put is a step of its own
after it, on both threads. `OrderReports` says what an event does to the row.

### 2.9 Retention

One archived table and one JSONL stream. `Export`, `Publish`, `Delete` or `Withdraw`
are the stages of `archive_table_rows`, with the node's writes (`WriteRow`, `Append`)
between any two of them; then `Compress`, `Unlink`, `Expire`. `Crash` ends the job
anywhere. `gone` and `expired` are history: rows that were deleted, lines whose
archive expired.

### 2.10 Pure modules

`ReportResults`, `DailyReportContent` and `MarketDiscovery` have no state; what they
should satisfy is stated as named assumptions over bounded inputs in their MC
modules, which TLC evaluates whenever a run's module extends them
(`MCDailyReportOutbox` extends `MCDailyReportContent`, `MCMarketRotation` extends
`MCMarketDiscovery`). Of reports: totals and breakdowns add up to the results
(`ResultsAddUp`), fills take the intent of their order (`FillsFollowOrders`), a fill is
counted on its day only and from one source, and a report that calls itself
complete saw no full page and no invalid row (`FillsAreOfTheDay`), lost telemetry
shows on exactly one day (`LossesShowOnce`), the equity names its source
(`EquityIsNamed`), a result that is built is one the store keeps (`ResultsAreKept`), and
the fills of one exit share the stake (`ExitsShareTheStake`). Of discovery: slots that
are asked for are allowed by the window (`SlotsAreAllowed`), paging reads each
event once (`PagesAreComplete`), sides follow labels where every token has an id
(`SidesFollowLabels`), a condition is one market and none is lost
(`ConditionsAreOnce`), asking for slots only adds to the pages (`SlotsAddToPages`),
the two readings of a resolution agree (`ReadingsAgree`), and evidence is of a
wanted condition (`EvidenceIsOfTheWanted`).

## 3. Runs

Each run needs a few seconds to two and a half minutes. `Hedges` and `Refusals` are
expected to fail: each shows a disagreement between the code and what its tests say
(section 6.1).

| Run | Instance | Shows |
|---|---|---|
| `Subscriptions` | one startup condition, one side that the engine may refuse at any callback, fair | a refusal does not reach the other side; a waiting condition keeps what recovery needs; READY means books; nothing outlives its condition; only fresh books credit a side; the feed refines its contract; and no wait, silence or unsubscribed state lasts for ever |
| `Refusals` | the same with both sides refusable | violation: a re-subscription does not re-establish the subscribed set |
| `ReportOutbox` | two workers, two revisions, two faults, no stalls, fair | the outbox refines `ReportDeliveryContract`: revisions are posted one at a time and in order, and what ends without doubt is on record exactly if it was posted; duplicates only after an unanswered send; the latest report is delivered |
| `ReportOutboxStalls` | stalls past any deadline, completions interleave | one live send; only obsolete intents are given up; a success is downgraded, or a confirmed post not recorded, by disturbed completions only |
| `HealthAlerts` | two threads' identities each, queue of one, one failed send, fair | one poller and one worker; the operator's last notice agrees with the episode; a lasting failure is reported |
| `RestartSupervision` | any number of boots, writes of a start succeed, fair | no boot is ended before its own time; restarts and kills are bounded; a starved runtime and a stuck process are ended |
| `Settlement` | one traded and one migrated position, two strategies, two episodes, one restart, one refused write, fair | the results refine `SettlementContract`: written once, each of its own episode, and a key only with its entry; an episode is not both sold and resolved; a result closes its row for good; an exit is reported; a resolved position is settled |
| `MarketRotation` | two markets, two strategies, three deliveries, two starts, one more boot | strategies know the actor's universe or wait for a replay; closed markets stay out; what is announced as left has left; the rotation refines `UniverseContract` |
| `Trading` | each of the twelve cores, twelve feeds of which four are degraded, two lots an entry | one order of a kind in flight; exits fit the position; entries are bounded and spaced; a stop that is due is acted on |
| `Hedges` | `dump_hedge` | violation: no hedge reaches the venue |
| `Telemetry` | one order with three events, a queue of one, one retry, one death of the worker, two midnights' days, fair | an order's row is the same in whichever order the threads write; every fill is decided; yesterday's report is generated |
| `Retention` | two ids, three lines, two jobs, three days | nothing recorded is lost |

The runs `ReportOutbox*` and `MarketRotation` also evaluate the assumptions of the
pure modules (2.10).

### 3.1 Bounds, and why they are enough

*Subscriptions.* One condition: every callback computes each record from that
record alone, which the definitions show (`record'[c]` depends on `record[c]`
only) and the proofs do not assume. A clock unit stands for 120 s.
The code's thresholds 60, 120, 240, 240 and 900 s become 0 (strictly more than
60 s is one whole unit), 1, 2, 2 and 3; `AgesAssumption` states the order of the
thresholds that matters and the proofs use nothing else. 900 s of suppression
become 3 units: it outlasts the other thresholds, by how much no guard can tell.
The restore delay of 1 s is below a unit, so a restore is due at the next
heartbeat. `MaxLag` is one unit: a book from before a resubscription, and one
from after it. `MaxEpoch = 1` gives one universe event per load, which a stop
and a reload make possible again; the gate only drops events. `Refusable` is the side
whose commands are sent first: a refusal that ended the loop, or the callback, would show
at the other one. In `Refusals` it is both. Which sides it is, the proofs leave open.

*Outbox.* A unit is `publish_timeout_sec` (20 s), a lease two of them, the factor
in `_publish_report`. Two workers are a late one and the one that reclaimed its
row; two revisions are the obsolete and the latest one. `MaxFaults` is 2:
two faults are part of the story (an unanswered post, then a crash); `MaxAttempts` leaves each of them its retry. Bounds
are guards named in the modules; none is reached by chance: the fair run has
attempts to spare, so that no worker is blocked by the bound.

*Health alerts*. A unit is the time between two polls; `MinUnhealthy = 1` and
`MinFailures = 2` make an alert due on the second failing poll, or the first fatal
one. One text is enough for an alert that repeats and for one that another
covers. A queue of one is full when the second notice comes. Two identities per
kind of thread let a second thread exist beside the first; which of the free ones
a start takes is fixed (`Created`), threads being alike. `MaxFailedSends = 1`
bounds the retries that interleave with the rest, not the deliveries.

*Restart supervision*. A unit stands for 150 s: heartbeats are stale after 120 s
(`0`: more than that is a whole unit), the startup grace is 180 s (`1`), restarts
are due after 300 s (`2`), the supervisor acts after 300 and 420 s (`2`, `2`). Limits
of one event in windows of three units suffice to have both breakers open and
close: a boot that starves needs a restart before the window of the last one is
over. `Oldest = 3` is the first age beyond every threshold. No boot, crash or kill
is counted, so the run is over all numbers of them.

*Settlement*. One position goes through every path, since positions share nothing
but the queue of callbacks and the store's faults; the migrated one is a row that no
Cache shows. A second strategy has an empty share, so that a heartbeat of a strategy
that does not own a position is possible. Two shares allow a partial exit, two
episodes the reuse of an id.

*Market rotation*. One market ends at `1`, the other never; one strategy has both in
its scope, one only the first. Three deliveries are two legs and one more instrument
of either kind; two starts are the stop with a replay pending and the start after it.
Payloads are active ones that differ in metadata and in price, an inactive one, and
a closed one.

*Trading*. A feed is one of eight situations (even, level, falling, winning, ...) or
one of four degraded ones: a wide spread with a late spot price, a late book without
a spot price, a stale book without a bid, no ask. The instants are three within the
windows of the cores, 21 and 7 s apart, which is more than the flip guard's window
and just the least time between two entries, and the end of the market. Two lots are
enough for a partial fill; two layers of `mid_price_sizing` for one too many, which is
why that core has three orders and the others two.

*Telemetry*. Two instants and two ranks of ids give events of one and of different
times, in both orders of the tie-break. A queue of one is full at the second fill.
Days 0 to 2: the report of yesterday may be overtaken by the next day's.

*Retention*. A rotation is due after every line (`MaxFileLines = 0`), but may be put
off by a stop of the node, so files have one line or two. Two jobs are one that
crashed and the next; two days of ages separate hot, archived and expired.

### 3.2 Fairness

*Subscriptions* (`FairSpec`). `WF` on a turn of the heartbeat: while the strategy
runs the heartbeat is called again, by the 10 s timer or, throttled to the same
interval, by the data callbacks. `lifecycle.py` (`maybe_run_data_driven_recovery`)
says that timers do not fire under `LiveNode.run()`, `node_lifecycle.py`
(`_run_live_node`) that since Nautilus 2.0 they do. If they do not, the assumption
holds as long as any feed of the strategy delivers; if all are silent nothing
runs, and the supervised restart (`StarvedIsEnded`) is what
remains. `SF` on the clock: time passes however many callbacks come. Nothing is
assumed of books, instruments or universe events, so the liveness properties
allow for the strategy's stop and the condition's leaving. Nothing is assumed of the
engine either: it may refuse a side for ever. `WaitEnds` holds all the same, except
where the engine refuses time and again an instrument that the Cache does not have
(`Unclaimed`, section 6.2); one that it refuses and the Cache has is covered.

*Outbox*. `WF` on the delivery of each worker: it goes on unless a fault stops
it. `SF` on a retry: later reports keep being generated, which is the code's only
retry. `SF` on the clock. Faults are bounded, never excluded: that a send
succeeds in the end is the assumption under which delivery can be promised.

*Health alerts*. `WF` on the steps of each thread: both loops wait with timeouts
and go on. `SF` on the clock. Starts, stops, failures of sends and the runtime are
free, so `FailureIsNotified` allows for the stop.

*Restart supervision*. `WF` on the gate, on the end of a requested stop (the
owner consumes the signal, or the escalation thread kills it) and on the
supervisor, `SF` on the clock. A process that is wedged takes none of the first
two. That a start gets on, that heartbeats are written, that data comes, and that
a supervisor's container is started again are not assumed.

*Settlement*. `WF` on the callbacks of an engine event, and on a heartbeat that finds
all the evidence and a store that writes: the timer of a running strategy recurs,
and refused writes are bounded. Nothing is assumed of the engine or the venue.

*Telemetry*. `WF` on the steps of each thread, `SF` on the check for the report, which
its interval makes due again and again, and `SF` on a generation that succeeds: it may
fail any number of times but not for ever. `ReportIsGenerated` also assumes that
signals keep being notified, which is what finds a dead worker.

*Market rotation, trading, retention* have safety properties only. Their timers are
not assumed to fire (`lifecycle.py` says that they may not).

## 4. What is proved

TLAPS proves, for all values of the constants that satisfy the modules' named
assumptions (`AgesAssumption`, `UnsubscribeExitedAssumption`,
`ConditionsAssumption`, `OutboxAssumption`, `AlertsAssumption`,
`SupervisionAssumption`, `SettlementAssumption`, `RotationAssumption`,
`AlphaCoresAssumption`, `TradingAssumption`, `TelemetryAssumption`,
`RetentionAssumption`), every invariant, step property and refinement that a run
checks.

*Subscriptions* (`StrategySubscriptionsProofs`), whatever the engine rejects:
`TypeCorrect`, `PhasesAreLegal`, `WaitsAreRecoverable`, `PhasesMatchBooks`,
`RecoveryIsForAwaited`, `NothingOutlivesCondition`, `SuppressedIsUnsubscribed`,
the step property `CreditsAreFresh`, and `Refinement`: the strategy implements
`BookFeedContract`. `RefusalsAreContained` is for any set of sides that the engine may
refuse: every callback keeps a subscribed condition the owner of the others (`Owned`,
`Retains`), in every subscribing phase and not only past the pending stage, which is
what `RefusalIsContained` asks. With nothing refused it is the ownership of both.

The inductive invariant (`Inductive`) is about each record: it is `Coherent`
(phase, generation, receipts, pending instruments and recovery intents agree),
`Quiet` (a condition outside the active set keeps nothing) and `Settled` (a
condition with metadata does not wait for it). None of the checked invariants is
inductive alone. That READY has receipts on both sides needs to know that every
subscribed side not awaited has one (`ReceiptsCoherent`); that no transition is
illegal needs to know that SUBSCRIBE_ISSUED is never written and that instruments
are pending only under a subscribed phase. The heartbeat's stage `restore` may
still hold a condition whose metadata discovery has just delivered; `Settled`
exempts exactly that. There is one lemma per operator of `ConditionSubscription`,
mostly of the form *a coherent record in, a coherent record out, and the feed
moved as the contract allows*; the theorems apply them once per action. The
operators of one callback chain pass through records that are not yet coherent
(the phase is recomputed last), hence `Loose`, which is `Coherent` before that.

*Outbox* (`DailyReportOutboxProofs`), with any workers, revisions, leases, faults,
stalls and overlapping completions: `OutboxTypeCorrect`, `SendsAreExclusive`
(two sends are never live at once) and `LatestIsNeverGivenUp`. They need each
other's typing, and a worker that is busy to have a revision
(`WorkersHaveRevisions`). The argument for exclusion: a row becomes a live send
only in `AuthorizePublish`, which finds no other; every other step leaves a live
send, ends it, or lets its lease run (`Replaces`). That completions interleave
does not matter, because a write applies only to a row that is still the
completing attempt's own. `SuccessIsFinal` and `PostsAreRecorded` are about the record
instead, and rest on what a completion has read (`Disturbed`) and on every attempt
that sends, or completes a send, being among the authorized ones of its row
(`SendersAreAuthorized`), whose set no step makes smaller (`AuthorizationsStay`).
`ChannelIsOrdered` and `RepeatsAreUnsure` assume `~Stalls`: they are false with them
(a worker held up past its deadline posts after its row was reclaimed). Their invariant
`StallFree` says that an attempt belongs to one worker (`AttemptsAreOwn`) and that the
lease of a send outlasts its timer (`SendsAreLive`); with exclusion, one worker at most
is sending or completing (`OneSender`). So what a completion has read is current when
it writes (`SeenIsCurrent`), what is sent is no older than what was posted
(`MessagesInOrder`), and a revision that was posted is unsure, recorded, or about to be
recorded by the one worker that knows (`PostsAreKnown`).

`DeliveryRefines`, under the same assumption, is the refinement of
`ReportDeliveryContract`, in which there are no workers, leases or rows: a revision
begins to be sent while no other is and only as the newest, it is posted, its send ends
in doubt, is confirmed, or is given up. The mapping reads `sending` from the rows
(`LiveSends`), `posted` from the channel and `recorded` from the publish records. On top
of `StallFree` it needs `TrueInv`: what is on record, or about to be, was posted
(`RecordsAreTrue`); what may still be sent is not on record (`SendsAreUnrecorded`); and a
completion that goes on has read its own send (`HasRead`). Each action has a lemma that
names the step of the contract it takes: an authorization is `Begin`, a post with or
without an answer is `Post`, a timeout or crash is `Doubt`, the write of a completion
is `Confirm` or `GiveUp` (`CompletionIsAllowed`), and a lease that runs out is `GiveUp`
(`LapseIsAllowed`: no worker that knows of a post lets it happen). Every other step
leaves the live sends as they are (`KeepsSends`, `NoNewSends`). `ChannelIsOrdered` is a
consequence of the contract and has its own, shorter proof; no run checks it apart
from the contract.

*Health alerts* (`SupervisionProofs`), for any texts, queue bounds, thresholds and
numbers of failures: `AlertsTypeCorrect`, `ThreadsAreSingle` and
`DeliveryIsFaithful`. `OneThreadEach` is not inductive: it needs that every living
thread is the one its handle names (`HandlesKept`), which is what keeping the
handle after a failed join is for. `NoticesAreDelivered` speaks of the quiet
states only; the invariant `LastNoticeAgrees` says at every moment what the
operator will have been told when everything on its way has arrived, namely the
last of the queue, or else what the worker holds, or else `told`
(`LastNotice`), and that this agrees with the episode. A decision that a poll
still carries agrees with itself (`DecisionsAgree`).

*Restart supervision* (`SupervisionProofs`), for any thresholds, windows and
limits: `SupervisionTypeCorrect`; `NoRestartLoop`, from `CountedIsRecorded` (what
counts is on disk) and the limits of what is on disk; `BootsAreSpared`, assuming
that the writes of a start succeed, from `EvidenceIsOwn`: once a boot has begun,
the heartbeat is its own and no age in it, nor the marker or the fleet clock,
exceeds the age of the process. `NarrowWindowNeverTrips` follows from it: with a
window no longer than `critical_down_sec` and a limit above one the breaker never
opens (`OneInWindow`).

*Settlement* (`ResolutionSettlementProofs`), for any positions, strategies, episodes,
restarts and refused writes: `SettlementTypeCorrect`, `KeysAreDurable`,
`EpisodesCountOnce`, `ReportedRowsAreClosed`, `FirstExitsAreReported` and
`SettlementRefines`. `CountedOnce` needs to know that a resolution's result is of the
present episode and an exit's of no later one (`EpisodesAgree`), and that once a
position is resolved no exit fill of it is still to come, in the engine or in a
callback, unless a poll resolved it beside a working exit order (`ExitIsOver`). `ReportedIsNotOpen` rests on the times of rows: a row is no
older than its episode (`RowsFollow`), so an event of an episode that ended is older
than the row that its result closed (`ShownIsClosed`). `FirstExitIsReported` speaks of
moments at which no callback is due; the invariant under it (`ExitsAreKnown`) of every
moment: while no write was refused, a first episode that an exit ended has its
result, or the fill that will record it is queued, or the engine may still repeat it.
That the fill then does record it needs the key and the result id not to be taken by
anything but this episode's own result.

`SettlementRefines` shows that the results are the ledger of `SettlementContract`: an
entry is written once and never changed or removed, by an exit that closed the position
or by a resolution of its market, for the episode that the position is in at that
moment; keys are added with their entries and lost by restarts only; and no position
opens once its market is resolved. `SettledIsDurable`, which is part of `IInv`, is a
consequence. Beyond `IInv` the proof needs `FillsAreExits`: the fill that a callback
will handle is of the exit that the Cache still shows, because the engine takes no step
before its callbacks have run. One `Settle` of the contract is a whole heartbeat, with
all the positions it records.

*Market rotation* (`MarketRotationProofs`), for any conditions, scopes, ends, payloads
and numbers of starts and boots: `RotationTypeCorrect`, `StrategiesAreCurrent`,
`ClosedMarketsStayOut`, `LeaversHaveLeft`, and `RotationRefines`: the rotation
implements `UniverseContract`. `ClosedStaysOut` needs that what was seen closed has a
tombstone, in memory or in the state saved with the market (`Tombstones`); that no
announcement is taken for an old one needs that no strategy and no saved state is
ahead of the epoch (`Numbered`); and the startup replay may list its exits and the
markets to be delivered again because none of them is active (`ReplayIsRight`).

*Retention* (`RetentionProofs`), for any ids, ages, bounds and numbers of jobs:
`RetentionTypeCorrect` and `RecordsAreKept`. An archive is the running job's own until
its rows are deleted, so that withdrawing it takes nothing that another deletion
rests on (`JobOwnsArchive`, `GoneIsKept`). That no file is replaced rests on names: the
sequences of a day have no gap and a file leaves its name only on a later day
(`NamesAreOnce`), which is where `HotDays >= 1` is needed.

*Trading decisions* (`TradingDecisionsProofs`), for any feeds, instants, lots, layers
and bounds on the orders: `TypeCorrect`, `NeverTwoInFlight`, `NeverOversold`,
`EntriesStayBounded`, `StopsAreActedOn`, and `HedgesAreNeverPlaced`: what the run
`Hedges` shows for one feed is so for all. The proof goes through the layers of the
code. One lemma per core says what its decisions are (`Sensible`): entries of its
own, closes without a quantity, hedges only as a single decision that carries the
pair's tag, and no entry where the core's own rule sees activity, a full layer, or
another entry too near. `BatchesEquation` and `BatchGrows` say what a batch adds
(`Grown`): each new order is that of a decision that survived, no two share a key,
none shares one with an order in flight, and no decision that survived is without
an order of its key. `EvaluatePlaces` puts the two together. The invariant (`Inv`)
needs besides the properties that closes come from the exit policy only
(`OrdersAreKnown`; the closes of `mid_price_sizing` have no quantity and are not
mapped), or a close of a core would have another key than one in flight; and that an
order is accepted after it was sent (`OrdersAreTimely`), which is what the last
accepted entry tells `late_consensus` about the ones before. What the venue may do is
one relation between an order and the same order later (`Answered`), so that the five
steps of the venue and `Retire` need one proof. `EntriesAreSpaced` was first stated
without its exception for late answers; the proof of the step that places an entry
failed, and a run with the right instants shows why (section 6.2).

*Telemetry* (`TelemetryProofs`), for any orders, events, queue bounds, retries and
deaths of the worker: `TelemetryTypeCorrect` and `RowsShowTheLatest`. `RowsConverge` is
about orders all of whose events are written; what is inductive is that at every
moment the row shows the last of the events written so far (`RowsShowLast`). A write
keeps that because `Precedes` is a total order on events that differ
(`EventsDiffer`), and because what waits in the queue or with the writer was received
and is a fill (`OnlyReceivedIsWritten`, `OnlyFillsWait`).

*Pure modules*, proved beside the component that uses them, with the hypotheses in the
theorem. `CompleteReportsAreWhole` (`DailyReportOutboxProofs`): a daily report that
gives no reason for being incomplete has every fill, order and signal that the store
has for its day, and no invalid one; its fills are of the store, or of a Cache that was
there to ask; and it has every result of the day unless a stored one does not parse,
which is the exception of section 6.2. It assumes finite tables with numbers for times
and ids, and nothing of the limit. It rests on `ShortPageIsWhole`: of the rows that a
page below its limit missed, one would have only rows of the page before it, and so
too few to be missed (the subsets of a finite set are well founded under strict
inclusion).
`ResolutionsAreKept` and `EarlyExitsAreKept` (`ResolutionSettlementProofs`): for any
amounts, what the runtime builds of a resolution or an exit is what the store accepts,
with the outcome that its profit has. `SlotsAreAllowed` (`MarketRotationProofs`): the
slots that discovery asks for are those that the window of parsing lets pass, but for
the one that ended exactly the grace ago.

*Only model-checked.* Liveness: `WaitEnds`, `SilentSideIsReopened`,
`ActiveGetsSubscribed`, `LatestIsDelivered`, `FailureIsNotified`, `StarvedIsEnded`,
`StuckIsEnded`, `ResolvedIsSettled`, `FillsAreDecided`, `ReportIsGenerated`
(fairness and ENABLED are beyond this prover). The other assumptions of the pure modules
(2.10), over bounded inputs: they count and add up with folds over data. The library's
induction theorems take an operator as a parameter, which the provers cannot
instantiate. `Induction` in `TradingDecisionsProofs` is a way round that for sets
instead of operators (were a number missing from a set that has 0 and all
successors, adding one would inject a finite set into a smaller one); it proves
that a recursive function satisfies its equation, and what follows from it by
induction on the index, as for `Batches` and the zones of `fibonacci_bot`.

## 5. What is not modelled

Inside the modelled parts:

* *Subscriptions.* Two strategies that own the same instrument (the restore
  dictionaries are process-wide), the bookkeeping of adapter replays, which only
  reporting reads, and prices. The venue-wide instrument refresh appears as
  `InstrumentLoads`.
* *Daily report outbox.* Rows from before `authorized_attempts` existed and
  `DRY_RUN` (it counts as SENT).
* *Health alerts.* How a poll judges the runtime, and the publisher's event loop,
  whose failures are failed sends.
* *Restart supervision.* Fatal heartbeats (the process ends by itself), unreadable
  files, a stop callback that raises, and `evaluate_restart_gate`, which no code of
  the program calls.
* *Settlement.* The HTTP requests of a poll and its back-off: a poll has evidence or
  not. Money: a result is the shares it counts.
* *Market rotation.* The refresh request to the data client and its throttle, which
  appear as deliveries of instruments; the anchor service, which no code of the
  program gives to the actor.
* *Trading decisions.* Markets of fifteen minutes, rounding of prices to the tick,
  disabled strategies, `freshness_policies` (never configured), and the price
  histories of the cores: what a core reads from them is an input.
* *Telemetry.* `OrderUpdated`, whose row is INVALID until the next event; an order
  that closes after a partial fill (`ClosesAfterFill`), whose row does depend on the
  order of the threads (section 6.2).
* *Reports and discovery.* Rates and means, the table of open positions, rendering;
  HTTP with its retries.
* *Retention.* Several tables in one maintenance, tables that keep the latest row
  only, the cleaning of runtime and crash logs, VACUUM, and a file that rotates
  across midnight.

Not modelled at all, with the reasons in `PROJECT.json`: the state files beyond those
the supervision and the rotation read, strategy promotion, the dashboard, the
Telegram bot and the web frontend. They read what the modelled parts write, or
render it, and keep no state that another part relies on.

## 6. Findings

### 6.1 Runs that are expected to fail

`Hedges` checks `HedgesArePlaced`: an evaluation in which the core hedges, with
books, cash and the order's key in order (`HedgeIsClear`), leaves a hedge order. The
trace: `dump_hedge` buys both legs, one is filled in part and the other rejected, and
the next evaluation hedges without effect. `tests/test_alpha_dump_hedge.py:104`
asserts that the core answers a lone leg with a hedge. The hedge carries the pair's
id, so arbitration takes it for a pair with a leg missing and drops it
(`INCOMPLETE_PAIR`); together with a stop hedge of the same side it is a
`MALFORMED_PAIR`. No hedge leaves the strategy (`decision_policy.py:241`).

`Refusals` checks `ResubscribeOwns`: a heartbeat that subscribes an active condition
again, with both instruments in the Cache and the engine taking every command, leaves a
condition past the pending stage the owner of both. `tests/test_subscription_invariants.py:388`
says that *a re-subscribe with Cache-visible instruments must re-establish the
subscribed set*, and `strategy/invariants.py:111-113` (`_assert_owns_instruments`) that
without it the condition is *a wedge the real feed can never satisfy (subscribe API
failure)*. The trace: the strategy starts with both instruments in the Cache and the
engine refuses them. `subscribe_market_instrument` answers each `RuntimeError` with False
and leaves the instrument neither pending nor subscribed, while the generation has
begun, so the condition awaits its first books. From then on
`_subscribe_market_condition` finds nothing pending and returns early
(`subscriptions.py:653-655`). The test's rule passes because it does not stop at the
re-subscription: it also calls `on_instrument_available` for both sides. Recovery after
60 s drains and restores the wire subscriptions of the condition's instruments, so that
books may come after all; `subscribed_instrument_ids` stays as it is. If none come, the
abandonment after 240 s ends the wait (`WaitEnds`). What the code does keep of ownership
is `RefusalIsContained`.

### 6.2 Observations

These were met while modelling. No run checks them, and each is stated with the
place in the code and, where a run can show it, with the change that does.

*Subscriptions.*

* While an instrument of a condition is pending, `_first_book_recovery_due` returns
  before it looks at the clock (`subscriptions.py:1846`). An instrument that the Cache
  does not have, and whose commands the engine keeps refusing, therefore keeps its
  condition waiting without an abandonment, although the comment at
  `subscriptions.py:64-74` calls the 240 s a guarantee. `WaitEnds` without its
  exemption shows it.
* `on_instrument_available` takes the instrument out of the pending set before its
  commands are accepted (`subscriptions.py:800`); when they raise, the phase
  PENDING_INSTRUMENT stays with nothing pending until the next heartbeat, which
  `invariants.py:49-52` calls a violation.
* `unsubscribe_market_instrument` (`subscriptions.py:1195-1209`) purges the pending
  restore of another strategy that owns the instrument, and `on_start` does not
  register again a strategy that `on_stop` removed.
* `handle_market_universe` subscribes again a condition that was suppressed. The
  docstring of `_flush_pending_book_restores` (`subscriptions.py:1545-1548`) counts a
  skipped restore as the anchor of the next retry; a skipped one sets none
  (`subscriptions.py:1515-1516`).

*Outbox and alerts.*

* `complete_daily_report_publish` reads the status of `telegram_publishes` before
  sqlite3 opens the transaction of its UPDATE (`sqlite_store.py:1959-1971`), so between
  two processes a late FAILED may replace SENT. This is what `SentIsNotDowngraded` and
  `ConfirmedPostIsRecorded` excuse (`Disturbed`); without the excuse the run
  `ReportOutboxStalls` shows it.
* `submit` takes a notice for a duplicate of the one in flight although the opposite
  notice is queued between them (`liveness_watchdog.py:139-146`). With Telegram out of
  reach and the runtime flapping, the channel ends on the wrong notice.
  `NoticesAreDelivered` leaves this case out.

*Supervision.*

* The watchdog compares pids, and every heartbeat inherits the data clock and the
  misses of the file, whoever wrote it. The one write that drops them is best effort
  (`runtime_health.py:224-235`, `node_probes.py:151-153`,
  `liveness_watchdog.py:502-504`). When it fails, an earlier boot's evidence ends the
  new one: `FreshBootIsSpared` with `FailingWrites = {"heartbeat"}`.
* `config.py` asks that the breaker's window *comfortably span
  max_restarts_in_window restart cycles*. `config/signal_bot.yaml` sets
  `critical_down_sec` to 1800 and leaves the window at its default of 1800 s. By the
  theorem `NarrowWindowNeverTrips` the breaker then never opens.
* `docker-entrypoint` promises no unbounded kill-recycle; a kill history that cannot
  be read counts as empty.

*Settlement.*

* The rows that a runtime position writes have an empty `side`, and
  `_valid_position_event` drops such rows from `query_report_open_positions`
  (`sqlite_store.py:2780-2785`). After a restart with an empty Cache, a position that
  this program opened is not settled. The model's `rich` rows are the migrated ones,
  and `ResolvedIsSettled` is about positions that the Cache or a rich row shows.
* A netting engine uses a position id again. The key and the id `rr_exit_...` of the
  first episode swallow the second one's exit (`order_events.py:182-184`), and the
  quantity of an exit is the sum over all exit orders of the id (line 194).
  `FirstExitIsReported` is therefore about first episodes. Five cores can enter a
  market again: `ptb_diff`, `late_consensus`, `skew_mean_reversion`, `fibonacci_bot`,
  `one_cent_buy`.
* `_settle_candidate`, unlike `_settle_cache_position`, does not look at exit orders that
  still work (`resolution_settlement.py:327`).
  `DuplicateRecordError` is not among the errors that `record_observability` catches.
  Reconciling at the opening of a store closes the row of a position that was opened
  again. Orders of a native close carry no tags, so their fills are quarantined.

*Rotation.*

* A strategy computes who left from the two universes, so the exits that an event
  lists matter for tearing a condition down only. `on_start` empties a strategy's set
  of active conditions, and the actor's `on_stop` drops a pending replay.

*Trading.*

* Under the defaults `one_cent_buy`, `ninety_nine_cent_sniper` and
  `pre_order_market` never submit an order. `mid_price_sizing` asks for closes
  without a quantity, which are not mapped.
* A view is UNTRADABLE when either side has no ask, which keeps exits of the other
  side back. `_adverse_move` takes a rising ask of DOWN for an adverse move. The
  maximal holding time of 900 s does not pass within a market of five minutes, nor
  before the end of one of fifteen.
* `late_consensus_core.py` wants to *block rapid direction flips within the guard
  window*, and compares with the entry that was accepted last
  (`alpha/types.py:231`). When an answer is more than 20 s late that is not the entry
  sent last: an UP entry is sent at 185 s, a DOWN one at 206 while the first is in
  flight, the first is accepted and filled at 207, and at 214 UP may be entered again,
  eight seconds after DOWN. `EntriesAreSpaced` states what holds: opposite sides are more
  than 20 s apart unless an answer was that late.
* A core may enter while its exit works. A pair that arbitration kept whole may be
  split by the gate. The dedupe does not see orders that are only INITIALIZED.
* Resting entries are cancelled at the retirement of the condition and nowhere else.

*Telemetry.*

* A fill that the strategy reports makes its row FILLED even when it is partial
  (`sqlite_store.py:2347-2411`, whose docstring excludes this). Whether an order that
  is cancelled after a partial fill ends as CANCELED depends on which thread writes
  first. Events of the same microsecond are ordered by a random UUID.
* The counters of health are read and written back from two threads, and start from
  zero in each process, so that a report may call the day's telemetry complete when
  it was not.
* A worker that dies between `_ensure_outbox_worker` and the put strands the job
  until the next signal; with a daily job taken it leaves the day's key behind. A
  report that still fails at midnight is not asked for again.

*Reports and discovery.*

* The truncation flag of the results is computed after unparsable rows were dropped
  (`sources.py:348`). The fallback query has no ORDER BY.
* `_resolved_outcome_from_gamma` and `infer_outcome_tokens` decide sides by index,
  which `market_from_gamma` refuses to do. Two tokens of one side make `token_for`
  raise a KeyError that ends the whole discovery.

*Retention.*

* An archive is not synchronised to disk before its rows are deleted, and a crash
  leaves its `.tmp` file. A mismatch in one table ends the maintenance of all later
  ones. SQLite archives never expire.
* The pattern of rotated names has three digits, so the rotations of a day after
  the 999th are skipped. `jsonl_hot_days = 0` would let an archive be replaced; the
  model assumes `HotDays >= 1`.
* Rows of `report_publish_outbox` are deleted after 90 days whatever their status,
  and a 30-day summary shrinks to the 7 days that are kept. A partial last line makes
  `read_all` raise.

## 7. Plan

Done: the subscriptions, the daily report outbox, the health alerts, the restart
supervision, settlement, market rotation, trading decisions, telemetry and signal
notifications, retention, and the pure parts of reports and discovery; and a
theorem for every safety property that a run checks. What is left, in this order:

1. `SharedBookRecovery`: two strategies over one instrument, with the process-wide
   restore dictionaries and the registration across stop and start.
2. Theorems about the pure functions that are left: that totals and breakdowns of a
   report add up, and that paging reads every event, with `Induction` in place of the
   induction theorems.
3. Strategy promotion and the state files, if they come to be read by the runtime.
