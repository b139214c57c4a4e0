# Market Brain: verification project

Market Brain V4 is a brokerless decision-support service: it watches market data,
builds trade plans, tells the user when to buy, protect and sell, and keeps "twins"
of the positions the user acknowledges. Nothing is executed by the program; what can
go wrong is its bookkeeping, its alerts and its schedule. This directory models those
parts in TLA+, checks them with TLC on small instances and proves most of the safety
properties for every instance with TLAPS.

Paths are relative to the repository; `mb/` stands for `src/market_brain/`.

Contents: [1 Inventory](#1-inventory) · [2 Modules](#2-modules-and-the-code) ·
[3 Runs](#3-runs-bounds-and-what-they-show) · [4 Fairness](#4-fairness-and-scheduling) ·
[5 Proofs](#5-proofs) · [6 Disagreements](#6-disagreements-found) ·
[7 Limits](#7-what-is-not-modelled) · [8 Open ends](#8-open-ends)

## 1 Inventory

| Part | Code | State it keeps | Operations | What must hold |
|---|---|---|---|---|
| Capital ledger | `mb/orchestration/service.py`, `mb/engines/{wallet,activation,plan}.py`, `mb/domain/models.py` | wallet, plans, reservations, position twins | seed, build, trigger, activate, release, sweep, fill, protect, exit, import, reconcile | reserved cash and risk are those of the reservations; limits hold across partial fills; a finished plan stays finished; stops never loosen |
| Event log and replay | `mb/ledger/{events,replay}.py` | append-only events with snapshots | append, `rebuild_state`, `replay_check` | folding the events gives the tables |
| Event stores | `mb/ledger/store.py` | the tables, in memory or in Postgres | transactions, reads, writes | a method is all or nothing |
| Alert dispatch | `mb/alerts/dispatcher.py`, `mb/alerts/sink.py` | the alerts table as an outbox | list, send, mark, retry | at least once, bounded, reported when given up |
| Position monitor | `mb/runtime/position_monitor.py`, `mb/engines/position.py` | cache of positions and plans, last actions, throttles | handle a trade or quote, reload, invalidate | one alert per action and interval, no silence under the stop, the cache converges |
| Intraday retest structure | `mb/engines/intraday.py`, `record_intraday_bar` and `backfill_intraday_structures` of the service | bars, coverage, structure per symbol and session | live bar, backfill, recompute | the structure is the one of the stored bars; a valid retest has evidence |
| Session runner, lease, state branch | `mb/runtime/{session,session_state,state}.py`, `scripts/session_gate.py`, `scripts/session_watchdog.py` | lease, heartbeat, handoff, dump on a git branch | gate, restore, run slots, checkpoint, hand off | one worker, no published outcome lost, every slot accounted for |
| Radar scheduler and batch | `mb/runtime/{radar_scheduler,batch,radar_report}.py`, `mb/orchestration/{screener,universe}.py`, `scripts/batch_gate.py` | status row and events per slot, the loop's `_attempted` | poll, run, catch up, mark missed, record a failed tick | row and events agree; a completed slot stays so; slots without data are caught up, oldest first |
| Stream worker, stale monitor | `mb/runtime/{stream_worker,stream_health}.py`, `mb/providers/alpaca_stream.py` | subscriptions, last message, stale flag | select, synchronise, reconnect, alert on the edge | what is believed subscribed is subscribed; open positions come first; alerts alternate, are true and none is missed |
| Premarket, learning, digest, coverage | `mb/runtime/{premarket,premarket_learning,daily_digest,coverage}.py` | status rows, events, a review and a digest | a checkpoint, mark missed, review, digest | what the digest says of the day is so |
| Providers | `mb/providers/` | none | HTTP calls | failures are typed |
| Engines (quality, volatility, consensus, features, ranking, liquidity) | `mb/engines/` | none | pure arithmetic | bounds and gates |
| API and lifespan | `mb/api/main.py` | the tasks of the process | start, stop, routes | sweep before serving; every task stopped |
| Rehearsal, replay engine, preflight, scripts, web, deployment | `mb/runtime/rehearsal.py`, `mb/replay/`, `mb/ops/`, `scripts/`, `web/`, `docker-compose.yml` | none of their own | offline tools | — |

**Interactions.** The API routes, the position monitor, the radar scheduler and batch
runs call `DecisionService`; its methods run in `store.transaction()`, append events and
save alerts into the same store. The dispatcher task polls that table. Transactions call
the monitor's cache hook before they commit. The stream worker publishes trades and
quotes to NATS; the monitor's two subscriptions consume them one message at a time each.
The monitor's own loop backfills intraday bars while live bars arrive. The stream worker
leaves the time of its last message in `runtime_status`, which the stale monitor of the
API process compares with the clock. The radar slots of a day are run by the API process's
loop or by batch processes; the digest reads the events they leave. The scheduled
session is a chain of workflow runs, each with a database of its own restored from the
`market-state` branch and published back by force push.

**What is hard here.** `activate` awaits market data between its first read and its
transaction. Two handler tasks share the monitor's memory at every await, kept apart by a
throttle of one second and nothing else. No store call has a timeout. The dispatcher can die
between any two awaits. Two transactions compute the same structure from what each can see.
A slot's row is written by its run, by a later run that finds it overdue and by the failure
of a tick that had completed it. A connection can break in the middle of a synchronisation
of subscriptions, a request can be refused unread, and a message can arrive during the check
for silence. Workflow runs die, resume and overlap, and their lease is renewed without being
compared. `PROJECT.json` lists each hazard at its line.

## 2 Modules and the code

An operator whose name ends in `Slip` is never used by the models: it is a mistake the
definition after it could contain, and the property named with it in `PROJECT.json`
("mutants") is violated once the slip takes the definition's place.

### RiskLedger, CapitalPool (with MCRiskLedger, RiskLedgerProofs)

| State | Code |
|---|---|
| `wallet` | `WalletState`: `capital_base`, `cash_available`, `reserved_cash`, `open_risk`, realized loss of the day; `capital = 0` is "no wallet" |
| `plan` | `TradePlan`: status, geometry (`offer`), `expires_at`, `triggered_at` |
| `resv` | `Reservation` rows; `quantity = 0` is "no row" |
| `pos` | `PositionState` twins; `quantity = 0` is "not opened" |
| `inflight` | activations awaiting market data, with the clock value they read first |
| `journal` | what `rebuild_state` folds the events to |

Every service method is one action, because a method is one transaction and a raised
error leaves nothing behind; guards are the method's `ValueError`s. `activate` is two:
`ActivateBegin` (the sweep, the first checks) and one of six endings in the transaction
after the await (`ActivateFails`, `-Expired`, `-AtLimit`, `-Keeps`, `-Evaluates` with
the verdict of the market gates as an input). Each action contains the sweep the method
starts with and the snapshots its events carry (`Journal`). Money is integer, in a unit
in which the averages of an instance are exact, so rounding and the 1e-9 tolerances are
exact comparison.

`CapitalPool` is what is left of the ledger when only claims on cash are looked at: `Found`,
`Release`, `Grant`, `Spend` and, for cash that moves otherwise, `Settle`. The claim of a plan
is the cash of its reservation row, and the closed plans are the FILLED and EXPIRED ones.
`ImplementsPool` is the refinement.

### AlertDispatcher, AlertContract (with MCAlertDispatcher, AlertProofs)

`AlertContract` is what the pipeline promises of one alert: waiting until every sink has
it or it is given up, then settled. `AlertDispatcher` is `dispatch_once` and `deliver`
cut at every await: `ListDue`, `StartDelivery`, `Send`, `MarkDelivered`, `LogDelivered`,
`MarkFailed`, `ReportFailure`, plus `TaskDies`, `Crash`, `Restart` and `Tick`. `row` is
the alerts table, `task` the program counter, `copies` what the sinks received. Time is
relative (`wait`, `age`). `ImplementsContract` is the refinement.

### PositionMonitor (with MCPositionMonitor, MonitorProofs)

The two subscription tasks are `handler["trade"]` and `handler["quote"]`; the stages of
a handler are the awaits of `_handle_position` and `_handle_trigger`. `loop` is
`_cache_loop`, `pending` a service transaction between its hook and its commit
(`BeginChange`, `CommitChange`); `ProtectPosition`, `ImportPosition`, `ReconcileHoldings`
and `PlanAppears` are the methods that do not call the hook. `CacheTaskDies` is an exception
`_cache_loop` does not catch. `ActionFor` is `evaluate_position`, for positions with and
without levels. A message carries its own time: a handler compares and remembers that,
while ticks pass around it (`age`, at most `Slow`). `issued`, `sinceIssued` and `overlapped`
are history: the action of the last saved alert, its age, and the positions both tasks were
at work on at once since.

### IntradayRules, IntradayStructure (with MCIntradayStructure, IntradayProofs)

`IntradayRules` has `compute_structure` (`Recompute`) and `update_intraday_structure`
(`Update`, `Streamed`) as recursive functions over the minutes of a session: `Walk(bars)`
and `Stream(bars)` give the structure before each minute, `RangeOf` and `Established` the
opening range the walk starts from. A stored price is positive, because
`_intraday_bar_record` refuses any other bar (`BarsAssumption`).
`IntradayStructure` is the pipeline around them: a live bar and a backfill are
transactions (`LiveBar`/`WriteFetched`, `ReadRows`, `Compute`, `Commit`) under read
committed, so each reads what was committed before the statement plus its own writes,
and the last to commit wins. A bar carries whether its low touches the VWAP.

### SessionRunner (with MCSessionRunner, SessionProofs)

`run[r]` is a workflow run: stage, its files (lease, heartbeat, handoff), its database
(the status per slot), pending slots, consecutive failures. `branch` is the published
state. `Gate` is `evaluate_session_gate`, `Prepare` is `_prepare_runtime`, `Start` the
beginning of `SessionRunner.run`, `Heartbeat`/`Turn`/`TickReturns`/`TickRaises`/`Finish`
its loop, `HandOff` and `NextJob` the end of phase a and the job of phase b in the same
workflow. Every `Publish` is a checkpoint with its force push. `AfterRadar` is what a
batch run does to the statuses.

### RadarScheduler, SessionDay (with MCSessionDay, DayProofs)

`RadarScheduler` has the radar slots of one day: `rows` is `radar_run:<slot>` of
`runtime_status`, `latest` the last `RADAR_RUN` event of a slot, `run` the run in progress
with its phase (`_run_slot` up to `_persist_result`), `attempted` the loop's `_attempted`.
`Poll`, `PollNothing` and `PollFails` are `run_pending` by what it finds; `Executes` takes
a run one await further; `Crash` and `Restart` are those of the process. The loop sleeps
five seconds after each poll: `watch` says whether it slept as the minute began, in which
case it polls before the minute ends, and whether it has. A run, and the reads of a poll,
may take any time, so that a minute may also find the loop busy, or end while it sleeps
after a catch-up with the minute's own slot untried. The market may
close early, which the calendar of slots knows and the policy's expectation does not.

`SessionDay` extends it by what else happens on the day: `PremarketTick`, `RadarTick` and
`DigestTick` are the three branches of `BatchRuntime.run`, `Ends` and `Raises` its end,
`Refused` a call that fails before its body, `MarkMissed` the session runner's
`_mark_missed`, `RecordFailure` its `_record_tick_failure`. `SessionStatus` is
`coverage_for_events`, `Evaluation` the digest's reading of the predictions, `Reviewed` the
learning review. A day is driven by the loop or by batch calls (`driver`), never by both.
The composition with `SessionRunner` is by the statuses: its `AfterRadar` is what `RadarTick`
and the run after it do to the rows.

### MarketStream (with MCMarketStream, StreamProofs)

The stream worker, the provider and the stale monitor. `phase` is the worker's await:
`ReadPositions`, `ReadPlans`, `Subscribe` and `Unsubscribe` are `_sync_subscriptions` with
the selection under the cap, `Connect`, `RefreshDue`, `GoneSilent`, `Disconnect` and `Wake`
the loop of `run` with its delay, `Die` the process; `server` is what the provider streams,
`shown` what the status row says. A request is only sent: one that asks for more than the
plan's `Limit` may be refused (`refused`, history of the connection), and the worker, which
drops the reply, believes in it all the same. `Check` and `Announce` are the read and the
transaction of `StreamStaleMonitor.check`, between which a message may arrive; `flag` is its
row, which survives the night. Positions and plans change at any moment.

## 3 Runs, bounds and what they show

Each bound of a model is a constant declared as "bound of the model".

| Run | Instance | Shows |
|---|---|---|
| `ledger` | 2 plans, 2 twins, cash for the 3 shares of one plan and one of the other, fills without, at and above a break-even stop, an import, exits, raised stops, 2 activations in flight, 3 clock values (765 thousand states) | books, limits, protection and the event log under every order of the operations; decisions made with an old clock never double-book capacity or revive a plan; refinement of the pool of claims |
| `fill_accounting` | 1 plan, 1 twin | violation, see section 6 |
| `alerts` | an urgent and an ordinary alert, 2 sinks, 3 attempts with backoffs 1 and 2, one crash | refinement of the contract, accounting of duplicates, backoff, settlement |
| `monitor` | 1 position, 2 tasks, store calls of up to 2 ticks against a throttle of 2 and a repeat interval of 3, one failing call, 1 user transaction (a million states) | the throttle separates the messages two tasks are at work with; an alert is saved again early only after such an overlap; a position under its stop is alerted again and again while no store call fails |
| `monitor_cache` | 1 position with or without levels, 1 plan, one failing call, 2 new plans or user transactions (465 thousand states) | the cache of positions and plans converges, or its task has died of the failure |
| `monitor_lost_alert` | one failing store call | violation, see section 6 |
| `intraday` | 4 minutes, 1 of them the opening range, live bars missing, repeated and corrected by a backfill | structure follows the bars; evidence; both algorithms agree |
| `intraday_race` | 2 minutes, one bar, one backfill | violation, see section 6 |
| `session` | 3 interchangeable runs, 4 slots in two phases, slots that outlive the lease, crashes anywhere | one worker, no outcome lost, day accounted for |
| `session_resume` | 2 runs, 3 slots | violation, see section 6 |
| `day` | 3 slots (any of them after an early close), 2 checkpoints, 3 symbols of which one may be missing, one planned candidate per run, one failing tick, crashes anywhere (590 thousand states) | rows and events agree, completed work is kept, slots without data are tried oldest first, the digest is honest |
| `stream` | 2 symbols and room for 1, both thresholds 1 unit, delays up to 2, 2 sessions, 2 changes of the tables, one failing call, disconnections at any await, a provider that may refuse a second symbol (915 thousand states) | subscriptions are what they seem and open positions come to be streamed unless the provider refused a request; alarms are true, alternate and are not missed |

Why these bounds are enough to be interesting:

* Ledger. Two plans compete for cash that covers one and a part, so every clamp and limit
  is met; two twins with `max_concurrent_positions` 1 reach the limit with fills and with
  imports; four shares allow two partial fills, an exit between them and a remainder.
  The limits are the percentages of `config/02-RISK_ENVELOPE.json`. Prices differ by a
  multiple of every share count that divides them, so averages are integers. An
  untriggered plan is due at the next tick, together with its reservation if it has one; a
  trigger hit moves the plan's deadline a tick on, so its reservation lapses first and may
  be taken again before the plan expires too. The wallet is seeded once here; the theorems
  of section 5 hold for every number of seedings and remove the other bounds for all eleven
  properties.
* Alerts. Two alerts show the priority order and the batch; two sinks a partial
  delivery; three attempts use two different backoffs and the last attempt.
* Monitor. All state is per position, so one position shows what two tasks do to it. Throttle
  and repeat interval are told apart (2 and 3 ticks), and a store call may outlast the first
  (`Slow` 2), which is where two tasks meet. Two transactions, in `monitor_cache`, open a
  position and change or close it under the cache, or let a plan appear beside it; there, how
  long a call takes plays no part (`Slow` 0).
* Intraday. One minute of opening range leaves three for the cycle of breakout, retest,
  rearming and invalidation; the prices include one on every boundary: a close on the high, a
  touch at the tolerance, an empty range. A window of one minute expires within them.
* Session. Two runs can overlap and a third can find a state left by both. The lease (2)
  is shorter than the longest slot (3), as 25 minutes may be for a slow radar slot.
* Day. Three slots let an unavailable slot be caught up at a later one while a third is
  still to come; two checkpoints are the earlier and the final one; SPY, one symbol that may
  be missing and one too many tell the cases of the fail-closed collection apart. A unit of
  time is the minute of a slot, or the nine minutes to the next.
* Stream. One place for two symbols makes every position compete with the watchlist. The
  plan's limit is the cap, as for the default of 30 on the free plan, so that every exchange of
  symbols exceeds it. The night is long enough for a flag, a silence and a delay to
  reach into the second session.

Runs that say `CHECK_DEADLOCK FALSE` are bounded by their clock or budgets and stop there;
liveness runs have explicit fairness and infinite behaviours of idling.

## 4 Fairness and scheduling

* `AlertDispatcher!FairSpec`: weak fairness of the task's own steps, of time and of
  `Restart`. The task is a plain loop that nothing else blocks; the container restarts
  (`docker-compose.yml`, `restart: unless-stopped`). Neither a successful send nor the
  survival of the task is assumed: `task = "dead"` is an outcome of `EventuallySettled`,
  since nothing watches the task.
* `PositionMonitor!FairSpec`: weak fairness of the handlers' steps, the cache task while it
  lives, commits and time; strong fairness of receiving a trade: the symbol keeps trading. A
  store call returns in the end, in any time the bound `Slow` allows, or fails. That the cache
  task survives is not assumed: an exception it does not catch ends it (`CacheTaskDies`), and
  `CacheConverges` has this as an outcome. No assumption about prices or the user.
* `SessionRunner` has no fairness; it is urgent instead: `Tick` waits while a loop has
  something due, because the loop does not sleep then, and a slot ends within `MaxTick`.
  The assumption `s + Grace + MaxTick < End` is the calendar: the last slot, its grace
  and a slot's run time end before the session does (15:50, 10 minutes, 16:35). A slot
  takes some time (`MaxTick >= 1`), so one that was just started is not urgent.
* `RadarScheduler` and `SessionDay` have no fairness. Their one urgency is the loop's sleep,
  which is shorter than a minute (`radar_poll_seconds`, 5): a loop that sleeps as a minute
  begins polls before it ends. Nothing bounds a run, a poll's reads or a batch call, and no
  call is assumed to come: the gate refuses runs from 16:35, the watchdog stops at 16:20, and
  so a slot whose process died may keep its STARTED row for good.
* `MarketStream!FairSpec`: weak fairness of the worker's own steps (a connection attempt is
  answered or fails, a container that died is started again: `restart: unless-stopped`),
  of the monitor's check and of time. No assumption about connections staying up,
  messages arriving or requests being honoured when they exceed the plan's limit.
* `RiskLedger` and `IntradayStructure` are checked for safety only and assume nothing.

## 5 Proofs

`RiskLedgerProofs` proves thirteen theorems for any finite sets of plans and slots, any
offers, requests and limits that satisfy the named assumptions of `RiskLedger`, any
clock and any number of activations in flight. The assumptions are what the code
checks at its boundary: positive prices and quantities, a stop below the trigger, a
quality multiplier of at most one.

| Theorem | Argument |
|---|---|
| `TypeCorrect` | `TypeOK` is inductive: it includes that subtractions clamp or are guarded |
| `ReservationsMatch` | `PlanInv`: a released row is blank and an activation's clock value is not in the future. Without the former a stale expiry would count in a second release, without the latter an activation could find a plan expired before it was |
| `TerminalStays` | action property from `PlanInv`, one lemma per operation (`PlanProgress`) |
| `ReplayAgrees` | the snapshots of every action cover the rows it changes (`ReplayCovers`); needs `PlanInv` since `ActivateExpired` logs before its last write |
| `StopsNeverLoosen` | action property: a fill's stop is checked against the twin's, an import needs an empty slot |
| `OneTwinPerPlan`, `FillsBounded`, `ProtectionHolds` | together as `TwinInv`: remaining shares never exceed the quantity, an open twin is the only one of its plan, filled twins are counted by cardinality |
| `CashBacked` | `CashInv`: the sum of the held cash over the plans is the wallet's, each row is priced at its plan's zone and nothing is held before the first seed. A release takes one summand out of the sum, which the clamp at zero must not hide: that is where equality with the sum, not an inequality, is needed |
| `CapacityGranted` | action property: only an activation makes a reservation larger (`OnlyActivationReserves`), and what `size_from_wallet` returns fits (`SizeWithinLimits`): its quotients round down, so quantity times divisor stays within what was divided, and a multiplier of at most 100 percent never enlarges the day's share |
| `FillsWithinLimits` | `LimitInv`: a filled twin's plan was issued, which fixes its offer (`OffersKept`), only a seed changes the capital (`CapitalKept`), and an unused slot has no stop for a first fill to inherit. A fill establishes the limits by its checks, everything later keeps quantity and average price and only raises the stop, which books no more risk (`RiskFalls`) |
| `LedgerImplementsPool` | the refinement, from `CashInv`: each step is a step of `CapitalPool` or a stutter (`PoolStep`). Sweep, releases and lapses are `Release` with the plans that close by it (`ReleaseInPool`). A reservation is `Grant`: that all claims then fit the cash joins `CapacityGranted`'s bound on `reserved_cash` with its equality to the sum of the rows. A fill is `Spend`: prices are positive, so the claim shrinks and is empty exactly when the plan is FILLED |
| `OnlyRiskBreaksTheBooks` | what remains true of the assertion of finding 1: from `CashInv`, while the wallet is seeded once, an accepted fill finds `reserved_cash` and `cash_available` sufficient, because what is reserved is the sum of all rows, the filled plan's and those the sweep leaves among them (`SweepBacked`). Only `open_risk` can fail |

`SessionProofs` proves every property that the run `session` checks, for any finite or
infinite set of workflow runs, any calendar of slots and any lease, heartbeat, grace and
failure limit that satisfy `SessionAssumption`:

| Theorem | Argument |
|---|---|
| `SessionTypeCorrect` | `TypeOK` is inductive. `PublishFacts` says once what a checkpoint does; every handler that ends in one only has to show the process it publishes |
| `OneWorkerOnly` | `Alone`: two runs past the gate are the same run. Only `Gate` makes a worker, and it asks whether any other run is active, queued ones included; the lease plays no part, so its expiry during a slot does no harm |
| `OutcomesStay` | action property from `KeptInv`: for a run that may publish, outcomes on the branch are in its files and those in its files are in its database, so neither a full nor a light publication can lose one. That other runs have nothing stale to publish is `Alone` |
| `DayIsAccounted` | `DayInv`: a run of phase b that is past the end has marked every slot, because `Tick` waits for the loop and, for the slot that runs over the end, because every other slot was due when it started (`s + Grace + MaxTick < End`). The outcomes then stay by `KeptInv` |

`AlertProofs`, for any finite nonempty set of alerts, any number of sinks and attempts, any
backoffs and batch size. Its inductive invariant `Shape` adds to `TypeOK` what the
dispatcher knows at each await (`StageOK`: the row it listed is still due and unchanged,
the sinks before this one have their copy) and that listed alerts stay due (`BatchOK`):

| Theorem | Argument |
|---|---|
| `AlertTypeCorrect` | from `Shape` |
| `DuplicatesAccounted` | `CopyOK`: sink by sink, the copies beyond the attempts are those of rounds cut off by a crash, plus one while the round in progress has passed the sink and has not counted yet |
| `FailureIsReportedOnce` | `FailOK`: an alert in delivery has not been reported, because a report ends its being due |
| `BackoffRespected` | action property: only what is due is sent, and `BatchOK` keeps it due until then |
| `DispatcherImplementsContract` | the refinement: initial states map to those of `AlertContract`, and each step is a step of the contract for the alert in delivery or a stutter; the step that settles an alert needs `StageOK` (every sink has it when the row is marked) |

`DayProofs`, for any number of slots above one, any universe, checkpoints and failed ticks:

| Theorem | Argument |
|---|---|
| `DayTypeCorrect` | `TypeOK` with the run in progress on a STARTED slot of the day is inductive |
| `RowsAndEventsAgree` | one lemma says what any step does to one slot (`SlotStep`), one for a checkpoint (`CheckStep`) |
| `CompletedWorkKept` | action property from the same two lemmas |
| `DigestTellsTheTruth` | from `EventsAgree`: what the digest counts in the events is what the rows say |
| `OldestSlotFirst` | `Ordered`: of the slots tried in this minute none is younger than an unavailable one that was not, because a poll takes the oldest (`PollInOrder`) and only the run in progress can make a slot unavailable, which was tried in this minute or runs since before it |

`StreamProofs`, for any symbols, watchlist, cap, thresholds and calendar:

| Theorem | Argument |
|---|---|
| `StreamTypeCorrect` | the three parts of `Shape`; that the cap bounds what is kept needs the cardinality of the selection |
| `SubscriptionsAreTrue` | `SyncOK`: between subscribe and unsubscribe the provider streams what was kept and what is new, or less if it refused a request of this connection |
| `RoomForBoth` | with a plan of twice the cap nothing is refused, because what a synchronisation asks for lies in the union of two selections (`AskedFits`) |
| `SilenceIsNoticed`, `AlarmsAreTrue` | `Sound`: the flag is what the last alert said, of its day, and what a check found but has not announced contradicts the flag; a message that arrives in between excuses it |

`MonitorProofs`, for any positions, plans, prices and intervals, any failing store calls and
user transactions:

| Theorem | Argument |
|---|---|
| `MonitorTypeCorrect` | `Shape`: `TypeOK` with whole handler records and the open transaction |
| `ThrottleKeepsApart` | `Timed`, part of `Accurate`: a message at work is never newer than the last evaluation of its position, which the handler stamps with it. The second of two messages at work on one position passed the throttle against that stamp, so their times differ by the throttle, however long their store calls take |
| `AlertsRepeatEarlyOnlyByOverlap` | from `Accurate`: while no two tasks have been at work on a position since its last undisturbed alert (`Apart`), what a task compared with still holds when it saves (`AtWork`), and the memory of the last action and alert agrees with the alerts saved (`Remembered`) |
| `OnlyFailuresLoseAlerts` | the converse of finding 2: until a store call fails, each remembered action of a position that was not overlapped, if it calls for an alert, has had it or a task is about to save it (`NoAlertLost`). By `AtWork`, what is saved is what is remembered at that moment |
| `OnlyFailuresSilence` | and for every position, overlapped or not: until a store call fails, a remembered action that repeats has an alert to repeat, or a task is about to save one (`NoneSilenced`); an overlap can double an alert, it cannot lose one for good |

`IntradayProofs`, for any session length, opening range, window, widths, stored bars,
backfills and fetches:

| Theorem | Argument |
|---|---|
| `IntradayTypeCorrect` | `Bounds` on the rows and the clock, and `RecomputeForm`: whatever the bars are, `Recompute` returns one of the records `Forms` (a breakout is a minute with a bar after the opening range, its retest a later one, nothing is in the future) |
| `RetestIsSound` | `Evidence`: after every bar a structure with a breakout has bars that show it, one that closes above the opening high after one that does not, none since that fell through the buffer, and for a retest one that touches within the window; a stored structure is a value of `Recompute` (`Forms` alone would not do, since a structure could claim any minute) |
| `StreamingAgrees` | a simulation of `Walk` by `Stream` on tapes without a missing bar in the opening range: one argument up to the end of the range (`Opened`: the running maximum and minimum are those of the bars seen), one after it (`Alike`: equal until the walk stops at INVALID, where the streamed structure only moves its last minute) |
| `StructureOfStoredBars` | a transaction that missed no commit knows the rows it will leave (`Knows`), and the coverage a live bar reads later is still the one that belongs to them; what `Recompute` does with them plays no part |
| `OnlyOverlapDisarms` | the converse of finding 3: a structure stored without an overlap never calls a full opening range confirmed empty; by `StructureOfStoredBars` it is computed from the stored bars, and no bar after the range gives that reason (`StepKeepsNonempty`, induction in `FullRangeNotEmpty`) |

`Foundations` holds what these proofs share. The induction theorems of the library take
operators as parameters, which the installed provers cannot instantiate, so induction is
stated for sets here: a collection that has a subset of a finite set whenever it has the
proper subsets of that one has them all (`SubsetInduction`), a set of numbers that has the
first of an interval and with each the next has the interval (`IntervalInduction`). From the latter,
a recursive function over an interval exists and satisfies its equation
(`IntervalRecursion`), which the proofs about `Walk` and `Stream` start from. The rest are
the greatest and the least number of a finite set, and the community module's sum of a
function on a finite set (empty, one element, split, one changed summand).

**Only model-checked.** The four properties of section 6, which are false, and liveness
(`EventuallySettled`, `CacheConverges`, `SellNowRepeats`, `PositionsWatched`), which the
prover does not reach: fairness needs ENABLED. Every
invariant, action property and refinement of a passing run has a theorem.
`OneTwinPerPlan` is proved and used, and not a property of a run; nor are the formulas of
`OnlyRiskBreaksTheBooks`, `OnlyFailuresLoseAlerts`, `OnlyFailuresSilence`,
`OnlyOverlapDisarms` and `RoomForBoth`, which bound what section 6 describes.

## 6 Disagreements found

Each is a run that ends in a violation and a finding in `PROJECT.json`.

1. **A legal fill can trip the accounting assertion** (`fill_accounting`,
   `mb/orchestration/service.py:1563`). After a partial fill and a partial exit, the next
   fill subtracts the old risk on the whole quantity although the exit already gave a
   part back; `open_risk` goes below zero and the method raises `RuntimeError`. With one seed
   the two cash terms of the assertion cannot fail (`OnlyRiskBreaksTheBooks`).
2. **A failed save of an alert silences a position** (`monitor_lost_alert`,
   `mb/runtime/position_monitor.py:227`). The action is remembered before the alert is
   saved, so it does not count as new any more, and there is no earlier alert to repeat.
   Nothing but a failed store call does that (`OnlyFailuresSilence`).
3. **A backfill's armed structure is overwritten** (`intraday_race`,
   `mb/orchestration/service.py:570`). The live bar reads bars and coverage in two
   statements; a backfill between them makes a complete opening range look empty. Without
   an overlap it cannot (`OnlyOverlapDisarms`).
4. **A resumed phase b is refused** (`session_resume`, `mb/runtime/session.py:749`). The
   handoff file keeps the checksum of phase a's dump after phase b published its own.

Further observations, which the models contain and no run counts as a violation:

* **A slow store call doubles an alert** (`mb/runtime/position_monitor.py:190`). Trades and
  quotes are handled by two tasks that only the throttle of one second keeps off the same
  position. When a store call takes longer, the other task finds the action not yet remembered
  and saves the same alert again. It takes such an overlap (`AlertsRepeatEarlyOnlyByOverlap`).
* **One database error ends the cache task** (`mb/runtime/position_monitor.py:129`). The loop
  catches OSError, RuntimeError and ValueError, of which asyncpg's errors are none; `run` keeps
  the subscriptions and never looks at the task again. A position opened later is not
  monitored; `CacheConverges` has this as an outcome.
* **The current slot can be passed over** (`mb/runtime/radar_scheduler.py:651`). A catch-up goes
  before the slot of the minute and has no time limit; when it and the sleep after it outlast
  the minute, that slot has no row, and only rows that say DATA_UNAVAILABLE are caught up.
  `OldestFirst` therefore says that some slot was tried in the minute, not its own.
* **At the cap the worker asks for more than the plan allows**
  (`mb/runtime/stream_worker.py:108`). It subscribes before it unsubscribes, does not read the
  reply and believes what it sent, so a refused position is not streamed until the connection
  breaks (`refused` in `SubscriptionsTrue` and `PositionsWatched`). A plan with room for two
  selections cannot refuse anything (`RoomForBoth`).
* After a fill above the entry zone's upper price, `reserved_cash` may exceed
  `cash_available` until the rest is filled or released; `ReserveWithinCapacity` is
  therefore about the granting transaction.
* When appending `ALERT_DELIVERED` fails, a delivered alert counts a failed attempt and
  may be reported as failed.
* `docs/01-V4_SOURCE_OF_TRUTH.md:181` calls a failed breakout terminal; a confirmed bar
  that replaces the failing one revives the structure, since everything is recomputed.
* The two structure algorithms differ on gaps in the opening range and on a range of
  width zero; `StreamAgrees` excludes both.
* A slot that completed and then raised (writing `latest.json`, dispatching) becomes
  FAILED by `_record_tick_failure` and MISSED by the next batch run; a slot that ended
  FAILED or DATA_UNAVAILABLE is overwritten MISSED by a later one.
* The lease decides nothing that the list of active workflow runs has not decided; the
  mutual exclusion of `OneWorker` rests on that list alone.
* `batch._run_radar` marks older due slots MISSED whatever they are but COMPLETED; the session's
  `_mark_missed` keeps a FAILED or DATA_UNAVAILABLE outcome. In the API
  process neither is called. A STARTED row left by a crash stays unless one of them still
  comes, which no one ensures: the gate refuses runs from 16:35, the watchdog stops at 16:20.
* Expected slots ignore an early close, so such a day is never COMPLETE. Nor is a day of the
  API process, where premarket never runs (its evaluation is NO_PREMARKET_DATA) and where
  the digest is created in the minute 16:15 or not at all, without a learning review.
* `premarket.run` treats only COMPLETED as final: called again after the open, any other outcome
  becomes MISSED_AFTER_OPEN.
* The loop of `RadarScheduler.run` survives RuntimeError, ValueError and OSError only
  (`PollFails(caught)`), and so does the stale monitor's (`CheckFails(caught)`).
* `stream_connected` stays true after the worker's process dies, and acknowledgements of
  subscriptions refresh `stream_last_message_at`: a stream that is reconnected again and again
  without market data does not look stale.

## 7 What is not modelled

* In the ledger: `reconcile_wallet` (no caller), take-profit levels and time stops, wallet
  version and timestamps, the alerts queued by methods, the status CANCELLED (never set).
  `reconcile_holdings` is modelled where its flag is read, in `PositionMonitor`.
* Postgres transactions on the wallet row that interleave inside a method, and the in-memory
  store's missing rollback: `RiskLedger` makes a method atomic, which its theorems assume.
* Activation gates and the sizing of quality: sequential arithmetic over one snapshot; the
  verdict is an input of `ActivateEvaluates`.
* In the monitor: the reconnect loop, running VWAP sums, several symbols (they share
  no state). The monitor's backfill loop is the writer of `IntradayStructure`. A store call
  that never returns would be a handler that never goes on; fairness excludes it where
  liveness is checked, safety does not.
* In the session runner: the wait phase, the minute budget, forced gates, files left from
  an earlier session, the watchdog, `quality.csv`, snapshot retention. Premarket and digest
  ticks are in `SessionDay`, not in `SessionRunner`.
* In the day: the weekly mode and CSV reports (files only), the batch gate script, scores,
  news and the delta of a checkpoint to an earlier one, the text and the plain counters of the
  digest. A poll is one step up to the row it writes first, and `NewDigest` reads the events and
  writes the digest in one: a slot that ended between the two would be missing from the digest
  of a script run beside the loop, whose truth is that of the events it read.
* In the stream: the contents of messages and their publication on NATS; authentication,
  which waits without a timeout, is part of `Connect`. Requests within the plan's limit are
  honoured; what a refused one leaves subscribed is what was.
* Market arithmetic: quality scoring, features, ranking, volatility, consensus, liquidity.
  Verdicts are inputs of the models. The offline replay engine, rehearsal and
  preflight share no state with the service.
* Providers, sinks and the NATS client are I/O; their outcomes are choices of the step
  that calls them.

## 8 Open ends

What a next step could add, the most consequential first:

1. Two read-committed transactions of the ledger that each read the wallet row and write it
   back, and the in-memory store without rollback; which invariants of `RiskLedger` survive.
2. Risk in `CapitalPool`: fills, stops and exits rebook it with clamps, so a claim on risk
   has no exact counterpart in `open_risk`.
3. `SessionRunner` with forced gates, the wait phase and the minute budget, composed with
   `SessionDay` action by action instead of by the statuses.
