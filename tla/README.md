# Verification of lead-lag-arb

TLA+ models of the trading core of `lead-lag-arb`: what the risk gate admits, how a
position is opened, watched and left, and what the order executor may report when the
network loses answers. The modules are translated from the Rust sources under `crates/`
(all paths below are relative to the repository, `file.rs:line` points into it), checked by
TLC on small instances; all safety properties, the refinements among them, are also proved by
TLAPS for every value of the constants.

Contents: [the system](#1-the-system), [modules](#2-modules), [runs](#3-runs),
[fairness](#4-fairness), [proofs](#5-proofs), [findings](#6-findings),
[what is not modelled](#7-what-is-not-modelled), [plan](#8-plan).

## 1. The system

The program follows a fast exchange (Binance) and trades a slow one (LBank) on the spread
between the two. One process, tokio tasks and plain threads sharing structures behind
`parking_lot` locks, HTTP and web sockets to the outside. The flow of a trade:

    md-gateway / lbank ws --> orderbook --> signal-engine --> risk-gate --> order executor
                                                                  ^              |
    symbol-selector (which symbol)                                |              v
    clock-sync (offset of timestamps)      record_position_* <----+---- execution engine
                                                                           ^ position monitor

### Parts, their state and their operations

| Part (crate or file) | State | Operations | Interacts by |
|---|---|---|---|
| circuit breaker (`risk-gate/circuit_breaker.rs`) | `state`, `consecutive_losses`, `opened_at`, a lock each | `check`, `record_loss`, `record_win`, `reset` | called by the gate, from any thread |
| risk gate (`risk-gate/gate.rs`) | configuration (`ArcSwap`), cooldowns, API quota | `check`, `record_position_open`, `record_position_close`, `update_config`, `reset_circuit_breaker` | holds breaker and tracker; the trader calls `check`, orders, and only then records |
| position tracker (`risk-gate/position.rs`) | one position per symbol | `add`, `remove`, `update`, `active_count`, `total_exposure` | used by the gate |
| order executor (`execution/order_executor.rs`) | none of its own: the call's locals | `open_position`, `close_position_method1`, `stop_loss`, `force_close` | HTTP calls of the LBank client |
| execution engine (`execution/state_machine.rs`) | tracked positions, event channel of 100 | `open_position`, `update_position`, `update_pnl`, `record_exit`, `close_position`, two scans | events by `try_send`; scanned by the monitor |
| position monitor (`execution/monitor.rs`) | current spread, shutdown signal | `run`, `check_positions`, `update_spread` | a task beside the traders |
| LBank client (`exchange-adapter-lbank/client.rs`) | HTTP client with timeouts | orders, cancels, queries | requests that may be lost or late |
| LBank order manager (`.../orders.rs`) | tracked orders | `submit_*`, `handle_order_update`, `cancel_order`, `cleanup_old_orders` | HTTP answers and the order stream write the same orders |
| LBank web socket and market data (`.../ws.rs`, `.../market.rs`) | caches, command channel | `run_ws_loop`, `subscribe_*`, `shutdown` | reconnects; feeds caches and order events |
| market data gateway (`md-gateway`) | connection state, subscriptions, reconnect count | `run_gateway`, `subscribe`, `unsubscribe`, `shutdown`, `route` | events to a channel; the router (`router.rs`) is a table of handlers beside it |
| order book (`orderbook`) | two sorted sides, sequence id | `from_snapshot`, `apply_diff`, `update_*`, aggregates | snapshots and diffs of a feed, of which no crate calls `apply_diff` yet |
| signal engine (`signal-engine`) | spread history, cooldown, state | direction, filter chain, signal | reads books, gives a signal |
| symbol pools (`symbol-selector/pool.rs`, `selector.rs`) | active set, rotating deque, position, exclusions | `add_active`, `remove_active`, `set_rotating_symbols`, `rotate`, `select` | a rotation task beside the callers |
| symbol funnel (`symbol-selector/funnel.rs`, `runner.rs`) | intersection, quality and target pools, rate window | `update_*`, `select_target`, `acquire_batch`, refresh tasks | three tasks at three periods, consumed by the live trader |
| clock synchroniser (`clock-sync`) | offset, round trips, state | `sync`, `update_offset`, conversions | HTTP time requests |
| live trader (`apps/live-trader`) | the loop over the current target | start, target loop, shutdown | wires the parts together; its order calls are comments |

The remaining crates (Binance adapter, configuration, fees, persistence, metrics, the LBank
wire formats and signatures) keep no state that a decision reads.

### Where it is hard, and what makes it correct

* **Check, then act.** `check` and `record_position_open` are two calls and nothing is
  reserved between them; `check` itself reads six structures under six locks. *Correct* when
  limits are overshot at most by what is under way, and no entry is admitted against a ground
  of refusal that stood during the whole check.
* **Three fields, three locks.** The breaker's fields are written one by one. *Correct* when a
  counted trip is not lost, a pause ends, and no call waits for ever.
* **Scan, then write.** The monitor scans under a read lock and records each exit under a write
  lock of its own. *Correct* when a decision that has grown stale does not weaken a stronger one,
  and what is overdue leaves.
* **A request whose answer does not come.** The executor awaits one HTTP request after the
  other; each may be executed without an answer, or later than its timeout. *Correct* when a
  reported close left nothing, a GTC order is left behind only where the caller could not know
  of it, and a failure is reported falsely only for want of an answer.
* **Two sources of truth** for an order: its HTTP answers and the order stream write the same
  entry, in whatever order they come. *Correct* when an order open at the exchange is never
  dropped from the list, no fill is told that did not happen, and what is tracked is what the
  exchange holds once nothing is under way.
* **A socket and three queues.** The socket's loop, the converting task and the reader are joined
  by bounded channels whose sends are awaited, and the connection breaks in between. *Correct* when
  the reader sees what the exchange sent, once and in order, and is told of each break where it
  happened; when nobody waits for ever; when the loop gives up after failures in a row only.
* **Reconnects** have to restore subscriptions. *Correct* when the reader believes subscribed whatever
  the exchange serves, and what he believes is served unless it could not be sent, was to be
  unsubscribed, or was refused.
* **Diffs and snapshots** of a book that overtake or repeat each other. *Correct* when the book is the
  exchange's; the code compares no sequence ids, so the most it can promise is that a message that comes
  late spoils no more than the levels it speaks of.
* **Query answers** that hold entries of other symbols and unreadable ones. *Correct* when the book shows
  one whole answer as the exchange means it.
* **Two books under two locks** give one spread. *Correct* when its prices stood together, and a
  signal pays at them.
* **Pools changed by several tasks**, a field and a lock at a time. *Correct* when a traded symbol
  stays out of the rotation, everything listed gets its turn, and target, alternatives and the
  symbol traded agree when nobody writes.
* **A clock that ticks while a caller waits for a lock.** *Correct* when the permits of a second fit
  its limit for those who came in time.

`PROJECT.json` lists each of these at its line under `hazards`, with the property that
would notice it, or a note that says why none does.

## 2. Modules

| Module | Models | Uses |
|---|---|---|
| `CircuitBreaker` | `circuit_breaker.rs`, lock by lock | |
| `RiskGate` | `gate.rs` and `position.rs` as the gate uses it | `EXTENDS CircuitBreaker`, the traders as its threads |
| `OrderExecutor` | `order_executor.rs` with the order calls of `client.rs`, the network and an external exchange | |
| `ExecutionEngine` | `state_machine.rs`: the positions, their operations, the scans as operators | |
| `PositionMonitor` | `monitor.rs` beside the threads that trade | `EXTENDS ExecutionEngine` |
| `OrderManager` | `orders.rs` with an external exchange, its order stream and HTTP requests that may be lost | |
| `LbankStream` | `ws.rs`, the converting task of `market.rs`, callers and a reader | implements `Feed` |
| `Gateway` | `connection.rs`, an exchange that may refuse, a reader | implements `Feed` |
| `Feed` | abstract: what a market feed promises its reader | |
| `SymbolPools` | `pool.rs`, `selector.rs` | |
| `SymbolFunnel` | `funnel.rs`, `runner.rs`, the live trader's start and loop, the leverage calls of `client.rs` | |
| `RateLimiter` | the rate limiter of `funnel.rs` | |
| `OrderBook` | `book.rs`, `diff.rs`: pure operators | |
| `BookFeed` | a book under `from_snapshot` and `apply_diff`, with an external exchange and delivery | `EXTENDS OrderBook` |
| `DepthQuery` | `get_order_book` (`client.rs`), `get_order_book_snapshot` (`market.rs`): pure operators | `EXTENDS OrderBook` |
| `EntrySignal` | `context.rs`, `filters.rs`, `signal.rs` over the two books | `EXTENDS BookFeed, DepthQuery` |
| `MC...` | the constants of the runs | the module of that name |
| `RiskGateProofs` | theorems about breaker and gate | `EXTENDS RiskGate, TLAPS` |
| `ExecutionProofs` | theorems about executor and monitor | `EXTENDS OrderExecutor, PositionMonitor, TLAPS` |
| `SymbolFunnelProofs` | theorems about funnel and limiter | `EXTENDS SymbolFunnel, RateLimiter, TLAPS` |
| `OrderManagerProofs`, `LbankStreamProofs`, `GatewayProofs`, `SymbolPoolsProofs`, `EntrySignalProofs` | theorems | the module of that name and `TLAPS` |

Some modules prefix the names of their initial predicate, step and specification
(`BreakerSpec`, `MonitorSpec`, `LimiterSpec`, `FeedSpec`) because a module extends them together with another.

An operator preceded by "Mutant:" is no part of a specification. It is a changed form of the
definition after it, a mistake one could make in that code, and it is kept to show that the
property it is listed with in `PROJECT.json` notices the mistake.

### CircuitBreaker

`state`, `losses`, `openedAt` are the three fields. A statement that takes and drops a lock is
one step; the guards that outlive a statement are variables: `lossesLock` (`record_loss` and
`record_win` keep the write guard to the end of the function) and `stampReaders` (`check` keeps
the read guard of `opened_at` while it writes `state`). `pc[t]` is the place of thread `t` in its
call (`Traders`: the threads that trade are the ones that call); an operation of the code is the chain of actions between "idle" and "idle":

| Code | Actions |
|---|---|
| `check` | `CheckAllows`, or `CheckReadsOpen` then `CheckDenies`, or `CheckFindsPauseElapsed` then `CheckHalfOpens` |
| `record_loss` | `LossCounts`, then `LossWarns`, or `LossTrips`, `LossReadsClock`, `LossStamps` |
| `record_win` | `WinClearsLosses`, `WinNormalises` |
| `reset` | `ResetNormalises`, `ResetClearsLosses`, `ResetClearsStamp` |

Instants are ages that stop at `Pause`, since the only question asked of one is whether the
pause has elapsed. `stamp[t]` is the `Instant::now()` that `record_loss` evaluates before it has
the lock to store it under. The counter stops at `Threshold`, the only number it is compared with, and
losses go on for ever: each one past the threshold trips and stamps again, as in the code.

### RiskGate

`check` is `Enter`, `CheckBreaker` (one breaker step at a time), `CheckCooldown`,
`CheckConcurrentPositions`, `CheckPositionLimit` and `CheckTotalExposure`, each pushing a result;
none of them ends the call early, and the caller asks `all_passed` after the last. The
configuration is loaded once, at entry (`loaded`). `record_position_close` of a stop-loss is
`RecordStopLossClose` (the entry goes), `SetCooldown`, and the steps of the breaker's
`record_loss`, with other traders in between. A position keeps its notional, the only field a
check reads; an entry of the same symbol is replaced, as `HashMap::insert` does. Deadlines of
cooldowns are ticks that remain. `barred` is a history variable: `barred[t]` is the
set of grounds for refusal that have held at every moment since trader `t` began its check.

### OrderExecutor

One position, opened by `Opener` and closed by any number of `Closers`: a take-profit, a
stop-loss that overlaps it and a repeated attempt are three closers. A call awaits one request at
a time (`pc`); requests and answers travel through `network` and `answers`. `Await` ends the wait
with an answer or, since the HTTP client has a timeout (`proxy.rs:66-71`), with an error, while
the request may still be on its way. Method 1 is `PlaceGtc`, `GtcAnswered`, `Poll` (the 200 ms
loop; `check_order_filled` is a stub that never says "filled"), `CancelGtc`, `CancelAnswered`,
`MarketAnswered`; `stop_loss` and `force_close` are `CloseAtMarket`, `MarketAnswered`.

The exchange is external and does what the comments of `client.rs` say: it takes an order that
closes by the opposite direction, fills resting orders in parts, refuses what finds nothing to
close, and may answer without an order id, which the code reckons with.
`closesBy` is the one direction it accepts for closing, out of `CloseDirections`: the passing run takes
either (`AnyDirection`), the one `client.rs:486-489` documents among them.
`unanswered` is a history of the requests whose fate the caller never learnt.

### ExecutionEngine and PositionMonitor

`OpenPosition`, `UpdatePosition`, `RecordExit`, `ClosePosition` each hold the write lock for their
whole body and are one step each. `UpdatePosition` and `RecordExit` look at no state, as in the
code: only what the outside reports is constrained (`reported` goes forward, `closed` once).
`ExitsDue` and `GtcTimedOut` are the two scans. The pass of the monitor is `StartPass`,
`CheckExitConditions`, `RecordDueExit` for each exit of the scan, `CheckGtcTimeout`,
`RecordTakerExit` for each timeout, `EndPass`; updates, closes and new spreads may fall between
any two of them. The shutdown signal is seen between passes.

`exit.rs` codes the rule of the scan again (`TriggerTp`, `DecideExit`); it keeps no state, so it is
an operator of `ExecutionEngine`, compared with `Decision` in every state, for both settings of
`use_method_1`. The two differ where Method 2 finds a GTC order pending: the strategy then answers with a
taker (`exit.rs:73-78`), the engine, which knows no methods, asks for another GTC order.

### OrderManager

`state`, `known`, `filled` and `quiet` are the fields of a `TrackedOrder`: its state, whether the
exchange's id is there, the filled volume, and the age of the last update. A method takes the lock
for a statement or a block and never across an `await`, so it is cut at its awaits:

| Code | Actions |
|---|---|
| `submit_market_order`, `submit_limit_order` | `Submit`, then `Placed` or `PlaceFails` |
| `handle_order_update` | `HandleOrderUpdate` |
| `cancel_order` | `CancelOrder`, then `CancelAnswered` |
| `cleanup_old_orders` | `CleanupOldOrders` |

`wire` holds requests and answers, `reports` the order stream, `live` and `done` the exchange's own
state of the order. Reports of an order come in order, or are lost when the connection breaks
(`LoseReports`); an HTTP request may be executed although its caller has given up. `missed` is a
history: a report was lost, or came before the exchange's id was known and was dropped. Each order
is cancelled at most once, which bounds the model and not the code.

### LbankStream, Gateway and Feed

`loop` is where the socket's task is, `failures` its count of attempts, `session` what the exchange
serves, `commands`, `events` and `market` the channels, `cached` what the caches hold. A send of the
code is awaited, so the loop does nothing else until the events it has to send are gone: they wait
in `outbox`, and `Deliver` sends the first when the channel has room.

| Code (`ws.rs`) | Actions |
|---|---|
| connect, counting failures | `Connected`, `ConnectFails`, `TaskEnds` |
| the `select!` of a session | `Push` (a message with its items, into cache and outbox), `TakeCommand`, `NoSenderLeft`, `SessionBreaks` |
| `subscribe_*`, `shutdown` | `Call`, then `CallEnqueued` or `CallRefused` |
| the converting task (`market.rs:110`) | `Convert`, `ConverterEnds` |

`Gateway` has the same shape with an authentication message, the configured subscriptions
(`Connect`, `AuthSent`, `AuthFails`, `Restore`) and a pause before a new attempt (`Retry`, `Wake`).
The gateway says Subscribed when the message is written (`connection.rs:214-217`, `288-291`) and awaits no
acknowledgement, so the exchange may refuse a topic (`Refuse`) without an event that tells of it.
`believed` is what a reader concludes from the events. Two histories say why a topic of the session may be
missing: `excused`, its message could not be sent or it was to be unsubscribed, and `refused`.

`Feed` is the promise both implement: items of a stream are told one by one, in order, none left out
and none before a look into the caches would find it. `ReadsAsFeed` is the refinement, with
`latest <- cached` in `LbankStream` and `latest <- version`, `told <- taken` in `Gateway`.

### SymbolPools

Each pool has its own locks, so `add_active` is `AddActive`, `AddExclude`, `AddUnlist`;
`remove_active` is `RemoveActive`, `RemoveExclude`; `set_rotating_symbols`, the last part of `select`,
is `SelectCopies` (a copy of the exclusions) and `SelectSets`. `Rotate` follows the arithmetic of
`rotate`: when removals have left the position behind the end of the list, `end - start` overflows, which
ends the task in a build with overflow checks (`pc = "panicked"`) and gives an empty batch in one without;
both are outcomes of the action. Any number of managers may call at once. Two histories remember what the
locks leave open: `raced`, symbols excluded while a select held its copy, and `contested`, symbols whose
last `add_active` began while a `remove_active` of the same symbol was under way. A caller that goes to a
pool through `active_pool()` or `rotating_pool()` bypasses the exclusions; nothing in `src` does.

### SymbolFunnel and RateLimiter

The three levels are `intersection`, `quality` and the target pool (`current`, `alternatives`, and
the event, `told`). A selection reads the quality data, writes the target, then the alternatives,
then reads the data again for the event, with other tasks in between (`Select`, `WriteTarget`,
`WriteAlternatives`, `Tell`). The live trader (`main.rs`) fills the pools (`BootListing`,
`BootScoring`), selects every second (`TraderStep`), sets the leverage of a new target at LBank
(`GetMaxLeverage`, `ActualLeverage`, `SetLeverage`; each request may fail, the second after it was
executed) and writes the shared `TradingState` (`SetTrading`). A quality is reduced to a score: 0
when `passes_filter` says no, its spread otherwise, which is all a selection compares.

The filter and the sort of `select_target` are `Qualified`, the places of the entries that pass, and
`Ranking`, their symbols by rank.

`RateLimiter` cuts `acquire_batch`, `can_request` and `record` between the reading of the clock and
the lock. `timely` is a history: permits given to calls that still have the right second.

### OrderBook, BookFeed, DepthQuery, EntrySignal

A side of a book is the sequence of its levels in the order of the map, so `SwapRemove` moves the
last level into the gap as `swap_remove` does and `Sort` puts it right. Sorting is by rank: the n-th
level is the one with n - 1 before it (`Before`), and `sort_by` being stable, entries of one price keep
their order, which is what `Sorted` is asked for when `market.rs` sorts an answer. `Update`, `ApplyDiff`,
`FromSnapshot` are the operations.

`BookFeed` puts the book under an exchange (`truth`) whose diffs and snapshots are on the `wire`. Any of them
may arrive next, and again, so a diff may be overtaken by another one, and a snapshot by diffs that are newer
than it: `from_snapshot` takes the place of the book and `apply_diff` changes it whatever their `seq_id`. When
a message arrives, the older ones still on the wire become `late` for the levels both speak of (`Overtaken`);
`stale` is a history, the levels last written by a message late for them. The exchange is external: no
crate calls `apply_diff` yet.

In `DepthQuery`, `GetOrderBook` is the query: one parse, entry by entry (`client.rs:324-344`; a comment there
speaks of a strict one before it), and the filter by symbol, as the places of the entries it keeps.
`OrderBookSnapshot` is what `market.rs` makes of them. What the exchange means by an answer is part of
the answer and not taken from the code: `own`, whether an entry is of the symbol asked for, and
`bidDirection`, the direction of its bids, of which `client.rs:216`, `market.rs:143` and `protocol.rs:961` say
different things.

`EntrySignal` runs both books under these feeds and the owner of a `SignalContext`: `calc_spread` locks one book
and then the other (`LockLeader`, `LockFollower`, `TakeSpread`), and the feeds write when they get a
lock. The filters of a signal are one operator each; `RunFilters` stops at the first that refuses.
The live trader builds context and chain and does not run them yet: their owner is left free to
call them at any time, also after a `calc_spread` that returned `None`.

## 3. Runs

| Run | Question | Bounds, and why they are enough |
|---|---|---|
| `CircuitBreaker_threads` | Can interleaved calls lose a trip, half-open without an elapsed pause, block, or keep a pause from ending? | two threads (every conflict over a lock has two parties; the proofs cover the rest), threshold 4 so that Warning comes before the trip, pause 2; losses without end |
| `RiskGate_traders` | How far can the limits be overshot, and is an entry ever admitted against a ground that stood? | two traders (one checks while the other records), four symbols with a limit of 2 positions: both traders may overshoot and symbols remain; two configurations that a reload swaps, one with cooldowns; threshold 1, so one stop-loss trips |
| `OrderExecutor_calls` | What may a call report, and does it end? | two closers, volume 2 (partial fills), two polls, an exchange that closes by either direction |
| `PositionMonitor_passes` | Do stale decisions weaken exits, does what is overdue leave, how far do the two codings of the exit rule agree? | two positions, three spreads around the entry, holding limit 2, GTC timeout 1 (both orders of the two limits of a position occur), both methods |
| `OrderManager_orders` | Do answer, stream, cancel and clean-up agree about an order? | two orders (a clean-up takes one and keeps the other), volume 2 so that orders fill in parts, lifetime 1: an entry is fresh or old, nothing else is asked of its age |
| `LbankStream_events` | Does the reader see the feed, and the news of sessions in place; do calls return; when does the loop give up? | the book and the deals of one symbol, two items each and up to two in a push (so an item can be lost, repeated or overtaken), channels of 1, 2 and 1 (all of them get full), one attempt. A ticker stream as a third fits into five minutes only with one item per push and stream, where nothing can be lost unseen: the run keeps two streams |
| `Gateway_sessions` | Does the reader know the session as far as the gateway does; does it implement the feed? | one configured topic and one of run time, three messages per topic, channels of 1 and 2 (both get full), one attempt after a break |
| `SymbolPools_rotation` | Is everything listed scanned, and can an active symbol be in the rotation? | three symbols in batches of two: full and partial batches, positions past the end (two removals away); two managers that share one symbol, so that an add and a remove of it overlap (`About`, the symbols each of them trades, keeps the number of states small); one selector |
| `SymbolFunnel_targets` | Do the pools agree, is the leverage allowed, does the trader follow? | two symbols, one with a score that may fail the filter or be best, two listings, chunks of one (so that a refresh has several); a symbol whose short side is more limited |
| `RateLimiter_seconds` | Do the permits of a second fit the limit? | two batch callers, one checking task, limit 2, batches of 1 and 2, four seconds: a caller may be two seconds late, beyond what a purge keeps |
| `BookFeed_messages` | What may messages that overtake or repeat each other do to a book? | three bids (a removal may break the order of the rest) and one ask whose volume may go while its orders stay; two messages under way: two are what it takes to be overtaken |
| `EntrySignal_books` | Does the follower's book show an answer, is a spread of one moment, does a signal pay? | two bids and two asks whose prices interleave, so that the books may cross, sizes with a volume or (asks) with orders only, five answers (lagging; partly unreadable, with an entry without a name, two of one price and an empty one; of an exchange whose bids are "0", with another symbol's entry without a name; of another symbol; an error), one message under way that may come again: what more of them do is asked in `BookFeed_messages` |

Each property is stated in a comment before it. Where it has more to it than its name:

* *breaker* - `TripHolds` (a counted trip is Open or HalfOpen once nothing is half-way),
  `HalfOpenOnElapsedStamp`, `StampedPauseEnds` (once losses have ceased), `CallsReturn`;
* *gate* - `Overshoot` (tracked positions stay below some limit plus the number of traders),
  `NoEntryAgainstStandingLimit`;
* *executor* - `CloseReportSound` (a reported close has left nothing), `NoForgottenGtc`,
  `FailureExplained` (a false failure is one of a lost answer or of the direction), `CallsEnd`;
* *monitor* - `ExitsEscalate`, `OverdueEntryLeaves`, `GtcExitEnds`, `ExitStrategyAgrees`;
* *orders* - `NoOpenOrderForgotten`, `FillsSound`, `CaughtUp` (unless a report was missed, what is
  tracked is what the exchange holds when nothing is under way), `OverOrdersLeave`;
* *streams* - `ReadsAsFeed` (refinement of `Feed`), `NewsInBrackets` (items only between a Connected
  and its Disconnected), `GivesUpLate`, `CallsReturn`; *gateway* - `SessionAsTold`,
  `ReadsAsFeed`;
* *pools* - `RotationLeavesActiveOut` (but for raced and contested symbols), `EverySymbolScanned` (as long
  as the list stands and no overflow has ended the task);
* *funnel* - `QuietPoolsAgree`, `LeverageAllowed`, `TraderFollows`, `DelistedSymbolLeaves` (where the
  quality refresh goes on); *limiter* - `TimelyPermitsFit`;
* *books* - `BookFollowsExchange` (a level no message under way speaks of is the exchange's, unless an
  overtaken one wrote it last);
* *signals* - `FollowerShowsAnswer` (one whole answer, the last entry of each price, all of them on the
  sides the exchange means or, where its bids are "0", all on the other, no other symbol's but nameless
  ones), `SpreadOfOneMoment`, `SignalPays` (who takes the follower's price and could trade at the leader's
  best gains at least the threshold);
* `BreakerTypeOK`, `TypeOK` of the executor and the order manager and `MonitorTypeOK` in their runs;
  every module has one.

Deadlock is not checked where the system really may stop: all calls of an executor end, the stream's
loop gives up, the trader exits when it finds no target, the clock of the limiter reaches its bound.
Symmetry is used in the gate's run only (traders and symbols are interchangeable, no liveness).

## 4. Fairness

* Breaker: a started call goes on (its thread is scheduled). Steps that wait for a lock others
  keep taking get strong fairness, because `parking_lot` hands a lock over fairly from time to
  time. Traders keep asking an open breaker; time passes. No fairness on starting losses, wins or
  resets. A loss past the threshold stamps anew, so `StampedPauseEnds` has it as a premise that losses cease;
  with losses going on the pause may never end (section 6).
* Executor: the runtime polls a future whose timer or request is done, and the HTTP timeout ends
  every await. Nothing is assumed of the exchange or of the network.
* Monitor: the task is polled (`tokio::time::interval`) and time passes. Nobody has to trade,
  report or shut down; the liveness properties hold "or the monitor was shut down".
* Gate: no fairness, only safety is checked.
* Order manager: time passes, and whoever uses it hands on the stream's reports and calls
  `cleanup_old_orders` again and again. The repository has no caller of either, so this is what
  `OverOrdersLeave` asks of one. Nothing is assumed of the exchange or of the network.
* Streams: the tasks are polled, connecting ends (with or without success), the reader reads. `select!`
  picks among its ready branches at random and the channel serves waiting senders in turn, so a
  command that is ready again and again is taken, and a sender that finds room again and again gets in
  (strong fairness). Nothing is assumed of the exchange.
* Pools: the rotation task is polled and time passes. Nobody has to add, remove or select.
* Funnel: the trader's loop goes on after its sleep, and nothing else. `FunnelRunner` leaves its tasks to
  its owner, and `main.rs:166-337` starts none of them. `DelistedSymbolLeaves` therefore has it as a premise
  that somebody refreshes the quality data again and again; without one a delisted symbol is traded for ever.
* Gateway, limiter, books, signals: no fairness, only safety is checked.

## 5. Proofs

Theorems are of the form `Spec => []Inv`, `Spec => [][A]_vars` or `Spec => AbstractSpec`, for every value
of the constants the named assumptions allow: thresholds, limits, capacities and bounds are natural numbers
(a few of them positive), sets of traders, symbols and levels are finite where
they are counted, model values are distinct. Every safety property a passing run checks is stated by a
theorem; every inductive invariant was checked by TLC before it was proved.

What makes each proof work is the invariant that is stronger than the property:

* **RiskGateProofs**, the breaker: `BreakerTypeCorrect`, `TripHoldsCorrect`, `HalfOpenCorrect`. `TripHolds`
  is not inductive: between the counting of a loss and the writing of `state` it says nothing, and another
  thread may overwrite. The invariant adds who holds which lock (`LockInv`) and what a thread relies on
  between its steps (`StepInv`): a tripped breaker is only overwritten by a reset that still has to clear
  the losses, and a stamp that `check` has compared is read-locked.
* **RiskGateProofs**, the gate: `TypeCorrect`, `OvershootCorrect`, `NoEntryAgainstStandingLimitCorrect`.
  `Overshoot` counts only what is recorded, so `GrantInv` also counts the traders that have passed the
  count of positions and may still record (`Granted`): an open moves one from the second number to the
  first, and when the count passes, the second number is at most the number of traders. `EntryInv` says
  that a ground that still stands has not been looked at yet, as long as every result so far allows. The
  exposure is an opaque number here; nothing is proved of the sum itself. `GateUsesBreaker`: the gate
  implements `BreakerSpec`, so the breaker's theorems hold inside it (`TripHoldsInGate`).
* **ExecutionProofs**, the executor: `TypeCorrect`, `CloseReportSoundCorrect`, `NoForgottenGtcCorrect`,
  `FailureExplainedCorrect` for any number of closers, any timeout and any direction the exchange may close by.
  The invariant follows the requests: nothing is under way for an idle caller (`IdleInv`), the one opening request is gone before a
  closer starts (`OpenInv`), an executed market order has left nothing (`MarketInv`), and for each GTC
  order where it, its cancel and their answers may be (`GtcOf`). The last theorem needs `AcceptInv`: an
  answered market order that was refused found nothing to close, or the exchange closes by another direction
  than the one sent.
* **ExecutionProofs**, the monitor: `MonitorTypeCorrect`, `ExitsEscalateCorrect`,
  `ExitStrategyAgreesCorrect` for any number of positions and any spreads, ratios and limits. `PassInv`
  says why a stale write does no harm: a position the first half of a pass still has to write is not
  pending, since only the monitor makes positions pending and does so once per position and pass. The
  agreement of the two exit rules, for both methods and with the one difference of a pending GTC order, is a
  lemma about the operators (`DecisionsAgree`), case by case.
* **OrderManagerProofs**: `TypeCorrect`, `NoOpenOrderForgottenCorrect`, `FillsSoundCorrect`,
  `CaughtUpCorrect` for any orders, volume and lifetime. `OrderInv` ties the entry, every message on the
  wire and every report on the stream to the exchange's state: a report tells of a fill that has happened,
  "filled" and "cancelled" are told of ended orders only, so whichever is written last, an open order stays
  active. `CaughtUp` speaks of the end only, so `CatchInv` says how it is reached: the last report on the
  stream tells what the exchange holds (`Newest`), an answer can only be late by what a report has still to
  tell, and an order known to the manager whose stream is empty is settled (`Settled`).
* **LbankStreamProofs**: `TypeCorrect`, `GivesUpLateCorrect`, `NewsInBracketsCorrect`, `RefinesFeed`, for
  any streams and capacities. `AttemptsInv`: a session starts with fresh attempts, and between two sessions
  attempts and failures grow together. `BracketsInv`: channel and outbox hold events that may follow one
  another (`Chain`) and end where the loop is. `NumbersInv`: each queue between cache and reader holds
  exactly the consecutive items of a stream between two numbers (`Numbered`), so taking the first item is
  telling the next one, and `CacheInv` says which of these numbers the cache is at. With both, every
  step is a step of `Feed` or leaves alone what it shows.
* **GatewayProofs**: `TypeCorrect`, `SessionAsToldCorrect`, `RefinesFeed`, for any topics, configuration and
  refusals. What the reader believes lags behind the session by the events under way; `SessionInv` therefore speaks of
  the `Outlook`, what the reader will believe after all of them, of what is excused or refused (`Lost`), and of
  the configured topics still to be restored. The refinement is by `NumbersInv`, as for LBank, over one channel
  and the outbox.
* **SymbolPoolsProofs**: `TypeCorrect`, `RotationLeavesActiveOutCorrect`, for any symbols, listings, batch
  size and numbers of threads. The property speaks of active symbols; what the steps keep is that every
  excluded symbol is out of the list, raced, or about to be unlisted by the call that excluded it
  (`ExcludedOut`), that a select's copy lacks only raced symbols (`CopyInv`), and that an active symbol is
  excluded, about to be, or contested (`ActiveExcluded`).
* **SymbolFunnelProofs**, the limiter: `TimelyPermitsFitCorrect`, for any number of callers and refreshes
  and any batches. `EntriesInv`: the entries of the present second, which no late caller purges, hold at
  least what was permitted in time.
* **SymbolFunnelProofs**, the funnel: `FunnelTypeCorrect`, `QuietPoolsAgreeCorrect`,
  `LeverageAllowedCorrect`, for any finite set of symbols and any number of selecting tasks. A selector that
  has seen the present data holds what it ranks (`ReadInv`), and each place a selection writes agrees with
  the data once nobody still has that write before it (`WrittenInv`). The type theorem rests on `Ranking`:
  ranks of a strict total order are 0, 1, 2 and so on, each taken once (`RanksTaken`).
* **EntrySignalProofs**: `TypeCorrect`, `BookFollowsExchangeCorrect`, `FollowerShowsAnswerCorrect`,
  `SpreadOfOneMomentCorrect`, `SignalPaysCorrect`, for any prices, sizes, answers and thresholds and any number
  of messages under way. Most of it is about the operators: a side after `swap_remove`, insert and sort
  (`SwapRemoveLemma`, `InsertLemma`, `SortLemma`), after any list of updates (`UpdatesLemma`), after a
  snapshot (`SnapshotLemma`) and an answer (`AnswerLemma`). `BookFollowsExchange` says nothing of levels
  messages under way speak of. The invariant (`FeedInv`, with `Follows` for each level) says of them: the last
  message under way about a level, unless it is late for it, tells what the exchange has now, and if there is
  none the book has it already, unless the level is stale; a repeated message changes neither.
  `LeaderBookIsFed` takes the theorem into `EntrySignal`, whose steps are steps of `FeedSpec`.
  `FollowerShowsAnswerCorrect` compares what the code reads (`AsRead`) with what the exchange means (`Placed`).
  `LockInv` gives the spread: prices that are read and not yet stored are those of two locked books.

An argument by induction over the length of a list (`UpdatesLemma`) is made by taking the least
counterexample (`LeastOf`), since the induction theorems of the library take an operator as a parameter.

Only model-checked are the liveness properties, which need fairness and `ENABLED`: `CallsReturn` of the
breaker and of the stream, `StampedPauseEnds`, `CallsEnd`, `OverdueEntryLeaves`, `GtcExitEnds`,
`OverOrdersLeave`, `EverySymbolScanned`, `TraderFollows` and `DelistedSymbolLeaves`.

## 6. Findings

Disagreements between the code and what its comments and documents say of it, met while modelling. Those
marked with a module can be replayed in it: the module has the interleaving, and a property of it names the case
as an exception or leaves it out, as told here.

### Where a property names an exception

* A close inverts the direction twice, in `direction_to_lbank` (`order_executor.rs:110`) and in the client
  (`client.rs:502`, `549`), so the position's own direction is sent. `client.rs:486-489` and `534-539` say that the
  exchange closes by the opposite one. At that exchange every close fails with its answer received, the market
  order included, which `order_executor.rs:14-17` calls the guaranteed fill, and the position stays.
  `OrderExecutor`; `FailureExplained` names it as the one reason of a false failure beside a lost answer.
* `remove_active` takes the symbol from the active pool and then, under another lock, from the exclusions
  (`pool.rs:256-266`). An `add_active` in between leaves the symbol active and not excluded, and the next `select`
  lists it; `pool.rs:216` calls the exclusions the "active ones". `SymbolPools`; `contested`.
* A select that holds its copy of the exclusions puts a symbol made active meanwhile back into the rotation
  (`pool.rs:270`). `SymbolPools`; `raced`.
* Books, snapshots and diffs carry a `seq_id` and nothing compares two (`book.rs:170`, `201`). A message that
  arrives after a newer one is applied over it, and the level it speaks of stays wrong with nothing under way,
  against `docs/TEST_PLAN.md:266` (OB-09). `BookFeed`; `stale`.
* `client.rs:216` says that the direction "0" is a bid, `market.rs:143` takes "1", `protocol.rs:961` leaves it open.
  Over an exchange as `client.rs` describes it the follower's book shows bids as asks. An entry whose
  `InstrumentID` is empty passes the symbol filter (`client.rs:335`), whatever symbol it is of. `DepthQuery`;
  `FollowerShowsAnswer` names both.
* The exit strategy answers with a taker where Method 2 has a GTC order pending (`exit.rs:73-78`), the engine's
  scan with one more GTC order (`state_machine.rs:130`). `PositionMonitor`; `ExitStrategyAgrees`.
* Subscribed is said when the message is written (`connection.rs:214-217`, `288-291`): of a refusal by the
  exchange no event tells. `Gateway`; `refused`.

### Other behaviour the modules show

Trading core:

* Every loss past the threshold stamps `opened_at` anew (`circuit_breaker.rs:72-74`): the pause of a breaker
  that goes on losing never ends. `CircuitBreaker`; `StampedPauseEnds` has as a premise that losses cease.
* A `record_loss` that has written Open and waits for `opened_at`, which a `check` has read-locked with an old
  stamp that has elapsed, is overwritten with HalfOpen (`circuit_breaker.rs:46-50`): the new trip is half-open
  at once. `CircuitBreaker`; `HalfOpenOnElapsedStamp` speaks of the stamp that was compared.
* `reset` clears three fields under three locks; a `record_loss` between them leaves the breaker Open
  without a stamp (`circuit_breaker.rs:93`), and `check` denies until the next manual reset, against
  `docs/TEST_PLAN.md:375` (RG-06). `CircuitBreaker`; `StampedPauseEnds` speaks of stamped pauses only.
* `record_position_close` frees the symbol (`gate.rs:140`) before it starts the cooldown (line 145): a check
  between the two admits the symbol just stopped out, against RG-07 (`TEST_PLAN.md:376`). `RiskGate`.
* A second position of a symbol below `max_position_usd` is admitted and replaces the first
  (`position.rs:66`), against RG-09 (`TEST_PLAN.md:378`). `RiskGate`.
* A position reported Filled is in no scan any more (`state_machine.rs:337`), against EX-04
  (`TEST_PLAN.md:403`). `PositionMonitor`.
* `check_gtc_timeout` measures from the entry (`state_machine.rs:374`), so the exit order of an older
  position gets no time to rest, against `config/strategy.rs:31`. `PositionMonitor`.
* The engine's events (`state_machine.rs:277`) have no receiver in `src`.
* Order manager: a report that comes before the answer with the exchange's id is dropped; a late report
  takes an order marked Filled back to PartiallyFilled until the last one; a placement that fails leaves a
  Pending entry no clean-up removes; `cancel_order` without an exchange id returns `Ok` and sends nothing.

Streams:

* `LbankWebSocket::shutdown` ends the session and not the loop, which reconnects (`ws.rs:434`, against the
  comment at `ws.rs:786`), and so does the gateway's Shutdown (`connection.rs:308`). The back-off of the
  socket's loop is logged and not waited.
* Topics subscribed at run time are not subscribed again after a reconnect, at LBank none at all
  (`TEST_PLAN.md`, MG-04). `SessionAsTold` holds because the events tell the reader so.
* `state()` and `is_connected()` of the gateway read fields its task never writes.
* The ticker's fields are not renamed to the letters the exchange sends (`ws.rs:130-143`): tickers have no
  symbol and zeros for prices, and never reach the market cache under a name. `SubscribeRequest` renames a
  field to "type" where the comment says "z" (`ws.rs:237`, `251`).
* `LbankMarketData::subscribe_orderbook` returns a receiver nothing sends to (`market.rs:203`, and
  says so); the trade cache keeps one trade where `market.rs:251` says "last 100".

Books and signals:

* A price that is no number becomes 0 (`market.rs:139`) and, as an ask, the best one.
* `calc_spread` without a quote leaves the old snapshot (`context.rs:61`); `set_state(Cooldown)` during a
  cooldown does not restart it (`context.rs:131`); the two thresholds of `main.rs:250` and `254` differ in
  unit; `spread_bps` of the short side divides by the long side's middle price; `SpreadDurationFilter`
  compares basis points with a hundredth of a duration.
* In the Binance adapter the first level of a `@depth` diff is taken for the best bid and nothing
  reconnects. Nothing uses the adapter.

Clock:

* `measure_offset` (`sync.rs:204`) computes `((t2 - t1) + (t3 - t1)) / 2` from three readings of the local clock:
  the duration of the request. `server_time` is parsed and goes into no computation, although
  `clock-sync/src/types.rs:9` says the field is "exchange_time - local_time". `sync.rs:231` says alpha is 0.3, the
  average uses 1/8. Not modelled (section 7).

Symbols:

* `end - start` in `rotate` overflows when removals have moved the list's end below the position
  (`pool.rs:163`); `SymbolPools` (`panicked`).
* `main.rs:166-337` starts no task of the funnel: it updates intersection and quality once and then only
  selects, so a symbol delisted later is traded for ever, against `symbol-selector/src/lib.rs:33-43` ("Refresh:
  every 30 seconds"). `SymbolFunnel`.
* A quality refresh replaces the pool chunk by chunk, so only the last chunk stays (`runner.rs:157`,
  against `funnel.rs:13-15`); an empty intersection leaves the old data (`runner.rs:142`). `SymbolFunnel`.
* A caller that waited for the lock across the tick may exceed the limit of the new second
  (`funnel.rs:311`, against `funnel.rs:49`). `RateLimiter`; `TimelyPermitsFit` speaks of timely callers.
* A leverage that cannot be set is logged and not tried again (`main.rs:275`); after ctrl-c `main` waits
  for a loop that has no end.

## 7. What is not modelled

* The API quota of the gate (`gate.rs:233`): `record_request` has no caller and the map behind it
  is private, so its check always allows.
* The gate's use of `record_win`: no caller. The breaker models it, the gate does not call it.
* PnL everywhere: no decision reads it. `update_pnl`, `PositionTracker::update` and the amounts
  in the executor's results are left out.
* The event channel of the engine: there is no consumer in `src` to model against.
* `place_sl_tp_order` of the executor (`order_executor.rs:408`): no caller.
* The message router of the gateway (`router.rs`): handlers in a table, registered and called under one lock
  each, so no two steps of it can come between each other.
* The test helper `op_market_close_with_fallback`, which sends a raw direction as a second attempt,
  is not what the executor calls.
* Of the LBank adapter: account queries, signatures, proxy, the formats of `protocol.rs` that no modelled
  call reads, pings and the login message of the socket.
* Of the order book and the signal engine: weighted prices, imbalance, the history of spreads and the
  filters over it, which the live trader does not use; `state.rs`, a second `SignalState` nothing uses.
* Of the pools: priorities, `add_symbol` and the events to subscribers, of which there are none.
* The clock synchroniser: nothing calls it (the live trader only lists it as a dependency), and its offset
  measures something else (section 6).
* The Binance adapter (no caller), fees, persistence, metrics, the hand-run test programs: values,
  stateless arithmetic, pure I/O. Of the configuration only the risk limits, the rest are constants.

## 8. Plan

The model covers what keeps state and is used, and every safety property of a passing run is proved. What is
left, in this order:

1. The steps behind the liveness properties, as far as they are safety: who holds a lock can take its next
   step (breaker), a pass that has started has a next step (monitor), the variants that shrink.
2. The lemmas the proof modules share in substance (ranks, least counterexample, queues of consecutive items)
   in a module of their own.
