# Formal models of Binance-Bot

TLA+ models of the trading bot in `app/`: what its strategies, requests and API clients may do together,
checked with TLC on small instances, and the safety properties that matter most proved with TLAPS for
every instance. `PROJECT.json` lists the runs, the lines of code each definition stands for, the hazards
and the theorems.

## The system

One FastAPI process on one event loop. Users register *strategies*; a started strategy is an asyncio
task, `StrategyExecutor.run_loop`, which reads candles, evaluates a signal and hands it to the
`StrategyOrderManager`, which passes risk checks and calls the `OrderExecutor`, which calls the
account's `BinanceClient` in a worker thread. Rows in PostgreSQL are meant to be the source of truth,
Redis a cache, and dictionaries in memory a second one.

| Component | State | Operations | Talks to |
|---|---|---|---|
| Strategy lifecycle: `strategy_runner`, `run_loop`, `api/deps` | `_tasks` (one dict for all runners), `_strategies` (a dict per runner, some objects shared), rows | start, stop, delete, pause account, cleanup, restore, register, update | persistence, candle streams, loops, order manager |
| Persistence: `strategy_persistence`, `strategy_service`, `database_service` | rows, Redis entries | update, load at boot, load by user | PostgreSQL, Redis |
| API circuit breaker: `core/circuit_breaker` | state, failure and success counters, half-open slots | `call_sync` in many threads | Binance REST through `my_binance_client` |
| Trading loop and order path: `run_loop`, `strategy_order_manager`, `order_executor` | position and instance in the summary and row, trades (the ledger), recent orders | sync, evaluate, execute, verify, record | client (thread), risk, trade service, user data stream |
| Exposure reservations: `risk/portfolio_risk_manager` | reservations per account and strategy, account locks | check and reserve, confirm, release | order manager |
| Risk circuit breaker: `risk/circuit_breaker` | active breakers | losses -> pause strategy or account, resume | `_tasks` and rows, from a worker thread |
| Other risk rules: frequency, sizing, margin, correlation | sliding windows, caches | check | order manager |
| Candle streams: `websocket_kline_manager`, `websocket_connection`, `kline_buffer` | subscriber counts, connections, ordered buffers | subscribe, unsubscribe, get, reconnect | loops, Binance WebSocket |
| Mark price and user data streams | per-symbol and per-account connections, listen keys | ensure, keep alive, stop | position updates to summaries and UI |
| Completed trades: `completed_trade_helper`, `trade_matcher`, `external_close_service` | trades and their matched quantities | FIFO matching, idempotent insert | loop, user data stream, manual close |
| Manual trading | manual positions | open, close, TP/SL | client |
| Paper client | positions, balance | order, update position | the same callers as the Binance client |
| Accounts and their clients: `binance_client_manager`, `account_service` | clients by account name, rows by user | create, update, delete, hand out | everybody who trades |
| Strategies: scalping, reverse scalping, range mean reversion | crosses, regime, cooldown, levels | evaluate, sync | candle streams |
| Backtests, histories, walk-forward and sensitivity analyses | tasks in memory, results in rows | start, progress, cancel, evict, save, list | HTTP, Binance |
| Price alerts, service monitor | alert rows; last state and time of message | rounds | prices, push and Telegram messages |
| Notifications, Telegram | offset of the long polling | poll, carry out commands | base runner |
| Database sessions: `core/database` | engine, session factory | make, validate, reset, retry | everybody |

The Android client, the web GUI, `alembic/`, `scripts/` and the tests are outside the models; tests and
comments were read for what the code is meant to do.

What is hard to test here:

* **Interleavings of coroutines.** A request may run between any two awaits of another one, and the
`asyncio.Lock` of a runner excludes nobody, because every authenticated request has a runner of its own
(`api/deps.py:258`).
* **Threads.** Every Binance call runs in `asyncio.to_thread`, and goes on when the loop that awaits it
is cancelled; the risk breaker changes `_tasks` from such a thread.
* **Two or three copies of one fact.** The status of a strategy is in the row, in Redis, in the base
runner's summary, in the request's summary, and in whether a task exists.
* **Partial failure and restart.** A loop that dies, a request that is cut off, a server that boots
again with rows that say running; a read that fails and answers what a flat account answers.
* **Several callers for one event.** A close is noticed by the loop, by the user data stream and by
whoever made it, and each of them writes trades.
* **Counters that stand for sets.** Half-open slots, subscriptions, cooldowns, offsets: each is
incremented and decremented in different places.

## Modules

| Module | Models | Checked in |
|---|---|---|
| `CircuitBreaker` | `core/circuit_breaker.py` around the client's calls | `market`, `breaker_stuck`; `MarketProofs` |
| `StrategyLifecycle` | `services/strategy_runner.py`, `run_loop`, `get_strategy_runner`, boot | `overlap`, `market`, `money`, `start_race`, `delete`; `StrategyLifecycleProofs` |
| `Traders` | what the runner promises of the loops: the abstract specification of `StrategyLifecycle` | `overlap`; `StrategyLifecycleProofs` |
| `TradingLoop` | one strategy's `run_loop`, `execute_order`, the user data stream and `strategy_persistence` | `trading_loop`, `trading_shown`, `trading_manual`; `TradingLoopProofs` |
| `KlineStreams`, `UserStreams` | streams of candles and of user data | `market`; `KlineStreamsProofs`, `MarketProofs` |
| `MarkPrices`, `Database` | streams of mark prices; sessions | `market`; the first also `MarketProofs` |
| `RiskPause`, `RiskLimits`, `Exposure` | risk breaker, loss limits, exposure limit | `money`; `MoneyProofs`, the last two `AccountingProofs` |
| `OrderExecution` | one order, retried, repeated and verified | `money`; `OrderExecutionProofs`, `MoneyProofs` |
| `Protection`, `ManualTrading` | TP/SL orders; manual positions | `money` (`Protection` also `orphans`); `MoneyProofs` |
| `CompletedTrades`, `FifoMatching`, `TradeRows` | what is accounted for | `money`; `AccountingProofs` |
| `Scalping`, `ReverseScalping`, `TrailingStop`, `RangeMeanReversion` | the strategies | `records` (the last also `range_rest`); `RecordsProofs` |
| `Backtest`, `HistoryPages`, `Analyses`, `AnalysisRows` | simulations and studies | `records`; `RecordsProofs` |
| `PaperAccount`, `AccountClients`, `StrategyRows` | paper accounts, clients of accounts, summaries in Redis | `records`; `RecordsProofs` |
| `PriceAlerts`, `ServiceMonitor`, `TelegramCommands` | messages | `records`; `RecordsProofs` |
| `MCCircuitBreaker`, `MCStrategyLifecycle`, `MCTradingLoop`, `MCRangeMeanReversion` | instances of one module each | |
| `MCMarket`, `MCMoney`, `MCRecords` | instances of many, see *Composites* | `MarketProofs`; `AccountingProofs`, `MoneyProofs`; `RecordsProofs` |

Specifications also contain a few *variants*: definitions with one plausible bug each (a dropped guard,
a missing reset). `Next` uses none of them; `PROJECT.json` lists which variant refutes which property
when it takes the place of the real definition, so that no property holds for a reason that has nothing
to do with the code.

### CircuitBreaker

`call_sync` takes its lock to admit a call, leaves it for the call itself, and takes it again to account
for the result. Each locked section is an action: `AdmitClosed`, `AdmitFirstProbe` (the timeout has
passed: OPEN to HALF_OPEN), `AdmitProbe`; `Succeed`, `Fail` (an expected exception), and `Refuse`, which
stands for any other exception and has no second locked section: `place_order` raises
`OrderExecutionError` for orders the exchange refuses. `Cool` is the passing of the timeout.

`state`, `failures`, `successes`, `halfOpenRequests` are the attributes of the same names. `failures`
counts no further than the threshold, as the code only compares it with that. `cooled` stands for the
comparison of `last_failure_time` with the clock; in the other states nothing reads it. `call` says
where each thread is; that a probe is marked `"earlier"` once another half-open period has begun, and
`lost`, are history that only properties read. The thread lock is taken as given (it is made on the first call). `reset()` is called by nothing and left out.

### StrategyLifecycle

The model is of one user on one account, whose strategies are in `db` (the status column), in `mem` (the
status in the base runner's summary), in `tasks` (`_tasks`) and in `task` (the loops themselves). A
request's runner shares `_tasks` and, through `deps.py:311-313`, the base runner's *objects*, unless the
request loaded its own from the rows: `Fresh` and `Shared` say which. What a request remembers across an
await is in `req`.

Between two awaits a coroutine is alone, so each such stretch is one action:

| Code | Actions |
|---|---|
| `start` up to `await subscribe` (1109-1256) | `BeginStart` (conflict check, cleanup of dead tasks, limit, refusal) |
| `start` from there to `await sleep(0.1)` (1274-1330) | `StartRegister` (second check, then loop, registry, row) |
| the rest of `start` | `StartSettle` |
| `stop` up to the awaits that close the position | `BeginStop`, `BeginDelete`, `BeginPause` |
| `stop` from there to `await unsubscribe` (1856-1862) | `StopCancel` |
| the rest of `stop`, and of `delete` and pause after it | `StopPersist` (also `NextToPause`) |
| `run_loop`: status refresh; exception; cancellation | `LoopRefresh`; `LoopFail`; `LoopCancelled` |
| `stop()` called by a loop on its own strategy | `SelfStopBegin`, `SelfStop` |
| `_periodic_cleanup_loop` | `PeriodicCleanup` |
| shutdown or crash, and boot | `Restart` |
| the first request of the user that does nothing else | `OtherRequest` |

Some of what the actions say is easy to miss in the code. The periodic cleanup belongs to the base
runner, which has no database service, so it changes summaries and never rows. `update_strategy` on a
missing row does nothing. `StartSettle` raises out of `start` if the loop is already cancelled, and
otherwise writes the row once more. `delete` pops the task without cancelling it. A loop whose strategy
stops itself cancels itself, and may be interrupted before the row is written.

Abstractions: loading the rows and the first stretch of a request are one step (the dependency runs just
before the handler). A loop that is over, and to which neither the registry nor a request refers, is
forgotten (`Collected`), so that `Tasks` bounds the loops alive together and not the number ever
started. A row's refresh may be as late as the loop's next round, which also covers what SQLAlchemy
keeps until the session's next commit. Redis gives each summary back at boot or not; a summary left
behind by a deletion that Redis missed is not modelled. Failures of the database, `register`,
`update_strategy_params`, manual closes and the lazy restore by the first `POST /strategies/` are not
modelled; `_check_symbol_conflict` compares symbols and statuses as they are, the account being the
same.

`Traders` is what can be seen of all this from outside: pairs of a strategy and a loop that trades for
it. A pair is added only for a strategy and a loop that have none, below the limit; pairs leave in any
number, because a crash ends all loops and a deletion takes one from its strategy. The refinement
mapping `Abstract` shows it the loops that run for strategies whose rows exist, so that a loop which
goes on after its strategy is deleted (run `delete`) is deliberately outside the promise.

### TradingLoop

One strategy on one symbol. Binance's position `exch` is the truth; `sum` (side and size) and `inst`
(`position_instance_id`) are the summary and the row, which the code writes together; `trades` is the
trades table summed by instance, from which `get_strategy_owned_quantity` tells what is the strategy's
own. Two coroutines write them, the loop and the user data stream; Binance executes on its own; and a
worker thread goes on with an order that the loop no longer waits for. Each stretch between two awaits
is an action; in particular a read and what is done with it are two.

| Code | Actions |
|---|---|
| `get_open_position`: the position, or "none" when the read fails | `Reads` |
| `update_position_info`: read; take over; the external close it awaits, then clear | `Sync`; `Apply`; `SyncClear`, or `SyncFails` |
| `reconcile_position_state` | `BeginReconcile`, `Reconcile` |
| `sync_position_state` and `evaluate` | `Evaluate` |
| `_execute_order` up to `execute_order` | `BeginOrder` |
| `execute_order`: position read; decision; last look; order sent; an error | `Place`; `Decide`; `Recheck`, `Skip`; `Exchange`; `OrderFails` |
| the answer: `execute_order` 1021-1171 and `_execute_order` 562-1097 | `Record`, or `AnswerLost` |
| the instance dropped after the broadcast | `Settle` |
| `wait_for(..., 60)` expires; the thread goes on | `GiveUp`, `ExchangeLate` |
| `apply_position_data`: open; flat, external close awaited; flat, cleared | `StreamOpen`; `StreamIngest`; `StreamClear` |
| restart and restore | `Restart` |

`Respond` is the longest definition because the code is: the executed quantity is applied to the summary
by the order manager and *again* by the executor (`AfterFill` twice), and in between the executor finds
the instance that the trade belongs to, by the side and size the summary had before the order.

External (modelled from how `app/` uses it): reduce-only orders and their limits, the margin, the
`ACCOUNT_UPDATE` events, closing candles, and the user, who may close the position or open lots of his
own on either side, as far as these do not reduce it. A native TP or SL order is a close like another.

Abstractions: lots instead of amounts, an entry is one lot, a position never more than `MaxLots`; the
sizes that risk rules might change and the refusals they might cause are `OrderFails`. What the candles
say is left open: `Evaluate` may exit whenever it sees a position and enter on a candle it has not yet
processed, which is all that its state (`last_closed_candle_time`, the synced position) allows.
`place_order` retries with one client order id, so its retries are one order; the key holds minute and
price, so it does not connect two signals. A trade is saved whenever an answer is recorded. One user
data stream is modelled, that of the runner that started the strategy. An order that is open after its
verification, hedge mode, paper trading and failures of the database are not modelled.

A read that fails is one of the troubles: `get_open_position` answers None to every error, which is what
it answers for a flat account (`my_binance_client.py:2219`), and sync, reconciliation, order and recheck
each take it for a close. That is why `RowSettles` is worth checking.

`own` is history: what of the position comes from the strategy's orders. `trouble` is history, too:
which of the things that can go wrong have happened. A property that cannot be had under some trouble
names it in its condition, so that the conditions say what the code survives:

| Property | Survives | Not claimed after |
|---|---|---|
| `SinglePosition` | lost answers, restarts, closes and lots of others | an order given up, a failed read, a stale position taken over |
| `ExitsReduce` | lost answers, restarts, lots of others | these three, and a position closed by others |
| `ExitsTakeOwnLots` | all but | an entry begun beside lots that were taken over (`"beside"`) |
| `OwnedIsRecorded` | lots of others | anything that loses an answer or ends the position elsewhere |
| `RowSettles` | everything | |

### Streams and sessions

`KlineStreams`: one symbol and interval, several strategies. `link` is the `WebSocketConnection`,
`count` the subscriber count, `lock` the manager's lock, `buffer` the `KlineBuffer`, `step` where each
strategy is, `seen` its `last_closed_candle_time`.

| Code | Actions |
|---|---|
| `StrategyRunner.start`, `WebSocketKlineManager.subscribe` | `Start`, `Connect`, `Join`, `Subscribed`, `Connected` |
| `get_klines`: buffer; REST fetch; an error; evaluation of the last closed row | `Read`; `Fetch`; `FetchFails`; `Process` |
| `_wait_for_next_evaluation`; stop; loop's end; `unsubscribe` | `Timeout`; `Stop`; `Die`; `Unsubscribe` |
| socket messages, reconnection | `Deliver`, `LinkUp`, `LinkLost`; `CandleCloses` (external) |

The REST fetch blocks the event loop, so that it is one step during which candles go on closing. Time is
in candles; the content of a candle is left out. Every `get_klines` counts one more subscriber and a
stop takes one away: the count is capped at `MaxCount`, and no property says that a stream is closed in
the end, because it is not.

`MarkPrices`: the positions registered with `MarkPriceStreamManager` for one symbol, its connection, the
two seconds it sleeps before connecting (`Connect`, `Superseded`), and the REST task. `Open` and `Close`
are `register_position` and `unregister_position` with the subscriptions they lead to.

`UserStreams`: `ensure_stream_started` of several askers (`Ask`, `Look`, `CreateKey`, `CreateFails`),
`stop_stream` (`StopAll`), the connection (`Connect`, `Drop`), `_keepalive_loop` (`KeepAlive`), and the
validity of listen keys in half-hours (`Tick`).

`Database`: one engine and session factory. `Look`, `Validate`, `Enter`, `Make`, `Test`, `Bind` and
`Work` are the stretches of `get_db_session`, `get_engine`, `init_database` and `get_session_factory`
between which another thread may run. `LongOutages` lets an outage outlast the ten attempts of
`init_database`; the run says FALSE, and the observations say what happens otherwise.

### Risk

`RiskPause`: `CircuitBreaker` of `app/risk`, one per runner, with the persisted events, the loops and
the worker-thread checks. A check is a record that goes through `Consecutive`/`NotConsecutive`,
`Rapid`/`NotRapid`, `Cancel`, `Mark`, `Persist`: the thread may be overtaken after each. `Closed`,
`Order`, `Refresh`, `ManualClose` are the order manager's and executor's calls of it, `Reset` the route,
`Restart` a runner made from rows.

`RiskLimits`: daily and weekly loss limits of account and strategy, replaced or merged (`Effective`),
checked before every order (`Verdict`), and a refusal that stops the strategy (`StopSelf`) or pauses all
of the account one after the other (`BeginPause`, `PauseNext`). `Exposure`: check and reserve under the
account lock (`Check`), the paths that never confirm (`Abandon`), that release (`Fail`), and that
confirm (`Execute`). Nothing in `app/` passes the order manager a risk manager; the tests do, and the
two modules are of what then happens.

### Orders and what is accounted for

`OrderExecution`: threads with one signal go through `Execute` (memory of recent orders), then `Taken`,
`TakenUnseen` (executed, answer lost), `Refused` (the exchange knows the id), `Query`, `Record`,
`Verify`. `NewExecutor` is a restart of the strategy, which forgets what was recent but makes the same
client order id within the minute.

`Protection`: TP and SL orders of numbered positions. `Enter`, `Verify`, `Sweep`, `Place`, `Store` are
`_execute_order` and `place_tp_sl_orders`; `Exit`, `Exited` and `Sync` the cancellations; `StopCancel`,
`StopClose`, `StopEnd` the stretches of a stop that runs meanwhile; `TimeOut` is the end of the 30
seconds that `place_tp_sl_orders` is given. `Algo` tells a real account, whose TP/SL orders are out of
reach of the calls that list and cancel orders (`Reachable`) and whose answers may be lost (`Taken`),
from a paper account, on which nothing triggers. The runs say TRUE; what the paper client does with
orders is in `ManualTrading` and `PaperAccount`.

`ManualTrading`: the positions of one symbol and side of a real or a paper account (`paper`), openings
whose row is saved or not (`Open`, `Save`), requests that close in half or in whole (`Begin`,
`CancelStops`, `Order`, `Fails`, `Record`), new TP/SL (`Modify`), triggers (`Trigger`), the events by
which a close from outside is noticed (`Deliver`), and a restart of the process (`Restart`). `amount` is
what is open, below zero if of the other side: Binance rejects or cuts a reduce-only order that asks for
more than is open, the paper client ignores `reduce_only` and opens the other side (`Sells`). A row that
is `"lost"` is an opening that was filled and never saved: what is between the two may fail.

`CompletedTrades`: three callers that match one position's entries with its exits, each pair a
transaction with two row locks (`Find`, `Lock`, `Commit`, `Finish`); `Crash` ends any of them anywhere.
The entries a call has still to look at are the set `todo`, of which it takes the oldest; entries and
exits are numbered by their time. `Named` are the entries with the position's instance id; the others
have none, and are taken when all named ones are locked by somebody else (`Find`).
`MatchedInFull` excuses exits of which a call gave up (`cut`). `FifoMatching`: the loop of the report's
and the statistics' matching over a `batch` of trades, which are read from rows or left in memory after
any sequence of `Fill`s (`Restart`, `Load`). `Begin` sorts the batch and looks at its first trade; a round
of the inner loop is `Close`, what the code does with a trade after it (or instead) is `Open`. The entries of
`position_queue` are in the order of the trades that opened them, so `queue` gives what is open of each.
The loop has no await; what it returned is forgotten when the next thing happens (`Forget`). `TradeRows`: an order's row, its completed trade, and the sorted set
in Redis, written by whoever closes (`Save`, `Complete`) and by the external close (`Notice`,
`SaveNoticed`), read with `GetRecentTrades`. A save trims the set to its latest
`Kept` entries, a read only adds (`CachedSaved`, `Cached`). What is read is a set of orders and the length of the
answer, because an order may be twice in the sorted set.

### Strategies

`Scalping`: one evaluation is `Evaluate`, with the last closed candle and the answers of the indicators
as inputs; `Processed` follows `evaluate` top down (price exit, cross, flat or held, follow-up), `Sync`
is `sync_position_state`, `Outside` what the exchange does by itself. `taken` is history: crosses and
what was entered on them. `ReverseScalping` is the same module with the sides exchanged, because its
code is. `TrailingStop` keeps prices and levels as integers: `Update`, `Trail`, `Fixed`, `Close`, and
the four ways in which the manager is made anew (`Enter`, `Averaged`, `Mismatch`, `Restart`).
`RangeMeanReversion` is called with a sync before every evaluation (`Round`, live) or only when the
account changes (`Candle`, backtest): the two uses give different answers, see `range_rest`.

### Simulations and studies

`Backtest`: `Warmup`, `Candle`, `Finish` of `run_backtest`, with stops inside a candle, refused entries
and the strategy's belief beside the account's trade. `HistoryPages`: pages with gaps, errors and an
empty end. `Analyses`: walk-forward windows, grid search, sensitivity and the task table: `Window`,
`Fetched`, `Tested` (a combination may be skipped as invalid, and leaves no score), `Optimized`, `Trained`, `Validated`, `Aggregated`, `Vary`, `Ranked`, with
cancellations in between. `AnalysisRows`: results saved in two transactions (`Insert`, `Detail`), listed
by pages while others are added and deleted. `created` is the column `created_at`, as a number that grows
with every row; the place of a row in the list is the number of the reader's rows after it.

### Accounts, rows, messages

`PaperAccount`: `PlaceOrder` fills at once, `SaveRow` comes later, `NewClient` is made from the rows.
`AccountClients`: rows by user and clients by name; `Create` and `Commit` are apart, a client is added
between them. `StrategyRows`: a row's commit, the invalidation of its summary (`Update`, `Invalidate`)
and a reader's load and save (`Load`, `Save`) interleave; caches fail and expire.

`PriceAlerts`: a round is `Load`, `Evaluate`, `Send`, and users edit and delete in between; an edit
writes only what differs from what was loaded. `ServiceMonitor`: rounds and the messages a cooldown
suppresses. `TelegramCommands`: `Poll`, `Take`, `Done`, `Raise`, a conflict and a restart, against the
offset by which Telegram forgets an update.

Several of these modules are abstractions of code whose data TLC cannot evaluate: prices, averages,
amounts and scores are left open (any value that tells the branches apart may come), so that what is
checked is what the code does for any indicators.

### Composites

`MCMarket`, `MCMoney` and `MCRecords` check many small components in one run each. `part` is chosen once
and says which of them a behaviour is of; the variables of the others keep their initial values. The
state space is therefore the sum of those of the components, and nothing is claimed about their
interaction there. Where components interact, the interaction is inside a module: loop, stream and
ledger in `TradingLoop`; requests, loops, registry and rows in `StrategyLifecycle`; threads of the risk
breaker, runners and loops in `RiskPause`; a stop and a loop that places orders in `Protection`; start,
loop, socket and REST in `KlineStreams`. Properties of a composite name the components' own and are
conjoined by subject.

## Runs

| Run | Instance | Shows |
|---|---|---|
| `overlap` | 2 strategies of one symbol, 2 requests of any kind, 2 loops, limit 1, a restart | `TypeOK`, `NoOrphan`, `TaskLimit`, `ImplementsTraders` |
| `trading_loop` | LONG entries, 3 lots, 2 candles, 2 troubles of any kind | `TypeOK`, `SinglePosition`, `OwnedIsRecorded`, `ExitsReduce`, `ExitsTakeOwnLots`, `RowSettles` |
| `market` | see below | breaker: `ClosedBelowThreshold`, `SlotsCovered`, `ProbesBounded`, `LateAnswersDoNotClose`, `BreakerRecovers`; streams: `CandlesServed`, `ClosedIsProcessed`, `PositionsStreamed`, `StreamKept`; sessions: `Recovers`; lifecycle: `LoopsEnd`; `TypesOK` |
| `money` | see below | `RiskStops`, `LimitsKept`, `OrderOnce`, `NothingForgotten`, `AccountedOnce`, `TradesMatched`, `TradesRecorded`, `RowsTellLoops`, `TypesOK` |
| `records` | see below | `CrossesTraded`, `LevelsKept`, `BooksBalance`, `StudiesHonest`, `ClientsOwn`, `RowsKept`, `MessagesTrue`, `TypesOK` |
| `breaker_stuck` | 3 calls | **violated**: `HalfOpenEnds` |
| `start_race` | 2 strategies of one symbol, 2 starts | **violated**: `SymbolExclusive` |
| `delete` | starts and deletes, one at a time | **violated**: `DeleteStops` |
| `trading_shown`, `trading_manual` | that of `trading_loop`, with 2 lots | **violated**: `RecordedIsShown`; `OnlyOwnedIsClosed` |
| `orphans` | 2 positions on a real account | **violated**: `OnlyOwnOrdersClose` |
| `range_rest` | a live strategy, cooldown 1, 5 candles | **violated**: `WaitsNoLonger` |

The bounds, each of which a module's guards name, and why they are enough:

* *Breaker*: four calls, thresholds 2 and 2. With two slots, four calls are two of an earlier period and
two probes, which is what it takes to give back slots that were never taken. `success_threshold` is the
code's own; a failure threshold of 2 has the same two cases, below it and at it, as 5.
* *Lifecycle*: two requests are what a race needs, one that is suspended and one that runs past it, and
each may come back as often as it likes; two strategies are needed for the symbol conflict, for a loop
that stops itself, and for a limit that is reached. Requests, failures and self-stops are not bounded.
`money` has the same module with one request at a time, for `RowsTellLoops`, which overlapping requests
violate (`start_race`); `market` has one strategy and no restart, for liveness.
* *Trading loop*: two candles are an entry and a re-entry after whatever happened to the first; exits
are not bounded. Two troubles let one meet the other (an answer lost and then a restart, a close and
then lots of the user's own). With two lots the strategy's own lot and another's fit in one position,
and so does an entry too many; with three an exit may want more than its own lot, which is what an entry
begun beside the lots of two others leads to. Sides are alike in the code but for their names: the run has `{1}`, and
SHORT positions still come about, by an exit that meets no position and by the user's lots.
* *Streams*: two strategies on one candle stream of two rows, four candles (one to seed, one closed, one
missed, one late); two positions and three mark price connections; three askers, three sockets and two
keys; two sessions and outages that end before `init_database` gives up.
* *Risk*: two strategies and an account, threshold and cooldown 1, one check at a time, one persisted
event (the theorem below is for any of these; its invariant was also checked with a cooldown of 2 and
two events, and with two checks); three strategies of two units under an exposure limit of four, so that any two fit and three do
not; limits in money and percent, own ones that tighten and that replace.
* *Orders*: two threads, two minutes, one new executor; TP/SL orders of three
positions; two closing requests of halves of two manual positions.
* *Accounts of trades*: entries of 2 and 2 and exits of 3 and 1, so that one exit spans two entries and
two exits share one, and a third entry that has no instance; three fills of one to three units at two
prices; two orders, of which the cache keeps and answers with two entries.
* *Strategies*: five candles, cooldown 1, a window of 2 and one follow-up: a cross, an exit, a candle of
rest, a second entry and one that must be refused. Prices of the trailing stop are eight to sixteen
around levels of a third and a fifth, with at least one price at, above and below each.
* *Studies*: six candles in pages of two; two tasks of one user of which one may run; rolling windows
with a search and expanding windows that overlap; two analyses of a reader and one of somebody else.
* *Messages*: one alert of two symbols and three prices around its target, three commands and two
restarts, a cooldown of three rounds.

Only `overlap` and `money` use symmetry, over identities that nothing tells apart: requests, loops and
strategies; runners, strategies and positions. `ImplementsTraders` and the action properties of `money`
are safety properties, so that symmetry is sound for them; runs with liveness have none.

Deadlock is checked in the trading loop's runs, which always have a next step. Elsewhere the system may
really stop: nobody has to make a request, all bounded candles have come, a backtest is over, a breaker
refuses for ever (`breaker_stuck`).

Fairness. *Breaker*: time passes, running strategies go on asking for prices, and every HTTP request has
a timeout, so calls enter and leave. *Candles*: whatever a strategy awaits ends, by an answer or by its
timeout; it gets the manager's lock if that is free again and again (strong fairness: the lock is an
`asyncio.Lock`, whose waiters are served in order); the socket is read, and reconnected. *Sessions*:
threads go on. *Lifecycle*: whatever a request awaits has a timeout, a loop goes round again, a
cancelled one ends, a self-stop goes on, and the periodic cleanup runs for ever. Requests, failures,
outages and restarts are not fair: nobody has to make one. *Trading loop*: every await has a timeout, so
the steps of the loop are weakly fair, and `Evaluate` strongly because the loop reconciles only once in
five minutes; Binance answers and the stream is read. No trouble is fair, and neither is a candle.

### What the violated runs show

1. **A breaker that refuses everything for ever** (`breaker_stuck`). A half-open probe that ends with
`OrderExecutionError` keeps its slot; two of them use up `success_threshold`, and in HALF_OPEN neither
the clock nor anything else frees one.
2. **Two loops on one symbol** (`start_race`). Two starts that overlap both pass the conflict check,
which is not repeated after the await. One at a time they do not: `RowsTellLoops` in `money`.
3. **A deleted strategy that trades** (`delete`). A strategy is started by a request whose runner has
loaded its own summaries, so that the base runner's still says stopped. The delete reads that one, skips
`stop`, pops the task without cancelling it and removes the row: the step that removes it leaves the
loop trading.
4. **A closed position shown as the opposite one** (`trading_shown`). Order manager and executor both
apply the fill of an exit to the same summary: the second takes it for an entry of the other side,
writes and broadcasts it. The next read of the position corrects it, but not the cancellation of TP and
SL orders decided in between.
5. **A position of the user's that is closed on a signal** (`trading_manual`). An answer recorded after
the stream has reported both the position and its close brings the dropped instance back; the ledger
then owns a lot that is gone, and lends it to the next position of that side.
6. **TP/SL orders of an earlier position** (`orphans`). On a real account they are algo orders, which
neither `get_open_orders` lists nor `cancel_order` cancels. The sweep before new orders are placed
finds nothing, although its comment says that it cancels all existing ones; an order of the first
position stays, and closes the second one, which has an order of its own.
7. **A range strategy that never enters** (`range_rest`). The sync before every evaluation starts the
cooldown whenever the account is flat and no cooldown runs, whether or not there was a position: with
`cooldown_candles` of 1 or more the evaluation after it is always turned away. A backtest of the same
strategy trades.

## Proofs

TLAPS checks every obligation of eight modules, from the assumptions on the constants alone. A component
has its proofs for every value of its constants; those of a composite are about the composite's
specification, with the constants it gives its components and every value of its own. What a cfg gives a
composite for a component (quantities, limits, strategies, pages) is a constant of the composite for
that reason.

| Module | Theorems | Assumed of the constants |
|---|---|---|
| `StrategyLifecycleProofs` | `TypeCorrect`, `NoLoopOrphaned`, `LimitKept`, `TradersImplemented`; one request at a time: `RowsTellLoops`, `SymbolTradedOnce` | finitely many strategies, `None` not a loop, natural bounds |
| `TradingLoopProofs` | `TypeCorrect`, `OnePosition`, `LedgerKnowsPosition`, `ExitsOnlyReduce`, `ExitsTakeNoOtherLots` | sides among 1 and -1, a positive number of lots, natural bounds |
| `KlineStreamsProofs` | `TypeCorrect`, `StreamOutlivesLoops`, `RowsStayOrdered`, `FormingNotProcessed` | finitely many strategies, more than one candle asked for, a bound on the count above the number of strategies |
| `OrderExecutionProofs` | `TypeCorrect`, `TakenOnce`, `AnswersAreTrue` | natural bounds |
| `MarketProofs` | of `CircuitBreaker`: `TypeCorrect`, `NeverClosedAtThreshold`, `SlotsAlwaysCovered`, `ProbesAlwaysBounded`, `OpenOnlyToHalfOpen`; of `MarketSpec`: `PricesStreamed`, `AccountStreamed`, `CandlesAreServed`, `TypesAreKept` | finitely many calls, positive thresholds; `None` not a connection, an asker, a socket or a loop, and those of the components |
| `MoneyProofs` | of `Spec` of `MCMoney`: `LossesStop`, `RowsForgetNothing`, `OrderTakenOnce`, `LoopsHaveRows`, `TypesAreKept` | finitely many strategies and runners, identities that differ from `None`, positive threshold and cooldown |
| `AccountingProofs` | of `Spec` of `MCMoney`: `LimitsAreKept`, `QuantitiesOnce`, `OneReason`, `MatchedOnce` | finitely many strategies and exits, a sequence of entries, natural quantities, positive estimates, positive prices, quantities and fee rate of matched trades, a balance of whole percents, loss limits in whole units, reasons that differ from `None` |
| `RecordsProofs` | of `Spec` of `MCRecords`: `MessagesAreTrue`, `ClientsAreOwn`, `BooksAreBalanced`, `LevelsAreKept`, `StudiesAreHonest`, `CrossesAreTraded`, `RowsAreKept`, `TypesAreKept` | finitely many analyses, a page of one row at least; of the others what `ConstantsOK` of the instances says of the values given there |

The bounds that the guards name (`MaxCount`, `MaxLots`, `MaxTroubles` and so on) are natural numbers of
any size: the theorems say nothing of a particular instance. TLC evaluates each assumption in the runs
that extend the module, and the properties themselves in the runs above.

*CircuitBreaker.* `TypeOK` is not inductive: that the slot counter stays at most the threshold and the
success counter below it depends on what they count. The invariant is `TypeOK /\ ClosedBelowThreshold /\
SuccessesOnlyHalfOpen /\ SlotsCovered`, where `SlotsCovered` says that probes in flight and slots never
given back are covered by the slot counter plus the successes counted. From it follow the type
invariant, `ClosedBelowThreshold`, `SlotsCovered`, and `ProbesBounded`: fewer than `2 *
SuccessThreshold` probes at once (slots at most the threshold, successes below it).
`LateAnswersDoNotClose` is proved as an action property.

*StrategyLifecycle.* `NoOrphan` is not inductive either. A step that takes a loop out of the registry
must cancel the one it finds there (`RegistryOwned`: what the registry holds for a strategy is a loop of
that strategy), one that registers a loop must take a place where nobody trades, a loop in the middle of
stopping itself must still be registered (`LoopsRegistered`), and a request that resumes must still know
its strategy (`RequestsTargeted`). The proof has one lemma per action for types and one for the
registry; most use `StepKeepsRegistry`, which says once what a step must not do. From the invariant
follow `TypeOK` and `NoOrphan`, and with the cardinality of the registry, which only `StartRegister` can
increase, `TaskLimit`.

*One request at a time.* `LiveHasRunningRow` and `SymbolExclusive` are violated by overlapping starts
(`start_race`). `RowsTellLoops` and `SymbolTradedOnce` are proved from `OneAtATime`, that there is one
request at most. `SerialInv` adds what a suspended request still knows: a start that has passed the conflict
check would pass it again (`AdmittedAlone`), and a strategy about to be written off is registered no
more (`StoppedUnregistered`).

*Refinement.* `TradersImplemented` is `Spec => ImplementsTraders`: the initial states have no loop; a
`StartRegister` that adds a trading loop is a `Begin` of `Traders`, because by `NoOrphan` whatever
trades is registered (`TradedWithinRegistry`), so that the limit on the registry is one on the loops;
and every other step adds none (each action's lemma shows that it starts no loop, hands none over and
brings no deleted row back), and is an `End` or changes nothing that `Traders` sees.

*TradingLoop.* `TypeOK` says that the position stays within the margin and that the row's instance is
one of the ledger. It is not inductive: the position whose external close is being ingested, by the loop
(`gone`) or the stream (`clearing`), must be known to the ledger as well, or its exit would be written
beyond it (`IInv`). The four properties rest on `PositionInv`, whose parts say, each as far as what has
gone wrong allows:

* `Shared`: the strategy's share is part of the position, on the same side. Nothing spoils it.
* `OrderKnown`: where the loop is tells how far its order is, and what is in it.
* `SingleInv`, unless an order was given up or something untrue taken over: no order is late, an order
  is made only where its own share is known, and until it is decided nothing is added to that share.
  `SinglePosition` is a part of it.
* `ReducesInv`, unless a read fails or somebody closes the position too: an exit signal is for the
  opposite of what Binance has, and so becomes a reduce-only order: `ExitsReduce`.
* `SeparateInv`, unless an entry was begun beside several lots: no instance has bought more than one, so
  that no exit is for more: `ExitsTakeOwnLots`. The exception was found by the proof: with two lots the
  case cannot come about, which is why the run has three.
* `BookedInv`, when others do no more than add lots: a lot of the strategy's is the row's instance's
  except between its execution and its record, and the row loses the instance only when the lot is
  gone: `OwnedIsRecorded`.

*KlineStreams.* A subscriber count that every `get_klines` increments and a stop decrements once is not
what protects a stream; it does because it covers those who hold it (`CountCovers`: strategies whose
loop goes on, that wait to unsubscribe or connect, counted by cardinality). That rows stay in order and
that no forming candle is taken for a closed one needs three facts more: what is in the socket is in
order and not before what is in the buffer, only the last row may be forming, and the candle it is of is
the next to come in the socket.

*UserStreams.* Whoever makes a stream holds the lock and has taken down the one before; of a stream that
was replaced neither task is left; and the current one's key is the exchange's last, with time left on
it, more so if its keeper has just been at work.

*OrderExecution.* The exchange has one order of a key; what an executor remembers, and what a call goes
on about, are orders it has (`RememberedIsKnown`, `Sound`), in the state that was seen or, if that was
open, a later one. `AnswersTrue` follows, and `OncePerMinute` because an order that is known is refused.

*MarkPrices* and *ManualTrading* have few variables and their invariants are in the composites' proofs;
of *Protection* the types are proved. The one connection listens, is about to, or is polled for;
positions have one; and the count tells of it unless a subscribe has given back the count of a later one (`MarksInv`).

`NothingForgotten` compares what is open with the sum of what the rows tell of. A request to close writes
down what it read before it waited, so that a row may come to tell of less by a step that closes
nothing: the order that closed it was an earlier step, or the other request's. The sum alone is therefore
not inductive. The invariant (`ManualInv`) is that what is open can be shared out among the positions so
that neither the row of a position nor any request that will write it tells of less than its share
(`Shares`, `InOrder`, `UnderWay`). An order takes what it asks for from the share of its
position, as far as that goes, which leaves no more than the request will write; an opening adds to the
share of its own position.

*RiskPause.* `RiskStops` relates what a strategy has to keep of its cooldown (`blocked`, history) to the
breaker that the runner of its loop asks. `RiskInv` has the chain: it is told by an event, or the event
is still to be written by a check and the loop has been cancelled (`BlockedTold`); a runner whose breaker
is in memory has at least that much in it, unless it read an older one of several events
(`BlockedHeld`); a loop about to place is not one that a check runs beside (`PlacingUnchecked`); breakers
are of runners in use, and whoever checks has one (`BreakersUsed`, `CheckersLoaded`). A step in which a
strategy trades is then one of an order whose runner's breaker, loaded or in memory, forbids nothing, and
with one event at most there is no older one to read.

*Exposure.* `WithinLimit` compares what is exposed, and what the orders on their way may add, with the
limit; `Check` compares what is exposed and *reserved*. It holds because an order on its way has
reserved all it may come to (`InFullReserved`): a fill adds to the one sum at most what it takes from the
other. *RiskLimits* needs its types only: what `Verdict` reads is what `WithinLimits` is about, and no
step between the two changes either.

*CompletedTrades.* That no quantity is matched twice although three callers match at once is `TradesInv`.
What a call carries from one transaction to the next is out of date, but only in one direction: its rest
of the exit is at most what is left, and so is its rest of each entry (`CallRight`); the locks then make
the pair it writes fit. `MatchedInFull` needs more: a call leaves an entry behind only when the entry or
the exit is used up (`PassedUsedUp`, `PairsFill`), so that, if there is enough for all exits, a call that
is through with its entries has filled its exit (`ExitsRight`: otherwise every entry would be used up,
and by exits that are not as large together).

*TradeRows.* Rows and completed trades agree because who is still to save something was told of an exit
(`RowsReasoned`), and a short answer hides nothing because every member of the sorted set is an order's
(`CacheKnown`, `NothingHidden`).

*FifoMatching.* The promises of `TradesMatched` are about the end of the loop; `MatchInv` makes them
of every round, by what has been dealt with of each trade so far (`Moved`). What is open is of one side and
of trades looked at before (`QueueInv`), so a round closes a trade of the other side that came earlier,
and the pair it adds is a new one: all but the last exit of a pair's entry used it up (`PairsInv`). Then
the units of each trade in positions and queue are those dealt with (`UnitsInv`), and the gains are the
cash flow and the cost of what is open (`CashInv`): a round adds the price of the exit less that of the
entry, and takes the entry's cost away. The fees agree until an entry is split (`FeesInv`). An entry
that is closed at once is charged what it was opened at; of one closed in part the report charges a share
and leaves the whole fee with the rest, so what it charges is more from then on, and the matcher
takes the share of a share, which is less (`DivSome`, `DivLess`); neither is ever made good. That nothing is
open once as much was bought as sold follows from the one side (`NothingOpen`); that a batch as long as
the list of trades is all of them, in any order, from its numbers being different (`AllNumbered`,
`SumRenamed`).

*Sums.* The amounts above are folds over sets, and the library's induction over finite sets cannot be
instantiated. `Sum` is therefore defined as the value at the whole set of a function on its subsets that
gives each the sum of the others and one member. That there is exactly one (`SumsExist`, `SumsAgree`), and
that sums do not depend on the member (`SumWithout`), grow with their summands (`SumAtMost`), can be
added (`SumPlus`), taken in rows or columns (`RowsAndColumns`) and renamed (`SumRenamed`), is shown each time of the smallest
set that would be a counterexample, which exists because the subsets of a finite set are well-founded
under inclusion. The folds that the modules use are unfolded to that function.

*MCRecords.* The components do not touch one another, so that each has an invariant of its own:

* Messages. An alert that was told of is spent, in its row and in the copy that the round works with; the
  two agree on what they watch, unless an edit came in between (`RowTrue`, `LoadedTrue` of `AlarmsInv`).
  A monitor that has not looked yet has told nothing (`MonitorInv`). What Telegram has forgotten is dealt
  with; what the offset has passed is too, is under way, or will be fetched again; a command is carried
  out at most once more often than the server was restarted (`CommandsInv`).
* Clients. Only the client of the default account is the environment's; unless overtaken, a client has
  the keys of its row, or of the row that is being written (`ClientsInv`).
* Books. That averages lose nothing is arithmetic: a cost is a multiple of 144 as long as another order
  may come (`Holds`), so that halves, thirds and quarters of it are whole; `OrderBooked` then balances
  each order. The backtest needs only what `InStep` says (`BacktestInv`).
* Crosses. Whatever the parameters and the inputs, a look at a scalping strategy does one of five things
  (`Follows`): on no new candle, in a position, in its cooldown, on a cross, or without one. So
  `ScalpingInv` is kept: while it is flat, the cooldown already counted is of candles after its last
  position, and a regime it still has is of a cross it did not trade, followed up no more often than it
  has counted. `SameSteps` has the second strategy do what the first does, on the other side. A backtest
  without a trade has counted its cooldown or goes on in an entry that was refused (`RestInv`), and the
  range strategy is turned away only while it counts (`CountedInv`).
* Levels. A step forward is by a whole tenth of the best price, so take-profit and stop move with it and
  in one direction (`LevelsUpdated`); the range of a strategy is known from its first entry on and never
  forgotten (`Known`).
* Rows. Which page shows an analysis depends on how many come after it. Rows are numbered in the order
  in which they are written, none twice (`RowsNumbered`), so what has not been shown of those that were
  there at the beginning is at the offset or after it (`OnPagesToCome`): new rows move it further away,
  and what a deletion brought nearer is not promised (`due`). A page with fewer rows than it asks for is the last (`RanksDense`: ranks
  leave no gaps). What Redis has of a strategy is its row's version, unless an invalidation is under way
  or a reader saved what it had loaded before (`SummariesInv`).
* Studies. A page that is short, or full up to its last candle, has all there is before the first gap
  (`PageIsWhole`, `PagesInv`). Of the one result that is stored, the best score is what was better when
  it came (`KeptBetter`, `Scored`); each window of the two plans has its complete test (`WindowsOf`); an
  analysis that has not begun is not cancelled (`StudiesInv`).
* Types. What the invariants above leave open of them is added where it is needed (`AlarmsTyped`,
  `ClientsTyped`, `PaperTyped`, `PagesTyped`). The record that is a strategy's state is shown in two parts
  for every step, that it has just its fields (`Shaped`, `RangeShaped`) and what they hold (`Fielded`,
  `RangeFielded`): that a follow-up regime has its cross's candle and a flat strategy no trailing stop, or
  no entry price, is part of that. `TypesAreKept` puts them together (`TalkInv`, `TradeInv`, `StudyInv`).

*Composites.* `PartsApart` says that a step of `MCMarket`, `MCMoney` or `MCRecords` is one of a component
or leaves its variables alone. Where the component has proofs of its own these are instantiated with the
composite's constants, and a lemma (`StreamsShared`, `CandlesShared`, `OrdersShared`, `LifecycleShared`)
shows that initial states, steps and properties of the two instances are the same.

Only model-checked:

* the liveness properties (`RowSettles`, `BreakerRecovers`, `ClosedIsProcessed`, `Recovers`, `LoopsEnd`):
  fairness and `ENABLED` are beyond what the provers do here;
* the seven violations, which are counterexamples.

## Not modelled

* **Trade frequency, correlation, margin, market regime**: `TradeFrequencyLimiter`,
`CorrelationManager`, `MarginManager`, `MarketRegimeAnalyzer` are never instantiated by the program.
* **Sizing, metrics, indicators**: sequential arithmetic on floating-point amounts without state of its
own. Their results are inputs of the models, left open.
* **Auto-tuning** cannot run: `auto_tuning_task_manager.py` does not parse (line 185) and nothing
imports it; the service compares string ids with UUIDs and calls functions without their arguments.
* **The lazy restore** by the first `POST /strategies/`, `register` and `update_strategy_params` in the
lifecycle; the reconciliation of order statuses, which does nothing (below).
* **Hedge mode.** A paper account in `Protection`, where no order triggers. Orders that are open after
their verification, in `TradingLoop` (`OrderExecution` has them).
* **Leverage, precision, rounding, time synchronisation** of the clients; the REST fallback of mark
prices.
* **Texts** of notifications, reports and commands; push tokens; authentication, configuration, schema,
`alembic/`, `scripts/`, the web GUI and the Android client: input and output.

## Observations

Met while modelling; each is in the models as the code has it unless said otherwise.

*Trading.* An entry begun beside several lots of the user's is saved without an instance of its own, or
booked to an earlier one (`strategy_executor.py:656-690`), whose exits are then for lots that are not
the strategy's; the proof of `ExitsTakeOwnLots` found it. A failed read of the position is taken for a flat account everywhere
(`my_binance_client.py:2219`). The event of an open SHORT in one-way mode has a negative amount, and
what is not above zero is taken for a close: the manual position's row is closed while the position is
open (`strategy_runner.py:417`, `manual_trading_service.py:99`). `-1021` followed by a successful retry
is reported as an error. `cancel_algo_order` has no caller (`orphans`), and `place_algo_order` retries
after a lost answer without knowing whether the first was taken. `stop` cancels the TP/SL orders named
in the summary first (`strategy_runner.py:1731`) and the loop last (1858), so that orders placed in
between stay, on a paper account too, although `tests/test_critical_race_conditions.py:233-236` expects
"no orphan TP/SL orders"; ids that stay in the summary keep a later position from getting orders. A
strategy that is deleted can still be started by its summary in the base runner. Exits are refused by
loss limits like entries.

*Manual trading.* A row that is CLOSED can be closed again, for its whole quantity
(`manual_trading_service.py:384-414`), which on a paper account opens the other side. A close from
outside leaves rows that say PARTIAL_CLOSE as they are; its event may come before the row is saved, which
then says OPEN, or after another position has been opened, whose row it closes. An opening whose read of
the position or whose commit fails after the fill leaves a position without a row. `NothingForgotten`
allows all of these: the rows may tell of more than is open, not of less.

*Paper account.* `reduce_only` is ignored; a close of more than the position discards the excess but
pays its fee; a balance of 0 is loaded as the default; a client made by `create_account` has no callback
for its balance.

*Accounts.* Clients are kept by name across users; an update of an account leaves its client as it was;
creating the default account fails; two requests may both make theirs the default; the restore at boot
looks an account up by name.

*Streams.* The keep-alive of a listen key ends for good after one failure; `is_connected` is always
false with websockets 14 and later, so that every `ensure_stream_started` makes a new connection; each
`get_klines` counts a subscriber that nobody takes away. That is also why the branches of the fetch for
a strategy whose stream was closed are never taken (`StreamOutlivesLoops`).

*Risk.* `pause_all` run from a loop may cancel itself; the merged limit of a strategy is applied to the
account's loss, and its unit may be mixed; the peak of the drawdown is never recorded.

*Strategies and simulations.* A restart makes the trailing levels anew, looser than they were; the range
strategy never forgets its range; the backtest's `entry_candle_time` never equals a close time; "three
consecutive errors" of a history count chunks; a sensitivity analysis never looks at its cancellation
flag, and a cancellation in the last test of a walk-forward is overwritten by `complete_task`; the limit
of sensitivity tasks compares the user's own with the global maximum; analyses are saved in two
transactions.

*Trades.* Fees are counted twice where an entry is closed in parts; after a restart the statistics match
trades newest first; the cache of recent trades may hold an order twice, and answers with its oldest
entries where the rows answer with the newest.

*Database.* If all ten attempts of the first `init_database` fail, `_SessionLocal` stays None and
`get_session_factory` raises for ever, although `main.py:331-333` goes on in "degraded mode"; sessions
got from `__anext__()` are never closed.

*Requests.* `PUT /strategies/{id}` calls a synchronous update on an asynchronous session;
`update_strategy_params` compares a string with a UUID; `reconcile_order_statuses`
(`strategy_persistence.py:1102`) does so too and finds nothing. After a Telegram conflict (409) the
updates that wait are cleared.

## Plan

Modelled: every component of the table at the top but those under *Not modelled*. Proved: every safety
property of the passing runs. What is left to do:

1. The lazy restore in `StrategyLifecycle`: a start of every running row, and the error it writes for
   one that fails.
2. Orders that are still open after their verification, in `TradingLoop` as they are in
   `OrderExecution`.
3. The parts of `MCMoney` that meet in the program, composed: the reservation of an order that
   `OrderExecution` retries, and the loss limits on completed trades that `CompletedTrades` writes.
