# AlgoMatter: TLA+ models, checks and proofs

AlgoMatter is a multi-tenant trading service: webhooks and user-written
strategies turn into orders at crypto exchanges. This directory models the parts
of `backend/app` where requests, processes and failures interleave, or where a
computation is easy to get wrong, checks them with TLC on small instances and proves
the most important results with TLAPS for every instance. Line numbers below refer
to `backend/app` unless a path says otherwise.

## 1. The system

| Process | Code | State it owns |
|---|---|---|
| API (uvicorn, several worker processes, asyncio inside each) | `main.py`, `*/router.py` | broker pool per process, in-flight requests |
| ARQ worker | `backend/worker.py` | job queue in Redis, cron jobs |
| strategy runner | `strategy_runner/main.py` | APScheduler schedule in memory, running ticks and backtests |
| Postgres | `db/models.py` | all rows, tenant by tenant |
| Redis | – | counters and dual-leg state, strategy cache, rate limits, the backtest list, the pub/sub channel |
| exchanges | `brokers/*.py` | positions, open orders |

### Inventory

For each component: its state, operations, neighbours, what is hard, and the
properties that make it correct.

* **Dual-leg execution** (`webhooks/executor.py:144`, `webhooks/processor.py:114-175`,
  `brokers/exchange1.py:280-441`). State: `position_side` and `trade_count` in Redis, both with a
  TTL to midnight IST; the position at the exchange. Operation: one signal, which
  reads both keys, decides, authenticates, closes, clears, opens, books. Hard: no
  lock spans the awaits; Redis helpers swallow exceptions; an order may be executed
  though the call timed out; keys expire. Correct: never two contracts, what is held
  is tracked, the daily limit holds, a stop condition only closes.
* **Broker pool** (`brokers/pool.py`). State: pooled brokers and a lock per connection.
  Operations: `get`, `evict`, `close_all`; called by every live order of a webhook, together with
  the retry in `executor.py:109`. Hard: thundering herd, eviction under other orders,
  credentials changed or deleted in the database. Correct: one broker per connection,
  none in use is closed, a retry gets a new one, everybody is answered.
* **Webhook reception and rules** (`webhooks/router.py`, `executor.py:346`,
  `processor.py:16-111`). State: counters of open positions and signals in Redis, webhooks in
  progress, the signal log. Operations: one payload is mapped and judged for each of its
  strategies, executed, counted, answered, logged. Hard: check-then-act over concurrent
  webhooks, counters below zero, fallbacks when Redis is down, paper trades on a shared
  session nobody commits. Correct: limits hold up to what is in flight, every filled order
  has its row.
* **Strategy cache** (`webhooks/router.py:35`, `strategies/router.py`, `webhooks/slug.py`). State: the
  `strategies` rows, the rows that refer to them, one Redis entry per tenant. Operations: create,
  update, delete (each ends with a DEL), the deletion of a broker connection (none), the lookup of a webhook (GET, SELECT, SET). Hard: a SET
  after the DEL of an edit it did not see; the DEL may fail; a row may go while a webhook uses it.
  Correct: a webhook acts on a list that was current a bounded time ago.
* **Deployments API** (`deployments/router.py`, `deployments/service.py`,
  `paper_trading/router.py:263`). State: the `strategy_deployments` rows. Operations:
  create, promote, pause, resume, stop, stop all. Writes the row, then sends a message to
  the runner. Hard: rows are read and written in different transactions, messages get
  lost. Correct: stopped is final, limits hold, every pending row reaches the runner.
* **Strategy runner** (`strategy_runner/`). State: the schedule, registrations, ticks and
  jobs in progress. Operations: register, unregister, load at start, tick, backtest. Hard:
  it writes the rows the API writes; it may lag, die and restart; the code of a backtest runs on its
  loop. Correct: schedule and database agree, again after a restart, and a stopped deployment stops trading.
* **Orders and trades** (`strategy_runner/order_router.py`, `tick_runner.py`, `executor.py`, `strategy_sdk/`,
  `deployments/router.py:1187-1344`, `manual_trades/router.py`, `place_order` and `cancel_order` of the
  adapters). State: trade rows, the strategy's `user_state`, orders at the exchange. Operations: a tick
  (run the strategy, dispatch its orders, commit), manual orders, cancellation, stop-all. Hard: the
  exchange acts before the commit that records it; refusals, lost answers and failing
  commits in the middle of a batch; cancel against fill. Correct: a row claims no more than the broker's answer,
  nothing executed is unrecorded, nothing cancelled rests.
* **Hosted strategies** (`hosted_strategies/router.py`, `deployments/service.py`, the loading of code in
  `tick_runner.py` and `backtest_runner.py`). State: code, versions, deployments with their pinned
  version. Operations: create, update, upload, restore, delete, deploy, promote; the four SELECTs of a
  tick. Hard: two saves of one version; edits and deletion between the SELECTs. Correct: no save is lost, a
  deployment runs what it was made with.
* **Historical data** (`historical/`). State: the candle table. Operations: check, download page by page,
  insert, read; the daily fetch; the latest candles of a tick. Hard: candles close meanwhile, page
  boundaries, a failing page. Correct: no gap, no open candle, every request ends.
* **Simulated broker, CSV backtests and metrics** (`brokers/simulated.py`, `backtesting/`,
  `analytics/metrics.py`). State: cash, margin, positions, log and curve of one backtest, its row. Correct:
  the books balance for every sequence of orders; the metrics are what they are called.
* **Paper trading** (`paper_trading/`). Sessions with a balance and positions; the webhook changes them in a
  session that is never committed.
* **Signal recovery** (`executor.py:549-667`, `worker.py`). A cron job that enqueues rows with
  the result `queued` or `recovering` again; since orders are placed in the request nothing
  writes either, and it never finds one.
* **Rate limiter** (`middleware/rate_limiter.py`), **authentication** (`auth/`), **analytics reads**,
  **Nautilus adapter**, **infrastructure**, **frontend**: see section 6.

## 2. Modules

| Module | Models | Abstracts |
|---|---|---|
| `DualLeg` | one dual-leg strategy, the Redis keys, the exchange | symbols, prices and quantities: an order is one contract |
| `BrokerPool` | the pool of one process and its orders | what an order does; keys are numbers |
| `AtomicPool` | the abstract promise of the pool | the lock, credentials, failures and awaits |
| `Signals` | webhooks over several strategies, the rules' counters, the log | payloads and mapping: an order is a BUY or a SELL; the broker pool |
| `StrategyCache` | strategies of a tenant, the cache entry, webhooks' lookups, log rows and sessions | the fields of a strategy but slug, activity and broker connection |
| `BoundedStaleness` | the abstract promise of the cache | everything but the list and its age |
| `Deployments` | one tenant's rows, API requests, the runner | strategy code, candles and orders: a tick either sends its orders or fails |
| `Orders` | one deployment's ticks, manual and standalone orders, their rows, the exchange | quantities and prices; a strategy is one of three policies |
| `HostedCode` | one hosted strategy, its versions, deployments and runs | the text of the code: a model value |
| `VersionedCode` | the abstract promise of versions and pins | requests, SELECTs, conflicts and jobs in progress |
| `Candles` | the candles of one market, the table, its clients | the data of a candle: read while open, or closed |
| `CsvBacktest` | one backtest of a CSV file, the simulated broker, the metrics | order ids and times; money is in whole units, averages are rounded down |
| `MC…` | settings, symmetry and constants for TLC | |
| `…Proofs` (eight) | theorems | |

`Signals` takes the set of active strategies and the outcome of an order as inputs; `StrategyCache` models the
first, `DualLeg` and `BrokerPool` two ways the second comes about. `Deployments` says when a tick happens, `HostedCode`
and `Candles` what it loads, and `Orders` what it does with the result. Each takes the part of its neighbour
as nondeterministic input, with every value the neighbour can give.

### DualLeg

A request slot walks through the awaits of `_execute_dual_leg`: `Receive` (the trading
hours rule), `ReadState` (the MGET and the decision), `Authenticate`, `CloseLeg`,
`ClearPosition`, `OpenLeg`, `SetPosition`, `IncrementTradeCount`. Between any two of them
other slots and the environment may act: midnight, hours changing, a close by hand on the
exchange, a resting order filling, a crash. The variable `setting`, chosen at the start and never
changed, has the strategy's rules, whether signals come one by one, and which of these events can
happen (`Env`); one run explores several settings, and the proofs hold for all.
`RoutesToOpen` is the dispatch table of `_place_futures_order`, and `Filled` the effect of
the two endpoints: a close closes everything held in the symbol.
An accepted market order counts as executed at once, as the code takes it. `WriteSide` has the three
outcomes of SET followed by EXPIREAT inside a `try` that swallows. `openLegs`, `missed` and
`received` are history: `openLegs` counts the open legs executed today, `missed` those of them no request will ever count,
because the call timed out after the order was executed, a resting limit order was filled, or the process died before the INCR. The counter `wh:signals:*`, which the handler also increments, is read only by
the rule `max_signals_per_day` and is left to the model of the rules.

### BrokerPool

A task is a coroutine placing one order. `Get` is the unlocked lookup, `Locked` the lookup
under the lock, `FetchCredentials` and `CreateBroker` the two awaits of `_create_broker`,
`PlaceOrder` the order and what follows its failure. `waiting[c]` is the `asyncio.Lock`: its
head holds it, the others wait in order. `evict()` and the start of the next `get()` contain no await, so
they are part of `PlaceOrder` (`EvictAndGet`). A broker is identified by the number of its
creation, so that "the same broker" and "a newer one" mean something. `AuthErrors`
says how an adapter reports a 401: the pool's code allows for an exception, the two
adapters in the repository answer with a rejected order.

`AtomicPool` knows brokers that are pooled, issued and held, and no lock: a task finds the pooled broker or makes the next one in
one step, returns it, or discards it, and the pool is closed when nobody holds any. `BrokerPool` implements it with
`open <- up`, `pooled <-` the ids in `pool`, `issued <- created` and `held <-` what `using` and `conn` say: `Get` and `Locked` map to
`Find` or a stutter, `CreateBroker` to `Make`, `PlaceOrder` to `Return` or, with `EvictAndGet`, `Discard`, `CloseAll` to `Close`.

### Deployments

A request reads and decides (`CreateDeployment`, `PromoteDeployment`, `ChangeDeployment`,
`StopAll`, `StopSession`), then writes (`InsertRow`, `WriteStatus`), then tells the runner
(`Publish`): three transactions or calls in the code, three actions here. The runner
handles one message (`Listen`, then `RegisterRead`, `RegisterWrite`), one backtest (`TakeJob`,
`StartBacktest`, `EndBacktest`) and any number of ticks (`StartTick`, `EndTick`) at a time. After a
`RunnerCrash` it reads the rows (`RunnerStart`, `Reloaded`), registers them (`LoadNext`) and only then
subscribes (`Subscribe`). `cron` says what a row's expression is good for: with an `"invalid"` one, which
`validate_cron_expression` lets pass, `CronTrigger` raises; the listener logs that, the load does not
survive it (`LoadRaises`). A backtest's code runs on the runner's loop and may never return (`Hang`): the runner is then
`"stuck"`, its ticks, messages and registrations with it. The commit of a backtest's result may fail, and the row then
stays running. Pub/sub reaches a subscribed runner only. The environment
set `Env` says whether Redis may refuse (`"redis"`), whether a backtest may hang (`"hang"`), and whether paper deployments are also
stopped through the paper trading endpoint (`"session"`). `late` and `calm` are history: the
batches of orders sent since a deployment stopped running, and whether every request so far
came alone and found the runner with nothing left to hear. Rows are not deleted in this module; `HostedCode` deletes a strategy with its deployments.

### Signals

A webhook is received with any set of strategies (`Receive`; which ones are active is an
input), and each strategy's share of it goes its own way: `Evaluate` reads the counters and applies the
rules; `PlaceOrder` or `PaperTrade` executes; `UpdatePositions`, `Decrement` and
`CountSignal` are the Redis calls of `update_position_count` and `increment_signals_today`.
Paper trades wait for the gather and are then counted one after the other (`CountPaper`).
Rules are JSON nobody validates and are evaluated outside any `try`: malformed ones end `execute()` with an exception
(`Raise`). The live orders it has started as tasks go on and are counted, but nobody logs them, and `Gone` is the end
of the last of them (`escaped` remembers those that were filled).
`execute()` evaluates its strategies in the order of a list, while the orders of the
earlier ones are already under way; the model takes them in any order, since the rules of a
strategy read its own counters only. `Respond` sends the answer and `WriteLog` is the
background task. A paper SELL is always rejected: the session of the request is closed
without a commit (`db/session.py`, `webhooks/router.py:135`), so no position is ever there
to be sold. `fills`, `today` and `faults` are history. What `INCR` loses when
`EXPIREAT` fails afterwards is not modelled for `wh:signals`: its key carries the date.

### Orders

`setting` has the deployment's mode, broker and product, the strategy's policy and the environment. A tick
is `StartTick`, `RunStrategy` (the subprocess: orders and a new `user_state`, or an error), one
`DispatchOrder` per order, and `CommitTick`, which commits the rows and `user_state` together. A manual
order is `AcceptOrder`, `SendOrder`, `InsertRow`; a cancellation `AcceptCancel`, `CancelAtBroker`, `UpdateRow`: in
each the broker is called before the commit. `PlaceOrder(kind)` is the set of outcomes of an adapter: what is
then at the exchange, what it answers, and the id it gives. Exchange1 answers with an id only: whatever becomes of
the order, filled in full, in part, not at all, or resting, a market order is reported filled and any other open. It makes up an id
for a close that returns none. Binance reports the order's status; a market order that expires is `cancelled` to the adapter, though
a part of it may have been filled. A lost answer (`"lost"`) leaves any of these effects and is an exception (a timeout)
or `rejected` (an HTTP status of 400 and more, whether the exchange or a gateway in front of it sent it). `DispatchStatus` and `ManualStatus` are the three different translations
of an answer into a row's status. `Reaches` says whether `cancel_order` of a newly made adapter finds the order. `at` tells a row
in an open transaction (`"session"`) from a committed (`"db"`) and a lost one. A transaction may fail after its orders were sent: `TickFails` drops the rows and the
`user_state` of a tick (an order without a quantity, a NaN in the JSON, a log level that is too long, a deployment deleted
meanwhile), `RequestFails` those of a request, while the process goes on. `unsure`, `refused` and `losses`
(ticks lost by a crash or a rollback) are history. Rows are not deleted here: the
cascades of a deleted strategy or broker connection take the rows of finished orders with them. Pausing is in `Deployments`, not here: a paused deployment takes manual orders as a running one does.
`order_updates` is always empty and nothing asks for the status of an order later, so an order that rests when it
is recorded stays `"open"` in its row until somebody cancels it.

### StrategyCache and BoundedStaleness

An edit SELECTs (`BeginCreate`, `BeginUpdate`, `BeginDelete`), purges the rows that refer to a strategy
(`Purge`), commits or is refused by a constraint (`Commit`, `Rollback`), and deletes the cache entry (`Invalidate`). `DeleteConnection` is the foreign key of
`strategies.broker_connection_id`, ON DELETE SET NULL: it changes any rows at once and no DEL follows. A webhook does
`Get`, `Select`, `Set`, then acts on its list until `WriteLog`; one with a slug reads the database (`ReceiveTargeted`). `Tick` is the
passage of time: it ages the entry, the webhooks between SELECT and SET, and the lists replaced in the past.
`MaxFill` bounds the time from SELECT to SET: without such a bound nothing limits staleness, since `Set` writes
whatever was read. `FreeSlug` is `ensure_unique_slug`, the unique constraint is `Conflict`. Deleting a row that is gone succeeds (a warning
of the ORM); changing one fails.

`BoundedStaleness` knows a list that is replaced, time, and readers that are given the current list or one replaced
at most `Bound` ticks ago. `StrategyCache` implements it with `current <- Active`, `seen <-` the lists of webhooks
that act on one, and `Bound = Ttl + MaxFill`.

### Candles

Time is the number of the open candle. A backtest checks the table (`Check`: one candle counts as coverage), fetches page by page
(`FetchPage`, with `NextStart` after a full page, `NoMorePages` when the loop condition `start < end` fails), inserts
(`Insert`, ON CONFLICT DO NOTHING) and reads its range (`Read`). The command line and the daily fetch end with the insert. A tick
asks for `Limit + 1` candles and drops the last (`FetchLatest`, `WithoutLast`). `Close` may happen
between any two steps, `FetchFails` at any request. `began` and `fetched` are history.

### HostedCode

A request keeps the row it loaded and decides on it when it commits: `Update`, `Upload` (also the end of a
restore), `Delete`, `Insert`, `Promote`. `Conflicts` is the unique constraint on (strategy, version) and the missing row. A job is a tick or a
backtest, with one step per SELECT: `LoadDeployment`, `LoadVersion`, `LoadEntry`, `LoadState`, then `Run` and `Finish`. `saved`,
`pinned` and `ran` are history: successful saves, what was current when a deployment (or the first of its
parents) was made, and what was run.

`VersionedCode` knows the texts a strategy was saved with, in order, what each deployment is pinned to, and what was run: a save
appends, a deployment pins a text of the history or what its parent has, a run runs a pin. `HostedCode` implements it with
`stage <- row.is`, `history <- History` (the version rows by number, and the text of the strategy's row) and
`pin <- Pin` (the code `pinned` remembers for every deployment there is): `Update`, `Upload` and `Delete` map to `Save` and `Delete` when they commit
and to a stutter when they conflict, `Insert` and `Promote` to `Deploy` and `Promote`, `Run` to `Run`, and every load to a stutter.

### CsvBacktest

`Create` commits the row, `Load` parses, each `Signal` places one order at the broker and appends to log and curve, `End` and
`Commit` store the metrics; `BadSignal`, `LoadFails`, `Delete` and `Crash` come in between. `PlaceOrder`,
`Averaged`, `Reduced`, `NewPosition` are the branches of the simulated broker, `Metrics` and `MaxDrawdown` those of
`analytics/metrics.py`. Money is in whole units, and what an average is rounded down by is kept in the history variable `lost`;
the code computes with decimals of 28 digits, so that `lost` stands for their last one. Percentages of the metrics are rounded
too. Nothing validates the numbers of the request or
of the file, and all are any integers here: a sale of -5 grows the position and takes cash without a check, a BUY of 0 opens a position of
nothing, a BUY that undoes the position it adds to divides by zero (`Undoes`) and fails the backtest. `orderly` remembers that all orders so
far had a positive quantity and a price that is not negative; where it holds, and capital and commission are not negative either
(`InOrder`), `CsvTypeOK` says more: nothing is oversold, and the balance is overdrawn by no more than commissions (that of a sale is of the whole
order, also of the part that is not filled, and is taken without a check). NaN and infinity, which `float` and `Decimal` accept, are not modelled. The Sharpe ratio is left out but for the divisions that make
it, and with it the backtest, fail (`Divides`).

## 3. Runs

| Run | Checks | Instance |
|---|---|---|
| `MCDualLeg` | `TypeOK`, `SinglePosition`, `HeldIsTracked`, `TradeCountExact`, `MaxTradesOvershoot`, `ConfirmedCloseIsFlat` | 2 requests at a time, 4 in all, three settings: benign and serial; limit 2 with hours, timeouts, resting limit orders, crashes and midnight; limit 1 with every event |
| `MCBrokerPool` | `TypeOK`, `InFlightOpen`, `RetryIsFresh`, `Implements`, `EveryOrderAnswered` | 3 orders on one connection, 4 requests, 2 keys, every event, fair |
| `MCSignals` | `TypeOK`, `PositionsFloor`, `OpenPositionsLimit`, `DailyLimit`, `EveryFillLogged` | 2 webhooks at a time, 3 in all, a live strategy with a daily limit, a paper one with a position limit, every event |
| `MCStrategyCache` | `TypeOK`, `StaleHasReason`, `Implements` | 2 strategies, 1 name, 2 edits and 2 webhooks at a time, 3 edits or deletions of a connection, 2 webhooks or sessions, TTL 1, SELECT to SET 1, Redis may fail |
| `MCDeployments` | `TypeOK`, `LateTickOnce` | 2 rows, 2 requests at a time, 4 in all, 1 crash, every event |
| `MCDeploymentsServed` | `ScheduleAgrees`, `RestartCatchesUp`, `StoppedIsUnscheduled` | 2 rows, 4 requests one at a time, a lagging runner, 1 crash, backtests that may hang, fair |
| `MCOrders` | `TypeOK`, `StatusTrue`, `CancelledIsDead`, `ActsOnce`, `ExecutedIsRecorded` | 2 orders, 2 requests at a time, batches of 2, 1 tick lost, five settings: both brokers under refusals and lost answers, a strategy that buys once under every event and on paper, one that looks at its position |
| `MCHostedCode` | `TypeOK`, `HistoryIsComplete`, `RunsPinnedCode`, `Implements` | a good and a bad text, 2 entry points, 2 requests at a time, 3 in all, 2 deployments, 2 jobs |
| `MCCandles` | `TypeOK`, `DownloadIsComplete`, `TicksSeeClosed`, `RequestEnds` | 4 candles, pages of 2, 2 clients, 2 requests over 4 ranges, both markets, failing requests, fair |
| `MCCsvBacktest` | `CsvTypeOK`, `BooksBalance`, `DrawdownIsWorst` | every sequence of 3 orders: 2 symbols, 3 prices, quantities -1 to 2, four configurations: with and without capital, slippage and commission, and with negative ones |

What they show. A signal at a time, a reversal never holds two contracts, and between signals the exchange holds what Redis
tracks; `n` at a time pass `max_trades` by at most `n - 1`, and by the legs
executed without an answer, which are also all the counter leaves out; after a close that was taken for one nothing is held, whatever fails.
The pool's double-checked lock cannot be told from a pool that makes its brokers in one step: it creates one broker and nobody's is
replaced; nobody uses a closed one, and no exception leaves an order waiting. The limits of the rules are passed by at most what is in flight, and a filled order has its
row even when the order of another strategy of its webhook raises; when the rules of another strategy raise, it does not. A webhook acts on strategies at most `Ttl + MaxFill` old, and
the entry differs from the table only for the four reasons `StaleHasReason` names. A deployment that was stopped sends
at most the batch of the tick that was running. Until a message or the runner is lost, and with requests that wait for the runner, the
schedule is that of the running rows; a runner that died makes up for what it missed when it loads; with a runner that lags, stopped deployments
still lose their schedule if requests do not cross. A trade row claims no fill the broker did not, and no failure of an order that has bought unless the
answer was lost; a batch with a failing order is still recorded; a strategy that remembers its purchase repeats it only for a tick that a crash or a
failing commit undid. Versions
have no gap and no lost save, and what runs is what was pinned: to its users the table of versions, the optimistic check and the SELECTs of
a job are a history that grows by one text in one step, and deployments that refer to one of them. A download has no hole at a page boundary.
The books of the simulated broker balance, and its drawdown is the worst loss between any two points.
On this instance averages are sometimes whole and sometimes rounded, and a negative sale or capital makes equities negative too.

What the documents promise and the code does not do; each of these runs ends in a
counterexample:

| Run | Property | Source | What happens |
|---|---|---|---|
| `MCDualLegStop` | `StopOnlyCloses` | `executor.py:195` | at the limit, a BUY while long buys once more |
| `MCDeploymentsTerminal` | `StoppedIsTerminal` | `backtest_runner.py:38` | a backtest that was stopped runs and completes |

### More disagreements

Seven definitions state what a document or a comment says, and TLC refutes them on the instances above when they are
added to the configuration in question (the liveness ones of `Deployments` on that of `MCDeploymentsServed`); they have no
run of their own.

| Definition | Code | Says otherwise |
|---|---|---|
| `BrokerPool!AuthErrorRetried` | `executor.py:122` waits for a result the adapters never give for a 401/403: they answer `rejected` | docstring `executor.py:116`: "Place order, retry once on auth error after evicting stale cached broker." |
| `Deployments!PendingIsScheduled` | `deployments/router.py:735` inserts a pending row and publishes nothing | design of deployments, line 403: "Deployment create/resume → scheduler adds job with cron expression" |
| `Deployments!RestartReschedules` | `scheduler.py:100` skips rows without a cron expression, which creation had scheduled every five minutes | line 405: "Service restart → reads all `status=running` deployments from DB, re-registers crons" |
| `Orders!BuysOnePosition` | no statement of `tick_runner.py` or `order_router.py` writes `position`, so a strategy always sees none | line 330: "The runner is responsible for updating `position`, `open_orders`, and `portfolio` […] after processing orders and fills." |
| `HostedCode!CodeLocked` | `tick_runner.py:26` reads the entry point of the strategy as it is now | line 439: "Editing code creates a new version but doesn't affect running deployments." |
| `Candles!RangeIsReturned` | `downloader.py:130` downloads only if not one candle of the range is cached | docstring `downloader.py:126`: "Downloads from Binance if insufficient" |
| `CsvBacktest!PnlIsOwn` | `engine.py:70-72` takes the accumulated profit of the first closed position of the symbol | comment `engine.py:64`: "Compute PnL for this trade entry" |

The design of deployments is `docs/superpowers/specs/2026-03-28-strategy-deploy-backtest-design.md`.

Others are visible in the models without a definition:

* Two BUYs that read an empty `position_side` both open (`executor.py:166`; `MaxTradesOvershoot` bounds only what
  the limit loses). `position_side` expires at midnight while the position stays open (`processor.py:135`). A
  signal outside the trading hours is blocked by the rules (`executor.py:404`) before the dual-leg code,
  whose own stop condition would close the position, is reached.
* `register_deployment` reads a pending row and writes `running` in a later statement (`scheduler.py:71`): a stop of a paper or live deployment
  in between is overwritten, and so is not terminal. Two requests that cross may publish in another order than they wrote (resume and stop,
  create and stop-all): the stopped deployment keeps its schedule, whose ticks do nothing until it is resumed. A cron expression of five
  fields is all that is validated, and for a promotion not even that (`deployments/router.py:706`): one that `CronTrigger` rejects
  makes `load_active_deployments` raise, and the runner of all tenants does not start (`scheduler.py:56`).
* A backtest runs the user's code on the runner's loop, without a timeout (`backtest_runner.py:60`): one that does not return stops
  all ticks and registrations. When the commit of its result fails, so does the one that would mark it failed (`backtest_runner.py:106`), and
  the row stays running.
* A dual-leg order that was executed though its call timed out is not counted (`executor.py:217`), nor is a limit order that is filled later: nothing
  bounds by how much such legs pass `max_trades`.
* Malformed rules of one strategy (`executor.py:397`) end a webhook with a server error while the orders of others are being placed; they are
  executed and not logged.
* Exchange1 market orders are `filled` on acceptance (`exchange1.py:272`), though the adapter's own table of states knows orders that are
  partly filled, rejected or expired. An HTTP error is `rejected` though the order may be at the exchange (`exchange1.py:172`,
  `binance_testnet.py:149`). A Binance market order that expires after a part of it was bought is `failed`, or `open` for a standalone trade
  (`binance_testnet.py:248`).
* A commit that fails after live orders were sent (`tick_runner.py:118`) loses their rows and the strategy's state, and the next tick
  buys again, with no process having died.
* With `"session"` in `Env`, `StoppedIsUnscheduled` is false: `stop_session` (`paper_trading/router.py:303`) does not
  tell the runner. `check_deployment_limits` does not count pending rows and counts before the insert
  (`service.py:48`), so two deployments created together pass the limit the design gives.
* `max_open_positions` blocks SELLs too (`processor.py:38`), and the counter it reads has no expiry: a strategy at its
  limit cannot close. Credentials changed with PATCH (`brokers/router.py:137`) do not reach the pooled broker.
* A deployment's manual order is `filled` whatever the broker answers (`deployments/router.py:1261`). `cancel_order` of a Binance
  deployment never reaches the exchange, since the new adapter does not know the symbol (`binance_testnet.py:265`), and the row says
  cancelled; it does not look at the row's status either. The id made up for an Exchange1 close cannot be cancelled. stop-all
  cancels rows `submitted`, which no transaction ever commits (`deployments/router.py:614`).
* A rename counts the strategy's own slug as taken (`slug.py:38`), so it may become `name-2`. Deleting a broker connection leaves the cached strategies with it for the TTL (`brokers/router.py:193`). Deleting a strategy that is logged to
  meanwhile fails with a server error, and one deleted strategy makes the log rows of a whole webhook fail.
* A download does not ask for the candle that opens at its end date when that starts a page (`binance.py:49`). An open candle that is
  stored is never corrected (`downloader.py:80`). The only candle of a market is given to a tick though it is open (`binance.py:120`).
* Saving and restoring do not check the syntax an upload checks. A tick of a strategy that is deleted after its state was loaded
  sends its orders and cannot record them.
* A malformed CSV file leaves its row queued (`backtesting/router.py:144`); what is not BUY is sold, and a BUY never closes a short
  (`simulated.py`); commission is charged on the whole order when a part is sold. The docstring of `metrics.py:18` gives a profit factor of
  0 without losses, the code 9999.99 (`metrics.py:44`).

**Bounds.** `MaxRequests`, `MaxEdits`, `MaxHooks`, `MaxJobs` and `MaxSignals` bound the requests, edits, webhooks, runs and
file rows of a behaviour, `MaxKey` the keys of a connection, `MaxCrashes` the crashes of the runner, `MaxLosses` the ticks lost to a crash or a rollback, `MaxBatch` the orders of a tick,
`Orders`, `Strategies` and `Deployments` what is ever created, `LastCandle` the candles. `MaxFill` is not a bound of the search but a
bound on a latency, part of what is claimed. In `Signals`, `MaxOpen` and `MaxSignals` are the limits of the rules. Two requests at a time are the
smallest number with every race of two; three orders on one connection are the smallest with
one holding the lock, one queueing and one failing late. Four signals pass
through open, reverse, stop and a new day. Two deployments are enough because rows
only meet in the limits and in the runner's single listener and single backtest; two orders because an order meets only
those of its batch and its own cancellation. Two webhooks at a time with limits of one
are enough for each limit to be passed, and a third to be judged by what they left. Two strategies with one name collide
in their slug. Three edits are enough to replace a list, have it filled and replace it again. Four candles in pages of two have a full, a partial and
an empty page. Three requests create two versions that collide and a deployment. Three orders buy, average and sell a part or all, or
undo what they bought; two peaks need the four points of three orders. Slots, tasks, webhooks, rows and the like are interchangeable,
hence the symmetry sets; runs with a liveness property use none. The proofs below do not depend on any of these numbers.

**Deadlock** is not checked: every model may come to rest, when the bounded requests have been
used up and nothing is left to do.

**Fairness.** `BrokerPool`: the event loop resumes a coroutine whose await is over,
clients and database have timeouts, and `asyncio.Lock` is first come, first served, so
each task's `Handle` is weakly fair. `Deployments`: a request goes on to its answer, and the
runner's loops (load, listen and register) go on while it is up and not `"stuck"`: user code that holds the loop for ever is a state
of the model, not assumed away. Backtests are not fair, and nothing is claimed of their end. `Candles`: a client that
has begun goes on, since its HTTP requests have timeouts (15 and 30 s). No fairness
is assumed of users, exchanges, crashes, restarts, cron or the clock.

## 4. Proofs

All proofs are by an inductive invariant: it holds initially, every action preserves it,
and it implies the property. They assume only the `ASSUME` of each module; a restriction on the
environment, where there is one, is part of the property.

* `DualLegProofs!TypeCorrect`: `TypeOK` is inductive.
* `DualLegProofs!SerialSafety`: `SinglePosition` and `HeldIsTracked`, which speak of `Benign` settings (serial
  signals, no limit, no hours, only refusals and closes by hand). Neither is inductive: the invariant
  `SerialInv` says, for each await, what the exchange may hold there (nothing in front of the
  open leg, the new side in front of `SetPosition`, the tracked side or nothing when idle).
* `DualLegProofs!TradeLimit`: `TradeCountExact` and `MaxTradesOvershoot`, which speak of settings that are `BookingReliable` (Redis
  writes work; crashes, timeouts and resting orders are allowed): the count, the legs being booked and those missed are the legs executed, and every
  request that will open read a count below the limit; at most one per slot is on its way, which gives
  `MaxTrades - 1 + Cardinality(Slots) + missed`.
* `DualLegProofs!ReversalClosesFirst`: `CloseNeeded` says that a request at its close leg has a side to close (`NeedClose`), outside a stop
  condition the opposite of its signal, so that the adapter routes the leg to the endpoint that closes. It holds in every setting.
* `BrokerPoolProofs!TypeCorrect`, `OneBrokerAtATime`, `RetryUsesNewBroker`: the invariant says that whoever is in
  `get()` is in the lock's queue, that whoever creates is its head and finds the pool empty,
  and that ids in the pool never run ahead of `created` and, for a task that is
  retrying, are above the id that failed.
* `BrokerPoolProofs!InFlightStayOpen`, `LockIsServed`: `ClosedAtEnd` says that nothing is closed while the process is up and that nobody is in
  progress afterwards. `QueueInv` says that a queue holds tasks of its connection that wait or create, so that its head is always
  one that will release it.
* `BrokerPoolProofs!PoolIsAtomic`: the refinement, one step of `StepIsAtomic` per action. `Numbered` says that a pooled broker has a number and that
  exactly the tasks about to place an order hold one; the rest is the invariant above: whoever creates finds the pool empty, and
  nobody holds anything when it is closed.
* `DeploymentsProofs!TypeCorrect`: rows are never removed in the model, so what the schedule, the
  queue and the channel refer to goes on existing.
* `DeploymentsProofs!AtMostOneLateTick`: `LateInv` adds that nothing has been sent late
  while the deployment runs or while a tick is in progress. It holds for any number of
  requests, with a busy or crashing runner and a failing Redis.
* `DeploymentsProofs!ScheduleFollowsRows`: `ScheduleAgrees` speaks of quiet moments only; `InStep` says for each row, in between, what the runner
  will still do to it (a message to register or unregister in the channel or about to be sent, a registration that has read or
  will write), which agrees with its status, and `JobsAndReg` that backtests are a business of their own. It needs
  requests that wait for the runner (`calm`).
* `DeploymentsProofs!StopsAreHeard`: what `StoppedIsUnscheduled` rests on, for a runner any number of messages behind. `Told` says
  that the last message about a paused or stopped deployment unregisters it, or is about to, or has been heard.
* `SignalsProofs!TypeCorrect`: with `StepsOK`, which says that a webhook has steps only while it runs and
  that an order about to be placed is not among its filled ones.
* `SignalsProofs!FloorHolds`, `OpenPositionsLimited`, `DayLimited`: for each strategy the counter is bounded
  together with the number of webhooks on their way to change it (`Number`): those about
  to decrement, those between the verdict and the increment, those filled and not
  yet counted. A step moves one webhook, so that number changes by at most one
  (`NumberMove`), and when the rules let one pass, it was not among them before (`NumberRoom`).
* `SignalsProofs!FillsAreLogged`: rows written, webhooks that have a fill and no row yet, and the fills of webhooks that failed
  are the fills; the last are none while no rules raised.
* `OrdersProofs!TypeCorrect`, `RowsTellTruth`, `CancelledOrdersDead`, `ExecutedRecorded`: one invariant, `Inv`. `Life` says what an order
  may have at each stage of its row (nothing before it is sent, lost only by a crash or a rollback), `TickOK` that
  an order in the tick's transaction has been dispatched or is still in the batch, `SlotsOK` that a request holds one order and what it knows of it,
  `Truth` is `StatusTrue` from the moment the answer is noted, and `Dead` that the row of a cancelled order was preceded by an attempt at the
  exchange that left it dead, refused it or could not reach it.
* `OrdersProofs!BuysOnce`: `Once` adds that the orders placed by the strategy are at most `losses`, plus one if
  `user_state` says so or a tick is about to.
* `StrategyCacheProofs!TypeCorrect`: a row of the log is written only for rows that exist, and a deletion commits only if no
  row was added since the purge.
* `StrategyCacheProofs!CacheKeepsPromise`: the refinement. `Known` says that the entry, with `left` ticks to live, holds a
  list that is current or was replaced at most `Bound - left` ticks ago, and that what a webhook is about to SET is at most
  `fill` ticks old; so each step of a webhook maps to `Serve`, `Finish` or a stutter, a commit to `Replace`, `Tick` to `Tick`.
* `StrategyCacheProofs!StalenessExplained`: `StaleHasReason` is inductive as it stands: `Set` notes in `excused` when what it writes is no
  longer current, and a commit is followed by its DEL (`AfterCommit`).
* `StrategyCacheProofs!OneStrategyPerSlug`, `SlugIsFound`: the unique constraint keeps slugs apart through every edit; and by the pigeonhole
  principle one of the numbers `ensure_unique_slug` tries is free, so that its loop ends and `FreeSlug` never blocks an edit.
* `BacktestProofs!TypeCorrect`, `DownloadComplete`, `TicksClosed`: `ClientOK` says for each step of a client that what it has is every
  candle from its start to the cursor that had closed when it began. The lemmas about a page use that an answer
  is an interval: a page that is not full therefore ends the range.
* `BacktestProofs!DownloadsAreFinite`: what `RequestEnds` rests on. `StepsLeft` is a natural number that every step of a client makes
  smaller, since a full page moves the cursor (`PageIsComplete`), and no step of another client changes.
* `HostedCodeProofs!TypeCorrect`, `HistoryComplete`, `PinnedCodeRuns`, `NoFallback`: `RequestsOK` says that a loaded version is not
  newer than the row, so that a save either is the next version or conflicts; `PinsOK` that the pinned version is in the history with the pinned
  code; `JobsOK` that a job past its SELECT has that code, and has the fallback only if its deployment is gone.
* `HostedCodeProofs!CodeIsVersioned`: the refinement, one step per action, over the same invariant and three facts about the mapping.
  `HistoryIsTable`: the abstract history has one text per version row and the row's own (a table with a gap would have
  none). `SaveIsAppend`: a save that does not conflict appends to it, and a conflicting one, which changes nothing, cannot append. `InsertIsPin`: a new
  deployment pins what the abstract one does, and moves no other pin. A run is the abstract one because what a job has loaded by then is
  the pinned code (`JobsOK`), although the table may have grown, or gone, between its SELECTs.
* `BacktestProofs!CsvTypeCorrect`: `BrokerOK` says that every position has its type and is empty when it is closed, and, while all numbers are in
  order (`InOrder`), that open ones are not empty and that the balance and the commissions paid are together not negative; `PlaceOrderOK` that each of the four things
  `place_order` may do (`PlaceOrderCases`) preserves it.
* `BacktestProofs!CsvBooks`: `BooksBalance` is inductive, given `CsvTypes`; the work is in the sums. `Additive` is a function that gives
  every subset of a finite set its sum; it exists (`AdditiveExists`), the fold of the library is one of them whatever
  elements it picks (`SumsAre`), and so a sum changes by the difference of a term that is replaced and by a term that
  is added (`TotalReplaced`, `TotalAdded`). `PlaceOrderBooks` then balances each kind of order.
* `BacktestProofs!CsvDrawdown`: `Found` says what the pass over a curve knows after any set of its points: the peak, and the worst
  loss on a point before. One more point preserves that (`AdvanceFinds`), because the loss on a higher point is no
  smaller (`DropMonotone`, which needs what `Divides` says: no zero before the end); so the fold of `_compute_max_drawdown` has the maximum in the end. The
  property speaks of curves that commissions have not overdrawn: with a negative equity in front of the fraction the two differ.

`CsvBacktest` shares a module of proofs with `Candles`, which extends both; its `CsvInit`, `CsvNext` and so on are named for that. Its lemmas on folds need induction over the
subsets of a finite set; the induction theorems of the library take a predicate as a parameter and cannot be
used, so `SubsetInduction` takes the set of the subsets a fact holds of, and is proved from a minimal counterexample (`WFMin`).

Only model-checked: the liveness properties (`EveryOrderAnswered`, `StoppedIsUnscheduled`, `RequestEnds`), since the prover
does not handle fairness and `ENABLED`, though `LockIsServed`, `StopsAreHeard` and `DownloadsAreFinite` prove the safety part of each; and
`RestartCatchesUp`, whose inductive invariant would have to follow every message through crash and load. Every other property of section 3 is a theorem. `FallbackNeverRuns` is a theorem only (`NoFallback`). The counterexamples are TLC's.

## 5. Plan

Done: the modules of section 2, their runs, and proofs about all of the detailed ones. Left, most important first:

1. Composition of `Signals` with `DualLeg` (whose `Receive` becomes the rules' verdict) and with `BrokerPool`; of `Deployments` with
   `Orders` (whose `running` becomes the status).
2. `Deployments` with rows that a deleted connection removes, and a listener that dies alone.
3. A refinement for `Orders`: an abstract specification of a batch that is recorded in one step.

## 6. Not modelled

* **Signal recovery**: it looks for rows with results nothing writes, and so has no effect.
* **Paper sessions' balances** (`paper_trading/engine.py`): no statement that changes them is followed by a commit, so that
  there is no state to keep consistent. The outcome of a paper trade is in `Signals`.
* **Rate limiter**: one Redis pipeline per request and no state of its own between requests.
* **Authentication and tenancy**: tokens share no state with orders; the models are of one tenant.
* **Read-side code**: lists, results, comparisons, the analytics service, quotes, balances and symbols of the brokers; there is no
  step another actor could come between. Signing, mapping and validation are formatting.
* **Nautilus adapter**: bridges to a third-party engine; `Deployments` sees it succeed, fail or never return. Its strategies run in one thread.
* **Strategy code**: any; a tick's orders are a choice, except for the two policies of `Orders` that name what a strategy decides on.
* **`strategy_runner/health.py`** is called by nothing. **Infrastructure** is wiring; the constraints of the tables are in the
  models of the code that meets them. The **frontend** and website keep nothing the server relies on.
