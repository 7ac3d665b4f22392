# Formal models of the auto-trading system

TLA+ specifications of a Kiwoom Securities auto-trading program (Python, one
asyncio process around a REST client, a WebSocket client and a set of services),
model-checked with TLC on small instances and, where it matters most, proved with
TLAPS for every value of the constants. Paths below are relative to `src/` of the
program unless they name a module of this directory.

1. [Inventory](#1-inventory) - 2. [Plan](#2-plan) - 3. [Order executor](#3-order-executor) -
4. [REST client and rate limiter](#4-rest-client-and-rate-limiter) -
5. [Order pipeline](#5-order-pipeline) - 6. [Market feed](#6-market-feed) -
7. [Services](#7-services) - 8. [Runs](#8-runs) - 9. [Proofs](#9-proofs) -
10. [Known divergences](#10-known-divergences) -
11. [What is only model-checked, and what is not modelled](#11-limits)

## 1. Inventory

All services run as tasks of one event loop: a task runs from one `await` to the
next without interruption. What is hard is therefore what an `await` lets happen
between a check and the act that relies on it, and what cancellation, timeouts and
dropped messages do to state shared by reference.

| Component | State | Operations | Talks to | Hard behaviour | Correct when | Modules |
|---|---|---|---|---|---|---|
| Order executor `services/order_executor.py`, with `duplicate_checker.py` and `order_validator.py` | `pending_orders`, `positions`, fields of `Order`, `account` | `execute_order`, `cancel_order`, `run` (event consumer), queries | called by strategy engine and risk monitor; calls the client; reads `order_event_queue` | five awaits in one call; cancellation in flight; events racing the answer; id rewritten by the client | one unfinished order per stock and side; finished orders forgotten; failures leave nothing behind; positions of traded stocks follow the broker; calls return | `OrderExecutor`, `OrderSlots`, `OrderExecutorSlots` |
| REST client `api/kiwoom_client.py` | access token and expiry, HTTP client | `connect`, `close`, `_request` and the endpoints built on it | rate limiter, broker | shared token checked before an await; limiter changed at run time; retries of a POST; close during requests | every request ends; token valid when used; attempts bounded | `KiwoomClient` |
| API rate limiter `api/rate_limiter.py` | heap of waiters, history deque, processor task | `acquire`, `start`, `stop`, `update_rate_limit` | REST client | sleeping processor holding a popped request; cancellation; restart after `stop` | never more than the limit in a window; urgent first; nobody waits for nobody | `RateLimiter` |
| Order pipeline `services/order_pipeline_optimizer.py`, `order_worker_pool.py`, `order_batch_aggregator.py` | task queue, buffers and timers, circuit breaker | submit, batch, retry, scale, switch mode, start, stop | executor | retry into the full queue the worker drains; stop order; callbacks kept for all | no order is in two places, lost between parts or executed after it ended; the breaker holds | `OrderWorkerPool`, `OrderBatchAggregator`, `OrderPipelineOptimizer` |
| WebSocket client `api/kiwoom_websocket.py` | connection, login, subscriptions | connect, login, subscribe, reconnect | broker, collector | several tasks connect, read and log in through one client | subscriptions survive a reconnect | `KiwoomWebSocket` |
| WebSocket data collector `services/websocket_data_collector.py` | bounded queues, stock codes, REST fallback | session, callbacks 00, 04, 0B, 0D; polling fallback | WebSocket client, executor, stream | fallback and retry tasks outlive each other; `put_nowait` drops when full | the session always comes back, with the order messages | `WebSocketDataCollector`, `TickStream` |
| Strategy engine `services/strategy_engine.py` | strategies, positions, cooldowns | tick consumer, order book consumer, buy and sell | executor, stream | shares `positions` by reference only if not empty | never acts on a tick older than one it was behind; stops are set | `TradingLoop`, `TickStream` |
| Risk monitor / manager `services/risk_monitor.py`, `risk_manager.py` | positions, daily loss | monitoring loop, triggers, stop verdict | executor, account cache | sells concurrently with the engine; failed sales | a limit that was set is acted on | `TradingLoop` |
| Account service and cache `services/account_service.py`, `cache/account_cache.py` | account, age | refresh, sync task, estimate after a fill | client, engine, risk | estimates and readers overwriting a newer sync | the served balance is right again and again | `AccountCache`, `OrderExecutor` |
| Redis stream and price cache `cache/redis_stream_manager.py`, `cache/price_cache.py` | entries, read position (memory), prices | xadd, xread, conflate, trim | collector, engine | position lost on restart | the engine goes back in time only by ticks that overtook one another before it | `TickStream` |
| Distributed limiter `cache/distributed_rate_limiter.py` | Redis window or bucket | acquire | several processes | late scripts, equal times, lost answers | limit holds globally, as far as the log tells requests apart | `DistributedRateLimiter` |
| REST collector `services/data_collector.py` | tasks per stock, price cache, queue, watchdog | run, stop, pollers | client, engine | two pollers and one cache; full queue | the broker is asked again and again | `DataCollector` |
| Bars `services/minute_bar_collector.py`, `data_aggregator.py`; chart cache `services/timeseries_cache.py` | active bars; entries, index, size | add tick, complete, aggregate; put, query, evict | engine, charts | ticks at the end of a window, eviction and expiry | two ways to a bar agree; the cache accounts for its entries | `MinuteBars`, `TimeSeriesCache` |
| Time series storage `timeseries/`, `utils/timescale_log_handler.py` | buffers, tables | collect, flush, stop | all services | flushes that overlap, fail or are cancelled | nothing vanishes between buffer and table but behind a row of its key | `TimeSeriesWriter` |
| Event bus, store, analyses `events/` | event log, subscriptions | publish, append, analyse | examples and tests | overlapping publications, crash before the commit | the log says what the handlers were told | `EventLog` |
| Simulator `simulator/` | cash, positions, orders | protocol client | executor in tests and back-tests | quotes, injected errors, balance below zero | trading at a standing price never pays | `KiwoomSimulator` |
| Composition root `cli/main.py` | connections, tasks | start, signal, shutdown | all | a failure or a signal at any step | no task that shutdown stops runs on a closed connection | `TradingSystem` |
| WebSocket proxy `websocket_proxy/` | sockets, channels | connect, subscribe, reconnect, broadcast | browsers | reconnection tasks that give up each other's state | a client that wants its channel is subscribed again | `WebSocketProxy` |
| Dashboard `dashboard/services/`, `cache/shared_data.py` | hashes, states, channels | publish, subscribe, snapshot | Redis, browsers | a state not stored but remembered; snapshots crossing messages | a browser that stays sees the portfolio | `Dashboard` |
| Position service, repositories, strategies, back-test, notifications, dashboard pages, monitoring | tables, formatting, arithmetic | - | - | I/O, arithmetic and presentation | - | - |

`PROJECT.json` lists every component with its status, and under `hazards` each
place of the code where these behaviours bite, with the properties that cover it
or the reason none does.

## 2. Plan

Built, in this order:

1. `OrderExecutor` - the core: orders, positions, the event consumer, the broker.
2. `OrderSlots`, `OrderExecutorSlots` - the abstract promise of duplicate
   suppression, and the refinement.
3. `OrderExecutorProofs`, of both.
4. `RateLimiter`, composed with `KiwoomClient` (token, attempts, close);
   `KiwoomClientProofs`.
5. `OrderWorkerPool` and `OrderBatchAggregator`, composed by
   `OrderPipelineOptimizer`; `OrderPipelineProofs`.
6. `KiwoomWebSocket`, used by `WebSocketDataCollector`; `WebSocketDataCollectorProofs`.
7. `TradingLoop` (engine, monitor, executor and broker around one position),
   `TickStream` (collector, stream, engine, price cache).
8. The services that share no state with one another: `KiwoomSimulator` with
   `KiwoomSimulatorProofs`, `AccountCache`, `DistributedRateLimiter`, `DataCollector`,
   `TradingSystem`, `WebSocketProxy`, `MinuteBars`, `TimeSeriesWriter` with
   `TimeSeriesWriterProofs`, `TimeSeriesCache`, `Dashboard`, `EventLog` with
   `EventLogProofs`; and `RedisProofs`, of what goes through Redis: `TickStream` and
   `DistributedRateLimiter`.

Left, in order of worth: proofs of `Accounted` of the chart cache and of `BarsAgree`; an
abstract "stock codes wanted" specification for the session; `update_rate_limit`.

## 3. Order executor

**`OrderExecutor.tla`.** One action per stretch of code between two awaits.

| Code | Model |
|---|---|
| `execute_order` up to `await _get_account_with_retry` (129-173) | `ExecuteOrder` with `Duplicate` |
| one attempt of `get_account` (386-396) | `AccountRateLimited`, `ReadFails`, `GetAccount` |
| account arrived, risk verdict, `await get_stock_price` (173-192) | `GetAccount` |
| price arrived, validation, insertion, `submit_order` starts (192-224) | `GetPrice` with `Valid`, `Track` |
| the POST is sent again (`api/kiwoom_client.py` 378-402) | `Resend` |
| answer of `KiwoomClient.submit_order`, id rewritten, status PENDING (560-570) | `LiveAnswer` |
| answer of a client that keeps the id, by status (224-278) | `ProtocolAnswer` |
| `_update_account_on_fill`, callback, history, then pop (228-248) | `Settle` |
| `_update_position_on_partial_fill` (458-570) | `PartialFill`, `CreatePosition`, `CreateFails` |
| account refreshed, order inserted again (257-270) | `RefreshAfterPartial` |
| the two `except` clauses (280-294) | `Fail` in `SubmitFails`, `ReadFails`, `AccountRateLimited` |
| `cancel_order` (296-336), no await | `CancelOrder` |
| `run` and its two handlers (576-799) | `ConsumeEvent`, `ConsumerRefreshed` |
| collector callbacks (383-425) | `Publish`, `Publish2` |
| broker (external) | `BrokerAccepts`, `BrokerFills`, `BrokerConfirms`, `BrokerCloses` |

State: `status`, `filled`, `orderNo` are fields of the `Order` objects, which the
executor, the client and the consumer share by reference. `pending` is the key set
of `pending_orders`: `<<o, 0>>` is order `o` under its local uuid, `<<o, n>>` the
same order under its n-th broker number. Keeping keys apart from orders matters:
`submit_order` of the live client rewrites `order.order_id` after the order was
inserted, so the key and the field differ from then on.

`client` is chosen once. `"live"` is `KiwoomClient`: it answers PENDING with a new
id. `"protocol"` is any other client of `KiwoomClientProtocol`, such as the
simulator or the ones in the tests: it keeps the id and answers one of `Results`,
consistent with the broker's book.

Abstracted: account figures and prices (the validation of a buy and the risk check
are either verdict; the sell check reads the live `positions` as the code does),
average prices, messages, history records, backoff times.
`account` is only read through these verdicts. An order is handed to
`execute_order` once. A task (`CallerOf`) awaits one call before it makes the
next, as the strategy engine's tick consumer and the risk monitor do.

`positions` starts empty, as `cli/main.py:116` makes it, whatever the account holds
(`Holdings0`): nothing loads the holdings, and only balance messages and the fills of a
protocol client fill it. So the executor refuses to sell shares from before the
start until a trade of that stock in this run has brought a balance message, and
`QuiescentPositions` says what agreement there is: of a stock traded in this run the position
is what the broker holds, all of it; of any other stock there is none. Run `live` starts with
a share held and `duplicate_sell` has a buy first for this reason.

**`OrderSlots.tla`** is the abstract promise: every side of every stock is a slot
that is taken only when free and left only by its owner. **`OrderExecutorSlots.tla`**
maps the executor to it: the owner is the tracked, unfinished order of the slot.

Properties: `SlotExclusive`, `TerminalNotTracked`, `FailureNotTracked`,
`PartialStaysTracked`, `QuiescentPositions`, `SlotsImplemented`; liveness
`CallReturns` and `ClosedIsReleased`. `SlotInv` and `CallInv` are the inductive
strengthenings, checked as invariants before they were proved.

Two of them hold under a condition the code does not guarantee by itself. If a
client answers PARTIALLY_FILLED, `execute_order` inserts the order a second time
after awaiting the account, and an order that was cancelled or filled meanwhile is
tracked again; so `SlotExclusive` and `TerminalNotTracked` are checked and proved
for clients that do not (the live client never does). And `SlotExclusive` is about
the orders of one task; between tasks it fails, which run `duplicate_sell` shows.

## 4. REST client and rate limiter

**`RateLimiter.tla`.** `acquire` queues a request (`Acquire`), one processor task
pops the most urgent (`Pop`), records a slot and resolves the future at once, or
sleeps until the oldest recorded time leaves the window (`Wake`). A waiting caller may
be cancelled (`CallerCancelled`), `stop` cancels the processor (`Stop`,
`ProcessorStops`), and a later `acquire` starts a new one. `slots` and `arrived`
are records for the properties and are read by no guard: every slot ever taken,
and how many had been taken when a waiting request was queued. Requests of equal
priority leave the heap in any order. The processor's loop is cut after each
grant although the code may continue without suspending; that adds behaviours, it
removes none.

**`KiwoomClient.tla`** EXTENDS it: `_request` is `Request` (client check, token
check), `Refreshed` or `RefreshFails`, the limiter's steps, `Send`, then
`Answered`, `AuthFails` (1513 and 8103 drop the shared token), or `AttemptFails` and
`Resend`; `close()` is `Close`, `StopReturns`, `HttpClosed`. `_request` asks one of two
limiters (`AskForSlot`): its own, or the one processes share in Redis, whichever is set at
that moment. `DataCollector.initialize_redis` sets it whenever a collector starts, and takes
it back when Redis fails (`InitializeRedis`, at any time and in both directions). What the
shared one answers is `SharedGrants` or `SharedDenies`; how it decides is
`DistributedRateLimiter` (section 7). A call that returned,
raised or was cancelled is `"ended"`: the properties do not tell these apart.

Time is a counter. `Horizon` bounds it: beyond, it passes only while the processor
sleeps, so that every sleep ends; `Cancellable` bounds the callers that may be cancelled. `token` is the time of expiry, 0 without one.

Properties: `SlotsSpaced` (any MaxRequests + 1 slots in a row span a window),
`BoundedOvertaking` (a waiting request is overtaken by one less urgent request at
most, which the processor had popped before), `WaitersServed` (who waits is queued
or held by a processor that runs; only `close` leaves one behind),
`SentHoldsSlot` (a request that was sent passed exactly one of the two limiters: it took one
slot of the client's own, or the shared one let it through and it took none, though each
attempt is sent: retries are not limited), `RequestEnds`. `LimiterInv` is the
inductive strengthening.

## 5. Order pipeline

Three modules, one per file. **`OrderWorkerPool.tla`** has the bounded priority queue,
the workers' loop and their scaling; **`OrderBatchAggregator.tla`** the buffers, the
timers and how a batch is split; **`OrderPipelineOptimizer.tla`** EXTENDS both and adds
the four modes, the sequential processor, the circuit breaker, `start`, `stop` and
`switch_mode`.

| Code | Model |
|---|---|
| `OrderPipelineOptimizer.submit_order` and its four ways | `SubmitOrder` with `ToSequence`, `ToPool`, `ToAggregator`, `Vanishes`, `Refuse` |
| `OrderWorkerPool.submit_order`, before and after the await of `put` | `Submit`, `Put` |
| `_worker_loop`: get, execute, retry, give up | `Get`, `Succeeds`, `Fails`, `RetryPut`, `GivesUp`, `Raises`, `IdleEnds` |
| `_auto_scale_workers` | `ScaleUp` |
| `add_order`, `timer_callback`, `_flush_old_batches`, `_flush_all` | `AddOrder`, `TimerFires`, `FlushOld`, `Flush` |
| `_smart_batch_orders`, `_group_by_price` | `FirstAt`, `FirstBatch`, `LaterBatches`, `GroupedAt`, `Ungrouped` |
| `CircuitBreaker` | `AskBreaker`, `RecordSuccess`, `RecordFailures`, `TimeoutElapses` |
| `_sequential_processor`, `_process_batch` | `SeqGet`, `SeqFinished`, `BatchFinished` |

What becomes of an order is `result`: executed (`done`, `failed`, `raised`), `refused` at
submission, `discarded` by the drain of a stopped pool, or `interrupted` with the
sequential processor. Two further places show what the code does with batches:
`ready` is the queue of `_ready_batches`, which nothing in the pipeline reads, and
`forgotten` holds the orders of the batch `timer_callback` drops, of a LIMIT order
without a price, which is in no price range, and of an optimized submission without
an aggregator. `registered` counts how often the callbacks were appended: the pool
keeps those of every submission and calls all of them for every order, so
the breaker counts one failure once per order ever submitted.

Properties: `OnePlace` (a submitted order waits in exactly one container or has ended in
one way), `NoResend` (nothing that ended is executed again), `TimerCoversBuffer` (a stock
has a timer exactly while orders of it are buffered), `OpenUntilTimeout` (the
breaker leaves open only through half open, after its timeout), and the liveness
`PoolDrains`: what is queued ends, unless the pool is stopped or every worker waits
to put its own retry into the full queue (`Wedged`). The last is the deadlock of
`order_worker_pool.py:322`; the property says it is the only one.

## 6. Market feed

**`KiwoomWebSocket.tla`** is the client: its fields are shared by every task that uses
it, and each task has a program counter. A receiver is a task of `run_forever`; the
temporary reader `_reconnect` starts is part of its receiver's state (`reads`). The broker
answers each login once, and registers what it is sent on a socket it let in.
**`WebSocketDataCollector.tla`** EXTENDS it with the collector's main task (`run`), the
retry task of the REST fallback, `stop`, and the tasks of `add_stock_codes` and
`remove_stock_codes`. The fallback's retry starts a receiver, is then over, and is
cancelled without it, so `run` starts a second one beside it: that is why an instance
has two.

| Code | Model |
|---|---|
| `connect`, before and after its awaits | `StartConnect`, `Connect` |
| `wait_for_auth`, the LOGIN answer | `WaitForAuth`, `AuthWorks`, `AuthFails`, `ReadLogin` |
| `run_forever`, `_reconnect`, `_restore_subscriptions` | `Enter`, `SocketEnds`, `Refreshed`, `Reconnected`, `ReconnectFails`, `LoggedIn`, `Restore` |
| `disconnect` | `BeginDisconnect`, `EndDisconnect` |
| `run` of the collector, `_run_rest_fallback`, `_try_websocket_reconnect` | `RunAsks` to `RunAwaited`, `FallbackEnds`, the steps of `Retry` |
| the network (external) | `Drop` |

Properties: `OrdersStaySubscribed` (a quiet session is registered for the messages about
orders and balances, which the executor depends on) and the liveness `KeepsTrying` (a
running collector without a connection gets one or starts another attempt).

A session is quiet (`Quiet`) when `run` awaits its receiver, the receiver reads the
client's open socket, and the broker did not refuse the login on it. The last condition
matters from the third socket on: the LOGIN answer of an older one, read late by a
receiver's temporary reader in `_reconnect`, sets `_authenticated` and the `_auth_event` of
the socket that is current by then (`kiwoom_websocket.py:531`), so that `run` subscribes on
a socket the broker has refused, and nothing is registered there. The property speaks of
the sessions the broker did let in.

## 7. Services

The modules of this section share no state, so **`MCServices.tla`** checks them in one
run: `service` says of which a behaviour is, `v1`, `v2`, ... are that module's variables in
the order it declares them, and each property is that of one module for its service.
Each module also stands on its own.

| Module | What it follows | Property | Instance |
|---|---|---|---|
| `TradingLoop` | engine and monitor around one position: purchase, sell check, price refresh, triggers, balance messages; live client or simulator; calls that fail; the loss limit that comes and goes | `StopsFire`: while the market stays at or beyond a limit that was set, a sale is sent | prices 8 and 10, limits at a distance of 2, no position or one bought at 10 with and without limits, 1 purchase, 1 failure |
| `TickStream` | `_on_trade_data` in as many tasks as receive, XADD, trimming, conflation, throttling, the queue without Redis, the pollers of the REST fallback, price cache, restart of the reader | `NeverOlder`: no strategy sees a tick older than its last, within a run, but one that was in hand together with it or came out of the cache | 2 receivers, fallback without a stream, 2 stocks, 3 ticks, read count 2, stream length 2, queue of 1 |
| `AccountCache` | sync loop, estimate after a fill, readers, expiry, `invalidate` | `Corrected`: a synced cache serves the broker's balance again and again | balance 1, a purchase and a sale, 2 failures, keys that outlive one missed sync |
| `DistributedRateLimiter` | both Lua scripts, callers whose scripts run late, lost answers | `WindowRespected`: no window, shorter by the lag, holds more granted times than the limit; for a limit of one and a lag of one no whole window more than one request (a bucket: more requests than twice what it holds) | 2 callers, window 3, time to 6, 4 requests, limits 1 and 2 with a lag of 1 |
| `DataCollector` | both pollers, caches in memory and Redis, queue, watchdog, changing stock codes | `AsksAgain`: the broker is asked for a polled stock again and again | 1 stock that comes and goes, lifetimes 1 and 2, queue of 1 |
| `TradingSystem` | each step of `start` and `shutdown`, with every step failing and the signal at any moment | `ClosedInOrder`: no task runs on a connection that was never opened, and no task shutdown stops on one that is closed | all 32 configurations |
| `WebSocketProxy` | the client's connect, receive loop and reconnection tasks; the proxy's handlers and subscriptions | `Resubscribed`: a client that wants its channel is subscribed again and again | 2 sockets, 2 spawned tasks |
| `MinuteBars` | ticks into bars of every interval, timeouts, restarts, the aggregator | `BarsAgree`: narrow bars joined are the wide bars | intervals 1 and 2 of an hour of 4, 3 ticks, 3 minutes |
| `TimeSeriesWriter` | five buffers, flush loops, rows of one key, overlapping and failed writes, stop | `NothingLost`: orders always, market data and logs, or a row of their key, until the loop is cancelled | batches of 2, 3 items, 1 failure, keys shared by two items |
| `TimeSeriesCache` | put, replace, evict, expire, index, range query, cleanup | `Accounted`: the size is that of the entries, and a query reaches all of them but those older than a full index | times 1 to 3, sizes 1, 2, 5 in a cache of 4, index of 2 |
| `Dashboard` | publisher with hashes, states and channels in Redis, subscriber, a joining browser | `PortfolioShown`: a browser that stays comes to show the portfolio | 1 change of each kind, 1 failure, 1 message in transit |
| `EventLog` | bus, store (insert and commit apart), crash, analyses | `ReplayAgrees`: what handlers acted on is committed, and the analyses of the log agree with it and with what the log held before | 2 events, 2 publications, 1 failure, 1 restart |
| `KiwoomSimulator` | submit, quotes, `inject_error`, price, account and positions | `TradesNeverPay`: orders at a standing price never make the account richer | prices 1000 and 2000, 4 orders, balance 2000 |

*Ticks.* Two tasks may receive at once (section 6, and `websocket_data_collector.py:286`), and
while the session is given up, and as long as its end is not noticed, one poller for each stock puts
prices of its own into the queue. A tick is handled across an await, so that of two in hand the
older may come second; and a price out of Redis is old when it is taken. `late` records these
pairs when the second is taken in hand, and `NeverOlder` excepts them and no others: no
buffer, conflation, trimming, throttling or failure behind the handlers turns two ticks round.
With one receiver and no fallback `late` stays empty, which `OneReceiverKeepsOrder` proves.
With a stream the polled prices go into a queue that only the REST collector reads; the run
therefore has the fallback without a stream (`Polled`), and the theorem holds of both. The
price history (`price_cache.py:266`) only feeds a statistic and is left out.

*Bars.* `add_tick` takes a time from its caller; in the program that is `add_stock_tick`, which
passes the clock (`minute_bar_collector.py:191`), and so does `AddTick`.

*Database rows.* The key of a row (`KeyOf`) is given apart from the item, as the tables have it:
(time, symbol), (time, account), or (time, logger, level). Market data and balances replace the
row of their key, a log with a key that is there is skipped, an order or a metric is an
error (`Stored`, `Conflicts`).

*Dashboard.* `GetSnapshot` takes the four reads of a snapshot (`data_subscriber.py:174`) in one step
and keys without a lifetime (`redis_manager.py:231`): `PortfolioShown` speaks of one
of the four, what a browser shows in the end, and a publisher that runs stores the portfolio anew
in every round, before its key can expire.

`MCTradingLoop` is a second instance of `TradingLoop`, as `cli/main.py` builds it: over an
empty positions dictionary.

## 8. Runs

| Run | Instance | Shows |
|---|---|---|
| `buy` | two buys of one task on one stock, quantities 2 and 1, protocol client without partial answers; both cancellable, one modified, one refused or cancelled at the broker; three attempts, queue of 3 (119,608 states) | `TypeOK`, `SlotInv`, `SlotExclusive`, `TerminalNotTracked`, `CallReturns`, `ClosedIsReleased`, `SlotsImplemented` |
| `live` | a buy of 2 and a sale of 1 of one stock with 1 share held; live client or protocol client with partial answers; two attempts, queue of 2 (1.3 million states) | `CallInv`, `FailureNotTracked`, `QuiescentPositions`, `PartialStaysTracked` |
| `client` | one CRITICAL and two LOW requests, one slot per window of 2 ticks, token life 2, two attempts, either limiter, one cancelled caller, time to 1 (606,702 states) | `TypeOK`, `LimiterInv`, `SlotsSpaced`, `BoundedOvertaking`, `WaitersServed`, `SentHoldsSlot`, `RequestEnds` |
| `pipeline` | two buys, one of them urgent and one a LIMIT order without a price, and a sale of one stock; two workers of which one is started, queue of 1, one retry, batches of 2, breaker threshold 2; every mode and every switch (372,324 states) | `TypeOK`, `OnePlace`, `TimerCoversBuffer`, `NoResend`, `OpenUntilTimeout`, `PoolDrains` |
| `market_feed` | two receivers, two sockets, one stock code and the order messages, one pending change of codes (829,395 states) | `OrdersStaySubscribed`, `KeepsTrying` |
| `services` | the thirteen instances of section 7 (435,226 states) | `TypeOK` and the thirteen properties of section 7 |
| `duplicate_sell` | a buy, then two tasks sell one stock | `NoDuplicateOrders` violated |
| `cancel_in_flight` | one buy, cancelled during its submission | `TerminalIsFinal` violated |
| `live_release` | one buy with the live client, ended by the broker | `LiveOrderIsReleased` violated |
| `stale_token` | two requests | `SentWithValidToken` violated |
| `graceful_stop` | two requests and `close()` | `StopCancelsWaiters` violated |
| `stop_loss` | engine and monitor over an empty positions dictionary | `LossesAreCut` violated |

The violated ones are disagreements between the code and its documents, each
quoted under `findings` of `PROJECT.json`:

* `duplicate_sell`: FR-012 and `DuplicateOrderChecker` promise no duplicate order,
  but the strategy engine and the risk monitor may both pass the check before
  either order is inserted.
* `cancel_in_flight`: `Order.is_terminal_state` says a final status does not change,
  but the client's answer overwrites CANCELLED.
* `live_release`: events are matched by the broker's number, `pending_orders` is
  keyed by the local uuid. With the live client no execution event is ever matched,
  the order stays tracked for ever, and every later order on that stock and side is
  refused as a duplicate.
* `stale_token`: the token is checked before the wait for the limiter and used after.
* `graceful_stop`: `stop()` leaves the request the sleeping processor holds neither
  resolved nor cancelled, although `test_graceful_shutdown` awaits its cancellation.
* `stop_loss`: the comment at `strategy_engine.py:712` and the specification promise a
  stop at -3 % for a bought position. It is set only when the purchase is answered
  FILLED (`:713`), which `KiwoomClient` never answers, and in the engine's own
  dictionary, which `positions or {}` (`:144`) has put in the place of the empty one it
  was to share. The position has no stop price and its loss is never cut.

**Why the bounds are enough.** The hazards of the executor involve at most two orders
(a check and an insertion), or one order and one event. With quantities 2 and 1 a buy
may be filled in one step, in two, or partly; two or three attempts give a first, a
last and, with three, a middle one; a queue of 2 or 3 overflows (a fill publishes two
messages). For the limiter, one slot and a window of 2 make the second request sleep
and the third queue behind it; three requests of two priorities give an overtaking one,
an overtaken one and one held. A token life of 2 expires during a sleep. In the
pipeline a queue of 1 is full as soon as one order waits, so that a retry meets it;
two orders fill a batch and the third is buffered beside it or goes another way;
a threshold of 2 is reached by two failures and, through the callbacks kept for all, by
one. Two sockets make one reconnection; with two receivers it meets the session that is
being set up; the safety property also holds with three sockets (18 million states), and
`SessionKeepsOrders` proves it for any number. In the services every bound is the least at which its case happens:
a full buffer and one more item, a failure and what follows it, two tasks at one
await, one lifetime that ends before another. The proofs of section 9 remove the
bounds for the properties they cover.

`MaxTries` bounds both attempts of `get_account` and of the POST (3 in the code
for each), `QueueMax` is 100 in `cli/main.py`, `MaxRetries` is 3 in `_request` and in
`OrderTask`. `Amendable` and `Closable` limit which orders the broker modifies or
closes: a modification is confirmed once. `MaxSockets`, `MaxTasks`, `MaxNow`,
`MaxFailures`, `MaxTicks` and the other `Max...` constants cap counters and stand in the
guards of the actions that count.

**Fairness.** Weak fairness of the tasks the event loop runs: it runs every ready
task, and every await is on an answer, a timeout (`httpx`, `wait_for`) or a sleep.

* Executor and client: every started call, the consumer and the processor. Nothing is
  assumed of the callers, of `cancel_order`, of `close()` before it is called, or of the
  broker, which may never accept, fill or close an order. `Resend` and `Answered` are
  under one condition per request: it is not assumed that a retry succeeds. The shared
  limiter answers within its 30 seconds, one way or the other.
* Pipeline: each worker and each caller in `put`. Not the submitters, the timers, `stop`,
  or how an execution ends.
* Market feed: `run`, the retry task, each receiver, and the tasks that tell the broker
  about changed codes. Not the broker, `stop` or who changes the codes.
* Services: the loops and the calls in flight, in each module's `Fairness`, which
  `MCServices` restates for its service. The broker answers the monitor's calls in
  `TradingLoop`; ticks may stop. The one strong condition is `Put` of `DataCollector`:
  `asyncio.Queue` wakes the callers that wait for room in the order they came, so a
  caller is not passed over for ever while the collector's loop keeps taking.

**Deadlock.** Calls, requests, orders and ticks are bounded, so an instance stops when
all are used up; the configurations therefore say `CHECK_DEADLOCK FALSE`. That nobody
waits for ever is what the liveness properties state.

## 9. Proofs

All for arbitrary constants under the named assumptions of the modules
(`TypeAssumption`, `NobodyAssumption`, `LimiterAssumption`, `ClientAssumption`,
`PoolAssumption`, `NoneAssumption`, `AggregatorAssumption`, `PipelineAssumption`,
`SocketAssumption`, `SessionAssumption`), which TLC evaluates in the runs of these modules.
`LogAssumption`, `SimulatorAssumption` and the limiter's `LimiterAssumption` (in
`RedisProofs`), with what the last column adds, are hypotheses of the theorems that need
them; the first says that no event has the name that stands for all of them, the second
that stocks are finitely many, prices and quantities natural numbers, and the last that
windows, limits and lags are numbers. Each inductive invariant named below was checked
by TLC as an invariant of its instance before it was proved.

| Theorem | States | Also assumes |
|---|---|---|
| `TypeCorrect` | `Spec => []TypeOK` (executor) | - |
| `FailureForgets` | `Spec => []FailureNotTracked` | - |
| `CallsStayConsistent` | `Spec => []CallInv` | - |
| `PositionsFollowBroker` | `Spec => []QuiescentPositions` | - |
| `CallsHoldTheirSlot` | `Spec => []SlotInv` | no PARTIALLY_FILLED answers |
| `SlotsAreExclusive` | `Spec => []SlotExclusive` | no PARTIALLY_FILLED answers |
| `FinishedOrdersForgotten` | `Spec => []TerminalNotTracked` | no PARTIALLY_FILLED answers |
| `PartialOrdersTracked` | `Spec => []PartialStaysTracked` | - |
| `ExecutorImplementsSlots` | `Spec => SlotsImplemented` | the same, and one task per slot |
| `ClientUsesLimiter` | `Spec => LimiterSpec` (client) | - |
| `LimiterConsistent` | `Spec => []LimiterInv` (client) | - |
| `LimitIsKept` | `Spec => []SlotsSpaced` | - |
| `UrgentRequestsFirst` | `Spec => []BoundedOvertaking` | - |
| `OneSlotPerRequest` | `Spec => []SentHoldsSlot` | - |
| `NobodyForgotten` | `Spec => []WaitersServed` | - |
| `ClientTypeCorrect` | `Spec => []TypeOK` (client) | - |
| `BufferedOrdersTimed` | `Spec => []TimerCoversBuffer` (pipeline) | - |
| `BreakerHolds` | `Spec => OpenUntilTimeout` (pipeline) | - |
| `PipelineTypeCorrect` | `Spec => []TypeOK` (pipeline) | - |
| `OrdersInOnePlace` | `Spec => []OnePlace` (pipeline) | - |
| `OrdersNotResent` | `Spec => NoResend` (pipeline) | - |
| `SessionTypeCorrect` | `Spec => []TypeOK` (session) | - |
| `SessionKeepsOrders` | `Spec => []OrdersStaySubscribed` (session) | - |
| `WriterTypeCorrect` | `Spec => []TypeOK` (database writer) | - |
| `NothingIsLost` | `Spec => []NothingLost` (database writer) | - |
| `NothingOlderSeen` | `Spec => NeverOlder` (ticks) | `Count` is a number |
| `OneReceiverKeepsOrder` | no evaluated tick is older than the last at all, short of a restart | the same, one receiver and no fallback |
| `LimitIsGlobal` | `Spec => []WindowRespected` (shared limiter) | - |
| `EventLogTypeCorrect` | `Spec => []TypeOK` (event log) | - |
| `LogSaysWhatHandlersHeard` | `Spec => []ReplayAgrees` | - |
| `SimulatorTypeCorrect` | `Spec => []TypeOK` (simulator) | - |
| `TradingNeverPays` | `Spec => TradesNeverPay` | - |

*Executor.* `TypeOK` is inductive only with `BookBounded`: that the broker never
executes more than was ordered makes `unfilled` a natural number (`TypeInv`).
`FailureNotTracked` needs to know that orders are tracked under the id `Fail` pops:
an order keeps its local id until the live client's answer, after which no step of
the call can fail; this is `CallInv`. `SlotExclusive` follows from `SlotInv`: a task
makes one call at a time (`OneCall`), and while a call is in flight no other order
of the task in that slot is tracked and unfinished (`AloneInFlight`) - established
by `Duplicate` when the call starts, and kept because no other step can open an
order: the consumer changes only tracked orders to non-final statuses, and
finished ones are not tracked (`TerminalNotTracked`, which is itself part of the
induction). The refinement then only has to show that a step changes the owner of
one slot, from or to nobody (`OneOrderChanges`, `SlotsStep`).

*Partial orders.* `PartialStaysTracked` needs to know what `Settle` forgets: a call settles only an order
that its client has answered FILLED, which the broker's book bears out, and a book that is full
is closed (`SettledIsClosed`, `FilledIsClosed`, together `PartialInv`). Every other order that
leaves `pending_orders` gets a final status in the same step, or its call fails.

*Positions.* With the live client only balance messages change a position, because
no order of it is tracked under the number an execution event carries. `LiveInv` says
this, and that as long as no message was dropped the newest balance message of a
stock in the queue, or the position when there is none, is what will be known of it (`Known`):
what the broker holds of a stock traded in this run, and nothing of another one.
Handling the oldest message and publishing a new one keep it (`OldestEvent`,
`NewestEvent`, `PublishAppends`, `Publish2Appends`), and with an empty queue it is
`QuiescentPositions`.

*Limiter.* `HistoryRecent` says the deque is the end of the record of all slots,
and what it has dropped is out of the window. `PruneRecent` and `GrantRecent` show
that pruning, eviction and appending keep this; `SlotsSpaced` follows, since a slot
is granted when fewer than MaxRequests times are in the window, or after the sleep
until the oldest of MaxRequests leaves it (`SleepsWhenFull`). A restart keeps the
history, so `stop` needs no case of its own. `BoundedOvertaking` rests on
`HeldSinceBefore`: a less urgent request that is held was popped before, and no slot
was taken since. The client's steps are steps of the limiter
(`ClientStepsLimiter`), so these results carry over. `SentHoldsSlot` needs that a
request is queued, held or beyond the limiter, never two of them, takes a slot
only when it passes from held to beyond, and comes to neither place when it asked
the shared limiter (`OnePlaceEach`); `WaitersServed` that the
queue is not empty only while a processor runs, which every way of queueing and every
way a processor ends preserve (`ServedInv`).

*Pipeline.* `BufferInv` is `TimerCoversBuffer` with the types of buffer and timer: an
order that arrives in an empty buffer starts the timer, unless a batch of one is full
at once, and every way of emptying the buffer takes the timer with it.
`OpenUntilTimeout` is an action property: no step but `AskBreaker` leaves open.

`OnePlace` is inductive only with `Shape` - a worker has a task exactly while it executes it
or puts it back, nothing runs before `start`, and who has not submitted holds nothing - and
together they are `PipelineInv`, with `TypeOK` and `TriesFollowPlace`. Each step takes an order
out of one container and puts it into one other (`SubmitPlaces`, `PoolPlaces`,
`AggregatorMoves`, `SequenceEnds`, `BatchEnds`, `EndStopPlaces`); a batch divides what was
buffered without loss (`BatchDivides`, which counts positions with `NthCounts` instead of
following a fold). `NoResend` needs more than the place: how often an order was executed
follows from where it waits and from the retries its task counts (`TriesFollowPlace`), so
that whoever executes it is within its retries, and an order with a result is nowhere.

*Session.* `SessionInv` finds the reason in what other tasks may be in the middle of:
`Restored` says that while `run` awaits, a session without order messages is being read by a
receiver that is still in `_reconnect` and will restore them. It restores them because
`run` has subscribed before it awaits and nothing takes the order item out of
`_subscribed_items` (`ItemsKept`); nobody else reads that socket (`OneReader`), and a socket
that is made later is nobody's yet (`Numbered`). `RetryInFallback` and `HasChild` exclude
that the retry task outlives its fallback and subscribes for `run`. The types are proved in
five parts, so that a step of each concerns few variables.

*Database writer.* For market data and logs, taken out before they are written, it is enough
that a flush holds what it writes until it is over (`FlushKeeps`). Orders are written one by one
from the live list, which another flush may have cleared meanwhile. `OrdersInStep` says
where such a flush stands: the order it writes is the one its index names and all before it
are in the table, or another flush was faster, and then the primary key refuses the order and
the buffer is kept. So the list is cleared only when all of it is in the table. `InPlace` gives
each task its kinds, so that a cancelled loop takes only what is no longer watched, and keeps
the last flushes behind the loops. `SoundStays` and `CoveredStays` say what a step has to leave
alone, and `Settles` that this is enough; every action is then one application of them.
That rows of one key replace or hide one another is `StoredIs`: whatever is written, a row of its key is
in the table afterwards, and of every key that was there before, and orders are there themselves.

*Ticks.* `TickInv` follows a tick along the whole way. One tick may follow another (`Older`) when it
is no older, or when `late` has the pair. What the receivers are about to add may follow all that
the stream holds of that stock, which is in such an order itself (`Ordered`), and each other: of two
in hand the first is older or the pair is in `late`, since the second found the first there
(`TakeStep`). Nothing is anywhere that the broker has not sent (`OnlyMade`), so that a new tick is
the newest. `Behind` is what makes an evaluation safe: a stock has one tick in the batch,
which may follow what was evaluated, and all the engine has not read (`Ahead`) may follow
both. Reading preserves it because `Latest` takes the last message of each stock among those
read and what remains unread comes after them. Trimming only takes away, whether the engine
has read the entry or not. Without Redis `QueueBehind` says the same of the queue and the
pollers. A restart forgets `seen` and is the one step `NotOlder` leaves out, since the position it
forgets with it makes old ticks new. With one receiver and no fallback a tick finds nothing
in hand when it comes (`Alone`), so that `late` is empty and the order is that of the broker.

*Shared limit.* `Remembered`: a granted time that is still in a window of the present is in the sorted
set, because the key outlives it and no script of a time to come has removed it. A
script of a time t counts all of them that lie within a window of t but the ones it may no
longer find, which are as old as the lag allows; so it counts all times of the shorter span.
For a limit of one and a script one second late, `Apart`: the last granted time is never
removed without a newer one, so granted requests lie a window apart although others are
forgotten. A lag of two is too much: the key may then have expired, which TLC shows with a
limit of 1 and a window of 3. For the bucket, `BucketInv` draws up the account of every
interval: what was granted for its times, and the level at its end, is no more than the
capacity and what has flowed in since its start. Each request takes from the
level what it adds to the count. A late script sets the clock of the bucket back and
takes tokens away for it, so that `Level` at any time never rises and the account holds in
whatever order scripts run. Over a window it gives at most twice the capacity.

*Event log.* `InStep`: while no append failed and the recorder has one subscription, the rows of
this run begin with what it was told, in that order and committed, and the rows after
them wait for their commits one by one in the same order (`CommitsOf`). An insert appends a row
and its commit request behind those of the rows before, although other publications come between; a
commit takes the first. That a crash cuts the log at what is committed and the
new run counts from there is why `base` is part of it.

*Simulator.* The worth of the account is a sum over the stocks. `KiwoomSimulatorProofs` shows that
a sum exists, is a number, and that two of functions which differ at one stock differ by what
they differ there (`SumsExist`, `SumsAreNumbers`, `SumsDiffer`). These are
inductions, which the prover cannot do over an arbitrary predicate; each takes the least size of a set for
which the claim fails instead (`LeastOf`). A purchase then adds shares at the
price and pays the asking price or the limit, which are not below it; a sale the other way round, and no
other step touches cash or shares.

## 10. Known divergences

Where the code does less than one might read into it. The models do what the code
does; each property above says exactly as much as holds.

* *Tracking.* If a client answers PARTIALLY_FILLED, an order cancelled or filled
  during the refresh that follows is tracked again (section 3). `cancel_order` never
  tells the broker (`order_executor.py:326`), so a cancelled order may still be filled.
  A 체결 message sets FILLED even with shares left (`:664`), and a cumulative quantity is
  added to the position each time (`:507`); no document says what is right. History
  (`:831`) is data. A POST that timed out is sent again without a key that would let
  the broker recognise it (`kiwoom_client.py:386`).
* *Limiter.* Requests of one priority leave the heap in any order (`rate_limiter.py:70`),
  urgent ones may starve the others (`:104`), and `update_rate_limit` (`:254`) may forget
  recent times. A late 1513 drops a token another request has just fetched
  (`kiwoom_client.py:332`); the model does this.
* *Subscriptions.* Stock codes that change while the connection is down are told to
  nobody: the reconnection restores what was subscribed before
  (`websocket_data_collector.py:477`, `:483`, `kiwoom_websocket.py:693`). Order messages are
  not affected.
* *Positions.* Shares held before the start are in no dictionary (`main.py:116`), so that
  they can neither be sold nor cut by the monitor until a trade of their stock brings a
  balance message (section 3).
* *Two limiters.* The client's own limiter and the shared one know nothing of each other's
  requests. `initialize_redis` changes between them while requests run
  (`data_collector.py:799`, `:825`), and for a window after a change the broker may get as many
  requests as both allow. What holds is that each request passed one of them.
* *Shared limit.* `distributed_rate_limiter.py:32` calls the window log exact. It counts times,
  not requests: ZADD of a time that is there already (`:85`) does not make the set larger, so that
  with a limit of 2 or more any number of requests of one time are allowed. And a script that
  runs after one of a later time finds entries of its own window removed, so that the limit
  holds in a window shorter by the lag. For a limit of one, and scripts no more
  than the second late by which the key outlives the window, it is exact.
* *Pipeline.* The batch a timer makes is dropped, queued batches are read by nobody, and
  an order without a price range is in no batch (section 5).
* *Trading.* `should_stop_trading` refuses sales as well as purchases, so that a stop is
  not sold while the daily loss limit holds; `StopsFire` therefore speaks of an account
  below it. The same `or {}` hides empty `pending_orders` from the dashboard's publisher.
* *Ticks.* Two receivers, or a receiver and a poller, may turn two ticks round, and a price
  cached in Redis may be older than what was evaluated (section 7). A stock code that is a JSON number is decoded as one, and its ticks are
  dropped (`redis_stream_manager.py:355`). A price served from the cache in memory builds
  an invalid `Stock` and delivers nothing (`data_collector.py:431`).
* *Storage.* Two ticks of a symbol, or two logs of a logger and a level, in one instant have one
  key: of the ticks the one written last is left, the older one if it had been put
  back after a failure, of the logs the first (`database.py:332`,
  `timescale_log_handler.py:323`). Balances are lost when two flushes overlap, and metrics added during a
  write (`timeseries/collector.py:287`, `:316`). One order whose key is there already
  keeps the order buffer from ever being flushed. What a cancelled loop was writing is
  lost.
* *Dashboard.* The hash of the positions is remembered although they were not stored, and
  positions that do not change are not stored again when their key expires; only the
  portfolio is promised to arrive.
* *Shutdown.* The flush loop of the time series (`main.py:233`) is never stopped before its pool is
  closed (`:748`), and what is in its buffers by then is lost. Neither are the engine's
  consumers, which are in no list of tasks, and a collector may take longer than
  shutdown waits. `ClosedInOrder` speaks of the other tasks (`Left`). The first `RedisManager` is replaced by the second and never closed
  (`main.py:468`).
* *Simulator.* `inject_error` raises before it clears, so the error is raised for ever;
  the balance may fall below zero, since it is compared with the price and not the quote.

## 11. Limits

Model-checked only:

* liveness (`CallReturns`, `ClosedIsReleased`, `RequestEnds`, `PoolDrains`, `KeepsTrying`,
  `StopsFire`, `Corrected`, `AsksAgain`, `Resubscribed`, `PortfolioShown`), since the prover
  has no ENABLED;
* of the services `ClosedInOrder`, whose 32 configurations TLC exhausts, `BarsAgree`,
  `Accounted`, and the types of the modules without a proof;
* what the recursive folds of `MinuteBars` and `TimeSeriesCache` compute: the prover cannot instantiate a
  theorem of induction. Where a property needed one of a sum, section 9 argues with a
  least counterexample.

`MCServices` restates the properties of the services for its instances; what is proved of
`NeverOlder`, `WindowRespected`, `ReplayAgrees`, `TradesNeverPay` and `NothingLost` is proved of
the modules, for any constants.

Not modelled, and why:

* the position service: not wired into the running system; its operations are those
  of the executor, which are modelled.
* strategies, indicators, back-test: decimal arithmetic over series; what a strategy may
  answer is left open in `TradingLoop`, and the back-test trades through the simulator.
* repositories: single SQLite statements that nothing in the running system calls.
* notifications, reports, the dashboard's pages and routes, monitoring: formatting,
  counters and outbound requests whose failures are logged and change nothing.
* of the limiter `update_rate_limit` and the statistics; of the distributed limiter
  `reset`, `update_limit` and `PriorityRateLimiter`; of the batch aggregator priority symbols,
  plain batching and `get_ready_batch`, which the pipeline never uses.
* of the caches the locks and the leader election of `SharedDataManager`, which nothing
  uses, the lower levels of `MultiLevelCache`, which are never filled, and
  `stock_info_cache`.
* of the engine enabling, loading and reloading strategies; of the risk manager the
  arithmetic behind the daily limits; of the collector the chart data cache and the
  smart poller's intervals; of the command line everything but `start` and `shutdown`.
* payload parsing, heartbeats, settings, formatting: data.
