----------------------------- MODULE MCServices -----------------------------
(* One instance for TLC of each service that the modules below model on its   *)
(* own. A behaviour is a behaviour of one of them: service says of which, and  *)
(* v1, v2, ... are its variables, in the order its module declares them.       *)
EXTENDS Integers, Sequences

CONSTANTS NoValue     \* a model value, the None of the services

VARIABLES service, v1, v2, v3, v4, v5, v6, v7, v8, v9, v10, v11, v12, v13

vars == <<service, v1, v2, v3, v4, v5, v6, v7, v8, v9, v10, v11, v12, v13>>

\* Two market orders and two limit orders of the simulator.
SimulatedOrders ==
    {[stock |-> "a", side |-> "BUY", type |-> "MARKET", quantity |-> 2, limit |-> 0],
     [stock |-> "a", side |-> "BUY", type |-> "LIMIT", quantity |-> 1, limit |-> 1000],
     [stock |-> "a", side |-> "SELL", type |-> "MARKET", quantity |-> 1, limit |-> 0],
     [stock |-> "a", side |-> "SELL", type |-> "LIMIT", quantity |-> 2, limit |-> 2000]}

\* The engine is built over no position, or over one bought at 10, protected or not.
Books ==
    {[quantity |-> 0, average |-> 0, current |-> 0, stop |-> 0, take |-> 0],
     [quantity |-> 1, average |-> 10, current |-> 10, stop |-> 0, take |-> 0],
     [quantity |-> 1, average |-> 10, current |-> 10, stop |-> 8, take |-> 12]}

Simulator == INSTANCE KiwoomSimulator WITH
    Stocks <- {"a"}, Prices <- {1000, 2000}, Orders <- SimulatedOrders,
    InitialBalance <- 2000, cash <- v1, held <- v2, marked <- v3, price <- v4,
    history <- v5, injected <- v6, reported <- v7

Account == INSTANCE AccountCache WITH
    InitialCash <- 1, None <- NoValue, TTL <- 2, Amounts <- <<-1, 1>>,
    MaxFailures <- 2, cash <- v1, redis <- v2, local <- v3, running <- v4,
    pc <- v5, got <- v6, missed <- v7, fills <- v8, failures <- v9

Limiter == INSTANCE DistributedRateLimiter WITH
    Callers <- {"a", "b"},
    Limits <- {[max |-> 1, lag |-> 1], [max |-> 2, lag |-> 1]}, Window <- 3,
    MaxNow <- 6, MaxGranted <- 4, algorithm <- v1, limit <- v2, now <- v3, entries <- v4,
    expires <- v5, tokens <- v6, refilled <- v7, pc <- v8, stamp <- v9,
    granted <- v10

Trading == INSTANCE TradingLoop WITH
    Prices <- {8, 10}, Gap <- 2, Starts <- Books, MaxBuys <- 1,
    MaxFailures <- 1, live <- v1, shared <- v2, market <- v3, halted <- v4,
    book <- v5, events <- v6, stuck <- v7, order <- v8, engine <- v9,
    monitor <- v10, buys <- v11, failures <- v12

Ticks == INSTANCE TickStream WITH
    Stocks <- {"a", "n"}, Plain <- {"a"}, Receivers <- 2, Polled <- {FALSE},
    Count <- 2, MaxLen <- 2, QueueSize <- 1, MaxTicks <- 3, streaming <- v1,
    made <- v2, handling <- v3, late <- v4, stream <- v5, added <- v6,
    position <- v7, queue <- v8, batch <- v9, hot <- v10, seen <- v11,
    books <- v12, cached <- v13

Collector == INSTANCE DataCollector WITH
    Stocks <- {"a"}, Codes <- {{"a"}, {}}, Lifetimes <- {1, 2}, Silence <- 1,
    QueueSize <- 1, where <- v1, running <- v2, redis <- v3, smart <- v4,
    codes <- v5, task <- v6, life <- v7, queued <- v8, silent <- v9,
    watchdog <- v10

System == INSTANCE TradingSystem WITH
    Configs <- SUBSET {"tsdb", "prometheus", "live", "streams", "dashboard"},
    config <- v1, step <- v2, opened <- v3, redis <- v4, referred <- v5,
    active <- v6, signalled <- v7

Proxy == INSTANCE WebSocketProxy WITH
    Sockets <- {1, 2}, Spawned <- {3, 4}, None <- NoValue, state <- v1, auto <- v2,
    wants <- v3, websocket <- v4, task <- v5, open <- v6, served <- v7,
    inbox <- v8, subscribers <- v9

Bars == INSTANCE MinuteBars WITH
    Narrow <- 1, Wide <- 2, Hour <- 4, Prices <- {1, 2}, MaxClock <- 3,
    MaxTicks <- 3, clock <- v1, added <- v2, running <- v3, waiting <- v4,
    buffer <- v5, active <- v6, completed <- v7

\* The first two logs and the second and third item of any other kind have one key.
RowKey(kind, n) == IF kind = "log" THEN (n + 1) \div 2 ELSE n \div 2

Writer == INSTANCE TimeSeriesWriter WITH
    BatchSize <- 2, KeyOf <- RowKey, MaxItems <- 3, MaxFailures <- 1, taken <- v1, buffer <- v2,
    table <- v3, writer <- v4, cancelled <- v5, failures <- v6

Cache == INSTANCE TimeSeriesCache WITH
    Times <- {1, 2, 3}, Sizes <- {1, 2, 5}, MaxSize <- 4, MaxIndex <- 2,
    entries <- v1, index <- v2, size <- v3, found <- v4, running <- v5

Screen == INSTANCE Dashboard WITH
    MaxChanges <- 1, MaxFailures <- 1, MaxMessages <- 1, actual <- v1,
    seen <- v2, hash <- v3, stored <- v4, step <- v5, trade <- v6,
    channel <- v7, listening <- v8, client <- v9, snapshot <- v10, view <- v11,
    failures <- v12

Log == INSTANCE EventLog WITH
    Published <- {"OrderFilled", "OrderCancelled", "PositionClosed"},
    Subscribable <- {"All", "OrderFilled"}, MaxEvents <- 2,
    MaxPublications <- 2, MaxFailures <- 1, MaxRestarts <- 1, made <- v1,
    requests <- v2, rows <- v3, committed <- v4, subscribed <- v5,
    handled <- v6, base <- v7, regular <- v8, spent <- v9

On(s) == service = s

\* The variables from the n-th on, which a service with fewer leaves at 0.
From13 == <<v13>>
From12 == <<v12, From13>>
From11 == <<v11, From12>>
From10 == <<v10, From11>>
From9 == <<v9, From10>>
From8 == <<v8, From9>>
From7 == <<v7, From8>>
From6 == <<v6, From7>>

Blank13 == v13 = 0
Blank12 == v12 = 0 /\ Blank13
Blank11 == v11 = 0 /\ Blank12
Blank10 == v10 = 0 /\ Blank11
Blank9 == v9 = 0 /\ Blank10
Blank8 == v8 = 0 /\ Blank9
Blank7 == v7 = 0 /\ Blank8
Blank6 == v6 = 0 /\ Blank7

Init ==
    \/ On("simulator") /\ Simulator!Init /\ Blank8
    \/ On("account") /\ Account!Init /\ Blank10
    \/ On("limiter") /\ Limiter!Init /\ Blank11
    \/ On("trading") /\ Trading!Init /\ Blank13
    \/ On("ticks") /\ Ticks!Init
    \/ On("collector") /\ Collector!Init /\ Blank11
    \/ On("system") /\ System!Init /\ Blank8
    \/ On("proxy") /\ Proxy!Init /\ Blank10
    \/ On("bars") /\ Bars!Init /\ Blank8
    \/ On("writer") /\ Writer!Init /\ Blank7
    \/ On("cache") /\ Cache!Init /\ Blank6
    \/ On("dashboard") /\ Screen!Init /\ Blank13
    \/ On("events") /\ Log!Init /\ Blank10

Next ==
    \/ On("simulator") /\ Simulator!Next /\ UNCHANGED <<service, From8>>
    \/ On("account") /\ Account!Next /\ UNCHANGED <<service, From10>>
    \/ On("limiter") /\ Limiter!Next /\ UNCHANGED <<service, From11>>
    \/ On("trading") /\ Trading!Next /\ UNCHANGED <<service, From13>>
    \/ On("ticks") /\ Ticks!Next /\ UNCHANGED service
    \/ On("collector") /\ Collector!Next /\ UNCHANGED <<service, From11>>
    \/ On("system") /\ System!Next /\ UNCHANGED <<service, From8>>
    \/ On("proxy") /\ Proxy!Next /\ UNCHANGED <<service, From10>>
    \/ On("bars") /\ Bars!Next /\ UNCHANGED <<service, From8>>
    \/ On("writer") /\ Writer!Next /\ UNCHANGED <<service, From7>>
    \/ On("cache") /\ Cache!Next /\ UNCHANGED <<service, From6>>
    \/ On("dashboard") /\ Screen!Next /\ UNCHANGED <<service, From13>>
    \/ On("events") /\ Log!Next /\ UNCHANGED <<service, From10>>

Spec == Init /\ [][Next]_vars

\* What the modules say of their fairness, for whichever service it is.
Fairness ==
    /\ WF_vars(On("account") /\ Account!Sync /\ UNCHANGED <<service, From10>>)
    /\ WF_vars(On("account") /\ Account!Update /\ UNCHANGED <<service, From10>>)
    /\ WF_vars(On("account") /\ Account!Serve /\ UNCHANGED <<service, From10>>)
    /\ WF_vars(On("trading") /\ Trading!CheckAfterBuy /\ UNCHANGED <<service, From13>>)
    /\ WF_vars(On("trading") /\ Trading!MonitorWakes /\ UNCHANGED <<service, From13>>)
    /\ WF_vars(On("trading") /\ Trading!MonitorQuoted /\ UNCHANGED <<service, From13>>)
    /\ WF_vars(On("trading") /\ Trading!HandleBalance /\ UNCHANGED <<service, From13>>)
    /\ \A t \in Trading!Tasks :
           WF_vars(On("trading") /\ Trading!Executes(t) /\ UNCHANGED <<service, From13>>)
    /\ WF_vars(On("collector") /\ Collector!Second /\ UNCHANGED <<service, From11>>)
    /\ WF_vars(On("collector") /\ Collector!Consume /\ UNCHANGED <<service, From11>>)
    /\ \A t \in Collector!Tasks :
           /\ WF_vars(On("collector") /\ Collector!Poll(t) /\ UNCHANGED <<service, From11>>)
           /\ SF_vars(On("collector") /\ Collector!Put(t) /\ UNCHANGED <<service, From11>>)
    /\ \A t \in Proxy!Tasks \ {Proxy!Caller} :
           WF_vars(On("proxy") /\ Proxy!Connect(t) /\ UNCHANGED <<service, From10>>)
    /\ \A t \in Proxy!Tasks :
           WF_vars(On("proxy") /\ (Proxy!Connected(t) \/ Proxy!ConnectFails(t)) /\ UNCHANGED <<service, From10>>)
    /\ \A s \in {1, 2} :
           /\ WF_vars(On("proxy") /\ Proxy!ReceiveEnds(s) /\ UNCHANGED <<service, From10>>)
           /\ WF_vars(On("proxy") /\ Proxy!Handle(s) /\ UNCHANGED <<service, From10>>)
           /\ WF_vars(On("proxy") /\ Proxy!HandlerEnds(s) /\ UNCHANGED <<service, From10>>)
    /\ WF_vars(On("dashboard") /\ Screen!Loop /\ UNCHANGED <<service, From13>>)
    /\ WF_vars(On("dashboard") /\ Screen!PublishTrade /\ UNCHANGED <<service, From13>>)
    /\ WF_vars(On("dashboard") /\ Screen!StoreTrades /\ UNCHANGED <<service, From13>>)
    /\ WF_vars(On("dashboard") /\ Screen!Broadcast /\ UNCHANGED <<service, From13>>)
    /\ WF_vars(On("dashboard") /\ Screen!GetSnapshot /\ UNCHANGED <<service, From13>>)
    /\ WF_vars(On("dashboard") /\ Screen!SendSnapshot /\ UNCHANGED <<service, From13>>)

FairSpec == Spec /\ Fairness

-----------------------------------------------------------------------------
(* The properties of the modules, each for its service.                      *)

\* Every service keeps the types of its variables.
TypeOK ==
    /\ On("simulator") => Simulator!TypeOK
    /\ On("account") => Account!TypeOK
    /\ On("limiter") => Limiter!TypeOK
    /\ On("trading") => Trading!TypeOK
    /\ On("ticks") => Ticks!TypeOK
    /\ On("collector") => Collector!TypeOK
    /\ On("system") => System!TypeOK
    /\ On("proxy") => Proxy!TypeOK
    /\ On("bars") => Bars!TypeOK
    /\ On("writer") => Writer!TypeOK
    /\ On("cache") => Cache!TypeOK
    /\ On("dashboard") => Screen!TypeOK
    /\ On("events") => Log!TypeOK

\* The simulator's account: orders at a standing price never make it richer.
TradesNeverPay == [][On("simulator") => Simulator!NeverRicher]_vars

\* The shared rate limiter: a window that is shorter by the lag of the scripts holds
\* requests of no more times than the limit, and a bucket grants twice the limit at most.
WindowRespected == On("limiter") => Limiter!WindowRespected

\* The strategies never evaluate a tick that is older than the last one they evaluated,
\* unless two tasks of the collector had the two in hand or the older was cached.
NeverOlder == [][On("ticks") => Ticks!NotOlder]_vars

\* No task runs on a connection that start did not open, and none of those that shutdown
\* stops on one that it closed: it does not stop the engine and the flush loop.
ClosedInOrder == On("system") => System!ClosedInOrder

\* Narrow bars joined by the aggregator are the wide bars of the collector.
BarsAgree == On("bars") => Bars!BarsAgree

\* No order vanishes between its buffer and its table, and no market datum or log record
\* before its loop is cancelled but behind a row of the same key.
NothingLost == On("writer") => Writer!NothingLost

\* The chart cache accounts for the entries it holds and can find them.
Accounted == On("cache") => Cache!Accounted

\* The analyses of the event log agree with what it held and the handlers were told.
ReplayAgrees == On("events") => Log!ReplayAgrees

\* While the account cache is synced it serves the broker's balance again and again.
Corrected == []<>(On("account") => Account!Right)

\* While the market stays at or beyond a limit that was set, a sale is sent.
StopsFire == (On("trading") /\ Trading!Due) ~> (On("trading") => Trading!Met)

\* While the REST collector runs, the broker is asked for every polled stock again and again.
AsksAgain == []<>(On("collector") => Collector!Answers("a"))

\* A client of the proxy that wants its channel is subscribed again and again.
Resubscribed == []<>(On("proxy") => Proxy!Settled)

\* A browser that stays is shown the portfolio as it is.
PortfolioShown == []<>(On("dashboard") => Screen!Current)

=============================================================================
