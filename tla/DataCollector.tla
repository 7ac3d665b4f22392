----------------------------- MODULE DataCollector -----------------------------
(* The REST collector (services/data_collector.py): one task per stock and    *)
(* poller asks the broker unless a price is cached, in memory or in Redis,    *)
(* and puts it into the bounded queue, which both the collector's own loop    *)
(* and the strategy engine take from. A watchdog reconnects after a silence.  *)
EXTENDS Integers, FiniteSets

CONSTANTS
    Stocks,
    Codes,          \* the lists of stocks update_stock_codes is given
    Lifetimes,      \* seconds a cached price lives, by its volatility
    Silence,        \* seconds without data after which the watchdog reconnects
    QueueSize

VARIABLES
    where,      \* where run() stands: "off", "redis", "loop"
    running,
    redis,      \* use_redis
    smart,      \* use_smart_polling: "unbuilt" before the smart poller exists, "on", "off"
    codes,      \* stock_codes
    task,       \* where the task of each poller and stock stands
    life,       \* seconds each cached price still lives, 0 when there is none
    queued,     \* entries of market_data_queue
    silent,     \* seconds since the loop took data, -1 before the first
    watchdog    \* "off", "watch", "reconnect"

vars == <<where, running, redis, smart, codes, task, life, queued, silent, watchdog>>

Pollers == {"staggered", "smart"}
Tasks == Pollers \X Stocks

TypeOK ==
    /\ where \in {"off", "redis", "loop"}
    /\ running \in BOOLEAN /\ redis \in BOOLEAN
    /\ smart \in {"unbuilt", "on", "off"}
    /\ codes \subseteq Stocks
    /\ task \in [Tasks -> {"none", "asleep", "look", "ask", "put"}]
    /\ \A s \in Stocks : life[s] >= 0 /\ \E l \in Lifetimes : life[s] <= l
    /\ queued \in 0 .. QueueSize
    /\ silent \in -1 .. Silence + 1
    /\ watchdog \in {"off", "watch", "reconnect"}

Init ==
    /\ where = "off" /\ running = FALSE
    /\ redis \in BOOLEAN
    /\ smart = "unbuilt"
    /\ codes \in Codes
    /\ task = [t \in Tasks |-> "none"]
    /\ life = [s \in Stocks |-> 0]
    /\ queued = 0 /\ silent = -1 /\ watchdog = "off"

-----------------------------------------------------------------------------

Chosen == IF smart = "on" THEN "smart" ELSE "staggered"
Started(p) == \E s \in Stocks : task[<<p, s>>] /= "none"

\* A poller that runs is not started again, whatever its stocks are now.
StartPolling ==
    task' = IF Started(Chosen) THEN task
            ELSE [t \in Tasks |-> IF t[1] = Chosen /\ t[2] \in codes THEN "look" ELSE task[t]]

Enter ==
    /\ where' = "loop" /\ running' = TRUE /\ watchdog' = "watch"
    /\ StartPolling

Run ==
    /\ where = "off"
    /\ IF redis
       THEN where' = "redis" /\ UNCHANGED <<running, watchdog, task>>
       ELSE Enter
    /\ UNCHANGED <<redis, smart, codes, life, queued, silent>>

\* initialize_redis falls back to the cache in memory when it fails.
RedisReady ==
    /\ where = "redis"
    /\ redis' \in BOOLEAN
    /\ life' = [s \in Stocks |-> 0]
    /\ Enter
    /\ UNCHANGED <<smart, codes, queued, silent>>

Stop ==
    /\ running /\ running' = FALSE
    /\ UNCHANGED <<where, redis, smart, codes, task, life, queued, silent, watchdog>>

\* The loop sees the flag within a second and cleans up: it stops the poller
\* that is chosen now, which need not be the one it started.
Cleanup ==
    /\ where = "loop" /\ ~running
    /\ where' = "off" /\ watchdog' = "off"
    /\ task' = [t \in Tasks |-> IF t[1] = Chosen THEN "none" ELSE task[t]]
    /\ UNCHANGED <<running, redis, smart, codes, life, queued, silent>>

EnableSmartPolling(on) ==
    /\ smart' = IF on THEN "on" ELSE IF smart = "unbuilt" THEN "unbuilt" ELSE "off"
    /\ UNCHANGED <<where, running, redis, codes, task, life, queued, silent, watchdog>>

\* The tasks of a poller that runs stay as they are.
UpdateStockCodes(c) ==
    /\ codes' = c
    /\ UNCHANGED <<where, running, redis, smart, task, life, queued, silent, watchdog>>

-----------------------------------------------------------------------------
(* A task.                                                                   *)

Goes(t, step) == task' = [task EXCEPT ![t] = step]

Wake(t) ==
    /\ task[t] = "asleep"
    /\ Goes(t, "look")
    /\ UNCHANGED <<where, running, redis, smart, codes, life, queued, silent, watchdog>>

\* With Redis the smart poller has no cache.
Cached(t) == life[t[2]] > 0 /\ ~(redis /\ t[1] = "smart")

\* A mistake AsksAgain catches: a hit renews the price's lifetime.
HitRenews(t) ==
    /\ task[t] = "look" /\ Cached(t)
    /\ Goes(t, IF redis THEN "put" ELSE "asleep")
    /\ life' = [life EXCEPT ![t[2]] = CHOOSE l \in Lifetimes : \A m \in Lifetimes : m <= l]
    /\ UNCHANGED <<where, running, redis, smart, codes, queued, silent, watchdog>>

\* A price found in memory makes a Stock with fields that do not exist: the
\* exception is logged and the price is not delivered.
Hit(t) ==
    /\ task[t] = "look" /\ Cached(t)
    /\ Goes(t, IF redis THEN "put" ELSE "asleep")
    /\ UNCHANGED <<where, running, redis, smart, codes, life, queued, silent, watchdog>>

Miss(t) ==
    /\ task[t] = "look" /\ ~Cached(t)
    /\ Goes(t, "ask")
    /\ UNCHANGED <<where, running, redis, smart, codes, life, queued, silent, watchdog>>

\* The broker's price is cached, unless storing it in Redis fails.
Answered(t) ==
    /\ task[t] = "ask"
    /\ \E l \in Lifetimes \union (IF redis THEN {life[t[2]]} ELSE {}) :
           life' = [life EXCEPT ![t[2]] = IF redis /\ t[1] = "smart" THEN @ ELSE l]
    /\ Goes(t, "put")
    /\ UNCHANGED <<where, running, redis, smart, codes, queued, silent, watchdog>>

AskFails(t) ==
    /\ task[t] = "ask"
    /\ Goes(t, "asleep")
    /\ UNCHANGED <<where, running, redis, smart, codes, life, queued, silent, watchdog>>

Put(t) ==
    /\ task[t] = "put"
    /\ queued < QueueSize /\ queued' = queued + 1
    /\ Goes(t, "asleep")
    /\ UNCHANGED <<where, running, redis, smart, codes, life, silent, watchdog>>

-----------------------------------------------------------------------------

\* The collector's loop takes the data it produced, to note the time.
Consume ==
    /\ where = "loop" /\ running
    /\ queued > 0 /\ queued' = queued - 1
    /\ silent' = 0
    /\ UNCHANGED <<where, running, redis, smart, codes, task, life, watchdog>>

EngineTakes ==
    /\ queued > 0 /\ queued' = queued - 1
    /\ UNCHANGED <<where, running, redis, smart, codes, task, life, silent, watchdog>>

Second ==
    /\ life' = [s \in Stocks |-> IF life[s] = 0 THEN 0 ELSE life[s] - 1]
    /\ silent' = IF silent \in 0 .. Silence THEN silent + 1 ELSE silent
    /\ UNCHANGED <<where, running, redis, smart, codes, task, queued, watchdog>>

\* Before the first data the watchdog never sees a silence.
WatchdogBites ==
    /\ watchdog = "watch" /\ running
    /\ silent > Silence
    /\ watchdog' = "reconnect"
    /\ UNCHANGED <<where, running, redis, smart, codes, task, life, queued, silent>>

Reconnected ==
    /\ watchdog = "reconnect"
    /\ watchdog' = "watch" /\ silent' = 0
    /\ UNCHANGED <<where, running, redis, smart, codes, task, life, queued>>

Poll(t) == Wake(t) \/ Hit(t) \/ Miss(t) \/ Answered(t) \/ AskFails(t) \/ Put(t)

Next ==
    \/ Run \/ RedisReady \/ Stop \/ Cleanup
    \/ \E on \in BOOLEAN : EnableSmartPolling(on)
    \/ \E c \in Codes : UpdateStockCodes(c)
    \/ \E t \in Tasks : Poll(t)
    \/ Consume \/ EngineTakes
    \/ Second
    \/ WatchdogBites \/ Reconnected

Spec == Init /\ [][Next]_vars

\* Time passes and every task of the event loop goes on; the collector takes
\* its data even when the engine does not.
Fairness ==
    /\ WF_vars(Second)
    /\ WF_vars(Consume)
    /\ \A t \in Tasks : WF_vars(Poll(t)) /\ SF_vars(Put(t))

-----------------------------------------------------------------------------

\* While the collector runs, the broker is asked for every stock that is polled
\* again and again: no cached price, failed call or full queue keeps every
\* poller of it away for ever. (One poller can starve another through the cache.)
Polled(s) == \E p \in Pollers : task[<<p, s>>] /= "none"
Asked(s) == \E p \in Pollers : task[<<p, s>>] = "ask"
Answers(s) == ~running \/ ~Polled(s) \/ Asked(s)
AsksAgain == \A s \in Stocks : []<>Answers(s)

=============================================================================
