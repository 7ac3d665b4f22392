----------------------------- MODULE TradingSystem -----------------------------
(* The composition root (TradingSystem in cli/main.py): what start opens and  *)
(* starts, step by step, and what shutdown stops and closes, whatever step    *)
(* failed or was reached when the signal came.                                *)
EXTENDS Sequences, SequencesExt

CONSTANTS
    Configs     \* subsets of Features: what the configuration switches on

VARIABLES
    config,
    step,       \* the step of start or shutdown that is next
    opened,     \* connections and pools that are open
    redis,      \* self.redis_manager: "none", "first", "second"
    referred,   \* other services the attributes of the system still name
    active,     \* tasks that run
    signalled   \* shutdown_event

vars == <<config, step, opened, redis, referred, active, signalled>>

Features == {"tsdb", "prometheus", "live", "streams", "dashboard"}
Services == {"tsdb", "handler", "client", "cache", "publisher", "exporter", "monitor", "executor"}

StartSteps == <<"tsdb", "client", "streams", "services", "dashboard", "run", "exporter", "publish", "wait">>
StopSteps == <<"cancel", "monitor", "executor", "sync", "close_client", "publisher", "redis",
               "prometheus", "handler", "disconnect">>
Ended == {"stopped", "raised"}

\* What goes with an order: the collector of the time series writes its history
\* when a buffer is full, the callback publishes it.
Trade ==
    {"client"} \union (IF "timeseries" \in active THEN {"tsdb"} ELSE {})
               \union (IF "publisher" \in referred THEN {"second"} ELSE {})

Stream == IF "cache" \in referred THEN {"first"} ELSE {}

\* What a task calls as long as it runs. The stream and the cache were given the
\* first Redis connection, the publisher the one it was made with. (The price
\* cache of the collector opens its connection itself whenever it is not open.)
Uses(t) ==
    CASE t \in {"monitor", "executor"} -> Trade
      [] t = "engine" -> Trade \union Stream
      [] t = "collector" -> {"client"} \union Stream
      [] t = "sync" -> {"client", "first"}
      [] t = "publisher" -> {"second"}
      [] t \in {"flush", "timeseries"} -> {"tsdb"}
      [] t = "metrics" -> {"exporter"}

Tasks == {"monitor", "executor", "sync", "publisher", "flush", "metrics", "collector", "engine", "timeseries"}

TypeOK ==
    /\ config \subseteq Features
    /\ step \in Range(StartSteps) \union Range(StopSteps) \union Ended
    /\ opened \subseteq {"tsdb", "client", "first", "second", "exporter"}
    /\ redis \in {"none", "first", "second"}
    /\ referred \subseteq Services
    /\ active \subseteq Tasks
    /\ signalled \in BOOLEAN

Init ==
    /\ config \in Configs
    /\ step = "tsdb"
    /\ opened = {} /\ redis = "none" /\ referred = {} /\ active = {}
    /\ signalled = FALSE

-----------------------------------------------------------------------------

After(steps, s) == steps[1 + CHOOSE i \in DOMAIN steps : steps[i] = s]
Proceed == step' = After(StartSteps, step)
On(feature) == feature \in config

\* An exception that start does not handle: shutdown follows, from finally.
Raise == step' = "cancel"

\* The log handler and the collector's writer come after the connection; when
\* one fails all three are forgotten, closed or not.
Tsdb ==
    /\ step = "tsdb" /\ Proceed
    /\ \/ ~On("tsdb") /\ UNCHANGED <<opened, referred, active>>
       \/ On("tsdb") /\ opened' = opened \union {"tsdb"} /\ referred' = referred \union {"tsdb", "handler"}
                     /\ active' = active \union {"timeseries"}
       \/ On("tsdb") /\ opened' \in {opened, opened \union {"tsdb"}} /\ UNCHANGED <<referred, active>>
    /\ UNCHANGED <<config, redis, signalled>>

\* A client that fails to connect is not yet an attribute.
Client ==
    /\ step = "client"
    /\ \/ Proceed /\ opened' = opened \union {"client"} /\ referred' = referred \union {"client"}
       \/ On("live") /\ Raise /\ opened' \in {opened, opened \union {"client"}} /\ UNCHANGED referred
    /\ UNCHANGED <<config, redis, active, signalled>>

\* A failure leaves redis_manager set, and takes the stream and the cache away.
Streams ==
    /\ step = "streams" /\ Proceed
    /\ \/ ~(On("streams") /\ On("live")) /\ UNCHANGED <<opened, redis, referred>>
       \/ /\ On("streams") /\ On("live")
          /\ redis' = "first"
          /\ \/ opened' = opened \union {"first"} /\ referred' = referred \union {"cache"}
             \/ opened' \in {opened, opened \union {"first"}} /\ UNCHANGED referred
    /\ UNCHANGED <<config, active, signalled>>

\* Building the services and loading the strategies may raise.
BuildServices ==
    /\ step = "services"
    /\ \/ Proceed /\ referred' = referred \union {"monitor", "executor"}
       \/ Raise /\ referred' \in {referred, referred \union {"monitor", "executor"}}
    /\ UNCHANGED <<config, opened, redis, active, signalled>>

\* The second manager takes the attribute of the first, and a failure clears it.
Dashboard ==
    /\ step = "dashboard" /\ Proceed
    /\ \/ ~On("dashboard") /\ UNCHANGED <<opened, redis, referred>>
       \/ /\ On("dashboard") /\ opened' = opened \union {"second"}
          /\ redis' = "second" /\ referred' = referred \union {"publisher"}
       \/ On("dashboard") /\ redis' = "none" /\ UNCHANGED <<opened, referred>>
    /\ UNCHANGED <<config, active, signalled>>

\* The engine's task only starts the consumers, which are in no list of tasks.
RunTasks ==
    /\ step = "run" /\ Proceed
    /\ active' = active \union {"collector", "engine", "monitor", "executor"}
            \union (IF "cache" \in referred THEN {"sync"} ELSE {})
            \union (IF "handler" \in referred THEN {"flush"} ELSE {})
    /\ UNCHANGED <<config, opened, redis, referred, signalled>>

Exporter ==
    /\ step = "exporter"
    /\ \/ Proceed /\ ~On("prometheus") /\ UNCHANGED <<opened, referred, active>>
       \/ /\ On("prometheus") /\ Proceed
          /\ opened' = opened \union {"exporter"} /\ referred' = referred \union {"exporter"}
          /\ active' = active \union {"metrics"}
       \/ On("prometheus") /\ Raise /\ UNCHANGED <<opened, referred, active>>
    /\ UNCHANGED <<config, redis, signalled>>

Publish ==
    /\ step = "publish" /\ Proceed
    /\ active' = IF "publisher" \in referred THEN active \union {"publisher"} ELSE active
    /\ UNCHANGED <<config, opened, redis, referred, signalled>>

Signal ==
    /\ ~signalled /\ signalled' = TRUE
    /\ UNCHANGED <<config, step, opened, redis, referred, active>>

Wait ==
    /\ step = "wait" /\ signalled
    /\ Raise
    /\ UNCHANGED <<config, opened, redis, referred, active, signalled>>

-----------------------------------------------------------------------------
(* shutdown. Each step acts on what the attributes name; one that raises is   *)
(* the last one.                                                              *)

Listed == {"collector", "executor", "flush", "metrics"}

\* The listed tasks are cancelled and awaited for ten seconds; the collector's
\* own cleanup may take longer.
CancelTasks ==
    /\ step = "cancel"
    /\ step' = "monitor"
    /\ active' \in {active \ Listed, active \ (Listed \ {"collector"})}
    /\ UNCHANGED <<config, opened, redis, referred, signalled>>

\* A mistake ClosedInOrder catches: the publisher is stopped after Redis is closed.
LatePublisher ==
    <<"cancel", "monitor", "executor", "sync", "close_client", "redis", "publisher",
      "prometheus", "handler", "disconnect", "stopped">>

StopOrder == Append(StopSteps, "stopped")
Passes(s) == step = s /\ step' = After(StopOrder, s)

StopTask(s, service, task) ==
    /\ Passes(s)
    /\ active' = IF service \in referred THEN active \ {task} ELSE active
    /\ UNCHANGED <<config, opened, redis, referred, signalled>>

Close(s, named, connection) ==
    /\ step = s
    /\ \/ Passes(s) /\ opened' = IF named THEN opened \ {connection} ELSE opened
       \/ named /\ step' = "raised" /\ UNCHANGED opened
    /\ UNCHANGED <<config, redis, referred, active, signalled>>

Shutdown ==
    \/ CancelTasks
    \/ StopTask("monitor", "monitor", "monitor")
    \/ StopTask("executor", "executor", "executor")
    \/ StopTask("sync", "cache", "sync")
    \/ Close("close_client", "client" \in referred, "client")
    \/ StopTask("publisher", "publisher", "publisher")
    \/ Close("redis", redis /= "none", redis)
    \/ Close("prometheus", "exporter" \in referred, "exporter")
    \/ StopTask("handler", "handler", "flush")
    \/ Close("disconnect", "tsdb" \in referred, "tsdb")

Next ==
    \/ Tsdb \/ Client \/ Streams \/ BuildServices \/ Dashboard
    \/ RunTasks \/ Exporter \/ Publish
    \/ Signal \/ Wait
    \/ Shutdown

Spec == Init /\ [][Next]_vars

-----------------------------------------------------------------------------

\* The tasks that shutdown leaves: the consumers of the engine and the flush loop
\* of the time series, which nothing stops before their connections are closed,
\* and a collector that takes its time.
Left == {"engine", "timeseries", "collector"}

\* Whatever failed before and wherever the signal came, no task runs on a
\* connection that was never opened, and none of those that shutdown stops on one
\* that was closed. (Those it leaves do: what the time series still hold in their
\* buffers when the pool is closed is lost.)
ClosedInOrder ==
    \A t \in active :
        step \in Range(StartSteps) \/ t \notin Left => Uses(t) \subseteq opened

=============================================================================
