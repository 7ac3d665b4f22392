----------------------------- MODULE AccountCache -----------------------------
(* The account cache (cache/account_cache.py): one task copies the broker's  *)
(* account into Redis and into a local copy, updates after a fill estimate   *)
(* the balance in between, and readers take Redis first and refresh the      *)
(* local copy with what they read. Each Redis or broker call is an await.    *)
EXTENDS Integers, Sequences

CONSTANTS
    InitialCash, None,
    TTL,            \* intervals without a stored sync after which the Redis keys expire
    Amounts,        \* what each fill adds to the balance, in order: 1 for a sale, -1 for a buy
    MaxFailures     \* a bound: failing calls of the broker or of Redis

VARIABLES
    cash,       \* the balance at the broker
    redis,      \* CACHE_KEY
    local,      \* _local_cache
    running,    \* _running
    pc,         \* where the sync, an update and a reader stand
    got,        \* the balance each of them holds
    missed,     \* intervals since the keys were last stored
    fills, failures

vars == <<cash, redis, local, running, pc, got, missed, fills, failures>>

Tasks == {"sync", "update", "reader"}
MaxFills == Len(Amounts)
Values == 0 .. InitialCash + MaxFills

TypeOK ==
    /\ cash \in Values
    /\ redis \in Values \union {None} /\ local \in Values \union {None}
    /\ running \in BOOLEAN
    /\ pc \in [Tasks -> {"off", "first", "asleep", "ask", "store", "write", "read", "apply"}]
    /\ got \in [Tasks -> Values \union {None}]
    /\ missed \in 0 .. TTL /\ fills \in 0 .. MaxFills /\ failures \in 0 .. MaxFailures

Init ==
    /\ cash = InitialCash
    /\ redis = None /\ local = None
    /\ running = FALSE
    /\ pc = [t \in Tasks |-> "off"]
    /\ got = [t \in Tasks |-> None]
    /\ missed = 0 /\ fills = 0 /\ failures = 0

-----------------------------------------------------------------------------

Goes(t, where) == pc' = [pc EXCEPT ![t] = where]
Fails == failures < MaxFailures /\ failures' = failures + 1

\* start_sync_task syncs once itself, and then starts the loop.
StartSync ==
    /\ ~running /\ pc["sync"] = "off"
    /\ running' = TRUE
    /\ Goes("sync", "first")
    /\ UNCHANGED <<cash, redis, local, got, missed, fills, failures>>

\* stop_sync_task cancels the loop wherever it waits, but not the first sync.
StopSync ==
    /\ running
    /\ running' = FALSE
    /\ IF pc["sync"] = "first" THEN UNCHANGED pc ELSE Goes("sync", "off")
    /\ UNCHANGED <<cash, redis, local, got, missed, fills, failures>>

\* The broker answers get_account with the balance of that moment.
Ask ==
    /\ pc["sync"] \in {"first", "ask"}
    /\ got' = [got EXCEPT !["sync"] = cash]
    /\ Goes("sync", "store")
    /\ UNCHANGED <<cash, redis, local, running, missed, fills, failures>>

\* A mistake Corrected catches: a failed call ends the loop.
AskEndsLoop ==
    /\ pc["sync"] \in {"first", "ask"}
    /\ Fails
    /\ Goes("sync", "off")
    /\ missed' = IF missed < TTL THEN missed + 1 ELSE missed
    /\ UNCHANGED <<cash, redis, local, running, got, fills>>

AskFails ==
    /\ pc["sync"] \in {"first", "ask"}
    /\ Fails
    /\ Goes("sync", IF running THEN "asleep" ELSE "off")
    /\ missed' = IF missed < TTL THEN missed + 1 ELSE missed
    /\ UNCHANGED <<cash, redis, local, running, got, fills>>

\* _update_cache sets the local copy, and then awaits Redis, whose failure
\* RedisManager.set reports to nobody.
StoreLocal ==
    /\ pc["sync"] = "store"
    /\ local' = got["sync"]
    /\ Goes("sync", "write")
    /\ UNCHANGED <<cash, redis, running, got, missed, fills, failures>>

Write ==
    /\ pc["sync"] = "write"
    /\ \/ redis' = got["sync"] /\ missed' = 0 /\ UNCHANGED failures
       \/ Fails /\ missed' = (IF missed < TTL THEN missed + 1 ELSE missed) /\ UNCHANGED redis
    /\ Goes("sync", IF running THEN "asleep" ELSE "off")
    /\ UNCHANGED <<cash, local, running, got, fills>>

Wake ==
    /\ pc["sync"] = "asleep"
    /\ Goes("sync", IF running THEN "ask" ELSE "off")
    /\ UNCHANGED <<cash, redis, local, running, got, missed, fills, failures>>

Expire ==
    /\ redis /= None /\ missed = TTL
    /\ redis' = None
    /\ UNCHANGED <<cash, local, running, pc, got, missed, fills, failures>>

-----------------------------------------------------------------------------
(* get_cached_account, by a strategy or by update_on_fill.                   *)

Reads(t) ==
    /\ \/ got' = [got EXCEPT ![t] = redis] /\ UNCHANGED failures
       \/ got' = [got EXCEPT ![t] = None] /\ Fails
    /\ Goes(t, "apply")
    /\ UNCHANGED <<cash, redis, local, running, missed, fills>>

StartRead == pc["reader"] = "off" /\ Reads("reader")

\* What was in Redis replaces the local copy, which only serves when it was not.
Serve ==
    /\ pc["reader"] = "apply"
    /\ local' = IF got["reader"] = None THEN local ELSE got["reader"]
    /\ Goes("reader", "off")
    /\ got' = [got EXCEPT !["reader"] = None]
    /\ UNCHANGED <<cash, redis, running, missed, fills, failures>>

\* The broker executes an order; update_on_fill is called.
Fill ==
    /\ pc["update"] = "off"
    /\ fills < MaxFills
    /\ fills' = fills + 1
    /\ cash' = cash + Amounts[fills + 1]
    /\ Goes("update", "read")
    /\ UNCHANGED <<redis, local, running, got, missed, failures>>

UpdateRead == pc["update"] = "read" /\ Reads("update")

\* The estimate never falls below 0; without an account nothing is estimated.
Apply ==
    LET account == IF got["update"] = None THEN local ELSE got["update"]
        estimate == IF account + Amounts[fills] < 0 THEN 0 ELSE account + Amounts[fills]
    IN  /\ pc["update"] = "apply"
        /\ IF account = None
           THEN Goes("update", "off") /\ UNCHANGED <<local, got>>
           ELSE /\ local' = estimate
                /\ got' = [got EXCEPT !["update"] = estimate]
                /\ Goes("update", "write")
        /\ UNCHANGED <<cash, redis, running, missed, fills, failures>>

UpdateWrite ==
    /\ pc["update"] = "write"
    /\ \/ redis' = got["update"] /\ missed' = 0 /\ UNCHANGED failures
       \/ Fails /\ UNCHANGED <<redis, missed>>
    /\ Goes("update", "off")
    /\ got' = [got EXCEPT !["update"] = None]
    /\ UNCHANGED <<cash, local, running, fills>>

\* invalidate forgets both copies.
Invalidate ==
    /\ redis' = None /\ local' = None
    /\ UNCHANGED <<cash, running, pc, got, missed, fills, failures>>

Sync == Ask \/ AskFails \/ StoreLocal \/ Write \/ Wake
Update == UpdateRead \/ Apply \/ UpdateWrite

Next ==
    \/ StartSync \/ StopSync
    \/ Sync
    \/ Expire
    \/ StartRead \/ Serve
    \/ Fill
    \/ Update
    \/ Invalidate

Spec == Init /\ [][Next]_vars

\* The loop and the callers are tasks of the event loop; nobody has to read,
\* start or stop.
Fairness == WF_vars(Sync) /\ WF_vars(Update) /\ WF_vars(Serve)

-----------------------------------------------------------------------------

Served == IF redis = None THEN local ELSE redis

\* While the sync runs, what the strategies are served is the broker's balance
\* again and again: no estimate, no failed call and no reader that puts an old
\* value back into the local copy is served for ever.
Right == ~running \/ Served = cash
Corrected == []<>Right

=============================================================================
