------------------------------ MODULE Dashboard ------------------------------
(* The dashboard: the publisher in the trading process and the subscriber in  *)
(* the dashboard process (dashboard/services), which meet in Redis through    *)
(* states and channels (cache/shared_data.py, cache/redis_manager.py), and    *)
(* one browser. What is shown is a version of it; every call is an await.     *)
EXTENDS Integers, Sequences

CONSTANTS
    MaxChanges, MaxFailures, MaxMessages    \* bounds

VARIABLES
    actual,     \* the version of each kind of data in the trading process
    seen,       \* the version the publisher built its round from
    hash,       \* the version of the last hash, -1 before the first
    stored,     \* the version in the shared state
    step,       \* what the publisher's loop does next
    trade,      \* where publish_trade stands: "none", "publish", "store"
    channel,    \* messages published and not yet handled
    listening,  \* the subscriber's listener runs
    client,     \* "off", "joining", "sending", "on"
    snapshot,   \* what a joining client will be sent
    view,       \* what the browser shows
    failures

vars == <<actual, seen, hash, stored, step, trade, channel, listening, client, snapshot, view, failures>>

Kinds == {"positions", "portfolio", "trades", "pending"}
Versions == 0 .. MaxChanges

TypeOK ==
    /\ actual \in [Kinds -> Versions] /\ seen \in [Kinds -> Versions]
    /\ stored \in [Kinds -> Versions]
    /\ snapshot \in [Kinds -> Versions] /\ view \in [Kinds -> Versions]
    /\ hash \in [Kinds -> Versions \union {-1}]
    /\ step \in {"off", "asleep", "positions", "portfolio", "tell portfolio", "pending", "tell pending"}
    /\ trade \in {"none", "publish", "store"}
    /\ Len(channel) <= MaxMessages
    /\ listening \in BOOLEAN /\ client \in {"off", "joining", "sending", "on"}
    /\ failures \in 0 .. MaxFailures

Zero == [k \in Kinds |-> 0]

Init ==
    /\ actual = Zero /\ seen = Zero /\ stored = Zero
    /\ snapshot = Zero /\ view = Zero
    /\ hash = [k \in Kinds |-> -1]
    /\ step = "off" /\ trade = "none"
    /\ channel = <<>> /\ listening = FALSE
    /\ client = "off" /\ failures = 0

-----------------------------------------------------------------------------
(* Redis.                                                                    *)

Fails == failures < MaxFailures /\ failures' = failures + 1

\* RedisManager.set answers an error with False, which no caller here looks at.
Set(kind, version) ==
    \/ stored' = [stored EXCEPT ![kind] = version] /\ UNCHANGED failures
    \/ Fails /\ UNCHANGED stored

\* RedisManager.get answers an error with the default, that is nothing.
Get == {stored} \union (IF failures < MaxFailures THEN {Zero} ELSE {})

\* publish reaches those who listen at the moment.
Publish(kind, version) ==
    /\ Len(channel) < MaxMessages
    /\ channel' = IF listening THEN Append(channel, [kind |-> kind, version |-> version]) ELSE channel
    /\ UNCHANGED failures

-----------------------------------------------------------------------------
(* The publisher.                                                            *)

\* A position changes, and with it the portfolio. The pending orders never
\* change: "pending_orders or {}" replaces the empty dictionary the system hands
\* over by one nobody writes to.
Change ==
    /\ actual["positions"] < MaxChanges
    /\ actual' = [actual EXCEPT !["positions"] = @ + 1, !["portfolio"] = @ + 1]
    /\ UNCHANGED <<seen, hash, stored, step, trade, channel, listening, client, snapshot, view, failures>>

StartPublisher ==
    /\ step = "off" /\ step' = "asleep"
    /\ UNCHANGED <<actual, seen, hash, stored, trade, channel, listening, client, snapshot, view, failures>>

StopPublisher ==
    /\ step /= "off" /\ step' = "off"
    /\ UNCHANGED <<actual, seen, hash, stored, trade, channel, listening, client, snapshot, view, failures>>

\* A mistake PortfolioShown catches: the portfolio is written like the
\* positions, when its hash has changed.
OnlyIfChanged(kind, version) == hash[kind] /= version

\* The portfolio holds the time it was built at and so is always new.
Differs(kind, version) == kind = "portfolio" \/ hash[kind] /= version

\* _publish_snapshot builds positions and portfolio, and writes what differs.
Wake ==
    /\ step = "asleep"
    /\ seen' = [actual EXCEPT !["trades"] = 0]
    /\ step' = IF Differs("positions", actual["positions"]) THEN "positions"
               ELSE IF Differs("portfolio", actual["portfolio"]) THEN "portfolio"
               ELSE IF Differs("pending", actual["pending"]) THEN "pending" ELSE "asleep"
    /\ UNCHANGED <<actual, hash, stored, trade, channel, listening, client, snapshot, view, failures>>

Remembers(kind) == hash' = [hash EXCEPT ![kind] = seen[kind]]

\* The hash is remembered whether the state was stored or not.
StorePositions ==
    /\ step = "positions"
    /\ Set("positions", seen["positions"])
    /\ Remembers("positions")
    /\ step' = IF Differs("portfolio", seen["portfolio"]) THEN "portfolio"
               ELSE IF Differs("pending", actual["pending"]) THEN "pending" ELSE "asleep"
    /\ UNCHANGED <<actual, seen, trade, channel, listening, client, snapshot, view>>

Store(kind, next) ==
    /\ step = kind
    /\ Set(kind, seen[kind])
    /\ step' = next
    /\ UNCHANGED <<actual, seen, hash, trade, channel, listening, client, snapshot, view>>

\* The message follows; when it cannot be sent the round is over, and its hash
\* is not remembered.
Tell(kind, here) ==
    /\ step = here
    /\ \/ /\ Publish(kind, seen[kind])
          /\ Remembers(kind)
          /\ step' = IF kind = "portfolio" /\ Differs("pending", actual["pending"]) THEN "pending" ELSE "asleep"
       \/ Fails /\ step' = "asleep" /\ UNCHANGED <<channel, hash>>
    /\ UNCHANGED <<actual, seen, stored, trade, listening, client, snapshot, view>>

Loop ==
    \/ Wake
    \/ StorePositions
    \/ Store("portfolio", "tell portfolio") \/ Tell("portfolio", "tell portfolio")
    \/ Store("pending", "tell pending") \/ Tell("pending", "tell pending")

\* publish_trade, by the executor's callback: the list grows, then the message
\* is sent, and last the list is stored, unless the message failed.
TradeFilled ==
    /\ trade = "none"
    /\ actual["trades"] < MaxChanges
    /\ actual' = [actual EXCEPT !["trades"] = @ + 1]
    /\ trade' = "publish"
    /\ UNCHANGED <<seen, hash, stored, step, channel, listening, client, snapshot, view, failures>>

PublishTrade ==
    /\ trade = "publish"
    /\ \/ Publish("trades", actual["trades"]) /\ trade' = "store"
       \/ Fails /\ trade' = "none" /\ UNCHANGED channel
    /\ UNCHANGED <<actual, seen, hash, stored, step, listening, client, snapshot, view>>

StoreTrades ==
    /\ trade = "store"
    /\ Set("trades", actual["trades"])
    /\ trade' = "none"
    /\ UNCHANGED <<actual, seen, hash, step, channel, listening, client, snapshot, view>>

-----------------------------------------------------------------------------
(* The subscriber and the browser.                                           *)

\* start, once in the life of the dashboard process.
StartSubscriber ==
    /\ ~listening /\ listening' = TRUE
    /\ UNCHANGED <<actual, seen, hash, stored, step, trade, channel, client, snapshot, view, failures>>

\* stop, or an error of the connection, after which this process listens no more.
ListenerEnds ==
    /\ listening /\ listening' = FALSE
    /\ channel' = <<>>
    /\ UNCHANGED <<actual, seen, hash, stored, step, trade, client, snapshot, view, failures>>

\* _pubsub_listener: the callback broadcasts to every client that was added.
Broadcast ==
    /\ channel /= <<>>
    /\ channel' = Tail(channel)
    /\ view' = IF client = "off" THEN view ELSE [view EXCEPT ![Head(channel).kind] = Head(channel).version]
    /\ UNCHANGED <<actual, seen, hash, stored, step, trade, listening, client, snapshot, failures>>

\* add_client adds the client before it reads the snapshot for it.
AddClient ==
    /\ client = "off" /\ client' = "joining"
    /\ UNCHANGED <<actual, seen, hash, stored, step, trade, channel, listening, snapshot, view, failures>>

GetSnapshot ==
    /\ client = "joining" /\ client' = "sending"
    /\ snapshot' \in Get
    /\ failures' = IF snapshot' = stored THEN failures ELSE failures + 1
    /\ UNCHANGED <<actual, seen, hash, stored, step, trade, channel, listening, view>>

SendSnapshot ==
    /\ client = "sending" /\ client' = "on"
    /\ view' = snapshot
    /\ UNCHANGED <<actual, seen, hash, stored, step, trade, channel, listening, snapshot, failures>>

\* remove_client, or a send that failed.
RemoveClient ==
    /\ client /= "off" /\ client' = "off"
    /\ UNCHANGED <<actual, seen, hash, stored, step, trade, channel, listening, snapshot, view, failures>>

Next ==
    \/ Change
    \/ StartPublisher \/ StopPublisher \/ Loop
    \/ TradeFilled \/ PublishTrade \/ StoreTrades
    \/ StartSubscriber \/ ListenerEnds \/ Broadcast
    \/ AddClient \/ GetSnapshot \/ SendSnapshot \/ RemoveClient

Spec == Init /\ [][Next]_vars

\* The tasks of both processes go on; nobody has to start, join or change anything.
Fairness ==
    /\ WF_vars(Loop) /\ WF_vars(PublishTrade) /\ WF_vars(StoreTrades)
    /\ WF_vars(Broadcast)
    /\ WF_vars(GetSnapshot) /\ WF_vars(SendSnapshot)

-----------------------------------------------------------------------------

\* A browser that stays comes to show the portfolio as it is, whatever Redis
\* refused meanwhile and however its snapshot and the messages crossed, as long
\* as the publisher and the listener run. (Not so the positions, whose hash is
\* remembered though they were not stored, the trades, or the pending orders.)
Current == step = "off" \/ ~listening \/ client /= "on" \/ view["portfolio"] = actual["portfolio"]
PortfolioShown == []<>Current

=============================================================================
