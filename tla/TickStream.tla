------------------------------ MODULE TickStream ------------------------------
(* The way of a tick from the broker to the strategies: the collector's      *)
(* handlers (services/websocket_data_collector.py), which as many tasks call  *)
(* as receive, the pollers of its REST fallback (services/data_collector.py), *)
(* the Redis stream (cache/redis_stream_manager.py) or the bounded queue, the *)
(* engine's consumers (services/strategy_engine.py) and the price cache that  *)
(* is kept on the way (cache/price_cache.py). A tick is its stock and version.*)
EXTENDS Integers, Sequences, FiniteSets, FiniteSetsExt, SequencesExt

CONSTANTS
    Stocks,
    Plain,          \* stocks whose code begins with 0 and so is no JSON number
    Receivers,      \* how many tasks of the client receive at once
    Polled,         \* the values of streaming with which the REST fallback runs
    Count, MaxLen, QueueSize,
    MaxTicks        \* a bound: ticks and order books in all

VARIABLES
    streaming,  \* a stream manager is configured
    made,       \* the last version the broker sent of each stock
    handling,   \* ticks in the hands of a receiver or a poller, and what it awaits
    late,       \* pairs of ticks: the first was in hand when the second came
    stream,     \* ticks; their ids are the last numbers up to added
    added,      \* the last id Redis gave out
    position,   \* _last_read_ids, in memory
    queue,      \* market_data_queue
    batch,      \* ticks get_latest_by_stock returned, not yet looked at
    hot,        \* stocks evaluated less than throttle_ms ago
    seen,       \* the version the strategies evaluated last
    books,      \* order_book_queue
    cached      \* the version in the price cache, 0 when it expired

vars == <<streaming, made, handling, late, stream, added, position, queue, batch, hot, seen, books, cached>>

Tick == [stock : Stocks, version : 1 .. MaxTicks]
Zero == [s \in Stocks |-> 0]

TypeOK ==
    /\ streaming \in BOOLEAN
    /\ made \in [Stocks -> 0 .. MaxTicks] /\ seen \in [Stocks -> 0 .. MaxTicks]
    /\ cached \in [Stocks -> 0 .. MaxTicks]
    /\ \A h \in handling : h.tick \in Tick /\ h.step \in {"add", "cache", "ask", "put"}
    /\ \A pair \in late : pair \in Tick \X Tick
    /\ Len(queue) <= QueueSize /\ Len(books) <= QueueSize
    /\ position \in 0 .. added
    /\ batch \subseteq Tick /\ hot \subseteq Stocks

Init ==
    /\ streaming \in BOOLEAN
    /\ made = Zero /\ seen = Zero /\ cached = Zero
    /\ handling = {} /\ late = {} /\ batch = {} /\ hot = {}
    /\ stream = <<>> /\ queue = <<>> /\ books = <<>>
    /\ added = 0 /\ position = 0

-----------------------------------------------------------------------------

\* A mistake TypeOK catches: nothing is refused.
PutAnyway(q, tick) == Append(q, tick)

\* put_nowait: a full queue refuses the newest.
Put(q, tick) == IF Len(q) < QueueSize THEN Append(q, tick) ELSE q

\* A bound: the broker has something new to say of s.
MayMake == MapThenSumSet(LAMBDA t : made[t], Stocks) < MaxTicks
Newer(s) == [stock |-> s, version |-> made[s] + 1]

\* Where a tick in hand stands before it comes to what the engine reads.
Waits == IF streaming THEN {"add"} ELSE {"ask", "put"}

\* What waits may come there after this tick; and this tick comes after all that
\* is newer, when it is an old price.
LateFor(tick) ==
    {<<h.tick, tick>> : h \in {g \in handling : /\ g.step \in Waits
                                                /\ g.tick.stock = tick.stock
                                                /\ g.tick.version < tick.version}}
    \union {<<tick, [tick EXCEPT !.version = v]>> : v \in tick.version + 1 .. made[tick.stock]}

\* With a stream the engine never sees what the pollers put.
Take(tick, step) ==
    /\ handling' = handling \union {[tick |-> tick, step |-> step]}
    /\ late' = IF streaming /\ step /= "add" THEN late ELSE late \union LateFor(tick)

\* A receiver awaits the handler of a tick before it reads the next message.
IsFree == Cardinality({h \in handling : h.step \in {"add", "cache"}}) < Receivers

\* _on_trade_data.
Trade(s) ==
    /\ MayMake /\ IsFree
    /\ made' = [made EXCEPT ![s] = @ + 1]
    /\ Take(Newer(s), IF streaming THEN "add" ELSE "cache")
    /\ queue' = IF streaming THEN queue ELSE Put(queue, Newer(s))
    /\ UNCHANGED <<streaming, stream, added, position, batch, hot, seen, books, cached>>

OrderBook(s) ==
    /\ MayMake /\ IsFree
    /\ made' = [made EXCEPT ![s] = @ + 1]
    /\ books' = Put(books, Newer(s))
    /\ UNCHANGED <<streaming, handling, late, stream, added, position, queue, batch, hot, seen, cached>>

Goes(h, step) == handling' = (handling \ {h}) \union {[h EXCEPT !.step = step]}

\* XADD, which may or may not trim the stream to MaxLen.
Add(h) ==
    LET longer == Append(stream, h.tick)
    IN  /\ h.step = "add"
        /\ Goes(h, "cache")
        /\ added' = added + 1
        /\ stream' \in {longer} \union (IF Len(longer) > MaxLen THEN {Tail(longer)} ELSE {})
        /\ UNCHANGED <<streaming, made, late, position, queue, batch, hot, seen, books, cached>>

\* xadd answers a RedisError with None, which the handler does not look at:
\* only another exception sends the tick to the queue, and no one reads it there.
AddFails(h) ==
    /\ h.step = "add"
    /\ Goes(h, "cache")
    /\ queue' \in {queue, Put(queue, h.tick)}
    /\ UNCHANGED <<streaming, made, late, stream, added, position, batch, hot, seen, books, cached>>

\* RedisPriceCache.set, which may fail; nothing here reads the history it keeps
\* too. A poller stores what the broker answered before it puts it.
Cache(h) ==
    LET s == h.tick.stock
    IN  /\ \/ h.step = "cache" /\ handling' = handling \ {h}
           \/ h.step = "ask" /\ Goes(h, "put")
        /\ cached' \in {cached, [cached EXCEPT ![s] = h.tick.version]}
        /\ UNCHANGED <<streaming, made, late, stream, added, position, queue, batch, hot, seen, books>>

\* The lifetime of a price, one second to ten by its volatility, ends.
Expire(s) ==
    /\ cached[s] /= 0
    /\ cached' = [cached EXCEPT ![s] = 0]
    /\ UNCHANGED <<streaming, made, handling, late, stream, added, position, queue, batch, hot, seen, books>>

\* trim_by_time.
Trim ==
    /\ stream /= <<>>
    /\ stream' = Tail(stream)
    /\ UNCHANGED <<streaming, made, handling, late, added, position, queue, batch, hot, seen, books, cached>>

-----------------------------------------------------------------------------
(* The pollers of the REST collector, one for each stock, which run while the *)
(* WebSocket is given up and as long as its end is not noticed.               *)

MayPoll(s) == streaming \in Polled /\ ~\E h \in handling : h.tick.stock = s /\ h.step \in {"ask", "put"}

\* The broker's answer is made now and comes later.
Ask(s) ==
    /\ MayMake /\ MayPoll(s)
    /\ made' = [made EXCEPT ![s] = @ + 1]
    /\ Take(Newer(s), "ask")
    /\ UNCHANGED <<streaming, stream, added, position, queue, batch, hot, seen, books, cached>>

\* A price in Redis, however old, is taken for the answer.
Hit(s) ==
    /\ cached[s] /= 0 /\ MayPoll(s)
    /\ Take([stock |-> s, version |-> cached[s]], "put")
    /\ UNCHANGED <<streaming, made, stream, added, position, queue, batch, hot, seen, books, cached>>

\* The poller waits for room, also in a queue that nobody but its own collector reads.
PutPolled(h) ==
    /\ h.step = "put" /\ Len(queue) < QueueSize
    /\ handling' = handling \ {h}
    /\ queue' = Append(queue, h.tick)
    /\ UNCHANGED <<streaming, made, late, stream, added, position, batch, hot, seen, books, cached>>

\* The call fails, or the poller is cancelled.
PollEnds(h) ==
    /\ h.step \in {"ask", "put"}
    /\ handling' = handling \ {h}
    /\ UNCHANGED <<streaming, made, late, stream, added, position, queue, batch, hot, seen, books, cached>>

\* The loop of the REST collector takes from the queue too, to note the time.
CollectorTakes ==
    /\ queue /= <<>>
    /\ queue' = Tail(queue)
    /\ UNCHANGED <<streaming, made, handling, late, stream, added, position, batch, hot, seen, books, cached>>

-----------------------------------------------------------------------------
(* The engine.                                                               *)

Lesser(a, b) == IF a < b THEN a ELSE b

\* XREAD: the first Count of the entries that have an id above the position and
\* are in the stream still.
Unread == Lesser(Len(stream), added - position)
Read == Lesser(Unread, Count)
Messages == SubSeq(stream, Len(stream) - Unread + 1, Len(stream) - Unread + Read)

\* _decode_fields reads every field as JSON: a code that is a number then is no
\* stock code for _data_to_stock, and its ticks are dropped.
Decodes(s) == s \in Plain

\* get_latest_by_stock: the last message of each stock among the first Count.
Latest ==
    LET of(s) == {i \in DOMAIN Messages : Messages[i].stock = s}
    IN  {[stock |-> s, version |-> Messages[CHOOSE i \in of(s) : \A j \in of(s) : j <= i].version]
            : s \in {t \in Stocks : Decodes(t) /\ of(t) /= {}}}

\* A mistake NeverOlder catches: the engine reads on before it is done with a batch.
ReadAhead ==
    /\ streaming
    /\ Messages /= <<>>
    /\ batch' = batch \union Latest
    /\ position' = added - Unread + Read
    /\ UNCHANGED <<streaming, made, handling, late, stream, added, queue, hot, seen, books, cached>>

ReadStream ==
    /\ streaming
    /\ batch = {} /\ Messages /= <<>>
    /\ batch' = Latest
    /\ position' = added - Unread + Read    \* the id of the last message
    /\ UNCHANGED <<streaming, made, handling, late, stream, added, queue, hot, seen, books, cached>>

\* A tick of a stock that was just evaluated is passed over for good.
Evaluate(tick) ==
    /\ batch' = batch \ {tick}
    /\ IF tick.stock \in hot
       THEN UNCHANGED <<hot, seen>>
       ELSE hot' = hot \union {tick.stock} /\ seen' = [seen EXCEPT ![tick.stock] = tick.version]
    /\ UNCHANGED <<streaming, made, handling, late, stream, added, position, queue, books, cached>>

Cool(s) ==
    /\ s \in hot
    /\ hot' = hot \ {s}
    /\ UNCHANGED <<streaming, made, handling, late, stream, added, position, queue, batch, seen, books, cached>>

\* Without a stream the queue is read, with neither conflation nor throttling.
ReadQueue ==
    /\ ~streaming
    /\ queue /= <<>>
    /\ queue' = Tail(queue)
    /\ seen' = [seen EXCEPT ![Head(queue).stock] = Head(queue).version]
    /\ UNCHANGED <<streaming, made, handling, late, stream, added, position, batch, hot, books, cached>>

ReadBook ==
    /\ books /= <<>>
    /\ books' = Tail(books)
    /\ UNCHANGED <<streaming, made, handling, late, stream, added, position, queue, batch, hot, seen, cached>>

\* The process starts again: the position was in memory, the stream was not.
Restart ==
    /\ handling' = {} /\ batch' = {} /\ hot' = {}
    /\ queue' = <<>> /\ books' = <<>>
    /\ position' = 0
    /\ seen' = Zero
    /\ UNCHANGED <<streaming, made, late, stream, added, cached>>

Next ==
    \/ \E s \in Stocks : Trade(s) \/ OrderBook(s) \/ Ask(s) \/ Hit(s) \/ Expire(s) \/ Cool(s)
    \/ \E h \in handling : Add(h) \/ AddFails(h) \/ Cache(h) \/ PutPolled(h) \/ PollEnds(h)
    \/ CollectorTakes \/ Trim
    \/ ReadStream \/ ReadQueue \/ ReadBook
    \/ \E tick \in batch : Evaluate(tick)
    \/ Restart

Spec == Init /\ [][Next]_vars

-----------------------------------------------------------------------------

\* However ticks are conflated, throttled, lost or trimmed on the way, the
\* strategies never evaluate a price that is older than the last they evaluated,
\* unless the process was started again, or the older price was still in the
\* hands of a task when the newer one came to another, or came out of the cache.
SeenTick(s) == [stock |-> s, version |-> seen[s]]
NotOlder ==
    \/ seen' = Zero
    \/ \A s \in Stocks : seen'[s] >= seen[s] \/ <<SeenTick(s)', SeenTick(s)>> \in late
NeverOlder == [][NotOlder]_vars

=============================================================================
