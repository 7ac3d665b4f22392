------------------------- MODULE OrderBatchAggregator -------------------------
(* The batch aggregator (services/order_batch_aggregator.py): orders of one  *)
(* stock are held until a batch is full or a timer fires, then split by side *)
(* and price range.                                                          *)
EXTENDS Naturals, Sequences, FiniteSets

CONSTANTS
    Stocks,
    StockOf,        \* order.stock_code, of every order there is
    SideOf,         \* order.order_type
    RangeOf,        \* key of _group_by_price, NoRange for LIMIT without a price
    NoRange,
    MaxBatch        \* strategy.max_batch_size

Bufferable == DOMAIN StockOf

ASSUME AggregatorAssumption ==
    /\ StockOf \in [Bufferable -> Stocks]
    /\ SideOf \in [Bufferable -> {"BUY", "SELL"}]
    /\ DOMAIN RangeOf = Bufferable
    /\ MaxBatch \in Nat \ {0}

VARIABLES
    buffer,     \* _order_buffer
    timer,      \* whether _batch_timers has a task for the stock
    ready,      \* the orders of _ready_batches, which nothing takes out
    forgotten   \* orders of batches that were made and dropped, or of none

aggregatorVars == <<buffer, timer, ready, forgotten>>

AggregatorTypeOK ==
    /\ buffer \in [Stocks -> Seq(Bufferable)]
    /\ timer \in [Stocks -> BOOLEAN]
    /\ ready \subseteq Bufferable
    /\ forgotten \subseteq Bufferable

AggregatorInit ==
    /\ buffer = [s \in Stocks |-> <<>>]
    /\ timer = [s \in Stocks |-> FALSE]
    /\ ready = {}
    /\ forgotten = {}

-----------------------------------------------------------------------------

Members(os) == {os[i] : i \in 1 .. Len(os)}

\* _group_by_price: a LIMIT order without a price is in no group.
GroupedAt(os) == {i \in 1 .. Len(os) : RangeOf[os[i]] /= NoRange}

\* The k-th of a set of positions.
Nth(I, k) == CHOOSE i \in I : Cardinality({j \in I : j <= i}) = k

\* _smart_batch_orders: buys before sells, price ranges in the order they first
\* occur. These are the positions of the first batch.
FirstAt(os) ==
    LET buys == {i \in GroupedAt(os) : SideOf[os[i]] = "BUY"}
        side == IF buys /= {} THEN buys ELSE GroupedAt(os)
    IN  {i \in side : RangeOf[os[i]] = RangeOf[os[Nth(side, 1)]]}

FirstBatch(os) ==
    [k \in 1 .. Cardinality(FirstAt(os)) |-> os[Nth(FirstAt(os), k)]]

Grouped(os) == {os[i] : i \in GroupedAt(os)}

\* The batches of os after the first: _create_batch puts them into the queue.
LaterBatches(os) == {os[i] : i \in GroupedAt(os) \ FirstAt(os)}

Ungrouped(os) == {os[i] : i \in (1 .. Len(os)) \ GroupedAt(os)}

\* _create_batch for the stocks ss, where a holds what the buffer held. The
\* queue is unbounded, so its puts do not suspend.
Empty(ss, a) ==
    /\ buffer' = [s \in Stocks |-> IF s \in ss THEN <<>> ELSE a[s]]
    /\ timer' = [s \in Stocks |-> timer[s] /\ s \notin ss]

\* add_order, for the batch it returns: <<>> unless the buffer is full now.
Added(o) == [buffer EXCEPT ![StockOf[o]] = Append(@, o)]

Batch(o) ==
    LET os == Added(o)[StockOf[o]] IN
    IF Len(os) >= MaxBatch THEN FirstBatch(os) ELSE <<>>

\* A mistake TimerCoversBuffer catches: only the second order starts the timer.
AddOrderLate(o) ==
    LET s == StockOf[o]
        os == Added(o)[s]
    IN  IF Len(os) >= MaxBatch
        THEN /\ Empty({s}, Added(o))
             /\ ready' = ready \union LaterBatches(os)
             /\ forgotten' = forgotten \union Ungrouped(os)
        ELSE /\ buffer' = Added(o)
             /\ timer' = [timer EXCEPT ![s] = @ \/ Len(os) = 2]
             /\ UNCHANGED <<ready, forgotten>>

AddOrder(o) ==
    LET s == StockOf[o]
        os == Added(o)[s]
    IN  IF Len(os) >= MaxBatch
        THEN /\ Empty({s}, Added(o))
             /\ ready' = ready \union LaterBatches(os)
             /\ forgotten' = forgotten \union Ungrouped(os)
        ELSE /\ buffer' = Added(o)
             /\ timer' = [timer EXCEPT ![s] = @ \/ Len(os) = 1]
             /\ UNCHANGED <<ready, forgotten>>

\* timer_callback drops the batch that _create_batch returns.
TimerFires(s) ==
    /\ timer[s]
    /\ Empty({s}, buffer)
    /\ ready' = ready \union LaterBatches(buffer[s])
    /\ forgotten' = forgotten \union Ungrouped(buffer[s])
                              \union Members(FirstBatch(buffer[s]))

\* _flush_old_batches and _flush_all: every batch goes into the queue.
Flush(ss) ==
    /\ Empty(ss, buffer)
    /\ ready' = ready \union UNION {Grouped(buffer[s]) : s \in ss}
    /\ forgotten' = forgotten \union UNION {Ungrouped(buffer[s]) : s \in ss}

\* The age of a stock's first order counts from its creation, not from its
\* arrival in the buffer: any buffered stock may be old.
FlushOld(ss) ==
    /\ ss /= {}
    /\ \A s \in ss : buffer[s] /= <<>>
    /\ Flush(ss)

\* Every buffered order has a timer: none waits for a batch that never fills.
TimerCoversBuffer ==
    \A s \in Stocks : timer[s] <=> buffer[s] /= <<>>
=============================================================================
