------------------------------ MODULE MinuteBars ------------------------------
(* Minute bars of one stock: services/minute_bar_collector.py builds the bars *)
(* of every interval from the ticks, services/data_aggregator.py joins bars    *)
(* into wider ones. Times are minutes.                                         *)
EXTENDS Integers, Sequences, SequencesExt

CONSTANTS
    Narrow, Wide,       \* the supported intervals, in minutes
    Hour,               \* minutes of an hour
    Prices,
    MaxClock, MaxTicks  \* bounds: minutes that pass, ticks added

VARIABLES
    clock,
    added,      \* ticks added so far
    running,    \* the collector is started
    waiting,    \* its task waits at an empty tick_buffer
    buffer,     \* tick_buffer
    active,     \* active_bars of the stock: at most one per interval
    completed   \* every bar put into completed_bars, taken or not

vars == <<clock, added, running, waiting, buffer, active, completed>>

Intervals == {Narrow, Wide}

TypeOK ==
    /\ clock \in 0 .. MaxClock /\ added \in 0 .. MaxTicks
    /\ running \in BOOLEAN /\ waiting \in BOOLEAN
    /\ \A t \in ToSet(buffer) : t.time <= clock /\ t.price \in Prices
    /\ \A b \in active \union ToSet(completed) : b.minutes \in Intervals /\ b.low <= b.high

Init ==
    /\ clock = 0 /\ added = 0
    /\ running = FALSE /\ waiting = FALSE
    /\ buffer = <<>> /\ active = {} /\ completed = <<>>

-----------------------------------------------------------------------------
(* Bars.                                                                     *)

\* _get_bar_window: minute // interval * interval, within the hour.
WindowStart(time, minutes) == time - ((time % Hour) % minutes)

End(bar) == bar.start + bar.minutes

NewBar(tick, minutes) ==
    [minutes |-> minutes, start |-> WindowStart(tick.time, minutes),
     open |-> tick.price, high |-> tick.price, low |-> tick.price, close |-> tick.price,
     volume |-> tick.volume]

Larger(a, b) == IF a >= b THEN a ELSE b
Smaller(a, b) == IF a <= b THEN a ELSE b

\* MinuteBar.update
Updated(bar, tick) ==
    [bar EXCEPT !.high = Larger(@, tick.price), !.low = Smaller(@, tick.price),
                !.close = tick.price, !.volume = @ + tick.volume]

\* A mistake BarsAgree catches: the tick on the boundary still counts.
StaysLonger(bar, tick) == tick.time <= End(bar)

\* Only the end of the bar is compared with the tick, not its beginning.
Stays(bar, tick) == tick.time < End(bar)

-----------------------------------------------------------------------------
(* The collector.                                                            *)

\* add_tick, and add_stock_tick, whose volume is 0: a Stock has no last_volume.
AddTick(price, volume) ==
    /\ added < MaxTicks
    /\ added' = added + 1
    /\ buffer' = Append(buffer, [time |-> clock, price |-> price, volume |-> volume])
    /\ UNCHANGED <<clock, running, waiting, active, completed>>

Minute ==
    /\ clock < MaxClock
    /\ clock' = clock + 1
    /\ UNCHANGED <<added, running, waiting, buffer, active, completed>>

Start ==
    /\ ~running
    /\ running' = TRUE
    /\ waiting' = (buffer = <<>>)
    /\ UNCHANGED <<clock, added, buffer, active, completed>>

\* _complete_bar for each of bars, the intervals in their order.
Complete(bars) ==
    /\ active' = active \ bars
    /\ completed' = completed \o SetToSortSeq(bars, LAMBDA a, b : a.minutes < b.minutes)

\* stop completes every bar; ticks in the buffer stay there.
Stop ==
    /\ running
    /\ running' = FALSE /\ waiting' = FALSE
    /\ Complete(active)
    /\ UNCHANGED <<clock, added, buffer>>

\* _update_bars: per interval a bar is updated, or completed and replaced.
UpdateBars ==
    /\ running /\ buffer /= <<>>
    /\ LET tick == Head(buffer)
           kept == {b \in active : Stays(b, tick)}
           over == active \ kept
           none == Intervals \ {b.minutes : b \in kept}
       IN  /\ active' = {Updated(b, tick) : b \in kept} \union {NewBar(tick, m) : m \in none}
           /\ completed' = completed \o SetToSortSeq(over, LAMBDA a, b : a.minutes < b.minutes)
    /\ buffer' = Tail(buffer)
    /\ waiting' = (Len(buffer) = 1)
    /\ UNCHANGED <<clock, added, running>>

\* The wait for a tick times out, maybe just as one arrives.
CheckCompleted ==
    /\ waiting
    /\ Complete({b \in active : clock >= End(b)})
    /\ waiting' = (buffer = <<>>)
    /\ UNCHANGED <<clock, added, running, buffer>>

Next ==
    \/ \E p \in Prices, v \in {0, 1} : AddTick(p, v)
    \/ Minute \/ Start \/ Stop \/ UpdateBars \/ CheckCompleted

Spec == Init /\ [][Next]_vars

-----------------------------------------------------------------------------
(* DataAggregator.                                                           *)

\* _aggregate_group. Its start is its first bar's, not the window's.
AggregateGroup(bars) ==
    [start |-> Head(bars).start,
     open |-> Head(bars).open, close |-> Last(bars).close,
     high |-> FoldSeq(LAMBDA b, m : Larger(b.high, m), Head(bars).high, bars),
     low |-> FoldSeq(LAMBDA b, m : Smaller(b.low, m), Head(bars).low, bars),
     volume |-> FoldSeq(LAMBDA b, m : b.volume + m, 0, bars),
     turnover |-> FoldSeq(LAMBDA b, m : b.close * b.volume + m, 0, bars)]

\* aggregate_bars: one group per window that has a bar.
AggregateBars(bars, minutes) ==
    LET sorted == SortSeq(bars, LAMBDA a, b : a.start < b.start)
        window(b) == WindowStart(b.start, minutes)
    IN  [w \in {window(b) : b \in ToSet(bars)} |->
            AggregateGroup(SelectSeq(sorted, LAMBDA b : window(b) = w))]

-----------------------------------------------------------------------------

BarsOf(minutes) == SelectSeq(completed, LAMBDA b : b.minutes = minutes)

\* What a reader of the candle sees.
Candle(bar) == <<bar.open, bar.high, bar.low, bar.close, bar.volume>>

Candles(minutes) ==
    LET bars == AggregateBars(BarsOf(minutes), Wide)
    IN  [w \in DOMAIN bars |-> Candle(bars[w])]

\* Once no bar is active, the aggregator makes of the narrow bars the same
\* wide candles the collector built from the ticks, whatever restarts and
\* timeouts cut the bars into (_update_bars, _check_completed_bars, stop and
\* aggregate_bars).
BarsAgree == active = {} => Candles(Narrow) = Candles(Wide)

=============================================================================
