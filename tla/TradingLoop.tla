------------------------------ MODULE TradingLoop ------------------------------
(* The strategy engine (services/strategy_engine.py) and the risk monitor     *)
(* (services/risk_monitor.py, risk_manager.py) trading one stock through one  *)
(* order executor, whose steps are reduced to its awaits and its checks. Each *)
(* engine evaluation runs between awaits as one step.                         *)
EXTENDS Integers, Sequences

CONSTANTS
    Prices, Gap,        \* Gap stands for stop_loss_pct and take_profit_pct
    Starts,             \* the positions the dictionary may hold when the engine is built
    MaxBuys, MaxFailures    \* bounds

VARIABLES
    live,       \* the client is KiwoomClient, and not the simulator
    shared,     \* the engine's positions are the executor's
    market,     \* the price of the stock
    halted,     \* the broker's account is over the daily loss limit
    book,       \* the executor's position: quantity 0 for none, prices 0 for None
    events,     \* balance messages not yet handled: quantity and average
    stuck,      \* sides of pending orders nobody removes any more
    order,      \* the order each task waits for in execute_order
    engine,     \* where the engine stands: "off", "idle", "buying", "check", "selling"
    monitor,    \* where the monitor stands: "off", "asleep", "quote", "selling"
    buys, failures

vars == <<live, shared, market, halted, book, events, stuck, order, engine, monitor, buys, failures>>

Tasks == {"engine", "monitor"}
None == [side |-> "none", quantity |-> 0, at |-> "done"]
NoPosition == [quantity |-> 0, average |-> 0, current |-> 0, stop |-> 0, take |-> 0]

TypeOK ==
    /\ live \in BOOLEAN /\ shared \in BOOLEAN /\ halted \in BOOLEAN
    /\ market \in Prices
    /\ DOMAIN book = DOMAIN NoPosition /\ book.quantity >= 0
    /\ stuck \subseteq {"BUY", "SELL"}
    /\ \A t \in Tasks : order[t].at \in {"done", "account", "price", "client"}
    /\ engine \in {"off", "idle", "buying", "check", "selling"}
    /\ monitor \in {"off", "asleep", "quote", "selling"}
    /\ buys \in 0 .. MaxBuys /\ failures \in 0 .. MaxFailures

\* "positions or {}": an empty dictionary is replaced by one of the engine's own.
Init ==
    /\ live \in BOOLEAN
    /\ market \in Prices
    /\ halted = FALSE
    /\ book \in Starts
    /\ shared = (book.quantity > 0)
    /\ events = <<>> /\ stuck = {}
    /\ order = [t \in Tasks |-> None]
    /\ engine = "off" /\ monitor = "off"
    /\ buys = 0 /\ failures = 0

-----------------------------------------------------------------------------
(* The position and its triggers.                                            *)

\* A mistake StopsFire catches: a price at the limit triggers nothing.
TriggeredBeyond(p) ==
    \/ p.stop /= 0 /\ p.current < p.stop
    \/ p.take /= 0 /\ p.current > p.take

\* check_stop_loss_triggered, check_take_profit_triggered.
Triggered(p) ==
    \/ p.stop /= 0 /\ p.current <= p.stop
    \/ p.take /= 0 /\ p.current >= p.take

\* check_position_trigger of a position there is.
NeedsSale(p) == p.quantity > 0 /\ Triggered(p)

\* _set_stop_loss_take_profit: the first price that is on the wrong side of the
\* current one raises, and what comes after it is left unset.
Protected(p) ==
    LET stop == p.average - Gap
        take == p.average + Gap
    IN  IF stop <= 0 \/ stop >= p.current THEN p
        ELSE IF take <= p.current THEN [p EXCEPT !.stop = stop]
        ELSE [p EXCEPT !.stop = stop, !.take = take]

Priced(p) == IF p.quantity = 0 THEN p ELSE [p EXCEPT !.current = market]

EngineSees == IF shared THEN book ELSE NoPosition

\* The event loop runs nothing else while the engine goes on to its sell check.
Idle == engine /= "check"

-----------------------------------------------------------------------------
(* execute_order, for the task t.                                            *)

Pending == stuck \union {order[t].side : t \in {u \in Tasks : order[u].at = "client"}}

Finish(t, fate) ==
    /\ order' = [order EXCEPT ![t] = None]
    /\ IF t = "monitor"
       THEN monitor' = "asleep" /\ UNCHANGED <<engine, book>>
       ELSE /\ engine' = IF order[t].side = "BUY" THEN "check" ELSE "idle"
            /\ book' = IF fate = "FILLED" /\ order[t].side = "BUY" /\ shared /\ book.quantity > 0
                       THEN Protected(book) ELSE book
            /\ UNCHANGED monitor

Fail(t) ==
    /\ Idle
    /\ order[t] /= None
    /\ failures < MaxFailures
    /\ failures' = failures + 1
    /\ Finish(t, "FAILED")
    /\ UNCHANGED <<live, shared, market, halted, events, stuck, buys>>

\* should_stop_trading refuses sales just as it refuses purchases.
AccountAnswers(t) ==
    /\ Idle
    /\ order[t].at = "account"
    /\ IF halted
       THEN Finish(t, "REJECTED")
       ELSE order' = [order EXCEPT ![t].at = "price"] /\ UNCHANGED <<engine, monitor, book>>
    /\ UNCHANGED <<live, shared, market, halted, events, stuck, buys, failures>>

\* validate_sell_order compares with the position of this moment.
PriceAnswers(t) ==
    /\ Idle
    /\ order[t].at = "price"
    /\ IF order[t].side = "SELL" /\ order[t].quantity > book.quantity
       THEN Finish(t, "REJECTED")
       ELSE order' = [order EXCEPT ![t].at = "client"] /\ UNCHANGED <<engine, monitor, book>>
    /\ UNCHANGED <<live, shared, market, halted, events, stuck, buys, failures>>

\* The simulator fills at once and sends no balance message; the broker accepts
\* the order, whose entry stays, executes it, and reports the new balance.
Known == IF events = <<>> THEN [quantity |-> book.quantity, average |-> book.average] ELSE events[Len(events)]
After(o) ==
    IF o.side = "SELL"
    THEN [quantity |-> Known.quantity - o.quantity, average |-> Known.average]
    ELSE [quantity |-> Known.quantity + 1,
          average |-> (Known.quantity * Known.average + market) \div (Known.quantity + 1)]

ClientAnswers(t) ==
    /\ Idle
    /\ order[t].at = "client"
    /\ IF ~live
       THEN Finish(t, "FILLED") /\ UNCHANGED <<events, stuck>>
       ELSE IF After(order[t]).quantity < 0
       THEN Finish(t, "REJECTED") /\ UNCHANGED <<events, stuck>>
       ELSE /\ Finish(t, "SUBMITTED")
            /\ events' = Append(events, After(order[t]))
            /\ stuck' = stuck \union {order[t].side}
    /\ UNCHANGED <<live, shared, market, halted, buys, failures>>

\* _handle_balance_update_event.
HandleBalance ==
    LET e == Head(events)
    IN  /\ Idle
        /\ events /= <<>>
        /\ events' = Tail(events)
        /\ book' = IF e.quantity = 0 THEN NoPosition
                   ELSE [book EXCEPT !.quantity = e.quantity, !.average = e.average, !.current = market]
        /\ UNCHANGED <<live, shared, market, halted, stuck, order, engine, monitor, buys, failures>>

-----------------------------------------------------------------------------
(* The engine.                                                               *)

EngineRun ==
    /\ engine = "off" /\ engine' = "idle"
    /\ UNCHANGED <<live, shared, market, halted, book, events, stuck, order, monitor, buys, failures>>

\* stop cancels the consumer; an order that was sent leaves its entry behind.
EngineStop ==
    /\ engine \notin {"off", "check"} /\ engine' = "off"
    /\ stuck' = IF order["engine"].at = "client" THEN stuck \union {order["engine"].side} ELSE stuck
    /\ order' = [order EXCEPT !["engine"] = None]
    /\ UNCHANGED <<live, shared, market, halted, book, events, monitor, buys, failures>>

\* The sell check of one evaluation, of the position p: a signal or a trigger
\* sells all of it.
SellCheck(p) ==
    \/ /\ p.quantity > 0
       /\ "SELL" \notin Pending
       /\ engine' = "selling"
       /\ order' = [order EXCEPT !["engine"] = [side |-> "SELL", quantity |-> p.quantity, at |-> "account"]]
    \/ /\ ~NeedsSale(p) \/ "SELL" \in Pending
       /\ engine' = "idle" /\ UNCHANGED order

\* A tick without a buy signal.
TickToSell ==
    /\ engine = "idle"
    /\ book' = IF shared THEN Priced(book) ELSE book
    /\ SellCheck(IF shared THEN Priced(book) ELSE NoPosition)
    /\ UNCHANGED <<live, shared, market, halted, events, stuck, monitor, buys, failures>>

\* A tick with a buy signal. A pending purchase, an empty account cache or a
\* size of 0 ends the evaluation, and with it the sell check.
TickToBuy ==
    /\ engine = "idle"
    /\ book' = IF shared THEN Priced(book) ELSE book
    /\ \/ /\ "BUY" \notin Pending
          /\ buys < MaxBuys /\ buys' = buys + 1
          /\ engine' = "buying"
          /\ order' = [order EXCEPT !["engine"] = [side |-> "BUY", quantity |-> 1, at |-> "account"]]
       \/ UNCHANGED <<engine, order, buys>>
    /\ UNCHANGED <<live, shared, market, halted, events, stuck, monitor, failures>>

CheckAfterBuy ==
    /\ engine = "check"
    /\ SellCheck(EngineSees)
    /\ UNCHANGED <<live, shared, market, halted, book, events, stuck, monitor, buys, failures>>

-----------------------------------------------------------------------------
(* The monitor.                                                              *)

MonitorRun ==
    /\ Idle
    /\ monitor = "off" /\ monitor' = "quote"
    /\ UNCHANGED <<live, shared, market, halted, book, events, stuck, order, engine, buys, failures>>

MonitorStop ==
    /\ Idle
    /\ monitor /= "off" /\ monitor' = "off"
    /\ stuck' = IF order["monitor"].at = "client" THEN stuck \union {order["monitor"].side} ELSE stuck
    /\ order' = [order EXCEPT !["monitor"] = None]
    /\ UNCHANGED <<live, shared, market, halted, book, events, engine, buys, failures>>

MonitorWakes ==
    /\ Idle
    /\ monitor = "asleep" /\ monitor' = "quote"
    /\ UNCHANGED <<live, shared, market, halted, book, events, stuck, order, engine, buys, failures>>

\* The price, or the old one when asking for it failed; then the triggers.
MonitorChecks(p) ==
    /\ book' = p
    /\ IF NeedsSale(p) /\ "SELL" \notin Pending
       THEN /\ monitor' = "selling"
            /\ order' = [order EXCEPT !["monitor"] = [side |-> "SELL", quantity |-> p.quantity, at |-> "account"]]
       ELSE monitor' = "asleep" /\ UNCHANGED order

MonitorQuoted ==
    /\ Idle
    /\ monitor = "quote"
    /\ \/ MonitorChecks(Priced(book)) /\ UNCHANGED failures
       \/ book.quantity > 0 /\ failures < MaxFailures /\ failures' = failures + 1 /\ MonitorChecks(book)
    /\ UNCHANGED <<live, shared, market, halted, events, stuck, engine, buys>>

-----------------------------------------------------------------------------

Move(p) ==
    /\ Idle
    /\ market' = p
    /\ UNCHANGED <<live, shared, halted, book, events, stuck, order, engine, monitor, buys, failures>>

Halt ==
    /\ Idle
    /\ halted' = ~halted
    /\ UNCHANGED <<live, shared, market, book, events, stuck, order, engine, monitor, buys, failures>>

Executes(t) == AccountAnswers(t) \/ PriceAnswers(t) \/ ClientAnswers(t)

Next ==
    \/ \E p \in Prices : Move(p)
    \/ Halt
    \/ EngineRun \/ EngineStop \/ TickToSell \/ TickToBuy \/ CheckAfterBuy
    \/ MonitorRun \/ MonitorStop \/ MonitorWakes \/ MonitorQuoted
    \/ HandleBalance
    \/ \E t \in Tasks : Executes(t) \/ Fail(t)

Spec == Init /\ [][Next]_vars

\* The monitor is a task of the event loop, and the broker answers; ticks may stop.
Fairness ==
    /\ WF_vars(CheckAfterBuy)
    /\ WF_vars(MonitorWakes) /\ WF_vars(MonitorQuoted)
    /\ WF_vars(HandleBalance)
    /\ \A t \in Tasks : WF_vars(Executes(t))

-----------------------------------------------------------------------------

Watched == monitor /= "off" /\ ~halted /\ book.quantity > 0

\* While the market stays at or beyond a limit that was set, a sale is sent: no
\* failed call, rejected order or other task's order keeps the monitor from it.
Due == Watched /\ \/ book.stop /= 0 /\ market <= book.stop
                  \/ book.take /= 0 /\ market >= book.take
Met == ~Due \/ "SELL" \in Pending
StopsFire == Due ~> Met

\* strategy_engine.py:712 has the stop of a bought position set automatically
\* when the purchase is filled, so a loss of stop_loss_pct that lasts is cut.
Losing == Watched /\ market <= book.average - Gap
LossesAreCut == Losing ~> ~Losing \/ "SELL" \in Pending

=============================================================================
