---------------------------- MODULE OrderExecutor ----------------------------
(* The order executor of the trading system (services/order_executor.py with *)
(* services/duplicate_checker.py and services/order_validator.py), between   *)
(* the tasks that call execute_order, the Kiwoom client it hands orders to,  *)
(* and the WebSocket event queue it consumes.                                *)
(*                                                                           *)
(* The program is one asyncio process: a step runs from one await to the     *)
(* next, so a call of execute_order is cut into actions exactly where the    *)
(* code awaits, and every other task may run in between.                     *)
EXTENDS Naturals, Sequences

CONSTANTS
    Orders,         \* Order objects handed to execute_order, once each
    Stocks,         \* stock codes
    StockOf,        \* Order.stock_code
    TypeOf,         \* Order.order_type, "BUY" or "SELL"
    Qty,            \* Order.quantity
    CallerOf,       \* the task that calls execute_order for the order
    Cancellable,    \* orders somebody may call cancel_order for
    Amendable,      \* orders the broker may confirm a modification of
    Closable,       \* orders the broker may cancel or refuse
    Clients,        \* the clients considered: "live" (KiwoomClient), "protocol"
    Results,        \* statuses a "protocol" client may answer with
    Holdings0,      \* shares held at the broker when the program starts, which
                    \* the program never asks for
    MaxTries,       \* attempts of get_account and of the order POST (3 and 3)
    QueueMax        \* maxsize of order_event_queue (100)

Statuses == {"PENDING", "SUBMITTED", "PARTIALLY_FILLED", "FILLED",
             "CANCELLED", "REJECTED", "FAILED"}

Terminal == {"FILLED", "CANCELLED", "REJECTED", "FAILED"}

ASSUME TypeAssumption ==
    /\ StockOf \in [Orders -> Stocks]
    /\ TypeOf \in [Orders -> {"BUY", "SELL"}]
    /\ Qty \in [Orders -> Nat \ {0}]
    /\ Holdings0 \in [Stocks -> Nat]
    /\ Clients \subseteq {"live", "protocol"}
    /\ Results \subseteq Statuses
    /\ MaxTries \in Nat \ {0}
    /\ QueueMax \in Nat

VARIABLES
    client,     \* which client the executor was built with
    pc,         \* where each call of execute_order stands
    tries,      \* failed attempts of _get_account_with_retry, while it runs
    status,     \* Order.status
    filled,     \* Order.filled_quantity
    orderNo,    \* Order.order_id: 0 is the local uuid, n the n-th broker number
    pending,    \* keys of pending_orders; <<o, n>> is order o under id n
    positions,  \* quantity in positions, 0 when the stock has no entry
    creating,   \* positions being created across `await get_stock_price`
    consumer,   \* where the event consumer of run() stands
    events,     \* order_event_queue
    sent,       \* POSTs made for the order
    book,       \* the broker's side of each id
    holdings,   \* shares really held at the broker
    lost        \* an event was dropped by a full queue

callVars   == <<pc, tries>>
orderVars  == <<status, filled, orderNo>>
brokerVars == <<client, book, holdings, lost>>
vars == <<callVars, orderVars, pending, positions, creating, consumer, events,
          sent, brokerVars>>

Keys == Orders \X (0 .. MaxTries)

\* The steps of execute_order; "accepted" and "failed" are its two answers.
Steps == {"new", "account", "price", "send", "settle", "create", "refresh",
          "accepted", "failed"}

Returned(o) == pc[o] \in {"accepted", "failed"}
InFlight(o) == pc[o] \notin {"new", "accepted", "failed"}
SameSlot(o, p) == StockOf[o] = StockOf[p] /\ TypeOf[o] = TypeOf[p]
Tracked(o) == \E n \in 0 .. MaxTries : <<o, n>> \in pending
OpenTracked(o) == Tracked(o) /\ status[o] \notin Terminal

\* 00 and 04 events: OrderExecutionData and BalanceUpdateData
OrderEvents ==
    [kind : {"order"}, key : Keys, filled : Nat, unfilled : Nat,
     status : {"accepted", "confirmed", "executed", "cancelled", "refused"}]
BalanceEvents == [kind : {"balance"}, stock : Stocks, holding : Nat]
Event == OrderEvents \union BalanceEvents

\* A position being created: by execute_order or by the event consumer.
Creations == [by : {"call", "event"}, order : Orders, qty : Nat]

TypeOK ==
    /\ client \in Clients
    /\ pc \in [Orders -> Steps]
    /\ tries \in [Orders -> 0 .. MaxTries - 1]
    /\ status \in [Orders -> Statuses]
    /\ filled \in [Orders -> Nat]
    /\ orderNo \in [Orders -> 0 .. MaxTries]
    /\ pending \subseteq Keys
    /\ positions \in [Stocks -> Nat]
    /\ creating \subseteq Creations
    /\ consumer \in {"idle", "create", "refresh"}
    /\ events \in Seq(Event)
    /\ sent \in [Orders -> 0 .. MaxTries]
    /\ book \in [Keys -> [state : {"none", "open", "amended", "closed"},
                          filled : Nat]]
    /\ holdings \in [Stocks -> Nat]
    /\ lost \in BOOLEAN

Init ==
    /\ client \in Clients
    /\ pc = [o \in Orders |-> "new"]
    /\ tries = [o \in Orders |-> 0]
    /\ status = [o \in Orders |-> "PENDING"]
    /\ filled = [o \in Orders |-> 0]
    /\ orderNo = [o \in Orders |-> 0]
    /\ pending = {}
    /\ positions = [s \in Stocks |-> 0]
    /\ creating = {}
    /\ consumer = "idle"
    /\ events = <<>>
    /\ sent = [o \in Orders |-> 0]
    /\ book = [k \in Keys |-> [state |-> "none", filled |-> 0]]
    /\ holdings = Holdings0
    /\ lost = FALSE

-----------------------------------------------------------------------------
(* execute_order, from one await to the next.                                *)

Go(o, step) == pc' = [pc EXCEPT ![o] = step]
SetStatus(o, s) == status' = [status EXCEPT ![o] = s]
Key(o) == <<o, orderNo[o]>>

\* A mistake SlotExclusive and SlotsImplemented catch: only orders in their
\* initial status count as unfinished.
DuplicatePendingOnly(o) ==
    \E k \in pending : SameSlot(k[1], o) /\ status[k[1]] = "PENDING"

\* DuplicateOrderChecker.check_duplicate
Duplicate(o) ==
    \E k \in pending : SameSlot(k[1], o) /\ status[k[1]] \notin Terminal

\* Steps 1 and 2: the price and the duplicate check, before the first await.
\* Refused orders keep their status. A task awaits one call before the next.
ExecuteOrder(o) ==
    /\ pc[o] = "new"
    /\ \A p \in Orders : CallerOf[p] = CallerOf[o] => ~InFlight(p)
    /\ \E priced \in BOOLEAN :
           Go(o, IF priced /\ ~Duplicate(o) THEN "account" ELSE "failed")
    /\ UNCHANGED <<tries, orderVars, pending, positions, creating, consumer,
                   events, sent, brokerVars>>

\* A mistake FailureNotTracked catches: the order stays in pending_orders.
FailStillTracked(o) ==
    /\ Go(o, "failed")
    /\ SetStatus(o, "FAILED")
    /\ UNCHANGED <<pending, filled, orderNo, positions, creating, consumer,
                   events, sent, brokerVars>>

\* The two exception handlers: the order is FAILED and no longer tracked.
Fail(o) ==
    /\ Go(o, "failed")
    /\ SetStatus(o, "FAILED")
    /\ pending' = pending \ {Key(o)}
    /\ UNCHANGED <<filled, orderNo, positions, creating, consumer, events, sent,
                   brokerVars>>

\* Mistakes TypeOK and CallReturns catch: one attempt too many, no last one.
AccountRateLimitedOnceMore(o) ==
    /\ pc[o] = "account"
    /\ IF tries[o] < MaxTries
       THEN /\ tries' = [tries EXCEPT ![o] = @ + 1]
            /\ UNCHANGED <<pc, orderVars, pending, positions, creating, consumer,
                           events, sent, brokerVars>>
       ELSE tries' = [tries EXCEPT ![o] = 0] /\ Fail(o)

AccountRateLimitedForever(o) ==
    /\ pc[o] = "account"
    /\ tries' = [tries EXCEPT ![o] = (@ + 1) % MaxTries]
    /\ UNCHANGED <<pc, orderVars, pending, positions, creating, consumer,
                   events, sent, brokerVars>>

\* A RateLimitExceededError of get_account; the last one is raised.
AccountRateLimited(o) ==
    /\ pc[o] = "account"
    /\ IF tries[o] + 1 < MaxTries
       THEN /\ tries' = [tries EXCEPT ![o] = @ + 1]
            /\ UNCHANGED <<pc, orderVars, pending, positions, creating, consumer,
                           events, sent, brokerVars>>
       ELSE tries' = [tries EXCEPT ![o] = 0] /\ Fail(o)

\* Any other exception of get_account, get_stock_price or the risk check.
ReadFails(o) ==
    /\ pc[o] \in {"account", "price"}
    /\ tries' = [tries EXCEPT ![o] = 0]
    /\ Fail(o)

Reject(o) ==
    /\ Go(o, "failed")
    /\ SetStatus(o, "REJECTED")
    /\ UNCHANGED <<pending, sent>>

\* The account arrives; should_stop_trading judges it there and then.
GetAccount(o) ==
    /\ pc[o] = "account"
    /\ \/ Reject(o)
       \/ Go(o, "price") /\ UNCHANGED <<status, pending, sent>>
    /\ tries' = [tries EXCEPT ![o] = 0]
    /\ UNCHANGED <<filled, orderNo, positions, creating, consumer, events,
                   brokerVars>>

\* validate_sell_order reads the live positions; validate_buy_order compares
\* the account read before with the price, either way.
Valid(o, affordable) ==
    IF TypeOf[o] = "BUY" THEN affordable ELSE Qty[o] <= positions[StockOf[o]]

\* The order enters pending_orders and the client is called, with no await
\* between the validation and the call.
Track(o) == pending' = pending \union {Key(o)}

\* The price arrives: validation, then tracking and submission.
GetPrice(o) ==
    /\ pc[o] = "price"
    /\ \E affordable \in BOOLEAN :
           IF Valid(o, affordable)
           THEN /\ Go(o, "send")
                /\ SetStatus(o, "SUBMITTED")
                /\ Track(o)
                /\ sent' = [sent EXCEPT ![o] = 1]
           ELSE Reject(o)
    /\ UNCHANGED <<tries, filled, orderNo, positions, creating, consumer, events,
                   brokerVars>>

\* KiwoomClient._request: a timed out POST is made again, up to MaxTries times.
Resend(o) ==
    /\ pc[o] = "send"
    /\ client = "live"
    /\ sent[o] < MaxTries
    /\ sent' = [sent EXCEPT ![o] = @ + 1]
    /\ UNCHANGED <<callVars, orderVars, pending, positions, creating, consumer,
                   events, brokerVars>>

\* submit_order raises: an API error, or the last attempt timed out. Nothing
\* is known about what the broker did with the order.
SubmitFails(o) ==
    /\ pc[o] = "send"
    /\ Fail(o)
    /\ UNCHANGED tries

\* KiwoomClient.submit_order: the answer's ord_no, if there is one, replaces
\* the order's id. The key of pending_orders stays what it was.
LiveAnswer(o) ==
    /\ pc[o] = "send"
    /\ client = "live"
    /\ book[<<o, sent[o]>>].state /= "none"
    /\ \E no \in {sent[o], orderNo[o]} : orderNo' = [orderNo EXCEPT ![o] = no]
    /\ SetStatus(o, "PENDING")
    /\ Go(o, "accepted")
    /\ UNCHANGED <<tries, filled, pending, positions, creating, consumer, events,
                   sent, brokerVars>>

\* What a client that keeps the order's id may answer, given the broker's side.
Answers(o) ==
    LET b == book[<<o, 0>>]
        possible == IF b.state = "none" THEN {"REJECTED", "FAILED"}
                    ELSE {"SUBMITTED"}
                         \union (IF b.filled = Qty[o] THEN {"FILLED"} ELSE {})
                         \union (IF b.filled \in 1 .. Qty[o] - 1
                                 THEN {"PARTIALLY_FILLED"} ELSE {})
    IN  possible \intersect Results

\* _update_position_on_partial_fill for a fill of q shares, up to its first
\* await: a position is increased or reduced at once, but a new one waits for
\* the current price.
NeedsPrice(o) == TypeOf[o] = "BUY" /\ positions[StockOf[o]] = 0
Oversold(o, q) == TypeOf[o] = "SELL" /\ positions[StockOf[o]] \in 1 .. q - 1

PartialFill(o, q, by) ==
    IF NeedsPrice(o)
    THEN /\ creating' = creating \union {[by |-> by, order |-> o, qty |-> q]}
         /\ UNCHANGED positions
    ELSE /\ positions' = [positions EXCEPT ![StockOf[o]] =
                             IF TypeOf[o] = "BUY" THEN @ + q
                             ELSE IF q <= @ THEN @ - q ELSE @]
         /\ UNCHANGED creating

ProtocolAnswer(o, result) ==
    /\ pc[o] = "send"
    /\ client = "protocol"
    /\ result \in Answers(o)
    /\ SetStatus(o, result)
    /\ filled' = [filled EXCEPT ![o] = book[<<o, 0>>].filled]
    /\ CASE result = "FILLED" ->
              Go(o, "settle") /\ UNCHANGED <<pending, positions, creating>>
         [] result \in {"REJECTED", "FAILED"} ->
              /\ Go(o, "failed")
              /\ pending' = pending \ {Key(o)}
              /\ UNCHANGED <<positions, creating>>
         [] result = "PARTIALLY_FILLED" ->
              LET q == book[<<o, 0>>].filled IN
              /\ PartialFill(o, q, "call")
              /\ IF Oversold(o, q)      \* the ValueError is swallowed
                 THEN Go(o, "accepted") /\ Track(o)
                 ELSE /\ Go(o, IF NeedsPrice(o) THEN "create" ELSE "refresh")
                      /\ UNCHANGED pending
         [] OTHER ->
              Go(o, "accepted") /\ UNCHANGED <<pending, positions, creating>>
    /\ UNCHANGED <<tries, orderNo, consumer, events, sent, brokerVars>>

\* A mistake TerminalNotTracked catches: the filled order is not popped.
SettleStillTracked(o) ==
    /\ pc[o] = "settle"
    /\ Go(o, "accepted")
    /\ UNCHANGED <<tries, orderVars, pending, positions, creating, consumer,
                   events, sent, brokerVars>>

\* _update_account_on_fill, the dashboard callback and the history record are
\* awaited, their errors swallowed; then the filled order is forgotten.
Settle(o) ==
    /\ pc[o] = "settle"
    /\ pending' = pending \ {Key(o)}
    /\ Go(o, "accepted")
    /\ UNCHANGED <<tries, orderVars, positions, creating, consumer, events, sent,
                   brokerVars>>

\* A mistake PartialStaysTracked catches: as after FILLED, the order is popped.
RefreshAfterPartialPops(o) ==
    /\ pc[o] = "refresh"
    /\ pending' = pending \ {Key(o)}
    /\ Go(o, "accepted")
    /\ UNCHANGED <<tries, orderVars, positions, creating, consumer, events, sent,
                   brokerVars>>

\* After refresh_account a partially filled order is put back into
\* pending_orders, whatever became of it meanwhile.
RefreshAfterPartial(o) ==
    /\ pc[o] = "refresh"
    /\ Track(o)
    /\ Go(o, "accepted")
    /\ UNCHANGED <<tries, orderVars, positions, creating, consumer, events, sent,
                   brokerVars>>

\* The price for a new position arrives, to execute_order or to the consumer.
CreatePosition(c) ==
    /\ creating' = creating \ {c}
    /\ positions' = [positions EXCEPT ![StockOf[c.order]] = c.qty]
    /\ IF c.by = "call" THEN Go(c.order, "refresh") /\ UNCHANGED consumer
                        ELSE consumer' = "refresh" /\ UNCHANGED pc
    /\ UNCHANGED <<tries, orderVars, pending, events, sent, brokerVars>>

\* get_stock_price raises there: the error is swallowed with the position.
CreateFails(c) ==
    /\ creating' = creating \ {c}
    /\ IF c.by = "call"
       THEN Go(c.order, "accepted") /\ Track(c.order) /\ UNCHANGED consumer
       ELSE consumer' = "idle" /\ UNCHANGED <<pc, pending>>
    /\ UNCHANGED <<tries, orderVars, positions, events, sent, brokerVars>>

\* cancel_order never awaits and never asks the broker.
CancelOrder(k) ==
    /\ k \in pending
    /\ k[1] \in Cancellable
    /\ status[k[1]] \notin Terminal
    /\ SetStatus(k[1], "CANCELLED")
    /\ pending' = pending \ {k}
    /\ UNCHANGED <<callVars, filled, orderNo, positions, creating, consumer,
                   events, sent, brokerVars>>

-----------------------------------------------------------------------------
(* run(): one consumer takes the events one at a time.                       *)

\* A mistake ClosedIsReleased catches: no entry of its own for a cancellation.
StatusOfNoCancel(s) ==
    CASE s \in {"accepted", "confirmed", "cancelled"} -> "SUBMITTED"
      [] s = "executed" -> "FILLED"
      [] OTHER -> "REJECTED"

\* status_mapping of _handle_order_execution_event
StatusOf(s) ==
    CASE s \in {"accepted", "confirmed"} -> "SUBMITTED"
      [] s = "executed" -> "FILLED"
      [] s = "cancelled" -> "CANCELLED"
      [] OTHER -> "REJECTED"

\* An event is matched by the id it carries. A final status ends the tracking
\* before the account update is awaited.
HandleOrderEvent(e) ==
    LET o == e.key[1]
        s == StatusOf(e.status)
    IN  IF e.key \notin pending
        THEN UNCHANGED <<status, filled, pending, positions, creating, consumer>>
        ELSE /\ filled' = [filled EXCEPT ![o] = IF e.filled > 0 THEN e.filled ELSE @]
             /\ IF s \in Terminal
                THEN /\ SetStatus(o, s)
                     /\ pending' = pending \ {e.key}
                     /\ consumer' = IF s = "FILLED" THEN "refresh" ELSE "idle"
                     /\ UNCHANGED <<positions, creating>>
                ELSE /\ UNCHANGED pending
                     /\ IF e.unfilled > 0 /\ e.filled > 0
                        THEN /\ SetStatus(o, "PARTIALLY_FILLED")
                             /\ PartialFill(o, e.filled, "event")
                             /\ consumer' = IF NeedsPrice(o) THEN "create"
                                            ELSE IF Oversold(o, e.filled) THEN "idle"
                                            ELSE "refresh"
                        ELSE /\ SetStatus(o, s)
                             /\ UNCHANGED <<positions, creating, consumer>>

\* A mistake QuiescentPositions catches: the "D" event is not acted on.
HandleBalanceEventKeeps(e) ==
    /\ positions' = [positions EXCEPT ![e.stock] = IF e.holding > 0 THEN e.holding
                                                   ELSE @]
    /\ consumer' = "refresh"
    /\ UNCHANGED <<status, filled, pending, creating>>

\* _handle_balance_update_event overwrites the position, deletes it at "D".
HandleBalanceEvent(e) ==
    /\ positions' = [positions EXCEPT ![e.stock] = e.holding]
    /\ consumer' = "refresh"
    /\ UNCHANGED <<status, filled, pending, creating>>

ConsumeEvent ==
    /\ consumer = "idle"
    /\ events /= <<>>
    /\ events' = Tail(events)
    /\ IF Head(events).kind = "order" THEN HandleOrderEvent(Head(events))
                                      ELSE HandleBalanceEvent(Head(events))
    /\ UNCHANGED <<callVars, orderNo, sent, brokerVars>>

\* The account refresh that ends a handler, answered or failed.
ConsumerRefreshed ==
    /\ consumer = "refresh"
    /\ consumer' = "idle"
    /\ UNCHANGED <<callVars, orderVars, pending, positions, creating, events,
                   sent, brokerVars>>

-----------------------------------------------------------------------------
(* The broker and the WebSocket callbacks, which put_nowait and drop an event *)
(* when the queue is full.                                                   *)

Working(b) == b.state \in {"open", "amended"}

OrderEvent(k, s, n) ==
    [kind |-> "order", key |-> k, status |-> s, filled |-> n,
     unfilled |-> Qty[k[1]] - n]

Put(q, e) == IF Len(q) < QueueMax THEN Append(q, e) ELSE q

Publish(e) ==
    /\ events' = Put(events, e)
    /\ lost' = (lost \/ Len(events) >= QueueMax)

Publish2(e, f) ==
    /\ events' = Put(Put(events, e), f)
    /\ lost' = (lost \/ Len(events) + 1 >= QueueMax)

BrokerUnchanged ==
    UNCHANGED <<callVars, orderVars, pending, positions, creating, consumer,
                sent, client>>

\* A POST reaches the broker, perhaps after the client gave it up. A protocol
\* client's orders carry the local id.
BrokerAccepts(k) ==
    /\ book[k].state = "none"
    /\ IF client = "live" THEN k[2] \in 1 .. sent[k[1]]
                          ELSE k[2] = 0 /\ pc[k[1]] = "send"
    /\ book' = [book EXCEPT ![k].state = "open"]
    /\ Publish(OrderEvent(k, "accepted", 0))
    /\ BrokerUnchanged /\ UNCHANGED holdings

\* n shares are executed: an order event with the cumulative fill and a
\* balance event with the new holding.
BrokerFills(k, n) ==
    LET s == StockOf[k[1]]
        total == book[k].filled + n
        held == IF TypeOf[k[1]] = "BUY" THEN holdings[s] + n ELSE holdings[s] - n
    IN  /\ Working(book[k])
        /\ total <= Qty[k[1]]
        /\ TypeOf[k[1]] = "SELL" => n <= holdings[s]
        /\ book' = [book EXCEPT ![k] =
                       [state |-> IF total = Qty[k[1]] THEN "closed" ELSE @.state,
                        filled |-> total]]
        /\ holdings' = [holdings EXCEPT ![s] = held]
        /\ Publish2(OrderEvent(k, "executed", total),
                    [kind |-> "balance", stock |-> s, holding |-> held])
        /\ BrokerUnchanged

\* A modification is confirmed, once per order here, with the fill so far.
BrokerConfirms(k) ==
    /\ k[1] \in Amendable
    /\ book[k].state = "open"
    /\ book' = [book EXCEPT ![k].state = "amended"]
    /\ Publish(OrderEvent(k, "confirmed", book[k].filled))
    /\ BrokerUnchanged /\ UNCHANGED holdings

\* The order is cancelled or refused at the broker.
BrokerCloses(k, s) ==
    /\ k[1] \in Closable
    /\ Working(book[k])
    /\ book' = [book EXCEPT ![k].state = "closed"]
    /\ Publish(OrderEvent(k, s, book[k].filled))
    /\ BrokerUnchanged /\ UNCHANGED holdings

-----------------------------------------------------------------------------

\* The steps of a call once it is made.
CallStep(o) ==
    \/ AccountRateLimited(o)
    \/ ReadFails(o)
    \/ GetAccount(o)
    \/ GetPrice(o)
    \/ Resend(o)
    \/ SubmitFails(o)
    \/ LiveAnswer(o)
    \/ \E r \in Results : ProtocolAnswer(o, r)
    \/ Settle(o)
    \/ RefreshAfterPartial(o)

Creation == \E c \in creating : CreatePosition(c) \/ CreateFails(c)

Broker ==
    \E k \in Keys :
        \/ BrokerAccepts(k)
        \/ \E n \in 1 .. Qty[k[1]] : BrokerFills(k, n)
        \/ BrokerConfirms(k)
        \/ \E s \in {"cancelled", "refused"} : BrokerCloses(k, s)

Next ==
    \/ \E o \in Orders : ExecuteOrder(o) \/ CallStep(o)
    \/ Creation
    \/ \E k \in pending : CancelOrder(k)
    \/ ConsumeEvent
    \/ ConsumerRefreshed
    \/ Broker

\* Every await is answered or times out, and the event loop runs every task.
\* Nothing is assumed of the callers, of cancel_order or of the broker.
Fairness ==
    /\ \A o \in Orders : WF_vars(CallStep(o))
    /\ WF_vars(Creation)
    /\ WF_vars(ConsumeEvent)
    /\ WF_vars(ConsumerRefreshed)

Spec == Init /\ [][Next]_vars
FairSpec == Spec /\ Fairness

-----------------------------------------------------------------------------
(* What makes the executor correct.                                          *)

\* Duplicate suppression: of the orders one task places on one side of one
\* stock, at most one is tracked and unfinished. The check of execute_order
\* is separated from the insertion by two awaits, so this rests on the task
\* making one call at a time and on finished orders never being tracked.
SlotExclusive ==
    \A o, p \in Orders :
        o /= p /\ SameSlot(o, p) /\ CallerOf[o] = CallerOf[p]
        => ~(OpenTracked(o) /\ OpenTracked(p))

\* Once its call has returned, an order in a final status is not tracked,
\* whichever of the call, the event consumer and cancel_order finished it.
TerminalNotTracked ==
    \A o \in Orders : Returned(o) /\ status[o] \in Terminal => ~Tracked(o)

\* A call that reported failure leaves nothing in pending_orders.
FailureNotTracked == \A o \in Orders : pc[o] = "failed" => ~Tracked(o)

\* The broker has executed shares of the stock since the program started.
Traded(s) == \E k \in Keys : StockOf[k[1]] = s /\ book[k].filled > 0

\* With the live client, whenever every event has been handled and none was
\* dropped, the position of a stock traded in this run is what the broker
\* holds, the shares from before the start included; of any other stock there
\* is no position, whatever the broker holds: the dictionary starts empty and
\* only balance events fill it.
QuiescentPositions ==
    client = "live" /\ events = <<>> /\ consumer = "idle" /\ ~lost
    => \A s \in Stocks : positions[s] = IF Traded(s) THEN holdings[s] ELSE 0

\* A partially filled order that the broker still works on is not forgotten.
PartialStaysTracked ==
    \A o \in Orders :
        pc[o] = "accepted" /\ status[o] = "PARTIALLY_FILLED" /\ Working(book[<<o, 0>>])
        => Tracked(o)

\* Every call of execute_order returns.
CallReturns == \A o \in Orders : InFlight(o) ~> Returned(o)

\* An order that has ended at the broker stops being tracked, unless its
\* event was dropped.
ClosedIsReleased ==
    \A o \in Orders : \A n \in 0 .. MaxTries :
        book[<<o, n>>].state = "closed" ~> (lost \/ ~Tracked(o))

-----------------------------------------------------------------------------
(* The invariants the proofs rest on.                                        *)

\* The broker never fills more than the order asks for.
BookBounded == \A k \in Keys : book[k].filled <= Qty[k[1]]

TypeInv == TypeOK /\ BookBounded

\* Orders are tracked under their local id, and keep it until the live
\* client's answer.
LocalKeys == \A k \in pending : k[2] = 0
IdUntilAnswer == \A o \in Orders : pc[o] /= "accepted" => orderNo[o] = 0

\* They are tracked neither before they are sent nor after their call failed.
NotTrackedUnsent ==
    \A o \in Orders : pc[o] \in {"new", "account", "price", "failed"} => ~Tracked(o)

\* A position created by a call belongs to a call that waits for it, one at most.
CallCreation == \A c \in creating : c.by = "call" => pc[c.order] = "create"
OneCreation ==
    \A c, d \in creating :
        c.by = "call" /\ d.by = "call" /\ c.order = d.order => c = d

CallInv ==
    LocalKeys /\ IdUntilAnswer /\ NotTrackedUnsent /\ CallCreation /\ OneCreation

\* A task makes one call at a time, and during a call no other order of the
\* task in the same slot is tracked and unfinished. It holds as long as no
\* client answers PARTIALLY_FILLED: RefreshAfterPartial tracks an order even
\* if it has ended.
NoPartialAnswer == \A o \in Orders : pc[o] \notin {"create", "refresh"}
OneCall ==
    \A o, p \in Orders :
        o /= p /\ CallerOf[o] = CallerOf[p] => ~(InFlight(o) /\ InFlight(p))
AloneInFlight ==
    \A o, p \in Orders :
        o /= p /\ SameSlot(o, p) /\ CallerOf[o] = CallerOf[p] /\ InFlight(o)
        => ~OpenTracked(p)

SlotInv ==
    /\ NoPartialAnswer
    /\ TerminalNotTracked
    /\ OneCall
    /\ AloneInFlight
    /\ SlotExclusive

\* An order the broker has filled it no longer works on, and a call settles
\* only such an order: the order Settle forgets has nothing left to wait for.
FilledIsClosed ==
    \A k \in Keys : /\ book[k].filled = Qty[k[1]] => ~Working(book[k])
                    /\ book[k].state = "none" => book[k].filled = 0
SettledIsClosed == \A o \in Orders : pc[o] = "settle" => ~Working(book[<<o, 0>>])

PartialInv == PartialStaysTracked /\ SettledIsClosed /\ FilledIsClosed
=============================================================================
