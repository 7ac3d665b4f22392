---------------------------- MODULE KiwoomSimulator ----------------------------
(* The simulator (simulator/kiwoom_simulator.py) over its FakeExchange: one  *)
(* account whose orders are filled at once, in memory. Every operation runs  *)
(* without an await, so it is one step.                                      *)
EXTENDS Integers, FiniteSetsExt

CONSTANTS
    Stocks, Prices,
    Orders,         \* records [stock, side, type, quantity, limit], each submitted once
    InitialBalance

VARIABLES
    cash,       \* account.cash_balance
    held,       \* positions: shares of each stock, 0 for no position
    marked,     \* current_price of each position, as far as it was refreshed
    price,      \* prices of the exchange, 0 for a stock it does not know
    history,    \* order_history: the status of each order, "none" when it is not there
    injected,   \* _injected_error
    reported    \* total_asset_value as get_account last returned it

vars == <<cash, held, marked, price, history, injected, reported>>

Errors == {"none", "insufficient_balance", "invalid_stock_code", "api_timeout"}

TypeOK ==
    /\ cash \in Int /\ reported \in Int
    /\ held \in [Stocks -> Nat]
    /\ marked \in [Stocks -> {0} \union Prices]
    /\ price \in [Stocks -> {0} \union Prices]
    /\ history \in [Orders -> {"none", "SUBMITTED", "FILLED", "REJECTED"}]
    /\ injected \in Errors

Init ==
    /\ cash = InitialBalance /\ reported = InitialBalance
    /\ held = [s \in Stocks |-> 0]
    /\ marked = [s \in Stocks |-> 0]
    /\ price = [s \in Stocks |-> 0]
    /\ history = [o \in Orders |-> "none"]
    /\ injected = "none"

-----------------------------------------------------------------------------

\* set_price: the quotes are a thousandth above and below.
SetPrice(s, p) ==
    /\ price' = [price EXCEPT ![s] = p]
    /\ UNCHANGED <<cash, held, marked, history, injected, reported>>

Ask(s) == price[s] + price[s] \div 1000
Bid(s) == price[s] - price[s] \div 1000

InjectError(e) ==
    /\ injected' = e
    /\ UNCHANGED <<cash, held, marked, price, history, reported>>

\* A mistake TradesNeverPay catches: the quotes change places.
QuotesSwapped(o) ==
    IF o.type = "LIMIT" THEN price[o.stock]
    ELSE IF o.side = "BUY" THEN Bid(o.stock) ELSE Ask(o.stock)

FillPrice(o) ==
    IF o.type = "LIMIT" THEN price[o.stock]
    ELSE IF o.side = "BUY" THEN Ask(o.stock) ELSE Bid(o.stock)

\* A limit order that cannot be filled at once stays SUBMITTED for ever.
CanFill(o) ==
    \/ o.type = "MARKET"
    \/ o.side = "BUY" /\ price[o.stock] <= o.limit
    \/ o.side = "SELL" /\ price[o.stock] >= o.limit

\* The balance is compared with the price and not with the quote.
Affordable(o, balance) == balance >= price[o.stock] * o.quantity

Covered(o) == o.quantity <= held[o.stock]

\* The injected error empties the account and is then gone.
Balance == IF injected = "insufficient_balance" THEN 0 ELSE cash

\* submit_order raises an injected error before it clears it, so that every
\* later call raises it too.
SubmitRaises(o) ==
    /\ history[o] = "none"
    /\ injected \in {"invalid_stock_code", "api_timeout"}
    /\ UNCHANGED vars

Submittable(o) ==
    /\ history[o] = "none"
    /\ injected \in {"none", "insufficient_balance"}
    /\ injected' = "none"

Reject(o) ==
    /\ Submittable(o)
    /\ \/ price[o.stock] = 0
       \/ o.side = "BUY" /\ ~Affordable(o, Balance)
       \/ o.side = "SELL" /\ ~Covered(o)
    /\ history' = [history EXCEPT ![o] = "REJECTED"]
    /\ cash' = Balance
    /\ UNCHANGED <<held, marked, price, reported>>

Rest(o) ==
    /\ Submittable(o)
    /\ price[o.stock] /= 0
    /\ IF o.side = "BUY" THEN Affordable(o, Balance) ELSE Covered(o)
    /\ ~CanFill(o)
    /\ history' = [history EXCEPT ![o] = "SUBMITTED"]
    /\ cash' = Balance
    /\ UNCHANGED <<held, marked, price, reported>>

Buy(o) ==
    /\ o.side = "BUY"
    /\ Submittable(o)
    /\ price[o.stock] /= 0 /\ Affordable(o, Balance) /\ CanFill(o)
    /\ history' = [history EXCEPT ![o] = "FILLED"]
    /\ cash' = Balance - FillPrice(o) * o.quantity
    /\ held' = [held EXCEPT ![o.stock] = @ + o.quantity]
    /\ marked' = [marked EXCEPT ![o.stock] = IF held[o.stock] = 0 THEN price[o.stock] ELSE @]
    /\ UNCHANGED <<price, reported>>

Sell(o) ==
    /\ o.side = "SELL"
    /\ Submittable(o)
    /\ price[o.stock] /= 0 /\ Covered(o) /\ CanFill(o)
    /\ history' = [history EXCEPT ![o] = "FILLED"]
    /\ cash' = Balance + FillPrice(o) * o.quantity
    /\ held' = [held EXCEPT ![o.stock] = @ - o.quantity]
    /\ marked' = [marked EXCEPT ![o.stock] = IF held[o.stock] = o.quantity THEN 0 ELSE @]
    /\ UNCHANGED <<price, reported>>

\* get_stock_price answers with the price, and takes the injected error first: it
\* raises it, or its call is the one that empties the account.
GetStockPrice ==
    /\ \/ injected \in {"none", "insufficient_balance"} /\ cash' = Balance /\ injected' = "none"
       \/ injected \in {"invalid_stock_code", "api_timeout"} /\ UNCHANGED <<cash, injected>>
    /\ UNCHANGED <<held, marked, price, history, reported>>

\* What the shares are worth at those prices.
Value(shares, prices) == MapThenSumSet(LAMBDA s : shares[s] * prices[s], Stocks)

\* get_positions refreshes the price of every position.
GetPositions ==
    /\ marked' = [s \in Stocks |-> IF held[s] > 0 /\ price[s] /= 0 THEN price[s] ELSE marked[s]]
    /\ UNCHANGED <<cash, held, price, history, injected, reported>>

\* get_account adds up the positions at the prices they were last refreshed with.
GetAccount ==
    /\ reported' = cash + Value(held, marked)
    /\ UNCHANGED <<cash, held, marked, price, history, injected>>

Next ==
    \/ \E s \in Stocks, p \in Prices : SetPrice(s, p)
    \/ \E e \in Errors : InjectError(e)
    \/ \E o \in Orders : SubmitRaises(o) \/ Reject(o) \/ Rest(o) \/ Buy(o) \/ Sell(o)
    \/ GetStockPrice
    \/ GetPositions
    \/ GetAccount

Spec == Init /\ [][Next]_vars

-----------------------------------------------------------------------------

Worth == cash + Value(held, price)

\* While prices stand still no sequence of orders makes the account richer:
\* buys pay the asking price, sells get the bid, limit orders the price, and
\* nothing is sold that is not held. (The balance may fall below 0, as it is
\* compared with the price; the injected error then lifts it to 0.)
NeverRicher == price' = price /\ injected = "none" => Worth' <= Worth
TradesNeverPay == [][NeverRicher]_vars

=============================================================================
