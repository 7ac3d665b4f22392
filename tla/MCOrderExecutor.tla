--------------------------- MODULE MCOrderExecutor ---------------------------
(* Small instances of OrderExecutor for TLC: the strategy engine buys, the   *)
(* strategy engine and the risk monitor sell.                                *)
EXTENDS OrderExecutorSlots

CONSTANTS b1, b2, x1, x2, samsung, strategy, risk

MCStockOf == [o \in Orders |-> samsung]
MCTypeOf == [o \in Orders |-> IF o \in {b1, b2} THEN "BUY" ELSE "SELL"]
MCQty == [o \in Orders |-> IF o = b1 THEN 2 ELSE 1]
MCCallerOf == [o \in Orders |-> IF o = x2 THEN risk ELSE strategy]
MCHoldings == [s \in Stocks |-> IF {x1, x2} \intersect Orders = {} THEN 0 ELSE 1]

-----------------------------------------------------------------------------
(* What the documents say of the program, each checked by a run of its own.  *)

\* FR-012 of spec.md and duplicate_checker.py: no second order for a stock
\* and side while one is unfinished, whoever places it.
NoDuplicateOrders ==
    \A o, p \in Orders :
        o /= p /\ SameSlot(o, p) => ~(OpenTracked(o) /\ OpenTracked(p))

\* Order.is_terminal_state of models/order.py: a final status never changes.
TerminalIsFinal ==
    [][\A o \in Orders : status[o] \in Terminal => status'[o] = status[o]]_vars

\* _handle_order_execution_event: with the live client, what the broker ends
\* is taken out of pending_orders.
LiveOrderIsReleased ==
    \A o \in Orders : \A n \in 1 .. MaxTries :
        book[<<o, n>>].state = "closed" ~> (lost \/ ~Tracked(o))
=============================================================================
