--------------------------- MODULE MCOrderPipeline ---------------------------
(* A small instance of OrderPipelineOptimizer for TLC: two orders of one     *)
(* stock in one price range and one order of the other side.                 *)
EXTENDS OrderPipelineOptimizer

CONSTANTS buy1, buy2, sell, stock, w1, w2

MCStockOf == [o \in Orders |-> stock]
MCSideOf == [o \in Orders |-> IF o = sell THEN "SELL" ELSE "BUY"]

\* The second buy is a LIMIT order without a price.
MCRangeOf == [o \in Orders |-> IF o = buy2 THEN NoRange ELSE "MARKET"]
=============================================================================
