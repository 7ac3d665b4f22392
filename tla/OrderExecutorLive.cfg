SPECIFICATION FairSpec
CONSTANTS
    b1 = b1
    b2 = b2
    x1 = x1
    x2 = x2
    samsung = samsung
    strategy = strategy
    risk = risk
    Nobody = Nobody
    Orders = {b1, x1}
    Stocks = {samsung}
    StockOf <- MCStockOf
    TypeOf <- MCTypeOf
    Qty <- MCQty
    CallerOf <- MCCallerOf
    Cancellable = {b1}
    Amendable = {b1}
    Closable = {}
    Clients = {"live", "protocol"}
    Results = {"SUBMITTED", "PARTIALLY_FILLED", "FILLED"}
    Holdings0 <- MCHoldings
    MaxTries = 2
    QueueMax = 2
INVARIANTS
    CallInv
    FailureNotTracked
    QuiescentPositions
    PartialStaysTracked
CHECK_DEADLOCK FALSE
