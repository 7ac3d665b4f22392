SPECIFICATION FairSpec
CONSTANTS
    b1 = b1
    b2 = b2
    x1 = x1
    x2 = x2
    samsung = samsung
    strategy = strategy
    risk = risk
    Nobody = Nobody
    Orders = {b1}
    Stocks = {samsung}
    StockOf <- MCStockOf
    TypeOf <- MCTypeOf
    Qty <- MCQty
    CallerOf <- MCCallerOf
    Cancellable = {}
    Amendable = {}
    Closable = {b1}
    Clients = {"live"}
    Results = {"SUBMITTED"}
    Holdings0 <- MCHoldings
    MaxTries = 1
    QueueMax = 4
PROPERTIES
    LiveOrderIsReleased
CHECK_DEADLOCK FALSE
