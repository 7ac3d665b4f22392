SPECIFICATION FairSpec
CONSTANTS
    b1 = b1
    b2 = b2
    x1 = x1
    x2 = x2
    samsung = samsung
    strategy = strategy
    risk = risk
    Nobody = Nobody
    Orders = {b1, b2}
    Stocks = {samsung}
    StockOf <- MCStockOf
    TypeOf <- MCTypeOf
    Qty <- MCQty
    CallerOf <- MCCallerOf
    Cancellable = {b1, b2}
    Amendable = {b1}
    Closable = {b2}
    Clients = {"protocol"}
    Results = {"SUBMITTED", "FILLED", "REJECTED", "FAILED"}
    Holdings0 <- MCHoldings
    MaxTries = 3
    QueueMax = 3
INVARIANTS
    TypeOK
    SlotInv
    SlotExclusive
    TerminalNotTracked
PROPERTIES
    CallReturns
    ClosedIsReleased
    SlotsImplemented
CHECK_DEADLOCK FALSE
