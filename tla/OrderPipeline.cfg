SPECIFICATION FairSpec
CONSTANTS
    buy1 = buy1
    buy2 = buy2
    sell = sell
    stock = stock
    w1 = w1
    w2 = w2
    None = None
    NoRange = NoRange
    Orders = {buy1, buy2, sell}
    Stocks = {stock}
    StockOf <- MCStockOf
    SideOf <- MCSideOf
    RangeOf <- MCRangeOf
    MaxBatch = 2
    Workers = {w1, w2}
    MinWorkers = {w1}
    MaxQueue = 1
    MaxRetries = 1
    Urgent = {buy1}
    Threshold = 2
INVARIANTS
    TypeOK
    OnePlace
    TimerCoversBuffer
PROPERTIES
    NoResend
    OpenUntilTimeout
    PoolDrains
CHECK_DEADLOCK FALSE
