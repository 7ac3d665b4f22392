SPECIFICATION FairSpec
CONSTANTS
    urgent = urgent
    low1 = low1
    low2 = low2
    None = None
    Requests = {urgent, low1, low2}
    Priority <- MCPriority
    MaxRequests = 1
    Window = 2
    Horizon = 1
    TokenLife = 2
    Cancellable = {low1}
    MaxRetries = 2
INVARIANTS
    TypeOK
    LimiterInv
    SlotsSpaced
    BoundedOvertaking
    WaitersServed
    SentHoldsSlot
PROPERTIES
    RequestEnds
CHECK_DEADLOCK FALSE
