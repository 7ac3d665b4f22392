SPECIFICATION FairSpec
CONSTANTS
    urgent = urgent
    low1 = low1
    low2 = low2
    None = None
    Requests = {low1, low2}
    Priority <- MCPriority
    MaxRequests = 1
    Window = 2
    Horizon = 3
    TokenLife = 2
    Cancellable = {low1, low2}
    MaxRetries = 1
PROPERTIES
    SentWithValidToken
CHECK_DEADLOCK FALSE
