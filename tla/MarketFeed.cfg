SPECIFICATION FairSpec
CONSTANTS
    r1 = r1
    r2 = r2
    a = a
    OrderItem = OrderItem
    main = main
    retry = retry
    stopper = stopper
    NoTask = NoTask
    MaxTasks = 1
    Receivers = {r1, r2}
    Callers = {main, retry, stopper}
    Codes = {a}
    Items = {a, OrderItem}
    MaxSockets = 2
INVARIANTS OrdersStaySubscribed
PROPERTIES KeepsTrying
CHECK_DEADLOCK FALSE
