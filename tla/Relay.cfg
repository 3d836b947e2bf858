SPECIFICATION RelayFairSpec
CONSTANTS
    Sandboxes = {a}
    Traders = {a, b}
    OutCap = 2
    Limit = 2
    Window = 1
    MaxEvents = 3
    MaxOrders = 4
    MaxTime = 2
    Nobody = Nobody
INVARIANTS
    RelayTypeOK
    RoutedInOrder
    ContextCurrent
    RateBounded
PROPERTIES
    RefusalEarned
    DetachedInTheEnd
CHECK_DEADLOCK FALSE
