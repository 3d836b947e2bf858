SPECIFICATION PipeFairSpec
CONSTANTS
    Keep = 2
    DefaultLimit = 1
    MaxLimit = 2
    ChanCap = 2
    HubCap = 1
    RelayCap = 1
    Kinds = {"fill"}
    Times = {1, 2}
    MaxEvents = 3
    MaxRestarts = 2
INVARIANTS
    PipeTypeOK
    RowsBounded
    HistoryIsNewest
PROPERTIES
    SinksInOrder
    EventsHandled
CHECK_DEADLOCK FALSE
