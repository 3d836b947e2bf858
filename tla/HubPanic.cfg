SPECIFICATION HubSpec
CONSTANTS
    Clients = {c1, c2}
    BroadcastCap = 1
    SendCap = 1
    MaxMsgs = 3
INVARIANT
    ReadPumpNeverPanics
CHECK_DEADLOCK FALSE
