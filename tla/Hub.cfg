SPECIFICATION HubFairSpec
CONSTANTS
    Clients = {c1, c2}
    BroadcastCap = 1
    SendCap = 1
    MaxMsgs = 3
INVARIANTS
    HubTypeOK
    HubNeverPanics
    GapFree
PROPERTIES
    BroadcastProgress
    LostPeerCleanedUp
    EvictedTornDown
CHECK_DEADLOCK FALSE
