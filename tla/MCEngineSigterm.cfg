SPECIFICATION EngineFairSpec
CONSTANTS
    Prices = {1, 4, 6, 7}
    Qtys = {1}
    MaxLevelQty = 9
    Traders = {"bot"}
    MaxFills = 9
    NotNumeric = NotNumeric
    NoOrder = NoOrder
    Makers = {m1}
    Takers = {t1}
    Whales = {w1}
    MakerQty = 2
    TakerQty = 1
    WhaleQty = 3
    Offset = 1
    StartPrice = 5
    Floor = 5
    MaxStep = 1
    MaxPrice = 6
    Interval = 1
    Jitter = 1
    Lines <- MCFloodLines
    MaxLines = 3
    Flood = TRUE
    MaxQueue = 2
    MaxTick = 2
PROPERTIES
    SignalExits
    OrderServed
CHECK_DEADLOCK FALSE
