SPECIFICATION EngineSpec
CONSTANTS
    Prices = {1, 4, 6, 7}
    Qtys = {1}
    MaxLevelQty = 9
    Traders = {"bot"}
    MaxFills = 9
    NotNumeric = NotNumeric
    NoOrder = NoOrder
    Makers = {m1}
    Takers = {t1}
    Whales = {w1}
    MakerQty = 2
    TakerQty = 1
    WhaleQty = 3
    Offset = 1
    StartPrice = 5
    Floor = 5
    MaxStep = 1
    MaxPrice = 6
    Interval = 1
    Jitter = 1
    Lines <- MCLines
    MaxLines = 3
    Flood = FALSE
    MaxQueue = 2
    MaxTick = 2
INVARIANTS
    EngineTypeOK
    AgentBookFresh
    MarketOrderAnswered
CHECK_DEADLOCK FALSE
