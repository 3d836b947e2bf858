SPECIFICATION PTSpec
CONSTANTS
    Traders = {t1}
    Prices = {1, 2, 4}
    Qtys = {1, 2, 3}
    MaxFills = 5
INVARIANTS
    PTTypeOK
    EquityExact
CHECK_DEADLOCK FALSE
