SPECIFICATION OBSpec
CONSTANTS
    Prices = {1, 2, 3}
    Qtys = {1, 2, 5}
    MaxLevelQty = 2
INVARIANTS
    OBTypeOK
    LevelsConserved
    PricePriority
    SweepComplete
    FillsMatchReference
