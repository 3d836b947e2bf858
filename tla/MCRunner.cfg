SPECIFICATION RunnerFairSpec
CONSTANTS
    Senders = {s1, s2}
    Posters = {p1, p2}
    Requests <- MCRequests
    Initial <- Defaults
    Parts = 2
    PipeCap = 2
    Nobody = Nobody
INVARIANTS
    RunnerTypeOK
    RunningConfig
    LinesWhole
PROPERTIES
    CallsReturn
    LoopServes
