SPECIFICATION RunnerSpec
CONSTANTS
    Senders = {s1}
    Posters = {p1}
    Requests <- MCRequests
    Initial <- Defaults
    Parts = 2
    PipeCap = 1
    Nobody = Nobody
INVARIANT
    ArgsApply
