SPECIFICATION SMFairSpec
CONSTANTS
    Traders = {t1, t2}
    Deleters = {d1}
    Main = Main
    MaxConcurrentSandboxes = 1
    BadWrite = {t2}
    BadRemove = {t2}
    BadDocker = {t1}
    BadInspect = {t1, t2}
INVARIANTS
    SMTypeOK
    LiveCap
    LiveSupported
    StoppedClean
PROPERTIES
    DeadNoticed
    ShutdownStops
CHECK_DEADLOCK FALSE
