SPECIFICATION SMSpec
CONSTANTS
    Traders = {t1, t2}
    Deleters = {}
    Main = Main
    MaxConcurrentSandboxes = 2
    BadWrite = {}
    BadRemove = {}
    BadDocker = {}
    BadInspect = {}
INVARIANT
    NoneOutlivesServer
CHECK_DEADLOCK FALSE
