SPECIFICATION FairSpec
CONSTANTS
    t1 = t1
    t2 = t2
    t3 = t3
    None = None
    Threads <- ThreeThreads
    MaxCalls = 4
INVARIANTS
    TypeOK
    ScannerRestored
    WholeModel
PROPERTIES
    LoadsOnce
    CallsEnd
CHECK_DEADLOCK FALSE
