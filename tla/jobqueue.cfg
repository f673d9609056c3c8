SPECIFICATION FairSpec
CONSTANTS
    m1 = m1
    t1 = t1
    t2 = t2
    None = None
    Memes <- OneMeme
    Threads <- TwoThreads
    MaxAttempts = 2
    MaxJobs = 4
    MaxCrashes = 1
    MaxFaults = 1
INVARIANTS
    TypeOK
    NothingForgotten
    HeldOnce
    RowIdentity
    PipelineOrder
    CleanStopDrains
    IInv
PROPERTIES
    FinishedForever
    KeepsTablePromise
    EveryJobSettles
    ShutdownEnds
CHECK_DEADLOCK FALSE
