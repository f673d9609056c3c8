SPECIFICATION Spec
CONSTANTS
    m1 = m1
    t1 = t1
    t2 = t2
    None = None
    Memes <- OneMeme
    Threads <- TwoThreads
    MaxAttempts = 1
    MaxJobs = 4
    MaxCrashes = 1
    MaxFaults = 0
    UserTexts = {"a"}
    Failures = TRUE
SYMMETRY Symmetry
INVARIANTS
    TypeOK
    IndexCatchesUp
    KeywordIndexCatchesUp
    MissingImageShows
PROPERTY QueueSpec
CHECK_DEADLOCK FALSE
