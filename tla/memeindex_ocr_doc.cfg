SPECIFICATION Spec
CONSTANTS
    m1 = m1
    t1 = t1
    t2 = t2
    None = None
    Memes <- OneMeme
    Threads <- TwoThreads
    MaxAttempts = 1
    MaxJobs = 4
    MaxCrashes = 0
    MaxFaults = 0
    UserTexts = {"a"}
    Failures = FALSE
SYMMETRY Symmetry
PROPERTIES
    OcrKeepsUserText
CHECK_DEADLOCK FALSE
