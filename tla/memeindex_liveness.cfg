SPECIFICATION FairSpec
CONSTANTS
    m1 = m1
    t1 = t1
    t2 = t2
    None = None
    Memes <- OneMeme
    Threads <- OneThread
    MaxAttempts = 2
    MaxJobs = 6
    MaxCrashes = 0
    MaxFaults = 0
    UserTexts = {"a"}
    Failures = FALSE
PROPERTIES
    IndexConverges
    DoneMeansDone
CHECK_DEADLOCK FALSE
