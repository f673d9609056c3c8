SPECIFICATION Spec
CONSTANTS
    m1 = m1
    m2 = m2
    m3 = m3
    None = None
    Memes <- ThreeMemes
    Weight <- Weights
    MaxHits = 2
    MaxChanges = 1
    Rows <- SomeRows
    FirstRow <- Plain
    Limit = 2
    Scale <- ScaleOfTwo
INVARIANTS
    EvidenceDecides
    BestAreReturned
CHECK_DEADLOCK FALSE
