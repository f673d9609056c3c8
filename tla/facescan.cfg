SPECIFICATION Spec
CONSTANTS
    m1 = m1
    m2 = m2
    m3 = m3
    f1 = f1
    f2 = f2
    None = None
    Memes <- ThreeMemes
    Faces <- TwoFaces
    FacesOf <- Shows
    Batch = 2
    Budget = 2
INVARIANTS
    SavedIsScanned
    KillsCostOneBatch
    CropsAreReclaimed
CHECK_DEADLOCK FALSE
