SPECIFICATION Spec
CONSTANTS
    p1 = p1
    p2 = p2
    s1 = s1
    s2 = s2
    s3 = s3
    None = None
    Packs <- TwoPacks
    Stickers <- ThreeStickers
    StickersOf <- Contents
    Keywords = 2
    Pages = 2
    MaxPacks = 1
    MaxStickers = 2
    Budget = 3
INVARIANTS
    TypeOK
    HashesAreStored
    SeenPacksAreFetched
    PostedOnce
CHECK_DEADLOCK FALSE
