SPECIFICATION Spec
CONSTANTS
    m1 = m1
    m2 = m2
    m3 = m3
    f1 = f1
    f2 = f2
    f3 = f3
    f4 = f4
    p = p
    q = q
    t1 = t1
    t2 = t2
    Worker = Worker
    Builder = Builder
    None = None
    Empty = Empty
    Torn = Torn
    Memes <- ThreeMemes
    Faces <- FourFaces
    People <- TwoPeople
    Threads <- OneThread
    MemeOf <- Where
    PersonOf <- Who
    MaxRefs = 3
    Taught = 2
    MaxDomain = 1
    Budget = 4
    BuildCost = 2
INVARIANTS
    HeadingsAreTrue
CHECK_DEADLOCK FALSE
