CONSTANTS
    a1 = a1
    a2 = a2
    a3 = a3
    a4 = a4
    w1 = w1
    w2 = w2
    n1 = n1
    NoActor = NoActor
    NoName = NoName
    Main = Main
    Actor <- Trio
    Name <- Nothing
    NameOf <- Unnamed
    Worker <- TwoWorkers
    FirstWorker = w1
    Creates <- Chain
    Promotes <- Promote12
    Adds <- Nothing
    Sends <- Nothing
    MayThrow <- Trio
    MayReturn <- Nothing
    MayShutdown <- Nothing
    MaxStreak = 2
    MaxSends = 0
    MaxCrashes = 3
SPECIFICATION Spec
CHECK_DEADLOCK FALSE
INVARIANTS
    RestartLimit
