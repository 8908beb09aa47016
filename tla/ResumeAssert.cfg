CONSTANTS
    a1 = a1
    a2 = a2
    a3 = a3
    a4 = a4
    w1 = w1
    w2 = w2
    n1 = n1
    NoActor = NoActor
    NoName = NoName
    Main = Main
    Actor <- Pair
    Name <- Nothing
    NameOf <- Unnamed
    Worker <- TwoWorkers
    FirstWorker = w1
    Creates <- Supervised
    Promotes <- Promote1
    Adds <- Nothing
    Sends <- DownSends
    MayThrow <- Nothing
    MayReturn <- Pair
    MayShutdown <- Nothing
    MaxStreak = 5
    MaxSends = 1
    MaxCrashes = 0
SPECIFICATION Spec
CHECK_DEADLOCK FALSE
INVARIANTS
    ResumedActorExists
