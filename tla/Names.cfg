CONSTANTS
    a1 = a1
    a2 = a2
    a3 = a3
    a4 = a4
    w1 = w1
    w2 = w2
    n1 = n1
    NoActor = NoActor
    NoName = NoName
    Main = Main
    Actor <- Quartet
    Name <- OneName
    NameOf <- Name234
    Worker <- TwoWorkers
    FirstWorker = w1
    Creates <- NameCreates
    Promotes <- Promote1
    Adds <- Nothing
    Sends <- Nothing
    MayThrow <- Nothing
    MayReturn <- Quartet
    MayShutdown <- Nothing
    MaxStreak = 5
    MaxSends = 0
    MaxCrashes = 0
SPECIFICATION Spec
CHECK_DEADLOCK FALSE
INVARIANTS
    NamesUnique
