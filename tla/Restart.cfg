CONSTANTS
    a1 = a1
    a2 = a2
    a3 = a3
    a4 = a4
    w1 = w1
    w2 = w2
    n1 = n1
    NoActor = NoActor
    NoName = NoName
    Main = Main
    Actor <- Pair
    Name <- Nothing
    NameOf <- Unnamed
    Worker <- TwoWorkers
    FirstWorker = w1
    Creates <- Supervised
    Promotes <- Promote1
    Adds <- Nothing
    Sends <- BothSends
    MayThrow <- Only2
    MayReturn <- Nothing
    MayShutdown <- Nothing
    MaxStreak = 3
    MaxSends = 2
    MaxCrashes = 2
    MaxPages = 0
    Nests <- Nothing
    NoPage = NoPage
SPECIFICATION FairVmSpec
CHECK_DEADLOCK FALSE
INVARIANTS
    NoFault
    OneWakeup
    MailInOrder
PROPERTIES
    Delivered
    RestartCompletes
