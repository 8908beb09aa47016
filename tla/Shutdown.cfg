CONSTANTS
    a1 = a1
    a2 = a2
    a3 = a3
    a4 = a4
    w1 = w1
    w2 = w2
    n1 = n1
    NoActor = NoActor
    NoName = NoName
    Main = Main
    Actor <- Pair
    Name <- OneName
    NameOf <- Name2
    Worker <- TwoWorkers
    FirstWorker = w1
    Creates <- LateCreates
    Promotes <- Promote1
    Adds <- SelfAdds2
    Sends <- NameSends
    MayThrow <- OnlyMain
    MayReturn <- Only2
    MayShutdown <- MainAnd1
    MaxStreak = 5
    MaxSends = 2
    MaxCrashes = 0
    MaxPages = 0
    Nests <- Nothing
    NoPage = NoPage
SPECIFICATION FairVmSpec
CHECK_DEADLOCK FALSE
INVARIANTS
    NothingLeaks
PROPERTIES
    MailboxesSpec
    ShutdownEnds
