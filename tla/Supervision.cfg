CONSTANTS
    a1 = a1
    a2 = a2
    a3 = a3
    a4 = a4
    w1 = w1
    w2 = w2
    n1 = n1
    NoActor = NoActor
    NoName = NoName
    Main = Main
    Actor <- Trio
    Name <- Nothing
    NameOf <- Unnamed
    Worker <- TwoWorkers
    FirstWorker = w1
    Creates <- Chain
    Promotes <- Promote12
    Adds <- Nothing
    Sends <- ChainSends
    MayThrow <- Only2
    MayReturn <- Only1
    MayShutdown <- Nothing
    MaxStreak = 2
    MaxCrashes = 2
    MaxSends = 1
    MaxPages = 1
    Nests <- Only3
    NoPage = NoPage
SPECIFICATION VmSpec
CHECK_DEADLOCK FALSE
INVARIANTS
    TypeOK
    NoLostWakeup
    OwnedOnce
    Pinned
    RunningNotFreed
    VmTypeOK
    OnOwnPages
    SavedPagesLive
    ClearsLivePages
    DeepPagesFreed
