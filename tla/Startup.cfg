CONSTANTS
    A = A
    B = B
    I = I
    X = X
    L = L
    PhActor = PhActor
    PhpIterator = PhpIterator
    f = f
    g = g
    NoClass = NoClass
    NoThread = NoThread
    Class <- MCClass
    Anonymous <- MCAnonymous
    Internal <- MCInternal
    Links <- MCLinks
    Props <- MCProps
    Statics <- MCStatics
    Literals <- MCLiterals
    Constants <- MCConstants
    Symbol <- MCSymbol
    Early <- MCEarly
    Orders <- MCOrders
    ThreadCount = 2
SPECIFICATION Spec
CHECK_DEADLOCK FALSE
INVARIANTS
    TypeOK
    AllKnown
    LinksKept
    NoneShared
PROPERTIES
    SourceStable
    Started
