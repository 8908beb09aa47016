CONSTANTS
    a1 = a1
    a2 = a2
    a3 = a3
    a4 = a4
    n1 = n1
    NoActor = NoActor
    NoName = NoName
    Actor <- MCActor
    Name <- MCName
    NameOf <- MCNameOf
SPECIFICATION RegistrySpec
SYMMETRY MCSymmetry
CHECK_DEADLOCK FALSE
INVARIANTS
    LinksAgree
    NamesPointHome
    TreeNumbers
    NoFalseAlarm
PROPERTY SupervisorKept
