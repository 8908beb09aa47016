CONSTANTS
    c1 = c1
    c2 = c2
    c3 = c3
    NoCell = NoCell
    NoElement = NoElement
    Cell <- MCCell
    Element <- MCElement
    Values <- MCValues
    ArgLists <- MCArgLists
    Half = 4
    MaxMessages = 2
    MaxTasks = 2
    Neighbours = 1
    MaxRestarts = 1
SPECIFICATION MailSpec
SYMMETRY Cells
CHECK_DEADLOCK FALSE
INVARIANTS
    LinkedList
    MailTypeOK
    NoDangling
    NoOtherLeak
    CleanEnd
    ValueKept
PROPERTY ImplementsFifo
