SPECIFICATION FairSpec
CONSTANTS
    MaxServers = 2
    MaxNotes = 3
    AskIds = {3, 4}
    MaxQueue = 1
    Base = 1
    Maximum = 2
    Budgets <- AllBudgets
INVARIANTS
    TypeOK
    OwnResponse
    PendingWaits
    NotesInOrder
PROPERTIES
    NotesHandled
    AsksSurface
    TriesAgain
CHECK_DEADLOCK FALSE
