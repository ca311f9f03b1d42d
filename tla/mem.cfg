SPECIFICATION FairSpec
CONSTANTS
    MaxSessions = 4
    MaxEntries = 2
    Budgets <- Bounded
INVARIANTS
    EntriesKept
    ToldUnlessSlipped
    OneAttached
PROPERTIES
    SessionsKept
    MemoriesConsolidated
CHECK_DEADLOCK FALSE
