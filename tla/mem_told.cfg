SPECIFICATION Spec
CONSTANTS
    MaxSessions = 2
    MaxEntries = 1
    Budgets <- Bounded
INVARIANTS
    CaughtUpWasTold
CHECK_DEADLOCK FALSE
