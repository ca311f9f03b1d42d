SPECIFICATION LifeFairSpec
CONSTANTS
    MaxUpdates = 4
    BatchSize = 2
    MaxEntries = 2
    FaultBudget <- EachOnce
    Pids = {p1, p2}
    Nobody = nobody
    LockFaults <- TwoKillsOneStop
INVARIANTS
    TypeOK
    HandledInOrder
    OnlyInHandAtRisk
PROPERTIES
    KeepsPromise
