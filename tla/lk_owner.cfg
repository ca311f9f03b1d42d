SPECIFICATION Spec
CONSTANTS
    Pids = {p1, p2, p3}
    Nobody = nobody
    Roles = {"service", "foreground", "setup"}
    Choices = {"kill", "heal", "ignore", "exit"}
    FaultBudget <- OneEach
    PidsReused = TRUE
INVARIANTS
    LockInv
SYMMETRY Symmetry
CHECK_DEADLOCK FALSE
