SPECIFICATION Spec
CONSTANTS
    MaxServers = 2
    MaxNotes = 3
    AskIds = {3, 4}
    MaxQueue = 1
    Base = 1
    Maximum = 2
    Budgets <- Approvals
INVARIANT
    AnswerReachesAsker
CHECK_DEADLOCK FALSE
