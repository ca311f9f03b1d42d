SPECIFICATION Spec
CONSTANTS
    MaxSessions = 1
    MaxPieces = 1
    MaxMessages = 1
    MaxNotes = 2
    Topics = {FALSE}
    RowEnds = {"done"}
    Budgets <- Calm
INVARIANT
    AnswerKept
CHECK_DEADLOCK FALSE
