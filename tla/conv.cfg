SPECIFICATION Spec
CONSTANTS
    MaxSessions = 2
    MaxPieces = 2
    MaxMessages = 2
    MaxNotes = 2
    Topics = {FALSE}
    RowEnds = {"done"}
    Budgets <- OneOfEach
INVARIANTS
    TypeOK
    FinalIsWhole
    OwnText
    RunningTurnKnown
    TurnComes
CHECK_DEADLOCK FALSE
