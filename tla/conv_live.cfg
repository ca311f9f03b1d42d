SPECIFICATION FairSpec
CONSTANTS
    MaxSessions = 2
    MaxPieces = 1
    MaxMessages = 2
    MaxNotes = 2
    Topics = {TRUE, FALSE}
    RowEnds = {"done", "ignorable", "closed", "other"}
    Budgets <- CommandsOnly
PROPERTIES
    FollowUpSent
    HiddenOnceDetached
CHECK_DEADLOCK FALSE
