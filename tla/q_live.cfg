SPECIFICATION FairSpec
CONSTANTS
    PartialKeys = {}
    FinalKeys = {f}
    LiveKeys = {}
    ErrorKeys = {e}
    TypingKeys = {t}
    NoKey = none
    ChunkOf <- OneChunk
    MaxRows = 2
    MaxMessages = 6
    Throttle = 1
    InitialBackoff = 1
    MaxBackoff = 1
    RetryAfters = {2}
    FaultBudget <- AnyFault
    PidsReused = TRUE
INVARIANTS
    TypeOK
    ClaimedOnce
    CompletedWasPosted
PROPERTIES
    EveryRowSettles
    WaiterReleased
CHECK_DEADLOCK FALSE
