SPECIFICATION Spec
CONSTANTS
    PartialKeys = {p}
    FinalKeys = {}
    LiveKeys = {l}
    ErrorKeys = {}
    TypingKeys = {}
    NoKey = none
    ChunkOf <- OneChunk
    MaxRows = 3
    MaxMessages = 6
    Throttle = 1
    InitialBackoff = 2
    MaxBackoff = 3
    RetryAfters = {1}
    FaultBudget <- LimitFailCrash
    PidsReused = FALSE
INVARIANTS
    QueueInv
    ExecutedInOrder
    NoCallDuringPause
    ClaimsAreHeld
    NewestTextStands
    DuplicatesExplained
PROPERTIES
    TextsOnlyAdvance
CHECK_DEADLOCK FALSE
