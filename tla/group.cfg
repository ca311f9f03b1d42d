SPECIFICATION GroupFairSpec
CONSTANTS
    Callers = {queue}
    Delivery = queue
    MaxAttempts = 1
    Windows = {2}
    MaxCalls = 5
    Described = TRUE
    MaxChunks = 2
    MaxTexts = 3
    MaxRefused = 1
INVARIANTS
    OwnMessages
    TextStands
PROPERTIES
    CallsReturn
CHECK_DEADLOCK FALSE
