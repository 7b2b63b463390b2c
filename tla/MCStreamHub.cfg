SPECIFICATION HubFairSpec
CONSTANTS
    Turn = {t1, t2}
    Length = 3
    RingCap = 2
    BufferCap = 3
    MaxDrops = 2
    Crowding = TRUE
PROPERTY Answered
INVARIANTS OnceInOrder NoSilentGap
CHECK_DEADLOCK FALSE
