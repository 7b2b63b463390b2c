CONSTANTS
    d1 = d1  d2 = d2
    Device = {d1}
    Slots = 2
    MaxAccount = 2
    MaxPair = 1
    MaxLost = 0
    Mixes = {{"login", "delete", "ingest"}}
SPECIFICATION AccountFairSpec
PROPERTY RequestEnds
CHECK_DEADLOCK FALSE
