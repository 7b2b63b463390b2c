CONSTANTS
    u1 = u1  u2 = u2  f1 = f1
    Calls <- TwoCalls
    Flushes <- OneFlush
    FeedCap = 1
    MaxCaptures = 2
    MaxMutations = 2
    MaxLosses = 1
    MaxCrashes = 1
SPECIFICATION FairSpec
CONSTRAINT Focus
INVARIANTS OneRowPerCapture NothingLost MutationKept QueuedStaysVisible
PROPERTIES CapturesLand
