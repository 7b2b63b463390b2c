CONSTANTS
    j1 = j1  j2 = j2  j3 = j3  c1 = c1  c2 = c2  w1 = w1  w2 = w2
    Job = {j1, j2, j3}
    Ref = {"ingest:i"}
    DreamRef = {}
    Client = {c1, c2}
    Worker = {w1, w2}
    MaxPending = 2
    MaxAttempts = 2
    MaxCrash = 1
    NoJob = NoJob  NoRef = NoRef  NoClient = NoClient
SPECIFICATION FairSpec
INVARIANTS OneRunner RetryBudget DuplicatesBounded
PROPERTIES ImplementsContract JobSettles
