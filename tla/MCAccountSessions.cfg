\* Behaviours stop once MaxPair token pairs are issued and no device holds one.
CONSTANTS
    d1 = d1  d2 = d2
    Device = {d1, d2}
    Slots = 2
    MaxAccount = 2
    MaxPair = 3
    MaxLost = 1
    Mixes = {{"login", "refresh", "logout"},
             {"signup", "social", "refresh"},
             {"magic", "delete", "capture"},
             {"oidc", "delete"},
             {"oidc", "ingest"}}
SPECIFICATION AccountFairSpec
INVARIANTS TokensMatchSession Erased
PROPERTY RequestEnds
CHECK_DEADLOCK FALSE
