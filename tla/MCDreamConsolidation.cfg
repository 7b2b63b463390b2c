CONSTANTS
    Ref = {"dream:tenant", "dream:manual"}
    CronRef = "dream:tenant"
    i1 = i1
    Idea = {i1}
    MinHours = 2
    MinSessions = 1
    LeaseTicks = 1
    Seeds = {TRUE, FALSE}
    MaxClaims = 3
    MaxCrash = 1
SPECIFICATION FairSpec
INVARIANTS OneDream NoneForgotten
PROPERTY LeaseComesFree
