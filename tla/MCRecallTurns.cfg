SPECIFICATION FairSpec
CONSTANTS
    t1 = t1 t2 = t2
    Turn = {t1, t2}
    Watched = {t1}
    Mixes <- MCMixes
    Usage <- MCUsage
    MaxPrice = 3
    Unit = 2
    Budget = 1
    MaxRounds = 1
    Cap = 2
    Permits = 1
    InflightCap = 2
    MaxDays = 1
    NoTurn = NoTurn
PROPERTY TurnEnds
INVARIANTS SpendBounded LedgerExact SlotsMatchTurns OnlySupersededOutlive
CHECK_DEADLOCK FALSE
