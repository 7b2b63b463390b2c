SPECIFICATION TranscriptSpec
CONSTANTS
    Chains <- MCChains
    Priors <- MCPriors
    Reply <- MCReply
    MaxRounds = 2
    NoId = NoId
    None = None
INVARIANTS
    CallsAnswered
    ReasoningEchoed
    RolesAlternate
    AdvertisedToolsRun
CHECK_DEADLOCK FALSE
