SPECIFICATION VoiceSpec
CONSTANTS
    p1 = p1 p2 = p2 m1 = m1 m2 = m2 m3 = m3 s1 = s1 s2 = s2
    a = a b = b d = d k1 = k1 k2 = k2 v1 = v1
    Provider = {p1, p2}
    Model = {m1, m2, m3}
    Catalog <- MCCatalog
    Routable <- MCRoutable
    FallbackModels <- MCFallback
    DefaultRoute <- MCDefault
    NoHint = NoHint
    Cred = {a, b, d}
    ProviderOf <- MCProviderOf
    Priority <- MCPriority
    Scopes <- MCScopes
    Call = {k1, k2}
    Watched = {k1}
    Answer <- MCAnswer
    TtlAuth = 1
    Ttl = 1
    MaxCooldown = 1
    MaxAttempts = 2
    MaxNow = 1
    Voice = {v1}
    SttVendors <- MCSttVendors
    Asked = {s1, NoModel}
    AutoVendor = AutoVendor
    NoModel = NoModel
    NoCred = NoCred
PROPERTY CallReturns
INVARIANTS VerdictKept KeyRests VoiceWhereChosen
CHECK_DEADLOCK FALSE
