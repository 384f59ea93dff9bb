\* Three clients against a server with room for two.
CONSTANTS
    Sids = {a, b, c}
    MaxSessions = 2
    IdleTimeout = 3
    LifetimeCap = 4
    CloseTotal = 3
    MayExhaust = TRUE
    CoverPolicies = {TRUE, FALSE}
    MaxQueued = 2
SPECIFICATION FairSpec
INVARIANTS
    TypeOK
    AppKnowsSessions
    IdleIsReaped
    CoverRuns
PROPERTIES
    OnlyIdleIsEvicted
    ClosedIsReported
