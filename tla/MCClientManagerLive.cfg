CONSTANTS
    Sids = {a, b}
    HistoryCap = 1
    RetiredCap = 1
    M1MaxAttempts = 1
    M3MaxAttempts = 1
    HandshakeTimeout = 2
    ConfirmTimeout = 2
    LifetimeCap = 0
    ProbeInterval = 2
    LivenessRounds = 2
    QueueCap = 1
    QueueTtl = 2
    CloseTotal = 1
    CoverPolicies = {TRUE, FALSE}
    MayExhaust = FALSE
    MaxFaults = 1
SPECIFICATION FairSpec
PROPERTIES
    Reestablishes
    ConfirmationIsDecided
    SilenceIsNoticed
