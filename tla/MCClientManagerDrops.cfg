\* A payload that waits out its TTL while the session comes up.
CONSTANTS
    Sids = {a, b, c}
    HistoryCap = 1
    RetiredCap = 3
    M1MaxAttempts = 1
    M3MaxAttempts = 1
    HandshakeTimeout = 2
    ConfirmTimeout = 2
    LifetimeCap = 0
    ProbeInterval = 2
    LivenessRounds = 2
    QueueCap = 1
    QueueTtl = 2
    CloseTotal = 1
    CoverPolicies = {TRUE, FALSE}
    MayExhaust = FALSE
    MaxFaults = 0
CHECK_DEADLOCK FALSE
SPECIFICATION Spec
INVARIANT
    DropsAreReported
