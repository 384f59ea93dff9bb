CONSTANTS
    Sids = {a, b, c}
    HistoryCap = 1
    RetiredCap = 3
    M1MaxAttempts = 1
    M3MaxAttempts = 1
    HandshakeTimeout = 2
    ConfirmTimeout = 2
    LifetimeCap = 8
    ProbeInterval = 2
    LivenessRounds = 3
    QueueCap = 2
    QueueTtl = 2
    CloseTotal = 3
    CoverPolicies = {TRUE, FALSE}
    MayExhaust = TRUE
    MaxFaults = 1
CHECK_DEADLOCK FALSE
SYMMETRY Symmetry
SPECIFICATION Spec
INVARIANTS
    TypeOK
    OneLiveObject
    RetransmitIsArmed
    SlotHasOneOwner
    ReadyIsCurrent
    RoundsMeasureSilence
PROPERTIES
    NeverRehosted
