\* A budget of three: the second run's M1 completes when it is spent.
CONSTANTS
    Clients = {c1}
    Sids = {x, y}
    Sources = {a, b}
    M1Frags = 2
    M2Frags = 2
    MaxPending = 1
    PendingTtl = 2
    Burst = 3
    Window = 1
    M1MaxAttempts = 1
    M3MaxAttempts = 1
    Rosters <- AnyRoster
    MaxHellos = 2
SYMMETRY Symmetry
SPECIFICATION Spec
INVARIANTS
    ServerNeverStuck
