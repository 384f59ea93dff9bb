\* One client that reconnects with a second sid and may change its address,
\* against a pending table of one entry and a budget of two per window.
CONSTANTS
    Clients = {c1}
    Sids = {x, y}
    Sources = {a, b}
    M1Frags = 2
    M2Frags = 2
    MaxPending = 1
    PendingTtl = 2
    Burst = 2
    Window = 1
    M1MaxAttempts = 1
    M3MaxAttempts = 1
    Rosters <- AnyRoster
    MaxHellos = 2
SYMMETRY Symmetry
SPECIFICATION Spec
INVARIANTS
    TypeOK
    CompletedOnce
    WorkIsBudgeted
    ClientNeverStuck
