\* Two clients draw the same sid and send from two addresses, while the
\* operator swaps rosters.  One fragment carries M2: mixed replies are the
\* reconnecting client's case.
CONSTANTS
    Clients = {c1, c2}
    Sids = {x}
    Sources = {a, b}
    M1Frags = 2
    M2Frags = 1
    MaxPending = 1
    PendingTtl = 2
    Burst = 2
    Window = 1
    M1MaxAttempts = 0
    M3MaxAttempts = 0
    Rosters <- AnyRoster
    MaxHellos = 2
SYMMETRY Symmetry
SPECIFICATION Spec
INVARIANTS
    CompletedOnRoster
    OpenExchangeKeepsItsSource
PROPERTIES
    AnswerIsKept
