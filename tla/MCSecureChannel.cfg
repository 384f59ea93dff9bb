\* Four packets each way and a window of two: every gap below, at and above
\* the width, and both ends reach the nonce limit.
CONSTANTS
    WindowBits = 2
    MaxCounter = 5
    MaxPacketNonce = 4
    Client = client
    Server = server
SPECIFICATION Spec
INVARIANTS
    TypeOK
    NonceNeverReused
    SenderStopsBelowLimit
    LatePacketsAccepted
PROPERTIES
    ClosedIsFinal
    ImplementsAtMostOnce
