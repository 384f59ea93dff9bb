\* Three packets for two entries: one of three fragments fits beside a shorter
\* one, two do not; identifiers may start again at any time.
CONSTANTS
    Packets <- MCPackets
    FragCap = 2
    MaxEntries = 2
    MaxBytes = 8
    Deadline = 1
    MaxSent = 3
    MaxInFlight = 3
    MaxFaults = 1
SPECIFICATION Spec
INVARIANTS
    TypeOK
    OnlyCollisionsSplice
    BytesAccounted
    
PROPERTIES
    EntriesAreKept
