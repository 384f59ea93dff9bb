\* Three sources compete for two buckets; two tokens per window of two units.
CONSTANTS
    Sources = {s1, s2, s3}
    Burst = 2
    Window = 2
    MaxBuckets = 2
    PruneAbove = 1
SPECIFICATION Spec
INVARIANTS
    TypeOK
    TableInLockstep
PROPERTIES
    ImplementsBudget
