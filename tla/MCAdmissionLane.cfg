CONSTANTS
    large = large
    Tasks = {large, t1, t2, t3, t4, t5}
    Bytes <- MCBytes
    Concurrency = 2
    MaxItems = 4
    MaxBytes = 4

SPECIFICATION FairSpec

INVARIANTS
    CountsAreExact
    IdleMeansEmpty
PROPERTIES
    ImplementsLane
    WaiterIsServed
    DrainEnds
