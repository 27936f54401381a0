CONSTANTS
    Generations = {g1, g2}
    Queries = {q1}
    Probers = {b1}
    Publishers = {p1}
    Retirers = {r1}
    Threads <- MCThreads
    None = None
    DirSyncFails = TRUE
    Slots <- MCSlots
    MaxItems = 1
    MaxCancels <- MCCancels
SPECIFICATION GatewaySpec
INVARIANTS
    ReadsAreWholeUnlessCancelledTwice
    RetiredIsNotActive
    
    
CONSTRAINT MCBound
SYMMETRY MCSymmetry
