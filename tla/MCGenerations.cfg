CONSTANTS
    Generations = {g1, g2}
    Threads = {t1, t2, t3}
    None = None
    DirSyncFails = FALSE
SPECIFICATION Spec
SYMMETRY MCSymmetry
INVARIANTS
    SelectedIsWhole
PROPERTIES
    FencedIsNotPinned
    ImplementsRegister
