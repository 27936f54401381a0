CONSTANTS
    Files = {f1, f2}
    Versions = {v1, v2}
    Missing = Missing

SPECIFICATION SyncSpec
SYMMETRY MCSymmetry
CONSTRAINT MCFewPending


    
PROPERTY
    DirtyIsReplayed
