CONSTANTS
    Links = {l1, l2}
    SourceHashes = {v1, v2}
    Unknown = Unknown
    Readers = {r1}
    NoRecord = NoRecord

SPECIFICATION LinkSpec
CONSTRAINT MCBriefQueries
SYMMETRY MCSymmetry

INVARIANTS
    FinishedLogIsSettled
    
PROPERTY
    CollapseStalesNothingUnlessCut
