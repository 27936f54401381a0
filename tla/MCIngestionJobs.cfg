CONSTANTS
    Keys = {k1, k2}
    Callers = {c1, c2}
    Absent = Absent
    MaxQueueItems = 2
SPECIFICATION JobSpec
SYMMETRY MCSymmetry
INVARIANTS
    TableIsTrue
    AckedIsKept
PROPERTIES
    TerminalIsFinal
    EndedNeverWrites
