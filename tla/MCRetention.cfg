CONSTANTS
    Runs = {r1, r2}
    Payloads = {p1, p2}
    Analyzers = {a1, a2}
    Nil = Nil
SPECIFICATION RetentionSpec
SYMMETRY MCSymmetry
INVARIANTS
    JournalOpens
    OnlyEndedRunsArePurged
