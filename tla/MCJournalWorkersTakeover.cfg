SPECIFICATION SysSpec
CONSTANTS
    r1 = r1
    r2 = r2
    n1 = n1
    e1 = e1
    c1 = c1
    x1 = x1
    NoToken = NoToken
    NoJob = NoJob
    NoRun = NoRun
    Runs = {r1}
    Jobs = {n1, e1}
    Barriers = {nodes}
    Tokens = {w1, w2}
    Analyzers = {w2}
    LegacyRuns = {}
    ShortJobs = {e1}
    MaxFaults = 1
    MaxAttempts = 2
    MaxBatches = 3
    ScopeOf <- MCScopeOf
    RunOf <- MCRunOf
    Sequence <- MCSequence
    Ledger <- MCLedger
    BarrierRun <- MCBarrierRun
    Requires <- MCRequires
    Produces <- MCProduces
    Follows <- MCFollows
    Clears <- MCClears
INVARIANTS
    AcknowledgedIsApplied
    EdgesLandAfterNodes
PROPERTIES
    Spec
CHECK_DEADLOCK FALSE
