SPECIFICATION FairSpec
CONSTANTS
    r1 = r1
    r2 = r2
    n1 = n1
    e1 = e1
    c1 = c1
    x1 = x1
    NoToken = NoToken
    NoJob = NoJob
    NoRun = NoRun
    Runs = {r1}
    Jobs = {n1, e1}
    Barriers = {nodes}
    Tokens = {w1}
    Analyzers = {}
    LegacyRuns = {}
    ShortJobs = {}
    MaxFaults = 1
    MaxAttempts = 3
    MaxBatches = 3
    ScopeOf <- MCScopeOf
    RunOf <- MCRunOf
    Sequence <- MCSequence
    Ledger <- MCLedger
    BarrierRun <- MCBarrierRun
    Requires <- MCRequires
    Produces <- MCProduces
    Follows <- MCFollows
    Clears <- MCClears
PROPERTIES
    WorkSettles
    DrainingRunsFinish
CHECK_DEADLOCK FALSE
