SPECIFICATION FairNodeFirstSpec
CONSTANTS
    c1 = c1
    n1 = n1
    e1 = e1
    own = own
    NoToken = NoToken
    NoJob = NoJob
    NoRun = NoRun
    Run = r1
    Runs = {r1}
    Jobs = {c1, n1, e1}
    NodePhase = nodes
    EndpointAudit = audited
    Barriers = {nodes, audited, own}
    Tokens = {a, c}
    Analyzer = a
    Consumer = c
    Analyzers = {a}
    LegacyRuns = {}
    ShortJobs = {}
    MaxFaults = 1
    MaxAttempts = 2
    MaxBatches = 3
    ScopeOf <- MCScopeOf
    RunOf <- MCRunOf
    Sequence <- MCSequence
    Ledger <- MCLedger
    BarrierRun <- MCBarrierRun
    Requires <- MCRequires
    Produces <- MCProduces
    Follows <- MCNone
    Clears <- MCNone
    Order <- MCOrder
PROPERTIES
    RecoveryConverges
CHECK_DEADLOCK FALSE
