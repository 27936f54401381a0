SPECIFICATION Spec
CONSTANTS
    r1 = r1
    r2 = r2
    n1 = n1
    n2 = n2
    e1 = e1
    x1 = x1
    nodes = nodes
    NoToken = NoToken
    Runs = {r1, r2}
    Jobs = {n1, n2, e1, x1}
    Barriers = {nodes}
    Tokens = {t1}
    ScopeOf <- MCScopeOf
    LegacyRuns = {r2}
    RunOf <- MCRunOf
    Sequence <- MCSequence
    Ledger <- MCLedger
    BarrierRun <- MCBarrierRun
    Requires <- MCRequires
    Produces <- MCProduces
    MaxAttempts = 2
    MaxBatches = 3
SYMMETRY MCSymmetry
INVARIANTS
    BarrierLedger
    NodesBeforeEdges
    AttemptBudget
    SealedAuditsHold
    DrainedRunsAreComplete
    FailuresAreVisible
    QuarantineFences
PROPERTIES
    NothingIsTakenBack
CHECK_DEADLOCK FALSE
