SPECIFICATION RunsSpec
CONSTANTS
    h1 = h1
    m1 = m1
    m2 = m2
    m3 = m3
    orders = orders
    typo = typo
    NoRow = NoRow
    Runs <- MCRuns
    Table <- MCTable
    Type <- MCType
    Replicated = {orders}
    CassandraCounts <- MCCassandraCounts
    PostgresCounts <- MCPostgresCounts
    MaxOutages = 1
SYMMETRY Alike
INVARIANTS
    HealthyRecord
    FiredIsAccepted
    TriggerAnswersFreshJob
CHECK_DEADLOCK FALSE
