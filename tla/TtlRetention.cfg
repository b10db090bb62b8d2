SPECIFICATION TtlSpec
CONSTANTS
    Writers = {"a", "b"}
    Keys = {"k1", "k2"}
    Ops <- MCOps
    Null = Null
    NoRow = NoRow
    Horizon = 2
    MaxTries = 2
    MaxLosses = 1
INVARIANTS
    LatestUnlessExpired
PROPERTIES
    SweepComplete
    EveryOperationEnds
CHECK_DEADLOCK FALSE
