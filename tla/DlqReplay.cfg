SPECIFICATION FairSpec
CONSTANTS
    s1 = s1
    s2 = s2
    r1 = r1
    r2 = r2
    r3 = r3
    Sessions <- MCSessions
    Records <- MCRecords
    Requested <- MCRequested
    Pending = Pending
INVARIANTS
    ResolvedWasPublished
    AllOrNone
PROPERTIES
    ImplementsDeadLetters
    EveryRequestEnds
CHECK_DEADLOCK FALSE
