SPECIFICATION Spec
CONSTANTS
    r1 = r1
    r2 = r2
    r3 = r3
    p1 = p1
    p2 = p2
    Requests <- MCRequests
    Process <- MCProcess
    MaxVersions = 3
INVARIANTS
    AccountedRemoval
    ErasedForGood
    CaughtUp
CHECK_DEADLOCK FALSE
