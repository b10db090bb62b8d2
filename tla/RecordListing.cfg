SPECIFICATION ListSpec
CONSTANTS
    Limit = 1
    MaxTotal = 3
    Times = {1, 2, 3, 4}
    Initial = 3
    MaxMoves = 2
INVARIANTS
    WalkComplete
    RepeatedOnlyMoved
CHECK_DEADLOCK FALSE
