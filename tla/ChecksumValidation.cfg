SPECIFICATION Spec
CONSTANTS
    Rows = 3
    Falsy = {2}
    SampleSize = 2
    MaxWrites = 3
    MaxRuns = 2
    MaxLosses = 1
INVARIANTS
    DifferencesReported
    MismatchHasReason
    EveryRunTold
CHECK_DEADLOCK FALSE
