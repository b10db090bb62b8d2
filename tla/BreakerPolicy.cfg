SPECIFICATION FairPolicySpec
CONSTANTS
    Threads = {t1, t2, t3}
    failure_threshold = 2
    timeout_seconds = 2
INVARIANTS
    SerialPolicy
    SettledBelowThreshold
PROPERTIES
    Recovers
