SPECIFICATION FairRepoSpec
CONSTANTS
    Threads = {t1, t2}
    Borrowers = {b}
    BadRecords = {t2}
    failure_threshold = 2
    timeout_seconds = 1
    MaxConnections = 1
    RetryWindow = 2
    MaxWait = 2
INVARIANTS
    NoConnectionLeak
    WriteAccounting
PROPERTIES
    UpsertEnds
