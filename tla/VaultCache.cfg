SPECIFICATION Spec
CONSTANTS
    Secrets = {"cdc/cassandra"}
    Roles = {"database/creds/postgresql-writer"}
    Empty = {2}
    Ttls = {1, 3}
    Lease = 2
    MaxTtl = 3
    MaxHour = 4
    MaxVersion = 3
    MaxLeases = 2
INVARIANTS
    LeaseOutlivesCache
    BriefStaleness
    RefreshLasts
CHECK_DEADLOCK FALSE
