SPECIFICATION Spec
CONSTANTS
    Requests = {"a", "b"}
    Asks <- AsksOf
    Nobody = Nobody
    Fallible = {"cassandra", "postgresql"}
    MaxOutages = 2
INVARIANTS
    AllOrNoRepos
    QuietServiceConnected
    FalseAlarmNeedsRace
    HealthyIsEarned
PROPERTIES
    EveryRequestAnswered
CHECK_DEADLOCK FALSE
