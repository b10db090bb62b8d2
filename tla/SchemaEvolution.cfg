SPECIFICATION Spec
CONSTANTS
    back = back
    full = full
    plain = plain
    Clients <- MCClients
    Ask <- MCAsk
    Schemas <- MCSchemas
    InitialModes = {"FORWARD", "NONE"}
INVARIANTS
    LocalVerdictHolds
    
CHECK_DEADLOCK FALSE
