SPECIFICATION FairSpec
CONSTANTS
    MaxZones = 1
    MaxUnits = 2
    Policies = {"Delete", "Retain"}
    MaxPolicyChanges = 1
    DenySameName = FALSE
    WithClaim = TRUE
    Manual = FALSE
    Lag = {}
    MaxCoreFaults = 0
    MaxProviderFaults = 1

    
PROPERTIES
    UnitKeptForDependents
    LoneZoneProgrammed
    ZoneDeletionCompletes
