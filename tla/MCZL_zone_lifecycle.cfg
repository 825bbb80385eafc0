SPECIFICATION Spec
CONSTANTS
    MaxZones = 2
    MaxUnits = 2
    Policies = {"Delete"}
    MaxPolicyChanges = 0
    DenySameName = TRUE
    WithClaim = TRUE
    Manual = TRUE
    Lag = {"claim"}
    MaxCoreFaults = 1
    MaxProviderFaults = 0
INVARIANTS
    TypeOK
    NoLeakedHostedZone
PROPERTIES
    NoOrphanedUnit
    HostedZoneDeletedForCause
