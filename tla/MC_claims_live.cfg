SPECIFICATION FairSpec
CONSTANTS
    Claims = {1}
    Idents <- MCOneIdent
    IdentsOf <- MCAnyIdent
    Bodies = {b1}
    CNAMECoexists <- MCNoPairs
    ForbiddenPairs <- MCNoPairs
    CreatedAt <- MCCreatedAt
    MaxUID = 2
    MaxGeneration = 1
    MaxPolicyChanges = 1
    Standings = {"allowed", "notAllowed", "unsupported"}
    Forced = TRUE
    Lag = TRUE
    MaxFaults = 1
INVARIANTS
    TypeOK
    CompletionIsFinal
PROPERTIES
    LoneClaimProgrammed
    LoneDeletionCompletes
