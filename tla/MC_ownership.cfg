SPECIFICATION Spec
CONSTANTS
    Claims = {1, 2}
    Idents <- MCTwoTypes
    IdentsOf <- MCFirstMoves
    Bodies = {b1, b2}
    CNAMECoexists <- MCNoPairs
    ForbiddenPairs <- MCNoPairs
    CreatedAt <- MCCreatedAt
    MaxUID = 2
    MaxGeneration = 2
    MaxPolicyChanges = 0
    Standings = {"allowed", "notAllowed"}
    Forced = FALSE
    Lag = FALSE
    MaxFaults = 0
INVARIANTS
    OwnersExclusive
    ProgrammedIsAttested
    RecordHasOneClaimant
PROPERTIES
    ReleasedClean
    OwnerLosesForCause
SYMMETRY MCSymmetry
