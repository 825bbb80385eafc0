SPECIFICATION Spec
CONSTANTS
    Keys = {1}
    Views = {"v1"}
    Configs <- MCMinima
    Ttl = 1
    MaxClaims = 1
    PassBudget = 1
    MaxUids = 2
    MaxFlips = 2
    MaxEvents = 1
INVARIANTS
    StatusInvariant
    VerifiedIsAbsent
    AbsentLongEnough
PROPERTIES
    HistoryKept
    GapBlocksSuccess
