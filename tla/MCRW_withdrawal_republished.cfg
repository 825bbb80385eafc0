SPECIFICATION Spec
CONSTANTS
    Keys = {1}
    Views = {"v1"}
    Configs <- MCOneConfig
    Ttl = 1
    MaxClaims = 1
    PassBudget = 1
    MaxUids = 1
    MaxFlips = 3
    MaxEvents = 0
INVARIANTS
    ContinuousAbsence
