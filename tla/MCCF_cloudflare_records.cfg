SPECIFICATION Spec
CONSTANTS
    Claims = {1}
    TypeOf <- MCTypes
    Contents <- MCTwoContents
    Adopting = TRUE
    Legacy = TRUE
    MaxLags = 1
    MaxRecords = 4
    MaxZones = 2
    MaxUids = 1
    MaxEdits = 1
    MaxFaults = 1
CHECK_DEADLOCK FALSE
INVARIANTS
    ZoneInvariant
    CompletedIsClean
    ProgrammedIsShown
PROPERTIES
    OwnRecordsOnly
