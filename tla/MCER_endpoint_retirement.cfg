SPECIFICATION Spec
CONSTANTS
    h1 = h1
    h2 = h2
    a1 = a1
    a2 = a2
    n1 = n1
    Hosts = {h1, h2}
    Targets = {a1}
    Addrs = {a1}
    NumZones = 1
    FirstZones <- MCAny
    MaxUids = 1
    MaxEdits = 1
    MaxZoneMoves = 1
    MaxRetired = 1
    MaxFaults = 1
    Lag = FALSE
CHECK_DEADLOCK FALSE
INVARIANTS
    DutyInvariant
PROPERTIES
    ReadyIsProgrammed
