SPECIFICATION FairSpec
CONSTANTS
    h1 = h1
    h2 = h2
    a1 = a1
    a2 = a2
    n1 = n1
    Hosts = {h1}
    Targets = {a1, n1}
    Addrs = {a1}
    NumZones = 1
    FirstZones <- MCWithdrawing
    MaxUids = 1
    MaxEdits = 1
    MaxZoneMoves = 0
    MaxRetired = 1
    MaxFaults = 0
    Lag = TRUE
CHECK_DEADLOCK FALSE
PROPERTIES
    CleanupCompletes
    ImplementsDuty
