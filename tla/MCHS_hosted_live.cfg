SPECIFICATION FairSpec
CONSTANTS
    k1 = k1
    k2 = k2
    s1 = s1
    s2 = s2
    i1 = i1
    i2 = i2
    Keys = {k1, k2}
    Servers = {s1}
    Items = {i1}
    FreshFor = 0
    MaxUint32 = 6
    MaxTime = 1
    MaxEdits = 0
    MaxFaults = 1
    MaxUnits = 2
    MaxFlips = 0
    Lagging = {k2}
CHECK_DEADLOCK FALSE
INVARIANTS
    SoleContenderServed
PROPERTIES
    
    AcknowledgementGivenUp
