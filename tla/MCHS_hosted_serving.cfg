SPECIFICATION Spec
CONSTANTS
    k1 = k1
    k2 = k2
    s1 = s1
    s2 = s2
    i1 = i1
    i2 = i2
    Keys = {k1}
    Servers = {s1, s2}
    Items = {i1}
    FreshFor = 0
    MaxUint32 = 3
    MaxTime = 1
    MaxEdits = 2
    MaxFaults = 0
    MaxUnits = 1
    MaxFlips = 1
    Lagging = {}
CHECK_DEADLOCK FALSE
INVARIANTS
    AnswerInvariant
    
PROPERTIES
    SerialAdvances
SYMMETRY Interchangeable
