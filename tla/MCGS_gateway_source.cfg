SPECIFICATION FairSpec
CONSTANTS
    r1 = r1
    r2 = r2
    h1 = h1
    h2 = h2
    a1 = a1
    a2 = a2
    c1 = c1
    c2 = c2
    Routes = {r1}
    Hosts = {h1}
    Addrs = {a1}
    Refs = {"gw"}
    Configs = {c1, c2}
    AllowsUnknown = TRUE
    MaxGateways = 1
    MaxUids = 1
    MaxEdits = 1
    Lag = {"routes"}
INVARIANTS
    HeldInvariant
PROPERTIES
    EntersByAcceptance
    ReleasedAfterWithdrawal
    Settles
