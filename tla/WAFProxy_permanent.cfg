\* A permanent ban is replaced by a temporary one, by requests in flight when
\* the administrator imposed it.
SPECIFICATION Spec
CONSTANTS
    i1 = i1
    r1 = r1
    r2 = r2
    r3 = r3
    p1 = p1
    IPs = {i1}
    Requests = {r1, r2, r3}
    Paths = {p1}
    Limits <- OneLimit
    DefaultLimit <- Limit2in2
    MinWindow = 2
    MaxLimit = 2
    MaxTime = 2
    MaxChecks = 3
    MemThreshold = 2
    MemDuration = 1
    MemHistory = 3
    BlacklistConfigs <- OnlyStrict
    RateConfigs <- OnlyRateOff
    AdminDuration = 1
    InitialIPs = {}
    LeftRows = {}
    MaxAdminOps = 1
    MaxFaults = 0
SYMMETRY RequestSymmetry
PROPERTY PermanentBanStays
CHECK_DEADLOCK FALSE
