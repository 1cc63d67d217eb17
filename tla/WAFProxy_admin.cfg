\* Bans, unbans, whitelists and settings against requests in flight, with one
\* database failure. The clock outlives both ban durations.
SPECIFICATION Spec
CONSTANTS
    i1 = i1
    r1 = r1
    r2 = r2
    r3 = r3
    p1 = p1
    IPs = {i1}
    Requests = {r1, r2, r3}
    Paths = {p1}
    Limits <- OneLimit
    DefaultLimit <- Limit2in2
    MinWindow = 2
    MaxLimit = 2
    MaxTime = 3
    MaxChecks = 3
    MemThreshold = 2
    MemDuration = 1
    MemHistory = 2
    BlacklistConfigs <- StrictOrLenient
    RateConfigs <- OnlyRateOff
    AdminDuration = 1
    InitialIPs = {}
    LeftRows <- SomeRowsLeft
    MaxAdminOps = 2
    MaxFaults = 1
SYMMETRY RequestSymmetry
INVARIANTS TypeOK OverThresholdIsBanned BanHasCause BanIsBounded HistoryCoversLife MetricsBalance
PROPERTIES OffendersAreStopped ViolationsStay
CHECK_DEADLOCK FALSE
