\* Votes, trackers and settings that change.
SPECIFICATION DetectionSpec
CONSTANTS
    i1 = i1
    i2 = i2
    attack = attack
    odd = odd
    IPs = {i1, i2}
    Paths = {attack, odd}
    Suspicious = {attack}
    Traced = {attack}
    BotMinimum = 3
    MaxTime = 2
    MaxRequests = 4
    MaxAdminOps = 2
    Order <- MapOrder
    DefaultStrategies <- DefaultThree
    RateWindow = 2
    RateLimit = 1
    KeepLast = 2
    ScanThreshold = 1
    FloodWindow = 1
    GlobalFlood = 2
    ClientFlood = 1
    BlockTime = 1
    ManyClients = 1
    BaselineWindow = 3
    MinSamples = 3
    Deviation = 4
    Features <- FeaturesOf
    HighEntropy = {odd}
    Contents <- ContentsOf
    UsedSwitches = {"xss"}
SYMMETRY ClientSymmetry
INVARIANTS DetectionTypeOK VerdictFollowsVotes AlarmsMatchHistory FloodersStayOut ZeroDayMatchesHistory SettingsTakeEffect
CHECK_DEADLOCK FALSE
