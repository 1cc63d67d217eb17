\* Three calls for one client, in any combination and interleaving, with bans for
\* violations at and above the threshold and a Redis failure. The clock outlives a ban made at time 2.
SPECIFICATION Spec
CONSTANTS
    i1 = i1
    c1 = c1
    c2 = c2
    c3 = c3
    IPs = {i1}
    Calls = {c1, c2, c3}
    BanDuration = 2
    AutoThreshold = 2
    AutoDuration = 1
    MaxTime = 4
    MaxCount = 3
    MaxFailures = 1
    MaxRestarts = 2
SYMMETRY CallSymmetry
INVARIANTS TypeOK TemporaryBansFade CopiesAgree
CHECK_DEADLOCK FALSE
