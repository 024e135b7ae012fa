CONSTANTS
    Users = {u1}
    Providers = {p1, p2}
    MaxSize = 1
    MaxHistory = 1
    TTLRateLimits = 2
    TTLUsage = 1
    TTLCosts = 1
    Callers = {"rate", "usage"}
    Models = {m1}
    Series = {1}
    Metrics = {"rpm"}
    Pcts = {50}
    Devices = {}
    DedupWindow = 2
    ApnsSettings = {"off"}
    Keys = {k1}
    Undecryptable = {}
    RateInterval = 1
    UsageInterval = 2
    MaxClock = 1
    MaxRestarts = 0
    k1 = k1
    m1 = m1
    p1 = p1
    p2 = p2
    u1 = u1
SPECIFICATION FairSpec
PROPERTY QueuedRowIsPolled
INVARIANT SnapshotMatchesCaches
