CONSTANTS
    Users = {u1}
    Providers = {p1}
    MaxSize = 2
    MaxHistory = 1
    TTLRateLimits = 1
    TTLUsage = 1
    TTLCosts = 1
    Callers = {"rate", "usage"}
    Models = {m1}
    Series = {1, 2}
    Metrics = {"rpm"}
    Pcts = {95}
    Devices = {d1}
    DedupWindow = 2
    ApnsSettings = {"unusable key", "ready"}
    Keys = {k1}
    Undecryptable = {}
    RateInterval = 1
    UsageInterval = 2
    MaxClock = 2
    MaxRestarts = 0
    d1 = d1
    k1 = k1
    m1 = m1
    p1 = p1
    u1 = u1
SPECIFICATION FairSpec
INVARIANT TypeOK
INVARIANT RepeatsAreSpaced
PROPERTY AlertIsRecorded
