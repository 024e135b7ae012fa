CONSTANTS
    Users = {u1}
    Providers = {p1}
    MaxSize = 1
    MaxHistory = 3
    TTLRateLimits = 1
    TTLUsage = 2
    TTLCosts = 2
    Callers = {"rate", "usage"}
    Models = {m1, m2}
    Series = {1}
    Metrics = {"rpm"}
    Pcts = {50, 95}
    Devices = {}
    DedupWindow = 2
    ApnsSettings = {"off"}
    Keys = {k1, k2, old}
    Undecryptable = {old}
    RateInterval = 1
    UsageInterval = 2
    MaxClock = 3
    MaxRestarts = 1
    k1 = k1
    k2 = k2
    m1 = m1
    m2 = m2
    old = old
    p1 = p1
    u1 = u1
SPECIFICATION Spec
INVARIANT SnapshotMatchesCaches
INVARIANT HistorySpacing
INVARIANT SummaryAgrees
