---------------------------- MODULE ProviderCache ----------------------------
(***************************************************************************)
(* The process-wide store of app/cache.py: four TTL caches and the         *)
(* history ring buffer, all keyed by a <<user, provider>> pair.  A cache   *)
(* is the set of its entries; an entry can be read while the clock is      *)
(* before "until".  Contents are whatever the callers put in: this module  *)
(* only says what storing, expiring and appending do to the store.         *)
(***************************************************************************)
EXTENDS Naturals, Sequences, FiniteSets

CONSTANTS
    Users,          \* user ids
    Providers,      \* provider names
    MaxSize,        \* TTLCache(maxsize = 256)
    MaxHistory,     \* MAX_HISTORY_POINTS
    TTLRateLimits,  \* CACHE_TTL_RATE_LIMITS, also the snapshot's
    TTLUsage,       \* CACHE_TTL_USAGE
    TTLCosts        \* CACHE_TTL_COSTS

ASSUME CacheAssumption ==
    /\ MaxSize \in Nat \ {0}
    /\ MaxHistory \in Nat \ {0}
    /\ TTLRateLimits \in Nat \ {0}
    /\ TTLUsage \in Nat \ {0}
    /\ TTLCosts \in Nat \ {0}

VARIABLES
    rateLimitsCache,  \* entries of _rate_limits_cache
    usageCache,       \* entries of _usage_cache
    costsCache,       \* entries of _costs_cache
    snapshotCache,    \* entries of _snapshot_cache
    historyStore      \* _history_store: pair -> its points, oldest first

cacheVars ==
    <<rateLimitsCache, usageCache, costsCache, snapshotCache, historyStore>>

Pairs == Users \X Providers

Entries(Data) == [pair : Pairs, data : Data, until : Nat]

(* What a getter returns: no element (None) or the one cached value. *)
Get(cache, pair) == {e.data : e \in {x \in cache : x.pair = pair}}

(* Reading or writing a TTLCache first drops what has expired. *)
Unexpired(cache, t) == {e \in cache : t < e.until}

(* Mutation: setdefault, an entry that is there is left as it is.          *)
PutIfAbsent(cache, pair, data, t, ttl) ==
    LET live == Unexpired(cache, t)
        new  == [pair |-> pair, data |-> data, until |-> t + ttl]
    IN  IF \E e \in live : e.pair = pair THEN {live}
        ELSE IF Cardinality(live) < MaxSize THEN {live \cup {new}}
        ELSE {(live \ {victim}) \cup {new} : victim \in live}

(***************************************************************************)
(* cache[key] = data.  An existing entry is replaced; when the cache is    *)
(* full, one other entry goes.  Which one depends on the reads the API     *)
(* served in between (TTLCache drops the least recently used), so any may. *)
(***************************************************************************)
Put(cache, pair, data, t, ttl) ==
    LET others == {e \in Unexpired(cache, t) : e.pair # pair}
        new    == [pair |-> pair, data |-> data, until |-> t + ttl]
    IN  IF Cardinality(others) < MaxSize
        THEN {others \cup {new}}
        ELSE {(others \ {victim}) \cup {new} : victim \in others}

(* deque(maxlen).append: the oldest point makes room for the new one. *)
AppendHistoryPoint(store, pair, point) ==
    [store EXCEPT ![pair] =
        IF Len(@) < MaxHistory THEN Append(@, point) ELSE Append(Tail(@), point)]

CachesCleared ==
    /\ rateLimitsCache' = {}
    /\ usageCache' = {}
    /\ costsCache' = {}
    /\ snapshotCache' = {}
    /\ historyStore' = [pair \in Pairs |-> << >>]

CacheInit ==
    /\ rateLimitsCache = {}
    /\ usageCache = {}
    /\ costsCache = {}
    /\ snapshotCache = {}
    /\ historyStore = [pair \in Pairs |-> << >>]

(* The clock has moved to t: what expired by then can no longer be read. *)
CachesExpire(t) ==
    /\ rateLimitsCache' = Unexpired(rateLimitsCache, t)
    /\ usageCache' = Unexpired(usageCache, t)
    /\ costsCache' = Unexpired(costsCache, t)
    /\ snapshotCache' = Unexpired(snapshotCache, t)
    /\ UNCHANGED historyStore
==============================================================================
