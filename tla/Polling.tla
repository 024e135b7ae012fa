------------------------------- MODULE Polling -------------------------------
(***************************************************************************)
(* The backend's background work: the two loops of app/tasks/polling.py,   *)
(* which share the provider keys, the caches and the notification service, *)
(* with the API calls that change the keys and the devices under them.     *)
(* Each action runs from one await of a task to its next one, which is     *)
(* what asyncio executes without interruption.                             *)
(***************************************************************************)
EXTENDS ProviderCache, Notifications

CONSTANTS
    Keys,            \* API keys a user may store for a provider
    Undecryptable,   \* stored keys FERNET_KEY does not decrypt
    RateInterval,    \* POLLING_INTERVAL_RATE_LIMITS
    UsageInterval,   \* POLLING_INTERVAL_USAGE_COSTS
    MaxClock,        \* bound on the clock
    MaxRestarts      \* bound on process restarts

Loops == {"rate", "usage"}

ASSUME PollingAssumption ==
    /\ Callers = Loops
    /\ Undecryptable \subseteq Keys
    /\ RateInterval \in Nat \ {0}
    /\ UsageInterval \in Nat \ {0}
    /\ MaxClock \in Nat
    /\ MaxRestarts \in Nat

VARIABLES
    now,       \* the clock
    apiKeys,   \* rows of api_keys: [pair, key]
    loop,      \* where each polling task is suspended, with its locals
    restarts   \* process restarts so far

pollVars == <<now, apiKeys, loop, restarts>>
vars == <<cacheVars, notifyVars, pollVars>>

Rows == [pair : Pairs, key : Keys]
Errors == {"none", "rate", "usage", "costs"}   \* which call's error is kept

(* Where a loop can be: in asyncio.sleep; awaiting a provider call for a   *)
(* record; or in check_and_notify, with the history point to append after. *)
Asleep(t) == [pc |-> "sleep", wake |-> t]
Calling(call, record, queue, t, error) ==
    [pc |-> call, record |-> record, queue |-> queue, startedAt |-> t,
     error |-> error]
Notifying(record, queue, point) ==
    [pc |-> "notify", record |-> record, queue |-> queue, point |-> point]

Interval(l) == IF l = "rate" THEN RateInterval ELSE UsageInterval
FirstCall(l) == IF l = "rate" THEN "limits" ELSE "usage"

(* The loop goes on to its next record, or sleeps when there is none. *)
Continue(l, queue) ==
    \/ /\ queue = {}
       /\ loop' = [loop EXCEPT ![l] = Asleep(now + Interval(l))]
    \/ \E r \in queue :
        loop' = [loop EXCEPT ![l] =
                    Calling(FirstCall(l), r, queue \ {r}, now, "none")]

(* Mutation: the loop does not await its asyncio.sleep. *)
StartCycleUnslept(l) ==
    /\ loop[l].pc = "sleep"
    /\ Continue(l, {r \in apiKeys : r.key \notin Undecryptable})
    /\ UNCHANGED <<cacheVars, notifyVars, now, apiKeys, restarts>>

(***************************************************************************)
(* _poll_all selects the records.  A record whose key cannot be decrypted  *)
(* is logged and left out.  If the database fails, the loop's own handler  *)
(* ends the cycle.                                                         *)
(***************************************************************************)
StartCycle(l) ==
    /\ loop[l].pc = "sleep"
    /\ loop[l].wake <= now
    /\ \/ Continue(l, {r \in apiKeys : r.key \notin Undecryptable})
       \/ Continue(l, {})
    /\ UNCHANGED <<cacheVars, notifyVars, now, apiKeys, restarts>>

(* Mutation: what this poll did not fetch is filled in from the cache.     *)
SnapshotFromCache(l, limits, costs, error) ==
    [key       |-> loop[l].record.key,
     limits    |-> limits \cup UNION {d.limits :
                        d \in Get(rateLimitsCache, loop[l].record.pair)},
     costs     |-> costs,
     error     |-> error,
     fetchedAt |-> loop[l].startedAt]

(* The snapshot _poll_user_provider builds from what this poll fetched:    *)
(* what its loop does not fetch is empty.                                  *)
Snapshot(l, limits, costs, error) ==
    [key       |-> loop[l].record.key,
     limits    |-> limits,
     costs     |-> costs,
     error     |-> error,
     fetchedAt |-> loop[l].startedAt]

(* A history point, by whether it holds a measurement or the default 0.0.  *)
HistoryPoint(l, limits, costs) ==
    [ts |-> loop[l].startedAt, by |-> l, limits |-> limits # {}, costs |-> costs]

(* The end of _poll_user_provider, once check_and_notify has returned.     *)
RecordDone(l, pair, queue, point) ==
    /\ historyStore' = AppendHistoryPoint(historyStore, pair, point)
    /\ Continue(l, queue)

(* The part of _poll_user_provider after the provider calls. *)
Publish(l, limits, costs, error) ==
    LET record   == loop[l].record
        snapshot == Snapshot(l, limits, costs, error)
        point    == HistoryPoint(l, limits, costs)
    IN  /\ snapshotCache' \in
             Put(snapshotCache, record.pair, snapshot, now, TTLRateLimits)
        /\ CheckAndNotify(l, record.pair, snapshot.limits, now)
        /\ IF check'[l] = Idle
           THEN RecordDone(l, record.pair, loop[l].queue, point)
           ELSE /\ loop' = [loop EXCEPT ![l] =
                               Notifying(record, loop[l].queue, point)]
                /\ UNCHANGED historyStore

(* What get_rate_limits returns: any entries, some of one model perhaps,   *)
(* and none when its request has failed.                                   *)
RateLimitReplies ==
    {{[series |-> x[1][1], model |-> x[1][2], metric |-> x[2], pct |-> pcts[x]] :
        x \in DOMAIN pcts} :
     pcts \in UNION {[entries \X Metrics -> Pcts] : entries \in SUBSET (Series \X Models)}}

(* Mutation: the provider's exception escapes and ends the cycle. *)
RateLimitsErrorEscapes ==
    /\ loop["rate"].pc = "limits"
    /\ loop' = [loop EXCEPT !["rate"] = Asleep(now + RateInterval)]
    /\ UNCHANGED <<cacheVars, notifyVars, now, apiKeys, restarts>>

(* The rate-limits loop hears from the provider. *)
RateLimitsReturn ==
    /\ loop["rate"].pc = "limits"
    /\ LET record == loop["rate"].record
       IN  \/ \E limits \in RateLimitReplies :
                /\ rateLimitsCache' \in
                     Put(rateLimitsCache, record.pair,
                         [key |-> record.key, limits |-> limits], now, TTLRateLimits)
                /\ Publish("rate", limits, FALSE, "none")
           \/ /\ UNCHANGED rateLimitsCache
              /\ Publish("rate", {}, FALSE, "rate")
    /\ UNCHANGED <<usageCache, costsCache, now, apiKeys, restarts>>

(* The usage loop hears from get_usage and goes on to get_costs. *)
UsageReturn ==
    /\ loop["usage"].pc = "usage"
    /\ LET record == loop["usage"].record
       IN  \/ /\ usageCache' \in
                   Put(usageCache, record.pair, [key |-> record.key], now, TTLUsage)
              /\ loop' = [loop EXCEPT !["usage"].pc = "costs"]
           \/ /\ UNCHANGED usageCache
              /\ loop' = [loop EXCEPT !["usage"].pc = "costs",
                                      !["usage"].error = "usage"]
    /\ UNCHANGED <<rateLimitsCache, costsCache, snapshotCache, historyStore,
                   notifyVars, now, apiKeys, restarts>>

(* The usage loop hears from get_costs: a cost, None, or an error, which   *)
(* does not replace an earlier one.                                        *)
CostsReturn ==
    /\ loop["usage"].pc = "costs"
    /\ LET record == loop["usage"].record
           error  == loop["usage"].error
       IN  \/ \E costs \in BOOLEAN :
                /\ costsCache' \in
                     Put(costsCache, record.pair,
                         [key |-> record.key, costs |-> costs], now, TTLCosts)
                /\ Publish("usage", {}, costs, error)
           \/ /\ UNCHANGED costsCache
              /\ Publish("usage", {}, FALSE,
                         IF error = "none" THEN "costs" ELSE error)
    /\ UNCHANGED <<rateLimitsCache, usageCache, now, apiKeys, restarts>>

(* check_and_notify resumes: it awaits again, or returns to the poll.      *)
Resumed(l) ==
    /\ IF check'[l] = Idle
       THEN RecordDone(l, loop[l].record.pair, loop[l].queue, loop[l].point)
       ELSE UNCHANGED <<loop, historyStore>>
    /\ UNCHANGED <<rateLimitsCache, usageCache, costsCache, snapshotCache,
                   now, apiKeys, restarts>>

TokensReturn(l) == loop[l].pc = "notify" /\ GetDeviceTokens(l) /\ Resumed(l)
SendReturns(l)  == loop[l].pc = "notify" /\ SendApns(l, now) /\ Resumed(l)
SigningFails(l) == loop[l].pc = "notify" /\ ApnsKeyFails(l) /\ Resumed(l)

LoopStep(l) ==
    \/ l = "rate" /\ RateLimitsReturn
    \/ l = "usage" /\ (UsageReturn \/ CostsReturn)
    \/ TokensReturn(l)
    \/ SendReturns(l)
    \/ SigningFails(l)

-----------------------------------------------------------------------------
(* The API: one row per pair (uq_user_provider); deleting a row does not   *)
(* touch the caches, nor the records a loop already holds.                 *)
AddProvider(pair, key) ==
    /\ \A r \in apiKeys : r.pair # pair
    /\ apiKeys' = apiKeys \cup {[pair |-> pair, key |-> key]}
    /\ UNCHANGED <<cacheVars, notifyVars, now, loop, restarts>>

DeleteProvider(row) ==
    /\ apiKeys' = apiKeys \ {row}
    /\ UNCHANGED <<cacheVars, notifyVars, now, loop, restarts>>

DeviceChange ==
    /\ \E user \in Users, token \in Devices :
            RegisterDevice(user, token) \/ UnregisterDevice(user, token)
    /\ UNCHANGED <<cacheVars, pollVars>>

Tick ==
    /\ now < MaxClock
    /\ now' = now + 1
    /\ CachesExpire(now + 1)
    /\ UNCHANGED <<notifyVars, apiKeys, loop, restarts>>

(* The process ends, in the middle of anything, and starts again: the      *)
(* lifespan handler creates both tasks anew.                               *)
Restart ==
    /\ restarts < MaxRestarts
    /\ restarts' = restarts + 1
    /\ loop' = [l \in Loops |-> Asleep(now)]
    /\ CachesCleared
    /\ NotifyRestart
    /\ UNCHANGED <<now, apiKeys>>

-----------------------------------------------------------------------------
(* The database may hold keys of earlier processes. *)
Init ==
    /\ now = 0
    /\ apiKeys \in {rows \in SUBSET Rows :
                        \A r, s \in rows : r.pair = s.pair => r = s}
    /\ loop = [l \in Loops |-> Asleep(0)]
    /\ restarts = 0
    /\ CacheInit
    /\ NotifyInit

Next ==
    \/ \E l \in Loops : StartCycle(l) \/ LoopStep(l)
    \/ \E pair \in Pairs, key \in Keys \ Undecryptable : AddProvider(pair, key)
    \/ \E row \in apiKeys : DeleteProvider(row)
    \/ DeviceChange
    \/ Tick
    \/ Restart

Spec == Init /\ [][Next]_vars

(* Every provider, database and APNs call ends: httpx gives up after its   *)
(* timeout, and asyncio resumes a task whose awaited call has ended.       *)
Fairness == \A l \in Loops : WF_vars(LoopStep(l))

FairSpec == Spec /\ Fairness
-----------------------------------------------------------------------------
(* Properties *)

Snapshots == [key : Keys, limits : SUBSET Readings, costs : BOOLEAN,
              error : Errors, fetchedAt : Nat]
Points == [ts : Nat, by : Loops, limits : BOOLEAN, costs : BOOLEAN]
Alerts == [pair : Pairs, series : Series, model : Models, metric : Metrics,
           level : {"warning", "critical"}]
DedupKeys == [pair : Pairs, model : Models, metric : Metrics,
              level : {"warning", "critical"}]
SleepStates == [pc : {"sleep"}, wake : Nat]
CallStates == [pc : {"limits", "usage", "costs"}, record : Rows,
               queue : SUBSET Rows, startedAt : Nat, error : Errors]
NotifyStates == [pc : {"notify"}, record : Rows, queue : SUBSET Rows,
                 point : Points]
LoopStates == SleepStates \cup CallStates \cup NotifyStates
Pushes == [key : DedupKeys, series : Series, device : Devices, ts : Nat, at : Nat]
Checks == [phase : {"idle", "devices", "sending"}, ts : Nat,
           alerts : SUBSET Alerts, current : SUBSET Alerts,
           tokens : SUBSET Devices, left : SUBSET Devices]

(* The caches, the loops and the notification state of app/ keep their     *)
(* shapes: no loop is left in a place, or an entry with contents, that the *)
(* code after it does not expect.                                          *)
TypeOK ==
    /\ now \in Nat
    /\ restarts \in Nat
    /\ apiKeys \subseteq Rows
    /\ rateLimitsCache \subseteq Entries([key : Keys, limits : SUBSET Readings])
    /\ usageCache \subseteq Entries([key : Keys])
    /\ costsCache \subseteq Entries([key : Keys, costs : BOOLEAN])
    /\ snapshotCache \subseteq Entries(Snapshots)
    /\ historyStore \in [Pairs -> Seq(Points)]
    /\ loop \in [Loops -> LoopStates]
    /\ apns \in {"off", "unusable key", "ready"}
    /\ devices \subseteq Users \X Devices
    /\ sentAlerts \subseteq [key : DedupKeys, at : Nat]
    /\ check \in [Loops -> Checks]
    /\ pushes \in Seq(Pushes)

SameAlert(p, q) == p.key = q.key /\ p.device = q.device

(* service.py:21: "don't resend the same alert within this many seconds".  *)
(* The code does not keep to it.  The window begins with the check and not *)
(* with the delivery, and a check filters all its alerts before it records *)
(* any, so that it sends those of two entries of one model one after the   *)
(* other.                                                                  *)
NoRepeatWithinWindow ==
    \A i, j \in DOMAIN pushes :
        i < j /\ SameAlert(pushes[i], pushes[j])
            => pushes[i].at + DedupWindow <= pushes[j].at

(* What service.py does keep: a device gets an alert again only when the   *)
(* window is over that began with the check which delivered it before,     *)
(* except from that check, for another entry of the model.  A check reads  *)
(* _sent_alerts before its awaits and writes it after them, so this needs  *)
(* that no other task checks the same pair in between: of the two loops    *)
(* only one ever has readings to raise alerts from.                        *)
RepeatsAreSpaced ==
    \A i, j \in DOMAIN pushes :
        i < j /\ SameAlert(pushes[i], pushes[j])
            => \/ pushes[i].ts + DedupWindow <= pushes[j].at
               \/ /\ pushes[i].ts = pushes[j].ts
                  /\ pushes[i].series # pushes[j].series

(* /summary and /limits, /summary and /costs never contradict each other:  *)
(* the limits or the cost of a snapshot are the cached ones while these    *)
(* are cached, whichever loop wrote last and however often a key was       *)
(* replaced in between.                                                    *)
SnapshotMatchesCaches ==
    \A e \in snapshotCache :
        /\ e.data.limits # {} =>
             \A d \in Get(rateLimitsCache, e.pair) :
                d = [key |-> e.data.key, limits |-> e.data.limits]
        /\ e.data.costs =>
             \A d \in Get(costsCache, e.pair) :
                d = [key |-> e.data.key, costs |-> TRUE]

(* The polls of one loop for one provider start at least its interval      *)
(* apart, so that a provider's API is not called more often than the       *)
(* settings say, and the points of one loop are in order in the history.   *)
HistorySpacing ==
    \A pair \in Pairs : \A i, j \in DOMAIN historyStore[pair] :
        LET p == historyStore[pair][i]
            q == historyStore[pair][j]
        IN  i < j /\ p.by = q.by => p.ts + Interval(p.by) <= q.ts

(* A record a cycle has selected is polled, whatever happens to the ones   *)
(* before it: "при ошибке одного провайдера — логирование, продолжение     *)
(* работы" (docs/backend/architecture.md, section 8).                      *)
Awaiting(l, row) == loop[l].pc # "sleep" /\ row \in loop[l].queue
Polled(l, row) == loop[l].pc # "sleep" /\ loop[l].record = row
QueuedRowIsPolled ==
    \A l \in Loops, row \in Rows : Awaiting(l, row) ~> Polled(l, row)

(* An alert that found registered devices is eventually recorded as sent,  *)
(* and so stops being sent, even if APNs refuses every one of them.        *)
AlertIsRecorded ==
    \A l \in Loops, a \in Alerts :
        (check[l].phase = "sending" /\ a \in check[l].alerts /\ apns = "ready")
            ~> (\E s \in sentAlerts : s.key = DedupKey(a))
==============================================================================
