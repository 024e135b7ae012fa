----------------------------- MODULE Summary_proofs -----------------------------
(***************************************************************************)
(* Proofs about what the polling loops leave in the caches and the         *)
(* history, and about the answers the API makes of them: for any users,    *)
(* providers, keys, sizes, intervals and times-to-live.                    *)
(***************************************************************************)
EXTENDS Summary, Polling_proofs, FiniteSetTheorems

-----------------------------------------------------------------------------
(* The caches *)

(* What is put is the one entry of its pair, and the other entries were    *)
(* there before.                                                           *)
LEMMA PutEffect ==
    ASSUME NEW cache, NEW pair, NEW data, NEW t, NEW ttl,
           NEW result \in Put(cache, pair, data, t, ttl)
    PROVE  \A e \in result :
              \/ /\ e.pair = pair /\ e.data = data
                 /\ e = [pair |-> pair, data |-> data, until |-> t + ttl]
              \/ e.pair # pair /\ e \in cache
<1> DEFINE others == {e \in Unexpired(cache, t) : e.pair # pair}
           new    == [pair |-> pair, data |-> data, until |-> t + ttl]
<1>1. \A e \in others : e.pair # pair /\ e \in cache
  BY DEF Unexpired
<1>2. new.pair = pair /\ new.data = data
  OBVIOUS
<1>3. result \subseteq others \cup {new}
  BY DEF Put
<1>4. ASSUME NEW e \in result, e = new PROVE e.pair = pair /\ e.data = data
  BY <1>2, <1>4
<1> HIDE DEF others
<1> QED
  BY <1>1, <1>3, <1>4

(* The two halves of SnapshotMatchesCaches, for one snapshot entry. *)
LimitsAreCached(e, cache) ==
    e.data.limits # {} =>
        \A d \in Get(cache, e.pair) : d = [key |-> e.data.key, limits |-> e.data.limits]
CostsAreCached(e, cache) ==
    e.data.costs =>
        \A d \in Get(cache, e.pair) : d = [key |-> e.data.key, costs |-> TRUE]

(* The snapshot of a poll is stored together with what the poll fetched,   *)
(* and shows nothing that the poll did not fetch.                          *)
LEMMA PublishedSnapshot ==
    ASSUME SnapshotMatchesCaches, NEW l \in Loops, NEW limits, NEW costs \in BOOLEAN,
           NEW error, Publish(l, limits, costs, error),
           \/ UNCHANGED rateLimitsCache /\ limits = {}
           \/ rateLimitsCache' \in
                  Put(rateLimitsCache, loop[l].record.pair,
                      [key |-> loop[l].record.key, limits |-> limits], now, TTLRateLimits),
           \/ UNCHANGED costsCache /\ costs = FALSE
           \/ costsCache' \in
                  Put(costsCache, loop[l].record.pair,
                      [key |-> loop[l].record.key, costs |-> costs], now, TTLCosts)
    PROVE  SnapshotMatchesCaches'
<1> DEFINE pair     == loop[l].record.pair
           key      == loop[l].record.key
           snapshot == Snapshot(l, limits, costs, error)
<1>1. snapshot.key = key /\ snapshot.limits = limits /\ snapshot.costs = costs
  BY DEF Snapshot
<1>2. \A e \in snapshotCache' : \/ e.pair = pair /\ e.data = snapshot
                                \/ e.pair # pair /\ e \in snapshotCache
  BY PutEffect DEF Publish
<1>3. \/ rateLimitsCache' = rateLimitsCache /\ limits = {}
      \/ \A x \in rateLimitsCache' :
            \/ x.pair = pair /\ x.data = [key |-> key, limits |-> limits]
            \/ x.pair # pair /\ x \in rateLimitsCache
  BY PutEffect
<1>4. \/ costsCache' = costsCache /\ costs = FALSE
      \/ \A x \in costsCache' :
            \/ x.pair = pair /\ x.data = [key |-> key, costs |-> costs]
            \/ x.pair # pair /\ x \in costsCache
  BY PutEffect
<1> HIDE DEF snapshot, pair, key
<1>5. ASSUME NEW e \in snapshotCache'
      PROVE  LimitsAreCached(e, rateLimitsCache')
  <2>1. CASE e.pair = pair /\ e.data = snapshot
    BY <1>1, <1>3, <2>1 DEF LimitsAreCached, Get
  <2>2. CASE e.pair # pair /\ e \in snapshotCache
    <3>1. LimitsAreCached(e, rateLimitsCache)
      BY <2>2 DEF SnapshotMatchesCaches, LimitsAreCached
    <3>2. Get(rateLimitsCache', e.pair) \subseteq Get(rateLimitsCache, e.pair)
      BY <1>3, <2>2 DEF Get
    <3> QED
      BY <3>1, <3>2 DEF LimitsAreCached
  <2> QED
    BY <1>2, <1>5, <2>1, <2>2
<1>6. ASSUME NEW e \in snapshotCache'
      PROVE  CostsAreCached(e, costsCache')
  <2>1. CASE e.pair = pair /\ e.data = snapshot
    BY <1>1, <1>4, <2>1 DEF CostsAreCached, Get
  <2>2. CASE e.pair # pair /\ e \in snapshotCache
    <3>1. CostsAreCached(e, costsCache)
      BY <2>2 DEF SnapshotMatchesCaches, CostsAreCached
    <3>2. Get(costsCache', e.pair) \subseteq Get(costsCache, e.pair)
      BY <1>4, <2>2 DEF Get
    <3> QED
      BY <3>1, <3>2 DEF CostsAreCached
  <2> QED
    BY <1>2, <1>6, <2>1, <2>2
<1> QED
  BY <1>5, <1>6 DEF SnapshotMatchesCaches, LimitsAreCached, CostsAreCached

(* Entries only go. *)
LEMMA CachesShrink ==
    ASSUME SnapshotMatchesCaches,
           snapshotCache' \subseteq snapshotCache,
           rateLimitsCache' \subseteq rateLimitsCache,
           costsCache' \subseteq costsCache
    PROVE  SnapshotMatchesCaches'
<1>1. \A pair : /\ Get(rateLimitsCache', pair) \subseteq Get(rateLimitsCache, pair)
                /\ Get(costsCache', pair) \subseteq Get(costsCache, pair)
  BY DEF Get
<1> QED
  BY <1>1 DEF SnapshotMatchesCaches

LEMMA NextKeepsSnapshots ==
    SnapshotMatchesCaches /\ [Next]_vars => SnapshotMatchesCaches'
<1> SUFFICES ASSUME SnapshotMatchesCaches, [Next]_vars PROVE SnapshotMatchesCaches'
  OBVIOUS
<1>1. CASE UNCHANGED <<rateLimitsCache, costsCache, snapshotCache>>
  BY <1>1, CachesShrink
<1>2. CASE RateLimitsReturn
  <2>1. UNCHANGED costsCache /\ "rate" \in Loops
    BY <1>2 DEF RateLimitsReturn, Loops
  <2>2. ASSUME NEW limits \in RateLimitReplies,
               rateLimitsCache' \in
                   Put(rateLimitsCache, loop["rate"].record.pair,
                       [key |-> loop["rate"].record.key, limits |-> limits],
                       now, TTLRateLimits),
               Publish("rate", limits, FALSE, "none")
        PROVE  SnapshotMatchesCaches'
    BY <2>1, <2>2, PublishedSnapshot
  <2>3. CASE UNCHANGED rateLimitsCache /\ Publish("rate", {}, FALSE, "rate")
    BY <2>1, <2>3, PublishedSnapshot
  <2> QED
    BY <1>2, <2>2, <2>3 DEF RateLimitsReturn
<1>3. CASE CostsReturn
  <2>1. UNCHANGED rateLimitsCache /\ "usage" \in Loops
    BY <1>3 DEF CostsReturn, Loops
  <2>2. ASSUME NEW costs \in BOOLEAN,
               costsCache' \in
                   Put(costsCache, loop["usage"].record.pair,
                       [key |-> loop["usage"].record.key, costs |-> costs],
                       now, TTLCosts),
               Publish("usage", {}, costs, loop["usage"].error)
        PROVE  SnapshotMatchesCaches'
    BY <2>1, <2>2, PublishedSnapshot
  <2>3. ASSUME NEW error, UNCHANGED costsCache, Publish("usage", {}, FALSE, error)
        PROVE  SnapshotMatchesCaches'
    BY <2>1, <2>3, PublishedSnapshot
  <2> QED
    BY <1>3, <2>2, <2>3 DEF CostsReturn
<1>4. CASE Tick
  BY <1>4, CachesShrink DEF Tick, CachesExpire, Unexpired
<1>5. CASE Restart
  BY <1>5, CachesShrink DEF Restart, CachesCleared
<1> QED
  BY <1>1, <1>2, <1>3, <1>4, <1>5
     DEF Next, LoopStep, StartCycle, UsageReturn, TokensReturn, SendReturns,
         SigningFails, Resumed, AddProvider, DeleteProvider, DeviceChange, vars,
         cacheVars

(* /summary and /limits, /summary and /costs never contradict each other,  *)
(* whichever loop wrote last, whatever was evicted or expired, and however *)
(* often a key was replaced under the loops (cache.py, polling.py).        *)
THEOREM SnapshotsMatch == Spec => []SnapshotMatchesCaches
<1>1. Init => SnapshotMatchesCaches
  BY DEF Init, CacheInit, SnapshotMatchesCaches
<1> QED
  BY <1>1, NextKeepsSnapshots, PTL DEF Spec

-----------------------------------------------------------------------------
(* The history: why the points of one loop are its interval apart *)

(* uq_user_provider: a pair has one row. *)
RowsUnique == \A r, s \in apiKeys : r.pair = s.pair => r = s

(* When the poll that loop l is in the middle of has started. *)
Started(l) == IF loop[l].pc = "notify" THEN loop[l].point.ts ELSE loop[l].startedAt

(* A cycle polls a pair once. *)
PollsOnce(l) ==
    loop[l].pc # "sleep" =>
        /\ \A r \in loop[l].queue : r.pair # loop[l].record.pair
        /\ \A r, s \in loop[l].queue : r.pair = s.pair => r = s

(* A poll under way has started, and its point says by whom. *)
HasStarted(l) ==
    loop[l].pc # "sleep" =>
        /\ Started(l) <= now
        /\ loop[l].pc = "notify" => loop[l].point.by = l

Measured(store, pair) == {store[pair][i] : i \in DOMAIN store[pair]}

(* The last poll of a pair lies the interval before the loop's next one:   *)
(* before the end of its sleep, or before the poll under way, or, for a    *)
(* pair that waits in the queue, before now.                               *)
LastPollIsPast(l) ==
    \A pair \in Pairs : \A p \in Measured(historyStore, pair) :
        p.by = l =>
            /\ loop[l].pc = "sleep" => p.ts + Interval(l) <= loop[l].wake
            /\ loop[l].pc # "sleep" /\ pair = loop[l].record.pair
                 => p.ts + Interval(l) <= Started(l)
            /\ loop[l].pc # "sleep" /\ (\E r \in loop[l].queue : r.pair = pair)
                 => p.ts + Interval(l) <= now

(* No point is of the future. *)
PointsArePast ==
    \A pair \in Pairs : \A p \in Measured(historyStore, pair) : p.ts <= now

LoopInv(l) == PollsOnce(l) /\ HasStarted(l) /\ LastPollIsPast(l)

HistoryInv ==
    /\ RowsUnique
    /\ PointsArePast
    /\ HistorySpacing
    /\ \A l \in Loops : LoopInv(l)

HInv == IInv /\ HistoryInv

LEMMA MeasuredType ==
    ASSUME NEW store \in [Pairs -> Seq(Points)], NEW pair \in Pairs,
           NEW p \in Measured(store, pair)
    PROVE  p \in Points /\ p.ts \in Nat
<1>1. store[pair] \in Seq(Points)
  OBVIOUS
<1>2. p \in Points
  BY <1>1, LenProperties, ElementOfSeq DEF Measured
<1> QED
  BY <1>2 DEF Points

LEMMA IntervalType == \A l \in Loops : Interval(l) \in Nat
BY PollingAssumption DEF PollingAssumption, Interval

(* The ring buffer of n points: the new point is the last one, and the     *)
(* others are the old ones in their order, all of them or all but k.       *)
Pushed(old, new, point, n, k) ==
    /\ DOMAIN new = 1 .. n
    /\ new[n] = point
    /\ \A i \in 1 .. n : i < n => i + k \in DOMAIN old /\ new[i] = old[i + k]

LEMMA AppendedHistory ==
    ASSUME NEW store \in [Pairs -> Seq(Points)], NEW pair \in Pairs,
           NEW point \in Points, NEW new,
           new = AppendHistoryPoint(store, pair, point)
    PROVE  /\ \A q \in Pairs \ {pair} : new[q] = store[q]
           /\ \E n \in Nat \ {0}, k \in {0, 1} : Pushed(store[pair], new[pair], point, n, k)
<1> DEFINE h == store[pair]
<1>1. h \in Seq(Points) /\ Len(h) \in Nat /\ DOMAIN h = 1 .. Len(h)
  BY LenProperties
<1>2. \A q \in Pairs \ {pair} : new[q] = store[q]
  BY DEF AppendHistoryPoint
<1>3. CASE Len(h) < MaxHistory
  <2>1. new[pair] = Append(h, point)
    BY <1>3 DEF AppendHistoryPoint
  <2>2. /\ DOMAIN new[pair] = 1 .. Len(h) + 1
        /\ new[pair][Len(h) + 1] = point
        /\ \A i \in 1 .. Len(h) : new[pair][i] = h[i]
    BY <1>1, <2>1, AppendProperties, LenProperties
  <2> HIDE DEF h
  <2>3. /\ Len(h) + 1 \in Nat \ {0}
        /\ \A i \in 1 .. Len(h) + 1 : i < Len(h) + 1 =>
                i + 0 \in DOMAIN h /\ new[pair][i] = h[i + 0]
    BY <1>1, <2>2
  <2> QED
    BY <1>2, <2>2, <2>3 DEF h, Pushed
<1>4. CASE ~(Len(h) < MaxHistory)
  <2>1. new[pair] = Append(Tail(h), point)
    BY <1>4 DEF AppendHistoryPoint
  <2>2. Len(h) > 0 /\ h # << >>
    BY <1>1, <1>4, CacheAssumption, EmptySeq DEF CacheAssumption
  <2>3. /\ Tail(h) \in Seq(Points)
        /\ Len(Tail(h)) = Len(h) - 1
        /\ \A i \in 1 .. Len(h) - 1 : Tail(h)[i] = h[i + 1]
    BY <1>1, <2>2, HeadTailProperties
  <2>4. /\ DOMAIN new[pair] = 1 .. Len(h)
        /\ new[pair][Len(h)] = point
        /\ \A i \in 1 .. Len(h) - 1 : new[pair][i] = Tail(h)[i]
    <3> DEFINE t == Tail(h)
    <3>1. /\ Len(Append(t, point)) = Len(t) + 1
          /\ Append(t, point)[Len(t) + 1] = point
          /\ \A i \in 1 .. Len(t) : Append(t, point)[i] = t[i]
          /\ Append(t, point) \in Seq(Points)
      BY <2>3, AppendProperties
    <3>2. DOMAIN Append(t, point) = 1 .. Len(t) + 1
      BY <3>1, LenProperties
    <3> HIDE DEF h
    <3>3. Len(t) + 1 = Len(h)
      BY <1>1, <2>3
    <3> QED
      BY <2>1, <2>3, <3>1, <3>2, <3>3
  <2> HIDE DEF h
  <2>5. /\ Len(h) \in Nat \ {0}
        /\ \A i \in 1 .. Len(h) : i < Len(h) =>
                i + 1 \in DOMAIN h /\ new[pair][i] = h[i + 1]
    BY <1>1, <2>2, <2>3, <2>4
  <2> QED
    BY <1>2, <2>4, <2>5 DEF h, Pushed
<1> QED
  BY <1>3, <1>4

(* A loop that goes on to a pair of its queue has last polled it before    *)
(* its interval, and one that goes to sleep wakes after it.                *)
LEMMA LoopGoesOn ==
    ASSUME PollTypeOK, CacheTypeOK', PointsArePast', UNCHANGED now,
           NEW l \in Loops, NEW queue \in SUBSET Rows, Continue(l, queue),
           \A r, s \in queue : r.pair = s.pair => r = s,
           \A r \in queue : \A p \in Measured(historyStore', r.pair) :
               p.by = l => p.ts + Interval(l) <= now
    PROVE  LoopInv(l)'
<1>1. now \in Nat /\ Interval(l) \in Nat
  BY IntervalType DEF PollTypeOK
<1>2. \A pair \in Pairs : \A p \in Measured(historyStore', pair) :
          p.ts \in Nat /\ p.ts <= now
  BY MeasuredType DEF PointsArePast, CacheTypeOK
<1>3. CASE loop' = [loop EXCEPT ![l] = Asleep(now + Interval(l))]
  <2>1. loop'[l].pc = "sleep" /\ loop'[l].wake = now + Interval(l)
    BY <1>3 DEF Asleep, PollTypeOK
  <2> QED
    BY <1>1, <1>2, <2>1 DEF LoopInv, PollsOnce, HasStarted, LastPollIsPast
<1>4. ASSUME NEW r \in queue,
             loop' = [loop EXCEPT ![l] =
                         Calling(FirstCall(l), r, queue \ {r}, now, "none")]
      PROVE  LoopInv(l)'
  <2>1. /\ loop'[l].pc \in {"limits", "usage"}
        /\ loop'[l].record = r
        /\ loop'[l].queue = queue \ {r}
        /\ loop'[l].startedAt = now
    BY <1>4 DEF Calling, FirstCall, PollTypeOK
  <2>2. Started(l)' = now
    BY <2>1 DEF Started
  <2>3. PollsOnce(l)' /\ HasStarted(l)'
    BY <1>1, <2>1, <2>2 DEF PollsOnce, HasStarted
  <2>4. LastPollIsPast(l)'
    BY <1>1, <1>2, <2>1, <2>2 DEF LastPollIsPast
  <2> QED
    BY <2>3, <2>4 DEF LoopInv
<1> QED
  BY <1>3, <1>4 DEF Continue

(* What the other loop does to the history is none of this one's points.   *)
LEMMA OtherLoop ==
    ASSUME PollTypeOK, CacheTypeOK, NEW m \in Loops, LoopInv(m),
           loop'[m] = loop[m], now' \in Nat, now <= now',
           \A pair \in Pairs : \A p \in Measured(historyStore', pair) :
               p.by = m => p \in Measured(historyStore, pair)
    PROVE  LoopInv(m)'
<1>1. Started(m)' = Started(m)
  BY DEF Started
<1>2. now \in Nat /\ Interval(m) \in Nat
  BY IntervalType DEF PollTypeOK
<1>3. loop[m].pc # "sleep" => Started(m) \in Nat
  <2>1. CASE loop[m].pc = "notify"
    BY <2>1, NotifyFields DEF Started, Points
  <2>2. CASE loop[m].pc \in {"limits", "usage", "costs"}
    BY <2>2, CallFields DEF Started
  <2> QED
    BY <2>1, <2>2 DEF PollTypeOK, LoopStates, SleepStates, CallStates, NotifyStates
<1>4. PollsOnce(m)'
  BY DEF LoopInv, PollsOnce
<1>5. HasStarted(m)'
  BY <1>1, <1>2, <1>3 DEF LoopInv, HasStarted
<1>6. LastPollIsPast(m)'
  <2> SUFFICES ASSUME NEW pair \in Pairs, NEW p \in Measured(historyStore', pair),
                      p.by = m
               PROVE  /\ loop[m].pc = "sleep" => p.ts + Interval(m) <= loop[m].wake
                      /\ loop[m].pc # "sleep" /\ pair = loop[m].record.pair
                           => p.ts + Interval(m) <= Started(m)
                      /\ loop[m].pc # "sleep" /\ (\E r \in loop[m].queue : r.pair = pair)
                           => p.ts + Interval(m) <= now'
    BY <1>1 DEF LastPollIsPast
  <2>1. p \in Measured(historyStore, pair) /\ p.ts \in Nat
    BY MeasuredType DEF CacheTypeOK
  <2> QED
    BY <1>2, <2>1 DEF LoopInv, LastPollIsPast
<1> QED
  BY <1>4, <1>5, <1>6 DEF LoopInv

LEMMA PollDone ==
    ASSUME HInv, CacheTypeOK', NEW l \in Loops, loop[l].pc # "sleep",
           NEW point \in Points, point.by = l, point.ts = Started(l),
           UNCHANGED <<now, apiKeys>>,
           RecordDone(l, loop[l].record.pair, loop[l].queue, point)
    PROVE  HistoryInv'
<1> DEFINE pair  == loop[l].record.pair
           queue == loop[l].queue
           old   == historyStore[pair]
           new   == historyStore'[pair]
<1>1. /\ CacheTypeOK /\ PollTypeOK
      /\ RowsUnique /\ PointsArePast /\ HistorySpacing
      /\ \A m \in Loops : LoopInv(m)
  BY TypeParts DEF HInv, IInv, StateInv, HistoryInv
<1>2. pair \in Pairs /\ queue \in SUBSET Rows
  <2>1. loop[l].pc \in {"limits", "usage", "costs", "notify"}
    BY <1>1 DEF PollTypeOK, LoopStates, SleepStates, CallStates, NotifyStates
  <2> QED
    BY <1>1, <2>1, CallFields, NotifyFields
<1>3. /\ historyStore \in [Pairs -> Seq(Points)]
      /\ historyStore' = AppendHistoryPoint(historyStore, pair, point)
      /\ Continue(l, queue)
  BY <1>1 DEF CacheTypeOK, RecordDone
<1>4. PICK n \in Nat \ {0}, k \in {0, 1} : Pushed(old, new, point, n, k)
  <2> HIDE DEF pair
  <2> QED
    BY <1>2, <1>3, AppendedHistory
<1>5. \A q \in Pairs \ {pair} : historyStore'[q] = historyStore[q]
  <2> HIDE DEF pair
  <2> QED
    BY <1>2, <1>3, AppendedHistory
<1> HIDE DEF pair, queue, old, new
<1>6. \A q \in Pairs : \A p \in Measured(historyStore', q) :
          \/ p \in Measured(historyStore, q)
          \/ p = point /\ q = pair
  <2> SUFFICES ASSUME NEW q \in Pairs, NEW p \in Measured(historyStore', q),
                      ~(p = point /\ q = pair)
               PROVE  p \in Measured(historyStore, q)
    OBVIOUS
  <2>1. CASE q # pair
    BY <1>5, <2>1 DEF Measured
  <2>2. CASE q = pair
    <3>1. PICK i \in 1 .. n : p = new[i]
      BY <1>4, <2>2 DEF Measured, new, Pushed
    <3>2. i < n
      BY <1>4, <2>2, <3>1 DEF Pushed
    <3> QED
      BY <1>4, <2>2, <3>1, <3>2 DEF Measured, old, Pushed
  <2> QED
    BY <2>1, <2>2
<1>7. point.ts \in Nat /\ point.ts <= now
  BY <1>1 DEF Points, LoopInv, HasStarted
<1>8. PointsArePast'
  BY <1>1, <1>6, <1>7 DEF PointsArePast
<1>9. ASSUME NEW p \in Measured(historyStore, pair), p.by = l
      PROVE  p.ts + Interval(l) <= point.ts
  BY <1>1, <1>2, <1>9 DEF LoopInv, LastPollIsPast, pair
<1>10. HistorySpacing'
  <2> SUFFICES ASSUME NEW q \in Pairs,
                      NEW i \in DOMAIN historyStore'[q], NEW j \in DOMAIN historyStore'[q],
                      i < j, historyStore'[q][i].by = historyStore'[q][j].by
               PROVE  historyStore'[q][i].ts + Interval(historyStore'[q][i].by)
                          <= historyStore'[q][j].ts
    BY DEF HistorySpacing
  <2>1. CASE q # pair
    BY <1>1, <1>5, <2>1 DEF HistorySpacing
  <2>2. CASE q = pair
    <3>1. i \in 1 .. n /\ j \in 1 .. n /\ i < n
      BY <1>4, <2>2 DEF new, Pushed
    <3>2. i + k \in DOMAIN old /\ new[i] = old[i + k]
      BY <1>4, <3>1 DEF Pushed
    <3>3. CASE j < n
      <4>1. j + k \in DOMAIN old /\ new[j] = old[j + k] /\ i + k < j + k
        BY <1>4, <3>1, <3>3 DEF Pushed
      <4> QED
        BY <1>1, <1>2, <2>2, <3>2, <4>1 DEF HistorySpacing, old, new
    <3>4. CASE j = n
      <4>1. new[i] \in Measured(historyStore, pair)
        BY <3>2 DEF Measured, old
      <4>2. new[j] = point /\ new[i].by = l
        BY <1>4, <2>2, <3>4 DEF new, Pushed
      <4> QED
        BY <1>9, <2>2, <4>1, <4>2 DEF new
    <3> QED
      BY <3>1, <3>3, <3>4
  <2> QED
    BY <2>1, <2>2
<1>11. LoopInv(l)'
  <2>1. ASSUME NEW r \in queue, NEW p \in Measured(historyStore', r.pair), p.by = l
        PROVE  p.ts + Interval(l) <= now
    <3>1. r.pair # pair /\ r.pair \in Pairs
      BY <1>1, <1>2 DEF LoopInv, PollsOnce, pair, queue, Rows
    <3> QED
      BY <1>1, <1>6, <2>1, <3>1 DEF LoopInv, LastPollIsPast, queue
  <2>2. \A r, s \in queue : r.pair = s.pair => r = s
    BY <1>1 DEF LoopInv, PollsOnce, queue
  <2> QED
    BY <1>1, <1>2, <1>3, <1>8, <2>1, <2>2, LoopGoesOn
<1>12. ASSUME NEW m \in Loops \ {l} PROVE LoopInv(m)'
  <2>1. loop'[m] = loop[m]
    BY <1>1, <1>2, <1>3, ContinueType
  <2>2. now' \in Nat /\ now <= now'
    BY <1>1 DEF PollTypeOK
  <2> QED
    BY <1>1, <1>6, <2>1, <2>2, OtherLoop
<1> QED
  BY <1>1, <1>8, <1>10, <1>11, <1>12 DEF HistoryInv, RowsUnique

LEMMA HInvParts ==
    HInv => /\ CacheTypeOK /\ PollTypeOK
            /\ RowsUnique /\ PointsArePast /\ HistorySpacing
            /\ \A m \in Loops : LoopInv(m)
BY TypeParts DEF HInv, IInv, StateInv, HistoryInv

(* Steps that append no point. *)
LEMMA NoNewPoint ==
    ASSUME HInv, UNCHANGED historyStore, RowsUnique', now' \in Nat, now <= now',
           \A m \in Loops : loop'[m] = loop[m] \/ LoopInv(m)'
    PROVE  HistoryInv'
<1>1. CacheTypeOK /\ PollTypeOK /\ PointsArePast /\ HistorySpacing
  BY HInvParts
<1>2. PointsArePast'
  <2> SUFFICES ASSUME NEW pair \in Pairs, NEW p \in Measured(historyStore, pair)
               PROVE  p.ts <= now'
    BY DEF PointsArePast
  <2>1. p.ts \in Nat /\ p.ts <= now /\ now \in Nat
    BY <1>1, MeasuredType DEF CacheTypeOK, PollTypeOK, PointsArePast
  <2> QED
    BY <2>1
<1>3. HistorySpacing'
  BY <1>1 DEF HistorySpacing
<1>4. ASSUME NEW m \in Loops, loop'[m] = loop[m] PROVE LoopInv(m)'
  BY <1>1, <1>4, HInvParts, OtherLoop
<1> QED
  BY <1>2, <1>3, <1>4 DEF HistoryInv

LEMMA CycleKeepsHistory ==
    ASSUME HInv, CacheTypeOK', NEW l \in Loops, StartCycle(l)
    PROVE  HistoryInv'
<1> DEFINE due == {r \in apiKeys : r.key \notin Undecryptable}
<1>1. /\ CacheTypeOK /\ PollTypeOK /\ RowsUnique /\ PointsArePast
      /\ LoopInv(l)
  BY HInvParts
<1>2. /\ loop[l].pc = "sleep" /\ loop[l].wake <= now
      /\ UNCHANGED <<historyStore, now, apiKeys>>
      /\ Continue(l, due) \/ Continue(l, {})
  BY DEF StartCycle, cacheVars
<1>3. loop[l].wake \in Nat /\ now \in Nat /\ Interval(l) \in Nat
  BY <1>1, <1>2, IntervalType DEF PollTypeOK, LoopStates, SleepStates, CallStates, NotifyStates
<1>4. ASSUME NEW pair \in Pairs, NEW p \in Measured(historyStore, pair), p.by = l
      PROVE  p.ts + Interval(l) <= now
  <2>1. p.ts \in Nat /\ p.ts + Interval(l) <= loop[l].wake
    BY <1>1, <1>2, <1>4, MeasuredType DEF CacheTypeOK, LoopInv, LastPollIsPast
  <2> QED
    BY <1>2, <1>3, <2>1
<1>5. PointsArePast'
  BY <1>1, <1>2 DEF PointsArePast
<1>6. ASSUME NEW queue \in SUBSET apiKeys, Continue(l, queue)
      PROVE  HistoryInv'
  <2>1. queue \in SUBSET Rows /\ \A r, s \in queue : r.pair = s.pair => r = s
    BY <1>1, <1>6 DEF PollTypeOK, RowsUnique
  <2>2. \A r \in queue : \A p \in Measured(historyStore', r.pair) :
            p.by = l => p.ts + Interval(l) <= now
    BY <1>2, <1>4, <2>1 DEF Rows
  <2>3. LoopInv(l)'
    BY <1>1, <1>2, <1>5, <1>6, <2>1, <2>2, LoopGoesOn
  <2>4. \A m \in Loops \ {l} : loop'[m] = loop[m]
    BY <1>1, <1>6, <2>1, ContinueType
  <2>5. RowsUnique'
    BY <1>1, <1>2 DEF RowsUnique
  <2> QED
    BY <1>2, <1>3, <2>3, <2>4, <2>5, NoNewPoint
<1>7. due \in SUBSET apiKeys /\ {} \in SUBSET apiKeys
  OBVIOUS
<1> QED
  BY <1>2, <1>6, <1>7

(* The poll comes to its check. *)
LEMMA PublishKeepsHistory ==
    ASSUME HInv, CacheTypeOK', NEW l \in Loops, loop[l].pc \in {"limits", "costs"},
           NEW limits, NEW costs \in BOOLEAN, NEW error,
           Publish(l, limits, costs, error), UNCHANGED <<now, apiKeys>>
    PROVE  HistoryInv'
<1> DEFINE point == HistoryPoint(l, limits, costs)
           next  == Notifying(loop[l].record, loop[l].queue, point)
<1>1. CacheTypeOK /\ PollTypeOK /\ RowsUnique /\ LoopInv(l)
  BY HInvParts
<1>2. loop[l].startedAt \in Nat
  BY <1>1, CallFields
<1>3. point \in Points /\ point.by = l /\ point.ts = loop[l].startedAt
  BY <1>2 DEF HistoryPoint, Points
<1>4. Started(l) = loop[l].startedAt
  BY DEF Started
<1>5. \/ RecordDone(l, loop[l].record.pair, loop[l].queue, point)
      \/ loop' = [loop EXCEPT ![l] = next] /\ UNCHANGED historyStore
  BY DEF Publish
<1> HIDE DEF point
<1>6. CASE RecordDone(l, loop[l].record.pair, loop[l].queue, point)
  BY <1>3, <1>4, <1>6, PollDone
<1>7. CASE loop' = [loop EXCEPT ![l] = next] /\ UNCHANGED historyStore
  <2>1. /\ loop'[l].pc = "notify"
        /\ loop'[l].record = loop[l].record
        /\ loop'[l].queue = loop[l].queue
        /\ loop'[l].point = point
    BY <1>1, <1>7 DEF PollTypeOK, Notifying
  <2>2. Started(l)' = Started(l)
    BY <1>3, <1>4, <2>1 DEF Started
  <2>3. PollsOnce(l)' /\ HasStarted(l)'
    BY <1>1, <1>3, <2>1, <2>2 DEF LoopInv, PollsOnce, HasStarted
  <2>4. LastPollIsPast(l)'
    BY <1>1, <1>7, <2>1, <2>2 DEF LoopInv, LastPollIsPast
  <2>5. \A m \in Loops \ {l} : loop'[m] = loop[m]
    BY <1>1, <1>7 DEF PollTypeOK
  <2>6. RowsUnique' /\ now \in Nat
    BY <1>1 DEF RowsUnique, PollTypeOK
  <2> QED
    BY <1>7, <2>3, <2>4, <2>5, <2>6, NoNewPoint DEF LoopInv
<1> QED
  BY <1>5, <1>6, <1>7

LEMMA UsageKeepsHistory ==
    ASSUME HInv, UsageReturn
    PROVE  HistoryInv'
<1>1. PollTypeOK /\ RowsUnique /\ LoopInv("usage") /\ "usage" \in Loops
  BY HInvParts DEF Loops
<1>2. /\ loop["usage"].pc = "usage"
      /\ UNCHANGED <<historyStore, now, apiKeys>>
  BY DEF UsageReturn
<1>3. loop["usage"] \in CallStates
  BY <1>1, <1>2, CallFields
<1>4. /\ loop'["usage"].pc = "costs"
      /\ loop'["usage"].record = loop["usage"].record
      /\ loop'["usage"].queue = loop["usage"].queue
      /\ loop'["usage"].startedAt = loop["usage"].startedAt
      /\ \A m \in Loops \ {"usage"} : loop'[m] = loop[m]
  <2>1. \/ loop' = [loop EXCEPT !["usage"].pc = "costs"]
        \/ loop' = [loop EXCEPT !["usage"].pc = "costs", !["usage"].error = "usage"]
    BY DEF UsageReturn
  <2> QED
    BY <1>1, <1>3, <2>1 DEF PollTypeOK, CallStates
<1>5. Started("usage")' = Started("usage")
  BY <1>2, <1>4 DEF Started
<1>6. LoopInv("usage")'
  BY <1>1, <1>2, <1>4, <1>5 DEF LoopInv, PollsOnce, HasStarted, LastPollIsPast
<1>7. RowsUnique' /\ now \in Nat
  BY <1>1, <1>2 DEF RowsUnique, PollTypeOK
<1> QED
  BY <1>2, <1>4, <1>6, <1>7, NoNewPoint

(* The check of a poll comes to its next await, or returns to the poll. *)
LEMMA ResumedKeepsHistory ==
    ASSUME HInv, CacheTypeOK', NEW l \in Loops, loop[l].pc = "notify", Resumed(l)
    PROVE  HistoryInv'
<1>1. PollTypeOK /\ RowsUnique /\ LoopInv(l)
  BY HInvParts
<1>2. /\ loop[l].point \in Points
      /\ loop[l].point.by = l
      /\ loop[l].point.ts = Started(l)
  BY <1>1, NotifyFields DEF LoopInv, HasStarted, Started
<1>3. CASE RecordDone(l, loop[l].record.pair, loop[l].queue, loop[l].point)
  BY <1>2, <1>3, PollDone DEF Resumed
<1>4. CASE UNCHANGED <<loop, historyStore>>
  <2>1. RowsUnique' /\ now' \in Nat /\ now <= now'
    BY <1>1 DEF Resumed, RowsUnique, PollTypeOK
  <2> QED
    BY <1>4, <2>1, NoNewPoint
<1> QED
  BY <1>3, <1>4 DEF Resumed

LEMMA ClearedHistory ==
    ASSUME HInv, UNCHANGED <<now, apiKeys>>,
           historyStore' = [pair \in Pairs |-> << >>],
           \A l \in Loops : loop'[l].pc = "sleep"
    PROVE  HistoryInv'
<1>1. \A pair \in Pairs : DOMAIN historyStore'[pair] = {}
  BY EmptySeq
<1>2. \A pair \in Pairs : Measured(historyStore', pair) = {}
  BY <1>1 DEF Measured
<1>3. RowsUnique' /\ PointsArePast' /\ HistorySpacing'
  BY <1>1, <1>2, HInvParts DEF RowsUnique, PointsArePast, HistorySpacing
<1>4. \A l \in Loops : LoopInv(l)'
  BY <1>2 DEF LoopInv, PollsOnce, HasStarted, LastPollIsPast
<1> QED
  BY <1>3, <1>4 DEF HistoryInv

LEMMA InitHInv == Init => HInv
<1> SUFFICES ASSUME Init PROVE HistoryInv
  BY InitIInv DEF HInv
<1>1. \A pair \in Pairs : DOMAIN historyStore[pair] = {}
  BY EmptySeq DEF Init, CacheInit
<1>2. \A pair \in Pairs : Measured(historyStore, pair) = {}
  BY <1>1 DEF Measured
<1>3. RowsUnique /\ PointsArePast /\ HistorySpacing
  BY <1>1, <1>2 DEF Init, RowsUnique, PointsArePast, HistorySpacing
<1>4. \A l \in Loops : loop[l].pc = "sleep"
  BY DEF Init, Asleep
<1>5. \A l \in Loops : LoopInv(l)
  BY <1>2, <1>4 DEF LoopInv, PollsOnce, HasStarted, LastPollIsPast
<1> QED
  BY <1>3, <1>5 DEF HistoryInv

LEMMA NextKeepsHInv == HInv /\ [Next]_vars => HInv'
<1> SUFFICES ASSUME HInv, [Next]_vars PROVE HistoryInv'
  BY NextKeepsIInv DEF HInv
<1>1. IInv' /\ CacheTypeOK' /\ PollTypeOK' /\ PollTypeOK /\ RowsUnique
  BY NextKeepsIInv, TypeParts, HInvParts, PTL DEF HInv, IInv, StateInv
<1>2. ASSUME NEW l \in Loops, StartCycle(l) PROVE HistoryInv'
  BY <1>1, <1>2, CycleKeepsHistory
<1>3. CASE RateLimitsReturn
  <2>1. /\ loop["rate"].pc = "limits" /\ "rate" \in Loops
        /\ UNCHANGED <<now, apiKeys>>
    BY <1>3 DEF RateLimitsReturn, Loops
  <2>2. \E limits : \E error : Publish("rate", limits, FALSE, error)
    BY <1>3 DEF RateLimitsReturn
  <2> QED
    BY <1>1, <2>1, <2>2, PublishKeepsHistory
<1>4. CASE UsageReturn
  BY <1>4, UsageKeepsHistory
<1>5. CASE CostsReturn
  <2>1. /\ loop["usage"].pc = "costs" /\ "usage" \in Loops
        /\ UNCHANGED <<now, apiKeys>>
    BY <1>5 DEF CostsReturn, Loops
  <2>2. \E costs \in BOOLEAN : \E error : Publish("usage", {}, costs, error)
    BY <1>5 DEF CostsReturn
  <2> QED
    BY <1>1, <2>1, <2>2, PublishKeepsHistory
<1>6. ASSUME NEW l \in Loops, TokensReturn(l) \/ SendReturns(l) \/ SigningFails(l)
      PROVE  HistoryInv'
  BY <1>1, <1>6, ResumedKeepsHistory DEF TokensReturn, SendReturns, SigningFails
<1>7. CASE UNCHANGED <<historyStore, loop>> /\ now' = now /\ RowsUnique'
  BY <1>1, <1>7, NoNewPoint DEF PollTypeOK
<1>8. CASE Tick
  BY <1>1, <1>8, NoNewPoint DEF PollTypeOK, Tick, CachesExpire, RowsUnique
<1>9. CASE Restart
  <2>1. \A l \in Loops : loop'[l].pc = "sleep"
    BY <1>9 DEF Restart, Asleep
  <2> QED
    BY <1>9, <2>1, ClearedHistory DEF Restart, CachesCleared
<1>10. CASE \E pair \in Pairs, key \in Keys \ Undecryptable : AddProvider(pair, key)
  <2>1. PICK pair \in Pairs, key \in Keys : AddProvider(pair, key)
    BY <1>10
  <2>2. RowsUnique'
    BY <1>1, <2>1 DEF AddProvider, RowsUnique
  <2> QED
    BY <1>7, <2>1, <2>2 DEF AddProvider, cacheVars
<1>11. CASE \E row \in apiKeys : DeleteProvider(row)
  BY <1>1, <1>7, <1>11 DEF DeleteProvider, RowsUnique, cacheVars
<1>12. CASE DeviceChange
  BY <1>1, <1>7, <1>12 DEF DeviceChange, RowsUnique, cacheVars, pollVars
<1>13. CASE UNCHANGED vars
  BY <1>1, <1>7, <1>13 DEF RowsUnique, vars, cacheVars, pollVars
<1> QED
  BY <1>2, <1>3, <1>4, <1>5, <1>6, <1>8, <1>9, <1>10, <1>11, <1>12, <1>13
     DEF Next, LoopStep

(* The polls of one loop for one provider start at least its interval      *)
(* apart, whatever the provider, the database, APNs and the users do       *)
(* meanwhile, and its points stay in order in the ring buffer that the two *)
(* loops share (polling.py, cache.py): for any intervals and sizes.        *)
THEOREM HistoryIsSpaced == Spec => []HistorySpacing
<1>1. HInv => HistorySpacing
  BY DEF HInv, HistoryInv
<1> QED
  BY <1>1, InitHInv, NextKeepsHInv, PTL DEF Spec

-----------------------------------------------------------------------------
(* The answers *)

LEMMA ImageIsFinite ==
    ASSUME NEW S, IsFiniteSet(S), NEW T, NEW f \in [S -> T],
           \A t \in T : \E x \in S : f[x] = t
    PROVE  IsFiniteSet(T)
<1>1. f \in Surjection(S, T)
  BY DEF Surjection
<1> QED
  BY <1>1, FS_Surjection

(* A finite set of numbers that is not empty has a largest one: the number *)
(* above which the fewest of the set lie.                                  *)
LEMMA MaxOfFinite ==
    ASSUME NEW S, S \subseteq Nat, IsFiniteSet(S), S # {}
    PROVE  Max(S) \in S /\ \A y \in S : y <= Max(S)
<1> DEFINE From(x) == {y \in S : x <= y}
           T == {From(x) : x \in S}
<1>1. T \subseteq SUBSET S /\ T # {}
  OBVIOUS
<1>2. IsWellFoundedOn(StrictSubsetOrdering(S), SUBSET S)
  <2>1. FiniteSubsetsOf(S) = SUBSET S
    BY FS_FiniteSubsetsOfFinite
  <2> QED
    BY <2>1, FS_StrictSubsetOrderingWellFounded
<1>3. PICK m \in T : \A t \in T : <<t, m>> \notin StrictSubsetOrdering(S)
  BY <1>1, <1>2, WFMin
<1>4. PICK x \in S : m = From(x)
  BY <1>3
<1>5. ASSUME NEW y \in S PROVE y <= x
  <2>1. From(y) \in T /\ From(y) \subseteq S /\ From(x) \subseteq S
    OBVIOUS
  <2>2. <<From(y), From(x)>> \notin StrictSubsetOrdering(S)
    BY <1>3, <1>4, <2>1
  <2>3. ~(From(y) \subseteq From(x) /\ From(y) # From(x))
    <3> HIDE DEF From
    <3> QED
      BY <2>1, <2>2 DEF StrictSubsetOrdering
  <2>4. x \in Nat /\ y \in Nat /\ \A z \in S : z \in Nat
    OBVIOUS
  <2>5. ASSUME x < y PROVE FALSE
    <3>1. x \in From(x)
      BY <2>4
    <3>2. x \notin From(y)
      BY <2>4, <2>5
    <3>3. \A z \in S : y <= z => x <= z
      BY <2>4, <2>5
    <3>4. From(y) \subseteq From(x)
      BY <3>3
    <3> HIDE DEF From
    <3> QED
      BY <2>3, <3>1, <3>2, <3>4
  <2> QED
    BY <2>4, <2>5
<1> QED
  BY <1>5 DEF Max

(* A rate_limits list is finite. *)
RepliesFinite == \A limits \in RateLimitReplies : IsFiniteSet(limits)

LEMMA RepliesAreFinite ==
    ASSUME IsFiniteSet(Series), IsFiniteSet(Models), IsFiniteSet(Metrics)
    PROVE  RepliesFinite
<1> SUFFICES ASSUME NEW limits \in RateLimitReplies PROVE IsFiniteSet(limits)
  BY DEF RepliesFinite
<1>1. PICK pcts \in UNION {[entries \X Metrics -> Pcts] :
                                entries \in SUBSET (Series \X Models)} :
        limits = {[series |-> x[1][1], model |-> x[1][2], metric |-> x[2],
                   pct |-> pcts[x]] : x \in DOMAIN pcts}
  BY DEF RateLimitReplies
<1>2. PICK entries \in SUBSET (Series \X Models) : DOMAIN pcts = entries \X Metrics
  BY <1>1
<1> DEFINE S == entries \X Metrics
           h == [x \in S |-> [series |-> x[1][1], model |-> x[1][2], metric |-> x[2],
                              pct |-> pcts[x]]]
<1>3. IsFiniteSet(S)
  <2>1. IsFiniteSet(Series \X Models)
    BY FS_Product
  <2>2. IsFiniteSet(entries)
    BY <2>1, FS_Subset
  <2> QED
    BY <2>2, FS_Product
<1>4. h \in [S -> limits] /\ \A t \in limits : \E x \in S : h[x] = t
  BY <1>1, <1>2
<1> HIDE DEF S, h
<1> QED
  BY <1>3, <1>4, ImageIsFinite

(* A pair has one snapshot, with finitely many limits. *)
OneSnapshotEach == \A e, f \in snapshotCache : e.pair = f.pair => e = f
LimitsFinite == \A e \in snapshotCache : IsFiniteSet(e.data.limits)
SnapshotInv == OneSnapshotEach /\ LimitsFinite

LEMMA PublishedEntry ==
    ASSUME SnapshotInv, NEW l, NEW limits, NEW costs, NEW error, IsFiniteSet(limits),
           Publish(l, limits, costs, error)
    PROVE  SnapshotInv'
<1> DEFINE pair     == loop[l].record.pair
           snapshot == Snapshot(l, limits, costs, error)
           new      == [pair |-> pair, data |-> snapshot, until |-> now + TTLRateLimits]
<1>1. snapshot.limits = limits
  BY DEF Snapshot
<1>2. \A e \in snapshotCache' : \/ e.pair = pair /\ e.data = snapshot /\ e = new
                                \/ e.pair # pair /\ e \in snapshotCache
  BY PutEffect DEF Publish
<1> HIDE DEF pair, snapshot, new
<1> QED
  BY <1>1, <1>2 DEF SnapshotInv, OneSnapshotEach, LimitsFinite

LEMMA NextKeepsEntries ==
    ASSUME RepliesFinite
    PROVE  SnapshotInv /\ [Next]_vars => SnapshotInv'
<1> SUFFICES ASSUME SnapshotInv, [Next]_vars PROVE SnapshotInv'
  OBVIOUS
<1>1. CASE snapshotCache' \subseteq snapshotCache
  BY <1>1 DEF SnapshotInv, OneSnapshotEach, LimitsFinite
<1>2. CASE RateLimitsReturn
  <2>1. \E limits \in RateLimitReplies \cup {{}} : \E error :
            Publish("rate", limits, FALSE, error)
    BY <1>2 DEF RateLimitsReturn
  <2> QED
    BY <2>1, FS_EmptySet, PublishedEntry DEF RepliesFinite
<1>3. CASE CostsReturn
  <2>1. \E costs, error : Publish("usage", {}, costs, error)
    BY <1>3 DEF CostsReturn
  <2> QED
    BY <2>1, FS_EmptySet, PublishedEntry
<1>4. CASE Tick
  BY <1>1, <1>4 DEF Tick, CachesExpire, Unexpired
<1>5. CASE Restart
  BY <1>1, <1>5 DEF Restart, CachesCleared
<1> QED
  BY <1>1, <1>2, <1>3, <1>4, <1>5
     DEF Next, LoopStep, StartCycle, UsageReturn, TokensReturn, SendReturns,
         SigningFails, Resumed, AddProvider, DeleteProvider, DeviceChange, vars,
         cacheVars

(* The readings an answer is made of. *)
Limits(pair) == UNION {s.limits : s \in Fresh(pair)}

LEMMA SnapshotElement ==
    \A pair : \A s \in Fresh(pair) :
        \E e \in snapshotCache : e.pair = pair /\ e.data = s /\ s.error = "none"
BY DEF Fresh, Get

LEMMA PctsFinite ==
    ASSUME CacheTypeOK, SnapshotInv, NEW pair, NEW metric
    PROVE  Pct(Limits(pair), metric) \subseteq Nat /\ IsFiniteSet(Pct(Limits(pair), metric))
<1> DEFINE P == Pct(Limits(pair), metric)
           R == {x \in Limits(pair) : x.metric = metric}
<1>1. \A s \in Fresh(pair) : s.limits \subseteq Readings /\ IsFiniteSet(s.limits)
  BY SnapshotElement DEF CacheTypeOK, Entries, Snapshots, SnapshotInv, LimitsFinite
<1>2. \A s, t \in Fresh(pair) : s = t
  BY SnapshotElement DEF SnapshotInv, OneSnapshotEach
<1>3. Limits(pair) \subseteq Readings
  BY <1>1 DEF Limits
<1>4. IsFiniteSet(Limits(pair))
  <2>1. CASE Fresh(pair) = {}
    BY <2>1, FS_EmptySet DEF Limits
  <2>2. ASSUME NEW s \in Fresh(pair) PROVE IsFiniteSet(Limits(pair))
    <3>1. Limits(pair) = s.limits
      BY <1>2 DEF Limits
    <3> QED
      BY <1>1, <3>1
  <2> QED
    BY <2>1, <2>2
<1>5. IsFiniteSet(R)
  BY <1>4, FS_Subset
<1>6. P = {r.pct : r \in R}
  BY DEF Pct
<1>7. IsFiniteSet(P)
  <2> DEFINE f == [r \in R |-> r.pct]
  <2>1. f \in [R -> P] /\ \A t \in P : \E r \in R : f[r] = t
    BY <1>6
  <2> HIDE DEF P, R, f
  <2> QED
    BY <1>5, <2>1, ImageIsFinite
<1>8. P \subseteq Nat
  BY <1>3, <1>6, NotificationsAssumption DEF NotificationsAssumption, Readings
<1> QED
  BY <1>7, <1>8

Largest(P) == {pct \in P : pct = Max(P)}

(* The compact format's largest reading, with 0 for none, is the one that  *)
(* the full format shows.                                                  *)
LEMMA ShownAndLargest ==
    ASSUME NEW P, P \subseteq Nat, IsFiniteSet(P)
    PROVE  Max({0} \cup P) = Max({0} \cup Largest(P))
<1>1. CASE P = {}
  <2>1. Largest(P) = P
    BY <1>1 DEF Largest
  <2> QED
    BY <2>1
<1>2. CASE P # {}
  <2> DEFINE m == Max(P)
             Q == Largest(P)
  <2>1. m \in P /\ \A y \in P : y <= m
    BY <1>2, MaxOfFinite
  <2>2. Q = {m}
    BY <2>1 DEF Largest
  <2>3. /\ {0} \cup P \subseteq Nat /\ IsFiniteSet({0} \cup P)
        /\ {0} \cup Q \subseteq Nat /\ IsFiniteSet({0} \cup Q)
    <3>1. IsFiniteSet({0} \cup P)
      BY FS_AddElement
    <3>2. IsFiniteSet({0} \cup Q)
      BY <2>1, <2>2, <3>1, FS_Subset
    <3>3. m \in Nat
      BY <2>1
    <3>4. {0} \cup P \subseteq Nat
      OBVIOUS
    <3> HIDE DEF m, Q
    <3> QED
      BY <2>2, <3>1, <3>2, <3>3, <3>4
  <2>4. /\ Max({0} \cup P) \in {0} \cup P /\ \A y \in {0} \cup P : y <= Max({0} \cup P)
        /\ Max({0} \cup Q) \in {0} \cup Q /\ \A y \in {0} \cup Q : y <= Max({0} \cup Q)
    BY <2>3, MaxOfFinite
  <2> DEFINE mp == Max({0} \cup P)
             mq == Max({0} \cup Q)
  <2>5. mp \in {0} \cup P /\ 0 <= mp /\ m <= mp
    BY <2>1, <2>4
  <2>6. (mq = 0 \/ mq = m) /\ 0 <= mq /\ m <= mq
    BY <2>2, <2>4
  <2>7. m \in Nat /\ mp \in Nat /\ (mp = 0 \/ mp <= m)
    <3>1. m \in Nat
      BY <2>1
    <3> HIDE DEF m, mp
    <3> QED
      BY <2>1, <2>5, <3>1
  <2> HIDE DEF m, mp, mq, Q
  <2>8. mp = mq
    BY <2>5, <2>6, <2>7
  <2> QED
    BY <2>8 DEF mp, mq, Q
<1> QED
  BY <1>1, <1>2

LEMMA CompactFields ==
    \A pair : /\ Compact(pair).n = pair[2]
              /\ Compact(pair).s = IF Fresh(pair) = {} THEN 0 ELSE 1
              /\ Compact(pair).r = Max({0} \cup Pct(Limits(pair), "rpm"))
              /\ Compact(pair).t = Max({0} \cup Pct(Limits(pair), "tpm"))
              /\ Compact(pair).c = (\E s \in Fresh(pair) : s.costs)
BY DEF Compact, Limits

LEMMA FullFields ==
    \A pair : /\ Full(pair).id = pair[2]
              /\ Full(pair).status = IF Get(snapshotCache, pair) = {} THEN "pending"
                                     ELSE IF Fresh(pair) = {} THEN "stale" ELSE "ok"
              /\ Full(pair).rpm = Largest(Pct(Limits(pair), "rpm"))
              /\ Full(pair).tpm = Largest(Pct(Limits(pair), "tpm"))
              /\ Full(pair).cost_today = (\E s \in Fresh(pair) : s.costs)
BY DEF Full, Limits, Largest

(* What a snapshot shows of the limits is what /limits shows. *)
LEMMA LimitsAgree ==
    ASSUME SnapshotMatchesCaches, NEW pair, pair \in UserProviders(pair[1]),
           Limits(pair) # {}, GetLimits(pair) # {}
    PROVE  Limits(pair) = GetLimits(pair)
<1>1. GetLimits(pair) = UNION {d.limits : d \in Get(rateLimitsCache, pair)}
  BY DEF GetLimits, Answer
<1>2. \A s \in Fresh(pair) : s.limits # {} =>
          \A d \in Get(rateLimitsCache, pair) : d.limits = s.limits
  <2> SUFFICES ASSUME NEW s \in Fresh(pair), s.limits # {},
                      NEW d \in Get(rateLimitsCache, pair)
               PROVE  d.limits = s.limits
    OBVIOUS
  <2>1. PICK e \in snapshotCache : e.pair = pair /\ e.data = s
    BY SnapshotElement
  <2>2. d = [key |-> s.key, limits |-> s.limits]
    BY <2>1 DEF SnapshotMatchesCaches
  <2> QED
    BY <2>2
<1>3. PICK d \in Get(rateLimitsCache, pair) : TRUE
  BY <1>1
<1>4. PICK s \in Fresh(pair) : s.limits # {}
  BY DEF Limits
<1>5. \A x \in Get(rateLimitsCache, pair) : x.limits = s.limits
  BY <1>2, <1>4
<1>6. GetLimits(pair) = s.limits
  BY <1>1, <1>3, <1>5
<1>7. \A x \in Fresh(pair) : x.limits = {} \/ x.limits = s.limits
  BY <1>2, <1>3, <1>5
<1>8. Limits(pair) = s.limits
  BY <1>4, <1>7 DEF Limits
<1> QED
  BY <1>6, <1>8

LEMMA AnswersFollow ==
    ASSUME CacheTypeOK, PollTypeOK, SnapshotInv, SnapshotMatchesCaches
    PROVE  SummaryAgrees
<1> SUFFICES ASSUME NEW user \in Users, NEW full \in GetSummary(user, "full")
             PROVE  LET own == <<user, full.id>>
                    IN  /\ \E compact \in GetSummary(user, "compact") :
                            /\ compact.n = full.id
                            /\ compact.s = 1 <=> full.status = "ok"
                            /\ compact.r = Max({0} \cup full.rpm)
                            /\ compact.t = Max({0} \cup full.tpm)
                            /\ compact.c = full.cost_today
                        /\ full.status # "ok" =>
                                full.rpm = {} /\ full.tpm = {} /\ ~full.cost_today
                        /\ full.rpm # {} /\ GetLimits(own) # {}
                            => full.rpm = {Max(Pct(GetLimits(own), "rpm"))}
                        /\ full.cost_today => GetCosts(own) \subseteq {TRUE}
  BY DEF SummaryAgrees
<1>0. PICK pair \in UserProviders(user) : full = Full(pair)
  BY DEF GetSummary
<1>1. <<user, full.id>> = pair /\ pair[1] = user
  BY <1>0, FullFields DEF UserProviders, PollTypeOK, Rows, Pairs
<1>2. full.status = "ok" <=> Fresh(pair) # {}
  <2>1. Get(snapshotCache, pair) = {} => Fresh(pair) = {}
    BY DEF Fresh
  <2> QED
    BY <1>0, <2>1, FullFields
<1>3. Compact(pair) \in GetSummary(user, "compact")
  BY DEF GetSummary
<1>4. Compact(pair).s = 1 <=> full.status = "ok"
  BY <1>2, CompactFields
<1>5. /\ Compact(pair).r = Max({0} \cup full.rpm)
      /\ Compact(pair).t = Max({0} \cup full.tpm)
  <2>1. ASSUME NEW metric
        PROVE  Max({0} \cup Pct(Limits(pair), metric))
                   = Max({0} \cup Largest(Pct(Limits(pair), metric)))
    BY PctsFinite, ShownAndLargest
  <2>2. /\ full.rpm = Largest(Pct(Limits(pair), "rpm"))
        /\ full.tpm = Largest(Pct(Limits(pair), "tpm"))
    BY <1>0, FullFields
  <2> QED
    BY <2>1, <2>2, CompactFields
<1>6. Compact(pair).c = full.cost_today
  BY <1>0, CompactFields, FullFields
<1>7. full.status # "ok" => full.rpm = {} /\ full.tpm = {} /\ ~full.cost_today
  <2>1. Fresh(pair) = {} => \A metric : Pct(Limits(pair), metric) = {}
    BY DEF Limits, Pct
  <2> QED
    BY <1>0, <1>2, <2>1, FullFields DEF Largest
<1>8. full.rpm # {} /\ GetLimits(pair) # {}
          => full.rpm = {Max(Pct(GetLimits(pair), "rpm"))}
  <2> SUFFICES ASSUME full.rpm # {}, GetLimits(pair) # {}
               PROVE  full.rpm = {Max(Pct(GetLimits(pair), "rpm"))}
    OBVIOUS
  <2>1. Limits(pair) # {}
    <3>1. Pct(Limits(pair), "rpm") # {}
      BY <1>0, FullFields DEF Largest
    <3> QED
      BY <3>1 DEF Pct
  <2>2. Limits(pair) = GetLimits(pair)
    BY <1>1, <2>1, LimitsAgree
  <2> QED
    BY <1>0, <2>2, FullFields DEF Largest
<1>9. full.cost_today => GetCosts(pair) \subseteq {TRUE}
  <2> SUFFICES ASSUME full.cost_today, NEW c \in GetCosts(pair) PROVE c = TRUE
    OBVIOUS
  <2>1. PICK s \in Fresh(pair) : s.costs
    BY <1>0, FullFields
  <2>2. PICK e \in snapshotCache : e.pair = pair /\ e.data = s
    BY SnapshotElement
  <2>3. PICK d \in Get(costsCache, pair) : c = d.costs
    BY <1>1 DEF GetCosts, Answer
  <2>4. d = [key |-> s.key, costs |-> TRUE]
    BY <2>1, <2>2 DEF SnapshotMatchesCaches
  <2> QED
    BY <2>3, <2>4
<1>10. Compact(pair).n = full.id
  BY <1>0, CompactFields, FullFields
<1> QED
  BY <1>1, <1>3, <1>4, <1>5, <1>6, <1>7, <1>8, <1>9, <1>10

(* The two formats of /summary show the same, and nothing that /limits or  *)
(* /costs contradict (router.py), through stale polls, replaced keys,      *)
(* evictions and the snapshots the two loops overwrite.  A rate_limits     *)
(* list is finite, as a list is.                                           *)
THEOREM AnswersAgree ==
    ASSUME IsFiniteSet(Series), IsFiniteSet(Models), IsFiniteSet(Metrics)
    PROVE  Spec => []SummaryAgrees
<1>1. Init => SnapshotInv /\ SnapshotMatchesCaches
  BY DEF Init, CacheInit, SnapshotInv, OneSnapshotEach, LimitsFinite,
         SnapshotMatchesCaches
<1>2. SnapshotInv /\ [Next]_vars => SnapshotInv'
  BY RepliesAreFinite, NextKeepsEntries
<1>3. IInv /\ SnapshotInv /\ SnapshotMatchesCaches => SummaryAgrees
  BY TypeParts, AnswersFollow DEF IInv, StateInv
<1> QED
  BY <1>1, <1>2, <1>3, SpecIInv, NextKeepsSnapshots, PTL DEF Spec

-----------------------------------------------------------------------------
(* The tables under the loops, as the API handlers implement them.  The    *)
(* loops do not look at the ids of the rows.                               *)

KeyRows == {[slot |-> row.pair, id |-> 0, value |-> row.key] : row \in apiKeys}
DeviceRows == {[slot |-> row, id |-> 0, value |-> "registered"] : row \in devices}

KeyTable == INSTANCE UniqueRows WITH
                Slots <- Pairs, Ids <- {0}, Values <- Keys, content <- KeyRows
DeviceTable == INSTANCE UniqueRows WITH
                   Slots <- Users \X Devices, Ids <- {0}, Values <- {"registered"},
                   content <- DeviceRows

(* Only the API changes the rows. *)
LEMMA NextKeepsRows ==
    ASSUME [Next]_vars
    PROVE  /\ \/ apiKeys' = apiKeys
              \/ \E pair \in Pairs, key \in Keys : AddProvider(pair, key)
              \/ \E row \in apiKeys : DeleteProvider(row)
           /\ \/ devices' = devices
              \/ \E user \in Users, token \in Devices :
                    RegisterDevice(user, token) \/ UnregisterDevice(user, token)
<1>1. CASE UNCHANGED vars
  BY <1>1 DEF vars, pollVars, notifyVars
<1>2. CASE Tick \/ Restart
  BY <1>2 DEF Tick, Restart, NotifyRestart, notifyVars
<1>3. CASE DeviceChange
  BY <1>3 DEF DeviceChange, pollVars
<1>4. CASE \E pair \in Pairs, key \in Keys \ Undecryptable : AddProvider(pair, key)
  BY <1>4 DEF AddProvider, notifyVars
<1>5. CASE \E row \in apiKeys : DeleteProvider(row)
  BY <1>5 DEF DeleteProvider, notifyVars
<1>6. ASSUME NEW l \in Loops, StartCycle(l) PROVE UNCHANGED <<apiKeys, devices>>
  BY <1>6 DEF StartCycle, notifyVars
<1>7. ASSUME NEW l \in Loops, LoopStep(l) PROVE UNCHANGED <<apiKeys, devices>>
  <2>1. \A limits, costs, error : Publish(l, limits, costs, error) => devices' = devices
    BY DEF Publish, CheckAndNotify
  <2>2. CASE l = "rate" /\ RateLimitsReturn
    BY <2>1, <2>2 DEF RateLimitsReturn
  <2>3. CASE l = "usage" /\ UsageReturn
    BY <2>3 DEF UsageReturn, notifyVars
  <2>4. CASE l = "usage" /\ CostsReturn
    BY <2>1, <2>4 DEF CostsReturn
  <2>5. CASE TokensReturn(l)
    BY <2>5 DEF TokensReturn, GetDeviceTokens, Resumed
  <2>6. CASE SendReturns(l)
    BY <2>6 DEF SendReturns, SendApns, Resumed
  <2>7. CASE SigningFails(l)
    BY <2>7 DEF SigningFails, ApnsKeyFails, Resumed
  <2> QED
    BY <1>7, <2>2, <2>3, <2>4, <2>5, <2>6, <2>7 DEF LoopStep
<1> QED
  BY <1>1, <1>2, <1>3, <1>4, <1>5, <1>6, <1>7 DEF Next

LEMMA KeyStep ==
    ASSUME IInv, RowsUnique, [Next]_vars
    PROVE  [KeyTable!Next]_KeyRows
<1>1. apiKeys \subseteq Rows
  BY TypeParts DEF IInv, StateInv, PollTypeOK
<1>2. CASE apiKeys' = apiKeys
  BY <1>2 DEF KeyRows
<1>3. ASSUME NEW pair \in Pairs, NEW key \in Keys, AddProvider(pair, key)
      PROVE  KeyTable!Next
  <2>1. KeyRows' = KeyRows \cup {[slot |-> pair, id |-> 0, value |-> key]}
    <3> DEFINE added == [pair |-> pair, key |-> key]
    <3>1. added.pair = pair /\ added.key = key /\ apiKeys' = apiKeys \cup {added}
      BY <1>3 DEF AddProvider
    <3> HIDE DEF added
    <3> QED
      BY <3>1 DEF KeyRows
  <2>2. \A c \in KeyRows : c.slot # pair
    BY <1>3 DEF AddProvider, KeyRows
  <2> QED
    BY <2>1, <2>2 DEF KeyTable!Next, KeyTable!Insert
<1>4. ASSUME NEW row \in apiKeys, DeleteProvider(row)
      PROVE  KeyTable!Next
  <2>1. row.pair \in Pairs
    BY <1>1 DEF Rows
  <2>2. \A r \in apiKeys : r \in apiKeys' <=> r.pair # row.pair
    BY <1>4 DEF DeleteProvider, RowsUnique
  <2>3. apiKeys' \subseteq apiKeys
    BY <1>4 DEF DeleteProvider
  <2>4. KeyRows' = {c \in KeyRows : c.slot # row.pair}
    BY <2>2, <2>3 DEF KeyRows
  <2> QED
    BY <2>1, <2>4 DEF KeyTable!Next, KeyTable!Delete
<1>5. \/ apiKeys' = apiKeys
      \/ \E pair \in Pairs, key \in Keys : AddProvider(pair, key)
      \/ \E row \in apiKeys : DeleteProvider(row)
  BY PollingAssumption, NextKeepsRows
<1> QED
  BY <1>2, <1>3, <1>4, <1>5

LEMMA DeviceStep ==
    ASSUME IInv, [Next]_vars
    PROVE  [DeviceTable!Next]_DeviceRows
<1>1. CASE devices' = devices
  BY <1>1 DEF DeviceRows
<1>2. ASSUME NEW user \in Users, NEW token \in Devices, RegisterDevice(user, token)
      PROVE  [DeviceTable!Next]_DeviceRows
  <2> DEFINE slot == <<user, token>>
  <2>1. devices' = devices \cup {slot}
    BY <1>2 DEF RegisterDevice
  <2>2. CASE slot \in devices
    BY <1>1, <2>1, <2>2
  <2>3. CASE slot \notin devices
    <3>1. slot \in Users \X Devices
      OBVIOUS
    <3> HIDE DEF slot
    <3>2. DeviceRows' = DeviceRows \cup {[slot |-> slot, id |-> 0, value |-> "registered"]}
      BY <2>1 DEF DeviceRows
    <3>3. \A c \in DeviceRows : c.slot # slot
      BY <2>3 DEF DeviceRows
    <3> QED
      BY <3>1, <3>2, <3>3 DEF DeviceTable!Next, DeviceTable!Insert
  <2> QED
    BY <2>2, <2>3
<1>3. ASSUME NEW user \in Users, NEW token \in Devices, UnregisterDevice(user, token)
      PROVE  [DeviceTable!Next]_DeviceRows
  <2> DEFINE slot == <<user, token>>
  <2>1. devices' = devices \ {slot} /\ slot \in Users \X Devices
    BY <1>3 DEF UnregisterDevice
  <2> HIDE DEF slot
  <2>2. DeviceRows' = {c \in DeviceRows : c.slot # slot}
    BY <2>1 DEF DeviceRows
  <2> QED
    BY <2>1, <2>2 DEF DeviceTable!Next, DeviceTable!Delete
<1>4. \/ devices' = devices
      \/ \E user \in Users, token \in Devices :
            RegisterDevice(user, token) \/ UnregisterDevice(user, token)
  BY NextKeepsRows
<1> QED
  BY <1>1, <1>2, <1>3, <1>4

(* Under the loops the tables of keys and devices change as UniqueRows     *)
(* says, and in no other way: what ApiTables implements is what the        *)
(* theorems about Polling rest on (api/router.py, tasks/polling.py).       *)
THEOREM LoopsReadUniqueRows ==
    Spec => [][KeyTable!Next]_KeyRows /\ [][DeviceTable!Next]_DeviceRows
<1>1. HInv /\ [Next]_vars => [KeyTable!Next]_KeyRows /\ [DeviceTable!Next]_DeviceRows
  BY KeyStep, DeviceStep DEF HInv, HistoryInv
<1> QED
  BY <1>1, InitHInv, NextKeepsHInv, PTL DEF Spec
==============================================================================
