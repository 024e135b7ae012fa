---------------------------- MODULE Polling_proofs ----------------------------
(***************************************************************************)
(* Proofs about Polling: for any users, providers, keys, models, devices,  *)
(* intervals and time-to-live, the state of the backend keeps its shape,   *)
(* and no device gets an entry's alert twice until the window is over that *)
(* began with the check which delivered it.                                *)
(***************************************************************************)
EXTENDS Polling, SequenceTheorems, TLAPS

-----------------------------------------------------------------------------
(* Operators of the components *)

LEMMA PutType ==
    ASSUME NEW Data, NEW cache, cache \subseteq Entries(Data),
           NEW pair \in Pairs, NEW data \in Data, NEW t \in Nat, NEW ttl \in Nat,
           NEW result \in Put(cache, pair, data, t, ttl)
    PROVE  result \subseteq Entries(Data)
<1> DEFINE others == {e \in Unexpired(cache, t) : e.pair # pair}
           new    == [pair |-> pair, data |-> data, until |-> t + ttl]
<1>1. others \subseteq Entries(Data)
  BY DEF Unexpired
<1>2. new \in Entries(Data)
  BY DEF Entries
<1>3. \/ result = others \cup {new}
      \/ \E victim \in others : result = (others \ {victim}) \cup {new}
  BY DEF Put
<1> QED
  BY <1>1, <1>2, <1>3

LEMMA AppendHistoryType ==
    ASSUME NEW Data, NEW store \in [Pairs -> Seq(Data)],
           NEW pair \in Pairs, NEW point \in Data
    PROVE  AppendHistoryPoint(store, pair, point) \in [Pairs -> Seq(Data)]
<1> DEFINE h == store[pair]
<1>1. h \in Seq(Data)
  OBVIOUS
<1>2. Len(h) >= MaxHistory => h # << >>
  BY <1>1, CacheAssumption, EmptySeq DEF CacheAssumption
<1>3. Append(h, point) \in Seq(Data)
  BY <1>1, AppendProperties
<1>4. Len(h) >= MaxHistory => Append(Tail(h), point) \in Seq(Data)
  BY <1>1, <1>2, HeadTailProperties, AppendProperties
<1>5. Len(h) < MaxHistory \/ Len(h) >= MaxHistory
  BY <1>1, LenProperties, CacheAssumption DEF CacheAssumption
<1> QED
  BY <1>3, <1>4, <1>5 DEF AppendHistoryPoint

LEMMA AlertsType ==
    ASSUME NEW pair \in Pairs, NEW limits \in SUBSET Readings
    PROVE  EvaluateThresholds(pair, limits) \subseteq Alerts
BY DEF EvaluateThresholds, Readings, Alerts

LEMMA DedupKeyType == \A a \in Alerts : DedupKey(a) \in DedupKeys
BY DEF Alerts, DedupKeys, DedupKey

LEMMA IdleType == Idle \in Checks /\ Idle.phase = "idle" /\ Idle.alerts = {}
BY DEF Idle, Checks

LEMMA RepliesType == \A limits \in RateLimitReplies : limits \in SUBSET Readings
<1> SUFFICES ASSUME NEW limits \in RateLimitReplies PROVE limits \subseteq Readings
  OBVIOUS
<1>1. PICK pcts \in UNION {[entries \X Metrics -> Pcts] :
                                entries \in SUBSET (Series \X Models)} :
        limits = {[series |-> x[1][1], model |-> x[1][2], metric |-> x[2],
                   pct |-> pcts[x]] : x \in DOMAIN pcts}
  BY DEF RateLimitReplies
<1>2. PICK entries \in SUBSET (Series \X Models) : pcts \in [entries \X Metrics -> Pcts]
  BY <1>1
<1> QED
  BY <1>1, <1>2 DEF Readings

-----------------------------------------------------------------------------
(* The notification state: why repeated alerts are spaced *)

(* A check that is under way belongs to a loop that waits for it. *)
ChecksAwaited == \A l \in Loops : loop[l].pc # "notify" => check[l] = Idle

(* Only the rate-limits loop ever raises an alert: what the usage loop     *)
(* hands to check_and_notify has no rate limits.                           *)
OneNotifier == check["usage"] = Idle

(* The check sends one of its alerts at a time. *)
OneAtATime ==
    LET c == check["rate"]
    IN  /\ c.phase = "idle" => c = Idle
        /\ c.phase = "sending" => c.current \subseteq c.alerts
        /\ \A a, b \in c.current : a = b

(* Pushes come from a process that can sign. *)
SignedOnly == apns # "ready" => pushes = << >>

(* A push of the alert that is being sent, to a device done with it.       *)
BeingSent(p) ==
    /\ check["rate"].phase = "sending"
    /\ \E a \in check["rate"].current : p.key = DedupKey(a) /\ p.series = a.series
    /\ p.ts = check["rate"].ts
    /\ p.device \notin check["rate"].left

(* Every push is known to the dedup store, or is of the alert being sent.  *)
Recorded(p) == \E s \in sentAlerts : s.key = p.key /\ p.ts <= s.at
Accounted == \A i \in DOMAIN pushes : Recorded(pushes[i]) \/ BeingSent(pushes[i])

(* What was pushed before of an alert that the check still has to send or  *)
(* is sending: it is a window older than the check, or of another entry of *)
(* the model and from this check, or has just gone to its device.          *)
DueAgain(p, a) ==
    \/ p.ts + DedupWindow <= check["rate"].ts
    \/ p.ts = check["rate"].ts /\ p.series # a.series
    \/ BeingSent(p) /\ p.series = a.series
AlertsAreDue ==
    \A i \in DOMAIN pushes, a \in check["rate"].alerts :
        pushes[i].key = DedupKey(a) => DueAgain(pushes[i], a)

(* The check under way began no later than now. *)
CheckBegun == check["rate"].ts <= now

NotifyInv ==
    /\ OneNotifier
    /\ OneAtATime
    /\ SignedOnly
    /\ Accounted
    /\ AlertsAreDue
    /\ RepeatsAreSpaced

StateInv == TypeOK /\ ChecksAwaited /\ NotifyInv

IInv == StateInv /\ CheckBegun

NotifyTypeOK ==
    /\ apns \in {"off", "unusable key", "ready"}
    /\ devices \subseteq Users \X Devices
    /\ sentAlerts \subseteq [key : DedupKeys, at : Nat]
    /\ check \in [Loops -> Checks]
    /\ pushes \in Seq(Pushes)

(* Two alerts with the same key are of different entries of one model.     *)
LEMMA DedupKeyOne ==
    ASSUME NEW a \in Alerts, NEW b \in Alerts, DedupKey(a) = DedupKey(b),
           a.series = b.series
    PROVE  a = b
BY DEF Alerts, DedupKey

LEMMA PushType ==
    ASSUME NotifyTypeOK
    PROVE  /\ pushes \in Seq(Pushes)
           /\ Len(pushes) \in Nat
           /\ DOMAIN pushes = 1 .. Len(pushes)
           /\ \A i \in DOMAIN pushes : pushes[i] \in Pushes
<1>1. pushes \in Seq(Pushes)
  BY DEF NotifyTypeOK
<1> QED
  BY <1>1, LenProperties, ElementOfSeq

LEMMA CheckStarts ==
    ASSUME NotifyTypeOK, NotifyInv, check["rate"] = Idle,
           NEW pair \in Pairs, NEW limits \in SUBSET Readings, NEW ts \in Nat,
           CheckAndNotify("rate", pair, limits, ts)
    PROVE  NotifyTypeOK' /\ NotifyInv'
<1> DEFINE due == {a \in EvaluateThresholds(pair, limits) :
                        ShouldSend(DedupKey(a), ts)}
           started == [Idle EXCEPT !.phase = "devices", !.ts = ts, !.alerts = due]
<1>1. /\ UNCHANGED <<apns, devices, sentAlerts, pushes>>
      /\ \/ check' = [check EXCEPT !["rate"] = Idle]
         \/ check' = [check EXCEPT !["rate"] = started]
  BY DEF CheckAndNotify
<1>2. due \subseteq Alerts
  BY AlertsType
<1>3. /\ started \in Checks
      /\ started.phase = "devices"
      /\ started.ts = ts
      /\ started.alerts = due
      /\ started.current = {}
  BY <1>2 DEF Idle, Checks
<1>4. /\ check' \in [Loops -> Checks]
      /\ check'["usage"] = Idle
      /\ check'["rate"] = Idle \/ check'["rate"] = started
  BY <1>1, <1>3, IdleType DEF NotifyTypeOK, NotifyInv, OneNotifier, Loops
<1>5. NotifyTypeOK'
  BY <1>1, <1>4 DEF NotifyTypeOK
<1>6. OneNotifier' /\ OneAtATime'
  BY <1>3, <1>4, IdleType DEF OneNotifier, OneAtATime, Idle
<1>7. SignedOnly' /\ RepeatsAreSpaced'
  BY <1>1 DEF NotifyInv, SignedOnly, RepeatsAreSpaced
<1>8. AlertsAreDue'
  <2>1. CASE check'["rate"] = Idle
    BY <2>1, IdleType DEF AlertsAreDue
  <2>2. CASE check'["rate"] = started
    <3> SUFFICES ASSUME NEW i \in DOMAIN pushes, NEW a \in due,
                        pushes[i].key = DedupKey(a)
                 PROVE  pushes[i].ts + DedupWindow <= ts
      BY <1>1, <1>3, <2>2 DEF AlertsAreDue, DueAgain
    <3>1. ~ BeingSent(pushes[i])
      BY IdleType DEF BeingSent
    <3>2. PICK s \in sentAlerts : s.key = DedupKey(a) /\ pushes[i].ts <= s.at
      BY <3>1 DEF NotifyInv, Accounted, Recorded
    <3>3. s.at + DedupWindow <= ts
      BY <3>2 DEF ShouldSend
    <3>4. pushes[i].ts \in Nat /\ s.at \in Nat /\ DedupWindow \in Nat
      <4>1. pushes[i] \in Pushes
        BY PushType
      <4> QED
        BY <4>1, NotificationsAssumption DEF Pushes, NotifyTypeOK, NotificationsAssumption
    <3> HIDE DEF due
    <3>5. \A x, y, w, t \in Nat : x <= y /\ y + w <= t => x + w <= t
      OBVIOUS
    <3> QED
      BY <3>2, <3>3, <3>4, <3>5
  <2> QED
    BY <1>4, <2>1, <2>2
<1>9. Accounted'
  <2>1. check["rate"].phase # "sending"
    BY IdleType
  <2> QED
    BY <1>1, <2>1 DEF NotifyInv, Accounted, Recorded, BeingSent
<1> QED
  BY <1>5, <1>6, <1>7, <1>8, <1>9 DEF NotifyInv

(* The usage loop has no readings, so its call of check_and_notify returns *)
(* at once.                                                                *)
LEMMA UsageNotifiesNothing ==
    ASSUME NotifyTypeOK, OneNotifier, NEW pair, NEW ts,
           CheckAndNotify("usage", pair, {}, ts)
    PROVE  UNCHANGED notifyVars
<1>1. EvaluateThresholds(pair, {}) = {}
  BY DEF EvaluateThresholds
<1>2. check' = [check EXCEPT !["usage"] = Idle]
  BY <1>1 DEF CheckAndNotify
<1>3. check' = check
  BY <1>2 DEF NotifyTypeOK, OneNotifier, Loops
<1> QED
  BY <1>3 DEF CheckAndNotify, notifyVars

LEMMA NotifyUnchanged ==
    ASSUME NotifyTypeOK, NotifyInv, UNCHANGED notifyVars
    PROVE  NotifyTypeOK' /\ NotifyInv'
<1>1. NotifyTypeOK' /\ OneNotifier' /\ OneAtATime' /\ SignedOnly'
  BY DEF NotifyTypeOK, NotifyInv, notifyVars, OneNotifier, OneAtATime, SignedOnly
<1>2. Accounted' /\ AlertsAreDue'
  BY DEF NotifyInv, notifyVars, Accounted, Recorded, BeingSent, AlertsAreDue, DueAgain
<1>3. RepeatsAreSpaced'
  BY DEF NotifyInv, notifyVars, RepeatsAreSpaced
<1> QED
  BY <1>1, <1>2, <1>3 DEF NotifyInv

(* The check ends without having sent anything of its current alert. *)
LEMMA CheckDropped ==
    ASSUME NotifyTypeOK, NotifyInv,
           UNCHANGED <<apns, devices, sentAlerts, pushes>>,
           check' = [check EXCEPT !["rate"] = Idle],
           check["rate"].phase # "sending" \/ apns # "ready"
    PROVE  NotifyTypeOK' /\ NotifyInv'
<1>1. /\ check' \in [Loops -> Checks]
      /\ check'["usage"] = Idle
      /\ check'["rate"] = Idle
  BY IdleType DEF NotifyTypeOK, NotifyInv, OneNotifier, Loops
<1>2. NotifyTypeOK'
  BY <1>1 DEF NotifyTypeOK
<1>3. OneNotifier' /\ OneAtATime' /\ AlertsAreDue'
  BY <1>1, IdleType DEF OneNotifier, OneAtATime, AlertsAreDue, Idle
<1>4. SignedOnly' /\ RepeatsAreSpaced'
  BY DEF NotifyInv, SignedOnly, RepeatsAreSpaced
<1>5. Accounted'
  BY DEF NotifyInv, SignedOnly, Accounted, Recorded, BeingSent
<1> QED
  BY <1>2, <1>3, <1>4, <1>5 DEF NotifyInv

LEMMA DeviceTokensReturn ==
    ASSUME NotifyTypeOK, NotifyInv, GetDeviceTokens("rate")
    PROVE  NotifyTypeOK' /\ NotifyInv'
<1>1. /\ UNCHANGED <<apns, devices, sentAlerts, pushes>>
      /\ check["rate"].phase = "devices"
      /\ check["rate"] \in Checks
  BY DEF GetDeviceTokens, NotifyTypeOK, Loops
<1>2. CASE check' = [check EXCEPT !["rate"] = Idle]
  BY <1>1, <1>2, CheckDropped
<1>3. CASE \E a \in check["rate"].alerts :
            LET tokens == {d \in Devices : <<a.pair[1], d>> \in devices}
            IN  /\ tokens # {}
                /\ check' = [check EXCEPT !["rate"] =
                                [@ EXCEPT !.phase = "sending", !.current = {a},
                                          !.tokens = tokens, !.left = tokens]]
  <2>1. PICK a \in check["rate"].alerts, tokens \in SUBSET Devices :
          check' = [check EXCEPT !["rate"] =
                       [@ EXCEPT !.phase = "sending", !.current = {a},
                                 !.tokens = tokens, !.left = tokens]]
    BY <1>3
  <2>2. /\ check'["rate"] \in Checks
        /\ check'["rate"].phase = "sending"
        /\ check'["rate"].ts = check["rate"].ts
        /\ check'["rate"].alerts = check["rate"].alerts
        /\ check'["rate"].current = {a}
    BY <1>1, <2>1 DEF NotifyTypeOK, Loops, Checks
  <2>3. /\ check' \in [Loops -> Checks]
        /\ check'["usage"] = Idle
    BY <2>1, <2>2 DEF NotifyTypeOK, NotifyInv, OneNotifier, Loops
  <2>4. NotifyTypeOK'
    BY <1>1, <2>3 DEF NotifyTypeOK
  <2>5. OneNotifier' /\ OneAtATime'
    BY <2>2, <2>3 DEF OneNotifier, OneAtATime
  <2>6. SignedOnly' /\ RepeatsAreSpaced'
    BY <1>1 DEF NotifyInv, SignedOnly, RepeatsAreSpaced
  <2>7. AlertsAreDue'
    BY <1>1, <2>2 DEF NotifyInv, AlertsAreDue, DueAgain, BeingSent
  <2>8. Accounted'
    BY <1>1 DEF NotifyInv, Accounted, Recorded, BeingSent
  <2> QED
    BY <2>4, <2>5, <2>6, <2>7, <2>8 DEF NotifyInv
<1> QED
  BY <1>2, <1>3 DEF GetDeviceTokens

(* An alert has gone to every token.  It is recorded; what was pushed of   *)
(* it, whether before or by this step, is then known to the dedup store.   *)
LEMMA AlertRecorded ==
    ASSUME NotifyTypeOK, NotifyInv, UNCHANGED <<apns, devices>>,
           check["rate"].phase = "sending", apns = "ready",
           NEW alert \in check["rate"].current,
           pushes' \in Seq(Pushes),
           \A i \in DOMAIN pushes' :
                \/ i \in DOMAIN pushes /\ pushes'[i] = pushes[i]
                \/ /\ pushes'[i].key = DedupKey(alert)
                   /\ pushes'[i].series = alert.series
                   /\ pushes'[i].ts = check["rate"].ts,
           RepeatsAreSpaced',
           AlertDone("rate", alert)
    PROVE  NotifyTypeOK' /\ NotifyInv'
<1> DEFINE c    == check["rate"]
           new  == [key |-> DedupKey(alert), at |-> c.ts]
           rest == c.alerts \ {alert}
<1>1. /\ c \in Checks
      /\ alert \in c.alerts
      /\ \A a \in c.current : a = alert
  BY DEF NotifyTypeOK, NotifyInv, OneAtATime, Loops
<1>2. /\ c.ts \in Nat
      /\ c.alerts \subseteq Alerts
      /\ alert \in Alerts
  BY <1>1 DEF Checks
<1>3. sentAlerts' = {s \in sentAlerts : s.key # DedupKey(alert)} \cup {new}
  BY DEF AlertDone, RecordSent
<1>4. /\ check' \in [Loops -> Checks]
      /\ check'["usage"] = Idle
      /\ \/ check'["rate"] = Idle
         \/ /\ check'["rate"].phase = "sending"
            /\ check'["rate"].ts = c.ts
            /\ check'["rate"].alerts = rest
            /\ check'["rate"].current \subseteq rest
            /\ \A a, b \in check'["rate"].current : a = b
  <2>1. CASE check' = [check EXCEPT !["rate"] = Idle]
    BY <2>1, IdleType DEF NotifyTypeOK, NotifyInv, OneNotifier, Loops
  <2>2. CASE \E next \in rest :
                check' = [check EXCEPT !["rate"] =
                            [@ EXCEPT !.alerts = rest, !.current = {next},
                                      !.left = check["rate"].tokens]]
    <3>1. PICK next \in rest :
                check' = [check EXCEPT !["rate"] =
                            [@ EXCEPT !.alerts = rest, !.current = {next},
                                      !.left = check["rate"].tokens]]
      BY <2>2
    <3>2. /\ check'["rate"] = [c EXCEPT !.alerts = rest, !.current = {next},
                                        !.left = c.tokens]
          /\ check'["usage"] = check["usage"]
      BY <3>1 DEF NotifyTypeOK, Loops
    <3>3. rest \subseteq Alerts /\ next \in rest
      BY <1>2, <3>1
    <3>4. /\ check'["rate"] \in Checks
          /\ check'["rate"].phase = "sending"
          /\ check'["rate"].ts = c.ts
          /\ check'["rate"].alerts = rest
          /\ check'["rate"].current = {next}
      <4> HIDE DEF rest, c
      <4>1. c.phase = "sending"
        BY DEF c
      <4>2. check'["rate"] = [phase |-> c.phase, ts |-> c.ts, alerts |-> rest,
                              current |-> {next}, tokens |-> c.tokens,
                              left |-> c.tokens]
        BY <1>1, <3>2 DEF Checks
      <4> QED
        BY <1>1, <3>3, <4>1, <4>2 DEF Checks
    <3>5. check' \in [Loops -> Checks]
      BY <3>1, <3>4 DEF NotifyTypeOK, Loops
    <3> QED
      BY <3>2, <3>3, <3>4, <3>5 DEF NotifyInv, OneNotifier
  <2> QED
    BY <2>1, <2>2 DEF AlertDone
<1> HIDE DEF new, rest
<1>5. NotifyTypeOK'
  <2>1. new \in [key : DedupKeys, at : Nat]
    BY <1>2, DedupKeyType DEF new
  <2> QED
    BY <1>3, <1>4, <2>1 DEF NotifyTypeOK
<1>6. OneNotifier' /\ SignedOnly'
  BY <1>4 DEF OneNotifier, SignedOnly
<1>7. OneAtATime'
  BY <1>4, IdleType DEF OneAtATime, Idle
<1>8. AlertsAreDue'
  <2> SUFFICES ASSUME NEW i \in DOMAIN pushes', NEW a \in check'["rate"].alerts,
                      pushes'[i].key = DedupKey(a)
               PROVE  DueAgain(pushes[i], a)'
    BY DEF AlertsAreDue
  <2>1. check'["rate"].ts = c.ts /\ a \in rest
    BY <1>4, IdleType
  <2>2. a \in Alerts /\ a # alert /\ a \in c.alerts
    BY <1>2, <2>1 DEF rest
  <2>3. DedupKey(a) = DedupKey(alert) => a.series # alert.series
    BY <1>2, <2>2, DedupKeyOne
  <2>4. CASE /\ pushes'[i].key = DedupKey(alert)
             /\ pushes'[i].series = alert.series
             /\ pushes'[i].ts = c.ts
    BY <2>1, <2>3, <2>4 DEF DueAgain
  <2>5. CASE i \in DOMAIN pushes /\ pushes'[i] = pushes[i]
    <3> DEFINE p == pushes[i]
    <3>1. DueAgain(p, a)
      BY <2>2, <2>5 DEF NotifyInv, AlertsAreDue
    <3>2. CASE BeingSent(p)
      BY <1>1, <2>1, <2>3, <2>5, <3>2 DEF BeingSent, DueAgain
    <3>3. CASE \/ p.ts + DedupWindow <= c.ts
               \/ p.ts = c.ts /\ p.series # a.series
      BY <2>1, <2>5, <3>3 DEF DueAgain
    <3> QED
      BY <3>1, <3>2, <3>3 DEF DueAgain
  <2> QED
    BY <2>4, <2>5
<1>9. Accounted'
  <2> SUFFICES ASSUME NEW i \in DOMAIN pushes' PROVE Recorded(pushes[i])'
    BY DEF Accounted
  <2>1. new \in sentAlerts' /\ new.key = DedupKey(alert) /\ new.at = c.ts
    BY <1>3 DEF new
  <2>2. CASE pushes'[i].key = DedupKey(alert) /\ pushes'[i].ts = c.ts
    BY <1>2, <2>1, <2>2 DEF Recorded
  <2>3. CASE i \in DOMAIN pushes /\ pushes'[i] = pushes[i]
    <3> DEFINE p == pushes[i]
    <3>1. p.ts \in Nat
      BY <2>3, PushType DEF Pushes
    <3>2. CASE p.key = DedupKey(alert)
      <4>1. DueAgain(p, alert)
        BY <1>1, <2>3, <3>2 DEF NotifyInv, AlertsAreDue
      <4>2. p.ts + DedupWindow <= c.ts \/ p.ts = c.ts
        BY <4>1 DEF DueAgain, BeingSent
      <4>3. DedupWindow \in Nat
        BY NotificationsAssumption DEF NotificationsAssumption
      <4>4. p.ts <= c.ts
        <5> HIDE DEF p, c
        <5>1. \A x, w, t \in Nat : x + w <= t \/ x = t => x <= t
          OBVIOUS
        <5> QED
          BY <1>2, <3>1, <4>2, <4>3, <5>1
      <4> QED
        BY <2>1, <2>3, <3>2, <4>4 DEF Recorded
    <3>3. CASE p.key # DedupKey(alert)
      <4>1. ~ BeingSent(p)
        BY <1>1, <3>3 DEF BeingSent
      <4>2. PICK s \in sentAlerts : s.key = p.key /\ p.ts <= s.at
        BY <2>3, <4>1 DEF NotifyInv, Accounted, Recorded
      <4> QED
        BY <1>3, <2>3, <3>3, <4>2 DEF Recorded
    <3> QED
      BY <3>2, <3>3
  <2> QED
    BY <2>2, <2>3
<1> QED
  BY <1>5, <1>6, <1>7, <1>8, <1>9 DEF NotifyInv

(* Whatever has been pushed before, pushing the current alert to a device  *)
(* that is still to get it repeats nothing within the window.              *)
LEMMA PushIsSpaced ==
    ASSUME NotifyTypeOK, NotifyInv, CheckBegun, now \in Nat,
           check["rate"].phase = "sending",
           NEW alert \in check["rate"].current, NEW token \in check["rate"].left,
           NEW p, p = [key |-> DedupKey(alert), series |-> alert.series,
                       device |-> token, ts |-> check["rate"].ts, at |-> now],
           pushes' = Append(pushes, p)
    PROVE  RepeatsAreSpaced'
<1>1. /\ check["rate"] \in Checks
      /\ alert \in check["rate"].alerts
      /\ \A a \in check["rate"].current : a = alert
  BY DEF NotifyTypeOK, NotifyInv, OneAtATime, Loops
<1>2. /\ check["rate"].ts \in Nat /\ DedupWindow \in Nat
      /\ alert \in Alerts /\ token \in Devices
  BY <1>1, NotificationsAssumption DEF Checks, NotificationsAssumption
<1>3. /\ pushes \in Seq(Pushes)
      /\ DOMAIN pushes = 1 .. Len(pushes)
      /\ DOMAIN pushes' = 1 .. Len(pushes) + 1
      /\ Len(pushes) \in Nat
      /\ \A i \in DOMAIN pushes : pushes'[i] = pushes[i] /\ pushes[i] \in Pushes
      /\ pushes'[Len(pushes) + 1] = p
  <2>1. p \in Pushes
    BY <1>2, DedupKeyType DEF Pushes, Alerts
  <2> QED
    BY <2>1, PushType, AppendProperties
<1>4. ASSUME NEW i \in DOMAIN pushes, SameAlert(pushes[i], p)
      PROVE  \/ pushes[i].ts + DedupWindow <= p.at
             \/ pushes[i].ts = p.ts /\ pushes[i].series # p.series
  <2>1. pushes[i].key = DedupKey(alert) /\ pushes[i].device = token
    BY <1>4 DEF SameAlert
  <2>2. ~ BeingSent(pushes[i])
    BY <2>1 DEF BeingSent
  <2>3. \/ pushes[i].ts + DedupWindow <= check["rate"].ts
        \/ pushes[i].ts = check["rate"].ts /\ pushes[i].series # alert.series
    BY <1>1, <2>1, <2>2 DEF NotifyInv, AlertsAreDue, DueAgain
  <2>4. pushes[i].ts \in Nat
    BY <1>3 DEF Pushes
  <2>5. \A x, w, t, n \in Nat : x + w <= t /\ t <= n => x + w <= n
    OBVIOUS
  <2>6. pushes[i].ts + DedupWindow <= check["rate"].ts => pushes[i].ts + DedupWindow <= now
    BY <1>2, <2>4, <2>5 DEF CheckBegun
  <2> QED
    BY <2>3, <2>6
<1> SUFFICES ASSUME NEW i \in DOMAIN pushes', NEW j \in DOMAIN pushes', i < j,
                    SameAlert(pushes'[i], pushes'[j])
             PROVE  \/ pushes'[i].ts + DedupWindow <= pushes'[j].at
                    \/ /\ pushes'[i].ts = pushes'[j].ts
                       /\ pushes'[i].series # pushes'[j].series
  BY DEF RepeatsAreSpaced, SameAlert
<1>5. i \in DOMAIN pushes
  BY <1>3
<1>6. CASE j \in DOMAIN pushes
  BY <1>3, <1>5, <1>6 DEF NotifyInv, RepeatsAreSpaced
<1>7. CASE j = Len(pushes) + 1
  BY <1>3, <1>4, <1>5, <1>7
<1> QED
  BY <1>3, <1>6, <1>7

(* One APNs call ends and others are still to be made for the alert. *)
LEMMA TokenDone ==
    ASSUME NotifyTypeOK, NotifyInv, UNCHANGED <<apns, devices, sentAlerts>>,
           check["rate"].phase = "sending", apns = "ready",
           NEW alert \in check["rate"].current, NEW token \in check["rate"].left,
           pushes' \in Seq(Pushes),
           \A i \in DOMAIN pushes' :
                \/ i \in DOMAIN pushes /\ pushes'[i] = pushes[i]
                \/ /\ pushes'[i].key = DedupKey(alert)
                   /\ pushes'[i].series = alert.series
                   /\ pushes'[i].ts = check["rate"].ts
                   /\ pushes'[i].device = token,
           RepeatsAreSpaced',
           check' = [check EXCEPT !["rate"].left = @ \ {token}]
    PROVE  NotifyTypeOK' /\ NotifyInv'
<1>1. check["rate"] \in Checks
  BY DEF NotifyTypeOK, Loops
<1>2. /\ check' \in [Loops -> Checks]
      /\ check'["usage"] = Idle
      /\ check'["rate"].phase = "sending"
      /\ check'["rate"].ts = check["rate"].ts
      /\ check'["rate"].alerts = check["rate"].alerts
      /\ check'["rate"].current = check["rate"].current
      /\ check'["rate"].left = check["rate"].left \ {token}
  BY <1>1 DEF NotifyTypeOK, NotifyInv, OneNotifier, Loops, Checks
<1>3. NotifyTypeOK'
  BY <1>2 DEF NotifyTypeOK
<1>4. OneNotifier' /\ OneAtATime' /\ SignedOnly'
  BY <1>2 DEF NotifyInv, OneNotifier, OneAtATime, SignedOnly
<1>5. ASSUME NEW i \in DOMAIN pushes'
      PROVE  /\ Recorded(pushes[i])' \/ BeingSent(pushes[i])'
             /\ \A a \in check'["rate"].alerts :
                    pushes'[i].key = DedupKey(a) => DueAgain(pushes[i], a)'
  <2>1. CASE i \in DOMAIN pushes /\ pushes'[i] = pushes[i]
    <3>1. Recorded(pushes[i])' \/ BeingSent(pushes[i])'
      BY <1>2, <2>1 DEF NotifyInv, Accounted, Recorded, BeingSent
    <3>2. ASSUME NEW a \in check'["rate"].alerts, pushes'[i].key = DedupKey(a)
          PROVE  DueAgain(pushes[i], a)'
      <4>1. DueAgain(pushes[i], a)
        BY <1>2, <2>1, <3>2 DEF NotifyInv, AlertsAreDue
      <4> QED
        BY <1>2, <2>1, <4>1 DEF DueAgain, BeingSent
    <3> QED
      BY <3>1, <3>2
  <2>2. CASE /\ pushes'[i].key = DedupKey(alert)
             /\ pushes'[i].series = alert.series
             /\ pushes'[i].ts = check["rate"].ts
             /\ pushes'[i].device = token
    <3>1. BeingSent(pushes[i])'
      BY <1>2, <2>2 DEF BeingSent
    <3> QED
      BY <1>2, <2>2, <3>1 DEF DueAgain
  <2> QED
    BY <2>1, <2>2
<1>6. Accounted' /\ AlertsAreDue'
  BY <1>5 DEF Accounted, AlertsAreDue
<1> QED
  BY <1>3, <1>4, <1>6 DEF NotifyInv

LEMMA SendReturned ==
    ASSUME NotifyTypeOK, NotifyInv, CheckBegun, now \in Nat, SendApns("rate", now)
    PROVE  NotifyTypeOK' /\ NotifyInv'
<1>1. PICK alert \in check["rate"].current, token \in check["rate"].left :
        /\ \/ pushes' = Append(pushes,
                      [key |-> DedupKey(alert), series |-> alert.series,
                       device |-> token, ts |-> check["rate"].ts, at |-> now])
           \/ pushes' = pushes
        /\ IF check["rate"].left = {token}
           THEN AlertDone("rate", alert)
           ELSE /\ check' = [check EXCEPT !["rate"].left = @ \ {token}]
                /\ UNCHANGED sentAlerts
  BY DEF SendApns
<1> DEFINE p == [key |-> DedupKey(alert), series |-> alert.series,
                 device |-> token, ts |-> check["rate"].ts, at |-> now]
<1>2. /\ check["rate"].phase = "sending"
      /\ apns = "ready"
      /\ UNCHANGED <<apns, devices>>
  BY DEF SendApns
<1>3. p \in Pushes
  <2>1. check["rate"] \in Checks /\ alert \in check["rate"].alerts
    BY <1>2 DEF NotifyTypeOK, NotifyInv, OneAtATime, Loops
  <2>2. alert \in Alerts /\ token \in Devices /\ check["rate"].ts \in Nat
    BY <2>1 DEF Checks
  <2> QED
    BY <2>2, DedupKeyType DEF Pushes, Alerts
<1>4. /\ pushes' \in Seq(Pushes)
      /\ \A i \in DOMAIN pushes' :
            \/ i \in DOMAIN pushes /\ pushes'[i] = pushes[i]
            \/ pushes'[i] = p
      /\ RepeatsAreSpaced'
  <2>1. CASE pushes' = pushes
    BY <2>1, PushType DEF NotifyInv, RepeatsAreSpaced
  <2>2. CASE pushes' = Append(pushes, p)
    <3>1. RepeatsAreSpaced'
      BY <1>2, <2>2, PushIsSpaced
    <3>2. /\ pushes' \in Seq(Pushes)
          /\ DOMAIN pushes' = 1 .. Len(pushes) + 1
          /\ \A i \in DOMAIN pushes : pushes'[i] = pushes[i]
          /\ pushes'[Len(pushes) + 1] = p
      <4> HIDE DEF p
      <4> QED
        BY <1>3, <2>2, PushType, AppendProperties, LenProperties
    <3> QED
      BY <3>1, <3>2, PushType
  <2> QED
    BY <1>1, <2>1, <2>2
<1>5. /\ p.key = DedupKey(alert) /\ p.series = alert.series
      /\ p.device = token /\ p.ts = check["rate"].ts
  OBVIOUS
<1> HIDE DEF p
<1>6. CASE AlertDone("rate", alert)
  BY <1>2, <1>4, <1>5, <1>6, AlertRecorded
<1>7. CASE /\ check' = [check EXCEPT !["rate"].left = @ \ {token}]
           /\ UNCHANGED sentAlerts
  BY <1>2, <1>4, <1>5, <1>7, TokenDone
<1> QED
  BY <1>1, <1>6, <1>7

-----------------------------------------------------------------------------
(* The loops and the caches *)

CacheTypeOK ==
    /\ rateLimitsCache \subseteq Entries([key : Keys, limits : SUBSET Readings])
    /\ usageCache \subseteq Entries([key : Keys])
    /\ costsCache \subseteq Entries([key : Keys, costs : BOOLEAN])
    /\ snapshotCache \subseteq Entries(Snapshots)
    /\ historyStore \in [Pairs -> Seq(Points)]

PollTypeOK ==
    /\ now \in Nat
    /\ restarts \in Nat
    /\ apiKeys \subseteq Rows
    /\ loop \in [Loops -> LoopStates]

LEMMA TypeParts == TypeOK <=> CacheTypeOK /\ NotifyTypeOK /\ PollTypeOK
BY DEF TypeOK, CacheTypeOK, NotifyTypeOK, PollTypeOK

(* The part of the invariant that a change of everything but the loops and *)
(* the checks leaves alone.                                                *)
LEMMA IInvParts ==
    ASSUME CacheTypeOK', PollTypeOK', NotifyTypeOK', NotifyInv', ChecksAwaited'
    PROVE  StateInv'
<1>1. TypeOK'
  BY DEF TypeOK, CacheTypeOK, NotifyTypeOK, PollTypeOK
<1> QED
  BY <1>1 DEF StateInv

LEMMA CallFields ==
    ASSUME PollTypeOK, NEW l \in Loops, loop[l].pc \in {"limits", "usage", "costs"}
    PROVE  /\ loop[l] \in CallStates
           /\ loop[l].record \in Rows
           /\ loop[l].record.pair \in Pairs
           /\ loop[l].record.key \in Keys
           /\ loop[l].queue \subseteq Rows
           /\ loop[l].startedAt \in Nat
           /\ loop[l].error \in Errors
<1>1. loop[l] \in CallStates
  BY DEF PollTypeOK, LoopStates, SleepStates, NotifyStates
<1> QED
  BY <1>1 DEF CallStates, Rows

LEMMA NotifyFields ==
    ASSUME PollTypeOK, NEW l \in Loops, loop[l].pc = "notify"
    PROVE  /\ loop[l].record.pair \in Pairs
           /\ loop[l].queue \subseteq Rows
           /\ loop[l].point \in Points
<1>1. loop[l] \in NotifyStates
  BY DEF PollTypeOK, LoopStates, SleepStates, CallStates
<1> QED
  BY <1>1 DEF NotifyStates, Rows

LEMMA ContinueType ==
    ASSUME PollTypeOK, NEW l \in Loops, NEW queue \in SUBSET Rows, Continue(l, queue)
    PROVE  /\ loop' \in [Loops -> LoopStates]
           /\ loop'[l].pc # "notify"
           /\ \A m \in Loops \ {l} : loop'[m] = loop[m]
<1>1. CASE loop' = [loop EXCEPT ![l] = Asleep(now + Interval(l))]
  <2>1. now + Interval(l) \in Nat
    BY PollingAssumption DEF PollTypeOK, PollingAssumption, Interval
  <2>2. Asleep(now + Interval(l)) \in LoopStates
    BY <2>1 DEF Asleep, SleepStates, LoopStates
  <2>3. Asleep(now + Interval(l)).pc = "sleep"
    BY DEF Asleep
  <2> QED
    BY <1>1, <2>2, <2>3 DEF PollTypeOK
<1>2. CASE \E r \in queue : loop' = [loop EXCEPT ![l] =
                    Calling(FirstCall(l), r, queue \ {r}, now, "none")]
  <2>1. PICK r \in queue : loop' = [loop EXCEPT ![l] =
                    Calling(FirstCall(l), r, queue \ {r}, now, "none")]
    BY <1>2
  <2> DEFINE next == Calling(FirstCall(l), r, queue \ {r}, now, "none")
  <2>2. next \in CallStates
    BY DEF Calling, CallStates, FirstCall, Errors, PollTypeOK
  <2>3. next \in LoopStates /\ next.pc # "notify"
    BY <2>2 DEF CallStates, LoopStates
  <2> QED
    BY <2>1, <2>3 DEF PollTypeOK
<1> QED
  BY <1>1, <1>2 DEF Continue

LEMMA CyclesStart ==
    ASSUME StateInv, NEW l \in Loops, StartCycle(l)
    PROVE  StateInv'
<1> DEFINE due == {r \in apiKeys : r.key \notin Undecryptable}
<1>1. CacheTypeOK /\ NotifyTypeOK /\ PollTypeOK /\ NotifyInv
  BY TypeParts DEF StateInv
<1>2. due \in SUBSET Rows /\ {} \in SUBSET Rows
  BY <1>1 DEF PollTypeOK
<1>3. /\ Continue(l, due) \/ Continue(l, {})
      /\ UNCHANGED <<cacheVars, notifyVars, now, apiKeys, restarts>>
      /\ loop[l].pc = "sleep"
  BY DEF StartCycle
<1>4. /\ loop' \in [Loops -> LoopStates]
      /\ \A m \in Loops \ {l} : loop'[m] = loop[m]
  BY <1>1, <1>2, <1>3, ContinueType
<1>5. PollTypeOK' /\ CacheTypeOK'
  BY <1>1, <1>3, <1>4 DEF PollTypeOK, CacheTypeOK, cacheVars
<1>6. ChecksAwaited'
  BY <1>3, <1>4 DEF StateInv, ChecksAwaited, notifyVars
<1>7. NotifyTypeOK' /\ NotifyInv'
  BY <1>1, <1>3, NotifyUnchanged
<1> QED
  BY <1>5, <1>6, <1>7, IInvParts

(* _poll_user_provider goes on after check_and_notify: to the next await   *)
(* of the check, or to the end of the poll.                                *)
LEMMA NotifyReturns ==
    ASSUME CacheTypeOK, PollTypeOK, NEW l \in Loops,
           NEW pair \in Pairs, NEW queue \in SUBSET Rows, NEW point \in Points,
           RecordDone(l, pair, queue, point)
    PROVE  /\ historyStore' \in [Pairs -> Seq(Points)]
           /\ loop' \in [Loops -> LoopStates]
           /\ \A m \in Loops \ {l} : loop'[m] = loop[m]
BY AppendHistoryType, ContinueType DEF CacheTypeOK, RecordDone

LEMMA Published ==
    ASSUME StateInv, NEW l \in Loops, loop[l].pc \in {"limits", "costs"},
           NEW limits \in SUBSET Readings, l = "usage" => limits = {},
           NEW costs \in BOOLEAN, NEW error \in Errors,
           Publish(l, limits, costs, error),
           rateLimitsCache' \subseteq Entries([key : Keys, limits : SUBSET Readings]),
           costsCache' \subseteq Entries([key : Keys, costs : BOOLEAN]),
           UNCHANGED <<usageCache, now, apiKeys, restarts>>
    PROVE  StateInv'
<1> DEFINE pair     == loop[l].record.pair
           queue    == loop[l].queue
           snapshot == Snapshot(l, limits, costs, error)
           point    == HistoryPoint(l, limits, costs)
<1>1. CacheTypeOK /\ NotifyTypeOK /\ PollTypeOK /\ NotifyInv
  BY TypeParts DEF StateInv
<1>2. /\ loop[l].record \in Rows
      /\ pair \in Pairs
      /\ loop[l].record.key \in Keys
      /\ queue \in SUBSET Rows
      /\ loop[l].startedAt \in Nat
  BY <1>1, CallFields
<1>3. snapshot \in Snapshots /\ snapshot.limits = limits
  BY <1>2 DEF Snapshot, Snapshots
<1>4. point \in Points
  BY <1>2 DEF HistoryPoint, Points
<1>5. /\ snapshotCache' \in Put(snapshotCache, pair, snapshot, now, TTLRateLimits)
      /\ CheckAndNotify(l, pair, limits, now)
      /\ \/ check'[l] = Idle /\ RecordDone(l, pair, queue, point)
         \/ /\ loop' = [loop EXCEPT ![l] = Notifying(loop[l].record, queue, point)]
            /\ UNCHANGED historyStore
  BY <1>3 DEF Publish
<1> HIDE DEF pair, queue, snapshot, point
<1>6. now \in Nat /\ TTLRateLimits \in Nat
  BY <1>1, CacheAssumption DEF PollTypeOK, CacheAssumption
<1>7. snapshotCache' \subseteq Entries(Snapshots)
  BY <1>1, <1>2, <1>3, <1>5, <1>6, PutType DEF CacheTypeOK
<1>8. check[l] = Idle
  BY DEF StateInv, ChecksAwaited
<1>9. NotifyTypeOK' /\ NotifyInv'
  <2>1. CASE l = "rate"
    BY <1>1, <1>2, <1>5, <1>6, <1>8, <2>1, CheckStarts
  <2>2. CASE l = "usage"
    <3>1. UNCHANGED notifyVars
      BY <1>1, <1>5, <2>2, UsageNotifiesNothing DEF NotifyInv
    <3> QED
      BY <1>1, <3>1, NotifyUnchanged
  <2> QED
    BY <2>1, <2>2 DEF Loops
<1>10. \A m \in Loops \ {l} : check'[m] = check[m]
  BY <1>1, <1>5 DEF CheckAndNotify, NotifyTypeOK
<1>11. /\ historyStore' \in [Pairs -> Seq(Points)]
       /\ loop' \in [Loops -> LoopStates]
       /\ \A m \in Loops \ {l} : loop'[m] = loop[m]
       /\ check'[l] = Idle \/ loop'[l].pc = "notify"
  <2>1. CASE check'[l] = Idle /\ RecordDone(l, pair, queue, point)
    BY <1>1, <1>2, <1>4, <2>1, NotifyReturns
  <2>2. CASE /\ loop' = [loop EXCEPT ![l] = Notifying(loop[l].record, queue, point)]
             /\ UNCHANGED historyStore
    <3>1. Notifying(loop[l].record, queue, point) \in NotifyStates
      BY <1>2, <1>4 DEF Notifying, NotifyStates
    <3>2. /\ Notifying(loop[l].record, queue, point) \in LoopStates
          /\ Notifying(loop[l].record, queue, point).pc = "notify"
      BY <3>1 DEF NotifyStates, LoopStates
    <3> QED
      BY <1>1, <2>2, <3>2 DEF PollTypeOK, CacheTypeOK
  <2> QED
    BY <1>5, <2>1, <2>2
<1>12. ChecksAwaited'
  BY <1>10, <1>11 DEF StateInv, ChecksAwaited
<1>13. CacheTypeOK' /\ PollTypeOK'
  BY <1>1, <1>7, <1>11 DEF CacheTypeOK, PollTypeOK
<1> QED
  BY <1>9, <1>12, <1>13, IInvParts

LEMMA RateLimitsKeepIInv ==
    ASSUME StateInv, RateLimitsReturn
    PROVE  StateInv'
<1> DEFINE record == loop["rate"].record
<1>1. CacheTypeOK /\ NotifyTypeOK /\ PollTypeOK
  BY TypeParts DEF StateInv
<1>2. /\ loop["rate"].pc = "limits"
      /\ UNCHANGED <<usageCache, costsCache, now, apiKeys, restarts>>
      /\ costsCache' \subseteq Entries([key : Keys, costs : BOOLEAN])
  BY <1>1 DEF RateLimitsReturn, CacheTypeOK
<1>3. record.pair \in Pairs /\ record.key \in Keys
  BY <1>1, <1>2, CallFields DEF Loops
<1>4. ASSUME NEW limits \in RateLimitReplies,
             rateLimitsCache' \in
                 Put(rateLimitsCache, record.pair,
                     [key |-> record.key, limits |-> limits], now, TTLRateLimits),
             Publish("rate", limits, FALSE, "none")
      PROVE  StateInv'
  <2>1. limits \in SUBSET Readings
    BY RepliesType
  <2>2. rateLimitsCache' \subseteq Entries([key : Keys, limits : SUBSET Readings])
    BY <1>1, <1>3, <1>4, <2>1, PutType, CacheAssumption
       DEF CacheTypeOK, PollTypeOK, CacheAssumption
  <2> QED
    BY <1>2, <1>4, <2>1, <2>2, Published DEF Loops, Errors
<1>5. CASE UNCHANGED rateLimitsCache /\ Publish("rate", {}, FALSE, "rate")
  BY <1>1, <1>2, <1>5, Published DEF CacheTypeOK, Loops, Errors
<1> QED
  BY <1>4, <1>5 DEF RateLimitsReturn

LEMMA UsageKeepsIInv ==
    ASSUME StateInv, UsageReturn
    PROVE  StateInv'
<1> DEFINE record == loop["usage"].record
<1>1. CacheTypeOK /\ NotifyTypeOK /\ PollTypeOK /\ NotifyInv
  BY TypeParts DEF StateInv
<1>2. /\ loop["usage"].pc = "usage"
      /\ UNCHANGED <<rateLimitsCache, costsCache, snapshotCache, historyStore,
                     notifyVars, now, apiKeys, restarts>>
  BY DEF UsageReturn
<1>3. /\ loop["usage"] \in CallStates
      /\ record.pair \in Pairs
      /\ record.key \in Keys
  BY <1>1, <1>2, CallFields DEF Loops
<1>4. usageCache' \subseteq Entries([key : Keys])
  <2>1. CASE usageCache' \in
               Put(usageCache, record.pair, [key |-> record.key], now, TTLUsage)
    BY <1>1, <1>3, <2>1, PutType, CacheAssumption
       DEF CacheTypeOK, PollTypeOK, CacheAssumption
  <2>2. CASE UNCHANGED usageCache
    BY <1>1, <2>2 DEF CacheTypeOK
  <2> QED
    BY <2>1, <2>2 DEF UsageReturn
<1>5. /\ loop' \in [Loops -> LoopStates]
      /\ loop'["usage"].pc = "costs"
      /\ loop'["rate"] = loop["rate"]
  <2>1. PICK e \in Errors :
          loop' = [loop EXCEPT !["usage"].pc = "costs", !["usage"].error = e]
    <3>1. CASE loop' = [loop EXCEPT !["usage"].pc = "costs"]
      BY <1>1, <1>3, <3>1 DEF PollTypeOK, CallStates, Loops
    <3>2. CASE loop' = [loop EXCEPT !["usage"].pc = "costs",
                                    !["usage"].error = "usage"]
      BY <3>2 DEF Errors
    <3> QED
      BY <3>1, <3>2 DEF UsageReturn
  <2>2. loop'["usage"] \in CallStates /\ loop'["usage"].pc = "costs"
    BY <1>1, <1>3, <2>1 DEF PollTypeOK, CallStates, Loops
  <2> QED
    BY <1>1, <2>1, <2>2 DEF PollTypeOK, LoopStates, Loops
<1>6. CacheTypeOK' /\ PollTypeOK'
  BY <1>1, <1>2, <1>4, <1>5 DEF CacheTypeOK, PollTypeOK
<1>7. ChecksAwaited'
  BY <1>2, <1>5 DEF StateInv, ChecksAwaited, notifyVars, Loops
<1>8. NotifyTypeOK' /\ NotifyInv'
  BY <1>1, <1>2, NotifyUnchanged
<1> QED
  BY <1>6, <1>7, <1>8, IInvParts

LEMMA CostsKeepIInv ==
    ASSUME StateInv, CostsReturn
    PROVE  StateInv'
<1> DEFINE record == loop["usage"].record
           error  == loop["usage"].error
<1>1. CacheTypeOK /\ NotifyTypeOK /\ PollTypeOK
  BY TypeParts DEF StateInv
<1>2. /\ loop["usage"].pc = "costs"
      /\ UNCHANGED <<rateLimitsCache, usageCache, now, apiKeys, restarts>>
      /\ rateLimitsCache' \subseteq Entries([key : Keys, limits : SUBSET Readings])
  BY <1>1 DEF CostsReturn, CacheTypeOK
<1>3. record.pair \in Pairs /\ record.key \in Keys /\ error \in Errors
  BY <1>1, <1>2, CallFields DEF Loops
<1>4. ASSUME NEW costs \in BOOLEAN,
             costsCache' \in
                 Put(costsCache, record.pair,
                     [key |-> record.key, costs |-> costs], now, TTLCosts),
             Publish("usage", {}, costs, error)
      PROVE  StateInv'
  <2>1. costsCache' \subseteq Entries([key : Keys, costs : BOOLEAN])
    <3>1. [key |-> record.key, costs |-> costs] \in [key : Keys, costs : BOOLEAN]
      BY <1>3
    <3>2. /\ now \in Nat
          /\ TTLCosts \in Nat
          /\ costsCache \subseteq Entries([key : Keys, costs : BOOLEAN])
      BY <1>1, CacheAssumption DEF PollTypeOK, CacheTypeOK, CacheAssumption
    <3> QED
      BY <1>3, <1>4, <3>1, <3>2, PutType
  <2> QED
    BY <1>2, <1>3, <1>4, <2>1, Published DEF Loops
<1>5. CASE /\ UNCHANGED costsCache
           /\ Publish("usage", {}, FALSE,
                      IF error = "none" THEN "costs" ELSE error)
  <2>1. (IF error = "none" THEN "costs" ELSE error) \in Errors
    BY <1>3 DEF Errors
  <2> QED
    BY <1>1, <1>2, <1>5, <2>1, Published DEF CacheTypeOK, Loops
<1> QED
  BY <1>4, <1>5 DEF CostsReturn

(* A check_and_notify under way reaches its next await, or returns. *)
LEMMA ChecksKeepIInv ==
    ASSUME IInv, NEW l \in Loops,
           TokensReturn(l) \/ SendReturns(l) \/ SigningFails(l)
    PROVE  StateInv'
<1>1. CacheTypeOK /\ NotifyTypeOK /\ PollTypeOK /\ NotifyInv
  BY TypeParts DEF IInv, StateInv
<1>2. loop[l].pc = "notify" /\ Resumed(l)
  BY DEF TokensReturn, SendReturns, SigningFails
<1>3. l = "rate"
  <2>1. check[l].phase # "idle"
    BY DEF TokensReturn, SendReturns, SigningFails, GetDeviceTokens, SendApns,
           ApnsKeyFails
  <2> QED
    BY <1>1, <2>1, IdleType DEF NotifyInv, OneNotifier, Loops
<1>4. NotifyTypeOK' /\ NotifyInv'
  <2>1. CASE GetDeviceTokens("rate")
    BY <1>1, <2>1, DeviceTokensReturn
  <2>2. CASE SendApns("rate", now)
    BY <1>1, <2>2, SendReturned DEF IInv, PollTypeOK
  <2>3. CASE ApnsKeyFails("rate")
    BY <1>1, <2>3, CheckDropped DEF ApnsKeyFails
  <2> QED
    BY <1>3, <2>1, <2>2, <2>3 DEF TokensReturn, SendReturns, SigningFails
<1>5. check'["usage"] = Idle
  BY <1>4 DEF NotifyInv, OneNotifier
<1>6. /\ UNCHANGED <<rateLimitsCache, usageCache, costsCache, snapshotCache,
                     now, apiKeys, restarts>>
      /\ \/ check'[l] = Idle /\ RecordDone(l, loop[l].record.pair, loop[l].queue,
                                           loop[l].point)
         \/ UNCHANGED <<loop, historyStore>>
  BY <1>2 DEF Resumed
<1>7. /\ historyStore' \in [Pairs -> Seq(Points)]
      /\ loop' \in [Loops -> LoopStates]
      /\ check'[l] = Idle \/ loop'[l].pc = "notify"
  <2>1. CASE /\ check'[l] = Idle
             /\ RecordDone(l, loop[l].record.pair, loop[l].queue, loop[l].point)
    BY <1>1, <1>2, <2>1, NotifyFields, NotifyReturns
  <2>2. CASE UNCHANGED <<loop, historyStore>>
    BY <1>1, <1>2, <2>2 DEF CacheTypeOK, PollTypeOK
  <2> QED
    BY <1>6, <2>1, <2>2
<1>8. ChecksAwaited'
  BY <1>3, <1>5, <1>7 DEF ChecksAwaited, Loops
<1>9. CacheTypeOK' /\ PollTypeOK'
  BY <1>1, <1>6, <1>7 DEF CacheTypeOK, PollTypeOK
<1> QED
  BY <1>4, <1>8, <1>9, IInvParts

-----------------------------------------------------------------------------
(* The API, the clock and the process *)

LEMMA ApiKeepsIInv ==
    ASSUME StateInv,
           \/ \E pair \in Pairs, key \in Keys : AddProvider(pair, key)
           \/ \E row \in apiKeys : DeleteProvider(row)
    PROVE  StateInv'
<1>1. CacheTypeOK /\ NotifyTypeOK /\ PollTypeOK /\ NotifyInv
  BY TypeParts DEF StateInv
<1>2. /\ UNCHANGED <<cacheVars, notifyVars, now, loop, restarts>>
      /\ apiKeys' \subseteq Rows
  BY <1>1 DEF AddProvider, DeleteProvider, Rows, PollTypeOK
<1>3. CacheTypeOK' /\ PollTypeOK'
  BY <1>1, <1>2 DEF CacheTypeOK, PollTypeOK, cacheVars
<1>4. ChecksAwaited'
  BY <1>2 DEF StateInv, ChecksAwaited, notifyVars
<1>5. NotifyTypeOK' /\ NotifyInv'
  BY <1>1, <1>2, NotifyUnchanged
<1> QED
  BY <1>3, <1>4, <1>5, IInvParts

LEMMA DevicesKeepIInv ==
    ASSUME StateInv, DeviceChange
    PROVE  StateInv'
<1>1. CacheTypeOK /\ NotifyTypeOK /\ PollTypeOK /\ NotifyInv
  BY TypeParts DEF StateInv
<1>2. /\ UNCHANGED <<cacheVars, pollVars>>
      /\ UNCHANGED <<apns, sentAlerts, check, pushes>>
      /\ devices' \subseteq Users \X Devices
  <2>1. devices \subseteq Users \X Devices
    BY <1>1 DEF NotifyTypeOK
  <2>2. PICK user \in Users, token \in Devices :
          RegisterDevice(user, token) \/ UnregisterDevice(user, token)
    BY DEF DeviceChange
  <2>3. \/ devices' = devices \cup {<<user, token>>}
        \/ devices' = devices \ {<<user, token>>}
    BY <2>2 DEF RegisterDevice, UnregisterDevice
  <2>4. devices' \subseteq Users \X Devices
    BY <2>1, <2>3
  <2> QED
    BY <2>2, <2>4 DEF DeviceChange, RegisterDevice, UnregisterDevice
<1>3. CacheTypeOK' /\ PollTypeOK' /\ NotifyTypeOK'
  BY <1>1, <1>2 DEF CacheTypeOK, PollTypeOK, NotifyTypeOK, cacheVars, pollVars
<1>4. ChecksAwaited'
  BY <1>2 DEF StateInv, ChecksAwaited, pollVars
<1>5. NotifyInv'
  BY <1>1, <1>2 DEF NotifyInv, OneNotifier, OneAtATime, SignedOnly, Accounted,
                    Recorded, BeingSent, AlertsAreDue, DueAgain, RepeatsAreSpaced
<1> QED
  BY <1>3, <1>4, <1>5, IInvParts

LEMMA TickKeepsIInv ==
    ASSUME StateInv, Tick
    PROVE  StateInv'
<1>1. CacheTypeOK /\ NotifyTypeOK /\ PollTypeOK /\ NotifyInv
  BY TypeParts DEF StateInv
<1>2. /\ UNCHANGED <<notifyVars, apiKeys, loop, restarts>>
      /\ now' = now + 1
      /\ CachesExpire(now + 1)
  BY DEF Tick
<1>3. CacheTypeOK'
  BY <1>1, <1>2 DEF CacheTypeOK, CachesExpire, Unexpired
<1>4. PollTypeOK'
  BY <1>1, <1>2 DEF PollTypeOK
<1>5. ChecksAwaited'
  BY <1>2 DEF StateInv, ChecksAwaited, notifyVars
<1>6. NotifyTypeOK' /\ NotifyInv'
  BY <1>1, <1>2, NotifyUnchanged
<1> QED
  BY <1>3, <1>4, <1>5, <1>6, IInvParts

(* A process that has just started, whatever the database holds. *)
FreshProcessState ==
    /\ apns \in ApnsSettings
    /\ devices \subseteq Users \X Devices
    /\ sentAlerts = {}
    /\ check = [c \in Callers |-> Idle]
    /\ pushes = << >>

LEMMA FreshProcess == FreshProcessState => NotifyTypeOK /\ NotifyInv /\ ChecksAwaited
<1> SUFFICES ASSUME FreshProcessState PROVE NotifyTypeOK /\ NotifyInv /\ ChecksAwaited
  OBVIOUS
<1>1. /\ check \in [Loops -> Checks]
      /\ check["rate"] = Idle
      /\ check["usage"] = Idle
  BY PollingAssumption, IdleType DEF FreshProcessState, PollingAssumption, Loops
<1>2. pushes \in Seq(Pushes) /\ DOMAIN pushes = {}
  BY EmptySeq DEF FreshProcessState
<1>3. NotifyTypeOK
  <2>1. apns \in {"off", "unusable key", "ready"}
    BY NotificationsAssumption DEF NotificationsAssumption, FreshProcessState
  <2> QED
    BY <1>1, <1>2, <2>1 DEF NotifyTypeOK, FreshProcessState
<1>4. OneNotifier /\ OneAtATime /\ AlertsAreDue
  BY <1>1, IdleType DEF OneNotifier, OneAtATime, AlertsAreDue, Idle
<1>5. SignedOnly /\ Accounted /\ RepeatsAreSpaced
  BY <1>2 DEF SignedOnly, Accounted, RepeatsAreSpaced, FreshProcessState
<1> QED
  BY <1>1, <1>3, <1>4, <1>5 DEF NotifyInv, ChecksAwaited, Loops

LEMMA EmptyHistory == [pair \in Pairs |-> << >>] \in [Pairs -> Seq(Points)]
BY EmptySeq

LEMMA RestartKeepsIInv ==
    ASSUME StateInv, Restart
    PROVE  StateInv'
<1>1. CacheTypeOK /\ NotifyTypeOK /\ PollTypeOK
  BY TypeParts DEF StateInv
<1>2. CacheTypeOK'
  BY EmptyHistory DEF Restart, CachesCleared, CacheTypeOK
<1>3. PollTypeOK'
  BY <1>1 DEF Restart, PollTypeOK, Asleep, LoopStates, SleepStates
<1>4. FreshProcessState'
  BY <1>1 DEF Restart, NotifyRestart, NotifyTypeOK, FreshProcessState
<1>5. NotifyTypeOK' /\ NotifyInv' /\ ChecksAwaited'
  BY <1>4, FreshProcess, PTL
<1> QED
  BY <1>2, <1>3, <1>5, IInvParts

-----------------------------------------------------------------------------
(* The clock: a check begins at the time of its loop's step, or there is   *)
(* none and its time is 0.                                                 *)
LEMMA NextKeepsCheckBegun ==
    ASSUME IInv, [Next]_vars
    PROVE  CheckBegun'
<1>1. /\ now \in Nat /\ check \in [Loops -> Checks] /\ check["usage"] = Idle
      /\ check["rate"] \in Checks /\ check["rate"].ts \in Nat
      /\ check["rate"].ts <= now
  BY DEF IInv, StateInv, TypeOK, CheckBegun, NotifyInv, OneNotifier, Loops, Checks
<1>2. now' = now \/ now' = now + 1
  BY DEF Next, vars, pollVars, StartCycle, LoopStep, RateLimitsReturn, UsageReturn,
         CostsReturn, TokensReturn, SendReturns, SigningFails, Resumed, AddProvider,
         DeleteProvider, DeviceChange, Tick, Restart
<1>3. ASSUME NEW l \in Loops, NEW pair, NEW limits, CheckAndNotify(l, pair, limits, now)
      PROVE  check'["rate"].ts \in {0, now, check["rate"].ts}
  <2>1. PICK alerts : \/ check' = [check EXCEPT ![l] = Idle]
                      \/ check' = [check EXCEPT ![l] =
                            [Idle EXCEPT !.phase = "devices", !.ts = now,
                                         !.alerts = alerts]]
    BY <1>3 DEF CheckAndNotify
  <2> DEFINE begun == [Idle EXCEPT !.phase = "devices", !.ts = now, !.alerts = alerts]
  <2>2. Idle.ts = 0 /\ begun.ts = now
    BY DEF Idle
  <2> HIDE DEF begun
  <2>3. CASE check' = [check EXCEPT ![l] = Idle]
    BY <1>1, <2>2, <2>3 DEF Loops
  <2>4. CASE check' = [check EXCEPT ![l] = begun]
    BY <1>1, <2>2, <2>4 DEF Loops
  <2> QED
    BY <2>1, <2>3, <2>4 DEF begun
<1>4. ASSUME NEW l \in Loops, TokensReturn(l) \/ SendReturns(l) \/ SigningFails(l)
      PROVE  check'["rate"].ts \in {0, check["rate"].ts}
  <2>1. CASE check' = [check EXCEPT ![l] = Idle]
    BY <1>1, <2>1 DEF Idle, Loops
  <2>2. CASE check'[l].ts = check[l].ts /\ \A m \in Loops \ {l} : check'[m] = check[m]
    BY <1>1, <2>2 DEF Loops
  <2>3. check[l] \in Checks
    BY <1>1
  <2>4. \/ check' = [check EXCEPT ![l] = Idle]
        \/ check'[l].ts = check[l].ts /\ \A m \in Loops \ {l} : check'[m] = check[m]
    <3>0. ASSUME NEW later, later.ts = check[l].ts, check' = [check EXCEPT ![l] = later]
          PROVE  check'[l].ts = check[l].ts /\ \A m \in Loops \ {l} : check'[m] = check[m]
      BY <1>1, <3>0
    <3>1. CASE GetDeviceTokens(l)
      <4>1. CASE check' = [check EXCEPT ![l] = Idle]
        BY <4>1
      <4>2. ASSUME NEW a, NEW tokens,
                   check' = [check EXCEPT ![l] =
                       [@ EXCEPT !.phase = "sending", !.current = {a},
                                 !.tokens = tokens, !.left = tokens]]
            PROVE  check'[l].ts = check[l].ts /\ \A m \in Loops \ {l} : check'[m] = check[m]
        <5> DEFINE later == [check[l] EXCEPT !.phase = "sending", !.current = {a},
                                             !.tokens = tokens, !.left = tokens]
        <5>1. later.ts = check[l].ts
          BY <2>3 DEF Checks
        <5>2. check' = [check EXCEPT ![l] = later]
          BY <4>2
        <5> HIDE DEF later
        <5> QED
          BY <3>0, <5>1, <5>2
      <4> QED
        BY <3>1, <4>1, <4>2 DEF GetDeviceTokens
    <3>2. CASE SendApns(l, now)
      <4>1. ASSUME NEW token, check' = [check EXCEPT ![l].left = @ \ {token}]
            PROVE  check'[l].ts = check[l].ts /\ \A m \in Loops \ {l} : check'[m] = check[m]
        BY <1>1, <2>3, <4>1 DEF Checks
      <4>2. ASSUME NEW a, AlertDone(l, a), check' # [check EXCEPT ![l] = Idle]
            PROVE  check'[l].ts = check[l].ts /\ \A m \in Loops \ {l} : check'[m] = check[m]
        <5>1. PICK next : check' = [check EXCEPT ![l] =
                        [@ EXCEPT !.alerts = check[l].alerts \ {a}, !.current = {next},
                                  !.left = check[l].tokens]]
          BY <4>2 DEF AlertDone
        <5> DEFINE later == [check[l] EXCEPT !.alerts = check[l].alerts \ {a},
                                 !.current = {next}, !.left = check[l].tokens]
        <5>2. later.ts = check[l].ts
          BY <2>3 DEF Checks
        <5>3. check' = [check EXCEPT ![l] = later]
          BY <5>1
        <5> HIDE DEF later
        <5> QED
          BY <3>0, <5>2, <5>3
      <4> QED
        BY <3>2, <4>1, <4>2 DEF SendApns
    <3>3. CASE ApnsKeyFails(l)
      BY <3>3 DEF ApnsKeyFails
    <3> QED
      BY <1>4, <3>1, <3>2, <3>3 DEF TokensReturn, SendReturns, SigningFails
  <2> QED
    BY <2>1, <2>2, <2>4
<1>5. check'["rate"].ts \in {0, now, check["rate"].ts}
  <2>1. ASSUME NEW l \in Loops, LoopStep(l)
        PROVE  check'["rate"].ts \in {0, now, check["rate"].ts}
    <3>1. CASE RateLimitsReturn \/ CostsReturn
      BY <1>3, <3>1 DEF RateLimitsReturn, CostsReturn, Publish, Loops
    <3>2. CASE UsageReturn
      BY <3>2 DEF UsageReturn, notifyVars
    <3> QED
      BY <1>4, <2>1, <3>1, <3>2 DEF LoopStep
  <2>2. CASE Restart
    <3>1. check' = [c \in Callers |-> Idle]
      BY <2>2 DEF Restart, NotifyRestart
    <3> QED
      BY <3>1, PollingAssumption DEF PollingAssumption, Loops, Idle
  <2>3. CASE UNCHANGED check
    BY <2>3
  <2> QED
    BY <2>1, <2>2, <2>3 DEF Next, vars, notifyVars, StartCycle, AddProvider,
       DeleteProvider, DeviceChange, RegisterDevice, UnregisterDevice, Tick
<1>6. \A t, n \in Nat : t <= n => t <= n + 1 /\ 0 <= n /\ n <= n + 1
  OBVIOUS
<1> QED
  BY <1>1, <1>2, <1>5, <1>6 DEF CheckBegun

-----------------------------------------------------------------------------
LEMMA InitIInv == Init => IInv
<1> SUFFICES ASSUME Init PROVE IInv
  OBVIOUS
<1>1. CacheTypeOK
  BY EmptyHistory DEF Init, CacheInit, CacheTypeOK
<1>2. PollTypeOK
  BY DEF Init, PollTypeOK, Asleep, LoopStates, SleepStates
<1>3. NotifyTypeOK /\ NotifyInv /\ ChecksAwaited
  BY FreshProcess DEF Init, NotifyInit, FreshProcessState
<1>4. CheckBegun
  BY PollingAssumption DEF Init, NotifyInit, CheckBegun, PollingAssumption, Loops, Idle
<1> QED
  BY <1>1, <1>2, <1>3, <1>4, TypeParts DEF IInv, StateInv

LEMMA NextKeepsIInv == IInv /\ [Next]_vars => IInv'
<1> SUFFICES ASSUME IInv, [Next]_vars PROVE StateInv'
  BY NextKeepsCheckBegun DEF IInv
<1> USE DEF IInv
<1>1. ASSUME NEW l \in Loops, StartCycle(l) PROVE StateInv'
  BY <1>1, CyclesStart
<1>2. ASSUME NEW l \in Loops, LoopStep(l) PROVE StateInv'
  BY <1>2, RateLimitsKeepIInv, UsageKeepsIInv, CostsKeepIInv, ChecksKeepIInv
     DEF LoopStep
<1>3. CASE \/ \E pair \in Pairs, key \in Keys \ Undecryptable : AddProvider(pair, key)
           \/ \E row \in apiKeys : DeleteProvider(row)
  BY <1>3, ApiKeepsIInv
<1>4. CASE DeviceChange
  BY <1>4, DevicesKeepIInv
<1>5. CASE Tick
  BY <1>5, TickKeepsIInv
<1>6. CASE Restart
  BY <1>6, RestartKeepsIInv
<1>7. CASE UNCHANGED vars
  <2>1. CacheTypeOK /\ NotifyTypeOK /\ PollTypeOK /\ NotifyInv
    BY TypeParts DEF StateInv
  <2>2. CacheTypeOK' /\ PollTypeOK'
    BY <1>7, <2>1 DEF vars, cacheVars, pollVars, CacheTypeOK, PollTypeOK
  <2>3. NotifyTypeOK' /\ NotifyInv'
    BY <1>7, <2>1, NotifyUnchanged DEF vars
  <2>4. ChecksAwaited'
    BY <1>7 DEF vars, notifyVars, pollVars, StateInv, ChecksAwaited
  <2> QED
    BY <2>2, <2>3, <2>4, IInvParts
<1> QED
  BY <1>1, <1>2, <1>3, <1>4, <1>5, <1>6, <1>7 DEF Next

LEMMA SpecIInv == Spec => []IInv
BY InitIInv, NextKeepsIInv, PTL DEF Spec

(* The background work of the backend keeps its data in shape, for any     *)
(* number of users, providers, models and devices and any settings.        *)
THEOREM TypeCorrect == Spec => []TypeOK
<1>1. IInv => TypeOK
  BY DEF IInv, StateInv
<1> QED
  BY <1>1, SpecIInv, PTL

(* service.py: within one process's life a device gets an alert again only *)
(* when DEDUP_WINDOW_SECONDS have passed since the check began which       *)
(* delivered it before, or from that check for another entry of the model; *)
(* although the dedup store is read before the awaits of a check and       *)
(* written after them.                                                     *)
THEOREM AlertsAreSpaced == Spec => []RepeatsAreSpaced
<1>1. IInv => RepeatsAreSpaced
  BY DEF IInv, StateInv, NotifyInv
<1> QED
  BY <1>1, SpecIInv, PTL
==============================================================================
