---------------------------- MODULE Notifications ----------------------------
(***************************************************************************)
(* app/notifications/service.py.  check_and_notify is a coroutine: it      *)
(* filters the alerts of one snapshot against the in-memory dedup store,   *)
(* awaits the device table, then awaits APNs once per alert and device,    *)
(* and records an alert after its last send.  Other tasks run at each of   *)
(* these awaits.  A caller (a polling loop) has at most one check under    *)
(* way, kept in check[caller].                                             *)
(***************************************************************************)
EXTENDS Naturals, Sequences, FiniteSets

CONSTANTS
    Callers,       \* the tasks that call check_and_notify
    Models,        \* model names a provider reports limits for
    Metrics,       \* "rpm", "tpm"
    Series,        \* the entries a rate_limits list has for one model
    Pcts,          \* percentages of a limit used
    Devices,       \* APNs device tokens
    DedupWindow,   \* DEDUP_WINDOW_SECONDS
    ApnsSettings   \* the APNs configurations a process may start with

ASSUME NotificationsAssumption ==
    /\ Pcts \subseteq Nat
    /\ DedupWindow \in Nat
    /\ ApnsSettings \subseteq {"off", "unusable key", "ready"}

VARIABLES
    apns,        \* this process's APNs settings
    devices,     \* rows of device_registrations: <<user, token>>
    sentAlerts,  \* _sent_alerts: [key, at]
    check,       \* check[c]: the check_and_notify under way in task c
    pushes       \* history variable: what APNs delivered for this process,
                 \* with the start of its check (ts) and the time of delivery

notifyVars == <<apns, devices, sentAlerts, check, pushes>>

WarningThreshold  == 80
CriticalThreshold == 95

(* A rate_limits list, as the readings of its entries.  GoogleProvider     *)
(* adds an entry for each time series, under a model name that they share. *)
Readings == [series : Series, model : Models, metric : Metrics, pct : Pcts]

(* The list that evaluate_thresholds returns. *)
EvaluateThresholds(pair, limits) ==
    {[pair |-> pair, series |-> r.series, model |-> r.model, metric |-> r.metric,
      level |-> IF r.pct >= CriticalThreshold THEN "critical" ELSE "warning"] :
        r \in {x \in limits : x.pct >= WarningThreshold}}

DedupKey(alert) ==
    [pair |-> alert.pair, model |-> alert.model, metric |-> alert.metric,
     level |-> alert.level]

ShouldSend(key, ts) ==
    \A s \in sentAlerts : s.key = key => s.at + DedupWindow <= ts

RecordSent(key, ts) ==
    sentAlerts' = {s \in sentAlerts : s.key # key}
                    \cup {[key |-> key, at |-> ts]}

(* alerts: still to be recorded; current: the one being sent; left: the    *)
(* tokens it has not been sent to yet, out of tokens.                      *)
Idle == [phase |-> "idle", ts |-> 0, alerts |-> {}, current |-> {},
         tokens |-> {}, left |-> {}]

(***************************************************************************)
(* check_and_notify up to its first await.  It leaves check[c] = Idle when *)
(* it returned without awaiting anything.                                  *)
(***************************************************************************)
CheckAndNotify(c, pair, limits, ts) ==
    LET newAlerts == IF apns = "off" THEN {}
                     ELSE {a \in EvaluateThresholds(pair, limits) : ShouldSend(DedupKey(a), ts)}
    IN  /\ check' = [check EXCEPT ![c] =
                        IF newAlerts = {} THEN Idle
                        ELSE [Idle EXCEPT !.phase = "devices", !.ts = ts,
                                          !.alerts = newAlerts]]
        /\ UNCHANGED <<apns, devices, sentAlerts, pushes>>

(* Mutation: the rows themselves instead of the token in each, row[0].      *)
GetDeviceRows(c) ==
    /\ check[c].phase = "devices"
    /\ \E a \in check[c].alerts :
        LET rows == {row \in devices : row[1] = a.pair[1]}
        IN  /\ rows # {}
            /\ check' = [check EXCEPT ![c] =
                            [@ EXCEPT !.phase = "sending", !.current = {a},
                                      !.tokens = rows, !.left = rows]]
    /\ UNCHANGED <<apns, devices, sentAlerts, pushes>>

(* _get_device_tokens answers, or raises; both without a token end it. *)
GetDeviceTokens(c) ==
    /\ check[c].phase = "devices"
    /\ \/ check' = [check EXCEPT ![c] = Idle]
       \/ \E a \in check[c].alerts :
            LET tokens == {d \in Devices : <<a.pair[1], d>> \in devices}
            IN  /\ tokens # {}
                /\ check' = [check EXCEPT ![c] =
                                [@ EXCEPT !.phase = "sending", !.current = {a},
                                          !.tokens = tokens, !.left = tokens]]
    /\ UNCHANGED <<apns, devices, sentAlerts, pushes>>

(* Mutation: the check returns after its last send without recording it.   *)
LastAlertForgotten(c, alert) ==
    LET rest == check[c].alerts \ {alert}
    IN  IF rest = {}
        THEN check' = [check EXCEPT ![c] = Idle] /\ UNCHANGED sentAlerts
        ELSE /\ RecordSent(DedupKey(alert), check[c].ts)
             /\ \E next \in rest :
                    check' = [check EXCEPT ![c] =
                        [@ EXCEPT !.alerts = rest, !.current = {next},
                                  !.left = check[c].tokens]]

(* One alert has gone to every token: record it and take the next one. *)
AlertDone(c, alert) ==
    LET rest == check[c].alerts \ {alert}
    IN  /\ RecordSent(DedupKey(alert), check[c].ts)
        /\ IF rest = {}
           THEN check' = [check EXCEPT ![c] = Idle]
           ELSE \E next \in rest :
                    check' = [check EXCEPT ![c] =
                        [@ EXCEPT !.alerts = rest, !.current = {next},
                                  !.left = check[c].tokens]]

(***************************************************************************)
(* The APNs call for one token ends at a time t, delivered or not:         *)
(* _send_apns turns every outcome into a return value that                 *)
(* check_and_notify only counts.  The time recorded is that of the start   *)
(* of the check, however long the calls before this one have taken.        *)
(***************************************************************************)
SendApns(c, t) ==
    /\ check[c].phase = "sending"
    /\ apns = "ready"
    /\ \E alert \in check[c].current, token \in check[c].left :
        /\ \/ pushes' = Append(pushes,
                      [key |-> DedupKey(alert), series |-> alert.series,
                       device |-> token, ts |-> check[c].ts, at |-> t])
           \/ pushes' = pushes
        /\ IF check[c].left = {token}
           THEN AlertDone(c, alert)
           ELSE /\ check' = [check EXCEPT ![c].left = @ \ {token}]
                /\ UNCHANGED sentAlerts
    /\ UNCHANGED <<apns, devices>>

(* _make_apns_jwt raises on a key it cannot load, outside the try of       *)
(* _send_apns: the check ends with nothing recorded.                       *)
ApnsKeyFails(c) ==
    /\ check[c].phase = "sending"
    /\ apns = "unusable key"
    /\ check' = [check EXCEPT ![c] = Idle]
    /\ UNCHANGED <<apns, devices, sentAlerts, pushes>>

RegisterDevice(user, token) ==
    /\ devices' = devices \cup {<<user, token>>}
    /\ UNCHANGED <<apns, sentAlerts, check, pushes>>

UnregisterDevice(user, token) ==
    /\ <<user, token>> \in devices
    /\ devices' = devices \ {<<user, token>>}
    /\ UNCHANGED <<apns, sentAlerts, check, pushes>>

NotifyInit ==
    /\ apns \in ApnsSettings
    /\ devices = {}
    /\ sentAlerts = {}
    /\ check = [c \in Callers |-> Idle]
    /\ pushes = << >>

(* A new process: the registrations are in the database, the rest is not. *)
NotifyRestart ==
    /\ apns' \in ApnsSettings
    /\ devices' = devices
    /\ sentAlerts' = {}
    /\ check' = [c \in Callers |-> Idle]
    /\ pushes' = << >>
==============================================================================
