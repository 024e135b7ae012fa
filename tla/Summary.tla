------------------------------- MODULE Summary -------------------------------
(***************************************************************************)
(* What the data API of app/api/router.py answers from the rows and the    *)
(* caches that Polling keeps.  A handler's last await is the database, and *)
(* all it reads of the caches it reads after it, in one step: an answer is *)
(* a function of a state.  Times and display names are left out.           *)
(***************************************************************************)
EXTENDS Polling, FiniteSetsExt

UserProviders(user) == {row.pair : row \in {r \in apiKeys : r.pair[1] = user}}

Pct(readings, metric) == {r.pct : r \in {x \in readings : x.metric = metric}}

(* The snapshot an answer shows: at most one. *)
Fresh(pair) == {s \in Get(snapshotCache, pair) : s.error = "none"}

(* Mutation: the stale mark of a snapshot is not looked at. *)
CompactOfStale(pair) ==
    LET limits == UNION {s.limits : s \in Get(snapshotCache, pair)}
        Largest(metric) == Max({0} \cup Pct(limits, metric))
    IN  [n |-> pair[2], s |-> IF Get(snapshotCache, pair) = {} THEN 0 ELSE 1,
         r |-> Largest("rpm"), t |-> Largest("tpm"),
         c |-> \E s \in Get(snapshotCache, pair) : s.costs]

Compact(pair) ==
    LET limits == UNION {s.limits : s \in Fresh(pair)}
        Largest(metric) == Max({0} \cup Pct(limits, metric))
    IN  [n |-> pair[2], s |-> IF Fresh(pair) = {} THEN 0 ELSE 1,
         r |-> Largest("rpm"), t |-> Largest("tpm"),
         c |-> \E s \in Fresh(pair) : s.costs]

Full(pair) ==
    LET limits == UNION {s.limits : s \in Fresh(pair)}
        Shown(metric) == {pct \in Pct(limits, metric) : pct = Max(Pct(limits, metric))}
    IN  [id |-> pair[2],
         status |-> IF Get(snapshotCache, pair) = {} THEN "pending"
                    ELSE IF Fresh(pair) = {} THEN "stale" ELSE "ok",
         rpm |-> Shown("rpm"), tpm |-> Shown("tpm"),
         cost_today |-> \E s \in Fresh(pair) : s.costs]

GetSummary(user, format) ==
    {IF format = "compact" THEN Compact(pair) ELSE Full(pair) : pair \in UserProviders(user)}

(* The handlers of one provider answer 404 for one that has no row. *)
Answer(pair, body) == IF pair \in UserProviders(pair[1]) THEN body ELSE {"404"}

GetLimits(pair) == Answer(pair, UNION {d.limits : d \in Get(rateLimitsCache, pair)})
GetCosts(pair) == Answer(pair, {d.costs : d \in Get(costsCache, pair)})

-----------------------------------------------------------------------------
(* Properties *)

(* The two formats of /summary say the same, and what they show of a       *)
(* provider is what /limits and /costs show, as long as these show         *)
(* anything: through stale polls, replaced and deleted keys, evictions and *)
(* the snapshots that the two loops overwrite.                             *)
SummaryAgrees ==
    \A user \in Users : \A full \in GetSummary(user, "full") :
        LET pair == <<user, full.id>>
        IN  /\ \E compact \in GetSummary(user, "compact") :
                /\ compact.n = full.id
                /\ compact.s = 1 <=> full.status = "ok"
                /\ compact.r = Max({0} \cup full.rpm) /\ compact.t = Max({0} \cup full.tpm)
                /\ compact.c = full.cost_today
            /\ full.status # "ok" => full.rpm = {} /\ full.tpm = {} /\ ~full.cost_today
            /\ full.rpm # {} /\ GetLimits(pair) # {}
                => full.rpm = {Max(Pct(GetLimits(pair), "rpm"))}
            /\ full.cost_today => GetCosts(pair) \subseteq {TRUE}
==============================================================================
