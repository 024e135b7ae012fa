---------------------------- MODULE OneTimeTokens ----------------------------
(***************************************************************************)
(* What refresh-token rotation promises: a refresh token is spent once and *)
(* for good, and a spent token is replaced by at most one other.  How many *)
(* requests present it, in which order the server handles them and where   *)
(* the server stops does not appear.                                       *)
(***************************************************************************)
CONSTANTS
    Tokens,   \* refresh tokens, by jti
    Accounts, \* user ids
    Root      \* the parent of a token that a login or registration issued

VARIABLES
    issued,  \* token, its user and the token it replaces
    spent    \* tokens that have been used

Issued == [token : Tokens, user : Accounts, parent : Tokens \cup {Root}]

Init == issued = {} /\ spent = {}

Fresh(token) == \A i \in issued : i.token # token

(* A login or a registration starts a chain of tokens. *)
Begin(token, user) ==
    /\ Fresh(token)
    /\ issued' = issued \cup {[token |-> token, user |-> user, parent |-> Root]}
    /\ UNCHANGED spent

Spend(i) ==
    /\ i.token \notin spent
    /\ spent' = spent \cup {i.token}
    /\ UNCHANGED issued

(* A spent token is replaced, unless it has been already.  It may never be *)
(* (the server stopped in between): its chain ends there.                  *)
Replace(i, token) ==
    /\ i.token \in spent
    /\ \A j \in issued : j.parent # i.token
    /\ Fresh(token)
    /\ issued' = issued \cup {[token |-> token, user |-> i.user, parent |-> i.token]}
    /\ UNCHANGED spent

Next ==
    \/ \E token \in Tokens, user \in Accounts : Begin(token, user)
    \/ \E i \in issued : Spend(i) \/ \E token \in Tokens : Replace(i, token)

Spec == Init /\ [][Next]_<<issued, spent>>
==============================================================================
