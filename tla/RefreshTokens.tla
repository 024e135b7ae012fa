---------------------------- MODULE RefreshTokens ----------------------------
(***************************************************************************)
(* The token endpoints of app/auth/router.py.  POST /auth/token reads the  *)
(* blacklist, reads the user, inserts the used jti and commits, with other *)
(* requests running at each await.  SQLite holds no lock for the reads, so *)
(* the unique constraint on refresh_token_blacklist.jti is what decides    *)
(* between concurrent uses of a token.                                     *)
(***************************************************************************)
CONSTANTS
    Tokens,    \* the jti's uuid4 can draw
    Accounts,  \* user ids
    Root,      \* the parent of a token issued by login or register
    Requests   \* POST /auth/token requests under way at a time

ASSUME TokensAssumption == Root \notin Tokens

VARIABLES
    blacklist,  \* jti's in refresh_token_blacklist
    inactive,   \* users with is_active = False
    expired,    \* tokens past their exp claim
    issued,     \* refresh tokens handed out: [token, user, parent]
    request     \* the handlers of /auth/token

vars == <<blacklist, inactive, expired, issued, request>>

Issued == [token : Tokens, user : Accounts, parent : Tokens \cup {Root}]

(* A handler awaits the blacklist, the user or the commit, or has          *)
(* committed; "answer" is what the last request of this slot got.          *)
Places == {"idle", "blacklist", "user", "commit", "respond"}
Answers == {"none", "200", "401", "500"}

Fresh(token) == \A i \in issued : i.token # token

Answered(r, answer) ==
    request' = [request EXCEPT ![r] = [@ EXCEPT !.pc = "idle", !.answer = answer]]
Advance(r, pc) == request' = [request EXCEPT ![r].pc = pc]

(* login and register: a new token each time, for inactive users too.      *)
Login(user, token) ==
    /\ Fresh(token)
    /\ issued' = issued \cup {[token |-> token, user |-> user, parent |-> Root]}
    /\ UNCHANGED <<blacklist, inactive, expired, request>>

(* decode_token accepts an unexpired token, any number of times.           *)
Present(r, i) ==
    /\ request[r].pc = "idle"
    /\ i.token \notin expired
    /\ request' = [request EXCEPT ![r] =
                      [pc |-> "blacklist", of |-> {i}, answer |-> "none"]]
    /\ UNCHANGED <<blacklist, inactive, expired, issued>>

PresentExpired(r, i) ==
    /\ request[r].pc = "idle"
    /\ i.token \in expired
    /\ request' = [request EXCEPT ![r] =
                      [pc |-> "idle", of |-> {i}, answer |-> "401"]]
    /\ UNCHANGED <<blacklist, inactive, expired, issued>>

CheckBlacklist(r) ==
    /\ request[r].pc = "blacklist"
    /\ \E i \in request[r].of :
        \/ i.token \in blacklist /\ Answered(r, "401")
        \/ i.token \notin blacklist /\ Advance(r, "user")
    /\ UNCHANGED <<blacklist, inactive, expired, issued>>

CheckUser(r) ==
    /\ request[r].pc = "user"
    /\ \E i \in request[r].of :
        \/ i.user \in inactive /\ Answered(r, "401")
        \/ i.user \notin inactive /\ Advance(r, "commit")
    /\ UNCHANGED <<blacklist, inactive, expired, issued>>

(* Mutation: a jti column without a unique constraint.                     *)
CommitNotUnique(r) ==
    /\ request[r].pc = "commit"
    /\ \E i \in request[r].of : blacklist' = blacklist \cup {i.token}
    /\ Advance(r, "respond")
    /\ UNCHANGED <<inactive, expired, issued>>

(* Mutation: the insert is never committed. *)
CommitForgotten(r) ==
    /\ request[r].pc = "commit"
    /\ Advance(r, "respond")
    /\ UNCHANGED <<blacklist, inactive, expired, issued>>

(* The insert: the unique constraint refuses a second one, and the         *)
(* IntegrityError reaches the client as a 500.                             *)
Commit(r) ==
    /\ request[r].pc = "commit"
    /\ \E i \in request[r].of :
        \/ /\ i.token \notin blacklist
           /\ blacklist' = blacklist \cup {i.token}
           /\ Advance(r, "respond")
        \/ /\ i.token \in blacklist
           /\ Answered(r, "500")
           /\ UNCHANGED blacklist
    /\ UNCHANGED <<inactive, expired, issued>>

(* Mutation: the new token's subject is the old one's jti.                 *)
RespondWithJti(r, token) ==
    /\ request[r].pc = "respond"
    /\ Fresh(token)
    /\ \E i \in request[r].of :
        issued' = issued \cup {[token |-> token, user |-> i.token, parent |-> i.token]}
    /\ Answered(r, "200")
    /\ UNCHANGED <<blacklist, inactive, expired>>

(* The handler resumes after its commit and issues the new pair. *)
Respond(r, token) ==
    /\ request[r].pc = "respond"
    /\ Fresh(token)
    /\ \E i \in request[r].of :
        issued' = issued \cup {[token |-> token, user |-> i.user, parent |-> i.token]}
    /\ Answered(r, "200")
    /\ UNCHANGED <<blacklist, inactive, expired>>

(* The database fails at any of the awaits. *)
DatabaseFails(r) ==
    /\ request[r].pc \in {"blacklist", "user", "commit"}
    /\ Answered(r, "500")
    /\ UNCHANGED <<blacklist, inactive, expired, issued>>

Expire(i) ==
    /\ expired' = expired \cup {i.token}
    /\ UNCHANGED <<blacklist, inactive, issued, request>>

(* Done by hand in the database: the code never clears is_active.          *)
Deactivate(user) ==
    /\ inactive' = inactive \cup {user}
    /\ UNCHANGED <<blacklist, expired, issued, request>>

(* The server stops and starts: its requests are gone, the database and    *)
(* the tokens the clients hold are not.                                    *)
Restart ==
    /\ request' = [r \in Requests |-> [pc |-> "idle", of |-> {}, answer |-> "none"]]
    /\ UNCHANGED <<blacklist, inactive, expired, issued>>

Init ==
    /\ blacklist = {}
    /\ inactive = {}
    /\ expired = {}
    /\ issued = {}
    /\ request = [r \in Requests |-> [pc |-> "idle", of |-> {}, answer |-> "none"]]

Handle(r) ==
    \/ \E i \in issued : Present(r, i) \/ PresentExpired(r, i)
    \/ CheckBlacklist(r) \/ CheckUser(r) \/ Commit(r) \/ DatabaseFails(r)
    \/ \E token \in Tokens : Respond(r, token)

Next ==
    \/ \E user \in Accounts, token \in Tokens : Login(user, token)
    \/ \E r \in Requests : Handle(r)
    \/ \E i \in issued : Expire(i)
    \/ \E user \in Accounts : Deactivate(user)
    \/ Restart

Spec == Init /\ [][Next]_vars

-----------------------------------------------------------------------------
(* The tables and the handlers keep their shapes: a handler that is past   *)
(* decode_token has one token in hand, and one that was issued.            *)
TypeOK ==
    /\ blacklist \subseteq Tokens
    /\ inactive \subseteq Accounts
    /\ expired \subseteq Tokens
    /\ issued \subseteq Issued
    /\ request \in [Requests -> [pc : Places, of : SUBSET Issued, answer : Answers]]
    /\ \A r \in Requests : request[r].of \subseteq issued

(* RefreshTokenBlacklist: "to prevent replay attacks".  However many       *)
(* requests use a refresh token, and however they interleave with each     *)
(* other and with restarts, at most one new pair comes out of it.          *)
AtMostOneSuccessor ==
    \A i, j \in issued : i.parent = j.parent /\ i.parent # Root => i = j

(* A pair is issued only once the token it replaces can no longer be used. *)
SuccessorOnlyIfSpent ==
    \A i \in issued : i.parent # Root => i.parent \in blacklist

(* The handlers implement the promise: a committed insert is Spend, the    *)
(* response is Replace, everything else is invisible to the clients.       *)
Promise == INSTANCE OneTimeTokens WITH spent <- blacklist
ImplementsPromise == Promise!Spec

==============================================================================
