------------------------------- MODULE Session -------------------------------
(***************************************************************************)
(* The app of one device (ios/Shared/Services/APIClient.swift) against the *)
(* token endpoints: calls that run side by side, each of which refreshes   *)
(* the token pair of the keychain after a 401.  APIClient is an actor, so  *)
(* nothing runs between two awaits of a call, and anything at an await.    *)
(* An access token may expire at any time: any call may be answered 401.   *)
(***************************************************************************)
EXTENDS RefreshTokens

VARIABLES
    keychain,  \* the tokens stored, by the pairs they come from: none or one;
               \* torn, a history field: the app was killed while it stored them
    call,      \* the calls under way; the server handles a refresh of call c
               \* in request[c]
    lost       \* history variable: tokens presented in a refresh that the
               \* app has heard no answer of

sessionVars == <<vars, keychain, call, lost>>
Calls == Requests

(* of: the pair being refreshed; got: the pair on its way to the app;      *)
(* switched, a history field: since the refresh began there was a login, a *)
(* logout, or a refresh that outlasted one and stored its pair after it.   *)
NoCall == [pc |-> "idle", of |-> {}, got |-> {}, switched |-> FALSE]
Ends(c) == call' = [call EXCEPT ![c] = NoCall]

(* Mutation: the new refresh token is not stored. *)
StoreAccessOnly(pair) == keychain' = [keychain EXCEPT !.access = pair, !.torn = FALSE]

Store(pair) == keychain' = [access |-> pair, refresh |-> pair, torn |-> FALSE]

(* A request goes out: with the access token, or a login or registration.  *)
Begin(c) ==
    /\ call[c] = NoCall
    /\ call' = [call EXCEPT ![c].pc = "sent"]
    /\ UNCHANGED <<vars, keychain, lost>>

(* Any answer but a 401, or none; a 401 without a refresh token.           *)
AnsweredOtherwise(c) ==
    /\ call[c].pc = "sent"
    /\ Ends(c)
    /\ UNCHANGED <<vars, keychain, lost>>

(* A 401, of a wrong password as well: refreshTokens sends the refresh     *)
(* token that is in the keychain by now.                                   *)
RefreshTokenSent(c) ==
    /\ call[c].pc = "sent"
    /\ \E i \in keychain.refresh : Present(c, i) \/ PresentExpired(c, i)
    /\ call' = [call EXCEPT ![c] = [pc |-> "refreshing", of |-> keychain.refresh,
                                    got |-> {}, switched |-> FALSE]]
    /\ UNCHANGED <<keychain, lost>>

(* The server works on a refresh; a new pair sets out for the app.         *)
ServerHandles(c) ==
    /\ \/ CheckBlacklist(c) \/ CheckUser(c) \/ Commit(c) \/ DatabaseFails(c)
       \/ \E token \in Tokens : Respond(c, token)
    /\ call' = IF call[c].pc = "refreshing"
               THEN [call EXCEPT ![c].got = issued' \ issued] ELSE call
    /\ UNCHANGED <<keychain, lost>>

Switched == [c \in Calls |-> [call[c] EXCEPT !.switched = @ \/ call[c].pc = "refreshing"]]

(* Mutation: a call leaves the storing to another one that refreshes too.  *)
RefreshedTogether(c) ==
    /\ call[c].pc = "refreshing" /\ call[c].got # {}
    /\ IF \E d \in Calls \ {c} : call[d].pc = "refreshing"
       THEN UNCHANGED keychain ELSE Store(call[c].got)
    /\ Ends(c)
    /\ UNCHANGED <<vars, lost>>

(* The pair is stored, whatever the keychain holds, and may put back an    *)
(* older session; the repeated request changes nothing more.               *)
Refreshed(c) ==
    /\ call[c].pc = "refreshing" /\ call[c].got # {}
    /\ Store(call[c].got)
    /\ call' = [(IF call[c].switched THEN Switched ELSE call) EXCEPT ![c] = NoCall]
    /\ UNCHANGED <<vars, lost>>

(* APIError.unauthorized; the keychain stays as it is. *)
RefreshRefused(c) ==
    /\ call[c].pc = "refreshing"
    /\ request[c].pc = "idle" /\ request[c].answer \in {"401", "500"}
    /\ Ends(c)
    /\ UNCHANGED <<vars, keychain, lost>>

(* The answer is lost or later than the timeout, or the app is killed.     *)
RefreshUnanswered(c) ==
    /\ call[c].pc = "refreshing"
    /\ lost' = lost \cup {i.token : i \in call[c].of}
    /\ Ends(c)
    /\ UNCHANGED <<vars, keychain>>

(* The server accepts a login or a registration ... *)
LoginAccepted(c) ==
    /\ call[c].pc = "sent"
    /\ \E user \in Accounts, token \in Tokens : Login(user, token)
    /\ call' = [call EXCEPT ![c] = [@ EXCEPT !.pc = "login", !.got = issued' \ issued]]
    /\ UNCHANGED <<keychain, lost>>

(* ... and its answer arrives, or does not. *)
LoginAnswered(c) ==
    /\ call[c].pc = "login"
    /\ \/ Store(call[c].got) /\ call' = [Switched EXCEPT ![c] = NoCall]
       \/ UNCHANGED keychain /\ Ends(c)
    /\ UNCHANGED <<vars, lost>>

(* The server is not told. *)
Logout ==
    /\ Store({})
    /\ call' = Switched
    /\ UNCHANGED <<vars, lost>>

(* The app is killed while it stores or removes a pair.  The access token  *)
(* comes first, and each is deleted before the new one is added.           *)
KilledStoring ==
    /\ \E pair \in {{}} \cup {call[c].got : c \in {d \in Calls : call[d].got # {}}} :
        keychain' \in {[access |-> {}, refresh |-> keychain.refresh, torn |-> TRUE],
                       [access |-> pair, refresh |-> keychain.refresh, torn |-> TRUE],
                       [access |-> pair, refresh |-> {}, torn |-> TRUE]}
    /\ call' = [c \in Calls |-> NoCall]
    /\ lost' = lost \cup UNION {{i.token : i \in call[c].of} : c \in Calls}
    /\ UNCHANGED vars

ServerAlone ==
    /\ \/ \E i \in issued : Expire(i)
       \/ \E user \in Accounts : Deactivate(user)
       \/ Restart
    /\ UNCHANGED <<keychain, call, lost>>

SessionInit ==
    /\ Init
    /\ keychain = [access |-> {}, refresh |-> {}, torn |-> FALSE]
    /\ call = [c \in Calls |-> NoCall]
    /\ lost = {}

SessionNext ==
    \/ \E c \in Calls :
        \/ Begin(c) \/ AnsweredOtherwise(c) \/ RefreshTokenSent(c) \/ ServerHandles(c)
        \/ Refreshed(c) \/ RefreshRefused(c) \/ RefreshUnanswered(c)
        \/ LoginAccepted(c) \/ LoginAnswered(c)
    \/ Logout \/ KilledStoring
    \/ ServerAlone

SessionSpec == SessionInit /\ [][SessionNext]_sessionVars

-----------------------------------------------------------------------------
(* Properties *)

(* The keychain is empty or holds both tokens of one pair that the server  *)
(* has issued, until the app is killed while it stores them.               *)
SessionTypeOK ==
    /\ keychain.torn \in BOOLEAN
    /\ ~keychain.torn => keychain.access = keychain.refresh
    /\ keychain.access \subseteq issued
    /\ keychain.refresh \subseteq issued
    /\ \A i, j \in keychain.refresh : i = j
    /\ call \in [Calls -> [pc : {"idle", "sent", "refreshing", "login"},
                           of : SUBSET issued, got : SUBSET issued, switched : BOOLEAN]]
    /\ lost \subseteq Tokens

(* However many calls get a 401 together, the app does not lose its        *)
(* session by it: a refresh token in the keychain that has been spent is   *)
(* about to be replaced, unless the answer to its use never came.          *)
SessionSurvives ==
    \A i \in keychain.refresh : i.token \in blacklist =>
        \/ i.token \in lost
        \/ \E c \in Calls :
            /\ call[c].pc = "refreshing" /\ call[c].of = {i}
            /\ \/ call[c].got # {}
               \/ request[c].pc = "respond"
               \/ request[c].of = {}   \* the server has restarted: no answer will come

(* A refresh stores its pair unconditionally.  Because the server answers  *)
(* only one use of a token, it replaces the pair it was made from all the  *)
(* same, unless there was a login or a logout during the refresh, or an    *)
(* older session was put back: then it puts its own session back.          *)
RefreshReplacesItsOwn ==
    [][\A c \in Calls :
        call[c].pc = "refreshing" /\ call[c].got # {}
        /\ keychain' # keychain /\ call'[c] = NoCall
            => keychain.refresh = call[c].of \/ call[c].switched]_sessionVars
==============================================================================
