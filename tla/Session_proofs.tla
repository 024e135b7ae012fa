---------------------------- MODULE Session_proofs ----------------------------
(***************************************************************************)
(* Proofs about Session: for any number of calls that are refused at once, *)
(* the app loses its session only with an answer that was lost, and what a *)
(* refresh replaces is the pair it was made from.  They rest on the        *)
(* invariant of the token endpoints, IInv of RefreshTokens_proofs.         *)
(***************************************************************************)
EXTENDS Session, RefreshTokens_proofs

Refreshing(c) == call[c].pc = "refreshing"

(* The server has spent the token of call c, and c is to get the new pair. *)
ToReplace(c) == Refreshing(c) /\ (call[c].got # {} \/ request[c].pc = "respond")

OnePairEach ==
    \A c \in Calls :
        /\ Refreshing(c) => call[c].of # {}
        /\ \A i, j \in call[c].of : i = j
        /\ \A i, j \in call[c].got : i = j

(* The handler at work in request[c] works for call c, or for a call that  *)
(* has ended without its answer.                                           *)
HandlersServeCalls ==
    \A c \in Calls : request[c].pc # "idle" =>
        IF Refreshing(c) THEN call[c].of = request[c].of /\ call[c].got = {}
        ELSE \A i \in request[c].of : i.token \in lost

(* A pair on its way to the app is nowhere else yet. *)
NewPairsAreNew ==
    \A c \in Calls : \A i \in call[c].got :
        /\ i \notin keychain.refresh
        /\ i.token \notin blacklist
        /\ \A d \in Calls : i \notin call[d].of /\ i \notin request[d].of
        /\ \A d \in Calls \ {c} : i \notin call[d].got

(* The answer to a refresh, and the pair that comes with a good one.       *)
AnswersFit ==
    \A c \in Calls :
        /\ request[c].of = {} => request[c].pc = "idle" /\ request[c].answer = "none"
        /\ Refreshing(c) /\ call[c].got # {} =>
            /\ request[c].pc = "idle" /\ request[c].answer \in {"200", "none"}
            /\ \A i \in call[c].of : i.token \in blacklist /\ \A n \in call[c].got : n.parent = i.token

(* Unless the session was switched under it, a refresh that has not lost   *)
(* yet, or has won, is one of the pair in the keychain.                    *)
RefreshesTheKeychain ==
    \A c \in Calls :
        Refreshing(c) /\ ~call[c].switched
        /\ (ToReplace(c) \/ \A i \in call[c].of : i.token \notin blacklist)
            => keychain.refresh = call[c].of

SpentWereIssued == \A t \in blacklist : \E i \in issued : i.token = t

CallsInv == /\ SessionTypeOK /\ SpentWereIssued
            /\ OnePairEach /\ HandlersServeCalls /\ NewPairsAreNew /\ AnswersFit
            /\ RefreshesTheKeychain /\ SessionSurvives

SInv == IInv /\ CallsInv

-----------------------------------------------------------------------------
(* Helpers *)

CallRecords == [pc : {"idle", "sent", "refreshing", "login"},
                of : SUBSET issued, got : SUBSET issued, switched : BOOLEAN]

(* Every step of the app and the server together is one of the token       *)
(* endpoints, or none.                                                     *)
LEMMA ServerStep == CallsInv /\ [SessionNext]_sessionVars => [Next]_vars
<1> SUFFICES ASSUME CallsInv, [SessionNext]_sessionVars PROVE [Next]_vars
  OBVIOUS
<1>1. ASSUME NEW c \in Calls, RefreshTokenSent(c) PROVE Next
  <2>1. PICK i \in keychain.refresh : Present(c, i) \/ PresentExpired(c, i)
    BY <1>1 DEF RefreshTokenSent
  <2>2. i \in issued
    BY DEF CallsInv, SessionTypeOK
  <2> QED
    BY <2>1, <2>2 DEF Next, Handle, Calls
<1>2. ASSUME NEW c \in Calls, ServerHandles(c) PROVE Next
  BY <1>2 DEF ServerHandles, Next, Handle, Calls
<1>3. ASSUME NEW c \in Calls, LoginAccepted(c) PROVE Next
  BY <1>3 DEF LoginAccepted, Next
<1>4. CASE ServerAlone
  BY <1>4 DEF ServerAlone, Next
<1> QED
  BY <1>1, <1>2, <1>3, <1>4
  DEF SessionNext, sessionVars, Begin, AnsweredOtherwise, Refreshed, RefreshRefused,
      RefreshUnanswered, LoginAnswered, Logout, KilledStoring

(* A call that no refresh rests on begins or ends. *)
LEMMA CallMoves ==
    ASSUME SInv, NEW c \in Calls, NEW k \in CallRecords, call' = [call EXCEPT ![c] = k],
           UNCHANGED <<vars, keychain, lost>>,
           k.pc # "refreshing", k.of = {}, k.got = {},
           Refreshing(c) => request[c].pc = "idle" /\ call[c].got = {} /\ request[c].of # {}
    PROVE  CallsInv'
<1>1. UNCHANGED <<blacklist, issued, request>>
  BY DEF vars
<1>2. \A d \in Calls : call'[d] = IF d = c THEN k ELSE call[d]
  BY DEF SInv, CallsInv, SessionTypeOK
<1>3. SessionTypeOK'
  BY <1>1 DEF SInv, CallsInv, SessionTypeOK, CallRecords
<1>4. SpentWereIssued' /\ OnePairEach'
  BY <1>1, <1>2 DEF SInv, CallsInv, SpentWereIssued, OnePairEach, Refreshing
<1>5. HandlersServeCalls'
  BY <1>1, <1>2 DEF SInv, CallsInv, HandlersServeCalls, Refreshing
<1>6. NewPairsAreNew' /\ AnswersFit' /\ RefreshesTheKeychain'
  BY <1>1, <1>2
  DEF SInv, CallsInv, NewPairsAreNew, AnswersFit, RefreshesTheKeychain, Refreshing, ToReplace
<1>7. SessionSurvives'
  <2> SUFFICES ASSUME NEW i \in keychain.refresh, i.token \in blacklist, i.token \notin lost
               PROVE  \E d \in Calls :
                        /\ call'[d].pc = "refreshing" /\ call'[d].of = {i}
                        /\ call'[d].got # {} \/ request[d].pc = "respond" \/ request[d].of = {}
    BY <1>1 DEF SessionSurvives
  <2>1. PICK d \in Calls :
            /\ call[d].pc = "refreshing" /\ call[d].of = {i}
            /\ call[d].got # {} \/ request[d].pc = "respond" \/ request[d].of = {}
    BY DEF SInv, CallsInv, SessionSurvives
  <2>2. d # c
    BY <2>1 DEF Refreshing
  <2> QED
    BY <1>2, <2>1, <2>2
<1> QED
  BY <1>3, <1>4, <1>5, <1>6, <1>7 DEF CallsInv

-----------------------------------------------------------------------------
(* The steps, one lemma per action *)

LEMMA BeginKeepsCallsInv ==
    ASSUME SInv, NEW c \in Calls, Begin(c)
    PROVE  CallsInv'
<1> DEFINE k == [NoCall EXCEPT !.pc = "sent"]
<1>1. NoCall \in CallRecords /\ NoCall.pc = "idle" /\ NoCall.of = {} /\ NoCall.got = {}
  BY DEF NoCall, CallRecords
<1>2. k \in CallRecords /\ k.pc = "sent" /\ k.of = {} /\ k.got = {}
  BY <1>1 DEF CallRecords
<1>3. call[c] = NoCall /\ call' = [call EXCEPT ![c] = k] /\ UNCHANGED <<vars, keychain, lost>>
  BY DEF Begin, SInv, CallsInv, SessionTypeOK
<1> HIDE DEF k
<1> QED
  BY <1>1, <1>2, <1>3, CallMoves DEF Refreshing

LEMMA CallEndsKeepsCallsInv ==
    ASSUME SInv, NEW c \in Calls, Ends(c), UNCHANGED <<vars, keychain, lost>>,
           Refreshing(c) => request[c].pc = "idle" /\ call[c].got = {} /\ request[c].of # {}
    PROVE  CallsInv'
<1>1. NoCall \in CallRecords
  BY DEF CallRecords, NoCall
<1> QED
  BY <1>1, CallMoves DEF Ends, NoCall

LEMMA RefusedKeepsCallsInv ==
    ASSUME SInv, NEW c \in Calls, RefreshRefused(c)
    PROVE  CallsInv'
<1>1. call[c].got = {} /\ request[c].of # {} /\ request[c].pc = "idle"
  BY DEF RefreshRefused, SInv, CallsInv, AnswersFit, Refreshing
<1> QED
  BY <1>1, CallEndsKeepsCallsInv DEF RefreshRefused

LEMMA SentKeepsCallsInv ==
    ASSUME SInv, NEW c \in Calls, RefreshTokenSent(c)
    PROVE  CallsInv'
<1>1. PICK i \in keychain.refresh : Present(c, i) \/ PresentExpired(c, i)
  BY DEF RefreshTokenSent
<1>2. keychain.refresh = {i} /\ i \in issued /\ call[c].pc = "sent"
  BY DEF RefreshTokenSent, SInv, CallsInv, SessionTypeOK
<1> DEFINE k == [pc |-> "refreshing", of |-> keychain.refresh, got |-> {}, switched |-> FALSE]
<1>3. /\ call' = [call EXCEPT ![c] = k]
      /\ call'[c] = k /\ \A d \in Calls \ {c} : call'[d] = call[d]
  BY DEF RefreshTokenSent, SInv, CallsInv, SessionTypeOK
<1> k.pc = "refreshing" /\ k.of = {i} /\ k.got = {} /\ k.switched = FALSE
  BY <1>2
<1>4. /\ UNCHANGED <<blacklist, issued, keychain, lost>>
      /\ request'[c].of = {i} /\ request'[c].pc \in {"idle", "blacklist"}
      /\ \A d \in Calls \ {c} : request'[d] = request[d]
  BY <1>1 DEF Present, PresentExpired, RefreshTokenSent, SInv, IInv, TypeOK, Calls
<1>5. SessionTypeOK'
  BY <1>2, <1>3, <1>4 DEF SInv, CallsInv, SessionTypeOK
<1> HIDE DEF k
<1>6. SpentWereIssued' /\ OnePairEach'
  BY <1>2, <1>3, <1>4 DEF SInv, CallsInv, SpentWereIssued, OnePairEach, Refreshing
<1>10. HandlersServeCalls'
  BY <1>2, <1>3, <1>4 DEF SInv, CallsInv, HandlersServeCalls, Refreshing
<1>7. NewPairsAreNew'
  BY <1>2, <1>3, <1>4 DEF SInv, CallsInv, NewPairsAreNew
<1>8. AnswersFit'
  BY <1>2, <1>3, <1>4 DEF SInv, CallsInv, AnswersFit, Refreshing
<1>9. RefreshesTheKeychain'
  BY <1>2, <1>3, <1>4 DEF SInv, CallsInv, RefreshesTheKeychain, Refreshing, ToReplace
<1>11. SessionSurvives'
  BY <1>2, <1>3, <1>4 DEF SInv, CallsInv, SessionSurvives
<1> QED
  BY <1>5, <1>6, <1>7, <1>8, <1>9, <1>10, <1>11 DEF CallsInv

(* The handler of call c goes on, or refuses the token: nobody sees it.    *)
LEMMA HandlerMovesKeepsCallsInv ==
    ASSUME SInv, NEW c \in Calls,
           UNCHANGED <<blacklist, issued, call, keychain, lost>>,
           request[c].pc \in {"blacklist", "user", "commit"},
           request'[c].of = request[c].of, request'[c].pc \in {"idle", "user", "commit"},
           \A d \in Calls \ {c} : request'[d] = request[d]
    PROVE  CallsInv'
<1>1. request[c].of # {} /\ (Refreshing(c) => call[c].got = {})
  BY DEF SInv, CallsInv, AnswersFit, HandlersServeCalls
<1>2. SessionTypeOK' /\ SpentWereIssued' /\ OnePairEach' /\ HandlersServeCalls' /\ NewPairsAreNew'
  BY DEF SInv, CallsInv, SessionTypeOK, SpentWereIssued, OnePairEach, HandlersServeCalls,
         NewPairsAreNew, Refreshing
<1>3. AnswersFit' /\ RefreshesTheKeychain'
  BY <1>1 DEF SInv, CallsInv, AnswersFit, RefreshesTheKeychain, Refreshing, ToReplace
<1>4. SessionSurvives'
  BY <1>1 DEF SInv, CallsInv, SessionSurvives, Refreshing
<1> QED
  BY <1>2, <1>3, <1>4 DEF CallsInv

(* While its handler is at work a call has no pair.                        *)
LEMMA NothingIssued ==
    ASSUME SInv, NEW c \in Calls, ServerHandles(c), request[c].pc # "idle", UNCHANGED issued
    PROVE  UNCHANGED call
<1>1. CASE Refreshing(c)
  <2>1. call[c].got = {} /\ call[c] \in CallRecords /\ issued' \ issued = {}
    BY <1>1 DEF SInv, CallsInv, HandlersServeCalls, SessionTypeOK, CallRecords
  <2>2. call' = [call EXCEPT ![c].got = {}]
    BY <1>1, <2>1 DEF ServerHandles, Refreshing
  <2>3. [call[c] EXCEPT !.got = {}] = call[c]
    BY <2>1 DEF CallRecords
  <2> QED
    BY <2>2, <2>3 DEF SInv, CallsInv, SessionTypeOK
<1>2. CASE ~Refreshing(c)
  BY <1>2 DEF ServerHandles, Refreshing
<1> QED
  BY <1>1, <1>2

LEMMA CommitKeepsCallsInv ==
    ASSUME SInv, NEW c \in Calls, ServerHandles(c), Commit(c)
    PROVE  CallsInv'
<1>1. request[c].pc = "commit" /\ UNCHANGED <<issued, call, keychain, lost>>
  BY NothingIssued DEF Commit, ServerHandles
<1>2. PICK i \in request[c].of :
        \/ i.token \notin blacklist /\ blacklist' = blacklist \cup {i.token} /\ Advance(c, "respond")
        \/ i.token \in blacklist /\ Answered(c, "500") /\ UNCHANGED blacklist
  BY DEF Commit
<1>3. CASE i.token \in blacklist /\ Answered(c, "500") /\ UNCHANGED blacklist
  <2>1. /\ request'[c].of = request[c].of /\ request'[c].pc = "idle"
        /\ \A d \in Calls \ {c} : request'[d] = request[d]
    BY <1>3 DEF Answered, SInv, IInv, TypeOK, Calls
  <2> QED
    BY <1>1, <1>3, <2>1, HandlerMovesKeepsCallsInv
<1>4. CASE i.token \notin blacklist /\ blacklist' = blacklist \cup {i.token} /\ Advance(c, "respond")
  <2>1. /\ request'[c].of = request[c].of /\ request'[c].pc = "respond"
        /\ request'[c].answer = request[c].answer
        /\ \A d \in Calls \ {c} : request'[d] = request[d]
    BY <1>4 DEF Advance, SInv, IInv, TypeOK, Calls
  <2>2. i \in issued /\ request[c].of = {i}
    BY DEF SInv, IInv, TypeOK, Distinct, Calls
  <2>3. \A j \in issued : j.token = i.token => j = i
    BY <2>2 DEF SInv, IInv, Distinct
  <2>4. IF Refreshing(c) THEN call[c].of = {i} /\ call[c].got = {} ELSE i.token \in lost
    BY <1>1, <2>2 DEF SInv, CallsInv, HandlersServeCalls
  <2>5. SessionTypeOK' /\ SpentWereIssued' /\ OnePairEach'
    BY <1>1, <1>4, <2>2
    DEF SInv, CallsInv, SessionTypeOK, SpentWereIssued, OnePairEach, Refreshing
  <2>6. HandlersServeCalls'
    BY <1>1, <2>1 DEF SInv, CallsInv, HandlersServeCalls, Refreshing
  <2>7. NewPairsAreNew'
    <3> SUFFICES ASSUME NEW d \in Calls, NEW n \in call[d].got
                 PROVE  /\ n \notin keychain.refresh /\ n.token \notin blacklist'
                        /\ \A e \in Calls : n \notin call[e].of /\ n \notin request'[e].of
                        /\ \A e \in Calls \ {d} : n \notin call[e].got
      BY <1>1 DEF NewPairsAreNew
    <3>1. n \in issued /\ n # i
      BY <2>2 DEF SInv, CallsInv, SessionTypeOK, NewPairsAreNew
    <3>2. n.token # i.token
      BY <2>3, <3>1
    <3> QED
      BY <1>4, <2>1, <3>2 DEF SInv, CallsInv, NewPairsAreNew
  <2>8. AnswersFit'
    BY <1>1, <1>4, <2>1, <2>2, <2>4 DEF SInv, CallsInv, AnswersFit, Refreshing
  <2>9. RefreshesTheKeychain'
    BY <1>1, <1>4, <2>1, <2>4
    DEF SInv, CallsInv, RefreshesTheKeychain, Refreshing, ToReplace
  <2>10. SessionSurvives'
    <3> SUFFICES ASSUME NEW k \in keychain.refresh, k.token \in blacklist', k.token \notin lost
                 PROVE  \E d \in Calls :
                          /\ call[d].pc = "refreshing" /\ call[d].of = {k}
                          /\ call[d].got # {} \/ request'[d].pc = "respond" \/ request'[d].of = {}
      BY <1>1 DEF SessionSurvives
    <3>1. k \in issued
      BY DEF SInv, CallsInv, SessionTypeOK
    <3>2. CASE k = i
      BY <2>1, <2>4, <3>2 DEF Refreshing
    <3>3. CASE k # i
      <4>1. k.token \in blacklist
        BY <1>4, <2>3, <3>1, <3>3
      <4>2. PICK d \in Calls :
              /\ call[d].pc = "refreshing" /\ call[d].of = {k}
              /\ call[d].got # {} \/ request[d].pc = "respond" \/ request[d].of = {}
        BY <4>1 DEF SInv, CallsInv, SessionSurvives
      <4>3. d # c
        BY <2>4, <3>3, <4>2 DEF Refreshing
      <4> QED
        BY <2>1, <4>2, <4>3
    <3> QED
      BY <3>2, <3>3
  <2> QED
    BY <2>5, <2>6, <2>7, <2>8, <2>9, <2>10 DEF CallsInv
<1> QED
  BY <1>2, <1>3, <1>4

(* A new pair has been nowhere. *)
LEMMA NewPairUnknown ==
    ASSUME SInv, NEW new, Fresh(new.token)
    PROVE  /\ new \notin issued /\ new \notin keychain.refresh /\ new.token \notin blacklist
           /\ \A d \in Calls : new \notin call[d].of /\ new \notin call[d].got
                               /\ new \notin request[d].of
BY DEF Fresh, SInv, IInv, TypeOK, CallsInv, SessionTypeOK, SpentWereIssued, Calls
LEMMA RespondKeepsCallsInv ==
    ASSUME SInv, NEW c \in Calls, ServerHandles(c), NEW token \in Tokens, Respond(c, token)
    PROVE  CallsInv'
<1>1. PICK i \in request[c].of :
        issued' = issued \cup {[token |-> token, user |-> i.user, parent |-> i.token]}
  BY DEF Respond
<1> DEFINE new == [token |-> token, user |-> i.user, parent |-> i.token]
<1>2. new.token = token /\ new.parent = i.token
  OBVIOUS
<1> HIDE DEF new
<1>3. issued' = issued \cup {new} /\ Fresh(token)
  BY <1>1 DEF Respond, new
<1>4. /\ new \notin issued /\ new \notin keychain.refresh /\ new.token \notin blacklist
      /\ \A d \in Calls : new \notin call[d].of /\ new \notin call[d].got
                          /\ new \notin request[d].of
  BY <1>2, <1>3, NewPairUnknown
<1>5. issued' \ issued = {new}
  BY <1>3, <1>4
<1>6. /\ request[c].pc = "respond" /\ UNCHANGED <<blacklist, keychain, lost>>
      /\ request'[c].of = request[c].of
      /\ request'[c].pc = "idle" /\ request'[c].answer = "200"
      /\ \A d \in Calls \ {c} : request'[d] = request[d]
  BY DEF Respond, Answered, ServerHandles, SInv, IInv, TypeOK, Calls
<1>7. request[c].of = {i} /\ i.token \in blacklist
  BY <1>6 DEF SInv, IInv, TypeOK, Distinct, Owned, Calls
<1>8. CASE Refreshing(c)
  <2>1. call[c].of = {i} /\ call[c].got = {}
    BY <1>6, <1>7, <1>8 DEF SInv, CallsInv, HandlersServeCalls
  <2>2. call' = [call EXCEPT ![c].got = {new}]
    BY <1>5, <1>8 DEF ServerHandles, Refreshing
  <2>3. /\ \A d \in Calls \ {c} : call'[d] = call[d]
        /\ call'[c].pc = "refreshing" /\ call'[c].of = {i} /\ call'[c].got = {new}
        /\ call'[c].switched = call[c].switched
    BY <1>8, <2>1, <2>2 DEF SInv, CallsInv, SessionTypeOK, Refreshing
  <2>4. SessionTypeOK'
    <3>1. call \in [Calls -> [pc : {"idle", "sent", "refreshing", "login"},
                               of : SUBSET issued', got : SUBSET issued', switched : BOOLEAN]]
      BY <1>3 DEF SInv, CallsInv, SessionTypeOK
    <3>2. call' \in [Calls -> [pc : {"idle", "sent", "refreshing", "login"},
                               of : SUBSET issued', got : SUBSET issued', switched : BOOLEAN]]
      BY <1>3, <2>2, <3>1
    <3> QED
      BY <1>3, <1>6, <3>2 DEF SInv, CallsInv, SessionTypeOK
  <2>5. SpentWereIssued' /\ OnePairEach'
    BY <1>3, <1>6, <2>3 DEF SInv, CallsInv, SpentWereIssued, OnePairEach, Refreshing
  <2>6. HandlersServeCalls'
    BY <1>6, <2>3 DEF SInv, CallsInv, HandlersServeCalls, Refreshing
  <2>7. NewPairsAreNew'
    BY <1>4, <1>6, <2>1, <2>3 DEF SInv, CallsInv, NewPairsAreNew
  <2>8. AnswersFit'
    BY <1>2, <1>6, <1>7, <2>3 DEF SInv, CallsInv, AnswersFit, Refreshing
  <2>9. RefreshesTheKeychain'
    BY <1>6, <1>8, <2>1, <2>3 DEF SInv, CallsInv, RefreshesTheKeychain, Refreshing, ToReplace
  <2>10. SessionSurvives'
    BY <1>6, <2>1, <2>3 DEF SInv, CallsInv, SessionSurvives
  <2> QED
    BY <2>4, <2>5, <2>6, <2>7, <2>8, <2>9, <2>10 DEF CallsInv
<1>9. CASE ~Refreshing(c)
  <2>1. UNCHANGED call
    BY <1>9 DEF ServerHandles, Refreshing
  <2>2. SessionTypeOK'
    BY <1>3, <1>6, <2>1 DEF SInv, CallsInv, SessionTypeOK
  <2>3. SpentWereIssued' /\ OnePairEach' /\ HandlersServeCalls'
    BY <1>3, <1>6, <2>1
    DEF SInv, CallsInv, SpentWereIssued, OnePairEach, HandlersServeCalls, Refreshing
  <2>4. NewPairsAreNew' /\ AnswersFit'
    BY <1>6, <1>7, <1>9, <2>1 DEF SInv, CallsInv, NewPairsAreNew, AnswersFit, Refreshing
  <2>5. RefreshesTheKeychain'
    BY <1>6, <1>9, <2>1 DEF SInv, CallsInv, RefreshesTheKeychain, Refreshing, ToReplace
  <2>6. SessionSurvives'
    BY <1>6, <1>9, <2>1 DEF SInv, CallsInv, SessionSurvives, Refreshing
  <2> QED
    BY <2>2, <2>3, <2>4, <2>5, <2>6 DEF CallsInv
<1> QED
  BY <1>8, <1>9

LEMMA ServerHandlesKeepsCallsInv ==
    ASSUME SInv, NEW c \in Calls, ServerHandles(c)
    PROVE  CallsInv'
<1>1. CASE CheckBlacklist(c) \/ CheckUser(c) \/ DatabaseFails(c)
  <2>1. /\ request[c].pc \in {"blacklist", "user", "commit"}
        /\ UNCHANGED <<blacklist, issued, keychain, lost>>
    BY <1>1 DEF CheckBlacklist, CheckUser, DatabaseFails, ServerHandles
  <2>2. /\ request'[c].of = request[c].of /\ request'[c].pc \in {"idle", "user", "commit"}
        /\ \A d \in Calls \ {c} : request'[d] = request[d]
    BY <1>1
    DEF CheckBlacklist, CheckUser, DatabaseFails, Answered, Advance, SInv, IInv, TypeOK, Calls
  <2>3. UNCHANGED call
    BY <2>1, NothingIssued
  <2> QED
    BY <2>1, <2>2, <2>3, HandlerMovesKeepsCallsInv
<1> QED
  BY <1>1, CommitKeepsCallsInv, RespondKeepsCallsInv DEF ServerHandles

LEMMA LoginAcceptedKeepsCallsInv ==
    ASSUME SInv, NEW c \in Calls, LoginAccepted(c)
    PROVE  CallsInv'
<1>1. PICK user \in Accounts, token \in Tokens : Login(user, token)
  BY DEF LoginAccepted
<1> DEFINE new == [token |-> token, user |-> user, parent |-> Root]
<1>2. new.token = token
  OBVIOUS
<1> HIDE DEF new
<1>3. /\ issued' = issued \cup {new} /\ Fresh(token)
      /\ UNCHANGED <<blacklist, request, keychain, lost>>
  BY <1>1 DEF Login, LoginAccepted, new
<1>4. /\ new \notin issued /\ new \notin keychain.refresh /\ new.token \notin blacklist
      /\ \A d \in Calls : new \notin call[d].of /\ new \notin call[d].got
                          /\ new \notin request[d].of
  BY <1>2, <1>3, NewPairUnknown
<1>5. issued' \ issued = {new}
  BY <1>3, <1>4
<1>6. call[c].pc = "sent" /\ call' = [call EXCEPT ![c] = [@ EXCEPT !.pc = "login", !.got = {new}]]
  BY <1>5 DEF LoginAccepted
<1>7. call \in [Calls -> [pc : {"idle", "sent", "refreshing", "login"},
                           of : SUBSET issued', got : SUBSET issued', switched : BOOLEAN]]
  BY <1>3 DEF SInv, CallsInv, SessionTypeOK
<1>8. /\ \A d \in Calls \ {c} : call'[d] = call[d]
      /\ call'[c].pc = "login" /\ call'[c].of = call[c].of /\ call'[c].got = {new}
  BY <1>6, <1>7
<1>9. call' \in [Calls -> [pc : {"idle", "sent", "refreshing", "login"},
                           of : SUBSET issued', got : SUBSET issued', switched : BOOLEAN]]
  BY <1>3, <1>6, <1>7
<1>10. SessionTypeOK'
  BY <1>3, <1>9 DEF SInv, CallsInv, SessionTypeOK
<1>11. SpentWereIssued' /\ OnePairEach' /\ HandlersServeCalls'
  BY <1>3, <1>6, <1>8
  DEF SInv, CallsInv, SpentWereIssued, OnePairEach, HandlersServeCalls, Refreshing
<1>12. NewPairsAreNew' /\ AnswersFit'
  BY <1>3, <1>4, <1>8 DEF SInv, CallsInv, NewPairsAreNew, AnswersFit, Refreshing
<1>13. RefreshesTheKeychain'
  BY <1>3, <1>6, <1>8 DEF SInv, CallsInv, RefreshesTheKeychain, Refreshing, ToReplace
<1>14. SessionSurvives'
  BY <1>3, <1>6, <1>8 DEF SInv, CallsInv, SessionSurvives
<1> QED
  BY <1>10, <1>11, <1>12, <1>13, <1>14 DEF CallsInv
(* A call ends and its pair goes to the keychain; to the others it may be  *)
(* a switch of the session.                                                *)
LEMMA StoreKeepsCallsInv ==
    ASSUME SInv, NEW c \in Calls, Store(call[c].got), UNCHANGED <<vars, lost>>,
           call' \in [Calls -> CallRecords], call'[c] = NoCall,
           \A d \in Calls \ {c} :
               /\ call'[d].pc = call[d].pc /\ call'[d].of = call[d].of /\ call'[d].got = call[d].got
               /\ Refreshing(d) /\ ~call'[d].switched =>
                    /\ ~call[d].switched
                    /\ Refreshing(c) /\ ~call[c].switched /\ call[c].got # {},
           Refreshing(c) => request[c].pc = "idle"
    PROVE  CallsInv'
<1>1. /\ UNCHANGED <<blacklist, issued, request, lost>>
      /\ keychain'.refresh = call[c].got /\ keychain'.access = call[c].got
      /\ keychain'.torn = FALSE
  BY DEF Store, vars
<1>2. call'[c].pc = "idle" /\ call'[c].of = {} /\ call'[c].got = {}
  BY DEF NoCall
<1>3. SessionTypeOK'
  <2>1. call[c].got \subseteq issued /\ \A i, j \in call[c].got : i = j
    BY DEF SInv, CallsInv, SessionTypeOK, OnePairEach
  <2>2. keychain'.torn \in BOOLEAN
    BY <1>1
  <2>3. call' \in [Calls -> CallRecords'] /\ lost' \subseteq Tokens
    BY <1>1 DEF CallRecords, SInv, CallsInv, SessionTypeOK
  <2> QED
    BY <1>1, <2>1, <2>2, <2>3 DEF SessionTypeOK, CallRecords
<1>4. SpentWereIssued' /\ OnePairEach'
  BY <1>1, <1>2 DEF SInv, CallsInv, SpentWereIssued, OnePairEach, Refreshing
<1>5. HandlersServeCalls'
  BY <1>1, <1>2 DEF SInv, CallsInv, HandlersServeCalls, Refreshing
<1>6. NewPairsAreNew'
  BY <1>1, <1>2 DEF SInv, CallsInv, NewPairsAreNew
<1>7. AnswersFit'
  BY <1>1, <1>2 DEF SInv, CallsInv, AnswersFit, Refreshing
<1>8. RefreshesTheKeychain'
  <2> SUFFICES ASSUME NEW d \in Calls \ {c}, Refreshing(d), ~call'[d].switched,
                      ToReplace(d) \/ \A i \in call[d].of : i.token \notin blacklist
               PROVE  FALSE
    BY <1>1, <1>2 DEF RefreshesTheKeychain, Refreshing, ToReplace
  <2>1. ~call[d].switched /\ Refreshing(c) /\ ~call[c].switched /\ call[c].got # {}
    OBVIOUS
  <2>2. keychain.refresh = call[c].of /\ keychain.refresh = call[d].of
    BY <2>1 DEF SInv, CallsInv, RefreshesTheKeychain, ToReplace
  <2>3. PICK i \in call[c].of : TRUE
    BY <2>1 DEF SInv, CallsInv, OnePairEach
  <2>4. PICK n \in call[c].got : TRUE
    BY <2>1
  <2>5. i.token \in blacklist /\ n.parent = i.token /\ n \in issued /\ i \in call[d].of
    <3>1. i.token \in blacklist /\ n.parent = i.token
      BY <2>1 DEF SInv, CallsInv, AnswersFit
    <3>2. n \in issued
      BY DEF SInv, CallsInv, SessionTypeOK
    <3> QED
      BY <2>2, <3>1, <3>2
  <2>6. CASE call[d].got # {}
    <3>1. PICK m \in call[d].got : TRUE
      BY <2>6
    <3>2. m.parent = i.token /\ m \in issued /\ i \in issued
      BY <2>5, <2>6 DEF SInv, CallsInv, AnswersFit, SessionTypeOK
    <3>3. i.token # Root
      BY <3>2, TokensAssumption DEF SInv, IInv, TypeOK, Issued
    <3>4. m = n
      BY <2>5, <3>2, <3>3 DEF SInv, IInv, AtMostOneSuccessor
    <3> QED
      BY <3>4 DEF SInv, CallsInv, NewPairsAreNew
  <2>7. CASE request[d].pc = "respond"
    <3>1. i \in request[d].of
      BY <2>5, <2>7 DEF SInv, CallsInv, HandlersServeCalls
    <3> QED
      BY <2>5, <2>7, <3>1 DEF SInv, IInv, Owned, Calls
  <2> QED
    BY <2>5, <2>6, <2>7 DEF ToReplace
<1>9. SessionSurvives'
  BY <1>1 DEF SInv, CallsInv, NewPairsAreNew, SessionSurvives
<1> QED
  BY <1>3, <1>4, <1>5, <1>6, <1>7, <1>8, <1>9 DEF CallsInv

LEMMA SwitchedFields ==
    ASSUME SInv
    PROVE  /\ Switched \in [Calls -> CallRecords]
           /\ \A d \in Calls :
                /\ Switched[d].pc = call[d].pc /\ Switched[d].of = call[d].of
                /\ Switched[d].got = call[d].got
                /\ Refreshing(d) => Switched[d].switched
<1>1. \A d \in Calls : call[d] \in CallRecords
  BY DEF SInv, CallsInv, SessionTypeOK, CallRecords
<1>2. ASSUME NEW d \in Calls
      PROVE  /\ Switched[d] \in CallRecords
             /\ Switched[d].pc = call[d].pc /\ Switched[d].of = call[d].of
             /\ Switched[d].got = call[d].got
             /\ Refreshing(d) => Switched[d].switched
  <2> DEFINE flag == call[d].switched \/ call[d].pc = "refreshing"
  <2>1. Switched[d] = [call[d] EXCEPT !.switched = flag]
    BY DEF Switched
  <2>2. flag \in BOOLEAN /\ (Refreshing(d) => flag)
    BY DEF Refreshing
  <2> HIDE DEF flag
  <2> QED
    BY <1>1, <2>1, <2>2 DEF CallRecords
<1>3. Switched = [d \in Calls |-> Switched[d]]
  BY DEF Switched
<1> QED
  BY <1>2, <1>3

LEMMA RefreshedKeepsCallsInv ==
    ASSUME SInv, NEW c \in Calls, Refreshed(c)
    PROVE  CallsInv'
<1>1. /\ Refreshing(c) /\ call[c].got # {} /\ Store(call[c].got) /\ UNCHANGED <<vars, lost>>
      /\ call' = [(IF call[c].switched THEN Switched ELSE call) EXCEPT ![c] = NoCall]
  BY DEF Refreshed, Refreshing
<1>2. request[c].pc = "idle"
  BY <1>1 DEF SInv, CallsInv, AnswersFit
<1>3. NoCall \in CallRecords
  BY DEF NoCall, CallRecords
<1>4. call \in [Calls -> CallRecords]
  BY DEF SInv, CallsInv, SessionTypeOK, CallRecords
<1>5. CASE call[c].switched
  <2>1. /\ call' \in [Calls -> CallRecords] /\ call'[c] = NoCall
        /\ \A d \in Calls \ {c} : call'[d] = Switched[d]
    BY <1>1, <1>3, <1>5, SwitchedFields
  <2>2. \A d \in Calls \ {c} :
            /\ call'[d].pc = call[d].pc /\ call'[d].of = call[d].of /\ call'[d].got = call[d].got
            /\ Refreshing(d) => call'[d].switched
    BY <2>1, SwitchedFields
  <2>3. CallRecords' = CallRecords
    BY <1>1 DEF vars, CallRecords
  <2> QED
    BY <1>1, <1>2, <2>1, <2>2, <2>3, StoreKeepsCallsInv
<1>6. CASE ~call[c].switched
  <2>1. /\ call' \in [Calls -> CallRecords] /\ call'[c] = NoCall
        /\ \A d \in Calls \ {c} : call'[d] = call[d]
    BY <1>1, <1>3, <1>4, <1>6
  <2> QED
    BY <1>1, <1>2, <1>6, <2>1, StoreKeepsCallsInv
<1> QED
  BY <1>5, <1>6

LEMMA LoginAnsweredKeepsCallsInv ==
    ASSUME SInv, NEW c \in Calls, LoginAnswered(c)
    PROVE  CallsInv'
<1>1. ~Refreshing(c) /\ UNCHANGED <<vars, lost>>
  BY DEF LoginAnswered, Refreshing
<1>2. CASE UNCHANGED keychain /\ Ends(c)
  BY <1>1, <1>2, CallEndsKeepsCallsInv
<1>3. CASE Store(call[c].got) /\ call' = [Switched EXCEPT ![c] = NoCall]
  <2>1. NoCall \in CallRecords
    BY DEF NoCall, CallRecords
  <2>2. /\ call' \in [Calls -> CallRecords] /\ call'[c] = NoCall
        /\ \A d \in Calls \ {c} : call'[d] = Switched[d]
    BY <1>3, <2>1, SwitchedFields
  <2>3. \A d \in Calls \ {c} :
            /\ call'[d].pc = call[d].pc /\ call'[d].of = call[d].of /\ call'[d].got = call[d].got
            /\ Refreshing(d) => call'[d].switched
    BY <2>2, SwitchedFields
  <2> QED
    BY <1>1, <1>3, <2>2, <2>3, StoreKeepsCallsInv
<1> QED
  BY <1>2, <1>3 DEF LoginAnswered

LEMMA LogoutKeepsCallsInv ==
    ASSUME SInv, Logout
    PROVE  CallsInv'
<1>1. /\ UNCHANGED <<blacklist, issued, request, lost>> /\ call' = Switched
      /\ keychain'.refresh = {} /\ keychain'.access = {} /\ keychain'.torn = FALSE
  BY DEF Logout, Store, vars
<1>2. /\ call' \in [Calls -> CallRecords]
      /\ \A d \in Calls :
            /\ call'[d].pc = call[d].pc /\ call'[d].of = call[d].of /\ call'[d].got = call[d].got
            /\ Refreshing(d) => call'[d].switched
  BY <1>1, SwitchedFields
<1>3. SessionTypeOK'
  BY <1>1, <1>2 DEF SInv, CallsInv, SessionTypeOK, CallRecords
<1>4. SpentWereIssued' /\ OnePairEach' /\ HandlersServeCalls'
  BY <1>1, <1>2
  DEF SInv, CallsInv, SpentWereIssued, OnePairEach, HandlersServeCalls, Refreshing
<1>5. NewPairsAreNew' /\ AnswersFit'
  BY <1>1, <1>2 DEF SInv, CallsInv, NewPairsAreNew, AnswersFit, Refreshing
<1>6. RefreshesTheKeychain' /\ SessionSurvives'
  BY <1>1, <1>2 DEF RefreshesTheKeychain, SessionSurvives, Refreshing
<1> QED
  BY <1>3, <1>4, <1>5, <1>6 DEF CallsInv

LEMMA UnansweredKeepsCallsInv ==
    ASSUME SInv, NEW c \in Calls, RefreshUnanswered(c)
    PROVE  CallsInv'
<1>1. /\ UNCHANGED <<blacklist, issued, request, keychain>> /\ Refreshing(c)
      /\ lost' = lost \cup {i.token : i \in call[c].of}
      /\ call' = [call EXCEPT ![c] = NoCall]
  BY DEF RefreshUnanswered, vars, Ends, Refreshing
<1>2. /\ call'[c].pc = "idle" /\ call'[c].of = {} /\ call'[c].got = {}
      /\ \A d \in Calls \ {c} : call'[d] = call[d]
  BY <1>1 DEF SInv, CallsInv, SessionTypeOK, NoCall
<1>3. SessionTypeOK'
  <2>1. NoCall \in CallRecords
    BY DEF NoCall, CallRecords
  <2>2. call' \in [Calls -> CallRecords]
    BY <1>1, <2>1 DEF SInv, CallsInv, SessionTypeOK, CallRecords
  <2>3. lost' \subseteq Tokens
    BY <1>1 DEF SInv, CallsInv, SessionTypeOK, IInv, TypeOK, Issued
  <2> QED
    BY <1>1, <2>2, <2>3 DEF SInv, CallsInv, SessionTypeOK, CallRecords
<1>4. SpentWereIssued' /\ OnePairEach'
  BY <1>1, <1>2 DEF SInv, CallsInv, SpentWereIssued, OnePairEach, Refreshing
<1>5. HandlersServeCalls'
  BY <1>1, <1>2 DEF SInv, CallsInv, HandlersServeCalls, Refreshing
<1>6. NewPairsAreNew' /\ AnswersFit'
  BY <1>1, <1>2 DEF SInv, CallsInv, NewPairsAreNew, AnswersFit, Refreshing
<1>7. RefreshesTheKeychain'
  BY <1>1, <1>2 DEF SInv, CallsInv, RefreshesTheKeychain, Refreshing, ToReplace
<1>8. SessionSurvives'
  <2> SUFFICES ASSUME NEW i \in keychain.refresh, i.token \in blacklist, i.token \notin lost'
               PROVE  \E d \in Calls :
                        /\ call'[d].pc = "refreshing" /\ call'[d].of = {i}
                        /\ call'[d].got # {} \/ request[d].pc = "respond" \/ request[d].of = {}
    BY <1>1 DEF SessionSurvives
  <2>1. PICK d \in Calls :
            /\ call[d].pc = "refreshing" /\ call[d].of = {i}
            /\ call[d].got # {} \/ request[d].pc = "respond" \/ request[d].of = {}
    BY <1>1 DEF SInv, CallsInv, SessionSurvives
  <2>2. d # c
    BY <1>1, <2>1
  <2> QED
    BY <1>2, <2>1, <2>2
<1> QED
  BY <1>3, <1>4, <1>5, <1>6, <1>7, <1>8 DEF CallsInv

LEMMA KilledKeepsCallsInv ==
    ASSUME SInv, KilledStoring
    PROVE  CallsInv'
<1>1. PICK pair \in {{}} \cup {call[c].got : c \in {d \in Calls : call[d].got # {}}} :
        keychain' \in {[access |-> {}, refresh |-> keychain.refresh, torn |-> TRUE],
                       [access |-> pair, refresh |-> keychain.refresh, torn |-> TRUE],
                       [access |-> pair, refresh |-> {}, torn |-> TRUE]}
  BY DEF KilledStoring
<1>2. pair \subseteq issued
  BY DEF SInv, CallsInv, SessionTypeOK
<1>3. /\ keychain'.torn = TRUE /\ keychain'.access \subseteq issued
      /\ keychain'.refresh \subseteq keychain.refresh
  BY <1>1, <1>2
<1>4. /\ UNCHANGED <<blacklist, issued, request>> /\ call' = [c \in Calls |-> NoCall]
      /\ lost' = lost \cup UNION {{i.token : i \in call[c].of} : c \in Calls}
  BY DEF KilledStoring, vars
<1>5. /\ \A c \in Calls : call'[c].pc = "idle" /\ call'[c].of = {} /\ call'[c].got = {}
      /\ lost \subseteq lost' /\ \A c \in Calls : \A i \in call[c].of : i.token \in lost'
  BY <1>4 DEF NoCall
<1>6. SessionTypeOK'
  <2>1. NoCall \in CallRecords
    BY DEF NoCall, CallRecords
  <2>2. call' \in [Calls -> CallRecords]
    BY <1>4, <2>1
  <2>3. \A c \in Calls : \A i \in call[c].of : i.token \in Tokens
    BY DEF SInv, CallsInv, SessionTypeOK, IInv, TypeOK, Issued
  <2>4. lost' \subseteq Tokens
    BY <1>4, <2>3 DEF SInv, CallsInv, SessionTypeOK
  <2> QED
    BY <1>3, <1>4, <2>2, <2>4 DEF SInv, CallsInv, SessionTypeOK, CallRecords
<1>7. SpentWereIssued' /\ OnePairEach' /\ NewPairsAreNew' /\ AnswersFit' /\ RefreshesTheKeychain'
  BY <1>4, <1>5
  DEF SInv, CallsInv, SpentWereIssued, OnePairEach, NewPairsAreNew, AnswersFit,
      RefreshesTheKeychain, Refreshing
<1>8. HandlersServeCalls'
  BY <1>4, <1>5 DEF SInv, CallsInv, HandlersServeCalls, Refreshing
<1>9. SessionSurvives'
  <2> SUFFICES ASSUME NEW i \in keychain.refresh, i.token \in blacklist
               PROVE  i.token \in lost'
    BY <1>3, <1>4 DEF SessionSurvives
  <2>1. i.token \in lost \/ \E c \in Calls : call[c].of = {i}
    BY DEF SInv, CallsInv, SessionSurvives
  <2> QED
    BY <1>5, <2>1
<1> QED
  BY <1>6, <1>7, <1>8, <1>9 DEF CallsInv

LEMMA ServerAloneKeepsCallsInv ==
    ASSUME SInv, ServerAlone
    PROVE  CallsInv'
<1>1. UNCHANGED <<blacklist, issued, keychain, call, lost>>
  BY DEF ServerAlone, Expire, Deactivate, Restart
<1>2. SessionTypeOK' /\ SpentWereIssued' /\ OnePairEach'
  BY <1>1 DEF SInv, CallsInv, SessionTypeOK, SpentWereIssued, OnePairEach, Refreshing
<1>3. CASE UNCHANGED request
  BY <1>1, <1>2, <1>3
  DEF SInv, CallsInv, HandlersServeCalls, NewPairsAreNew, AnswersFit, RefreshesTheKeychain,
      SessionSurvives, Refreshing, ToReplace
<1>4. CASE Restart
  <2>1. \A c \in Calls : request'[c].pc = "idle" /\ request'[c].of = {} /\ request'[c].answer = "none"
    BY <1>4 DEF Restart, Calls
  <2>2. HandlersServeCalls' /\ NewPairsAreNew' /\ AnswersFit'
    BY <1>1, <2>1
    DEF SInv, CallsInv, HandlersServeCalls, NewPairsAreNew, AnswersFit, Refreshing
  <2>3. RefreshesTheKeychain'
    BY <1>1, <2>1 DEF SInv, CallsInv, RefreshesTheKeychain, Refreshing, ToReplace
  <2>4. SessionSurvives'
    BY <1>1, <2>1 DEF SInv, CallsInv, SessionSurvives
  <2> QED
    BY <1>2, <2>2, <2>3, <2>4 DEF CallsInv
<1> QED
  BY <1>3, <1>4 DEF ServerAlone, Expire, Deactivate

-----------------------------------------------------------------------------
LEMMA SessionInitSInv == SessionInit => SInv
<1> SUFFICES ASSUME SessionInit PROVE SInv
  OBVIOUS
<1>1. IInv
  BY InitIInv DEF SessionInit
<1>2. CallsInv
  BY DEF SessionInit, Init, NoCall, CallsInv, SessionTypeOK, SpentWereIssued, OnePairEach,
         HandlersServeCalls, NewPairsAreNew, AnswersFit, RefreshesTheKeychain, SessionSurvives,
         Refreshing, ToReplace, Calls
<1> QED
  BY <1>1, <1>2 DEF SInv

LEMMA SessionNextKeepsSInv == SInv /\ [SessionNext]_sessionVars => SInv'
<1> SUFFICES ASSUME SInv, [SessionNext]_sessionVars PROVE SInv'
  OBVIOUS
<1>1. IInv'
  BY ServerStep, NextKeepsIInv DEF SInv
<1>2. ASSUME NEW c \in Calls,
             \/ Begin(c) \/ AnsweredOtherwise(c) \/ RefreshTokenSent(c) \/ ServerHandles(c)
             \/ Refreshed(c) \/ RefreshRefused(c) \/ RefreshUnanswered(c)
             \/ LoginAccepted(c) \/ LoginAnswered(c)
      PROVE  CallsInv'
  <2>1. CASE AnsweredOtherwise(c)
    BY <2>1, CallEndsKeepsCallsInv DEF AnsweredOtherwise, Refreshing
  <2> QED
    BY <1>2, <2>1, BeginKeepsCallsInv, SentKeepsCallsInv, ServerHandlesKeepsCallsInv,
       RefreshedKeepsCallsInv, RefusedKeepsCallsInv, UnansweredKeepsCallsInv,
       LoginAcceptedKeepsCallsInv, LoginAnsweredKeepsCallsInv
<1>3. CASE UNCHANGED sessionVars
  <2>1. UNCHANGED <<blacklist, issued, request, keychain, call, lost>>
    BY <1>3 DEF sessionVars, vars
  <2>2. SessionTypeOK' /\ SpentWereIssued' /\ OnePairEach' /\ HandlersServeCalls'
    BY <2>1
    DEF SInv, CallsInv, SessionTypeOK, SpentWereIssued, OnePairEach, HandlersServeCalls, Refreshing
  <2>3. NewPairsAreNew' /\ AnswersFit' /\ RefreshesTheKeychain'
    BY <2>1
    DEF SInv, CallsInv, NewPairsAreNew, AnswersFit, RefreshesTheKeychain, Refreshing, ToReplace
  <2>4. SessionSurvives'
    BY <2>1 DEF SInv, CallsInv, SessionSurvives
  <2> QED
    BY <1>1, <2>2, <2>3, <2>4 DEF SInv, CallsInv
<1> QED
  BY <1>1, <1>2, <1>3, LogoutKeepsCallsInv, KilledKeepsCallsInv, ServerAloneKeepsCallsInv
  DEF SessionNext, SInv

LEMMA SpecSInv == SessionSpec => []SInv
BY SessionInitSInv, SessionNextKeepsSInv, PTL DEF SessionSpec

-----------------------------------------------------------------------------
(* The theorems *)

(* The keychain, the calls and the handlers keep their shapes; unless the  *)
(* app was killed while it stored them, the two tokens are of one pair.    *)
THEOREM SessionTypeCorrect == SessionSpec => []SessionTypeOK
BY SpecSInv, PTL DEF SInv, CallsInv

(* However many calls refresh at once, a spent token stays in the keychain *)
(* only if the answer to its use was lost (APIClient.swift, refreshTokens).*)
THEOREM AppKeepsItsSession == SessionSpec => []SessionSurvives
BY SpecSInv, PTL DEF SInv, CallsInv

(* The token endpoints that the app meets are those of RefreshTokens: what *)
(* is proved of them holds for this client as well.                        *)
THEOREM AppUsesTheEndpoints == SessionSpec => Spec
<1>1. SessionInit => Init
  BY DEF SessionInit
<1>2. SInv /\ [SessionNext]_sessionVars => [Next]_vars
  BY ServerStep DEF SInv
<1> QED
  BY <1>1, <1>2, SpecSInv, PTL DEF SessionSpec, Spec

(* A refresh replaces the pair it was made from, although it looks at      *)
(* nothing when it stores, unless the session was switched under it.       *)
THEOREM RefreshesReplaceTheirOwn == SessionSpec => RefreshReplacesItsOwn
<1>1. SInv => \A c \in Calls :
                Refreshing(c) /\ call[c].got # {} =>
                    keychain.refresh = call[c].of \/ call[c].switched
  BY DEF SInv, CallsInv, RefreshesTheKeychain, ToReplace
<1>2. SInv /\ [SessionNext]_sessionVars =>
        [\A c \in Calls :
            call[c].pc = "refreshing" /\ call[c].got # {}
            /\ keychain' # keychain /\ call'[c] = NoCall
                => keychain.refresh = call[c].of \/ call[c].switched]_sessionVars
  BY <1>1 DEF Refreshing
<1> QED
  BY <1>2, SpecSInv, PTL DEF SessionSpec, RefreshReplacesItsOwn
===============================================================================
