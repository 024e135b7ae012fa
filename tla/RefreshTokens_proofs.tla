------------------------- MODULE RefreshTokens_proofs -------------------------
(***************************************************************************)
(* Proofs about RefreshTokens: for any number of tokens, users and         *)
(* concurrent requests, rotation gives each token at most one successor,   *)
(* and the handlers implement OneTimeTokens.                               *)
(***************************************************************************)
EXTENDS RefreshTokens, TLAPS

(* No two tokens share a jti, and a handler works for one token. *)
Distinct ==
    /\ \A i, j \in issued : i.token = j.token => i = j
    /\ \A r \in Requests : \A i, j \in request[r].of : i = j

(* Between its commit and its response, a handler owns its token: the      *)
(* token is spent, has no successor, and no other handler is there with    *)
(* it.  This is what the unique constraint buys.                           *)
Owned ==
    /\ \A r \in Requests : request[r].pc = "respond" =>
        \A i \in request[r].of :
            i.token \in blacklist /\ \A j \in issued : j.parent # i.token
    /\ \A r, s \in Requests :
        request[r].pc = "respond" /\ request[s].pc = "respond" =>
            \A i \in request[r].of, j \in request[s].of :
                i.token = j.token => r = s

IInv == TypeOK /\ Distinct /\ Owned /\ SuccessorOnlyIfSpent /\ AtMostOneSuccessor

LEMMA InitIInv == Init => IInv
BY DEF Init, IInv, TypeOK, Distinct, Owned, SuccessorOnlyIfSpent,
       AtMostOneSuccessor, Places, Answers

Handlers == [pc : Places, of : SUBSET Issued, answer : Answers]

(* A handler that only moves on, without a commit or a new token. *)
LEMMA MoveKeepsIInv ==
    ASSUME IInv,
           UNCHANGED <<blacklist, issued>>,
           inactive' \subseteq Accounts, expired' \subseteq Tokens,
           NEW r \in Requests,
           request' \in [Requests -> Handlers],
           request'[r].pc # "respond",
           request'[r].of \subseteq issued,
           \A i, j \in request'[r].of : i = j,
           \A s \in Requests \ {r} : request'[s] = request[s]
    PROVE  IInv'
<1>1. TypeOK'
  BY DEF IInv, TypeOK, Handlers
<1>2. Distinct'
  BY DEF IInv, Distinct
<1>3. Owned'
  BY DEF IInv, Owned
<1>4. SuccessorOnlyIfSpent' /\ AtMostOneSuccessor'
  BY DEF IInv, SuccessorOnlyIfSpent, AtMostOneSuccessor
<1> QED
  BY <1>1, <1>2, <1>3, <1>4 DEF IInv

LEMMA AnsweredKeepsIInv ==
    ASSUME IInv, NEW r \in Requests, NEW answer \in Answers, Answered(r, answer),
           UNCHANGED <<blacklist, inactive, expired, issued>>
    PROVE  IInv'
<1>1. /\ request' \in [Requests -> Handlers]
      /\ request'[r].pc = "idle"
      /\ request'[r].of = request[r].of
      /\ \A s \in Requests \ {r} : request'[s] = request[s]
  BY DEF IInv, TypeOK, Answered, Handlers, Places
<1> QED
  BY <1>1, MoveKeepsIInv DEF IInv, TypeOK, Distinct

LEMMA AdvanceKeepsIInv ==
    ASSUME IInv, NEW r \in Requests, NEW pc \in Places \ {"respond"}, Advance(r, pc),
           UNCHANGED <<blacklist, inactive, expired, issued>>
    PROVE  IInv'
<1>1. /\ request' \in [Requests -> Handlers]
      /\ request'[r].pc = pc
      /\ request'[r].of = request[r].of
      /\ \A s \in Requests \ {r} : request'[s] = request[s]
  BY DEF IInv, TypeOK, Advance, Handlers
<1> QED
  BY <1>1, MoveKeepsIInv DEF IInv, TypeOK, Distinct

LEMMA LoginKeepsIInv ==
    ASSUME IInv, NEW user \in Accounts, NEW token \in Tokens, Login(user, token)
    PROVE  IInv'
<1> DEFINE new == [token |-> token, user |-> user, parent |-> Root]
<1>1. /\ issued' = issued \cup {new}
      /\ UNCHANGED <<blacklist, inactive, expired, request>>
      /\ Fresh(token)
  BY DEF Login
<1>2. TypeOK'
  BY <1>1 DEF IInv, TypeOK, Issued
<1>3. Distinct'
  BY <1>1 DEF IInv, Distinct, Fresh
<1>4. Owned'
  BY <1>1, TokensAssumption DEF IInv, TypeOK, Issued, Owned
<1>5. SuccessorOnlyIfSpent' /\ AtMostOneSuccessor'
  BY <1>1 DEF IInv, SuccessorOnlyIfSpent, AtMostOneSuccessor
<1> QED
  BY <1>2, <1>3, <1>4, <1>5 DEF IInv

LEMMA PresentKeepsIInv ==
    ASSUME IInv, NEW r \in Requests, NEW i \in issued,
           Present(r, i) \/ PresentExpired(r, i)
    PROVE  IInv'
<1> inactive' \subseteq Accounts /\ expired' \subseteq Tokens
  BY DEF IInv, TypeOK, Present, PresentExpired
<1>1. /\ request' \in [Requests -> Handlers]
      /\ request'[r].pc # "respond"
      /\ request'[r].of = {i}
      /\ \A s \in Requests \ {r} : request'[s] = request[s]
  BY DEF IInv, TypeOK, Present, PresentExpired, Handlers, Places, Answers
<1>2. UNCHANGED <<blacklist, issued>>
  BY DEF Present, PresentExpired
<1> QED
  BY <1>1, <1>2, MoveKeepsIInv

LEMMA CommitKeepsIInv ==
    ASSUME IInv, NEW r \in Requests, Commit(r)
    PROVE  IInv'
<1> PICK i \in request[r].of :
        \/ /\ i.token \notin blacklist
           /\ blacklist' = blacklist \cup {i.token}
           /\ Advance(r, "respond")
        \/ /\ i.token \in blacklist
           /\ Answered(r, "500")
           /\ UNCHANGED blacklist
  BY DEF Commit
<1> UNCHANGED <<inactive, expired, issued>>
  BY DEF Commit
<1>1. CASE Answered(r, "500") /\ UNCHANGED blacklist
  BY <1>1, AnsweredKeepsIInv DEF Answers
<1>2. CASE /\ i.token \notin blacklist
           /\ blacklist' = blacklist \cup {i.token}
           /\ Advance(r, "respond")
  <2>1. i \in issued /\ \A j \in request[r].of : j = i
    BY DEF IInv, TypeOK, Distinct
  <2>2. /\ \A s \in Requests : request'[s].of = request[s].of
        /\ \A s \in Requests \ {r} : request'[s] = request[s]
    BY <1>2 DEF IInv, TypeOK, Advance
  <2>3. TypeOK'
    BY <1>2, <2>1 DEF IInv, TypeOK, Issued, Advance, Places
  <2>4. Distinct'
    BY <2>2 DEF IInv, Distinct
  <2>5. \A j \in issued : j.parent # i.token
    BY <1>2, <2>1, TokensAssumption DEF IInv, TypeOK, Issued, SuccessorOnlyIfSpent
  <2>6. Owned'
    BY <1>2, <2>1, <2>2, <2>5 DEF IInv, Owned
  <2>7. SuccessorOnlyIfSpent' /\ AtMostOneSuccessor'
    BY <1>2 DEF IInv, SuccessorOnlyIfSpent, AtMostOneSuccessor
  <2> QED
    BY <2>3, <2>4, <2>6, <2>7 DEF IInv
<1> QED
  BY <1>1, <1>2

LEMMA RespondKeepsIInv ==
    ASSUME IInv, NEW r \in Requests, NEW token \in Tokens, Respond(r, token)
    PROVE  IInv'
<1> PICK i \in request[r].of :
        issued' = issued \cup {[token |-> token, user |-> i.user, parent |-> i.token]}
  BY DEF Respond
<1> DEFINE new == [token |-> token, user |-> i.user, parent |-> i.token]
<1>1. /\ request[r].pc = "respond"
      /\ Fresh(token)
      /\ Answered(r, "200")
      /\ UNCHANGED <<blacklist, inactive, expired>>
  BY DEF Respond
<1>2. /\ i \in issued /\ i \in Issued
      /\ \A j \in request[r].of : j = i
      /\ i.token \in blacklist
      /\ \A j \in issued : j.parent # i.token
  BY <1>1 DEF IInv, TypeOK, Distinct, Owned
<1>3. /\ request'[r].pc = "idle"
      /\ \A s \in Requests : request'[s].of = request[s].of
      /\ \A s \in Requests \ {r} : request'[s] = request[s]
  BY <1>1 DEF IInv, TypeOK, Answered
<1>4. TypeOK'
  <2>1. request' \in [Requests -> Handlers]
    BY <1>1 DEF IInv, TypeOK, Answered, Handlers, Places, Answers
  <2>2. new \in Issued
    BY <1>2 DEF Issued
  <2> QED
    BY <1>1, <1>3, <2>1, <2>2 DEF IInv, TypeOK, Handlers
<1>5. Distinct'
  BY <1>1, <1>3 DEF IInv, Distinct, Fresh
<1>6. Owned'
  BY <1>1, <1>2, <1>3 DEF IInv, Owned
<1>7. SuccessorOnlyIfSpent'
  BY <1>1, <1>2 DEF IInv, SuccessorOnlyIfSpent
<1>8. AtMostOneSuccessor'
  BY <1>2 DEF IInv, AtMostOneSuccessor
<1> QED
  BY <1>4, <1>5, <1>6, <1>7, <1>8 DEF IInv

LEMMA NextKeepsIInv == IInv /\ [Next]_vars => IInv'
<1> SUFFICES ASSUME IInv, [Next]_vars PROVE IInv'
  OBVIOUS
<1>1. ASSUME NEW r \in Requests, Handle(r) PROVE IInv'
  <2>1. CASE \E i \in issued : Present(r, i) \/ PresentExpired(r, i)
    BY <2>1, PresentKeepsIInv
  <2>2. CASE CheckBlacklist(r)
    BY <2>2, AnsweredKeepsIInv, AdvanceKeepsIInv DEF CheckBlacklist, Places, Answers
  <2>3. CASE CheckUser(r)
    BY <2>3, AnsweredKeepsIInv, AdvanceKeepsIInv DEF CheckUser, Places, Answers
  <2>4. CASE Commit(r)
    BY <2>4, CommitKeepsIInv
  <2>5. CASE DatabaseFails(r)
    BY <2>5, AnsweredKeepsIInv DEF DatabaseFails, Answers
  <2>6. CASE \E token \in Tokens : Respond(r, token)
    BY <2>6, RespondKeepsIInv
  <2> QED
    BY <1>1, <2>1, <2>2, <2>3, <2>4, <2>5, <2>6 DEF Handle
<1>2. CASE \E user \in Accounts, token \in Tokens : Login(user, token)
  BY <1>2, LoginKeepsIInv
<1>3. CASE \/ \E i \in issued : Expire(i)
           \/ \E user \in Accounts : Deactivate(user)
           \/ UNCHANGED vars
  <2>1. /\ UNCHANGED <<blacklist, issued, request>>
        /\ inactive' \subseteq Accounts
        /\ expired' \subseteq Tokens
    BY <1>3 DEF IInv, TypeOK, Issued, Expire, Deactivate, vars
  <2> QED
    BY <2>1 DEF IInv, TypeOK, Distinct, Owned, SuccessorOnlyIfSpent, AtMostOneSuccessor
<1>4. CASE Restart
  BY <1>4 DEF Restart, IInv, TypeOK, Distinct, Owned, SuccessorOnlyIfSpent,
              AtMostOneSuccessor, Places, Answers
<1> QED
  BY <1>1, <1>2, <1>3, <1>4 DEF Next

LEMMA SpecIInv == Spec => []IInv
BY InitIInv, NextKeepsIInv, PTL DEF Spec

(* The tables and the handlers of the token endpoints keep their shapes.   *)
THEOREM TypeCorrect == Spec => []TypeOK
BY SpecIInv, PTL DEF IInv

(* However requests for the same refresh token interleave, at most one new *)
(* pair comes out of it (router.py, refresh_token).                        *)
THEOREM RotationIsSafe == Spec => []AtMostOneSuccessor
BY SpecIInv, PTL DEF IInv

(* A refresh token is on the blacklist before its successor exists.        *)
THEOREM SpentBeforeReplaced == Spec => []SuccessorOnlyIfSpent
BY SpecIInv, PTL DEF IInv

LEMMA InitRefines == Init => Promise!Init
BY DEF Init, Promise!Init

LEMMA StepRefines ==
    ASSUME IInv, [Next]_vars
    PROVE  [Promise!Next]_<<issued, blacklist>>
<1>1. CASE \E user \in Accounts, token \in Tokens : Login(user, token)
  BY <1>1 DEF Login, Fresh, Promise!Next, Promise!Begin, Promise!Fresh
<1>2. ASSUME NEW r \in Requests, Commit(r)
      PROVE  [Promise!Next]_<<issued, blacklist>>
  BY <1>2 DEF Commit, IInv, TypeOK, Promise!Next, Promise!Spend
<1>3. ASSUME NEW r \in Requests, NEW token \in Tokens, Respond(r, token)
      PROVE  [Promise!Next]_<<issued, blacklist>>
  <2>1. PICK i \in request[r].of :
          issued' = issued \cup {[token |-> token, user |-> i.user, parent |-> i.token]}
    BY <1>3 DEF Respond
  <2>2. /\ i \in issued
        /\ i.token \in blacklist
        /\ \A j \in issued : j.parent # i.token
    BY <1>3 DEF Respond, IInv, TypeOK, Owned
  <2>3. Promise!Replace(i, token)
    BY <1>3, <2>1, <2>2 DEF Respond, Fresh, Promise!Replace, Promise!Fresh
  <2> QED
    BY <2>2, <2>3 DEF Promise!Next
<1>4. ASSUME NEW r \in Requests,
             \/ \E i \in issued : Present(r, i) \/ PresentExpired(r, i)
             \/ CheckBlacklist(r) \/ CheckUser(r) \/ DatabaseFails(r)
      PROVE  [Promise!Next]_<<issued, blacklist>>
  BY <1>4 DEF Present, PresentExpired, CheckBlacklist, CheckUser, DatabaseFails
<1>5. CASE \/ \E i \in issued : Expire(i)
           \/ \E user \in Accounts : Deactivate(user)
           \/ Restart
           \/ UNCHANGED vars
  BY <1>5 DEF Expire, Deactivate, Restart, vars
<1> QED
  BY <1>1, <1>2, <1>3, <1>4, <1>5 DEF Next, Handle

(* The token endpoints implement OneTimeTokens: every step of a handler is *)
(* Spend, Replace, or invisible.                                           *)
THEOREM Refinement == Spec => ImplementsPromise
BY SpecIInv, InitRefines, StepRefines, PTL DEF Spec, ImplementsPromise, Promise!Spec
==============================================================================
