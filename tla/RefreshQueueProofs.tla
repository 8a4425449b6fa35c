------------------------- MODULE RefreshQueueProofs -------------------------
(***************************************************************************)
(* For any requests, accounts and number of sign-ins: the queue always has *)
(* a refresh to wake it, and accounts mix only as TokenOfUser and          *)
(* ActsForIssuer allow.  Neither of these two is inductive.  What a        *)
(* refresh brings rests on the cookie that went with it (Carries), on that *)
(* cookie being the logged-in account's (CookieOfUser), and on who made    *)
(* the requests it sends again (IssuedByUser).                             *)
(***************************************************************************)
EXTENDS RefreshQueue, TLAPS

USE DEF Under, Refreshing, UnderWay

LEMMA NewTokenType ==
    ASSUME NEW u \in Users, issued \in Nat
    PROVE  NewToken(u) \in Tokens /\ NewToken(u) # NoToken /\ NewToken(u).owner = u
<1>1. issued + 1 \in Nat
  OBVIOUS
<1>2. NewToken(u) \in Tokens
  BY <1>1 DEF NewToken, Tokens
<1>3. NewToken(u) # NoToken
  BY <1>2, RefreshAssumption DEF Tokens
<1> QED BY <1>2, <1>3 DEF NewToken

LEMMA TypeInit == Init => TypeOK
<1> SUFFICES ASSUME Init PROVE TypeOK
  OBVIOUS
<1>1. signIns \in Nat /\ issued \in Nat /\ expired \in Nat
  BY DEF Init
<1>2. strayed \in BOOLEAN /\ isRefreshing \in BOOLEAN
  BY DEF Init
<1> QED BY <1>1, <1>2 DEF Init, TypeOK

\* The part of a step that is its caller's.
LEMMA CallerType ==
    ASSUME TypeOK, NEW r \in Requests, Caller(r)
    PROVE  /\ memoryAccessToken' \in Tokens \union {NoToken}
           /\ user' \in Users \union {Guest}
           /\ overtaken' \subseteq Requests /\ crossing' \subseteq Requests
BY DEF TypeOK, Caller, EndSession, ChangeUser

LEMMA TypeStep == TypeOK /\ [Next]_vars => TypeOK'
<1> SUFFICES ASSUME TypeOK, [Next]_vars PROVE TypeOK'
  OBVIOUS
<1> USE DEF TypeOK, client, server, history
<1>1. ASSUME NEW r \in Requests, Send(r) PROVE TypeOK'
  BY <1>1 DEF Send
<1>2. ASSUME NEW r \in Requests, Serve(r) PROVE TypeOK'
  BY <1>2 DEF Serve
<1>3. ASSUME NEW r \in Requests, Arrive(r) PROVE TypeOK'
  BY <1>3, CallerType DEF Arrive
<1>4. ASSUME NEW r \in Requests, Reject(r) PROVE TypeOK'
  BY <1>4, CallerType DEF Reject
<1>5. ASSUME NEW r \in Requests, Enqueue(r) PROVE TypeOK'
  BY <1>5 DEF Enqueue
<1>6. ASSUME NEW r \in Requests, Refresh(r) PROVE TypeOK'
  BY <1>6 DEF Refresh
<1>7. ASSUME NEW r \in Requests, Refreshed(r) PROVE TypeOK'
  <2>1. carried[r] \in Users
    BY <1>7 DEF Refreshed
  <2>2. NewToken(carried[r]) \in Tokens
    BY <2>1, NewTokenType
  <2>3. /\ memoryAccessToken' \in Tokens
        /\ header' \in [Requests -> Tokens \union {NoToken}]
    BY <1>7, <2>2 DEF Refreshed
  <2>4. stage' \in [Requests -> {"idle", "sent", "served", "denied", "queued",
                                 "refreshing", "done", "failed"}]
    BY <1>7 DEF Refreshed
  <2>5. issued' \in Nat
    BY <1>7 DEF Refreshed
  <2>6. strayed' \in BOOLEAN /\ isRefreshing' \in BOOLEAN
    BY <1>7, Zenon DEF Refreshed
  <2> QED BY <1>7, <2>3, <2>4, <2>5, <2>6 DEF Refreshed
<1>8. ASSUME NEW r \in Requests, RefreshFails(r) PROVE TypeOK'
  BY <1>8 DEF RefreshFails, Reload
<1>9. ASSUME NEW u \in Users, Login(u) PROVE TypeOK'
  BY <1>9, NewTokenType DEF Login, ChangeUser
<1>10. ASSUME LoginFails PROVE TypeOK'
  BY <1>10 DEF LoginFails
<1>11. ASSUME Open PROVE TypeOK'
  <2>1. cookie \in Users /\ NewToken(cookie) \in Tokens
    BY <1>11, NewTokenType DEF Open
  <2>2. issued' \in Nat /\ signIns' \in Nat /\ memoryAccessToken' \in Tokens
    BY <1>11, <2>1 DEF Open
  <2> QED BY <1>11, <2>1, <2>2 DEF Open, Reload
<1>12. ASSUME Expire PROVE TypeOK'
  BY <1>12 DEF Expire
<1>13. ASSUME OpenFails PROVE TypeOK'
  BY <1>13 DEF OpenFails, Reload
<1>14. ASSUME UNCHANGED vars PROVE TypeOK'
  BY <1>14 DEF vars
<1> QED
  BY <1>1, <1>2, <1>3, <1>4, <1>5, <1>6, <1>7, <1>8, <1>9, <1>10, <1>11, <1>12, <1>13, <1>14
  DEF Next, Answer

\* Every variable keeps its type.
THEOREM RefreshTypeCorrect == Spec => []TypeOK
<1> QED BY TypeInit, TypeStep, PTL DEF Spec

-----------------------------------------------------------------------------
LEMMA QueueInit == Init => QueueHasRefresher
BY DEF Init, QueueHasRefresher

\* A request that neither waits nor refreshes moves on.
LEMMA QueueIdle ==
    ASSUME TypeOK, QueueHasRefresher, UNCHANGED <<isRefreshing, failedQueue>>,
           NEW r \in Requests, NEW st \in {"sent", "served", "denied", "done", "failed"},
           stage[r] \notin {"queued", "refreshing"},
           stage' = [stage EXCEPT ![r] = st]
    PROVE  QueueHasRefresher'
BY DEF TypeOK, QueueHasRefresher

LEMMA QueueStep == TypeOK /\ QueueHasRefresher /\ [Next]_vars => QueueHasRefresher'
<1> SUFFICES ASSUME TypeOK, QueueHasRefresher, [Next]_vars PROVE QueueHasRefresher'
  OBVIOUS
<1>1. ASSUME NEW r \in Requests, Send(r) PROVE QueueHasRefresher'
  BY <1>1, QueueIdle DEF Send
<1>2. ASSUME NEW r \in Requests, Serve(r) PROVE QueueHasRefresher'
  BY <1>2, QueueIdle DEF Serve
<1>3. ASSUME NEW r \in Requests, Arrive(r) PROVE QueueHasRefresher'
  BY <1>3, QueueIdle DEF Arrive
<1>4. ASSUME NEW r \in Requests, Reject(r) PROVE QueueHasRefresher'
  BY <1>4, QueueIdle DEF Reject
<1>5. ASSUME NEW r \in Requests, Enqueue(r) PROVE QueueHasRefresher'
  BY <1>5 DEF Enqueue, TypeOK, QueueHasRefresher
<1>6. ASSUME NEW r \in Requests, Refresh(r) PROVE QueueHasRefresher'
  BY <1>6 DEF Refresh, TypeOK, QueueHasRefresher
<1>7. ASSUME NEW r \in Requests, Refreshed(r) PROVE QueueHasRefresher'
  BY <1>7 DEF Refreshed, TypeOK, QueueHasRefresher
<1>8. ASSUME NEW r \in Requests, RefreshFails(r) PROVE QueueHasRefresher'
  BY <1>8 DEF RefreshFails, Reload, TypeOK, QueueHasRefresher
<1>9. ASSUME Open \/ OpenFails PROVE QueueHasRefresher'
  BY <1>9 DEF Open, OpenFails, Reload, TypeOK, QueueHasRefresher
<1>10. ASSUME UNCHANGED <<isRefreshing, failedQueue, stage>> PROVE QueueHasRefresher'
  BY <1>10 DEF QueueHasRefresher
<1> QED
  BY <1>1, <1>2, <1>3, <1>4, <1>5, <1>6, <1>7, <1>8, <1>9, <1>10
  DEF Next, Answer, Login, LoginFails, Expire, vars, client

\* However 401s, logouts and page loads interleave, at most one request awaits a
\* refresh, and no request is queued without one.
THEOREM QueueAlwaysWoken == Spec => []QueueHasRefresher
<1> QED BY TypeInit, TypeStep, QueueInit, QueueStep, PTL DEF Spec

-----------------------------------------------------------------------------
CookieOfUser == user # Guest => cookie = user

\* A refresh the account has not changed under took the cookie that is still there.
Carries == \A r \in Refreshing \ crossing : carried[r] = cookie

\* A request the account has not changed under was made by who is logged in.
IssuedByUser == \A r \in UnderWay \ overtaken : user # Guest /\ issuer[r] = user

IInv ==
    /\ TypeOK /\ QueueHasRefresher
    /\ CookieOfUser /\ Carries /\ IssuedByUser /\ TokenOfUser /\ ActsForIssuer

LEMMA AccountsInit == Init => IInv
BY TypeInit, QueueInit, RefreshAssumption
DEF Init, IInv, CookieOfUser, Carries, IssuedByUser, TokenOfUser, ActsForIssuer

\* A step that changes no account, cookie or token, and starts no refresh.
LEMMA AccountsKept ==
    ASSUME IInv, TypeOK', QueueHasRefresher',
           UNCHANGED <<memoryAccessToken, header, carried, cookie, user, history>>,
           UnderWay' \subseteq UnderWay, Refreshing' \subseteq Refreshing
    PROVE  IInv'
BY DEF IInv, CookieOfUser, Carries, IssuedByUser, TokenOfUser, ActsForIssuer, history

\* A step in which r ends and its caller may end the session.
LEMMA AccountsEnd ==
    ASSUME IInv, TypeOK', QueueHasRefresher', NEW r \in Requests,
           stage[r] # "refreshing",
           NEW st \in {"done", "failed"}, stage' = [stage EXCEPT ![r] = st],
           cookie' = cookie \/ (r \in Logouts /\ cookie' = NoCookie),
           Caller(r), UNCHANGED <<header, carried, issuer, strayed>>
    PROVE  IInv'
<1>1. UnderWay' \subseteq UnderWay /\ Refreshing' \subseteq Refreshing
  BY DEF IInv, TypeOK
<1>2. CASE r \in Logouts
  <2>1. /\ user' = Guest /\ memoryAccessToken' = NoToken
        /\ overtaken' = overtaken \union UnderWay
        /\ crossing' = crossing \union Refreshing
    BY <1>2 DEF Caller, EndSession, ChangeUser
  <2>2. CookieOfUser' /\ TokenOfUser'
    BY <2>1 DEF CookieOfUser, TokenOfUser
  <2>3. Carries' /\ IssuedByUser' /\ ActsForIssuer'
    BY <1>1, <2>1 DEF Carries, IssuedByUser, ActsForIssuer
  <2> QED BY <2>2, <2>3 DEF IInv
<1>3. CASE r \notin Logouts
  BY <1>1, <1>3, AccountsKept DEF Caller, history
<1> QED BY <1>2, <1>3

LEMMA AccountsStep == IInv /\ [Next]_vars => IInv'
<1> SUFFICES ASSUME IInv, [Next]_vars PROVE IInv'
  OBVIOUS
<1>0. TypeOK /\ TypeOK' /\ QueueHasRefresher'
  BY TypeStep, QueueStep DEF IInv
<1>1. ASSUME NEW r \in Requests, Send(r) PROVE IInv'
  <2>1. /\ UnderWay' \subseteq UnderWay \union {r} /\ Refreshing' = Refreshing
        /\ header'[r] = memoryAccessToken /\ issuer'[r] = user
        /\ \A q \in Requests \ {r} : header'[q] = header[q] /\ issuer'[q] = issuer[q]
    BY <1>0, <1>1 DEF Send, TypeOK
  <2>2. CookieOfUser' /\ Carries' /\ TokenOfUser'
    BY <1>1, <2>1 DEF Send, IInv, CookieOfUser, Carries, TokenOfUser
  <2>3. IssuedByUser'
    BY <1>1, <2>1 DEF Send, IInv, IssuedByUser
  <2>4. ActsForIssuer'
    BY <1>1, <2>1 DEF Send, IInv, ActsForIssuer, TokenOfUser
  <2> QED BY <1>0, <2>2, <2>3, <2>4 DEF IInv
<1>2. ASSUME NEW r \in Requests, Serve(r) PROVE IInv'
  BY <1>0, <1>2, AccountsKept DEF Serve, TypeOK, history
<1>3. ASSUME NEW r \in Requests, Arrive(r) PROVE IInv'
  BY <1>0, <1>3, AccountsEnd DEF Arrive
<1>4. ASSUME NEW r \in Requests, Reject(r) PROVE IInv'
  BY <1>0, <1>4, AccountsEnd DEF Reject
<1>5. ASSUME NEW r \in Requests, Enqueue(r) PROVE IInv'
  BY <1>0, <1>5, AccountsKept DEF Enqueue, TypeOK, history
<1>6. ASSUME NEW r \in Requests, Refresh(r) PROVE IInv'
  <2>1. /\ UnderWay' = UnderWay /\ Refreshing' = Refreshing \union {r}
        /\ carried'[r] = cookie
        /\ \A q \in Requests \ {r} : carried'[q] = carried[q]
    BY <1>0, <1>6 DEF Refresh, TypeOK
  <2>2. Carries'
    BY <1>6, <2>1 DEF Refresh, history, IInv, Carries
  <2>3. CookieOfUser' /\ IssuedByUser' /\ TokenOfUser' /\ ActsForIssuer'
    BY <1>6, <2>1 DEF Refresh, history, IInv, CookieOfUser, IssuedByUser, TokenOfUser, ActsForIssuer
  <2> QED BY <1>0, <2>2, <2>3 DEF IInv
<1>7. ASSUME NEW r \in Requests, Refreshed(r) PROVE IInv'
  <2> DEFINE again == failedQueue \union {r}
             token == NewToken(carried[r])
  <2>1. token # NoToken /\ token.owner = carried[r]
    BY <1>0, <1>7, NewTokenType DEF Refreshed, TypeOK
  <2>2. UnderWay' = UnderWay /\ again \subseteq UnderWay /\ Refreshing' \subseteq Refreshing
    BY <1>0, <1>7 DEF Refreshed, TypeOK, IInv, QueueHasRefresher
  <2>3. strayed' \/ carried[r] = cookie
    BY <1>7 DEF Refreshed, IInv, Carries
  <2>4. CookieOfUser' /\ Carries' /\ IssuedByUser'
    BY <1>7, <2>2 DEF Refreshed, IInv, CookieOfUser, Carries, IssuedByUser
  <2>5. TokenOfUser'
    BY <1>7, <2>1, <2>3 DEF Refreshed, IInv, TokenOfUser, CookieOfUser
  <2>6. ActsForIssuer'
    <3> SUFFICES ASSUME NEW q \in UnderWay, header'[q] # NoToken,
                        header'[q].owner # issuer[q], q \notin overtaken, ~strayed'
                 PROVE FALSE
      BY <1>7, <2>2 DEF Refreshed, ActsForIssuer
    <3>1. CASE q \in again
      <4>1. header'[q] = token
        BY <1>7, <3>1 DEF Refreshed
      <4>2. issuer[q] = user /\ user # Guest
        BY DEF IInv, IssuedByUser
      <4> QED BY <2>1, <2>3, <4>1, <4>2 DEF IInv, CookieOfUser
    <3>2. CASE q \notin again
      <4>1. header'[q] = header[q] /\ ~strayed
        BY <1>7, <3>2 DEF Refreshed
      <4> QED BY <4>1 DEF IInv, ActsForIssuer
    <3> QED BY <3>1, <3>2
  <2> QED BY <1>0, <2>4, <2>5, <2>6 DEF IInv
<1>8. ASSUME NEW r \in Requests, RefreshFails(r) PROVE IInv'
  <2>1. user' = Guest /\ memoryAccessToken' = NoToken /\ cookie' = cookie
    BY <1>8 DEF RefreshFails
  <2>2. CookieOfUser' /\ TokenOfUser'
    BY <2>1 DEF CookieOfUser, TokenOfUser
  <2>3. CASE user # Guest
    <3>1. UnderWay' = {}
      BY <1>0, <1>8, <2>3 DEF RefreshFails, Reload, TypeOK
    <3> QED BY <1>0, <2>2, <3>1 DEF IInv, Carries, IssuedByUser, ActsForIssuer
  <2>4. CASE user = Guest
    <3>1. /\ UnderWay' \subseteq UnderWay /\ Refreshing' \subseteq Refreshing
          /\ UNCHANGED <<header, carried, issuer, overtaken, crossing, strayed>>
      BY <1>0, <1>8, <2>4 DEF RefreshFails, TypeOK, history
    <3>2. Carries' /\ IssuedByUser' /\ ActsForIssuer'
      BY <2>1, <2>4, <3>1 DEF IInv, Carries, IssuedByUser, ActsForIssuer
    <3> QED BY <1>0, <2>2, <3>2 DEF IInv
  <2> QED BY <2>3, <2>4
<1>9. ASSUME NEW u \in Users, Login(u) PROVE IInv'
  <2>1. /\ memoryAccessToken' = NewToken(u) /\ cookie' = u /\ user' = u
        /\ overtaken' = overtaken \union UnderWay
        /\ crossing' = crossing \union Refreshing
        /\ UNCHANGED <<stage, header, carried, issuer, strayed>>
    BY <1>9 DEF Login, ChangeUser
  <2>2. NewToken(u).owner = u
    BY <1>0, NewTokenType DEF TypeOK
  <2> QED
    BY <1>0, <2>1, <2>2
    DEF IInv, CookieOfUser, Carries, IssuedByUser, TokenOfUser, ActsForIssuer
<1>10. ASSUME LoginFails PROVE IInv'
  <2>1. memoryAccessToken' = NoToken /\ TokenOfUser'
    BY <1>10 DEF LoginFails, TokenOfUser
  <2> QED
    BY <1>0, <1>10, <2>1
    DEF LoginFails, history, IInv, CookieOfUser, Carries, IssuedByUser, ActsForIssuer
<1>11. ASSUME Open PROVE IInv'
  <2>1. UnderWay' = {}
    BY <1>0, <1>11 DEF Open, Reload, TypeOK
  <2>2. NewToken(cookie).owner = cookie
    BY <1>0, <1>11, NewTokenType DEF Open, TypeOK
  <2>3. CookieOfUser' /\ TokenOfUser'
    BY <1>11, <2>2 DEF Open, CookieOfUser, TokenOfUser
  <2> QED BY <1>0, <2>1, <2>3 DEF IInv, Carries, IssuedByUser, ActsForIssuer
<1>12. ASSUME Expire PROVE IInv'
  BY <1>0, <1>12, AccountsKept DEF Expire, client
<1>13. ASSUME OpenFails PROVE IInv'
  <2>1. UnderWay' = {}
    BY <1>0, <1>13 DEF OpenFails, Reload, TypeOK
  <2>2. CookieOfUser' /\ TokenOfUser'
    BY <1>13 DEF OpenFails, CookieOfUser, TokenOfUser
  <2> QED BY <1>0, <2>1, <2>2 DEF IInv, Carries, IssuedByUser, ActsForIssuer
<1>14. ASSUME UNCHANGED vars PROVE IInv'
  BY <1>0, <1>14, AccountsKept DEF vars, client
<1> QED
  BY <1>1, <1>2, <1>3, <1>4, <1>5, <1>6, <1>7, <1>8, <1>9, <1>10, <1>11, <1>12, <1>13, <1>14
  DEF Next, Answer

\* Apart from TokenOfUser's reasons, nothing in the interceptors leaves the page
\* with another account's token.
THEOREM TokenIsOfUser == Spec => []TokenOfUser
<1>1. IInv => TokenOfUser
  BY DEF IInv
<1> QED BY <1>1, AccountsInit, AccountsStep, PTL DEF Spec

\* Apart from ActsForIssuer's reasons, a request acts for the account that made
\* it, however refreshes, retries and sign-ins interleave.
THEOREM AccountsKeptApart == Spec => []ActsForIssuer
<1>1. IInv => ActsForIssuer
  BY DEF IInv
<1> QED BY <1>1, AccountsInit, AccountsStep, PTL DEF Spec
=============================================================================
