---------------------------- MODULE RefreshQueue ----------------------------
(***************************************************************************)
(* One browser tab's access token: the axios interceptors of lib/api.ts,   *)
(* which answer a 401 by refreshing the token once and queueing the other  *)
(* requests that got one, together with login, logout and page loads.      *)
(*                                                                         *)
(* Somebody is logged in from a login, or a page load that finds the       *)
(* cookie, until a logout or a page load that does not. An access token    *)
(* is its account and its place in the order of issue: all live 15         *)
(* minutes, so they expire in that order.                                  *)
(***************************************************************************)
EXTENDS Integers, FiniteSets

CONSTANTS
    Requests,   \* requests the dashboard makes, each once
    Logouts,    \* those of them that are handleLogout's
    Users,
    Guest, NoToken, NoCookie,
    MaxSignIns  \* bound: tokens issued by logins and page loads

ASSUME RefreshAssumption ==
    /\ Logouts \subseteq Requests
    /\ Guest \notin Users /\ NoCookie \notin Users
    /\ NoToken \notin [owner : Users, n : Nat]

VARIABLES
    memoryAccessToken,
    isRefreshing,
    failedQueue,  \* requests waiting for the refresh in flight
    stage,        \* of each request: "idle", "sent", "served" or "denied" (its
                  \* answer is on its way), "queued", "refreshing" (it awaits
                  \* the refresh it asked for), "done" or "failed"
    header,       \* the token each request carries
    retried,      \* requests with _retry
    carried,      \* the cookie that went with each request's refresh
    cookie,       \* refresh_token_swing in the browser: an account or NoCookie
    user,         \* who is logged in
    signIns, issued, \* tokens issued by logins and page loads, and in all
    expired,      \* tokens numbered up to this one have expired
    issuer,       \* history: who made each request
    overtaken,    \* history: requests under way when user changed
    crossing,     \* history: those of them that were refreshing
    strayed       \* history: such a refresh has set the token in this page

client == <<memoryAccessToken, isRefreshing, failedQueue, stage, header, retried, carried>>
server == <<signIns, issued, expired>>
history == <<issuer, overtaken, crossing, strayed>>
vars == <<client, server, history, cookie, user>>

Tokens == [owner : Users, n : Nat]

Init ==
    /\ memoryAccessToken = NoToken /\ isRefreshing = FALSE /\ failedQueue = {}
    /\ stage = [r \in Requests |-> "idle"]
    /\ header = [r \in Requests |-> NoToken]
    /\ retried = {}
    /\ carried = [r \in Requests |-> NoCookie]
    /\ cookie = NoCookie /\ user = Guest
    /\ signIns = 0 /\ issued = 0 /\ expired = 0
    /\ issuer = [r \in Requests |-> Guest]
    /\ overtaken = {} /\ crossing = {} /\ strayed = FALSE

Under(st) == {r \in Requests : stage[r] \in st}
Refreshing == Under({"refreshing"})
UnderWay == Under({"sent", "served", "denied", "queued", "refreshing"})

-----------------------------------------------------------------------------
(* The server. *)

\* generateAccessToken.
NewToken(u) == [owner |-> u, n |-> issued + 1]

\* AuthMiddleware's ParseToken.
Valid(t) == t # NoToken /\ t.n > expired

Serve(r) ==
    /\ stage[r] = "sent"
    /\ stage' = [stage EXCEPT ![r] = IF Valid(header[r]) THEN "served" ELSE "denied"]
    /\ UNCHANGED <<memoryAccessToken, isRefreshing, failedQueue, header, retried, carried>>
    /\ UNCHANGED <<server, history, cookie, user>>

Expire ==
    /\ expired < issued
    /\ expired' = expired + 1
    /\ UNCHANGED <<client, signIns, issued, history, cookie, user>>

-----------------------------------------------------------------------------
(* Who is logged in. *)

ChangeUser(u) ==
    /\ user' = u
    /\ overtaken' = overtaken \union UnderWay
    /\ crossing' = crossing \union Refreshing

\* Mutant: the token is left in memory.
MutantEndSession ==
    /\ ChangeUser(Guest)
    /\ UNCHANGED memoryAccessToken

\* Mutant: null is given to the wrong setter.
MutantSwappedEnd ==
    /\ ChangeUser(Guest)
    /\ memoryAccessToken' = Guest

\* The finally of handleLogout.
EndSession ==
    /\ ChangeUser(Guest)
    /\ memoryAccessToken' = NoToken

\* What r's own caller does with its end: nothing, but for handleLogout.
Caller(r) ==
    IF r \in Logouts THEN EndSession
    ELSE UNCHANGED <<memoryAccessToken, user, overtaken, crossing>>

\* Mutant: a refresh cookie that is there already is kept.
MutantLogin(u) ==
    /\ user = Guest /\ signIns < MaxSignIns
    /\ memoryAccessToken' = NewToken(u)
    /\ cookie' = IF cookie = NoCookie THEN u ELSE cookie
    /\ ChangeUser(u)
    /\ signIns' = signIns + 1 /\ issued' = issued + 1
    /\ UNCHANGED <<isRefreshing, failedQueue, stage, header, retried, carried>>
    /\ UNCHANGED <<expired, issuer, strayed>>

\* handleLogin's answer arrives, with the cookie, and the dashboard is pushed.
Login(u) ==
    /\ user = Guest /\ signIns < MaxSignIns
    /\ memoryAccessToken' = NewToken(u)
    /\ cookie' = u
    /\ ChangeUser(u)
    /\ signIns' = signIns + 1 /\ issued' = issued + 1
    /\ UNCHANGED <<isRefreshing, failedQueue, stage, header, retried, carried>>
    /\ UNCHANGED <<expired, issuer, strayed>>

LoginFails ==
    /\ user = Guest
    /\ memoryAccessToken' = NoToken
    /\ UNCHANGED <<isRefreshing, failedQueue, stage, header, retried, carried>>
    /\ UNCHANGED <<server, history, cookie, user>>

\* A page load: the module's variables are new, what was under way is aborted.
Reload ==
    /\ isRefreshing' = FALSE /\ failedQueue' = {}
    /\ stage' = [r \in Requests |-> IF r \in UnderWay THEN "failed" ELSE stage[r]]
    /\ overtaken' = overtaken \union UnderWay
    /\ crossing' = crossing \union Refreshing
    /\ strayed' = FALSE
    /\ UNCHANGED <<header, retried, carried, issuer>>

\* The dashboard is loaded: initializeConnection refreshes before anything else.
Open ==
    /\ cookie # NoCookie /\ signIns < MaxSignIns
    /\ Reload
    /\ memoryAccessToken' = NewToken(cookie)
    /\ user' = cookie
    /\ signIns' = signIns + 1 /\ issued' = issued + 1
    /\ UNCHANGED <<expired, cookie>>

\* There is no cookie, or that refresh fails.
OpenFails ==
    /\ Reload
    /\ memoryAccessToken' = NoToken
    /\ user' = Guest
    /\ UNCHANGED <<server, cookie>>

-----------------------------------------------------------------------------
(* The interceptors. *)

Send(r) ==
    /\ user # Guest
    /\ stage[r] = "idle"
    /\ stage' = [stage EXCEPT ![r] = "sent"]
    /\ header' = [header EXCEPT ![r] = memoryAccessToken]
    /\ issuer' = [issuer EXCEPT ![r] = user]
    /\ UNCHANGED <<memoryAccessToken, isRefreshing, failedQueue, retried, carried>>
    /\ UNCHANGED <<server, cookie, user, overtaken, crossing, strayed>>

\* A 2xx.  HandleLogout's clears the cookie.
Arrive(r) ==
    /\ stage[r] = "served"
    /\ stage' = [stage EXCEPT ![r] = "done"]
    /\ cookie' = IF r \in Logouts THEN NoCookie ELSE cookie
    /\ Caller(r)
    /\ UNCHANGED <<isRefreshing, failedQueue, header, retried, carried>>
    /\ UNCHANGED <<server, issuer, strayed>>

\* The network or the server fails, or a request that was retried gets a 401.
Reject(r) ==
    /\ \/ stage[r] = "sent"
       \/ stage[r] = "denied" /\ r \in retried
    /\ stage' = [stage EXCEPT ![r] = "failed"]
    /\ Caller(r)
    /\ UNCHANGED <<isRefreshing, failedQueue, header, retried, carried>>
    /\ UNCHANGED <<server, cookie, issuer, strayed>>

\* A 401 while a refresh is in flight.
Enqueue(r) ==
    /\ stage[r] = "denied" /\ r \notin retried
    /\ isRefreshing
    /\ stage' = [stage EXCEPT ![r] = "queued"]
    /\ failedQueue' = failedQueue \union {r}
    /\ UNCHANGED <<memoryAccessToken, isRefreshing, header, retried, carried>>
    /\ UNCHANGED <<server, history, cookie, user>>

\* Mutant: isRefreshing is not looked at.
MutantRefresh(r) ==
    /\ stage[r] = "denied" /\ r \notin retried
    /\ stage' = [stage EXCEPT ![r] = "refreshing"]
    /\ retried' = retried \union {r}
    /\ isRefreshing' = TRUE
    /\ carried' = [carried EXCEPT ![r] = cookie]
    /\ UNCHANGED <<memoryAccessToken, failedQueue, header>>
    /\ UNCHANGED <<server, history, cookie, user>>

\* A 401 while none is.
Refresh(r) ==
    /\ stage[r] = "denied" /\ r \notin retried
    /\ ~isRefreshing
    /\ stage' = [stage EXCEPT ![r] = "refreshing"]
    /\ retried' = retried \union {r}
    /\ isRefreshing' = TRUE
    /\ carried' = [carried EXCEPT ![r] = cookie]
    /\ UNCHANGED <<memoryAccessToken, failedQueue, header>>
    /\ UNCHANGED <<server, history, cookie, user>>

\* Mutant: processQueue is not called.
MutantRefreshed(r) ==
    /\ stage[r] = "refreshing" /\ carried[r] # NoCookie
    /\ LET token == NewToken(carried[r])
       IN /\ memoryAccessToken' = token
          /\ header' = [header EXCEPT ![r] = token]
    /\ stage' = [stage EXCEPT ![r] = "sent"]
    /\ isRefreshing' = FALSE
    /\ issued' = issued + 1
    /\ strayed' = (strayed \/ r \in crossing)
    /\ UNCHANGED <<failedQueue, retried, carried, signIns, expired, cookie, user>>
    /\ UNCHANGED <<issuer, overtaken, crossing>>

\* HandleRefresh has found the cookie good: r and all that are queued go again.
Refreshed(r) ==
    /\ stage[r] = "refreshing" /\ carried[r] # NoCookie
    /\ LET again == failedQueue \union {r}
           token == NewToken(carried[r])
       IN /\ memoryAccessToken' = token
          /\ header' = [q \in Requests |-> IF q \in again THEN token ELSE header[q]]
          /\ stage' = [q \in Requests |-> IF q \in again THEN "sent" ELSE stage[q]]
    /\ failedQueue' = {} /\ isRefreshing' = FALSE
    /\ issued' = issued + 1
    /\ strayed' = (strayed \/ r \in crossing)
    /\ UNCHANGED <<retried, carried, signIns, expired, cookie, user>>
    /\ UNCHANGED <<issuer, overtaken, crossing>>

\* No cookie, or any other failure: all are rejected and the token dropped;
\* anywhere but at "/" the page is loaded anew.
RefreshFails(r) ==
    /\ stage[r] = "refreshing"
    /\ memoryAccessToken' = NoToken
    /\ user' = Guest
    /\ IF user # Guest
       THEN Reload
       ELSE /\ stage' = [q \in Requests |->
                            IF q \in failedQueue \union {r} THEN "failed" ELSE stage[q]]
            /\ failedQueue' = {} /\ isRefreshing' = FALSE
            /\ UNCHANGED <<header, retried, carried, history>>
    /\ UNCHANGED <<server, cookie>>

-----------------------------------------------------------------------------
Answer(r) ==
    \/ Serve(r) \/ Arrive(r) \/ Reject(r)
    \/ Enqueue(r) \/ Refresh(r) \/ Refreshed(r) \/ RefreshFails(r)

Next ==
    \/ \E r \in Requests : Send(r) \/ Answer(r)
    \/ \E u \in Users : Login(u)
    \/ LoginFails \/ Open \/ OpenFails \/ Expire

Spec == Init /\ [][Next]_vars

\* What has been sent is answered or given up by the browser.
FairSpec == Spec /\ \A r \in Requests : WF_vars(Answer(r))

-----------------------------------------------------------------------------
(* Properties. *)

\* Types.
TypeOK ==
    /\ memoryAccessToken \in Tokens \union {NoToken}
    /\ isRefreshing \in BOOLEAN /\ strayed \in BOOLEAN
    /\ stage \in [Requests -> {"idle", "sent", "served", "denied", "queued",
                               "refreshing", "done", "failed"}]
    /\ header \in [Requests -> Tokens \union {NoToken}]
    /\ carried \in [Requests -> Users \union {NoCookie}]
    /\ cookie \in Users \union {NoCookie}
    /\ user \in Users \union {Guest}
    /\ issuer \in [Requests -> Users \union {Guest}]
    /\ failedQueue \subseteq Requests /\ retried \subseteq Requests
    /\ overtaken \subseteq Requests /\ crossing \subseteq Requests
    /\ signIns \in Nat /\ issued \in Nat /\ expired \in Nat

\* The flag is up exactly while one request, and only one, awaits a refresh, and
\* whoever is queued has such a request to wake it: no request is left waiting
\* for a refresh that is over (api.ts:58-87).
QueueHasRefresher ==
    /\ isRefreshing <=> Refreshing # {}
    /\ \A q, r \in Refreshing : q = r
    /\ failedQueue = Under({"queued"})
    /\ failedQueue # {} => isRefreshing

\* The token in memory is the logged-in account's, or else: a refresh that was
\* in flight when the account changed has set it, or nobody is logged in and a
\* logout that never reached the server has left the cookie a late 401 used.
TokenOfUser ==
    memoryAccessToken # NoToken /\ memoryAccessToken.owner # user =>
        strayed \/ (user = Guest /\ cookie = memoryAccessToken.owner)

\* A request acts for the account that made it, however often it is sent again,
\* unless the account changed while it was under way or a token has strayed.
ActsForIssuer ==
    \A r \in UnderWay :
        header[r] # NoToken /\ header[r].owner # issuer[r] => r \in overtaken \/ strayed

\* Every request settles: through the queue, its own refresh, tokens that expire
\* again before it is resent, logouts and page loads.
Settles == \A r \in Requests : r \in UnderWay ~> stage[r] \in {"done", "failed"}
=============================================================================
