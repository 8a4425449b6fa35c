------------------------------ MODULE Session ------------------------------
(***************************************************************************)
(* The one-login-per-account lock: the Redis key session_active:<id> that  *)
(* HandleLogin tests and sets, that the dashboard's heartbeat renews, and  *)
(* that nothing but its expiry removes.  One account, several browsers.    *)
(*                                                                         *)
(* The clock ticks once per heartbeat interval (15 s); LockTTL is the 45 s *)
(* of the key in ticks.                                                    *)
(***************************************************************************)
EXTENDS Integers, FiniteSets

CONSTANTS Browsers, LockTTL

ASSUME SessionAssumption == LockTTL \in Nat \ {0}

VARIABLES
    lock,     \* ticks session_active has left, 0 when there is no such key
    stage,    \* "out", "checked" (in HandleLogin, past EXISTS), "in" (on the
              \* dashboard), "away" (page closed, refresh cookie kept)
    beating,  \* browsers whose heartbeat is on its way
    quiet,    \* history: ticks since the browser last set the key
    raced,    \* history: logins during which another browser set the key
    returned, \* history: browsers that are in by a refresh
    lapsed    \* history: browsers in whose heartbeats failed to keep the key

vars == <<lock, stage, beating, quiet, raced, returned, lapsed>>

Init ==
    /\ lock = 0
    /\ stage = [b \in Browsers |-> "out"]
    /\ beating = {}
    /\ quiet = [b \in Browsers |-> 0]
    /\ raced = {} /\ returned = {} /\ lapsed = {}

In == {b \in Browsers : stage[b] = "in"}
Checked == {b \in Browsers : stage[b] = "checked"}

-----------------------------------------------------------------------------
(* HandleLogin, with the right password. *)

\* Mutant: the EXISTS reply is not looked at.
MutantLoginCheck(b) ==
    /\ stage[b] = "out"
    /\ stage' = [stage EXCEPT ![b] = "checked"]
    /\ raced' = raced \ {b}
    /\ UNCHANGED <<lock, beating, quiet, returned, lapsed>>

\* EXISTS session_active: while there is one, 409 and nothing changes.
LoginCheck(b) ==
    /\ stage[b] = "out"
    /\ lock = 0
    /\ stage' = [stage EXCEPT ![b] = "checked"]
    /\ raced' = raced \ {b}
    /\ UNCHANGED <<lock, beating, quiet, returned, lapsed>>

\* Mutant: the renewal adds to what is left of the key's time.
MutantSetLock(b) ==
    /\ lock' = lock + LockTTL
    /\ quiet' = [quiet EXCEPT ![b] = 0]
    /\ raced' = raced \union (Checked \ {b})

\* SET session_active EX 45 on behalf of b.
SetLock(b) ==
    /\ lock' = LockTTL
    /\ quiet' = [quiet EXCEPT ![b] = 0]
    /\ raced' = raced \union (Checked \ {b})

LoginSet(b) ==
    /\ stage[b] = "checked"
    /\ SetLock(b)
    /\ stage' = [stage EXCEPT ![b] = "in"]
    /\ UNCHANGED <<beating, returned, lapsed>>

\* Redis fails: 500.
LoginFails(b) ==
    /\ stage[b] = "checked"
    /\ stage' = [stage EXCEPT ![b] = "out"]
    /\ UNCHANGED <<lock, beating, quiet, raced, returned, lapsed>>

-----------------------------------------------------------------------------
(* The dashboard. *)

\* Mutant: the interval is not cleared on the way out.
MutantSendBeat(b) ==
    /\ b \notin beating
    /\ beating' = beating \union {b}
    /\ UNCHANGED <<lock, stage, quiet, raced, returned, lapsed>>

\* setInterval's callback posts /api/heartbeat.
SendBeat(b) ==
    /\ stage[b] = "in"
    /\ b \notin beating
    /\ beating' = beating \union {b}
    /\ UNCHANGED <<lock, stage, quiet, raced, returned, lapsed>>

\* Mutant: a heartbeat sets the key for one interval only.
MutantBeat(b) ==
    /\ b \in beating
    /\ beating' = beating \ {b}
    /\ lock' = 1
    /\ quiet' = [quiet EXCEPT ![b] = 0]
    /\ raced' = raced \union (Checked \ {b})
    /\ UNCHANGED <<stage, returned, lapsed>>

\* HandleHeartbeat: the refresh cookie that came with it is all it asks for, so
\* it may set the key after the browser has logged out.
Beat(b) ==
    /\ b \in beating
    /\ beating' = beating \ {b}
    /\ SetLock(b)
    /\ UNCHANGED <<stage, returned, lapsed>>

BeatFails(b) ==
    /\ b \in beating
    /\ beating' = beating \ {b}
    /\ UNCHANGED <<lock, stage, quiet, raced, returned, lapsed>>

Exit(b, to) ==
    /\ stage' = [stage EXCEPT ![b] = to]
    /\ returned' = returned \ {b}
    /\ lapsed' = lapsed \ {b}
    /\ UNCHANGED <<lock, beating, quiet, raced>>

\* HandleLogout deletes presence:user and session:refresh, which nobody sets,
\* and clears the cookie: session_active stays.
Logout(b) == stage[b] = "in" /\ Exit(b, "out")

\* The page is closed, or the machine sleeps.
Leave(b) == stage[b] = "in" /\ Exit(b, "away")

\* The dashboard is opened again: HandleRefresh wants the cookie and does not
\* look at session_active.
Return(b) ==
    /\ stage[b] = "away"
    /\ stage' = [stage EXCEPT ![b] = "in"]
    /\ returned' = returned \union {b}
    /\ UNCHANGED <<lock, beating, quiet, raced, lapsed>>

\* The cookie expires, or HandleViewerMode clears it.
Forget(b) == stage[b] = "away" /\ Exit(b, "out")

\* An interval passes.
Tick ==
    /\ lock > 0
    /\ lock' = lock - 1
    /\ quiet' = [b \in Browsers |-> IF quiet[b] < LockTTL THEN quiet[b] + 1 ELSE LockTTL]
    /\ lapsed' = IF lock = 1 THEN lapsed \union In ELSE lapsed
    /\ UNCHANGED <<stage, beating, raced, returned>>

Step(b) ==
    \/ LoginCheck(b) \/ LoginSet(b) \/ LoginFails(b)
    \/ SendBeat(b) \/ Beat(b) \/ BeatFails(b)
    \/ Logout(b) \/ Leave(b) \/ Return(b) \/ Forget(b)

Next == Tick \/ \E b \in Browsers : Step(b)

Spec == Init /\ [][Next]_vars

\* Time passes, and a request that has reached the server is answered.
FairSpec ==
    /\ Spec
    /\ WF_vars(Tick)
    /\ \A b \in Browsers : WF_vars(LoginSet(b) \/ LoginFails(b))
                           /\ WF_vars(Beat(b) \/ BeatFails(b))

-----------------------------------------------------------------------------
(* Properties. *)

\* Types.
TypeOK ==
    /\ lock \in 0..LockTTL
    /\ stage \in [Browsers -> {"out", "checked", "in", "away"}]
    /\ beating \subseteq Browsers
    /\ quiet \in [Browsers -> 0..LockTTL]
    /\ raced \subseteq Browsers
    /\ returned \subseteq In /\ lapsed \subseteq In

\* While a browser is in that set the key, by its login or a heartbeat, less
\* than LockTTL intervals ago, a login gets another one in only if somebody set
\* the key between that login's EXISTS and SET (authentication.go:295 and :309).
\* This holds after a lapse or a return too: one heartbeat that arrives shuts
\* the door again.
BeatingKeepsOthersOut ==
    [][\A a, b \in Browsers :
          /\ a # b /\ stage[a] = "in" /\ quiet[a] < LockTTL
          /\ stage[b] = "checked" /\ stage'[b] = "in"
          => b \in raced]_vars

\* Two browsers are in at once for one of three reasons only: a login's EXISTS
\* and SET had another's SET between them, one of the two came back by a
\* refresh, or one's heartbeats stopped long enough for the key to expire.
SharedOnlyIf ==
    \A a, b \in In : a # b =>
        {a, b} \intersect (raced \union returned \union lapsed) # {}

\* Nobody is locked out for good: with everyone gone the key goes too, or
\* somebody gets in.  (Logging out does not remove it, only its expiry does.)
AccountFreed == (lock > 0 /\ In = {}) ~> (lock = 0 \/ In # {})
=============================================================================
