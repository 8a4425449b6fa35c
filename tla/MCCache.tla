------------------------------ MODULE MCCache ------------------------------
(***************************************************************************)
(* Two users.  Of the ten keys the ones that tell the handlers apart: a    *)
(* user's comments, a list, which a comment does not delete, and the       *)
(* notifications of the owner of the thread.                               *)
(***************************************************************************)
EXTENDS Cache, TLC

CONSTANTS u1, u2, fire, comment, read, watch, argument, r1, r2

MCKeys == {<<"comments", u1>>, <<"top", u1>>, <<"notifications", u1>>}

Handlers == fire :> "fire" @@ comment :> "comment" @@ read :> "markRead" @@ watch :> "watch"
                @@ argument :> "argument"
MCKind == [q \in Requests |-> Handlers[q]]
MCWho == [q \in Requests |-> IF q \in {fire, comment} THEN u2 ELSE u1]
MCNotified == [q \in Requests |-> IF q = comment THEN {u1} ELSE {}]

Only(requests) == \A q \in Requests \ requests : writer[q] = "new"
Alone == stage[r2] = "idle"
About(views) ==
    /\ \A r \in Readers : key[r] # NoKey => key[r][1] \in views
    /\ \A k \in cached : k[1] \in views

\* A behaviour has some of the requests, GETs of some of the views, and one or
\* two of these at a time.  (No step that is fair leaves these bounds.)
Bounded ==
    \/ Only({fire, comment}) /\ About({"comments", "top"}) /\ Alone
    \/ Only({comment, read}) /\ About({"comments", "notifications"}) /\ Alone
    \/ Only({watch, argument}) /\ About({"top"}) /\ Alone
    \/ Only({watch}) /\ About({"top"})
=============================================================================
