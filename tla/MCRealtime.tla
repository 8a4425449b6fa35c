----------------------------- MODULE MCRealtime -----------------------------
(***************************************************************************)
(* Two connections: k1 belongs to the owner of the thread (its ticket named *)
(* the user, as the load test's do), k2 has the UserId 0 of a viewer.       *)
(***************************************************************************)
EXTENDS Realtime, TLC

CONSTANTS k1, k2, p1, p2, f1, f2, f3, author, owner, viewer

MCUserId == k1 :> owner @@ k2 :> viewer
MCFireUser == [f \in Fires |-> IF f = f1 THEN owner ELSE viewer]
MCPoster == p1 :> author @@ p2 :> owner
MCOwner == p1 :> owner @@ p2 :> owner

\* A behaviour has either comments, connections and one request that adds a
\* fire and succeeds in counting again, or three requests of all kinds alone.
\* (No step that is fair leaves these bounds but a failing re-count, which has a
\* succeeding one beside it: nothing that HandlersEnd needs is cut off.)
Bounded ==
    \/ /\ \A f \in Fires : f # f1 => fire[f] = "start"
       /\ reacted \subseteq {owner} /\ ~exists[f1] /\ blind = {}
       /\ fire[f1] = "start" => reacted = {}
    \/ (\A p \in Posts : post[p] = "start") /\ \A k \in Conns : stage[k] = "none"
=============================================================================
