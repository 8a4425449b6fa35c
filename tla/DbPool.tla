------------------------------- MODULE DbPool -------------------------------
(***************************************************************************)
(* The pool of database connections (database/db.go) under the handlers.   *)
(* HandleGetArguments and HandleTopArguments read the comments of each     *)
(* argument while the rows of the argument list are still open, so they    *)
(* hold one connection and want another; every other handler uses one      *)
(* connection at a time.                                                   *)
(***************************************************************************)
EXTENDS Integers, FiniteSets

CONSTANTS
    Lists,    \* requests to the two list handlers
    Singles,  \* requests to any other
    Conns,    \* the connections, MaxOpenConns of them
    Free,
    MaxRows   \* bound: arguments on a page, or queries of another handler

Requests == Lists \union Singles

ASSUME PoolAssumption ==
    /\ IsFiniteSet(Conns) /\ Conns # {} /\ IsFiniteSet(Requests)
    /\ Lists \intersect Singles = {}
    /\ MaxRows \in Nat
    /\ Free \notin Requests \X {"query", "rows"}

VARIABLES
    stage,  \* of each request: "idle", "position", "count", "list", "comments"
            \* (the query it runs or waits to run), "single", "done"
    rows,   \* arguments whose comments it has to read, or queries it has to run
    held    \* who has each connection and for what: a query, or open list rows

vars == <<stage, rows, held>>

Init ==
    /\ stage = [r \in Requests |-> "idle"]
    /\ rows = [r \in Requests |-> 0]
    /\ held = [c \in Conns |-> Free]

Running == {"position", "count", "list", "comments", "single"}
Querying(r) == \E c \in Conns : held[c] = <<r, "query">>

\* r's connections for these uses go back to the pool.
Release(r, uses) ==
    held' = [c \in Conns |-> IF held[c] \in {r} \X uses THEN Free ELSE held[c]]

Go(r, to) == stage' = [stage EXCEPT ![r] = to]

\* DB.Query: a connection, when there is one.
Connect(r) ==
    /\ stage[r] \in Running /\ ~Querying(r)
    /\ \E c \in Conns : held[c] = Free /\ held' = [held EXCEPT ![c] = <<r, "query">>]
    /\ UNCHANGED <<stage, rows>>

-----------------------------------------------------------------------------
(* HandleGetArguments and HandleTopArguments. *)

\* The page is in Redis.
Hit(r) == r \in Lists /\ stage[r] = "idle" /\ Go(r, "done") /\ UNCHANGED <<rows, held>>

Miss(r) == r \in Lists /\ stage[r] = "idle" /\ Go(r, "count") /\ UNCHANGED <<rows, held>>

\* target_argument_id: the page is looked for before it is looked up in Redis.
Locate(r) == r \in Lists /\ stage[r] = "idle" /\ Go(r, "position") /\ UNCHANGED <<rows, held>>

Located(r) ==
    /\ stage[r] = "position" /\ Querying(r)
    /\ Release(r, {"query"}) /\ \E to \in {"count", "done"} : Go(r, to)
    /\ UNCHANGED rows

\* The total; an error counts as 0.
Counted(r) ==
    /\ stage[r] = "count" /\ Querying(r)
    /\ Release(r, {"query"}) /\ Go(r, "list")
    /\ UNCHANGED rows

\* The client is gone while one of these two queries, the only ones with the
\* request's context, waits: the handler goes on regardless.
Abandoned(r) ==
    /\ stage[r] \in {"position", "count"} /\ ~Querying(r)
    /\ Go(r, IF stage[r] = "position" THEN "count" ELSE "list")
    /\ UNCHANGED <<rows, held>>

\* Mutant: an empty page enters the loop.
MutantListed(r) ==
    /\ stage[r] = "list" /\ Querying(r)
    /\ \E n \in 0..MaxRows : rows' = [rows EXCEPT ![r] = n]
    /\ held' = [c \in Conns |-> IF held[c] = <<r, "query">> THEN <<r, "rows">> ELSE held[c]]
    /\ Go(r, "comments")

\* The rows stay open for as long as the loop over them.  (A loop that an error
\* of theirs cuts short is one over fewer rows.)
Listed(r) ==
    /\ stage[r] = "list" /\ Querying(r)
    /\ \E n \in 1..MaxRows : rows' = [rows EXCEPT ![r] = n]
    /\ held' = [c \in Conns |-> IF held[c] = <<r, "query">> THEN <<r, "rows">> ELSE held[c]]
    /\ Go(r, "comments")

\* The list query fails, or finds an empty page.
NoneListed(r) ==
    /\ stage[r] = "list" /\ Querying(r)
    /\ Release(r, {"query"}) /\ Go(r, "done")
    /\ UNCHANGED rows

\* Mutant: the rows are left open.
MutantCommented(r) ==
    /\ stage[r] = "comments" /\ Querying(r)
    /\ rows' = [rows EXCEPT ![r] = @ - 1]
    /\ Release(r, {"query"})
    /\ Go(r, IF rows[r] = 1 THEN "done" ELSE "comments")

\* The comments of one argument are read, or cannot be; the last closes the list.
Commented(r) ==
    /\ stage[r] = "comments" /\ Querying(r)
    /\ rows' = [rows EXCEPT ![r] = @ - 1]
    /\ IF rows[r] = 1
       THEN Release(r, {"query", "rows"}) /\ Go(r, "done")
       ELSE Release(r, {"query"}) /\ UNCHANGED stage

\* Mutant: the comment rows are not closed on this path.
MutantCommentsFail(r) ==
    /\ stage[r] = "comments" /\ Querying(r)
    /\ Release(r, {"rows"}) /\ Go(r, "done")
    /\ UNCHANGED rows

\* commentRows.Err: 500; both results are closed.
CommentsFail(r) ==
    /\ stage[r] = "comments" /\ Querying(r)
    /\ Release(r, {"query", "rows"}) /\ Go(r, "done")
    /\ UNCHANGED rows

-----------------------------------------------------------------------------
(* The other handlers. *)

Begin(r) ==
    /\ r \in Singles /\ stage[r] = "idle"
    /\ \E n \in 1..MaxRows : rows' = [rows EXCEPT ![r] = n]
    /\ Go(r, "single")
    /\ UNCHANGED held

\* Mutant: the last statement's transaction is never ended.
MutantQueried(r) ==
    /\ stage[r] = "single" /\ Querying(r)
    /\ rows' = [rows EXCEPT ![r] = @ - 1]
    /\ IF rows[r] = 1 THEN UNCHANGED held /\ Go(r, "done")
       ELSE Release(r, {"query"}) /\ UNCHANGED stage

\* A query, or a whole transaction, is over.
Queried(r) ==
    /\ stage[r] = "single" /\ Querying(r)
    /\ rows' = [rows EXCEPT ![r] = @ - 1]
    /\ Release(r, {"query"})
    /\ Go(r, IF rows[r] = 1 THEN "done" ELSE "single")

\* An error, or the client goes while a query with the request's context waits.
GivesUp(r) ==
    /\ stage[r] = "single"
    /\ Release(r, {"query"}) /\ Go(r, "done")
    /\ UNCHANGED rows

-----------------------------------------------------------------------------
Progress(r) ==
    \/ Connect(r) \/ Located(r) \/ Counted(r) \/ Listed(r) \/ NoneListed(r)
    \/ Commented(r) \/ CommentsFail(r) \/ Queried(r)

Step(r) ==
    \/ Progress(r) \/ Hit(r) \/ Miss(r) \/ Locate(r) \/ Abandoned(r)
    \/ Begin(r) \/ GivesUp(r)

Next == \E r \in Requests : Step(r)

Spec == Init /\ [][Next]_vars

\* Postgres answers every query, and a free connection is given to who waits.
FairSpec == Spec /\ \A r \in Requests : WF_vars(Progress(r))

-----------------------------------------------------------------------------
(* Properties. *)

\* Types.
TypeOK ==
    /\ stage \in [Requests -> Running \union {"idle", "done"}]
    /\ rows \in [Requests -> Nat]
    /\ held \in [Conns -> {Free} \union Requests \X {"query", "rows"}]

\* No path through a handler keeps a connection: at any time a request has at
\* most one for its open rows, only while it reads their comments, and at most
\* one for a query, only while it runs; one that is done has none.
ConnectionsReturned ==
    /\ \A c, d \in Conns : held[c] = held[d] /\ held[c] # Free => c = d
    /\ \A r \in Requests, c \in Conns :
          /\ held[c] = <<r, "query">> => stage[r] \in Running
          /\ held[c] = <<r, "rows">> => stage[r] = "comments"

\* Somebody waits for a connection, none is free, and no query runs whose end
\* would free one.
Starved ==
    /\ \E r \in Requests : stage[r] \in Running /\ ~Querying(r)
    /\ \A c \in Conns : held[c] # Free
    /\ \A r \in Requests : ~Querying(r)

Looping == {r \in Requests : stage[r] = "comments"}

\* The pool starves exactly when as many list requests are in their loops at
\* once as it has connections (25).  No mixture of fewer of them with other
\* handlers' queries, errors and departed clients does it; and those 25 always
\* do, wherever in its loop each of them is.
StarvedIff == Starved <=> Cardinality(Looping) = Cardinality(Conns)

\* Every request is answered unless the pool has starved, waiting for
\* connections (in whatever order they are handed out) included.
AnsweredOrStarved ==
    \A r \in Requests : stage[r] \in Running ~> stage[r] = "done" \/ Starved
=============================================================================
