------------------------------- MODULE Cache -------------------------------
(***************************************************************************)
(* The Redis response cache: every GET view keeps the whole response of a  *)
(* user under a key for 60 seconds (cache-aside), and every handler that   *)
(* changes what a view shows deletes keys after its own commits.           *)
(*                                                                         *)
(* A response has parts, each from a query of its own, and is abstracted   *)
(* to the changes it shows in each: a change <<q, p>> is what request q    *)
(* did to part p of the views.  All fires and comments are about one       *)
(* argument, which every list holds; its comments are the part "comments". *)
(***************************************************************************)
EXTENDS Integers, FiniteSets

CONSTANTS Users,
          Keys,        \* the cache keys in use, <<view, user>>
          Readers,     \* GET handlers
          Requests,    \* the changing requests there will be
          Kind,        \* Kind[q]: which handler serves it
          Who,         \* Who[q]: the user it is from
          Notified,    \* Notified[q]: users a new comment notifies (none or one)
          NoKey,       \* model value: the GET handler is idle
          TTL          \* ticks of the clock in the 60 seconds

ListViews == {"feed", "top", "watchlist"}
Views == {"comments", "notifications"} \union ListViews
Parts == {"total", "rows", "comments", "notifications"}
Kinds == {"fire", "comment", "argument", "watch", "markRead"}

ASSUME CacheAssumption ==
    /\ Keys \subseteq Views \X Users
    /\ NoKey \notin Keys
    /\ Kind \in [Requests -> Kinds]
    /\ Who \in [Requests -> Users]
    /\ Notified \in [Requests -> SUBSET Users]
    /\ TTL \in Nat \ {0}

VARIABLES
    writer,    \* a changing handler: "new", "score", "notify" (a comment's
               \* further statements), "deletes" (and then it is over)
    committed, \* the changes in the database
    pending,   \* pending[q]: keys its handler has still to delete
    missed,    \* history: <<q, key>> whose deletion failed, or was never tried
    cached,    \* keys there are in Redis
    shows,     \* shows[k]: the changes the cached response shows
    gaps,      \* gaps[k]: its parts whose query failed: 0, or no comments
    expires,   \* expires[k]: ticks until it expires, 0 for never
    overtaken, \* history: requests that deleted k while it was being filled
    stage,     \* the GET handlers: "idle", the part to query next, "set"
    key,       \* the key each of them is about
    seen,      \* the changes its queries saw
    gap,       \* the parts whose query failed
    raced      \* history: requests that deleted the key meanwhile

vars == <<writer, committed, pending, missed, cached, shows, gaps, expires,
          overtaken, stage, key, seen, gap, raced>>
writerVars == <<writer, committed, pending, missed>>
cacheVars == <<cached, shows, gaps, expires, overtaken>>
readerVars == <<stage, key, seen, gap, raced>>

Of(views, users) == (views \X users) \intersect Keys

\* The keys whose response shows what request q does to part p.
Changes(q, p) ==
    CASE Kind[q] = "fire" /\ p = "comments"         -> Of({"comments"} \union ListViews, Users)
      [] Kind[q] = "fire" /\ p = "rows"             -> Of(ListViews, Users)
      [] Kind[q] = "comment" /\ p = "comments"      -> Of({"comments"} \union ListViews, Users)
      [] Kind[q] = "comment" /\ p = "rows"          -> Of(ListViews, Users)
      [] Kind[q] = "comment" /\ p = "notifications" -> Of({"notifications"}, Notified[q])
      [] Kind[q] = "argument" /\ p \in {"total", "rows"} -> Of({"feed", "top"}, Users)
      [] Kind[q] = "watch" /\ p = "rows"            -> Of(ListViews, {Who[q]})
      [] Kind[q] = "watch" /\ p = "total"           -> Of({"watchlist"}, {Who[q]})
      [] Kind[q] = "markRead" /\ p = "notifications" -> Of({"notifications"}, {Who[q]})
      [] OTHER -> {}

\* What its first commit changes: the transaction of a fire, the INSERT of a
\* comment, the one statement of the others.
Writes(q) ==
    CASE Kind[q] = "fire"     -> {"comments", "rows"}
      [] Kind[q] = "comment"  -> {"comments"}
      [] Kind[q] \in {"argument", "watch"} -> {"total", "rows"}
      [] Kind[q] = "markRead" -> {"notifications"}

(* The keys each handler deletes.  (argument:detail:* is deleted too, but  *)
(* no handler ever fills it.)                                              *)

\* Mutant: a fire leaves the lists alone, as a comment does.
MutantFireDeletes == Of({"comments"}, Users)

FireDeletes == Of({"comments", "feed", "top", "watchlist"}, Users)
CommentDeletes(q) == Of({"comments"}, Users) \union Of({"notifications"}, Notified[q])
ArgumentDeletes == Of({"feed", "top"}, Users)

WatchDeletes(q) == Of({"feed", "top", "watchlist"}, {Who[q]})
MarkReadDeletes(q) == Of({"notifications"}, {Who[q]})

Deletes(q) ==
    CASE Kind[q] = "fire"     -> FireDeletes
      [] Kind[q] = "comment"  -> CommentDeletes(q)
      [] Kind[q] = "argument" -> ArgumentDeletes
      [] Kind[q] = "watch"    -> WatchDeletes(q)
      [] Kind[q] = "markRead" -> MarkReadDeletes(q)

\* Every handler deletes the views in this order; the keys of a view come in
\* whatever order SCAN finds them.
Rank(k) ==
    CASE k[1] = "comments" -> 1 [] k[1] = "feed" -> 2 [] k[1] = "top" -> 3
      [] k[1] = "watchlist" -> 4 [] k[1] = "notifications" -> 5

Init ==
    /\ writer = [q \in Requests |-> "new"]
    /\ committed = {}
    /\ pending = [q \in Requests |-> {}]
    /\ missed = {}
    /\ cached = {}
    /\ shows = [k \in Keys |-> {}]
    /\ gaps = [k \in Keys |-> {}]
    /\ expires = [k \in Keys |-> 0]
    /\ overtaken = [k \in Keys |-> {}]
    /\ stage = [r \in Readers |-> "idle"]
    /\ key = [r \in Readers |-> NoKey]
    /\ seen = [r \in Readers |-> {}]
    /\ gap = [r \in Readers |-> {}]
    /\ raced = [r \in Readers |-> {}]

-----------------------------------------------------------------------------
(* The handlers that change something. *)

Write(q, parts) == committed' = committed \union {q} \X parts
GoOn(q, to) == writer' = [writer EXCEPT ![q] = to]

Commit(q) ==
    /\ writer[q] = "new"
    /\ Write(q, Writes(q))
    /\ pending' = [pending EXCEPT ![q] = Deletes(q)]
    /\ GoOn(q, IF Kind[q] = "comment" THEN "score" ELSE "deletes")
    /\ UNCHANGED <<missed, cacheVars, readerVars>>

\* HandleCreateComment updates the argument's score, whose error it ignores, and
\* finds somebody to notify.
SaveScore(q) ==
    /\ writer[q] = "score"
    /\ \E parts \in {{}, {"rows"}} : Write(q, parts)
    /\ GoOn(q, IF Notified[q] = {} THEN "deletes" ELSE "notify")
    /\ UNCHANGED <<pending, missed, cacheVars, readerVars>>

\* The owner is not found: nobody is notified, and there is no cached response
\* of anybody to delete.
NoOwner(q) ==
    /\ writer[q] = "notify"
    /\ pending' = [pending EXCEPT ![q] = {k \in @ : k[1] # "notifications"}]
    /\ GoOn(q, "deletes")
    /\ UNCHANGED <<committed, missed, cacheVars, readerVars>>

Notify(q) ==
    /\ writer[q] = "notify"
    /\ Write(q, {"notifications"})
    /\ GoOn(q, "deletes")
    /\ UNCHANGED <<pending, missed, cacheVars, readerVars>>

\* The notification cannot be inserted, or (in Realtime) its sending panics: the
\* handler ends without a single delete.
NotifyFails(q) ==
    /\ writer[q] = "notify"
    /\ \E parts \in {{}, {"notifications"}} : Write(q, parts)
    /\ pending' = [pending EXCEPT ![q] = {}]
    /\ missed' = missed \union {q} \X pending[q]
    /\ GoOn(q, "deletes")
    /\ UNCHANGED <<cacheVars, readerVars>>

ComesNext(q, k) ==
    writer[q] = "deletes" /\ k \in pending[q] /\ \A j \in pending[q] : Rank(k) <= Rank(j)

\* The keys K leave Redis.
Drop(K) ==
    /\ cached' = cached \ K
    /\ shows' = [k \in Keys |-> IF k \in K THEN {} ELSE shows[k]]
    /\ gaps' = [k \in Keys |-> IF k \in K THEN {} ELSE gaps[k]]
    /\ overtaken' = [k \in Keys |-> IF k \in K THEN {} ELSE overtaken[k]]

Delete(q, k) ==
    /\ ComesNext(q, k)
    /\ pending' = [pending EXCEPT ![q] = @ \ {k}]
    /\ Drop({k})
    /\ expires' = [expires EXCEPT ![k] = 0]
    /\ raced' = [r \in Readers |-> IF key[r] = k THEN raced[r] \union {q} ELSE raced[r]]
    /\ UNCHANGED <<writer, committed, missed, stage, key, seen, gap>>

\* Redis fails, or the client has gone and cancelled the request's context,
\* which every later call fails with: the errors are dropped.
DeleteFails(q, k) ==
    /\ ComesNext(q, k)
    /\ pending' = [pending EXCEPT ![q] = @ \ {k}]
    /\ missed' = missed \union {<<q, k>>}
    /\ UNCHANGED <<writer, committed, cacheVars, readerVars>>

-----------------------------------------------------------------------------
(* The GET handlers.  A hit is served from Redis and changes nothing; a GET *)
(* of Redis that fails counts as a miss, so the key may well be cached.     *)

FirstPart(k) == IF k[1] \in ListViews THEN "total" ELSE k[1]
NextPart(p) ==
    CASE p = "total" -> "rows"
      [] p = "rows"  -> "comments"
      [] OTHER       -> "set"

Miss(r, k) ==
    /\ stage[r] = "idle"
    /\ key' = [key EXCEPT ![r] = k]
    /\ stage' = [stage EXCEPT ![r] = FirstPart(k)]
    /\ UNCHANGED <<writerVars, cacheVars, seen, gap, raced>>

\* Mutant: the query runs at READ UNCOMMITTED.
MutantQuery(r) ==
    /\ stage[r] \in Parts
    /\ seen' = [seen EXCEPT ![r] = @ \union Requests \X {stage[r]}]
    /\ stage' = [stage EXCEPT ![r] = NextPart(@)]
    /\ UNCHANGED <<writerVars, cacheVars, key, gap, raced>>

\* The query of one part; each sees what is committed when it runs.
Query(r) ==
    /\ stage[r] \in Parts
    /\ seen' = [seen EXCEPT ![r] = @ \union {c \in committed : c[2] = stage[r]}]
    /\ stage' = [stage EXCEPT ![r] = NextPart(@)]
    /\ UNCHANGED <<writerVars, cacheVars, key, gap, raced>>

\* The count of a list fails, or the query of the comments in one: the handler
\* goes on with 0, or with none.
PartFails(r) ==
    /\ key[r] # NoKey /\ key[r][1] \in ListViews
    /\ stage[r] \in {"total", "comments"}
    /\ gap' = [gap EXCEPT ![r] = @ \union {stage[r]}]
    /\ stage' = [stage EXCEPT ![r] = NextPart(@)]
    /\ UNCHANGED <<writerVars, cacheVars, key, seen, raced>>

Done(r) ==
    /\ stage' = [stage EXCEPT ![r] = "idle"]
    /\ key' = [key EXCEPT ![r] = NoKey]
    /\ seen' = [seen EXCEPT ![r] = {}]
    /\ gap' = [gap EXCEPT ![r] = {}]
    /\ raced' = [raced EXCEPT ![r] = {}]

\* Mutant: SET with the expiration 0, which go-redis takes for none.
MutantFill(r) ==
    /\ stage[r] = "set"
    /\ cached' = cached \union {key[r]}
    /\ shows' = [shows EXCEPT ![key[r]] = seen[r]]
    /\ gaps' = [gaps EXCEPT ![key[r]] = gap[r]]
    /\ expires' = [expires EXCEPT ![key[r]] = 0]
    /\ overtaken' = [overtaken EXCEPT ![key[r]] = raced[r]]
    /\ Done(r)
    /\ UNCHANGED writerVars

\* SET key response EX 60, over whatever is there.
Fill(r) ==
    /\ stage[r] = "set"
    /\ cached' = cached \union {key[r]}
    /\ shows' = [shows EXCEPT ![key[r]] = seen[r]]
    /\ gaps' = [gaps EXCEPT ![key[r]] = gap[r]]
    /\ expires' = [expires EXCEPT ![key[r]] = TTL]
    /\ overtaken' = [overtaken EXCEPT ![key[r]] = raced[r]]
    /\ Done(r)
    /\ UNCHANGED writerVars

\* Any other failure (of the list, of reading its rows or a comment's, of the
\* SET): an error, or a response that is not cached.
FillFails(r) ==
    /\ stage[r] \notin {"idle", "total"}
    /\ Done(r)
    /\ UNCHANGED <<writerVars, cacheVars>>

\* Redis's clock.
Tick ==
    /\ \E k \in Keys : expires[k] > 0
    /\ Drop({k \in cached : expires[k] = 1})
    /\ expires' = [k \in Keys |-> IF expires[k] > 0 THEN expires[k] - 1 ELSE 0]
    /\ UNCHANGED <<writerVars, readerVars>>

Handle(q) ==
    \/ SaveScore(q) \/ NoOwner(q) \/ Notify(q) \/ NotifyFails(q)
    \/ \E k \in Keys : Delete(q, k) \/ DeleteFails(q, k)
Answer(r) == Query(r) \/ PartFails(r) \/ Fill(r) \/ FillFails(r)

Next ==
    \/ \E q \in Requests : Commit(q) \/ Handle(q)
    \/ \E r \in Readers : Answer(r) \/ \E k \in Keys : Miss(r, k)
    \/ Tick

Spec == Init /\ [][Next]_vars

\* Handlers that have begun go on, and time passes.
FairSpec ==
    /\ Spec
    /\ \A q \in Requests : WF_vars(Handle(q))
    /\ \A r \in Readers : WF_vars(Answer(r))
    /\ WF_vars(Tick)

-----------------------------------------------------------------------------
(* Properties. *)

\* Types; and a response can show only what was committed.
TypeOK ==
    /\ writer \in [Requests -> {"new", "score", "notify", "deletes"}]
    /\ committed \subseteq Requests \X Parts
    /\ pending \in [Requests -> SUBSET Keys]
    /\ missed \subseteq Requests \X Keys
    /\ cached \subseteq Keys
    /\ shows \in [Keys -> SUBSET committed]
    /\ gaps \in [Keys -> SUBSET Parts]
    /\ expires \in [Keys -> 0..TTL]
    /\ overtaken \in [Keys -> SUBSET Requests]
    /\ stage \in [Readers -> {"idle", "set"} \union Parts]
    /\ key \in [Readers -> Keys \union {NoKey}]
    /\ \A r \in Readers : stage[r] = "idle" <=> key[r] = NoKey
    /\ seen \in [Readers -> SUBSET committed]
    /\ gap \in [Readers -> SUBSET Parts]
    /\ raced \in [Readers -> SUBSET Requests]

\* The cached response under k does not show the change q made to part p of it.
Lacks(k, q, p) ==
    k \in cached /\ <<q, p>> \in committed /\ k \in Changes(q, p) /\ <<q, p>> \notin shows[k]

\* What HandleCreateComment changes and does not delete
\* (handlers_comments.go:380-395).
LeftToExpire(q, k) == Kind[q] = "comment" /\ k[1] \in ListViews

\* A part of a cached response is out of date for one of five reasons only: the
\* handler has not come to the key yet; its DEL failed unnoticed, or the handler
\* died before it; the key was deleted while the response was being put
\* together; the view is one a comment leaves to expire; or the query of that
\* part had failed.  Every other change of every view is invalidated.
StaleOnlyIf ==
    \A k \in Keys, q \in Requests, p \in Parts : Lacks(k, q, p) =>
        \/ k \in pending[q]
        \/ <<q, k>> \in missed
        \/ q \in overtaken[k]
        \/ LeftToExpire(q, k)
        \/ p \in gaps[k]

Right(k) == gaps[k] = {} /\ \A q \in Requests, p \in Parts : ~Lacks(k, q, p)

\* Once the changes stop (there are finitely many), the cache is right for good
\* unless queries of parts go on failing: what a DEL missed, what was cached late
\* and what was cached with a part missing expires, and is filled from the
\* database again.
Converges ==
    <>[][\A r \in Readers : ~PartFails(r)]_vars => <>[](\A k \in Keys : Right(k))
=============================================================================
