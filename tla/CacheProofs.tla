---------------------------- MODULE CacheProofs ----------------------------
(***************************************************************************)
(* For any users, keys, requests and GET handlers: a cached response is    *)
(* out of date only for the reasons StaleOnlyIf names.                     *)
(***************************************************************************)
EXTENDS Cache, TLAPS

\* The handlers delete what they change, except for the views a comment leaves
\* to expire.
LEMMA Covered ==
    ASSUME NEW q \in Requests, NEW p \in Parts, NEW k \in Changes(q, p)
    PROVE  k \in Deletes(q) \/ LeftToExpire(q, k)
<1>1. Kind[q] \in Kinds
  BY CacheAssumption
<1>3. CASE Kind[q] = "comment"
  <2>1. Deletes(q) = Of({"comments"}, Users) \union Of({"notifications"}, Notified[q])
    BY <1>3 DEF Deletes, CommentDeletes
  <2>2. \/ k \in Of({"comments"} \union ListViews, Users)
        \/ k \in Of(ListViews, Users)
        \/ k \in Of({"notifications"}, Notified[q])
    BY <1>3 DEF Changes
  <2>3. CASE k \in Of({"notifications"}, Notified[q])
    BY <2>1, <2>3
  <2>4. CASE k \in Of({"comments"} \union ListViews, Users) \/ k \in Of(ListViews, Users)
    <3>0. k \in ({"comments"} \union ListViews) \X Users /\ k \in Keys
      BY <2>4 DEF Of
    <3>1. k[1] \in {"comments"} \union ListViews
      BY <3>0
    <3>2. CASE k[1] = "comments"
      <4>1. k \in {"comments"} \X Users
        BY <3>0, <3>2
      <4> QED BY <2>1, <3>0, <4>1 DEF Of
    <3>3. CASE k[1] \in ListViews
      BY <1>3, <3>3 DEF LeftToExpire
    <3> QED BY <3>1, <3>2, <3>3
  <2> QED BY <2>2, <2>3, <2>4
<1>4. CASE Kind[q] = "fire"
  <2>1. Deletes(q) = Of({"comments", "feed", "top", "watchlist"}, Users)
    BY <1>4 DEF Deletes, FireDeletes
  <2>2. k \in Of({"comments"} \union ListViews, Users) \/ k \in Of(ListViews, Users)
    BY <1>4 DEF Changes
  <2> QED BY <2>1, <2>2 DEF Of, ListViews
<1>5. CASE Kind[q] = "argument"
  BY <1>5 DEF Changes, Deletes, ArgumentDeletes
<1>6. CASE Kind[q] = "watch"
  <2>1. Deletes(q) = Of({"feed", "top", "watchlist"}, {Who[q]})
    BY <1>6 DEF Deletes, WatchDeletes
  <2>2. k \in Of(ListViews, {Who[q]}) \/ k \in Of({"watchlist"}, {Who[q]})
    BY <1>6 DEF Changes
  <2> QED BY <2>1, <2>2 DEF Of, ListViews
<1>7. CASE Kind[q] = "markRead"
  BY <1>7 DEF Changes, Deletes, MarkReadDeletes
<1> QED BY <1>1, <1>3, <1>4, <1>5, <1>6, <1>7 DEF Kinds

\* The keys a request deletes are keys, and what it changes are parts.
LEMMA DeletesType == ASSUME NEW q \in Requests PROVE Deletes(q) \in SUBSET Keys
BY CacheAssumption DEF Deletes, Of, Kinds, FireDeletes, CommentDeletes,
                       ArgumentDeletes, WatchDeletes, MarkReadDeletes

LEMMA WritesType == ASSUME NEW q \in Requests PROVE Writes(q) \subseteq Parts
BY CacheAssumption DEF Writes, Kinds, Parts

LEMMA FirstPartType == ASSUME NEW k \in Keys PROVE FirstPart(k) \in Parts
<1>1. PICK v \in Views, u \in Users : k = <<v, u>>
  BY CacheAssumption
<1> QED BY <1>1 DEF FirstPart, Views, ListViews, Parts

LEMMA TypeInit == Init => TypeOK
BY CacheAssumption DEF Init, TypeOK

\* More changes in the database take nothing from what a response shows.
LEMMA WriteType ==
    ASSUME TypeOK, NEW q \in Requests, NEW parts \in SUBSET Parts, Write(q, parts)
    PROVE  /\ committed' \subseteq Requests \X Parts
           /\ shows \in [Keys -> SUBSET committed'] /\ seen \in [Readers -> SUBSET committed']
<1>1. committed \subseteq committed'
  BY DEF Write
<1>2. committed' \subseteq Requests \X Parts
  BY DEF Write, TypeOK
<1> QED BY <1>1, <1>2 DEF TypeOK

LEMMA DropType ==
    ASSUME TypeOK, NEW K, Drop(K)
    PROVE  /\ cached' \subseteq Keys /\ shows' \in [Keys -> SUBSET committed]
           /\ gaps' \in [Keys -> SUBSET Parts] /\ overtaken' \in [Keys -> SUBSET Requests]
BY DEF TypeOK, Drop

LEMMA DoneType ==
    ASSUME TypeOK, NEW r \in Readers, Done(r)
    PROVE  /\ stage' \in [Readers -> {"idle", "set"} \union Parts]
           /\ key' \in [Readers -> Keys \union {NoKey}]
           /\ \A x \in Readers : stage'[x] = "idle" <=> key'[x] = NoKey
           /\ seen' \in [Readers -> SUBSET committed]
           /\ gap' \in [Readers -> SUBSET Parts]
           /\ raced' \in [Readers -> SUBSET Requests]
BY DEF TypeOK, Done

LEMMA TypeStep == TypeOK /\ [Next]_vars => TypeOK'
<1> SUFFICES ASSUME TypeOK, [Next]_vars PROVE TypeOK'
  OBVIOUS
<1> USE CacheAssumption
<1>1. ASSUME NEW q \in Requests, Commit(q) PROVE TypeOK'
  <2>1. Deletes(q) \in SUBSET Keys /\ Writes(q) \in SUBSET Parts
    BY DeletesType, WritesType
  <2> QED BY <1>1, <2>1, WriteType DEF TypeOK, Commit, GoOn, cacheVars, readerVars
<1>2. ASSUME NEW q \in Requests, SaveScore(q) \/ Notify(q) PROVE TypeOK'
  <2>1. PICK parts \in SUBSET Parts : Write(q, parts)
    BY <1>2 DEF SaveScore, Notify, Parts
  <2> QED BY <1>2, <2>1, WriteType DEF TypeOK, SaveScore, Notify, GoOn, cacheVars, readerVars
<1>3. ASSUME NEW q \in Requests, NoOwner(q) PROVE TypeOK'
  BY <1>3 DEF TypeOK, NoOwner, GoOn, cacheVars, readerVars
<1>4. ASSUME NEW q \in Requests, NotifyFails(q) PROVE TypeOK'
  <2>1. PICK parts \in SUBSET Parts : Write(q, parts)
    BY <1>4 DEF NotifyFails, Parts
  <2>2. missed' \subseteq Requests \X Keys
    BY <1>4 DEF TypeOK, NotifyFails
  <2> QED BY <1>4, <2>1, <2>2, WriteType DEF TypeOK, NotifyFails, GoOn, cacheVars, readerVars
<1>5. ASSUME NEW q \in Requests, NEW k \in Keys, Delete(q, k) PROVE TypeOK'
  BY <1>5, DropType DEF TypeOK, Delete
<1>6. ASSUME NEW q \in Requests, NEW k \in Keys, DeleteFails(q, k) PROVE TypeOK'
  BY <1>6 DEF TypeOK, DeleteFails, cacheVars, readerVars
<1>7. ASSUME NEW r \in Readers, NEW k \in Keys, Miss(r, k) PROVE TypeOK'
  <2>1. FirstPart(k) \in Parts /\ FirstPart(k) # "idle"
    BY FirstPartType DEF Parts
  <2> QED BY <1>7, <2>1 DEF TypeOK, Miss, cacheVars, writerVars
<1>8. ASSUME NEW r \in Readers, Query(r) \/ PartFails(r) PROVE TypeOK'
  <2>1. NextPart(stage[r]) \in {"set"} \union Parts /\ NextPart(stage[r]) # "idle"
            /\ stage[r] # "idle"
    BY <1>8 DEF NextPart, Parts, Query, PartFails
  <2>2. CASE Query(r)
    BY <2>1, <2>2 DEF TypeOK, Query, cacheVars, writerVars
  <2>3. CASE PartFails(r)
    <3>1. stage[r] \in Parts
      BY <2>3 DEF PartFails, Parts
    <3> QED BY <2>1, <2>3, <3>1 DEF TypeOK, PartFails, cacheVars, writerVars
  <2> QED BY <1>8, <2>2, <2>3
<1>9. ASSUME NEW r \in Readers, Fill(r) PROVE TypeOK'
  <2>1. key[r] \in Keys
    BY <1>9 DEF Fill, TypeOK
  <2>2. /\ cached' \subseteq Keys /\ shows' \in [Keys -> SUBSET committed]
        /\ gaps' \in [Keys -> SUBSET Parts] /\ expires' \in [Keys -> 0..TTL]
        /\ overtaken' \in [Keys -> SUBSET Requests]
    BY <1>9, <2>1 DEF Fill, TypeOK
  <2> QED BY <1>9, <2>2, DoneType DEF TypeOK, Fill, writerVars
<1>10. ASSUME NEW r \in Readers, FillFails(r) PROVE TypeOK'
  BY <1>10, DoneType DEF TypeOK, FillFails, cacheVars, writerVars
<1>11. ASSUME Tick PROVE TypeOK'
  <2>1. expires' \in [Keys -> 0..TTL]
    BY <1>11 DEF Tick, TypeOK
  <2> QED BY <1>11, <2>1, DropType DEF TypeOK, Tick, readerVars, writerVars
<1>12. ASSUME UNCHANGED vars PROVE TypeOK'
  BY <1>12 DEF TypeOK, vars
<1> QED
  BY <1>1, <1>2, <1>3, <1>4, <1>5, <1>6, <1>7, <1>8, <1>9, <1>10, <1>11, <1>12
  DEF Next, Handle, Answer

\* Every variable of the cache keeps its type, and a response never shows a
\* change that is not committed.
THEOREM CacheTypeCorrect == Spec => []TypeOK
<1> QED BY TypeInit, TypeStep, PTL DEF Spec

-----------------------------------------------------------------------------
(* Why a response is out of date. *)

\* What excuses a response under k for not showing what q changed, wherever the
\* response is.
Still(q, k) == k \in pending[q] \/ <<q, k>> \in missed \/ LeftToExpire(q, k)

\* Part p of a response under k which shows s, and during or since whose making
\* the requests ov deleted k, shows every change or has an excuse.
Explained(k, s, ov, g, p) ==
    \A q \in Requests :
        <<q, p>> \in committed /\ k \in Changes(q, p) /\ <<q, p>> \notin s =>
            Still(q, k) \/ q \in ov \/ p \in g

\* The parts a GET handler has done with (or that its view has not).
Past(r) ==
    CASE stage[r] = "set"      -> Parts
      [] stage[r] = "rows"     -> {"total"}
      [] stage[r] = "comments" -> {"total", "rows"}
      [] OTHER                 -> {}

\* StaleOnlyIf for a response that is only being put together.
Filling ==
    \A r \in Readers : stage[r] # "idle" =>
        \A p \in Past(r) : Explained(key[r], seen[r], raced[r], gap[r], p)

\* Until its last write a handler has every key still to delete, and nobody has
\* been notified.
Writing ==
    \A q \in Requests :
        /\ writer[q] \in {"score", "notify"} => Kind[q] = "comment" /\ pending[q] = Deletes(q)
        /\ writer[q] \in {"new", "score", "notify"} => <<q, "notifications">> \notin committed

\* A GET handler queries only parts its view has.
HasPart(k, p) ==
    CASE p \in {"total", "rows"} -> k[1] \in ListViews
      [] p = "comments"          -> k[1] \in {"comments"} \union ListViews
      [] p = "notifications"     -> k[1] = "notifications"

Querying == \A r \in Readers : stage[r] \in Parts => HasPart(key[r], stage[r])

IInv == TypeOK /\ Writing /\ Querying /\ Filling /\ StaleOnlyIf

LEMMA ChangesHasPart ==
    ASSUME NEW q \in Requests, NEW p \in Parts, NEW k \in Changes(q, p)
    PROVE  HasPart(k, p)
<1>1. Kind[q] \in Kinds
  BY CacheAssumption
<1> QED BY <1>1 DEF Changes, Of, HasPart, Kinds, Parts, ListViews

LEMMA StaleIs ==
    StaleOnlyIf <=> \A k \in Keys : k \in cached =>
        \A p \in Parts : Explained(k, shows[k], overtaken[k], gaps[k], p)
BY DEF StaleOnlyIf, Lacks, Explained, Still

LEMMA StaleIsNext ==
    (StaleOnlyIf <=> \A k \in Keys : k \in cached =>
        \A p \in Parts : Explained(k, shows[k], overtaken[k], gaps[k], p))'
BY StaleIs, PTL

\* A handler that changes something, up to its deletes.
Writer(q) ==
    \/ Commit(q) \/ SaveScore(q) \/ NoOwner(q) \/ Notify(q) \/ NotifyFails(q)
    \/ \E k \in Keys : DeleteFails(q, k)

\* Whatever such a step commits it will delete, has missed, or leaves to expire;
\* and it keeps every excuse that matters.
LEMMA WriterExcuses ==
    ASSUME IInv, NEW x \in Requests, Writer(x),
           NEW q \in Requests, NEW p \in Parts, NEW k \in Keys,
           <<q, p>> \in committed', k \in Changes(q, p)
    PROVE  Still(q, k)' \/ (<<q, p>> \in committed /\ ~Still(q, k))
<1> USE DEF IInv, TypeOK
<1>0. LeftToExpire(q, k) => Still(q, k)'
  BY DEF Still, LeftToExpire
<1>1. k \in Deletes(q) \/ LeftToExpire(q, k)
  BY Covered
<1>2. CASE Commit(x)
  <2>1. CASE q = x
    BY <1>0, <1>1, <1>2, <2>1 DEF Commit, Still
  <2>2. CASE q # x
    <3>1. <<q, p>> \in committed /\ pending'[q] = pending[q] /\ missed' = missed
      BY <1>2, <2>2 DEF Commit, Write
    <3> QED BY <1>0, <3>1 DEF Still
  <2> QED BY <2>1, <2>2
<1>3. CASE SaveScore(x) \/ Notify(x)
  <2>1. pending' = pending /\ missed' = missed
    BY <1>3 DEF SaveScore, Notify
  <2>2. CASE <<q, p>> \in committed
    BY <1>0, <2>1, <2>2 DEF Still
  <2>3. CASE <<q, p>> \notin committed
    <3>1. q = x
      BY <1>3, <2>3 DEF SaveScore, Notify, Write
    <3>2. pending[q] = Deletes(q)
      BY <1>3, <3>1 DEF SaveScore, Notify, Writing
    <3> QED BY <1>0, <1>1, <2>1, <3>2 DEF Still
  <2> QED BY <2>2, <2>3
<1>4. CASE NoOwner(x)
  <2>1. committed' = committed /\ missed' = missed
    BY <1>4 DEF NoOwner
  <2>2. q = x => p # "notifications"
    BY <1>4, <2>1 DEF NoOwner, Writing
  <2>3. q = x => k[1] # "notifications"
    BY <2>2, ChangesHasPart DEF HasPart, Parts, ListViews
  <2>4. k \in pending[q] => k \in pending'[q]
    BY <1>4, <2>3 DEF NoOwner
  <2> QED BY <1>0, <2>1, <2>4 DEF Still
<1>5. CASE NotifyFails(x)
  <2>1. missed \subseteq missed' /\ \A j \in pending[x] : <<x, j>> \in missed'
    BY <1>5 DEF NotifyFails
  <2>2. k \in pending[q] => Still(q, k)'
    <3>1. CASE q = x
      BY <2>1, <3>1 DEF Still
    <3>2. CASE q # x
      BY <1>5, <3>2 DEF NotifyFails, Still
    <3> QED BY <3>1, <3>2
  <2>3. CASE <<q, p>> \in committed
    BY <1>0, <2>1, <2>2, <2>3 DEF Still
  <2>4. CASE <<q, p>> \notin committed
    <3>1. q = x
      BY <1>5, <2>4 DEF NotifyFails, Write
    <3>2. pending[q] = Deletes(q)
      BY <1>5, <3>1 DEF NotifyFails, Writing
    <3> QED BY <1>0, <1>1, <2>2, <3>2
  <2> QED BY <2>3, <2>4
<1>6. ASSUME NEW j \in Keys, DeleteFails(x, j)
      PROVE  Still(q, k)' \/ (<<q, p>> \in committed /\ ~Still(q, k))
  <2>1. committed' = committed /\ missed \subseteq missed'
    BY <1>6 DEF DeleteFails
  <2>2. k \in pending[q] => k \in pending'[q] \/ <<q, k>> \in missed'
    BY <1>6 DEF DeleteFails
  <2> QED BY <1>0, <2>1, <2>2 DEF Still
<1> QED BY <1>2, <1>3, <1>4, <1>5, <1>6 DEF Writer

LEMMA PastParts == ASSUME NEW r \in Readers PROVE Past(r) \subseteq Parts
BY DEF Past, Parts

LEMMA WriterStep == ASSUME IInv, NEW x \in Requests, Writer(x) PROVE Filling' /\ StaleOnlyIf'
<1>1. UNCHANGED <<cacheVars, readerVars>>
  BY DEF Writer, Commit, SaveScore, NoOwner, Notify, NotifyFails, DeleteFails
<1>2. ASSUME NEW k \in Keys, k \in cached', NEW p \in Parts
      PROVE  Explained(k, shows[k], overtaken[k], gaps[k], p)'
  <2> DEFINE s == shows[k]
             ov == overtaken[k]
             g == gaps[k]
  <2>1. Explained(k, s, ov, g, p)
    BY <1>1, <1>2, StaleIs DEF IInv, cacheVars
  <2>2. s' = s /\ ov' = ov /\ g' = g
    BY <1>1 DEF cacheVars
  <2> HIDE DEF s, ov, g
  <2>3. \A q \in Requests :
            <<q, p>> \in committed' /\ k \in Changes(q, p) /\ <<q, p>> \notin s =>
                Still(q, k)' \/ q \in ov \/ p \in g
    BY <2>1, WriterExcuses DEF Explained
  <2> QED BY <2>2, <2>3 DEF Explained, s, ov, g, Changes, Of
<1>3. ASSUME NEW r \in Readers, stage'[r] # "idle", NEW p \in Past(r)',
             NEW k \in Keys, k = key[r]
      PROVE  Explained(key[r], seen[r], raced[r], gap[r], p)'
  <2> DEFINE s == seen[r]
             ov == raced[r]
             g == gap[r]
  <2>1. p \in Past(r) /\ stage[r] # "idle"
    BY <1>1, <1>3 DEF readerVars, Past
  <2>2. Explained(k, s, ov, g, p) /\ p \in Parts
    BY <1>3, <2>1, PastParts DEF IInv, Filling
  <2>3. key'[r] = k /\ s' = s /\ ov' = ov /\ g' = g
    BY <1>1, <1>3 DEF readerVars
  <2> HIDE DEF s, ov, g
  <2>4. ASSUME NEW q \in Requests, <<q, p>> \in committed', k \in Changes(q, p), <<q, p>> \notin s
        PROVE  Still(q, k)' \/ q \in ov \/ p \in g
    <3>1. Still(q, k)' \/ (<<q, p>> \in committed /\ ~Still(q, k))
      BY <2>2, <2>4, WriterExcuses
    <3> QED BY <2>2, <2>4, <3>1 DEF Explained
  <2> QED BY <2>3, <2>4 DEF Explained, s, ov, g, Changes, Of, Still, LeftToExpire
<1>4. \A r \in Readers : stage'[r] # "idle" => key[r] \in Keys
  BY <1>1 DEF IInv, TypeOK, readerVars
<1> QED BY <1>2, <1>3, <1>4, StaleIsNext DEF Filling

LEMMA DeleteStep ==
    ASSUME IInv, NEW x \in Requests, NEW j \in Keys, Delete(x, j)
    PROVE  Filling' /\ StaleOnlyIf'
<1> USE DEF IInv, TypeOK
<1>0. committed' = committed /\ missed' = missed
  BY DEF Delete
<1>1. \A q \in Requests, k \in Keys : Still(q, k) => Still(q, k)' \/ (q = x /\ k = j)
  BY <1>0 DEF Delete, Still, LeftToExpire
<1>2. ASSUME NEW k \in Keys, k \in cached', NEW p \in Parts
      PROVE  Explained(k, shows[k], overtaken[k], gaps[k], p)'
  <2>1. k # j /\ k \in cached
    BY <1>2 DEF Delete, Drop
  <2>2. shows'[k] = shows[k] /\ overtaken'[k] = overtaken[k] /\ gaps'[k] = gaps[k]
    BY <2>1 DEF Delete, Drop
  <2>3. Explained(k, shows[k], overtaken[k], gaps[k], p)
    BY <2>1, StaleIs
  <2> QED BY <1>0, <1>1, <2>1, <2>2, <2>3 DEF Explained, Changes, Of
<1>3. ASSUME NEW r \in Readers, stage'[r] # "idle", NEW p \in Past(r)',
             NEW k \in Keys, k = key[r]
      PROVE  Explained(key[r], seen[r], raced[r], gap[r], p)'
  <2>1. UNCHANGED <<stage, key, seen, gap>>
    BY DEF Delete
  <2>2. p \in Past(r) /\ stage[r] # "idle"
    BY <1>3, <2>1 DEF Past
  <2>3. raced[r] \subseteq raced'[r] /\ (k = j => x \in raced'[r])
    BY <1>3 DEF Delete
  <2>4. Explained(k, seen[r], raced[r], gap[r], p)
    BY <1>3, <2>2 DEF Filling
  <2>5. key'[r] = k /\ seen'[r] = seen[r] /\ gap'[r] = gap[r]
    BY <1>3, <2>1
  <2> QED BY <1>0, <1>1, <2>3, <2>4, <2>5 DEF Explained, Changes, Of, Still, LeftToExpire
<1>4. \A r \in Readers : stage'[r] # "idle" => key[r] \in Keys
  BY DEF Delete
<1> QED BY <1>2, <1>3, <1>4, StaleIsNext DEF Filling

-----------------------------------------------------------------------------
\* While no handler changes anything, an explanation is as good as it was.
LEMMA ExplainedKept ==
    ASSUME UNCHANGED writerVars,
           NEW k, NEW s, NEW ov, NEW g, NEW p, Explained(k, s, ov, g, p)
    PROVE  \A q \in Requests :
               <<q, p>> \in committed' /\ k \in Changes(q, p) /\ <<q, p>> \notin s =>
                   Still(q, k)' \/ q \in ov \/ p \in g
BY DEF Explained, Still, LeftToExpire, writerVars

\* The others' responses.
LEMMA OthersFilling ==
    ASSUME Filling, UNCHANGED writerVars, NEW r \in Readers,
           stage'[r] = stage[r], key'[r] = key[r], seen'[r] = seen[r], gap'[r] = gap[r],
           raced'[r] = raced[r], stage'[r] # "idle", NEW p \in Past(r)'
    PROVE  Explained(key[r], seen[r], raced[r], gap[r], p)'
<1>1. p \in Past(r) /\ stage[r] # "idle"
  BY DEF Past
<1>2. Explained(key[r], seen[r], raced[r], gap[r], p)
  BY <1>1 DEF Filling
<1> QED BY <1>2 DEF Explained, Still, LeftToExpire, writerVars, Changes, Of

LEMMA CachedKept ==
    ASSUME StaleOnlyIf, UNCHANGED <<writerVars, cacheVars>>
    PROVE  StaleOnlyIf'
BY DEF StaleOnlyIf, Lacks, LeftToExpire, writerVars, cacheVars, Changes, Of

\* A part just queried shows all that is committed; one whose query failed is a
\* gap; and a view has nothing to show of parts it has not.
LEMMA NextPartPast ==
    ASSUME IInv, NEW r \in Readers, Query(r) \/ PartFails(r),
           NEW p \in Past(r)', NEW q \in Requests, key[r] \in Keys, key[r] \in Changes(q, p)
    PROVE  p \in Past(r) \/ p = stage[r]
<1>1. stage[r] \in Parts /\ stage' = [stage EXCEPT ![r] = NextPart(stage[r])]
  BY DEF Query, PartFails, Parts
<1>2. stage'[r] = NextPart(stage[r])
  BY <1>1 DEF IInv, TypeOK
<1>3. HasPart(key[r], stage[r])
  BY <1>1 DEF IInv, Querying
<1>4. p \in Parts
  BY <1>2 DEF Past, Parts
<1>5. HasPart(key[r], p)
  BY <1>4, ChangesHasPart
<1>6. CASE stage[r] = "total"
  BY <1>2, <1>6 DEF Past, NextPart
<1>7. CASE stage[r] = "rows"
  BY <1>2, <1>7 DEF Past, NextPart
<1>8. CASE stage[r] = "comments"
  BY <1>3, <1>4, <1>5, <1>8 DEF HasPart, Parts, ListViews, Past
<1>9. CASE stage[r] = "notifications"
  BY <1>3, <1>4, <1>5, <1>9 DEF HasPart, Parts, ListViews
<1> QED BY <1>1, <1>6, <1>7, <1>8, <1>9 DEF Parts

LEMMA PartStep ==
    ASSUME IInv, NEW r \in Readers, Query(r) \/ PartFails(r)
    PROVE  Filling' /\ StaleOnlyIf'
<1> USE DEF IInv
<1>1. UNCHANGED <<writerVars, cacheVars>> /\ UNCHANGED <<key, raced>>
  BY DEF Query, PartFails
<1>2. StaleOnlyIf'
  BY <1>1, CachedKept
<1>3. \A x \in Readers : x # r =>
        stage'[x] = stage[x] /\ seen'[x] = seen[x] /\ gap'[x] = gap[x]
  BY DEF Query, PartFails, TypeOK
<1>4. ASSUME NEW x \in Readers, x # r, stage'[x] # "idle", NEW p \in Past(x)'
      PROVE  Explained(key[x], seen[x], raced[x], gap[x], p)'
  BY <1>1, <1>3, <1>4, OthersFilling
<1>5. stage[r] \in Parts /\ key[r] \in Keys /\ key'[r] = key[r] /\ raced'[r] = raced[r]
  BY <1>1 DEF Query, PartFails, TypeOK, Parts
<1>6. /\ seen[r] \subseteq seen'[r] /\ gap[r] \subseteq gap'[r]
      /\ stage[r] \in gap'[r] \/ \A c \in committed : c[2] = stage[r] => c \in seen'[r]
  BY DEF Query, PartFails, TypeOK
<1>7. ASSUME NEW p \in Past(r)', NEW q \in Requests, <<q, p>> \in committed',
             key[r] \in Changes(q, p), <<q, p>> \notin seen'[r]
      PROVE  Still(q, key[r])' \/ q \in raced[r] \/ p \in gap'[r]
  <2>1. <<q, p>> \in committed
    BY <1>1, <1>7 DEF writerVars
  <2>2. CASE p = stage[r]
    BY <1>6, <1>7, <2>1, <2>2
  <2>3. CASE p # stage[r]
    <3>1. p \in Past(r) /\ stage[r] # "idle"
      BY <1>5, <1>7, <2>3, NextPartPast DEF Parts
    <3>2. Explained(key[r], seen[r], raced[r], gap[r], p)
      BY <3>1 DEF Filling
    <3>3. Still(q, key[r]) \/ q \in raced[r] \/ p \in gap[r]
      BY <1>6, <1>7, <2>1, <3>2 DEF Explained
    <3> QED BY <1>1, <1>6, <3>3 DEF Still, LeftToExpire, writerVars
  <2> QED BY <2>2, <2>3
<1>8. ASSUME NEW p \in Past(r)'
      PROVE  Explained(key[r], seen[r], raced[r], gap[r], p)'
  BY <1>5, <1>7 DEF Explained, Changes, Of, Still, LeftToExpire
<1> QED BY <1>2, <1>4, <1>8 DEF Filling

LEMMA FillStep ==
    ASSUME IInv, NEW r \in Readers, Fill(r)
    PROVE  StaleOnlyIf'
<1> USE DEF IInv, TypeOK
<1>1. key[r] \in Keys /\ stage[r] # "idle" /\ Past(r) = Parts
  BY DEF Fill, Past
<1>2. UNCHANGED writerVars
  BY DEF Fill
<1>3. ASSUME NEW k \in Keys, k \in cached', NEW p \in Parts, NEW q \in Requests, Lacks(k, q, p)'
      PROVE  Still(q, k)' \/ q \in overtaken'[k] \/ p \in gaps'[k]
  <2>1. <<q, p>> \in committed /\ k \in Changes(q, p) /\ <<q, p>> \notin shows'[k]
    BY <1>2, <1>3 DEF Lacks, writerVars, Changes, Of
  <2>2. CASE k = key[r]
    <3>1. shows'[k] = seen[r] /\ overtaken'[k] = raced[r] /\ gaps'[k] = gap[r]
      BY <1>1, <2>2 DEF Fill
    <3>2. Explained(k, seen[r], raced[r], gap[r], p)
      BY <1>1, <2>2 DEF Filling
    <3>3. Still(q, k) \/ q \in raced[r] \/ p \in gap[r]
      BY <2>1, <3>1, <3>2 DEF Explained
    <3> QED BY <1>2, <3>1, <3>3 DEF Still, LeftToExpire, writerVars
  <2>3. CASE k # key[r]
    <3>1. /\ shows'[k] = shows[k] /\ overtaken'[k] = overtaken[k] /\ gaps'[k] = gaps[k]
          /\ k \in cached
      BY <1>1, <1>3, <2>3 DEF Fill
    <3>2. Lacks(k, q, p)
      BY <2>1, <3>1 DEF Lacks
    <3>3. Still(q, k) \/ q \in overtaken[k] \/ p \in gaps[k]
      BY <3>2 DEF StaleOnlyIf, Still
    <3> QED BY <1>2, <3>1, <3>3 DEF Still, LeftToExpire, writerVars
  <2> QED BY <2>2, <2>3
<1> QED BY <1>3 DEF StaleOnlyIf, Still, LeftToExpire, Lacks

LEMMA TickStep == ASSUME IInv, Tick PROVE StaleOnlyIf'
<1> USE DEF IInv, TypeOK
<1>1. ASSUME NEW k \in Keys, NEW q \in Requests, NEW p \in Parts, Lacks(k, q, p)'
      PROVE  /\ Lacks(k, q, p) /\ overtaken'[k] = overtaken[k] /\ gaps'[k] = gaps[k]
             /\ pending' = pending /\ missed' = missed
  <2>1. k \notin {j \in cached : expires[j] = 1} /\ k \in cached /\ UNCHANGED writerVars
    BY <1>1 DEF Lacks, Tick, Drop
  <2> QED BY <1>1, <2>1 DEF Lacks, Tick, Drop, writerVars, Changes, Of
<1> QED BY <1>1 DEF StaleOnlyIf, LeftToExpire

-----------------------------------------------------------------------------
LEMMA WritingStep == IInv /\ [Next]_vars => Writing'
<1> SUFFICES ASSUME IInv, [Next]_vars PROVE Writing'
  OBVIOUS
<1> USE DEF IInv, TypeOK, Writing
<1>1. ASSUME UNCHANGED writerVars PROVE Writing'
  BY <1>1 DEF writerVars, Deletes, FireDeletes, CommentDeletes, ArgumentDeletes, WatchDeletes,
              MarkReadDeletes, Of
<1>2. ASSUME NEW q \in Requests, Commit(q) PROVE Writing'
  <2>1. Kind[q] = "comment" => "notifications" \notin Writes(q)
    BY DEF Writes
  <2>2. \A x \in Requests : x # q => writer'[x] = writer[x] /\ pending'[x] = pending[x]
            /\ (<<x, "notifications">> \in committed' => <<x, "notifications">> \in committed)
    BY <1>2 DEF Commit, GoOn, Write
  <2>3. pending'[q] = Deletes(q) /\ writer'[q] \in {"score", "deletes"}
            /\ (writer'[q] = "score" => Kind[q] = "comment")
    BY <1>2 DEF Commit, GoOn
  <2>4. writer[q] = "new" /\ (Kind[q] = "comment" => <<q, "notifications">> \notin committed')
    BY <1>2, <2>1 DEF Commit, Write
  <2> QED BY <2>2, <2>3, <2>4
<1>3. ASSUME NEW q \in Requests, SaveScore(q) PROVE Writing'
  <2>1. writer[q] = "score" /\ pending' = pending /\ writer'[q] \in {"notify", "deletes"}
    BY <1>3 DEF SaveScore, GoOn
  <2>2. \A x \in Requests : /\ x # q => writer'[x] = writer[x]
                            /\ <<x, "notifications">> \in committed' => <<x, "notifications">> \in committed
    BY <1>3 DEF SaveScore, GoOn, Write
  <2> QED BY <2>1, <2>2
<1>4. ASSUME NEW q \in Requests, NoOwner(q) \/ Notify(q) \/ NotifyFails(q) PROVE Writing'
  <2>1. writer'[q] = "deletes"
    BY <1>4 DEF NoOwner, Notify, NotifyFails, GoOn
  <2>2. ASSUME NEW x \in Requests, x # q
        PROVE  /\ writer'[x] = writer[x] /\ pending'[x] = pending[x]
               /\ <<x, "notifications">> \in committed' => <<x, "notifications">> \in committed
    <3>1. CASE NoOwner(q)
      BY <2>2, <3>1 DEF NoOwner, GoOn
    <3>2. CASE Notify(q)
      BY <2>2, <3>2 DEF Notify, GoOn, Write
    <3>3. CASE NotifyFails(q)
      BY <2>2, <3>3 DEF NotifyFails, GoOn, Write
    <3> QED BY <1>4, <3>1, <3>2, <3>3
  <2> QED BY <2>1, <2>2
<1>5. ASSUME NEW q \in Requests, NEW k \in Keys, Delete(q, k) \/ DeleteFails(q, k) PROVE Writing'
  <2>1. /\ writer' = writer /\ committed' = committed /\ writer[q] = "deletes"
        /\ \A x \in Requests : x # q => pending'[x] = pending[x]
    BY <1>5 DEF Delete, DeleteFails, ComesNext
  <2> QED BY <2>1
<1>6. ASSUME NEW r \in Readers, Answer(r) \/ \E k \in Keys : Miss(r, k) PROVE Writing'
  BY <1>1, <1>6 DEF Answer, Query, PartFails, Fill, FillFails, Miss
<1>7. ASSUME Tick \/ UNCHANGED vars PROVE Writing'
  BY <1>1, <1>7 DEF Tick, vars, writerVars
<1> QED BY <1>2, <1>3, <1>4, <1>5, <1>6, <1>7 DEF Next, Handle

LEMMA QueryingStep == IInv /\ [Next]_vars => Querying'
<1> SUFFICES ASSUME IInv, [Next]_vars PROVE Querying'
  OBVIOUS
<1> USE DEF IInv, TypeOK, Querying
<1>1. ASSUME stage' = stage, key' = key PROVE Querying'
  BY <1>1 DEF HasPart
<1>2. ASSUME NEW r \in Readers, Query(r) \/ PartFails(r) PROVE Querying'
  <2>1. key' = key /\ stage[r] \in Parts /\ stage' = [stage EXCEPT ![r] = NextPart(stage[r])]
    BY <1>2 DEF Query, PartFails, Parts
  <2>2. NextPart(stage[r]) \in Parts => HasPart(key[r], NextPart(stage[r]))
    BY <2>1 DEF NextPart, HasPart, Parts
  <2> QED BY <2>1, <2>2 DEF HasPart
<1>3. ASSUME NEW r \in Readers, Fill(r) \/ FillFails(r) PROVE Querying'
  <2>1. stage' = [stage EXCEPT ![r] = "idle"] /\ key' = [key EXCEPT ![r] = NoKey]
    BY <1>3 DEF Fill, FillFails, Done
  <2>2. \A x \in Readers : stage'[x] \in Parts =>
            stage'[x] = stage[x] /\ key'[x] = key[x]
    BY <2>1 DEF Parts
  <2> QED BY <2>2 DEF HasPart
<1>4. ASSUME NEW r \in Readers, NEW k \in Keys, Miss(r, k) PROVE Querying'
  <2>1. PICK v \in Views, u \in Users : k = <<v, u>>
    BY CacheAssumption
  <2>2. HasPart(k, FirstPart(k))
    BY <2>1 DEF HasPart, FirstPart, Views, ListViews
  <2> QED BY <1>4, <2>2 DEF Miss, HasPart
<1>5. ASSUME NEW q \in Requests, Commit(q) \/ Handle(q) PROVE Querying'
  BY <1>1, <1>5 DEF Commit, Handle, SaveScore, NoOwner, Notify, NotifyFails, Delete, DeleteFails,
                    readerVars
<1>6. ASSUME Tick \/ UNCHANGED vars PROVE Querying'
  BY <1>1, <1>6 DEF Tick, vars, readerVars
<1> QED BY <1>2, <1>3, <1>4, <1>5, <1>6 DEF Next, Answer

LEMMA StaleStep == IInv /\ [Next]_vars => Filling' /\ StaleOnlyIf'
<1> SUFFICES ASSUME IInv, [Next]_vars PROVE Filling' /\ StaleOnlyIf'
  OBVIOUS
<1> USE DEF IInv
<1>1. ASSUME NEW q \in Requests, Commit(q) \/ Handle(q) PROVE Filling' /\ StaleOnlyIf'
  BY <1>1, WriterStep, DeleteStep DEF Handle, Writer
<1>2. ASSUME NEW r \in Readers, Query(r) \/ PartFails(r) PROVE Filling' /\ StaleOnlyIf'
  BY <1>2, PartStep
<1>3. ASSUME NEW r \in Readers, UNCHANGED writerVars,
             stage'[r] = "idle" \/ Past(r)' = {},
             \A x \in Readers : x # r => /\ stage'[x] = stage[x] /\ key'[x] = key[x]
                                         /\ seen'[x] = seen[x] /\ gap'[x] = gap[x]
                                         /\ raced'[x] = raced[x]
      PROVE  Filling'
  <2>1. ASSUME NEW x \in Readers, stage'[x] # "idle", NEW p \in Past(x)'
        PROVE  Explained(key[x], seen[x], raced[x], gap[x], p)'
    <3>1. CASE x = r
      BY <1>3, <2>1, <3>1
    <3>2. CASE x # r
      BY <1>3, <2>1, <3>2, OthersFilling
    <3> QED BY <3>1, <3>2
  <2> QED BY <2>1 DEF Filling
<1>4. ASSUME NEW r \in Readers, Fill(r) PROVE Filling' /\ StaleOnlyIf'
  BY <1>3, <1>4, FillStep DEF Fill, Done, TypeOK
<1>5. ASSUME NEW r \in Readers, FillFails(r) PROVE Filling' /\ StaleOnlyIf'
  BY <1>3, <1>5, CachedKept DEF FillFails, Done, TypeOK
<1>6. ASSUME NEW r \in Readers, NEW k \in Keys, Miss(r, k) PROVE Filling' /\ StaleOnlyIf'
  <2>1. stage'[r] = FirstPart(k) /\ key'[r] = k
    BY <1>6 DEF Miss, TypeOK
  <2>2. /\ UNCHANGED <<writerVars, cacheVars, seen, gap, raced>>
        /\ \A x \in Readers : x # r => stage'[x] = stage[x] /\ key'[x] = key[x]
    BY <1>6 DEF Miss, TypeOK
  <2>3. ASSUME NEW p \in Past(r)', NEW q \in Requests PROVE k \notin Changes(q, p)
    <3>1. PICK v \in Views, u \in Users : k = <<v, u>>
      BY CacheAssumption
    <3>2. p \in Parts
      BY DEF Past, Parts
    <3>3. stage'[r] = "comments" /\ k[1] = "comments" /\ p \in {"total", "rows"}
      BY <2>1, <3>1 DEF Past, FirstPart, Views, ListViews
    <3>4. ~HasPart(k, p)
      BY <3>3 DEF HasPart, ListViews
    <3> QED BY <3>2, <3>4, ChangesHasPart
  <2>4. ASSUME NEW p \in Past(r)' PROVE Explained(key[r], seen[r], raced[r], gap[r], p)'
    BY <2>1, <2>3 DEF Explained, Changes, Of
  <2>5. ASSUME NEW x \in Readers, x # r, stage'[x] # "idle", NEW p \in Past(x)'
        PROVE  Explained(key[x], seen[x], raced[x], gap[x], p)'
    BY <2>2, <2>5, OthersFilling
  <2> QED BY <2>2, <2>4, <2>5, CachedKept DEF Filling
<1>7. ASSUME Tick PROVE Filling' /\ StaleOnlyIf'
  <2>1. UNCHANGED writerVars /\ UNCHANGED readerVars
    BY <1>7 DEF Tick
  <2>2. \A x \in Readers : stage'[x] # "idle" =>
            \A p \in Past(x)' : Explained(key[x], seen[x], raced[x], gap[x], p)'
    BY <2>1, OthersFilling DEF readerVars
  <2> QED BY <1>7, <2>2, TickStep DEF Filling
<1>8. ASSUME UNCHANGED vars PROVE Filling' /\ StaleOnlyIf'
  <2>1. UNCHANGED writerVars /\ UNCHANGED cacheVars /\ UNCHANGED readerVars
    BY <1>8 DEF vars, writerVars, cacheVars, readerVars
  <2>2. \A x \in Readers : stage'[x] # "idle" =>
            \A p \in Past(x)' : Explained(key[x], seen[x], raced[x], gap[x], p)'
    BY <2>1, OthersFilling DEF readerVars
  <2> QED BY <2>1, <2>2, CachedKept DEF Filling
<1> QED BY <1>1, <1>2, <1>4, <1>5, <1>6, <1>7, <1>8 DEF Next, Answer

\* Whatever the handlers interleave, fail and give up, a cached response is
\* out of date only for one of StaleOnlyIf's five reasons.
THEOREM StalenessExplained == Spec => []StaleOnlyIf
<1>1. Init => IInv
  <2> SUFFICES ASSUME Init PROVE IInv
    OBVIOUS
  <2>1. Writing /\ Querying /\ Filling /\ StaleOnlyIf
    BY DEF Init, Writing, Querying, Filling, StaleOnlyIf, Lacks, Parts
  <2> QED BY <2>1, TypeInit DEF IInv
<1>2. IInv /\ [Next]_vars => IInv'
  BY TypeStep, WritingStep, QueryingStep, StaleStep DEF IInv
<1>3. IInv => StaleOnlyIf
  BY DEF IInv
<1> QED BY <1>1, <1>2, <1>3, PTL DEF Spec
=============================================================================
