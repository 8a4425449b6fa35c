--------------------------- MODULE DbPoolProofs ---------------------------
(***************************************************************************)
(* For any requests and any number of connections: no path keeps one, and  *)
(* the pool starves exactly when every connection has a list request in    *)
(* its loop.  That rows stays a natural number rests on a loop's ending    *)
(* with its last row (RowsLeft).  The theorem on starving maps each        *)
(* request in its loop to the connection of its open rows (RowsHeld): an   *)
(* injection, and onto the connections exactly when the pool starves.      *)
(***************************************************************************)
EXTENDS DbPool, FiniteSetTheorems, TLAPS

\* A request in a loop has rows or queries left.
RowsLeft == \A r \in Requests : stage[r] \in {"comments", "single"} => rows[r] # 0

LEMMA TypeInit == Init => TypeOK /\ RowsLeft
BY DEF Init, TypeOK, RowsLeft

LEMMA ReleaseType ==
    ASSUME TypeOK, NEW r \in Requests, NEW uses, Release(r, uses)
    PROVE  held' \in [Conns -> {Free} \union Requests \X {"query", "rows"}]
BY DEF TypeOK, Release

LEMMA TypeStep == TypeOK /\ RowsLeft /\ [Next]_vars => (TypeOK /\ RowsLeft)'
<1> SUFFICES ASSUME TypeOK, RowsLeft, [Next]_vars PROVE (TypeOK /\ RowsLeft)'
  OBVIOUS
<1> USE DEF TypeOK, RowsLeft, Go, Running
<1>1. ASSUME NEW r \in Requests, Connect(r) PROVE (TypeOK /\ RowsLeft)'
  BY <1>1 DEF Connect
<1>2. ASSUME NEW r \in Requests, Hit(r) \/ Miss(r) \/ Locate(r) \/ Abandoned(r)
      PROVE  (TypeOK /\ RowsLeft)'
  BY <1>2 DEF Hit, Miss, Locate, Abandoned
<1>3. ASSUME NEW r \in Requests, \/ Located(r) \/ Counted(r) \/ NoneListed(r)
                               \/ CommentsFail(r) \/ GivesUp(r)
      PROVE  (TypeOK /\ RowsLeft)'
  BY <1>3, ReleaseType DEF Located, Counted, NoneListed, CommentsFail, GivesUp
<1>4. ASSUME NEW r \in Requests, Listed(r) PROVE (TypeOK /\ RowsLeft)'
  BY <1>4, PoolAssumption DEF Listed
<1>5. ASSUME NEW r \in Requests, Begin(r) PROVE (TypeOK /\ RowsLeft)'
  BY <1>5, PoolAssumption DEF Begin
<1>6. ASSUME NEW r \in Requests, Commented(r) PROVE (TypeOK /\ RowsLeft)'
  <2>1. held' \in [Conns -> {Free} \union Requests \X {"query", "rows"}]
    BY <1>6, ReleaseType DEF Commented
  <2>2. rows[r] \in Nat /\ rows[r] # 0
    BY <1>6 DEF Commented
  <2>3. CASE rows[r] = 1
    BY <1>6, <2>1, <2>2, <2>3 DEF Commented
  <2>4. CASE rows[r] # 1
    BY <1>6, <2>1, <2>2, <2>4 DEF Commented
  <2> QED BY <2>3, <2>4
<1>7. ASSUME NEW r \in Requests, Queried(r) PROVE (TypeOK /\ RowsLeft)'
  <2>1. held' \in [Conns -> {Free} \union Requests \X {"query", "rows"}]
    BY <1>7, ReleaseType DEF Queried
  <2>2. rows[r] \in Nat /\ rows[r] # 0
    BY <1>7 DEF Queried
  <2> QED BY <1>7, <2>1, <2>2 DEF Queried
<1>8. ASSUME UNCHANGED vars PROVE (TypeOK /\ RowsLeft)'
  BY <1>8 DEF vars
<1> QED
  BY <1>1, <1>2, <1>3, <1>4, <1>5, <1>6, <1>7, <1>8 DEF Next, Step, Progress

\* Every variable of the pool keeps its type; no loop runs past its last row.
THEOREM PoolTypeCorrect == Spec => []TypeOK
<1> QED BY TypeInit, TypeStep, PTL DEF Spec

-----------------------------------------------------------------------------
IInv == TypeOK /\ RowsLeft /\ ConnectionsReturned

LEMMA FreeIsNone == \A r \in Requests : Free # <<r, "query">> /\ Free # <<r, "rows">>
BY PoolAssumption

\* A request that gives its query back keeps its rows only if it goes on reading
\* their comments.
LEMMA ReleaseStep ==
    ASSUME IInv, NEW r \in Requests, NEW uses \in {{"query"}, {"query", "rows"}},
           Release(r, uses), NEW to, Go(r, to) \/ (UNCHANGED stage /\ stage[r] = to),
           to = stage[r] \/ stage[r] # "comments" \/ uses = {"query", "rows"}
    PROVE  ConnectionsReturned'
<1> USE DEF IInv, TypeOK
<1>1. \A c \in Conns : held'[c] # Free => held'[c] = held[c] /\ held[c] \notin {r} \X uses
  BY DEF Release
<1>2. \A c, d \in Conns : held'[c] = held'[d] /\ held'[c] # Free => c = d
  BY <1>1 DEF ConnectionsReturned
<1>3. ASSUME NEW q \in Requests, NEW c \in Conns, held'[c] = <<q, "query">>
      PROVE  stage'[q] \in Running
  <2>1. held[c] = <<q, "query">> /\ q # r
    BY <1>1, <1>3, FreeIsNone
  <2> QED BY <2>1 DEF ConnectionsReturned, Go
<1>4. ASSUME NEW q \in Requests, NEW c \in Conns, held'[c] = <<q, "rows">>
      PROVE  stage'[q] = "comments"
  <2>1. held[c] = <<q, "rows">> /\ held[c] \notin {r} \X uses
    BY <1>1, <1>4, FreeIsNone
  <2>2. stage[q] = "comments"
    BY <2>1 DEF ConnectionsReturned
  <2>3. q = r => uses = {"query"}
    BY <2>1
  <2> QED BY <2>1, <2>2, <2>3 DEF Go
<1> QED BY <1>2, <1>3, <1>4 DEF ConnectionsReturned

LEMMA ReturnedStep == IInv /\ [Next]_vars => ConnectionsReturned'
<1> SUFFICES ASSUME IInv, [Next]_vars PROVE ConnectionsReturned'
  OBVIOUS
<1> USE DEF IInv, TypeOK
<1>1. ASSUME NEW r \in Requests, Connect(r) PROVE ConnectionsReturned'
  <2>1. PICK c \in Conns : held[c] = Free /\ held' = [held EXCEPT ![c] = <<r, "query">>]
    BY <1>1 DEF Connect
  <2>2. \A d \in Conns : held[d] # <<r, "query">>
    BY <1>1 DEF Connect, Querying
  <2>3. stage[r] \in Running /\ stage' = stage
    BY <1>1 DEF Connect
  <2>4. \A d \in Conns : held'[d] = IF d = c THEN <<r, "query">> ELSE held[d]
    BY <2>1
  <2>5. \A d, e \in Conns : held'[d] = held'[e] /\ held'[d] # Free => d = e
    BY <2>2, <2>4 DEF ConnectionsReturned
  <2> QED BY <2>3, <2>4, <2>5 DEF ConnectionsReturned
<1>2. ASSUME NEW r \in Requests, Hit(r) \/ Miss(r) \/ Locate(r) \/ Begin(r)
      PROVE  ConnectionsReturned'
  <2>1. held' = held /\ stage[r] = "idle" /\ stage' = [stage EXCEPT ![r] = stage'[r]]
    BY <1>2 DEF Hit, Miss, Locate, Begin, Go
  <2> QED BY <2>1 DEF ConnectionsReturned, Running
<1>3. ASSUME NEW r \in Requests, Abandoned(r) PROVE ConnectionsReturned'
  BY <1>3 DEF Abandoned, Go, ConnectionsReturned, Running
<1>4. ASSUME NEW r \in Requests, Located(r) \/ Counted(r) PROVE ConnectionsReturned'
  BY <1>4, ReleaseStep DEF Located, Counted
<1>5. ASSUME NEW r \in Requests, NoneListed(r) PROVE ConnectionsReturned'
  BY <1>5, ReleaseStep DEF NoneListed
<1>6. ASSUME NEW r \in Requests, CommentsFail(r) PROVE ConnectionsReturned'
  BY <1>6, ReleaseStep DEF CommentsFail
<1>7. ASSUME NEW r \in Requests, GivesUp(r) PROVE ConnectionsReturned'
  BY <1>7, ReleaseStep DEF GivesUp
<1>8. ASSUME NEW r \in Requests, Queried(r) PROVE ConnectionsReturned'
  BY <1>8, ReleaseStep DEF Queried
<1>9. ASSUME NEW r \in Requests, Commented(r) PROVE ConnectionsReturned'
  <2>1. CASE rows[r] = 1
    BY <1>9, <2>1, ReleaseStep DEF Commented
  <2>2. CASE rows[r] # 1
    BY <1>9, <2>2, ReleaseStep DEF Commented, Running
  <2> QED BY <2>1, <2>2
<1>10. ASSUME NEW r \in Requests, Listed(r) PROVE ConnectionsReturned'
  <2>1. /\ stage[r] = "list" /\ stage' = [stage EXCEPT ![r] = "comments"]
        /\ \A c \in Conns : held'[c] = IF held[c] = <<r, "query">> THEN <<r, "rows">> ELSE held[c]
    BY <1>10 DEF Listed, Go
  <2>2. \A c \in Conns : held[c] # <<r, "rows">>
    BY <2>1 DEF ConnectionsReturned
  <2>3. \A c, d \in Conns : held'[c] = held'[d] => held[c] = held[d]
    BY <2>1, <2>2
  <2>4. \A c \in Conns : held'[c] # Free => held[c] # Free
    BY <2>1, PoolAssumption
  <2>5. \A c, d \in Conns : held'[c] = held'[d] /\ held'[c] # Free => c = d
    BY <2>3, <2>4 DEF ConnectionsReturned
  <2> QED BY <2>1, <2>5 DEF ConnectionsReturned, Running
<1>11. ASSUME UNCHANGED vars PROVE ConnectionsReturned'
  BY <1>11 DEF vars, ConnectionsReturned
<1> QED
  BY <1>1, <1>2, <1>3, <1>4, <1>5, <1>6, <1>7, <1>8, <1>9, <1>10, <1>11
  DEF Next, Step, Progress

\* A request that reads comments has the rows of its list open.
RowsHeld ==
    \A r \in Requests : stage[r] = "comments" => \E c \in Conns : held[c] = <<r, "rows">>

\* Nobody closes another's rows, nor its own before its loop is over.
LEMMA RowsKept ==
    ASSUME TypeOK, RowsHeld,
           \A r \in Requests : stage'[r] = "comments" => stage[r] = "comments",
           \A r \in Requests, c \in Conns :
               held[c] = <<r, "rows">> /\ stage'[r] = "comments" => held'[c] = held[c]
    PROVE  RowsHeld'
<1> SUFFICES ASSUME NEW r \in Requests, stage'[r] = "comments"
             PROVE  \E c \in Conns : held'[c] = <<r, "rows">>
  BY DEF RowsHeld
<1>1. PICK c \in Conns : held[c] = <<r, "rows">>
  BY DEF RowsHeld
<1> QED BY <1>1

LEMMA RowsStep == TypeOK /\ RowsHeld /\ [Next]_vars => RowsHeld'
<1> SUFFICES ASSUME TypeOK, RowsHeld, [Next]_vars PROVE RowsHeld'
  OBVIOUS
<1> USE DEF TypeOK, Go
<1>1. ASSUME NEW r \in Requests, Connect(r) PROVE RowsHeld'
  <2>1. PICK c \in Conns : held[c] = Free /\ held' = [held EXCEPT ![c] = <<r, "query">>]
    BY <1>1 DEF Connect
  <2>2. stage' = stage /\ \A q \in Requests : held[c] # <<q, "rows">>
    BY <1>1, <2>1, PoolAssumption DEF Connect
  <2> QED BY <2>1, <2>2, RowsKept
<1>2. ASSUME NEW r \in Requests, \/ Hit(r) \/ Miss(r) \/ Locate(r) \/ Abandoned(r) \/ Begin(r)
      PROVE  RowsHeld'
  <2>1. /\ held' = held
        /\ \A q \in Requests : stage'[q] = "comments" => stage[q] = "comments"
    BY <1>2 DEF Hit, Miss, Locate, Abandoned, Begin
  <2> QED BY <2>1, RowsKept
<1>3. ASSUME NEW r \in Requests, NEW uses \in {{"query"}, {"query", "rows"}}, Release(r, uses),
             NEW to, Go(r, to), to # "comments"
      PROVE  RowsHeld'
  <2>1. \A q \in Requests : stage'[q] = "comments" => q # r /\ stage[q] = "comments"
    BY <1>3
  <2>2. \A q \in Requests, c \in Conns :
            held[c] = <<q, "rows">> /\ q # r => held'[c] = held[c]
    BY <1>3 DEF Release
  <2> QED BY <2>1, <2>2, RowsKept
<1>4. ASSUME NEW r \in Requests, \/ Located(r) \/ Counted(r) \/ NoneListed(r)
                               \/ CommentsFail(r) \/ GivesUp(r)
      PROVE  RowsHeld'
  <2>1. PICK uses \in {{"query"}, {"query", "rows"}}, to \in {"count", "list", "done"} :
            Release(r, uses) /\ Go(r, to)
    BY <1>4 DEF Located, Counted, NoneListed, CommentsFail, GivesUp
  <2> QED BY <1>3, <2>1
<1>5. ASSUME NEW r \in Requests, Queried(r) PROVE RowsHeld'
  <2>1. PICK to \in {"single", "done"} : Release(r, {"query"}) /\ Go(r, to)
    BY <1>5 DEF Queried
  <2> QED BY <1>3, <2>1
<1>6. ASSUME NEW r \in Requests, Commented(r) PROVE RowsHeld'
  <2>1. CASE rows[r] = 1
    BY <1>3, <1>6, <2>1 DEF Commented
  <2>2. CASE rows[r] # 1
    <3>1. stage' = stage /\ Release(r, {"query"})
      BY <1>6, <2>2 DEF Commented
    <3>2. \A q \in Requests, c \in Conns : held[c] = <<q, "rows">> => held'[c] = held[c]
      BY <3>1 DEF Release
    <3> QED BY <3>1, <3>2, RowsKept
  <2> QED BY <2>1, <2>2
<1>7. ASSUME NEW r \in Requests, Listed(r) PROVE RowsHeld'
  <2>1. /\ stage' = [stage EXCEPT ![r] = "comments"]
        /\ \A c \in Conns : held'[c] = IF held[c] = <<r, "query">> THEN <<r, "rows">> ELSE held[c]
    BY <1>7 DEF Listed
  <2>2. PICK c \in Conns : held'[c] = <<r, "rows">>
    BY <1>7, <2>1 DEF Listed, Querying
  <2>3. ASSUME NEW q \in Requests, q # r, stage'[q] = "comments"
        PROVE  \E d \in Conns : held'[d] = <<q, "rows">>
    <3>1. PICK d \in Conns : held[d] = <<q, "rows">>
      BY <2>1, <2>3 DEF RowsHeld
    <3> QED BY <2>1, <3>1
  <2> QED BY <2>2, <2>3 DEF RowsHeld
<1>8. ASSUME UNCHANGED vars PROVE RowsHeld'
  BY <1>8 DEF vars, RowsHeld
<1> QED
  BY <1>1, <1>2, <1>4, <1>5, <1>6, <1>7, <1>8 DEF Next, Step, Progress

LEMMA Inductive == Spec => [](IInv /\ RowsHeld)
<1>1. Init => IInv /\ RowsHeld
  BY TypeInit, PoolAssumption DEF Init, IInv, ConnectionsReturned, RowsHeld
<1>2. IInv /\ RowsHeld /\ [Next]_vars => (IInv /\ RowsHeld)'
  BY TypeStep, ReturnedStep, RowsStep DEF IInv
<1> QED BY <1>1, <1>2, PTL DEF Spec

\* Whatever fails and whoever gives up, a connection is held only for a query
\* that runs or for the rows of a loop that runs, and once for each.
THEOREM NothingLeaks == Spec => []ConnectionsReturned
<1>1. IInv /\ RowsHeld => ConnectionsReturned
  BY DEF IInv
<1> QED BY <1>1, Inductive, PTL

\* The pool starves exactly when as many list requests as it has connections
\* are in their loops: with MaxOpenConns = 25, when 25 pages are built at once.
THEOREM StarvingExplained == Spec => []StarvedIff
<1>1. ASSUME IInv, RowsHeld PROVE StarvedIff
  <2> DEFINE Rows(r) == CHOOSE c \in Conns : held[c] = <<r, "rows">>
             place == [r \in Looping |-> Rows(r)]
  <2>1. \A r \in Looping : place[r] \in Conns /\ held[place[r]] = <<r, "rows">>
    BY <1>1 DEF RowsHeld, Looping
  <2>2. place \in Injection(Looping, Conns)
    <3>1. \A q, r \in Looping : place[q] = place[r] => q = r
      BY <2>1
    <3> QED BY <2>1, <3>1 DEF Injection, IsInjective
  <2> HIDE DEF place
  <2>3. place \in [Looping -> Conns]
    BY <2>2 DEF Injection
  <2>4. Cardinality(Looping) = Cardinality(Conns) <=> place \in Surjection(Looping, Conns)
    BY <2>2, PoolAssumption, FS_Injection
  <2>5. place \in Surjection(Looping, Conns) <=> \A c \in Conns : \E r \in Looping : place[r] = c
    BY <2>3 DEF Surjection
  <2>6. ASSUME \A c \in Conns : \E r \in Looping : place[r] = c PROVE Starved
    <3>1. \A c \in Conns : \E r \in Looping : held[c] = <<r, "rows">>
      BY <2>1, <2>6
    <3>2. \A c \in Conns : held[c] # Free
      BY <3>1, PoolAssumption DEF Looping
    <3>3. \A r \in Requests : ~Querying(r)
      BY <3>1 DEF Querying
    <3>4. PICK c \in Conns : TRUE
      BY PoolAssumption
    <3>5. PICK r \in Requests : stage[r] = "comments"
      BY <3>1, <3>4 DEF Looping
    <3> QED BY <3>2, <3>3, <3>5 DEF Starved, Running
  <2>7. ASSUME Starved, NEW c \in Conns PROVE \E r \in Looping : place[r] = c
    <3>1. PICK r \in Requests : held[c] = <<r, "query">> \/ held[c] = <<r, "rows">>
      BY <1>1, <2>7 DEF Starved, IInv, TypeOK
    <3>2. held[c] = <<r, "rows">>
      BY <2>7, <3>1 DEF Starved, Querying
    <3>3. r \in Looping
      BY <1>1, <3>2 DEF IInv, ConnectionsReturned, Looping
    <3>4. held[place[r]] = held[c] /\ place[r] \in Conns /\ held[c] # Free
      BY <2>1, <2>7, <3>2, <3>3 DEF Starved
    <3> QED BY <1>1, <3>3, <3>4 DEF IInv, ConnectionsReturned
  <2> QED BY <2>4, <2>5, <2>6, <2>7 DEF StarvedIff
<1>2. IInv /\ RowsHeld => StarvedIff
  BY <1>1
<1> QED BY <1>2, Inductive, PTL
=============================================================================
