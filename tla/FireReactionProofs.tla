------------------------- MODULE FireReactionProofs -------------------------
(***************************************************************************)
(* Proofs about FireReaction, for any number of users, arguments, comments *)
(* and handlers.                                                           *)
(***************************************************************************)
EXTENDS FireReaction, FiniteSetTheorems, TLAPS

-----------------------------------------------------------------------------
(* The penalties. *)

\* A penalty on a positive balance is at least one point and never more than
\* the balance: the max(0, ...) of scoring.go:55 and :97 never cuts anything
\* off, so what is logged is what is deducted.
LEMMA PenaltyBounds ==
    ASSUME NEW s \in Nat
    PROVE  /\ CalculateCreatorPenalty(s) \in 0..s
           /\ CalculateCompetitorPenalty(s) \in 0..s
           /\ s > 0 => CalculateCreatorPenalty(s) > 0 /\ CalculateCompetitorPenalty(s) > 0
  BY DEF CalculateCreatorPenalty, CalculateCompetitorPenalty, AtLeastOne, RoundPercent

\* Deducting a penalty of at most the balance subtracts it.
LEMMA DeductSubtracts ==
    ASSUME NEW s \in Nat, NEW p \in 0..s
    PROVE  Deduct(s, p) = s - p /\ Deduct(s, p) \in Nat
  BY DEF Deduct

\* The penalties are integers whatever the balance.
LEMMA PenaltyTypes ==
    ASSUME NEW s \in Int
    PROVE  /\ CalculateCreatorPenalty(s) \in Int
           /\ CalculateCompetitorPenalty(s) \in Int
           /\ \A p \in Int : Deduct(s, p) \in Int
  BY DEF CalculateCreatorPenalty, CalculateCompetitorPenalty, AtLeastOne, RoundPercent, Deduct

-----------------------------------------------------------------------------
(* Types. *)

\* A transaction that has just read its comment is well typed.
LEMMA FreshType ==
    ASSUME NEW u \in Users, NEW c \in Comments, NEW b \in BOOLEAN
    PROVE  Fresh(u, c, b) \in TxnType
  BY DEF Fresh, TxnType

LEMMA BlankType == Blank \in TxnType
  BY FreshType, ConstantsAssumption DEF Blank

\* Setting one field of a transaction to a value of its type.
LEMMA FieldTypes ==
    ASSUME NEW r \in TxnType
    PROVE  /\ \A x \in BOOLEAN : [r EXCEPT !.exists = x] \in TxnType
           /\ \A x \in Nat : [r EXCEPT !.total = x] \in TxnType
           /\ \A x \in SUBSET Rows : /\ [r EXCEPT !.inserted = x] \in TxnType
                                    /\ [r EXCEPT !.deleted = x] \in TxnType
           /\ \A x \in SUBSET Comments : [r EXCEPT !.flagged = x] \in TxnType
           /\ \A x \in SUBSET Users : /\ [r EXCEPT !.forUpdate = x] \in TxnType
                                     /\ [r EXCEPT !.locked = x] \in TxnType
                                     /\ [r EXCEPT !.rewarded = x] \in TxnType
           /\ \A x \in SUBSET Arguments : [r EXCEPT !.scored = x] \in TxnType
           /\ \A x \in [Users -> Int] : /\ [r EXCEPT !.new = x] \in TxnType
                                       /\ [r EXCEPT !.log = x] \in TxnType
           /\ \A x \in Seq(Users) : [r EXCEPT !.competitors = x] \in TxnType
  BY DEF TxnType

\* What the types say of one transaction.
LEMMA TxnFacts ==
    ASSUME TypeOK, NEW t \in Txs
    PROVE  /\ txn[t] \in TxnType
           /\ txn[t].comment \in Comments /\ txn[t].user \in Users
           /\ Argument(t) \in Arguments /\ Row(t) \in Rows
           /\ Winner(t) \in Users /\ Creator[Argument(t)] \in Users
           /\ txn[t].locked \in SUBSET Users /\ txn[t].forUpdate \in SUBSET Users
           /\ txn[t].new \in [Users -> Int] /\ txn[t].log \in [Users -> Int]
           /\ txn[t].inserted \in SUBSET Rows /\ txn[t].deleted \in SUBSET Rows
           /\ txn[t].flagged \in SUBSET Comments
           /\ txn[t].competitors \in Seq(Users)
  <1>1. txn[t] \in TxnType
    BY DEF TypeOK
  <1> QED
    BY <1>1, ConstantsAssumption DEF TxnType, Argument, Winner, Row, Rows

\* A step that changes one transaction and its program counter and leaves the
\* database alone keeps the types.
LEMMA StepTypes ==
    ASSUME TypeOK, NEW t \in Txs, NEW r \in TxnType, NEW label \in PCs,
           txn' = [txn EXCEPT ![t] = r], pc' = [pc EXCEPT ![t] = label], KeepDb
    PROVE  TypeOK'
  BY DEF TypeOK, KeepDb, dbVars

\* Reading a user row gives an integer.
LEMMA SeesType ==
    ASSUME TypeOK, NEW t \in Txs, NEW u \in Users
    PROVE  Sees(t, u) \in Int
  BY DEF TypeOK, Sees, TxnType

\* A penalised transaction is well typed.
LEMMA PenalisedType ==
    ASSUME NEW r \in TxnType, NEW u \in Users, NEW s \in Int, NEW p \in Int
    PROVE  Penalised(r, u, s, p) \in TxnType
  <1> DEFINE newScores == [r.new EXCEPT ![u] = Deduct(s, p)]
             newLog == [r.log EXCEPT ![u] = @ - p]
             r1 == [r EXCEPT !.forUpdate = @ \union {u}]
             r2 == [r1 EXCEPT !.locked = @ \union {u}]
             r3 == [r2 EXCEPT !.new = newScores]
             r4 == [r3 EXCEPT !.log = newLog]
  <1>1. newScores \in [Users -> Int] /\ newLog \in [Users -> Int]
    BY DEF Deduct, TxnType
  <1>2. r1 \in TxnType
    BY DEF TxnType
  <1>3. r2 \in TxnType
    <2> HIDE DEF r1
    <2> QED BY <1>2 DEF TxnType
  <1>4. r3 \in TxnType
    <2> HIDE DEF r2, newScores
    <2> QED BY <1>1, <1>3 DEF TxnType
  <1>5. r4 \in TxnType
    <2> HIDE DEF r3, newLog
    <2> QED BY <1>1, <1>4 DEF TxnType
  <1>6. Penalised(r, u, s, p) = r4
    BY Zenon DEF Penalised
  <1> QED
    BY <1>5, <1>6

\* What a count of comments returns.
LEMMA CommentsFinite ==
    ASSUME TypeOK, NEW a \in Arguments
    PROVE  Cardinality(CommentsIn(a)) \in Nat
  <1>1. CommentsIn(a) \subseteq Comments
    BY DEF CommentsIn, TypeOK
  <1> QED
    BY <1>1, FS_Subset, FS_CardinalityType, ConstantsAssumption

\* The competitor list is a sequence of users.
LEMMA CompetitorOrderType ==
    ASSUME TypeOK, NEW t \in Txs, NEW order \in SetToSeqs(Competitors(t))
    PROVE  order \in Seq(Users)
  <1>1. Competitors(t) \subseteq Users
    BY ConstantsAssumption DEF Competitors, CommentsIn, TypeOK
  <1>2. PICK n \in Nat : order \in [1..n -> Competitors(t)]
    <2>1. IsFiniteSet(Competitors(t))
      BY <1>1, FS_Subset, ConstantsAssumption
    <2> QED BY <2>1, FS_CardinalityType DEF SetToSeqs
  <1> QED
    BY <1>1, <1>2

LEMMA TypeInit == Init => TypeOK
  BY BlankType, ConstantsAssumption DEF Init, TypeOK, PCs, Rows

LEMMA TypeStep == TypeOK /\ [Next]_vars => TypeOK'
  <1> SUFFICES ASSUME TypeOK, [Next]_vars PROVE TypeOK'
    OBVIOUS
  <1>1. ASSUME NEW t \in Txs, NEW u \in Users, NEW c \in Comments, ReadComment(t, u, c)
        PROVE  TypeOK'
    BY <1>1, FreshType DEF TypeOK, PCs, Goto, KeepDb, dbVars, ReadComment
  <1>2. ASSUME NEW t \in Txs, ReadExists(t) PROVE TypeOK'
    <2> DEFINE r == [txn[t] EXCEPT !.exists = Row(t) \in reactions]
    <2>1. txn' = [txn EXCEPT ![t] = r] /\ pc' = [pc EXCEPT ![t] = "toggle"] /\ KeepDb
      BY <1>2, Zenon DEF ReadExists, Goto
    <2>2. r \in TxnType
      <3>1. \A b \in BOOLEAN : [txn[t] EXCEPT !.exists = b] \in TxnType
        BY TxnFacts, FieldTypes
      <3>2. (Row(t) \in reactions) \in BOOLEAN
        OBVIOUS
      <3> QED BY <3>1, <3>2, Zenon
    <2> QED
      BY <2>1, <2>2, StepTypes DEF PCs
  <1>3. ASSUME NEW t \in Txs, Rollback(t) PROVE TypeOK'
    BY <1>3, BlankType DEF TypeOK, PCs, Goto, KeepDb, dbVars, Rollback
  <1>4. ASSUME NEW t \in Txs, Unfire(t) PROVE TypeOK'
    <2> DEFINE r == [txn[t] EXCEPT !.deleted = {Row(t)} \intersect reactions]
    <2>1. txn' = [txn EXCEPT ![t] = r] /\ pc' = [pc EXCEPT ![t] = "argscore"] /\ KeepDb
      BY <1>4, Zenon DEF Unfire, Goto
    <2>2. r \in TxnType
      BY FieldTypes, TxnFacts
    <2> QED
      BY <2>1, <2>2, StepTypes DEF PCs
  <1>5. ASSUME NEW t \in Txs, InsertFire(t) PROVE TypeOK'
    <2> DEFINE r == [txn[t] EXCEPT !.inserted = {Row(t)}]
               label == IF txn[t].seenTriggered THEN "argscore" ELSE "total"
    <2>1. txn' = [txn EXCEPT ![t] = r] /\ pc' = [pc EXCEPT ![t] = label] /\ KeepDb
      BY <1>5, Zenon DEF InsertFire, Goto
    <2>2. Row(t) \in Rows
      BY DEF Row, Rows, TypeOK, TxnType
    <2>3. r \in TxnType
      BY <2>2, FieldTypes, TxnFacts
    <2> QED
      BY <2>1, <2>3, StepTypes DEF PCs
  <1>6. ASSUME NEW t \in Txs, CountComments(t) PROVE TypeOK'
    <2> DEFINE r == [txn[t] EXCEPT !.total = Cardinality(CommentsIn(Argument(t)))]
    <2>1. txn' = [txn EXCEPT ![t] = r] /\ pc' = [pc EXCEPT ![t] = "votes"] /\ KeepDb
      BY <1>6, Zenon DEF CountComments, Goto
    <2>2. r \in TxnType
      BY FieldTypes, CommentsFinite, TxnFacts
    <2> QED
      BY <2>1, <2>2, StepTypes DEF PCs
  <1>7. ASSUME NEW t \in Txs, CountVotes(t) PROVE TypeOK'
    BY <1>7 DEF TypeOK, PCs, Goto, KeepDb, dbVars, CountVotes
  <1>8. ASSUME NEW t \in Txs, FlagComment(t) PROVE TypeOK'
    <2> DEFINE r == [txn[t] EXCEPT !.flagged = {txn[t].comment}]
    <2>1. txn' = [txn EXCEPT ![t] = r] /\ pc' = [pc EXCEPT ![t] = "creator"] /\ KeepDb
      BY <1>8, Zenon DEF FlagComment, Goto
    <2>2. r \in TxnType
      BY FieldTypes, TxnFacts
    <2> QED
      BY <2>1, <2>2, StepTypes DEF PCs
  <1>9. ASSUME NEW t \in Txs, PenaliseCreator(t) PROVE TypeOK'
    <2> DEFINE u == Creator[Argument(t)]
               r == Penalised(txn[t], u, Sees(t, u), CalculateCreatorPenalty(Sees(t, u)))
    <2>1. txn' = [txn EXCEPT ![t] = r] /\ pc' = [pc EXCEPT ![t] = "competitors"] /\ KeepDb
      BY <1>9, Zenon DEF PenaliseCreator, Goto
    <2>2. u \in Users
      BY TxnFacts
    <2>3. r \in TxnType
      BY <2>2, SeesType, PenaltyTypes, PenalisedType DEF TypeOK
    <2> QED
      BY <2>1, <2>3, StepTypes DEF PCs
  <1>10. ASSUME NEW t \in Txs, ReadCompetitors(t) PROVE TypeOK'
    <2>1. PICK order \in SetToSeqs(Competitors(t)) :
              txn' = [txn EXCEPT ![t].competitors = order]
      BY <1>10 DEF ReadCompetitors
    <2> DEFINE r == [txn[t] EXCEPT !.competitors = order]
    <2>2. txn' = [txn EXCEPT ![t] = r] /\ pc' = [pc EXCEPT ![t] = "penalise"] /\ KeepDb
      BY <1>10, <2>1, Zenon DEF ReadCompetitors, Goto
    <2>3. r \in TxnType
      BY FieldTypes, CompetitorOrderType DEF TypeOK
    <2> QED
      BY <2>2, <2>3, StepTypes DEF PCs
  <1>11. ASSUME NEW t \in Txs, PenaliseCompetitor(t) PROVE TypeOK'
    <2> DEFINE u == Head(txn[t].competitors)
               q == Penalised(txn[t], u, Sees(t, u), CalculateCompetitorPenalty(Sees(t, u)))
               r == [q EXCEPT !.competitors = Tail(txn[t].competitors)]
    <2>1. txn' = [txn EXCEPT ![t] = r] /\ pc' = pc /\ KeepDb
      BY <1>11, Zenon DEF PenaliseCompetitor
    <2>2. txn[t].competitors \in Seq(Users) /\ txn[t].competitors # <<>>
      BY <1>11 DEF PenaliseCompetitor, TypeOK, TxnType
    <2>3. u \in Users /\ Tail(txn[t].competitors) \in Seq(Users)
      BY <2>2
    <2>4. q \in TxnType
      <3>1. /\ Sees(t, u) \in Int
            /\ CalculateCompetitorPenalty(Sees(t, u)) \in Int
        BY <2>3, SeesType, PenaltyTypes
      <3> QED BY <2>3, <3>1, PenalisedType, TxnFacts
    <2>5. r \in TxnType
      <3> HIDE DEF q
      <3> QED BY <2>3, <2>4, FieldTypes
    <2> QED
      <3>1. pc' = [pc EXCEPT ![t] = pc[t]] /\ pc[t] \in PCs
        BY <2>1 DEF TypeOK
      <3> QED BY <2>1, <2>5, <3>1, StepTypes
  <1>12. ASSUME NEW t \in Txs, RewardWinner(t) PROVE TypeOK'
    <2> DEFINE u == Winner(t)
               r1 == [txn[t] EXCEPT !.locked = @ \union {u}]
               r2 == [r1 EXCEPT !.new = [txn[t].new EXCEPT ![u] = Sees(t, u) + Reward]]
               r3 == [r2 EXCEPT !.rewarded = {u}]
    <2>1. txn' = [txn EXCEPT ![t] = r3] /\ pc' = [pc EXCEPT ![t] = "argscore"] /\ KeepDb
      BY <1>12, Zenon DEF RewardWinner, Goto
    <2>2. u \in Users
      BY TxnFacts
    <2>3. r1 \in TxnType
      BY <2>2, FieldTypes, TxnFacts
    <2>4. r2 \in TxnType
      <3>1. [txn[t].new EXCEPT ![u] = Sees(t, u) + Reward] \in [Users -> Int]
        BY <2>2, SeesType, TxnFacts DEF Reward
      <3> HIDE DEF r1
      <3> QED BY <2>3, <3>1, FieldTypes
    <2>5. r3 \in TxnType
      <3> HIDE DEF r2
      <3> QED BY <2>2, <2>4, FieldTypes
    <2> QED
      BY <2>1, <2>5, StepTypes DEF PCs
  <1>13. ASSUME NEW t \in Txs, UpdateArgument(t) PROVE TypeOK'
    <2> DEFINE r == [txn[t] EXCEPT !.scored = {Argument(t)}]
    <2>1. txn' = [txn EXCEPT ![t] = r] /\ pc' = [pc EXCEPT ![t] = "commit"] /\ KeepDb
      BY <1>13, Zenon DEF UpdateArgument, Goto
    <2>2. r \in TxnType
      BY FieldTypes, TxnFacts
    <2> QED
      BY <2>1, <2>2, StepTypes DEF PCs
  <1>14. ASSUME NEW t \in Txs, Commit(t) PROVE TypeOK'
    <2>1. score' \in [Users -> Int] /\ ledger' \in [Users -> Int]
      <3>1. /\ score' = [u \in Users |-> Sees(t, u)]
            /\ ledger' = [u \in Users |-> ledger[u] + txn[t].log[u]]
        BY <1>14 DEF Commit
      <3>2. ledger \in [Users -> Int] /\ txn[t].log \in [Users -> Int]
        BY TxnFacts DEF TypeOK
      <3>3. ASSUME NEW u \in Users PROVE Sees(t, u) \in Int /\ ledger[u] + txn[t].log[u] \in Int
        BY <3>2, SeesType
      <3> QED BY <3>1, <3>3
    <2>2. triggered' \in [Comments -> BOOLEAN] /\ reactions' \subseteq Rows
      BY <1>14, TxnFacts DEF Commit, TypeOK, SeenReactions
    <2>3. wins' \in [Comments -> Nat] /\ paid' \in [Users -> Nat]
      BY <1>14, TxnFacts DEF Commit, TypeOK
    <2>4. pc' \in [Txs -> PCs] /\ txn' \in [Txs -> TxnType]
      BY <1>14, BlankType DEF Commit, Goto, PCs, TypeOK
    <2> QED
      BY <1>14, <2>1, <2>2, <2>3, <2>4 DEF Commit, TypeOK
  <1>15. ASSUME NEW t \in Txs, NEW c \in Comments, PostComment(t, c) PROVE TypeOK'
    BY <1>15 DEF TypeOK, PCs, Goto, KeepDb, dbVars, PostComment
  <1>16. CASE UNCHANGED vars
    BY <1>16 DEF TypeOK, dbVars, vars
  <1> QED
    BY <1>1, <1>2, <1>3, <1>4, <1>5, <1>6, <1>7, <1>8, <1>9, <1>10, <1>11,
       <1>12, <1>13, <1>14, <1>15, <1>16
    DEF Next, Step, InsertRefused, Abort, DeadlockVictim

\* Every variable keeps its type in every reachable state.
THEOREM TypeCorrect == Spec => []TypeOK
  BY TypeInit, TypeStep, PTL DEF Spec

-----------------------------------------------------------------------------
(* The accounts.  A balance is read, penalised and written in several       *)
(* statements, so LedgerReconciles is not inductive: the invariant has to   *)
(* say what each running transaction holds of it.                           *)

\* Two transactions never hold the same user row exclusively.
Exclusive ==
    \A t \in Txs : \A o \in Others(t) : txn[t].locked \intersect txn[o].locked = {}

\* The 50 points transaction r has given u and not yet committed.
Bonus(r, u) == IF u \in r.rewarded THEN Reward ELSE 0

\* The balance a transaction will leave in a row it holds is the committed
\* balance, with what the transaction logged and rewarded; of rows it does not
\* hold it has logged and rewarded nothing.
Holds(r, u) ==
    /\ u \in r.locked => r.new[u] \in Nat /\ r.new[u] = score[u] + r.log[u] + Bonus(r, u)
    /\ u \notin r.locked => r.log[u] = 0 /\ u \notin r.rewarded

\* The flag and the reward of a transaction come together, the flag first.
Settling == {"creator", "competitors", "penalise"}
FlagAndReward(r, label) ==
    /\ r.flagged \subseteq {r.comment}
    /\ r.rewarded \subseteq {Author[r.comment]}
    /\ label \in Settling => r.flagged # {} /\ r.rewarded = {}
    /\ label \in {"argscore", "commit"} => (r.flagged # {} <=> r.rewarded # {})
    /\ label \notin Settling \union {"argscore", "commit"} =>
          r.flagged = {} /\ r.rewarded = {}

\* No sequence of penalties, however interleaved, makes a score negative.
NonNegative == \A u \in Users : score[u] >= 0

IInv ==
    /\ TypeOK
    /\ Exclusive
    /\ \A t \in Txs, u \in Users : Holds(txn[t], u)
    /\ \A t \in Txs : FlagAndReward(txn[t], pc[t])
    /\ NonNegative
    /\ LedgerReconciles
    /\ AllOrNothing

\* A handler with nothing locked or written holds nothing.
LEMMA FreshHolds ==
    ASSUME NEW u \in Users, NEW c \in Comments, NEW b \in BOOLEAN, NEW x \in Users
    PROVE  /\ Holds(Fresh(u, c, b), x)
           /\ Fresh(u, c, b).locked = {} /\ Fresh(u, c, b).flagged = {}
           /\ Fresh(u, c, b).rewarded = {} /\ Fresh(u, c, b).comment = c
  BY DEF Fresh, Holds

\* The balance a transaction sees of a row nobody else holds is not negative.
LEMMA SeesNat ==
    ASSUME IInv, NEW t \in Txs, NEW u \in Users
    PROVE  Sees(t, u) \in Nat
  BY DEF IInv, TypeOK, NonNegative, Holds, Sees

\* Deducting and logging a penalty within the balance keeps the account of its
\* transaction straight.
LEMMA PenaltyHolds ==
    ASSUME IInv, NEW t \in Txs, NEW u \in Users, txn[t].rewarded = {},
           NEW p \in 0..Sees(t, u), NEW x \in Users, NEW q \in TxnType,
           q.locked = txn[t].locked \union {u},
           q.new = [txn[t].new EXCEPT ![u] = Deduct(Sees(t, u), p)],
           q.log = [txn[t].log EXCEPT ![u] = @ - p],
           q.rewarded = {}
    PROVE  Holds(q, x)
  <1>1. Sees(t, u) \in Nat /\ p \in Int
    BY SeesNat
  <1>2. Deduct(Sees(t, u), p) = Sees(t, u) - p /\ Deduct(Sees(t, u), p) \in Nat
    BY <1>1, DeductSubtracts
  <1>3. TypeOK /\ Holds(txn[t], x)
    BY DEF IInv
  <1>4. /\ q.locked = txn[t].locked \union {u}
        /\ q.new = [txn[t].new EXCEPT ![u] = Deduct(Sees(t, u), p)]
        /\ q.log = [txn[t].log EXCEPT ![u] = @ - p]
        /\ q.rewarded = {}
    OBVIOUS
  <1>5. score[x] \in Int /\ txn[t].log \in [Users -> Int] /\ txn[t].new \in [Users -> Int]
    BY <1>3, TxnFacts DEF TypeOK
  <1>6. ASSUME x = u PROVE Holds(q, x)
    <2>1. q.new[x] = Sees(t, u) - p /\ q.log[x] = txn[t].log[x] - p /\ x \in q.locked
      BY <1>1, <1>2, <1>4, <1>5, <1>6
    <2>2. Sees(t, u) = score[x] + txn[t].log[x]
      BY <1>3, <1>5, <1>6 DEF Holds, Bonus, Sees
    <2>3. q.new[x] \in Nat /\ q.new[x] = score[x] + q.log[x] + 0
      BY <1>1, <1>2, <1>5, <1>6, <2>1, <2>2
    <2> QED BY <1>4, <2>1, <2>3 DEF Holds, Bonus
  <1>7. ASSUME x # u PROVE Holds(q, x)
    <2>1. /\ q.new[x] = txn[t].new[x] /\ q.log[x] = txn[t].log[x]
          /\ x \in q.locked <=> x \in txn[t].locked
      BY <1>4, <1>5, <1>7
    <2> QED BY <1>3, <1>4, <2>1 DEF Holds, Bonus
  <1> QED
    BY <1>6, <1>7

\* A step of one transaction inside its database view keeps the invariant if
\* the rows it locks are free and its own account stays straight.
LEMMA TxnStep ==
    ASSUME IInv, TypeOK', NEW t \in Txs, NEW r \in TxnType, NEW label \in PCs,
           txn' = [txn EXCEPT ![t] = r], pc' = [pc EXCEPT ![t] = label],
           UNCHANGED <<score, ledger, triggered, wins, paid>>,
           \A o \in Others(t) : r.locked \intersect txn[o].locked = {},
           \A x \in Users : Holds(r, x),
           FlagAndReward(r, label)
    PROVE  IInv'
  <1>0. /\ txn \in [Txs -> TxnType] /\ pc \in [Txs -> PCs]
        /\ txn'[t] = r /\ pc'[t] = label
        /\ \A o \in Others(t) : txn'[o] = txn[o] /\ pc'[o] = pc[o]
    BY DEF IInv, TypeOK, Others
  <1>1. Exclusive'
    BY <1>0 DEF IInv, Exclusive, Others
  <1>2. ASSUME NEW o \in Txs, NEW x \in Users PROVE Holds(txn[o], x)'
    <2>1. Holds(txn'[o], x)
      BY <1>0 DEF IInv, Others
    <2> QED
      BY <2>1 DEF Holds, Bonus
  <1>3. ASSUME NEW o \in Txs PROVE FlagAndReward(txn[o], pc[o])'
    <2>1. FlagAndReward(txn'[o], pc'[o])
      BY <1>0 DEF IInv, Others
    <2> QED
      BY <2>1 DEF FlagAndReward
  <1>4. NonNegative' /\ LedgerReconciles' /\ AllOrNothing'
    BY DEF IInv, NonNegative, LedgerReconciles, AllOrNothing
  <1> QED
    BY <1>1, <1>2, <1>3, <1>4 DEF IInv

\* In particular a step that touches no account.
LEMMA QuietStep ==
    ASSUME IInv, TypeOK', NEW t \in Txs, NEW r \in TxnType, NEW label \in PCs,
           txn' = [txn EXCEPT ![t] = r], pc' = [pc EXCEPT ![t] = label],
           UNCHANGED <<score, ledger, triggered, wins, paid>>,
           r.locked = txn[t].locked, r.new = txn[t].new, r.log = txn[t].log,
           r.rewarded = txn[t].rewarded,
           FlagAndReward(r, label)
    PROVE  IInv'
  <1>1. \A o \in Others(t) : r.locked \intersect txn[o].locked = {}
    BY DEF IInv, Exclusive
  <1>2. ASSUME NEW x \in Users PROVE Holds(r, x)
    BY DEF IInv, Holds, Bonus
  <1> QED
    BY <1>1, <1>2, TxnStep

\* A step that penalises a row nobody else holds, by at most its balance.
LEMMA PenaltyStep ==
    ASSUME IInv, TypeOK', NEW t \in Txs, NEW u \in Users, NEW p \in 0..Sees(t, u),
           NEW r \in TxnType, NEW label \in Settling,
           r.locked = txn[t].locked \union {u},
           r.new = [txn[t].new EXCEPT ![u] = Deduct(Sees(t, u), p)],
           r.log = [txn[t].log EXCEPT ![u] = @ - p],
           r.rewarded = txn[t].rewarded, r.flagged = txn[t].flagged,
           r.comment = txn[t].comment,
           pc[t] \in Settling, ForUpdateBlockers(t, u) = {},
           txn' = [txn EXCEPT ![t] = r], pc' = [pc EXCEPT ![t] = label],
           UNCHANGED <<score, ledger, triggered, wins, paid>>
    PROVE  IInv'
  <1>1. /\ FlagAndReward(txn[t], pc[t]) /\ Sees(t, u) \in Int /\ p \in Int
        /\ txn[t] \in TxnType
    BY SeesNat DEF IInv, TypeOK
  <1>2. txn[t].rewarded = {}
    BY <1>1 DEF FlagAndReward
  <1>4. \A o \in Others(t) : r.locked \intersect txn[o].locked = {}
    BY DEF IInv, Exclusive, ForUpdateBlockers
  <1>5. ASSUME NEW x \in Users PROVE Holds(r, x)
    BY <1>2, PenaltyHolds
  <1>6. FlagAndReward(r, label)
    BY <1>1 DEF FlagAndReward, Settling
  <1> QED
    BY <1>4, <1>5, <1>6, TxnStep DEF Settling, PCs

\* A step that leaves transactions and accounts alone.
LEMMA InvStutter ==
    ASSUME IInv, TypeOK', UNCHANGED <<score, ledger, triggered, pc, txn, wins, paid>>
    PROVE  IInv'
  BY DEF IInv, Exclusive, Others, Holds, Bonus, FlagAndReward, NonNegative,
         LedgerReconciles, AllOrNothing

\* COMMIT installs balances that reconcile, and releases the rows.
LEMMA CommitStep ==
    ASSUME IInv, TypeOK', NEW t \in Txs, Commit(t)
    PROVE  IInv'
  <1>0. /\ TypeOK
        /\ txn \in [Txs -> TxnType] /\ pc \in [Txs -> PCs]
        /\ txn'[t] = Blank /\ pc'[t] = "idle" /\ pc[t] = "commit"
        /\ \A o \in Others(t) : txn'[o] = txn[o] /\ pc'[o] = pc[o]
    BY DEF IInv, TypeOK, Others, Commit, Goto
  <1>1. /\ Blank.locked = {} /\ Blank.flagged = {} /\ Blank.rewarded = {}
        /\ \A x \in Users : Blank.log[x] = 0
    BY ConstantsAssumption DEF Blank, Fresh
  <1>2. ASSUME NEW u \in Users
        PROVE  /\ score'[u] = score[u] + txn[t].log[u] + Bonus(txn[t], u)
               /\ score'[u] \in Nat
    <2>1. Holds(txn[t], u) /\ score[u] \in Nat /\ score'[u] = Sees(t, u)
      BY DEF IInv, Commit, NonNegative, TypeOK
    <2> QED BY <2>1 DEF Holds, Sees, Bonus
  <1>3. Exclusive'
    BY <1>0, <1>1 DEF IInv, Exclusive, Others
  <1>4. ASSUME NEW o \in Txs, NEW x \in Users PROVE Holds(txn[o], x)'
    <2>1. CASE o = t
      BY <1>0, <1>1, <2>1 DEF Holds
    <2>2. CASE o # t
      <3>1. txn'[o] = txn[o] /\ Holds(txn[o], x)
        BY <1>0, <2>2 DEF Others, IInv
      <3>2. x \in txn[o].locked => x \notin txn[t].locked
        BY <2>2 DEF IInv, Exclusive, Others
      <3>3. x \in txn[o].locked => score'[x] = score[x]
        BY <3>2 DEF Commit, Sees
      <3> QED BY <3>1, <3>3 DEF Holds, Bonus
    <2> QED BY <2>1, <2>2
  <1>5. ASSUME NEW o \in Txs PROVE FlagAndReward(txn[o], pc[o])'
    <2>1. FlagAndReward(txn'[o], pc'[o])
      BY <1>0, <1>1 DEF IInv, Others, FlagAndReward, Settling
    <2> QED
      BY <2>1 DEF FlagAndReward
  <1>6. NonNegative'
    BY <1>2 DEF NonNegative
  <1>7. ASSUME NEW u \in Users
        PROVE  score'[u] = InitialScore + ledger'[u] + Reward * paid'[u]
    <2>1. score[u] = InitialScore + ledger[u] + Reward * paid[u]
      BY DEF IInv, LedgerReconciles
    <2>2. ledger'[u] = ledger[u] + txn[t].log[u]
      BY DEF Commit
    <2>3. paid'[u] = paid[u] + (IF u \in txn[t].rewarded THEN 1 ELSE 0)
      BY <1>0 DEF Commit, TypeOK
    <2>4. /\ score[u] \in Int /\ ledger[u] \in Int /\ paid[u] \in Nat
          /\ txn[t].log[u] \in Int /\ InitialScore \in Int
      <3>1. score[u] \in Int /\ ledger[u] \in Int /\ paid[u] \in Nat
        BY <1>0 DEF TypeOK
      <3>2. txn[t].log \in [Users -> Int]
        BY <1>0, TxnFacts
      <3> QED BY <3>1, <3>2, ConstantsAssumption
    <2> QED BY <1>2, <2>1, <2>2, <2>3, <2>4 DEF Bonus, Reward
  <1>8. AllOrNothing'
    <2>1. FlagAndReward(txn[t], pc[t])
      BY DEF IInv
    <2>2. txn[t].flagged # {} <=> txn[t].rewarded # {}
      BY <1>0, <2>1 DEF FlagAndReward
    <2> SUFFICES ASSUME NEW c \in Comments
                 PROVE  triggered'[c] <=> wins'[c] > 0
      BY DEF AllOrNothing
    <2>3. triggered'[c] <=> triggered[c] \/ c \in txn[t].flagged
      BY DEF Commit
    <2>4. (triggered[c] <=> wins[c] > 0) /\ wins[c] \in Nat
      BY <1>0 DEF IInv, AllOrNothing, TypeOK
    <2>5. CASE c \in txn[t].flagged
      <3>1. c = txn[t].comment /\ txn[t].rewarded # {}
        BY <2>1, <2>2, <2>5 DEF FlagAndReward
      <3>2. wins'[c] = wins[c] + 1
        BY <1>0, <3>1 DEF Commit, TypeOK
      <3> QED BY <2>3, <2>4, <2>5, <3>2
    <2>6. CASE c \notin txn[t].flagged
      <3>1. txn[t].rewarded # {} => c # txn[t].comment
        BY <2>1, <2>2, <2>6 DEF FlagAndReward
      <3>2. wins'[c] = wins[c]
        BY <1>0, <3>1 DEF Commit, TypeOK
      <3> QED BY <2>3, <2>4, <2>6, <3>2
    <2> QED BY <2>5, <2>6
  <1> QED
    BY <1>3, <1>4, <1>5, <1>6, <1>7, <1>8 DEF IInv, LedgerReconciles

LEMMA InvInit == Init => IInv
  <1> SUFFICES ASSUME Init PROVE IInv
    OBVIOUS
  <1>1. TypeOK
    BY TypeInit
  <1>2. /\ Blank.locked = {} /\ Blank.flagged = {} /\ Blank.rewarded = {}
        /\ \A x \in Users : Blank.log[x] = 0
    BY ConstantsAssumption DEF Blank, Fresh
  <1>3. \A t \in Txs : txn[t] = Blank /\ pc[t] = "idle"
    BY DEF Init
  <1>4. Exclusive
    BY <1>2, <1>3 DEF Exclusive, Others
  <1>5. \A t \in Txs, x \in Users : Holds(txn[t], x)
    BY <1>2, <1>3 DEF Holds
  <1>6. \A t \in Txs : FlagAndReward(txn[t], pc[t])
    BY <1>2, <1>3 DEF FlagAndReward, Settling
  <1>7. NonNegative /\ LedgerReconciles /\ AllOrNothing
    BY ConstantsAssumption DEF Init, NonNegative, LedgerReconciles, AllOrNothing, Reward
  <1> QED
    BY <1>1, <1>4, <1>5, <1>6, <1>7 DEF IInv

\* Each step of a handler keeps the invariant.
LEMMA InvStep ==
    ASSUME IInv, TypeOK', NEW t \in Txs, Step(t) \/ Rollback(t)
    PROVE  IInv'
  <1> USE DEF KeepDb, dbVars, Goto
  <1>0. TypeOK /\ txn[t] \in TxnType /\ FlagAndReward(txn[t], pc[t])
        /\ txn'[t] \in TxnType
    BY DEF IInv, TypeOK
  <1>1. CASE ReadExists(t)
    <2> DEFINE r == [txn[t] EXCEPT !.exists = Row(t) \in reactions]
    <2>1. txn' = [txn EXCEPT ![t] = r] /\ pc' = [pc EXCEPT ![t] = "toggle"]
      BY <1>1, Zenon DEF ReadExists
    <2>2. r \in TxnType
      <3>1. txn'[t] = r
        BY <1>0, <2>1 DEF TypeOK
      <3> QED BY <1>0, <3>1
    <2>3. /\ r.locked = txn[t].locked /\ r.new = txn[t].new /\ r.log = txn[t].log
          /\ r.rewarded = txn[t].rewarded /\ r.comment = txn[t].comment /\ r.flagged = txn[t].flagged
      BY <1>0 DEF TxnType
    <2> HIDE DEF r
    <2>4. FlagAndReward(r, "toggle")
      BY <1>0, <1>1, <2>3 DEF FlagAndReward, Settling, ReadExists
    <2> QED BY <1>1, <2>1, <2>2, <2>3, <2>4, QuietStep DEF ReadExists, PCs
  <1>2. CASE Unfire(t)
    <2> DEFINE r == [txn[t] EXCEPT !.deleted = {Row(t)} \intersect reactions]
    <2>1. txn' = [txn EXCEPT ![t] = r] /\ pc' = [pc EXCEPT ![t] = "argscore"]
      BY <1>2, Zenon DEF Unfire
    <2>2. r \in TxnType
      <3>1. txn'[t] = r
        BY <1>0, <2>1 DEF TypeOK
      <3> QED BY <1>0, <3>1
    <2>3. /\ r.locked = txn[t].locked /\ r.new = txn[t].new /\ r.log = txn[t].log
          /\ r.rewarded = txn[t].rewarded /\ r.comment = txn[t].comment /\ r.flagged = txn[t].flagged
      BY <1>0 DEF TxnType
    <2> HIDE DEF r
    <2>4. FlagAndReward(r, "argscore")
      BY <1>0, <1>2, <2>3 DEF FlagAndReward, Settling, Unfire
    <2> QED BY <1>2, <2>1, <2>2, <2>3, <2>4, QuietStep DEF Unfire, PCs
  <1>3. CASE InsertFire(t)
    <2> DEFINE r == [txn[t] EXCEPT !.inserted = {Row(t)}]
    <2>1. txn' = [txn EXCEPT ![t] = r] /\ pc' = [pc EXCEPT ![t] = (IF txn[t].seenTriggered THEN "argscore" ELSE "total")]
      BY <1>3, Zenon DEF InsertFire
    <2>2. r \in TxnType
      <3>1. txn'[t] = r
        BY <1>0, <2>1 DEF TypeOK
      <3> QED BY <1>0, <3>1
    <2>3. /\ r.locked = txn[t].locked /\ r.new = txn[t].new /\ r.log = txn[t].log
          /\ r.rewarded = txn[t].rewarded /\ r.comment = txn[t].comment /\ r.flagged = txn[t].flagged
      BY <1>0 DEF TxnType
    <2> HIDE DEF r
    <2>4. FlagAndReward(r, (IF txn[t].seenTriggered THEN "argscore" ELSE "total"))
      BY <1>0, <1>3, <2>3 DEF FlagAndReward, Settling, InsertFire
    <2> QED BY <1>3, <2>1, <2>2, <2>3, <2>4, QuietStep DEF InsertFire, PCs
  <1>4. CASE CountComments(t)
    <2> DEFINE r == [txn[t] EXCEPT !.total = Cardinality(CommentsIn(Argument(t)))]
    <2>1. txn' = [txn EXCEPT ![t] = r] /\ pc' = [pc EXCEPT ![t] = "votes"]
      BY <1>4, Zenon DEF CountComments
    <2>2. r \in TxnType
      <3>1. txn'[t] = r
        BY <1>0, <2>1 DEF TypeOK
      <3> QED BY <1>0, <3>1
    <2>3. /\ r.locked = txn[t].locked /\ r.new = txn[t].new /\ r.log = txn[t].log
          /\ r.rewarded = txn[t].rewarded /\ r.comment = txn[t].comment /\ r.flagged = txn[t].flagged
      BY <1>0 DEF TxnType
    <2> HIDE DEF r
    <2>4. FlagAndReward(r, "votes")
      BY <1>0, <1>4, <2>3 DEF FlagAndReward, Settling, CountComments
    <2> QED BY <1>4, <2>1, <2>2, <2>3, <2>4, QuietStep DEF CountComments, PCs
  <1>5. CASE FlagComment(t)
    <2> DEFINE r == [txn[t] EXCEPT !.flagged = {txn[t].comment}]
    <2>1. txn' = [txn EXCEPT ![t] = r] /\ pc' = [pc EXCEPT ![t] = "creator"]
      BY <1>5, Zenon DEF FlagComment
    <2>2. r \in TxnType
      <3>1. txn'[t] = r
        BY <1>0, <2>1 DEF TypeOK
      <3> QED BY <1>0, <3>1
    <2>3. /\ r.locked = txn[t].locked /\ r.new = txn[t].new /\ r.log = txn[t].log
          /\ r.rewarded = txn[t].rewarded /\ r.comment = txn[t].comment /\ r.flagged = {txn[t].comment}
      BY <1>0 DEF TxnType
    <2> HIDE DEF r
    <2>4. FlagAndReward(r, "creator")
      BY <1>0, <1>5, <2>3 DEF FlagAndReward, Settling, FlagComment
    <2> QED BY <1>5, <2>1, <2>2, <2>3, <2>4, QuietStep DEF FlagComment, PCs
  <1>6. CASE ReadCompetitors(t)
    <2>0. PICK order \in SetToSeqs(Competitors(t)) :
              txn' = [txn EXCEPT ![t].competitors = order]
      BY <1>6 DEF ReadCompetitors
    <2> DEFINE r == [txn[t] EXCEPT !.competitors = order]
    <2>1. txn' = [txn EXCEPT ![t] = r] /\ pc' = [pc EXCEPT ![t] = "penalise"]
      BY <1>6, <2>0, Zenon DEF ReadCompetitors
    <2>2. r \in TxnType
      <3>1. txn'[t] = r
        BY <1>0, <2>1 DEF TypeOK
      <3> QED BY <1>0, <3>1
    <2>3. /\ r.locked = txn[t].locked /\ r.new = txn[t].new /\ r.log = txn[t].log
          /\ r.rewarded = txn[t].rewarded /\ r.comment = txn[t].comment /\ r.flagged = txn[t].flagged
      BY <1>0 DEF TxnType
    <2> HIDE DEF r
    <2>4. FlagAndReward(r, "penalise")
      BY <1>0, <1>6, <2>3 DEF FlagAndReward, Settling, ReadCompetitors
    <2> QED BY <1>6, <2>1, <2>2, <2>3, <2>4, QuietStep DEF ReadCompetitors, PCs
  <1>7. CASE UpdateArgument(t)
    <2> DEFINE r == [txn[t] EXCEPT !.scored = {Argument(t)}]
    <2>1. txn' = [txn EXCEPT ![t] = r] /\ pc' = [pc EXCEPT ![t] = "commit"]
      BY <1>7, Zenon DEF UpdateArgument
    <2>2. r \in TxnType
      <3>1. txn'[t] = r
        BY <1>0, <2>1 DEF TypeOK
      <3> QED BY <1>0, <3>1
    <2>3. /\ r.locked = txn[t].locked /\ r.new = txn[t].new /\ r.log = txn[t].log
          /\ r.rewarded = txn[t].rewarded /\ r.comment = txn[t].comment /\ r.flagged = txn[t].flagged
      BY <1>0 DEF TxnType
    <2> HIDE DEF r
    <2>4. FlagAndReward(r, "commit")
      BY <1>0, <1>7, <2>3 DEF FlagAndReward, Settling, UpdateArgument
    <2> QED BY <1>7, <2>1, <2>2, <2>3, <2>4, QuietStep DEF UpdateArgument, PCs
  <1>8. CASE CountVotes(t)
    <2>1. /\ pc[t] = "votes" /\ txn' = [txn EXCEPT ![t] = txn[t]]
          /\ UNCHANGED <<score, ledger, triggered, wins, paid>>
      BY <1>0, <1>8 DEF CountVotes, TypeOK
    <2>2. FlagAndReward(txn[t], "flag") /\ FlagAndReward(txn[t], "argscore")
      BY <1>0, <2>1 DEF FlagAndReward, Settling
    <2>3. CASE pc' = [pc EXCEPT ![t] = "flag"]
      BY <1>0, <2>1, <2>2, <2>3, QuietStep DEF PCs
    <2>4. CASE pc' = [pc EXCEPT ![t] = "argscore"]
      BY <1>0, <2>1, <2>2, <2>4, QuietStep DEF PCs
    <2> QED BY <1>8, <2>3, <2>4 DEF CountVotes
  <1>9. CASE PenaliseCreator(t)
    <2> DEFINE u == Creator[Argument(t)]
               p == CalculateCreatorPenalty(Sees(t, u))
               r == Penalised(txn[t], u, Sees(t, u), p)
    <2>1. txn' = [txn EXCEPT ![t] = r] /\ pc' = [pc EXCEPT ![t] = "competitors"]
      BY <1>9, Zenon DEF PenaliseCreator
    <2>2. u \in Users /\ ForUpdateBlockers(t, u) = {} /\ pc[t] = "creator"
      BY <1>0, <1>9, TxnFacts DEF PenaliseCreator
    <2>3. p \in 0..Sees(t, u) /\ Sees(t, u) \in Int
      BY <2>2, SeesNat, PenaltyBounds
    <2>4. p \in Int
      BY <2>3
    <2> HIDE DEF u, p
    <2>5. r \in TxnType
      BY <1>0, <2>2, <2>3, <2>4, PenalisedType
    <2>6. /\ r.locked = txn[t].locked \union {u}
          /\ r.new = [txn[t].new EXCEPT ![u] = Deduct(Sees(t, u), p)]
          /\ r.log = [txn[t].log EXCEPT ![u] = @ - p]
          /\ r.rewarded = txn[t].rewarded /\ r.flagged = txn[t].flagged
          /\ r.comment = txn[t].comment
      BY <1>0, <2>2, <2>3, <2>4 DEF Penalised, TxnType
    <2> HIDE DEF r
    <2>7. "competitors" \in Settling /\ pc[t] \in Settling
      BY <2>2 DEF Settling
    <2>8. UNCHANGED <<score, ledger, triggered, wins, paid>>
      BY <1>9 DEF PenaliseCreator, KeepDb, dbVars
    <2> QED BY <1>0, <2>1, <2>2, <2>3, <2>5, <2>6, <2>7, <2>8, PenaltyStep
  <1>10. CASE PenaliseCompetitor(t)
    <2> DEFINE u == Head(txn[t].competitors)
               p == CalculateCompetitorPenalty(Sees(t, u))
               q == Penalised(txn[t], u, Sees(t, u), p)
               r == [q EXCEPT !.competitors = Tail(txn[t].competitors)]
    <2>1. txn' = [txn EXCEPT ![t] = r]
      BY <1>10, Zenon DEF PenaliseCompetitor
    <2>2. pc' = [pc EXCEPT ![t] = "penalise"] /\ pc[t] = "penalise"
      BY <1>0, <1>10 DEF PenaliseCompetitor, TypeOK
    <2>3. txn[t].competitors \in Seq(Users) /\ txn[t].competitors # <<>>
      BY <1>0, <1>10, TxnFacts DEF PenaliseCompetitor
    <2>4. u \in Users /\ ForUpdateBlockers(t, u) = {}
      BY <1>10, <2>3 DEF PenaliseCompetitor
    <2>5. p \in 0..Sees(t, u) /\ Sees(t, u) \in Int /\ p \in Int
      BY <2>4, SeesNat, PenaltyBounds
    <2> HIDE DEF u, p
    <2>6. q \in TxnType
      BY <1>0, <2>4, <2>5, PenalisedType
    <2>7. /\ q.locked = txn[t].locked \union {u}
          /\ q.new = [txn[t].new EXCEPT ![u] = Deduct(Sees(t, u), p)]
          /\ q.log = [txn[t].log EXCEPT ![u] = @ - p]
          /\ q.rewarded = txn[t].rewarded /\ q.flagged = txn[t].flagged
          /\ q.comment = txn[t].comment
      BY <1>0, <2>4, <2>5 DEF Penalised, TxnType
    <2> HIDE DEF q
    <2>8. /\ r.locked = q.locked /\ r.new = q.new /\ r.log = q.log
          /\ r.rewarded = q.rewarded /\ r.flagged = q.flagged /\ r.comment = q.comment
      BY <2>6 DEF TxnType
    <2>9. r \in TxnType
      <3>1. txn'[t] = r
        BY <1>0, <2>1 DEF TypeOK
      <3> QED BY <1>0, <3>1
    <2> HIDE DEF r
    <2>10. /\ r.locked = txn[t].locked \union {u}
           /\ r.new = [txn[t].new EXCEPT ![u] = Deduct(Sees(t, u), p)]
           /\ r.log = [txn[t].log EXCEPT ![u] = @ - p]
           /\ r.rewarded = txn[t].rewarded /\ r.flagged = txn[t].flagged
           /\ r.comment = txn[t].comment
      BY <2>7, <2>8
    <2>11. UNCHANGED <<score, ledger, triggered, wins, paid>>
      BY <1>10 DEF PenaliseCompetitor
    <2>12. "penalise" \in Settling
      BY DEF Settling
    <2> QED
      BY <2>1, <2>2, <2>4, <2>5, <2>9, <2>10, <2>11, <2>12, PenaltyStep
  <1>11. CASE RewardWinner(t)
    <2> DEFINE u == Winner(t)
               r1 == [txn[t] EXCEPT !.locked = @ \union {u}]
               r2 == [r1 EXCEPT !.new = [txn[t].new EXCEPT ![u] = Sees(t, u) + Reward]]
               r == [r2 EXCEPT !.rewarded = {u}]
    <2>1. txn' = [txn EXCEPT ![t] = r] /\ pc' = [pc EXCEPT ![t] = "argscore"]
      BY <1>11, Zenon DEF RewardWinner
    <2>2. u \in Users /\ NoKeyUpdateBlockers(t, u) = {} /\ pc[t] = "penalise"
      BY <1>0, <1>11, TxnFacts DEF RewardWinner
    <2>3. r \in TxnType
      <3>1. txn'[t] = r
        BY <1>0, <2>1 DEF TypeOK
      <3> QED BY <1>0, <3>1
    <2>4. /\ r.locked = txn[t].locked \union {u}
          /\ r.new = [txn[t].new EXCEPT ![u] = Sees(t, u) + Reward]
          /\ r.log = txn[t].log /\ r.rewarded = {u}
          /\ r.flagged = txn[t].flagged /\ r.comment = txn[t].comment
      BY <1>0 DEF TxnType
    <2>5. txn[t].flagged # {} /\ txn[t].rewarded = {} /\ u = Author[txn[t].comment]
      BY <1>0, <2>2 DEF FlagAndReward, Settling, Winner
    <2> HIDE DEF r, u
    <2>6. \A o \in Others(t) : r.locked \intersect txn[o].locked = {}
      BY <2>2, <2>4 DEF IInv, Exclusive, NoKeyUpdateBlockers
    <2>7. ASSUME NEW x \in Users PROVE Holds(r, x)
      <3>1. Holds(txn[t], x) /\ Sees(t, x) \in Nat
        BY SeesNat DEF IInv
      <3>2. txn[t].new \in [Users -> Int] /\ txn[t].log \in [Users -> Int] /\ score[x] \in Int
        BY <1>0, TxnFacts DEF TypeOK
      <3>3. CASE x = u
        <4>1. r.new[x] = Sees(t, x) + Reward /\ x \in r.locked /\ r.log[x] = txn[t].log[x]
          BY <2>2, <2>4, <3>2, <3>3
        <4>2. Sees(t, x) = score[x] + txn[t].log[x]
          BY <2>5, <3>1, <3>2 DEF Holds, Sees, Bonus
        <4> QED BY <2>4, <3>1, <3>2, <3>3, <4>1, <4>2 DEF Holds, Bonus, Reward
      <3>4. CASE x # u
        <4>1. r.new[x] = txn[t].new[x] /\ (x \in r.locked <=> x \in txn[t].locked)
          BY <2>2, <2>4, <3>2, <3>4
        <4> QED BY <2>4, <2>5, <3>1, <3>4, <4>1 DEF Holds, Bonus
      <3> QED BY <3>3, <3>4
    <2>8. FlagAndReward(r, "argscore")
      BY <1>0, <2>4, <2>5 DEF FlagAndReward, Settling
    <2> QED
      BY <1>11, <2>1, <2>3, <2>6, <2>7, <2>8, TxnStep DEF RewardWinner, PCs
  <1>12. CASE Rollback(t)
    <2>1. \A x \in Users : Holds(Blank, x)
      BY FreshHolds, ConstantsAssumption DEF Blank
    <2>2. Blank.locked = {} /\ Blank.flagged = {} /\ Blank.rewarded = {}
      BY FreshHolds, ConstantsAssumption DEF Blank
    <2>3. FlagAndReward(Blank, "idle")
      BY <2>2 DEF FlagAndReward, Settling
    <2> QED
      BY <1>12, <2>1, <2>2, <2>3, BlankType, TxnStep DEF Rollback, PCs
  <1>13. CASE Commit(t)
    BY <1>13, CommitStep
  <1> QED
    BY <1>1, <1>2, <1>3, <1>4, <1>5, <1>6, <1>7, <1>8, <1>9, <1>10, <1>11, <1>12, <1>13
    DEF Step, InsertRefused

LEMMA InvNext == IInv /\ [Next]_vars => IInv'
  <1> SUFFICES ASSUME IInv, [Next]_vars PROVE IInv'
    OBVIOUS
  <1>1. TypeOK'
    BY TypeStep DEF IInv
  <1>2. ASSUME NEW t \in Txs, NEW u \in Users, NEW c \in Comments, ReadComment(t, u, c)
        PROVE  IInv'
    <2>1. CASE UNCHANGED <<pc, txn>>
      BY <1>1, <1>2, <2>1, InvStutter DEF ReadComment, dbVars
    <2>2. CASE ~UNCHANGED <<pc, txn>>
      <3> DEFINE r == Fresh(u, c, triggered[c])
      <3>1. txn' = [txn EXCEPT ![t] = r] /\ pc' = [pc EXCEPT ![t] = "exists"]
        BY <1>2, <2>2 DEF ReadComment, Goto
      <3>2. triggered[c] \in BOOLEAN
        BY DEF IInv, TypeOK
      <3>3. r \in TxnType /\ (\A x \in Users : Holds(r, x))
            /\ r.locked = {} /\ r.flagged = {} /\ r.rewarded = {}
        BY <3>2, FreshType, FreshHolds
      <3> HIDE DEF r
      <3>4. FlagAndReward(r, "exists")
        BY <3>3 DEF FlagAndReward, Settling
      <3> QED
        BY <1>1, <1>2, <3>1, <3>3, <3>4, TxnStep DEF ReadComment, dbVars, PCs
    <2> QED BY <2>1, <2>2
  <1>3. ASSUME NEW t \in Txs, Step(t) \/ Abort(t) \/ DeadlockVictim(t)
        PROVE  IInv'
    BY <1>1, <1>3, InvStep DEF Abort, DeadlockVictim
  <1>4. ASSUME NEW t \in Txs, NEW c \in Comments, PostComment(t, c)
        PROVE  IInv'
    BY <1>1, <1>4, InvStutter DEF PostComment
  <1>5. CASE UNCHANGED vars
    BY <1>1, <1>5, InvStutter DEF vars
  <1> QED
    BY <1>2, <1>3, <1>4, <1>5 DEF Next

LEMMA InvAlways == Spec => []IInv
  BY InvInit, InvNext, PTL DEF Spec

\* Whatever the handlers' interleaving and whatever aborts, every balance is
\* the initial one plus the logged penalties plus the rewards.
THEOREM LedgerAlwaysReconciles == Spec => []LedgerReconciles
  <1>1. IInv => LedgerReconciles
    BY DEF IInv
  <1> QED BY <1>1, InvAlways, PTL

\* No balance is ever negative.
THEOREM ScoresNeverNegative == Spec => []NonNegative
  <1>1. IInv => NonNegative
    BY DEF IInv
  <1> QED BY <1>1, InvAlways, PTL

\* A comment is flagged exactly if its author was paid.
THEOREM ConsensusAllOrNothing == Spec => []AllOrNothing
  <1>1. IInv => AllOrNothing
    BY DEF IInv
  <1> QED BY <1>1, InvAlways, PTL

-----------------------------------------------------------------------------
(* How often a comment is paid.  The flag is read without a lock, so what   *)
(* bounds the payouts is who had read it in time.                          *)

\* Whoever settles, or has settled, read the comment before it was triggered.
Eligible ==
    \A t \in Txs :
        /\ pc[t] \in {"total", "votes", "flag"} \union Settling => ~txn[t].seenTriggered
        /\ txn[t].rewarded # {} => ~txn[t].seenTriggered /\ pc[t] # "idle"

PayInv == IInv /\ Eligible /\ PayoutsBounded

LEMMA ContendersFinite ==
    ASSUME NEW c
    PROVE  /\ IsFiniteSet(Contenders(c)) /\ IsFiniteSet(Txs)
           /\ Cardinality(Contenders(c)) \in Nat /\ Cardinality(Txs) \in Nat
           /\ Cardinality(Contenders(c)) <= Cardinality(Txs)
  <1>1. IsFiniteSet(Txs) /\ Contenders(c) \subseteq Txs
    BY ConstantsAssumption DEF Contenders
  <1> QED BY <1>1, FS_Subset, FS_CardinalityType

\* No other field of a transaction changes what it read of its comment.
LEMMA FieldKeeps ==
    ASSUME NEW r \in TxnType, NEW x
    PROVE  /\ [r EXCEPT !.exists = x].comment = r.comment
           /\ [r EXCEPT !.exists = x].seenTriggered = r.seenTriggered
           /\ [r EXCEPT !.exists = x].rewarded = r.rewarded
           /\ [r EXCEPT !.total = x].comment = r.comment
           /\ [r EXCEPT !.total = x].seenTriggered = r.seenTriggered
           /\ [r EXCEPT !.total = x].rewarded = r.rewarded
           /\ [r EXCEPT !.inserted = x].comment = r.comment
           /\ [r EXCEPT !.inserted = x].seenTriggered = r.seenTriggered
           /\ [r EXCEPT !.inserted = x].rewarded = r.rewarded
           /\ [r EXCEPT !.deleted = x].comment = r.comment
           /\ [r EXCEPT !.deleted = x].seenTriggered = r.seenTriggered
           /\ [r EXCEPT !.deleted = x].rewarded = r.rewarded
           /\ [r EXCEPT !.flagged = x].comment = r.comment
           /\ [r EXCEPT !.flagged = x].seenTriggered = r.seenTriggered
           /\ [r EXCEPT !.flagged = x].rewarded = r.rewarded
           /\ [r EXCEPT !.competitors = x].comment = r.comment
           /\ [r EXCEPT !.competitors = x].seenTriggered = r.seenTriggered
           /\ [r EXCEPT !.competitors = x].rewarded = r.rewarded
           /\ [r EXCEPT !.scored = x].comment = r.comment
           /\ [r EXCEPT !.scored = x].seenTriggered = r.seenTriggered
           /\ [r EXCEPT !.scored = x].rewarded = r.rewarded
  BY DEF TxnType

LEMMA PenalisedKeeps ==
    ASSUME NEW r \in TxnType, NEW u, NEW s, NEW p
    PROVE  /\ Penalised(r, u, s, p).comment = r.comment
           /\ Penalised(r, u, s, p).seenTriggered = r.seenTriggered
           /\ Penalised(r, u, s, p).rewarded = r.rewarded
  BY DEF Penalised, TxnType

\* t goes on to label with r, which has read the same.
Reads(t, r, label) ==
    /\ txn' = [txn EXCEPT ![t] = r] /\ pc' = [pc EXCEPT ![t] = label]
    /\ r.comment = txn[t].comment /\ r.seenTriggered = txn[t].seenTriggered

\* A transaction that goes on leaves the contenders as they are.
LEMMA GoesOn ==
    ASSUME PayInv, IInv', NEW t \in Txs, NEW r, NEW label, Reads(t, r, label),
           pc[t] # "idle", label # "idle", UNCHANGED <<triggered, wins>>,
           label \in {"total", "votes", "flag"} \union Settling => ~txn[t].seenTriggered,
           r.rewarded # {} => ~txn[t].seenTriggered
    PROVE  PayInv'
  <1>1. /\ txn \in [Txs -> TxnType] /\ pc \in [Txs -> PCs] /\ txn'[t] = r /\ pc'[t] = label
        /\ \A o \in Others(t) : txn'[o] = txn[o] /\ pc'[o] = pc[o]
    BY DEF PayInv, IInv, TypeOK, Others, Reads
  <1>2. Eligible'
    BY <1>1 DEF PayInv, Eligible, Others, Reads
  <1>3. ASSUME NEW c PROVE Contenders(c)' = Contenders(c)
    BY <1>1 DEF Contenders, Others, Reads
  <1>4. PayoutsBounded'
    BY <1>3 DEF PayInv, PayoutsBounded
  <1> QED BY <1>2, <1>4 DEF PayInv

\* So does one whose transaction ends without a commit, except that it is no
\* contender any more.
LEMMA GivesUp ==
    ASSUME PayInv, IInv', NEW t \in Txs, Rollback(t)
    PROVE  PayInv'
  <1>1. /\ txn \in [Txs -> TxnType] /\ pc \in [Txs -> PCs] /\ txn'[t] = Blank /\ pc'[t] = "idle"
        /\ \A o \in Others(t) : txn'[o] = txn[o] /\ pc'[o] = pc[o]
        /\ UNCHANGED <<triggered, wins>>
    BY DEF PayInv, IInv, TypeOK, Others, Rollback, Goto, KeepDb, dbVars
  <1>2. Blank.rewarded = {}
    BY FreshHolds, ConstantsAssumption DEF Blank
  <1>3. Eligible'
    BY <1>1, <1>2 DEF PayInv, Eligible, Others, Settling
  <1>4. ASSUME NEW c \in Comments, triggered'[c]
        PROVE  wins'[c] + Cardinality(Contenders(c)') <= Cardinality(Txs)
    <2>1. Contenders(c)' \subseteq Contenders(c)
      BY <1>1 DEF Contenders, Others
    <2>2. Cardinality(Contenders(c)') <= Cardinality(Contenders(c)) /\ Cardinality(Contenders(c)') \in Nat
      BY <2>1, ContendersFinite, FS_Subset, FS_CardinalityType
    <2>3. wins[c] + Cardinality(Contenders(c)) <= Cardinality(Txs) /\ wins'[c] = wins[c]
      BY <1>1, <1>4 DEF PayInv, PayoutsBounded
    <2>4. wins[c] \in Nat
      BY DEF PayInv, IInv, TypeOK
    <2> QED BY <2>2, <2>3, <2>4, ContendersFinite
  <1>5. PayoutsBounded'
    BY <1>4 DEF PayoutsBounded
  <1> QED BY <1>3, <1>5 DEF PayInv

\* Whoever begins on a triggered comment knows that it is.
LEMMA Begins ==
    ASSUME PayInv, IInv', NEW t \in Txs, NEW u \in Users, NEW c \in Comments, ReadComment(t, u, c)
    PROVE  PayInv'
  <1>1. CASE UNCHANGED <<pc, txn>>
    <2>1. UNCHANGED <<pc, txn, triggered, wins>>
      BY <1>1 DEF ReadComment, dbVars
    <2> QED BY <2>1 DEF PayInv, Eligible, PayoutsBounded, Contenders
  <1>2. CASE ~UNCHANGED <<pc, txn>>
    <2> DEFINE r == Fresh(u, c, triggered[c])
    <2>1. /\ txn' = [txn EXCEPT ![t] = r] /\ pc' = [pc EXCEPT ![t] = "exists"]
          /\ pc[t] = "idle" /\ UNCHANGED <<triggered, wins>>
      BY <1>2 DEF ReadComment, Goto, dbVars
    <2>2. r.rewarded = {} /\ r.seenTriggered = triggered[c] /\ r.comment = c
      BY DEF Fresh
    <2> HIDE DEF r
    <2>3. /\ txn \in [Txs -> TxnType] /\ pc \in [Txs -> PCs] /\ txn'[t] = r /\ pc'[t] = "exists"
          /\ \A o \in Others(t) : txn'[o] = txn[o] /\ pc'[o] = pc[o]
      BY <2>1 DEF PayInv, IInv, TypeOK, Others
    <2>4. Eligible'
      BY <2>2, <2>3 DEF PayInv, Eligible, Others, Settling
    <2>5. ASSUME NEW d \in Comments, triggered'[d] PROVE Contenders(d)' = Contenders(d)
      BY <2>1, <2>2, <2>3, <2>5 DEF Contenders, Others
    <2>6. PayoutsBounded'
      BY <2>1, <2>5 DEF PayInv, PayoutsBounded
    <2> QED BY <2>4, <2>6 DEF PayInv
  <1> QED BY <1>1, <1>2

\* A payout is one contender less.
LEMMA Pays ==
    ASSUME PayInv, IInv', NEW t \in Txs, Commit(t)
    PROVE  PayInv'
  <1>1. /\ txn \in [Txs -> TxnType] /\ pc \in [Txs -> PCs] /\ txn'[t] = Blank /\ pc'[t] = "idle"
        /\ \A o \in Others(t) : txn'[o] = txn[o] /\ pc'[o] = pc[o]
        /\ pc[t] = "commit" /\ wins \in [Comments -> Nat]
        /\ triggered' = [c \in Comments |-> triggered[c] \/ c \in txn[t].flagged]
        /\ wins' = IF txn[t].rewarded # {} THEN [wins EXCEPT ![txn[t].comment] = @ + 1] ELSE wins
    BY DEF PayInv, IInv, TypeOK, Others, Commit, Goto
  <1>2. Blank.rewarded = {}
    BY FreshHolds, ConstantsAssumption DEF Blank
  <1>3. Eligible'
    BY <1>1, <1>2 DEF PayInv, Eligible, Others, Settling
  <1>4. /\ txn[t].flagged \subseteq {txn[t].comment}
        /\ txn[t].flagged # {} <=> txn[t].rewarded # {}
    BY <1>1 DEF PayInv, IInv, FlagAndReward
  <1>5. ASSUME NEW c \in Comments, triggered'[c]
        PROVE  wins'[c] + Cardinality(Contenders(c)') <= Cardinality(Txs)
    <2>1. Contenders(c)' = Contenders(c) \ {t} /\ Contenders(c) \subseteq Txs
      BY <1>1 DEF Contenders, Others
    <2>2. /\ Cardinality(Contenders(c)) \in Nat /\ Cardinality(Txs) \in Nat /\ wins[c] \in Nat
          /\ Cardinality(Contenders(c)) <= Cardinality(Txs)
          /\ Cardinality(Contenders(c)') = IF t \in Contenders(c) THEN Cardinality(Contenders(c)) - 1
                                           ELSE Cardinality(Contenders(c))
      <3>1. /\ IsFiniteSet(Contenders(c)) /\ Cardinality(Contenders(c)) \in Nat
            /\ Cardinality(Txs) \in Nat /\ Cardinality(Contenders(c)) <= Cardinality(Txs)
        BY ContendersFinite
      <3>2. Cardinality(Contenders(c) \ {t}) = IF t \in Contenders(c)
                                              THEN Cardinality(Contenders(c)) - 1
                                              ELSE Cardinality(Contenders(c))
        BY <3>1, FS_RemoveElement
      <3>3. wins[c] \in Nat
        BY <1>1
      <3> QED BY <2>1, <3>1, <3>2, <3>3
    <2>3. CASE txn[t].rewarded # {} /\ c = txn[t].comment
      <3>1. t \in Contenders(c) /\ wins'[c] = wins[c] + 1
        BY <1>1, <2>3 DEF Contenders, PayInv, Eligible
      <3>2. CASE triggered[c]
        <4>1. wins[c] + Cardinality(Contenders(c)) <= Cardinality(Txs)
          BY <3>2 DEF PayInv, PayoutsBounded
        <4> QED BY <2>2, <3>1, <4>1
      <3>3. CASE ~triggered[c]
        <4>1. wins[c] = 0
          BY <2>2, <3>3 DEF PayInv, IInv, AllOrNothing
        <4> QED BY <2>2, <3>1, <4>1
      <3> QED BY <3>2, <3>3
    <2>4. CASE ~(txn[t].rewarded # {} /\ c = txn[t].comment)
      <3>1. wins'[c] = wins[c] /\ triggered[c]
        BY <1>1, <1>4, <1>5, <2>4
      <3>2. wins[c] + Cardinality(Contenders(c)) <= Cardinality(Txs)
        BY <3>1 DEF PayInv, PayoutsBounded
      <3> QED BY <2>2, <3>1, <3>2
    <2> QED BY <2>3, <2>4
  <1>6. PayoutsBounded'
    BY <1>5 DEF PayoutsBounded
  <1> QED BY <1>3, <1>6 DEF PayInv

LEMMA PayStep ==
    ASSUME PayInv, IInv', NEW t \in Txs, Step(t)
    PROVE  PayInv'
  <1> USE DEF Goto, KeepDb, dbVars
  <1>0. /\ txn[t] \in TxnType /\ TypeOK
        /\ pc[t] \in {"total", "votes", "flag"} \union Settling => ~txn[t].seenTriggered
        /\ txn[t].rewarded # {} => ~txn[t].seenTriggered
    BY TxnFacts DEF PayInv, IInv, Eligible
  <1>1. CASE ReadExists(t)
    <2> DEFINE r == [txn[t] EXCEPT !.exists = Row(t) \in reactions]
    <2>1. txn' = [txn EXCEPT ![t] = r] /\ pc' = [pc EXCEPT ![t] = "toggle"]
      BY <1>1, Zenon DEF ReadExists
    <2>2. r.comment = txn[t].comment /\ r.seenTriggered = txn[t].seenTriggered
          /\ r.rewarded = txn[t].rewarded
      BY <1>0, FieldKeeps, Zenon
    <2>3. pc[t] = "exists" /\ UNCHANGED <<triggered, wins>>
      BY <1>1 DEF ReadExists
    <2> HIDE DEF r
    <2> QED BY <1>0, <2>1, <2>2, <2>3, GoesOn DEF Reads, Settling
  <1>2. CASE Unfire(t)
    <2> DEFINE r == [txn[t] EXCEPT !.deleted = {Row(t)} \intersect reactions]
    <2>1. txn' = [txn EXCEPT ![t] = r] /\ pc' = [pc EXCEPT ![t] = "argscore"]
      BY <1>2, Zenon DEF Unfire
    <2>2. r.comment = txn[t].comment /\ r.seenTriggered = txn[t].seenTriggered
          /\ r.rewarded = txn[t].rewarded
      BY <1>0, FieldKeeps, Zenon
    <2>3. pc[t] = "toggle" /\ UNCHANGED <<triggered, wins>>
      BY <1>2 DEF Unfire
    <2> HIDE DEF r
    <2> QED BY <1>0, <2>1, <2>2, <2>3, GoesOn DEF Reads, Settling
  <1>3. CASE InsertFire(t)
    <2> DEFINE r == [txn[t] EXCEPT !.inserted = {Row(t)}]
               label == IF txn[t].seenTriggered THEN "argscore" ELSE "total"
    <2>1. txn' = [txn EXCEPT ![t] = r] /\ pc' = [pc EXCEPT ![t] = label]
      BY <1>3, Zenon DEF InsertFire
    <2>2. r.comment = txn[t].comment /\ r.seenTriggered = txn[t].seenTriggered
          /\ r.rewarded = txn[t].rewarded
      BY <1>0, FieldKeeps, Zenon
    <2>3. label # "idle" /\ (label \in {"total", "votes", "flag"} \union Settling => ~txn[t].seenTriggered)
      BY DEF Settling
    <2>4. pc[t] = "toggle" /\ UNCHANGED <<triggered, wins>>
      BY <1>3 DEF InsertFire
    <2> HIDE DEF r, label
    <2> QED BY <1>0, <2>1, <2>2, <2>3, <2>4, GoesOn DEF Reads
  <1>4. CASE InsertRefused(t)
    BY <1>4, GivesUp DEF InsertRefused
  <1>5. CASE CountComments(t)
    <2> DEFINE r == [txn[t] EXCEPT !.total = Cardinality(CommentsIn(Argument(t)))]
    <2>1. txn' = [txn EXCEPT ![t] = r] /\ pc' = [pc EXCEPT ![t] = "votes"]
      BY <1>5, Zenon DEF CountComments
    <2>2. r.comment = txn[t].comment /\ r.seenTriggered = txn[t].seenTriggered
          /\ r.rewarded = txn[t].rewarded
      BY <1>0, FieldKeeps, Zenon
    <2> HIDE DEF r
    <2> QED BY <1>0, <1>5, <2>1, <2>2, GoesOn DEF CountComments, Reads, Settling
  <1>6. CASE CountVotes(t)
    <2>1. pc[t] = "votes" /\ txn' = [txn EXCEPT ![t] = txn[t]] /\ UNCHANGED <<triggered, wins>>
      BY <1>0, <1>6 DEF CountVotes, TypeOK
    <2>2. pc' = [pc EXCEPT ![t] = "flag"] \/ pc' = [pc EXCEPT ![t] = "argscore"]
      BY <1>6 DEF CountVotes
    <2>3. CASE pc' = [pc EXCEPT ![t] = "flag"]
      BY <1>0, <2>1, <2>3, GoesOn DEF Reads
    <2>4. CASE pc' = [pc EXCEPT ![t] = "argscore"]
      BY <1>0, <2>1, <2>4, GoesOn DEF Reads
    <2> QED BY <2>2, <2>3, <2>4
  <1>7. CASE FlagComment(t)
    <2> DEFINE r == [txn[t] EXCEPT !.flagged = {txn[t].comment}]
    <2>1. txn' = [txn EXCEPT ![t] = r] /\ pc' = [pc EXCEPT ![t] = "creator"]
      BY <1>7, Zenon DEF FlagComment
    <2>2. r.comment = txn[t].comment /\ r.seenTriggered = txn[t].seenTriggered
          /\ r.rewarded = txn[t].rewarded
      BY <1>0, FieldKeeps, Zenon
    <2>3. pc[t] = "flag" /\ ~txn[t].seenTriggered /\ UNCHANGED <<triggered, wins>>
      BY <1>7 DEF FlagComment, PayInv, Eligible
    <2> HIDE DEF r
    <2> QED BY <1>0, <2>1, <2>2, <2>3, GoesOn DEF Reads
  <1>8. CASE PenaliseCreator(t)
    <2> DEFINE u == Creator[Argument(t)]
               r == Penalised(txn[t], u, Sees(t, u), CalculateCreatorPenalty(Sees(t, u)))
    <2>1. txn' = [txn EXCEPT ![t] = r] /\ pc' = [pc EXCEPT ![t] = "competitors"]
      BY <1>8, Zenon DEF PenaliseCreator
    <2>2. r.comment = txn[t].comment /\ r.seenTriggered = txn[t].seenTriggered
          /\ r.rewarded = txn[t].rewarded
      BY <1>0, PenalisedKeeps
    <2>3. pc[t] = "creator" /\ UNCHANGED <<triggered, wins>>
      BY <1>8 DEF PenaliseCreator
    <2> HIDE DEF r
    <2> QED BY <1>0, <2>1, <2>2, <2>3, GoesOn DEF Reads, Settling
  <1>9. CASE ReadCompetitors(t)
    <2>0. PICK order \in SetToSeqs(Competitors(t)) : txn' = [txn EXCEPT ![t].competitors = order]
      BY <1>9 DEF ReadCompetitors
    <2> DEFINE r == [txn[t] EXCEPT !.competitors = order]
    <2>1. txn' = [txn EXCEPT ![t] = r] /\ pc' = [pc EXCEPT ![t] = "penalise"]
      BY <1>9, <2>0, Zenon DEF ReadCompetitors
    <2>2. r.comment = txn[t].comment /\ r.seenTriggered = txn[t].seenTriggered
          /\ r.rewarded = txn[t].rewarded
      BY <1>0, FieldKeeps, Zenon
    <2>3. pc[t] = "competitors" /\ UNCHANGED <<triggered, wins>>
      BY <1>9 DEF ReadCompetitors
    <2> HIDE DEF r
    <2> QED BY <1>0, <2>1, <2>2, <2>3, GoesOn DEF Reads, Settling
  <1>10. CASE PenaliseCompetitor(t)
    <2> DEFINE u == Head(txn[t].competitors)
               q == Penalised(txn[t], u, Sees(t, u), CalculateCompetitorPenalty(Sees(t, u)))
               r == [q EXCEPT !.competitors = Tail(txn[t].competitors)]
    <2>1. txn' = [txn EXCEPT ![t] = r]
      BY <1>10, Zenon DEF PenaliseCompetitor
    <2>2. pc' = [pc EXCEPT ![t] = "penalise"] /\ pc[t] = "penalise" /\ UNCHANGED <<triggered, wins>>
      BY <1>0, <1>10 DEF PenaliseCompetitor, TypeOK
    <2>3. q.comment = txn[t].comment /\ q.seenTriggered = txn[t].seenTriggered
          /\ q.rewarded = txn[t].rewarded
      BY <1>0, PenalisedKeeps
    <2>4. q \in TxnType
      <3>1. txn[t].competitors \in Seq(Users) /\ txn[t].competitors # <<>>
        BY <1>0, <1>10, TxnFacts DEF PenaliseCompetitor
      <3>2. u \in Users
        BY <3>1
      <3>3. Sees(t, u) \in Int /\ CalculateCompetitorPenalty(Sees(t, u)) \in Int
        BY <1>0, <3>2, SeesType, PenaltyTypes
      <3> QED BY <1>0, <3>2, <3>3, PenalisedType
    <2>5. r.comment = txn[t].comment /\ r.seenTriggered = txn[t].seenTriggered
          /\ r.rewarded = txn[t].rewarded
      <3> HIDE DEF q
      <3> QED BY <2>3, <2>4, FieldKeeps
    <2> HIDE DEF r
    <2> QED BY <1>0, <2>1, <2>2, <2>5, GoesOn DEF Reads, Settling
  <1>11. CASE RewardWinner(t)
    <2> DEFINE u == Winner(t)
               r1 == [txn[t] EXCEPT !.locked = @ \union {u}]
               r2 == [r1 EXCEPT !.new = [txn[t].new EXCEPT ![u] = Sees(t, u) + Reward]]
               r == [r2 EXCEPT !.rewarded = {u}]
    <2>1. txn' = [txn EXCEPT ![t] = r] /\ pc' = [pc EXCEPT ![t] = "argscore"]
      BY <1>11, Zenon DEF RewardWinner
    <2>2. r.comment = txn[t].comment /\ r.seenTriggered = txn[t].seenTriggered
      BY <1>0 DEF TxnType
    <2>3. pc[t] = "penalise" /\ UNCHANGED <<triggered, wins>>
      BY <1>11 DEF RewardWinner
    <2>4. ~txn[t].seenTriggered
      BY <1>0, <2>3 DEF Settling
    <2> HIDE DEF r
    <2> QED BY <2>1, <2>2, <2>3, <2>4, GoesOn DEF Reads
  <1>12. CASE UpdateArgument(t)
    <2> DEFINE r == [txn[t] EXCEPT !.scored = {Argument(t)}]
    <2>1. txn' = [txn EXCEPT ![t] = r] /\ pc' = [pc EXCEPT ![t] = "commit"]
      BY <1>12, Zenon DEF UpdateArgument
    <2>2. r.comment = txn[t].comment /\ r.seenTriggered = txn[t].seenTriggered
          /\ r.rewarded = txn[t].rewarded
      BY <1>0, FieldKeeps, Zenon
    <2>3. pc[t] = "argscore" /\ UNCHANGED <<triggered, wins>>
      BY <1>12 DEF UpdateArgument
    <2> HIDE DEF r
    <2> QED BY <1>0, <2>1, <2>2, <2>3, GoesOn DEF Reads, Settling
  <1>13. CASE Commit(t)
    BY <1>13, Pays
  <1> QED
    BY <1>1, <1>2, <1>3, <1>4, <1>5, <1>6, <1>7, <1>8, <1>9, <1>10, <1>11, <1>12, <1>13 DEF Step

LEMMA PayNext ==
    ASSUME PayInv, IInv', [Next]_vars
    PROVE  PayInv'
  <1>1. ASSUME UNCHANGED <<pc, txn, triggered, wins>> PROVE PayInv'
    BY <1>1 DEF PayInv, Eligible, PayoutsBounded, Contenders
  <1>2. CASE UNCHANGED vars
    BY <1>1, <1>2 DEF vars
  <1>3. ASSUME NEW t \in Txs, NEW u \in Users, NEW c \in Comments, ReadComment(t, u, c)
        PROVE  PayInv'
    BY <1>3, Begins
  <1>4. ASSUME NEW t \in Txs, Step(t) \/ Abort(t) \/ DeadlockVictim(t) PROVE PayInv'
    BY <1>4, PayStep, GivesUp DEF Abort, DeadlockVictim
  <1>5. ASSUME NEW t \in Txs, NEW c \in Comments, PostComment(t, c) PROVE PayInv'
    BY <1>1, <1>5 DEF PostComment
  <1> QED BY <1>2, <1>3, <1>4, <1>5 DEF Next

LEMMA PayInit == Init => PayInv
  <1>1. ASSUME Init PROVE Eligible /\ PayoutsBounded
    <2>1. Blank.rewarded = {}
      BY FreshHolds, ConstantsAssumption DEF Blank
    <2> QED BY <1>1, <2>1 DEF Init, Eligible, PayoutsBounded, Settling
  <1> QED BY <1>1, InvInit DEF PayInv

\* For any number of handlers, a comment is paid at most once by each of those
\* that were running when it was first triggered: the missing lock on the flag
\* costs no more than that.
THEOREM PayoutsAreBounded == Spec => []PayoutsBounded
  <1>1. PayInv /\ [Next]_vars => PayInv'
    <2>1. PayInv => IInv
      BY DEF PayInv
    <2> QED BY <2>1, InvNext, PayNext
  <1>2. PayInv => PayoutsBounded
    BY DEF PayInv
  <1> QED BY PayInit, <1>1, <1>2, PTL DEF Spec

-----------------------------------------------------------------------------
(* A settlement is one atomic step.  The transaction reads, penalises and   *)
(* writes row by row; what makes that the settlement of the abstract        *)
(* specification is that each row it holds already has the balance the      *)
(* settlement leaves there, reckoned from the committed one.                *)

\* The users a settlement of c may hit, given the comments there are.
Rivals(c, rows) ==
    {Author[d] : d \in {x \in rows : ArgOf[x] = ArgOf[c]} \ {c}} \ {Author[c]}

\* The rivals a transaction has hit of those it saw: all but what is left of its
\* list, and in the end all.
Hit(r, label, seen) ==
    IF label = "penalise" THEN seen \ {r.competitors[i] : i \in 1..Len(r.competitors)}
    ELSE IF r.rewarded # {} THEN seen ELSE {}

\* Whether it has penalised the creator.
First(r, label) ==
    IF label \in {"competitors", "penalise"} \/ r.rewarded # {}
    THEN {Creator[ArgOf[r.comment]]} ELSE {}

\* Each row r holds has the balance the settlement leaves there so far, and no
\* rival is on the list twice.
Account(r, label, balance, seen) ==
    /\ r.locked = First(r, label) \union Hit(r, label, seen) \union r.rewarded
    /\ \A u \in r.locked :
         r.new[u] = Promise!Settled(balance[u], u \in First(r, label),
                                    u \in Hit(r, label, seen), u \in r.rewarded)
    /\ label = "penalise" =>
         /\ \A i \in 1..Len(r.competitors) : r.competitors[i] \in seen
         /\ \A i, j \in 1..Len(r.competitors) : r.competitors[i] = r.competitors[j] => i = j

\* What a transaction has done to the reactions, and that it settles only a fire.
Tale(r, label, rows, fires) ==
    /\ label # "idle" => r.comment \in rows /\ r.user # Author[r.comment]
    /\ r.inserted \union r.deleted \subseteq {<<r.comment, r.user>>}
    /\ r.inserted = {} \/ r.deleted = {}
    /\ r.inserted \intersect fires = {}
    /\ label \in {"idle", "exists", "toggle"} => r.inserted = {} /\ r.deleted = {}
    /\ label \in {"total", "votes", "flag"} \union Settling => r.inserted # {}
    /\ r.rewarded # {} => r.inserted # {}

\* The unique key of comment_reactions lets one transaction at a time insert a row.
OneInserts == \A t \in Txs : \A o \in Others(t) : txn[t].inserted \intersect txn[o].inserted = {}

SettleInv ==
    /\ IInv
    /\ OneInserts
    /\ \A t \in Txs : Tale(txn[t], pc[t], posted, reactions)
    /\ \A t \in Txs : \E seen \in SUBSET Rivals(txn[t].comment, posted) :
         Account(txn[t], pc[t], score, seen)

\* What each statement adds to a settlement.
LEMMA SettledSteps ==
    ASSUME NEW s \in Nat, NEW a \in BOOLEAN, NEW b \in BOOLEAN
    PROVE  /\ Promise!Settled(s, FALSE, FALSE, FALSE) = s
           /\ Promise!Settled(s, TRUE, FALSE, FALSE) = Deduct(s, CalculateCreatorPenalty(s))
           /\ Promise!Settled(s, a, TRUE, FALSE) =
                Deduct(Promise!Settled(s, a, FALSE, FALSE),
                       CalculateCompetitorPenalty(Promise!Settled(s, a, FALSE, FALSE)))
           /\ Promise!Settled(s, a, b, TRUE) = Promise!Settled(s, a, b, FALSE) + Reward
  <1>1. /\ \A x : Promise!CalculateCreatorPenalty(x) = CalculateCreatorPenalty(x)
        /\ \A x : Promise!CalculateCompetitorPenalty(x) = CalculateCompetitorPenalty(x)
    BY DEF CalculateCreatorPenalty, CalculateCompetitorPenalty, AtLeastOne, RoundPercent,
           Promise!CalculateCreatorPenalty, Promise!CalculateCompetitorPenalty,
           Promise!AtLeastOne, Promise!RoundPercent
  <1>2. \A x, p : Promise!Deduct(x, p) = Deduct(x, p)
    BY DEF Deduct, Promise!Deduct
  <1>3. Promise!Reward = Reward
    BY DEF Reward, Promise!Reward
  <1> QED BY <1>1, <1>2, <1>3 DEF Promise!Settled

LEMMA RivalsGrow ==
    ASSUME NEW c, NEW rows, NEW more, rows \subseteq more
    PROVE  Rivals(c, rows) \subseteq Rivals(c, more)
  BY DEF Rivals

\* What becomes of balances it does not hold does not disturb an account.
LEMMA AccountKeeps ==
    ASSUME NEW r, NEW label, NEW balance, NEW seen, Account(r, label, balance, seen),
           NEW after, \A u \in r.locked : after[u] = balance[u]
    PROVE  Account(r, label, after, seen)
  BY DEF Account

\* The promise lets a step that touches none of its variables pass.
PromiseVars == <<score, posted, triggered, reactions>>

\* A statement of t, which has seen those rivals, and keeps its account.
Continues(t, seen) ==
    /\ UNCHANGED <<score, posted, reactions>>
    /\ \A o \in Others(t) : /\ txn'[o] = txn[o] /\ pc'[o] = pc[o]
                            /\ txn'[t].inserted \intersect txn[o].inserted = {}
    /\ Tale(txn'[t], pc'[t], posted, reactions)
    /\ Account(txn'[t], pc'[t], score, seen)

LEMMA StatementStep ==
    ASSUME SettleInv, NEW t \in Txs, NEW r \in TxnType, NEW label \in PCs, NEW seen,
           txn' = [txn EXCEPT ![t] = r], pc' = [pc EXCEPT ![t] = label],
           UNCHANGED <<score, posted, reactions>>,
           \A o \in Others(t) : r.inserted \intersect txn[o].inserted = {},
           Tale(r, label, posted, reactions), Account(r, label, score, seen)
    PROVE  Continues(t, seen)
  <1>1. /\ txn \in [Txs -> TxnType] /\ pc \in [Txs -> PCs] /\ txn'[t] = r /\ pc'[t] = label
        /\ \A o \in Others(t) : txn'[o] = txn[o] /\ pc'[o] = pc[o]
    BY DEF SettleInv, IInv, TypeOK, Others
  <1> QED BY <1>1 DEF Continues

LEMMA ContinuesSettles ==
    ASSUME SettleInv, IInv', NEW t \in Txs, NEW seen \in SUBSET Rivals(txn'[t].comment, posted),
           Continues(t, seen)
    PROVE  SettleInv'
  <1>1. OneInserts'
    BY DEF SettleInv, OneInserts, Others, Continues
  <1>2. ASSUME NEW o \in Txs PROVE Tale(txn'[o], pc'[o], posted', reactions')
    BY DEF SettleInv, Others, Continues
  <1>3. ASSUME NEW o \in Txs
        PROVE  \E s \in SUBSET Rivals(txn'[o].comment, posted') :
                  Account(txn'[o], pc'[o], score', s)
    <2>1. CASE o = t
      BY <2>1 DEF Continues
    <2>2. CASE o # t
      BY <2>2 DEF SettleInv, Others, Continues
    <2> QED BY <2>1, <2>2
  <1> QED BY <1>1, <1>2, <1>3 DEF SettleInv

\* A statement that writes nothing into users or reactions.
Unsettled == {"idle", "exists", "toggle", "total", "votes", "flag", "creator", "argscore", "commit"}

LEMMA AccountSame ==
    ASSUME NEW r, NEW q, NEW l \in Unsettled, NEW m \in Unsettled, NEW balance, NEW seen,
           Account(r, l, balance, seen), q.comment = r.comment, q.locked = r.locked,
           q.new = r.new, q.rewarded = r.rewarded
    PROVE  Account(q, m, balance, seen)
  <1>1. ~(l \in {"competitors", "penalise"}) /\ ~(m \in {"competitors", "penalise"})
        /\ l # "penalise" /\ m # "penalise"
    BY DEF Unsettled
  <1>2. First(q, m) = First(r, l) /\ Hit(q, m, seen) = Hit(r, l, seen)
    BY <1>1 DEF First, Hit
  <1> QED BY <1>1, <1>2 DEF Account

LEMMA ReadStep ==
    ASSUME SettleInv, NEW t \in Txs, NEW r \in TxnType, NEW label \in PCs \intersect Unsettled,
           NEW seen, Account(txn[t], pc[t], score, seen),
           txn' = [txn EXCEPT ![t] = r], pc' = [pc EXCEPT ![t] = label],
           UNCHANGED <<score, posted, reactions>>,
           pc[t] \in Unsettled, pc[t] # "idle",
           label \in {"idle", "exists", "toggle"} => pc[t] \in {"exists", "toggle"},
           label \in {"total", "votes", "flag"} \union Settling =>
               pc[t] \in {"total", "votes", "flag"} \union Settling,
           r.comment = txn[t].comment, r.user = txn[t].user, r.inserted = txn[t].inserted,
           r.deleted = txn[t].deleted, r.locked = txn[t].locked, r.new = txn[t].new,
           r.rewarded = txn[t].rewarded
    PROVE  Continues(t, seen)
  <1>1. Account(r, label, score, seen)
    BY AccountSame
  <1>2. Tale(r, label, posted, reactions)
    <2>1. Tale(txn[t], pc[t], posted, reactions)
      BY DEF SettleInv
    <2> QED BY <2>1 DEF Tale
  <1>3. \A o \in Others(t) : r.inserted \intersect txn[o].inserted = {}
    BY DEF SettleInv, OneInserts
  <1> QED BY <1>1, <1>2, <1>3, StatementStep

\* A transaction without a lock has nothing to settle.
LEMMA AccountEmpty ==
    ASSUME NEW r, NEW m \in Unsettled, NEW balance, NEW seen, r.locked = {}, r.rewarded = {}
    PROVE  Account(r, m, balance, seen)
  BY DEF Account, First, Hit, Unsettled

\* Before the creator's row a transaction has locked no user's.
LEMMA NothingLocked ==
    ASSUME NEW r, NEW m \in Unsettled, NEW balance, NEW seen, r.rewarded = {},
           Account(r, m, balance, seen)
    PROVE  r.locked = {}
  BY DEF Account, First, Hit, Unsettled

\* A handler that has read its comment, and one that is through.
LEMMA FreshTale ==
    ASSUME NEW u \in Users, NEW c \in Comments, NEW b \in BOOLEAN, NEW rows, NEW fires, NEW balance, NEW seen
    PROVE  /\ Tale(Fresh(u, c, b), "idle", rows, fires)
           /\ c \in rows /\ u # Author[c] => Tale(Fresh(u, c, b), "exists", rows, fires)
           /\ Account(Fresh(u, c, b), "idle", balance, seen)
           /\ Account(Fresh(u, c, b), "exists", balance, seen)
           /\ Fresh(u, c, b).inserted = {}
  <1> DEFINE r == Fresh(u, c, b)
  <1>1. /\ r.inserted = {} /\ r.deleted = {} /\ r.locked = {} /\ r.rewarded = {}
        /\ r.comment = c /\ r.user = u
    BY DEF Fresh
  <1> HIDE DEF r
  <1>2. Account(r, "idle", balance, seen) /\ Account(r, "exists", balance, seen)
    BY <1>1, AccountEmpty DEF Unsettled
  <1>3. /\ Tale(r, "idle", rows, fires)
        /\ c \in rows /\ u # Author[c] => Tale(r, "exists", rows, fires)
    BY <1>1 DEF Tale, Settling
  <1> QED BY <1>1, <1>2, <1>3 DEF r

LEMMA RollbackSettles ==
    ASSUME SettleInv, NEW t \in Txs, Rollback(t), NEW seen
    PROVE  Continues(t, seen)
  <1>1. /\ txn' = [txn EXCEPT ![t] = Blank] /\ pc' = [pc EXCEPT ![t] = "idle"]
        /\ UNCHANGED <<score, posted, reactions>>
    BY DEF Rollback, Goto, KeepDb, dbVars
  <1>2. /\ Tale(Blank, "idle", posted, reactions) /\ Account(Blank, "idle", score, seen)
        /\ Blank.inserted = {}
    BY FreshTale, ConstantsAssumption DEF Blank
  <1> QED BY <1>1, <1>2, BlankType, StatementStep DEF PCs

LEMMA PenalisedRest ==
    ASSUME NEW r \in TxnType, NEW u \in Users, NEW s, NEW p
    PROVE  LET q == Penalised(r, u, s, p)
           IN  /\ q.comment = r.comment /\ q.user = r.user /\ q.rewarded = r.rewarded
               /\ q.inserted = r.inserted /\ q.deleted = r.deleted
               /\ q.competitors = r.competitors
               /\ q.locked = r.locked \union {u}
               /\ q.new[u] = Deduct(s, p)
               /\ \A x \in Users : x # u => q.new[x] = r.new[x]
  BY DEF Penalised, TxnType

\* What is known of a transaction that settles.
LEMMA SettlingFacts ==
    ASSUME SettleInv, NEW t \in Txs, pc[t] \in Settling
    PROVE  /\ txn[t].rewarded = {} /\ txn[t].inserted # {}
           /\ txn[t].comment \in posted /\ txn[t].user # Author[txn[t].comment]
           /\ Tale(txn[t], pc[t], posted, reactions)
           /\ \A o \in Others(t) : txn[t].inserted \intersect txn[o].inserted = {}
           /\ \A q, m : /\ m \in Settling \union {"argscore"}
                        /\ q.comment = txn[t].comment /\ q.user = txn[t].user
                        /\ q.inserted = txn[t].inserted /\ q.deleted = txn[t].deleted
                        => Tale(q, m, posted, reactions)
  BY DEF SettleInv, IInv, FlagAndReward, Tale, OneInserts, Settling

LEMMA CreatorSettles ==
    ASSUME SettleInv, IInv', NEW t \in Txs, PenaliseCreator(t),
           NEW seen \in SUBSET Rivals(txn[t].comment, posted),
           Account(txn[t], pc[t], score, seen)
    PROVE  Continues(t, seen)
  <1> DEFINE u == Creator[Argument(t)]
             p == CalculateCreatorPenalty(Sees(t, u))
             r == Penalised(txn[t], u, Sees(t, u), p)
  <1>0. TypeOK /\ txn[t] \in TxnType /\ u \in Users /\ u = Creator[ArgOf[txn[t].comment]]
    BY TxnFacts DEF SettleInv, IInv, Argument
  <1>1. /\ txn' = [txn EXCEPT ![t] = r] /\ pc' = [pc EXCEPT ![t] = "competitors"]
        /\ pc[t] = "creator"
    BY Zenon DEF PenaliseCreator, Goto
  <1>2. UNCHANGED <<score, posted, reactions>>
    BY DEF PenaliseCreator, KeepDb, dbVars
  <1>3. r \in TxnType
    <2>1. txn'[t] = r
      BY <1>0, <1>1 DEF TypeOK
    <2> QED BY <2>1 DEF IInv, TypeOK
  <1>4. txn[t].rewarded = {} /\ Account(txn[t], "creator", score, seen)
    BY <1>1, SettlingFacts DEF Settling
  <1>5. txn[t].locked = {}
    BY <1>4, NothingLocked DEF Unsettled
  <1>6. Sees(t, u) = score[u] /\ score[u] \in Nat
    BY <1>0, <1>5, SeesNat DEF Sees, SettleInv
  <1>7. /\ r.comment = txn[t].comment /\ r.user = txn[t].user /\ r.rewarded = {}
        /\ r.inserted = txn[t].inserted /\ r.deleted = txn[t].deleted
        /\ r.locked = {u} /\ r.new[u] = Deduct(score[u], CalculateCreatorPenalty(score[u]))
    <2>1. p = CalculateCreatorPenalty(score[u])
      BY <1>6
    <2> HIDE DEF u, p
    <2>2. /\ r.comment = txn[t].comment /\ r.user = txn[t].user /\ r.rewarded = txn[t].rewarded
          /\ r.inserted = txn[t].inserted /\ r.deleted = txn[t].deleted
          /\ r.locked = txn[t].locked \union {u} /\ r.new[u] = Deduct(Sees(t, u), p)
      BY <1>0, PenalisedRest
    <2> QED BY <1>4, <1>5, <1>6, <2>1, <2>2
  <1> HIDE DEF r
  <1>8. r.new[u] = Promise!Settled(score[u], TRUE, FALSE, FALSE)
    BY <1>6, <1>7, SettledSteps
  <1> HIDE DEF u
  <1>9. Account(r, "competitors", score, seen)
    <2>1. First(r, "competitors") = {u} /\ Hit(r, "competitors", seen) = {}
      BY <1>0, <1>7 DEF First, Hit
    <2>2. \A x \in r.locked : r.new[x] =
                Promise!Settled(score[x], x \in {u}, x \in {}, x \in r.rewarded)
      <3>1. (u \in {u}) = TRUE /\ (u \in {}) = FALSE /\ (u \in r.rewarded) = FALSE
        BY <1>7
      <3> QED BY <1>7, <1>8, <3>1
    <2> QED BY <1>7, <2>1, <2>2 DEF Account
  <1>10. Tale(r, "competitors", posted, reactions)
    BY <1>1, <1>7, SettlingFacts DEF Settling
  <1>11. \A o \in Others(t) : r.inserted \intersect txn[o].inserted = {}
    BY <1>1, <1>7, SettlingFacts DEF Settling
  <1> QED BY <1>1, <1>2, <1>3, <1>9, <1>10, <1>11, StatementStep DEF PCs

\* The list of competitors has every rival once.
LEMMA OrderFacts ==
    ASSUME TypeOK, NEW t \in Txs, NEW order \in SetToSeqs(Competitors(t))
    PROVE  /\ \A i \in 1..Len(order) : order[i] \in Rivals(txn[t].comment, posted)
           /\ \A i, j \in 1..Len(order) : order[i] = order[j] => i = j
           /\ {order[i] : i \in 1..Len(order)} = Rivals(txn[t].comment, posted)
  <1>1. Competitors(t) = Rivals(txn[t].comment, posted)
    BY DEF Competitors, Rivals, CommentsIn, Argument, Winner
  <1>2. Competitors(t) \subseteq Users
    BY ConstantsAssumption DEF Competitors, CommentsIn, TypeOK
  <1>3. Cardinality(Competitors(t)) \in Nat
    BY <1>2, FS_Subset, FS_CardinalityType, ConstantsAssumption
  <1> DEFINE n == Cardinality(Competitors(t))
  <1>4. /\ order \in [1..n -> Competitors(t)]
        /\ \A i, j \in 1..n : i # j => order[i] # order[j]
    BY DEF SetToSeqs
  <1>5. order \in Seq(Competitors(t)) /\ Len(order) = n
    <2> HIDE DEF n
    <2>1. n \in Nat
      BY <1>3 DEF n
    <2> QED BY <1>4, <2>1
  <1> DEFINE S == Competitors(t)
             T == {order[i] : i \in 1..n}
  <1>6. T = S
    <2>1. IsFiniteSet(S) /\ T \subseteq S
      BY <1>2, <1>4, FS_Subset, ConstantsAssumption
    <2>2. Cardinality(T) = n
      <3> DEFINE f == [i \in 1..n |-> order[i]]
      <3> HIDE DEF n
      <3>1. n \in Nat
        BY <1>3 DEF n
      <3>2. IsFiniteSet(1..n) /\ Cardinality(1..n) = n
        BY <3>1, FS_Interval
      <3>3. f \in Bijection(1..n, T)
        BY <1>4 DEF Bijection, Injection, Surjection, IsInjective
      <3> HIDE DEF f, T
      <3> QED BY <3>2, <3>3, FS_Bijection DEF ExistsBijection
    <2> HIDE DEF S, T
    <2>3. Cardinality(S) = n
      BY DEF S
    <2> QED BY <2>1, <2>2, <2>3, FS_Subset
  <1> QED BY <1>1, <1>4, <1>5, <1>6

LEMMA CompetitorsSettle ==
    ASSUME SettleInv, IInv', NEW t \in Txs, ReadCompetitors(t), NEW seen,
           Account(txn[t], pc[t], score, seen)
    PROVE  Continues(t, Rivals(txn[t].comment, posted))
  <1>0. TypeOK /\ txn[t] \in TxnType
    BY TxnFacts DEF SettleInv, IInv
  <1>p. PICK order \in SetToSeqs(Competitors(t)) : txn' = [txn EXCEPT ![t].competitors = order]
    BY DEF ReadCompetitors
  <1> DEFINE r == [txn[t] EXCEPT !.competitors = order]
  <1>1. txn' = [txn EXCEPT ![t] = r] /\ pc' = [pc EXCEPT ![t] = "penalise"] /\ pc[t] = "competitors"
    BY <1>p, Zenon DEF ReadCompetitors, Goto
  <1>2. UNCHANGED <<score, posted, reactions>>
    BY DEF ReadCompetitors, KeepDb, dbVars
  <1>3. r \in TxnType
    <2>1. txn'[t] = r
      BY <1>0, <1>1 DEF TypeOK
    <2> QED BY <2>1 DEF IInv, TypeOK
  <1>4. txn[t].rewarded = {} /\ Account(txn[t], "competitors", score, seen)
    BY <1>1, SettlingFacts DEF Settling
  <1>5. /\ r.comment = txn[t].comment /\ r.user = txn[t].user /\ r.rewarded = txn[t].rewarded
        /\ r.inserted = txn[t].inserted /\ r.deleted = txn[t].deleted
        /\ r.locked = txn[t].locked /\ r.new = txn[t].new /\ r.competitors = order
    BY <1>0 DEF TxnType
  <1> HIDE DEF r
  <1> DEFINE rivals == Rivals(txn[t].comment, posted)
  <1>6. /\ \A i \in 1..Len(order) : order[i] \in rivals
        /\ \A i, j \in 1..Len(order) : order[i] = order[j] => i = j
        /\ {order[i] : i \in 1..Len(order)} = rivals
    BY <1>0, OrderFacts
  <1>7. Account(r, "penalise", score, rivals)
    <2>1. /\ First(r, "penalise") = First(txn[t], "competitors")
          /\ Hit(r, "penalise", rivals) = {} /\ Hit(txn[t], "competitors", seen) = {}
      BY <1>4, <1>5, <1>6 DEF First, Hit
    <2> HIDE DEF rivals
    <2> QED BY <1>4, <1>5, <1>6, <2>1 DEF Account
  <1>8. /\ Tale(r, "penalise", posted, reactions)
        /\ \A o \in Others(t) : r.inserted \intersect txn[o].inserted = {}
    BY <1>1, <1>5, SettlingFacts DEF Settling
  <1> QED BY <1>1, <1>2, <1>3, <1>7, <1>8, StatementStep DEF PCs

\* A competitor's row: the rivals hit are one more, and the list one shorter.
LEMMA CompetitorSettles ==
    ASSUME SettleInv, IInv', NEW t \in Txs, PenaliseCompetitor(t),
           NEW seen \in SUBSET Rivals(txn[t].comment, posted),
           Account(txn[t], pc[t], score, seen)
    PROVE  Continues(t, seen)
  <1> DEFINE list == txn[t].competitors
             u == Head(list)
             s == Sees(t, u)
             p == CalculateCompetitorPenalty(s)
             q == Penalised(txn[t], u, s, p)
             r == [q EXCEPT !.competitors = Tail(list)]
             c == txn[t].comment
             first == {Creator[ArgOf[c]]}
             hit == seen \ {list[i] : i \in 1..Len(list)}
             more == seen \ {Tail(list)[i] : i \in 1..Len(Tail(list))}
  <1>0. TypeOK /\ txn[t] \in TxnType
    BY TxnFacts DEF SettleInv, IInv
  <1>1. txn' = [txn EXCEPT ![t] = r]
    BY Zenon DEF PenaliseCompetitor
  <1>2. pc' = [pc EXCEPT ![t] = "penalise"] /\ pc[t] = "penalise"
    BY <1>0 DEF PenaliseCompetitor, TypeOK
  <1>3. UNCHANGED <<score, posted, reactions>>
    BY DEF PenaliseCompetitor, KeepDb, dbVars
  <1>4. list \in Seq(Users) /\ list # <<>>
    BY <1>0, TxnFacts DEF PenaliseCompetitor
  <1>5. /\ u \in Users /\ u = list[1] /\ Len(list) \in Nat /\ Len(list) >= 1
        /\ Len(Tail(list)) = Len(list) - 1
        /\ \A i \in 1..Len(Tail(list)) : Tail(list)[i] = list[i + 1] /\ i + 1 \in 1..Len(list)
    BY <1>4
  <1>6. s \in Nat /\ p \in Int
    <2> HIDE DEF u
    <2>1. s \in Nat
      BY <1>5, SeesNat DEF SettleInv
    <2> HIDE DEF s
    <2> QED BY <2>1, PenaltyTypes
  <1>7. txn[t].rewarded = {} /\ Account(txn[t], "penalise", score, seen)
    BY <1>2, SettlingFacts DEF Settling
  <1>8. /\ txn[t].locked = first \union hit \union {}
        /\ \A x \in txn[t].locked :
             txn[t].new[x] = Promise!Settled(score[x], x \in first, x \in hit, x \in {})
        /\ \A i \in 1..Len(list) : list[i] \in seen
        /\ \A i, j \in 1..Len(list) : list[i] = list[j] => i = j
    BY <1>7 DEF Account, First, Hit
  <1>9. u \in seen /\ u \notin hit /\ more = hit \union {u}
    <2>1. 1 \in 1..Len(list) /\ list[1] = u
      BY <1>5
    <2>2. u \in seen /\ u \notin hit
      BY <1>8, <2>1
    <2>3. \A i \in 1..Len(list) : i = 1 \/ (i - 1 \in 1..Len(Tail(list)) /\ Tail(list)[i - 1] = list[i])
      <3> SUFFICES ASSUME NEW i \in 1..Len(list), i # 1
                   PROVE  i - 1 \in 1..Len(Tail(list)) /\ Tail(list)[i - 1] = list[i]
        OBVIOUS
      <3>1. i - 1 \in 1..Len(Tail(list)) /\ (i - 1) + 1 = i
        BY <1>5
      <3> QED BY <1>5, <3>1
    <2>4. \A i \in 1..Len(Tail(list)) : Tail(list)[i] # u
      <3> SUFFICES ASSUME NEW i \in 1..Len(Tail(list)) PROVE Tail(list)[i] # u
        OBVIOUS
      <3>1. Tail(list)[i] = list[i + 1] /\ i + 1 \in 1..Len(list) /\ i + 1 # 1
        BY <1>5
      <3> QED BY <1>8, <2>1, <3>1
    <2>5. \A x : x \in {list[i] : i \in 1..Len(list)} <=>
                 x = u \/ x \in {Tail(list)[i] : i \in 1..Len(Tail(list))}
      <3> HIDE DEF u, list
      <3> QED BY <1>5, <2>1, <2>3
    <2> QED BY <2>2, <2>4, <2>5
  <1>10. /\ r.comment = c /\ r.user = txn[t].user /\ r.rewarded = {}
         /\ r.inserted = txn[t].inserted /\ r.deleted = txn[t].deleted
         /\ r.competitors = Tail(list) /\ r.locked = txn[t].locked \union {u}
         /\ r.new[u] = Deduct(s, p) /\ \A x \in Users : x # u => r.new[x] = txn[t].new[x]
    <2> HIDE DEF u, s, p, list
    <2>1. /\ q.comment = c /\ q.user = txn[t].user /\ q.rewarded = {}
          /\ q.inserted = txn[t].inserted /\ q.deleted = txn[t].deleted
          /\ q.locked = txn[t].locked \union {u}
          /\ q.new[u] = Deduct(s, p) /\ \A x \in Users : x # u => q.new[x] = txn[t].new[x]
      BY <1>0, <1>5, <1>7, PenalisedRest
    <2>2. q \in TxnType
      BY <1>0, <1>5, <1>6, PenalisedType
    <2> HIDE DEF q, c
    <2>3. /\ r.comment = q.comment /\ r.user = q.user /\ r.rewarded = q.rewarded
          /\ r.inserted = q.inserted /\ r.deleted = q.deleted /\ r.competitors = Tail(list)
          /\ r.locked = q.locked /\ r.new = q.new
      BY <2>2 DEF TxnType
    <2> HIDE DEF r
    <2> QED BY <2>1, <2>3
  <1>11. r \in TxnType
    <2> HIDE DEF r
    <2>1. txn'[t] = r
      BY <1>0, <1>1 DEF TypeOK
    <2>2. txn'[t] \in TxnType
      BY DEF IInv, TypeOK
    <2> QED BY <2>1, <2>2
  <1>12. txn[t].locked \subseteq Users /\ score[u] \in Nat
    BY <1>0, <1>5, TxnFacts DEF SettleInv, IInv, NonNegative, TypeOK
  <1> HIDE DEF r, q, p
  <1>13. s = Promise!Settled(score[u], u \in first, FALSE, FALSE)
    <2>1. CASE u \in txn[t].locked
      <3>1. (u \in hit) = FALSE /\ (u \in {}) = FALSE
        BY <1>9
      <3>2. s = txn[t].new[u]
        BY <2>1 DEF Sees
      <3> QED BY <1>8, <2>1, <3>1, <3>2
    <2>2. CASE u \notin txn[t].locked
      <3>1. (u \in first) = FALSE
        BY <1>8, <2>2
      <3>2. s = score[u]
        BY <2>2 DEF Sees
      <3> QED BY <1>12, <3>1, <3>2, SettledSteps
    <2> QED BY <2>1, <2>2
  <1>14. r.new[u] = Promise!Settled(score[u], u \in first, TRUE, FALSE)
    <2>1. (u \in first) \in BOOLEAN
      OBVIOUS
    <2>2. r.new[u] = Deduct(s, CalculateCompetitorPenalty(s))
      BY <1>10 DEF p
    <2> HIDE DEF s, first, u
    <2> QED BY <1>12, <1>13, <2>1, <2>2, SettledSteps
  <1> HIDE DEF s
  <1>15. ASSUME NEW x \in r.locked
         PROVE  r.new[x] = Promise!Settled(score[x], x \in first, x \in more, x \in {})
    <2>1. CASE x = u
      <3>1. (u \in more) = TRUE /\ (u \in {}) = FALSE
        BY <1>9
      <3> QED BY <1>14, <2>1, <3>1
    <2>2. CASE x # u
      <3>1. x \in txn[t].locked /\ x \in Users
        BY <1>10, <1>12, <2>2
      <3>2. (x \in more) = (x \in hit)
        BY <1>9, <2>2
      <3>3. r.new[x] = txn[t].new[x]
        BY <1>10, <2>2, <3>1
      <3> QED BY <1>8, <3>1, <3>2, <3>3
    <2> QED BY <2>1, <2>2
  <1>16. /\ \A i \in 1..Len(r.competitors) : r.competitors[i] \in seen
         /\ \A i, j \in 1..Len(r.competitors) : r.competitors[i] = r.competitors[j] => i = j
    <2>1. ASSUME NEW i \in 1..Len(Tail(list)) PROVE Tail(list)[i] \in seen
      <3>1. Tail(list)[i] = list[i + 1] /\ i + 1 \in 1..Len(list)
        BY <1>5
      <3> QED BY <1>8, <3>1
    <2>2. ASSUME NEW i \in 1..Len(Tail(list)), NEW j \in 1..Len(Tail(list)),
                 Tail(list)[i] = Tail(list)[j]
          PROVE  i = j
      <3>1. /\ list[i + 1] = list[j + 1] /\ i + 1 \in 1..Len(list) /\ j + 1 \in 1..Len(list)
        BY <1>5, <2>2
      <3>2. i + 1 = j + 1
        BY <1>8, <3>1
      <3> QED BY <3>2
    <2> QED BY <1>10, <2>1, <2>2
  <1>17. r.locked = first \union more \union {}
    BY <1>8, <1>9, <1>10
  <1>18. Account(r, "penalise", score, seen)
    <2>1. First(r, "penalise") = first /\ Hit(r, "penalise", seen) = more /\ r.rewarded = {}
      BY <1>10 DEF First, Hit
    <2> HIDE DEF c, more, list, u, first
    <2> QED BY <1>15, <1>16, <1>17, <2>1 DEF Account
  <1>19. /\ Tale(r, "penalise", posted, reactions)
         /\ \A o \in Others(t) : r.inserted \intersect txn[o].inserted = {}
    BY <1>2, <1>10, SettlingFacts DEF Settling
  <1> QED BY <1>1, <1>2, <1>3, <1>11, <1>18, <1>19, StatementStep DEF PCs

\* The reward comes last, and the winner is no rival.
LEMMA WinnerSettles ==
    ASSUME SettleInv, IInv', NEW t \in Txs, RewardWinner(t),
           NEW seen \in SUBSET Rivals(txn[t].comment, posted),
           Account(txn[t], pc[t], score, seen)
    PROVE  Continues(t, seen)
  <1> DEFINE u == Winner(t)
             c == txn[t].comment
             first == {Creator[ArgOf[c]]}
             r1 == [txn[t] EXCEPT !.locked = @ \union {u}]
             r2 == [r1 EXCEPT !.new = [txn[t].new EXCEPT ![u] = Sees(t, u) + Reward]]
             r == [r2 EXCEPT !.rewarded = {u}]
  <1>0. TypeOK /\ txn[t] \in TxnType /\ txn[t].new \in [Users -> Int]
    BY TxnFacts DEF SettleInv, IInv
  <1>1. txn' = [txn EXCEPT ![t] = r] /\ pc' = [pc EXCEPT ![t] = "argscore"] /\ pc[t] = "penalise"
    BY Zenon DEF RewardWinner, Goto
  <1>2. UNCHANGED <<score, posted, reactions>>
    BY DEF RewardWinner, KeepDb, dbVars
  <1>3. u \in Users /\ u = Author[c] /\ score[u] \in Nat
    BY <1>0, TxnFacts DEF Winner, SettleInv, IInv, NonNegative, TypeOK
  <1>4. txn[t].rewarded = {} /\ Account(txn[t], "penalise", score, seen)
    BY <1>1, SettlingFacts DEF Settling
  <1>5. /\ txn[t].locked = first \union seen \union {}
        /\ \A x \in txn[t].locked :
             txn[t].new[x] = Promise!Settled(score[x], x \in first, x \in seen, x \in {})
    <2>1. txn[t].competitors = <<>>
      BY DEF RewardWinner
    <2>2. First(txn[t], "penalise") = first /\ Hit(txn[t], "penalise", seen) = seen
      BY <2>1 DEF First, Hit
    <2> HIDE DEF first
    <2> QED BY <1>4, <2>2 DEF Account
  <1>6. u \notin seen
    BY <1>3 DEF Rivals
  <1>7. /\ r.comment = c /\ r.user = txn[t].user /\ r.rewarded = {u}
        /\ r.inserted = txn[t].inserted /\ r.deleted = txn[t].deleted
        /\ r.locked = txn[t].locked \union {u}
        /\ r.new = [txn[t].new EXCEPT ![u] = Sees(t, u) + Reward]
    BY <1>0 DEF TxnType
  <1>8. r \in TxnType
    <2> HIDE DEF r
    <2>1. txn'[t] = r
      BY <1>0, <1>1 DEF TypeOK
    <2>2. txn'[t] \in TxnType
      BY DEF IInv, TypeOK
    <2> QED BY <2>1, <2>2
  <1>9. txn[t].locked \subseteq Users
    BY <1>0, TxnFacts
  <1> HIDE DEF r
  <1>10. Sees(t, u) = Promise!Settled(score[u], u \in first, FALSE, FALSE)
    <2>1. CASE u \in txn[t].locked
      <3>1. (u \in seen) = FALSE /\ (u \in {}) = FALSE
        BY <1>6
      <3> QED BY <1>5, <2>1, <3>1 DEF Sees
    <2>2. CASE u \notin txn[t].locked
      <3>1. (u \in first) = FALSE
        BY <1>5, <2>2
      <3>2. Sees(t, u) = score[u]
        BY <2>2 DEF Sees
      <3> QED BY <1>3, <3>1, <3>2, SettledSteps
    <2> QED BY <2>1, <2>2
  <1>11. r.new[u] = Promise!Settled(score[u], u \in first, FALSE, TRUE)
    <2>1. (u \in first) \in BOOLEAN
      OBVIOUS
    <2>2. r.new[u] = Sees(t, u) + Reward
      BY <1>0, <1>3, <1>7
    <2>3. \A a \in BOOLEAN : Promise!Settled(score[u], a, FALSE, TRUE) =
                                 Promise!Settled(score[u], a, FALSE, FALSE) + Reward
      BY <1>3, SettledSteps
    <2> HIDE DEF first, u
    <2> QED BY <1>10, <2>1, <2>2, <2>3
  <1> HIDE DEF u
  <1>12. ASSUME NEW x \in r.locked
         PROVE  r.new[x] = Promise!Settled(score[x], x \in first, x \in seen, x \in {u})
    <2>1. CASE x = u
      <3>1. (x \in seen) = FALSE /\ (x \in {u}) = TRUE
        BY <1>6, <2>1
      <3> QED BY <1>11, <2>1, <3>1
    <2>2. CASE x # u
      <3>1. x \in txn[t].locked /\ x \in Users
        BY <1>7, <1>9, <2>2
      <3>2. (x \in {u}) = FALSE /\ (x \in {}) = FALSE
        BY <2>2
      <3>3. r.new[x] = txn[t].new[x]
        BY <1>0, <1>7, <2>2, <3>1
      <3> QED BY <1>5, <3>1, <3>2, <3>3
    <2> QED BY <2>1, <2>2
  <1>13. r.locked = first \union seen \union {u}
    BY <1>5, <1>7
  <1>14. Account(r, "argscore", score, seen)
    <2>1. First(r, "argscore") = first /\ Hit(r, "argscore", seen) = seen /\ r.rewarded = {u}
      BY <1>7 DEF First, Hit
    <2> HIDE DEF first
    <2> QED BY <1>12, <1>13, <2>1 DEF Account
  <1>15. /\ Tale(r, "argscore", posted, reactions)
         /\ \A o \in Others(t) : r.inserted \intersect txn[o].inserted = {}
    BY <1>1, <1>7, SettlingFacts DEF Settling
  <1> QED BY <1>1, <1>2, <1>8, <1>14, <1>15, StatementStep DEF PCs

\* The toggle: an un-fire deletes at most its row, a fire inserts one that is not
\* there and that nobody else is inserting.
LEMMA ToggleSettles ==
    ASSUME SettleInv, IInv', NEW t \in Txs, Unfire(t) \/ InsertFire(t),
           NEW seen \in SUBSET Rivals(txn[t].comment, posted),
           Account(txn[t], pc[t], score, seen)
    PROVE  Continues(t, seen)
  <1>0. TypeOK /\ txn[t] \in TxnType /\ pc[t] = "toggle"
    BY TxnFacts DEF SettleInv, IInv, Unfire, InsertFire
  <1>1. /\ txn[t].rewarded = {} /\ Account(txn[t], "toggle", score, seen)
        /\ txn[t].inserted = {} /\ txn[t].deleted = {}
        /\ txn[t].comment \in posted /\ txn[t].user # Author[txn[t].comment]
    BY <1>0 DEF SettleInv, IInv, FlagAndReward, Tale, Settling
  <1>2. UNCHANGED <<score, posted, reactions>>
    BY DEF Unfire, InsertFire, KeepDb, dbVars
  <1>3. CASE Unfire(t)
    <2> DEFINE r == [txn[t] EXCEPT !.deleted = {Row(t)} \intersect reactions]
    <2>1. txn' = [txn EXCEPT ![t] = r] /\ pc' = [pc EXCEPT ![t] = "argscore"]
      BY <1>3, Zenon DEF Unfire, Goto
    <2>2. /\ r.comment = txn[t].comment /\ r.user = txn[t].user /\ r.rewarded = txn[t].rewarded
          /\ r.inserted = {} /\ r.deleted \subseteq {<<txn[t].comment, txn[t].user>>}
          /\ r.locked = txn[t].locked /\ r.new = txn[t].new
      BY <1>0, <1>1 DEF TxnType, Row
    <2> HIDE DEF r
    <2>3. r \in TxnType
      <3>1. txn'[t] = r /\ txn'[t] \in TxnType
        BY <1>0, <2>1 DEF TypeOK, IInv
      <3> QED BY <3>1
    <2>4. Account(r, "argscore", score, seen)
      BY <1>1, <2>2, AccountSame DEF Unsettled
    <2>5. Tale(r, "argscore", posted, reactions)
      BY <1>1, <2>2 DEF Tale, Settling
    <2>6. "argscore" \in PCs
      BY DEF PCs
    <2>7. \A o \in Others(t) : r.inserted \intersect txn[o].inserted = {}
      BY <2>2
    <2> QED BY <1>2, <2>1, <2>3, <2>4, <2>5, <2>6, <2>7, StatementStep
  <1>4. CASE InsertFire(t)
    <2> DEFINE r == [txn[t] EXCEPT !.inserted = {Row(t)}]
               label == IF txn[t].seenTriggered THEN "argscore" ELSE "total"
    <2>1. txn' = [txn EXCEPT ![t] = r] /\ pc' = [pc EXCEPT ![t] = label]
      BY <1>4, Zenon DEF InsertFire, Goto
    <2>2. /\ r.comment = txn[t].comment /\ r.user = txn[t].user /\ r.rewarded = txn[t].rewarded
          /\ r.deleted = {} /\ r.inserted = {<<txn[t].comment, txn[t].user>>}
          /\ r.locked = txn[t].locked /\ r.new = txn[t].new
      BY <1>0, <1>1 DEF TxnType, Row
    <2> HIDE DEF r
    <2>3. r \in TxnType
      <3>1. txn'[t] = r /\ txn'[t] \in TxnType
        BY <1>0, <2>1 DEF TypeOK, IInv
      <3> QED BY <3>1
    <2>4. label \in {"argscore", "total"}
      OBVIOUS
    <2> HIDE DEF label
    <2>5. Account(r, label, score, seen)
      <3>1. label \in Unsettled /\ "toggle" \in Unsettled
        BY <2>4 DEF Unsettled
      <3> QED BY <1>1, <2>2, <3>1, AccountSame
    <2>6. Tale(r, label, posted, reactions)
      BY <1>1, <1>4, <2>2, <2>4 DEF Tale, Settling, InsertFire, Row
    <2>7. \A o \in Others(t) : r.inserted \intersect txn[o].inserted = {}
      BY <1>4, <2>2 DEF InsertFire, InsertBlockers, Row
    <2>8. label \in PCs
      BY <2>4 DEF PCs
    <2> QED BY <1>2, <2>1, <2>3, <2>5, <2>6, <2>7, <2>8, StatementStep
  <1> QED BY <1>3, <1>4

\* What a commit writes is what the promise asks of one reaction: nothing, an
\* un-fire, a fire, or a fire that settles and hits the rivals it has seen.
CommitKinds(t, seen) ==
    LET r == txn[t]
    IN  \/ /\ r.inserted = {}
           /\ UNCHANGED PromiseVars \/ Promise!Unfire(r.user, r.comment)
        \/ /\ r.inserted # {} /\ r.rewarded = {}
           /\ Promise!Fire(r.user, r.comment) /\ Promise!Quiet
        \/ /\ r.inserted # {} /\ r.rewarded # {}
           /\ Promise!Fire(r.user, r.comment) /\ Promise!Settle(r.comment, seen)

LEMMA CommitFacts ==
    ASSUME SettleInv, NEW t \in Txs, Commit(t)
    PROVE  /\ TypeOK /\ txn[t] \in TxnType /\ pc[t] = "commit"
           /\ txn[t].comment \in Comments /\ txn[t].user \in Users
           /\ txn'[t] = Blank /\ pc'[t] = "idle" /\ posted' = posted
           /\ \A o \in Others(t) : txn'[o] = txn[o] /\ pc'[o] = pc[o]
           /\ score' = [x \in Users |-> Sees(t, x)]
           /\ triggered' = [d \in Comments |-> triggered[d] \/ d \in txn[t].flagged]
           /\ reactions' = (reactions \ txn[t].deleted) \union txn[t].inserted
           /\ Tale(txn[t], "commit", posted, reactions)
           /\ txn[t].flagged \subseteq {txn[t].comment}
           /\ txn[t].rewarded \subseteq {Author[txn[t].comment]}
           /\ txn[t].flagged # {} <=> txn[t].rewarded # {}
  <1>1. /\ TypeOK /\ txn[t] \in TxnType /\ pc[t] = "commit"
        /\ txn[t].comment \in Comments /\ txn[t].user \in Users
        /\ Tale(txn[t], pc[t], posted, reactions) /\ FlagAndReward(txn[t], pc[t])
    BY TxnFacts DEF SettleInv, IInv, Commit
  <1>2. /\ txn'[t] = Blank /\ pc'[t] = "idle" /\ posted' = posted
        /\ \A o \in Others(t) : txn'[o] = txn[o] /\ pc'[o] = pc[o]
        /\ score' = [x \in Users |-> Sees(t, x)]
        /\ triggered' = [d \in Comments |-> triggered[d] \/ d \in txn[t].flagged]
        /\ reactions' = (reactions \ txn[t].deleted) \union txn[t].inserted
    BY <1>1 DEF TypeOK, Commit, Others, Goto, SeenReactions
  <1> QED BY <1>1, <1>2 DEF FlagAndReward

LEMMA CommitSettles ==
    ASSUME SettleInv, IInv', NEW t \in Txs, Commit(t)
    PROVE  SettleInv'
  <1>1. OneInserts'
    <2>1. Blank.inserted = {}
      BY FreshTale, ConstantsAssumption DEF Blank
    <2> QED BY <2>1, CommitFacts DEF SettleInv, OneInserts, Others
  <1>2. /\ Tale(Blank, "idle", posted', reactions') /\ Account(Blank, "idle", score', {})
    BY FreshTale, ConstantsAssumption DEF Blank
  <1>3. ASSUME NEW o \in Others(t)
        PROVE  /\ Tale(txn[o], pc[o], posted', reactions')
               /\ \A seen : Account(txn[o], pc[o], score, seen) => Account(txn[o], pc[o], score', seen)
    <2>1. /\ Tale(txn[o], pc[o], posted, reactions)
          /\ txn[o].inserted \intersect txn[t].inserted = {}
          /\ txn[o].locked \intersect txn[t].locked = {} /\ txn[o].locked \subseteq Users
      BY TxnFacts DEF SettleInv, IInv, Exclusive, OneInserts, Others
    <2>2. Tale(txn[o], pc[o], posted', reactions')
      BY <2>1, CommitFacts DEF Tale
    <2>3. \A x \in txn[o].locked : score'[x] = score[x]
      BY <2>1, CommitFacts DEF Sees
    <2> QED BY <2>2, <2>3, AccountKeeps
  <1>4. \A o \in Txs : Tale(txn'[o], pc'[o], posted', reactions')
    BY <1>2, <1>3, CommitFacts DEF Others
  <1>5. ASSUME NEW o \in Txs
        PROVE  \E seen \in SUBSET Rivals(txn'[o].comment, posted') :
                  Account(txn'[o], pc'[o], score', seen)
    <2>1. CASE o = t
      BY <1>2, <2>1, CommitFacts
    <2>2. CASE o # t
      BY <1>3, <2>2, CommitFacts DEF SettleInv, Others
    <2> QED BY <2>1, <2>2
  <1> QED BY <1>1, <1>4, <1>5 DEF SettleInv

LEMMA CommitPromise ==
    ASSUME SettleInv, NEW t \in Txs, Commit(t),
           NEW seen, Account(txn[t], pc[t], score, seen)
    PROVE  CommitKinds(t, seen)
  <1> DEFINE r == txn[t]
             c == r.comment
             u == r.user
  <1>0. /\ TypeOK /\ pc[t] = "commit" /\ posted' = posted
        /\ score' = [x \in Users |-> Sees(t, x)]
        /\ triggered' = [d \in Comments |-> triggered[d] \/ d \in r.flagged]
        /\ reactions' = (reactions \ r.deleted) \union r.inserted
    BY CommitFacts
  <1>1. /\ Tale(r, "commit", posted, reactions) /\ Account(r, "commit", score, seen)
        /\ r.flagged \subseteq {c} /\ r.rewarded \subseteq {Author[c]}
        /\ r.flagged # {} <=> r.rewarded # {}
    BY CommitFacts
  <1>2. r.inserted # {} => /\ r.inserted = {<<c, u>>} /\ r.deleted = {} /\ <<c, u>> \notin reactions
                           /\ c \in posted /\ u # Author[c]
    BY <1>1 DEF Tale
  <1>3. CASE r.rewarded = {}
    <2>1. r.locked = {}
      BY <1>1, <1>3, NothingLocked DEF Unsettled
    <2>2. score' = score /\ triggered' = triggered
      BY <1>0, <1>1, <1>3, <2>1 DEF Sees, TypeOK
    <2>3. CASE r.inserted # {}
      BY <1>0, <1>2, <1>3, <2>2, <2>3 DEF CommitKinds, Promise!Fire, Promise!Quiet
    <2>4. CASE r.inserted = {} /\ r.deleted = {}
      <3>1. reactions' = reactions
        BY <1>0, <2>4
      <3> QED BY <1>0, <2>2, <2>4, <3>1 DEF PromiseVars, CommitKinds
    <2>5. CASE r.inserted = {} /\ r.deleted # {}
      <3>1. r.deleted = {<<c, u>>}
        BY <1>1, <2>5 DEF Tale
      <3>2. Promise!Unfire(u, c)
        BY <1>0, <2>2, <2>5, <3>1 DEF Promise!Unfire, Promise!Quiet
      <3> QED BY <2>5, <3>2 DEF CommitKinds
    <2> QED BY <2>3, <2>4, <2>5
  <1>4. CASE r.rewarded # {}
    <2> DEFINE first == {Creator[ArgOf[c]]}
    <2>1. /\ r.inserted # {} /\ r.inserted = {<<c, u>>} /\ r.deleted = {} /\ <<c, u>> \notin reactions
          /\ c \in posted /\ u # Author[c] /\ r.flagged = {c} /\ r.rewarded = {Author[c]}
      BY <1>1, <1>2, <1>4 DEF Tale
    <2>2. /\ r.locked = first \union seen \union {Author[c]}
          /\ \A x \in r.locked : r.new[x] =
               Promise!Settled(score[x], x \in first, x \in seen, x \in {Author[c]})
      <3>1. First(r, "commit") = first /\ Hit(r, "commit", seen) = seen
        BY <1>4 DEF First, Hit
      <3> QED BY <1>1, <2>1, <3>1 DEF Account
    <2>3. ASSUME NEW x \in Users
          PROVE  score'[x] = Promise!Settled(score[x], x = Creator[ArgOf[c]], x \in seen, x = Author[c])
      <3>1. (x \in first) = (x = Creator[ArgOf[c]]) /\ (x \in {Author[c]}) = (x = Author[c])
        OBVIOUS
      <3>2. CASE x \in r.locked
        BY <1>0, <2>2, <3>1, <3>2 DEF Sees
      <3>3. CASE x \notin r.locked
        <4>1. /\ (x = Creator[ArgOf[c]]) = FALSE /\ (x \in seen) = FALSE /\ (x = Author[c]) = FALSE
          BY <2>2, <3>3
        <4>2. score'[x] = score[x] /\ score[x] \in Nat
          BY <1>0, <3>3 DEF Sees, SettleInv, IInv, NonNegative, TypeOK
        <4> QED BY <4>1, <4>2, SettledSteps
      <3> QED BY <3>2, <3>3
    <2>4. score' = [x \in Users |-> Promise!Settled(score[x], x = Creator[ArgOf[c]],
                                                    x \in seen, x = Author[c])]
      <3>1. score' = [x \in Users |-> score'[x]]
        BY <1>0
      <3> QED BY <2>3, <3>1
    <2>5. triggered' = [triggered EXCEPT ![c] = TRUE]
      BY <1>0, <2>1 DEF TypeOK
    <2>6. Promise!Settle(c, seen)
      BY <2>4, <2>5 DEF Promise!Settle
    <2>7. Promise!Fire(u, c)
      BY <1>0, <2>1 DEF Promise!Fire
    <2> QED BY <1>4, <2>1, <2>6, <2>7 DEF CommitKinds
  <1> QED BY <1>3, <1>4

\* Every statement but those that end the transaction.
Statement(t) ==
    \/ ReadExists(t) \/ Unfire(t) \/ InsertFire(t) \/ CountComments(t) \/ CountVotes(t)
    \/ FlagComment(t) \/ PenaliseCreator(t) \/ ReadCompetitors(t)
    \/ PenaliseCompetitor(t) \/ RewardWinner(t) \/ UpdateArgument(t)

LEMMA StatementContinues ==
    ASSUME SettleInv, IInv', NEW t \in Txs, Statement(t),
           NEW seen \in SUBSET Rivals(txn[t].comment, posted),
           Account(txn[t], pc[t], score, seen)
    PROVE  \/ Continues(t, seen)
           \/ Continues(t, Rivals(txn[t].comment, posted))
  <1>0. TypeOK /\ txn[t] \in TxnType /\ txn'[t] \in TxnType
    BY TxnFacts DEF SettleInv, IInv, TypeOK
  <1> USE DEF Goto
  <1>1. CASE ReadExists(t)
    <2> DEFINE r == [txn[t] EXCEPT !.exists = Row(t) \in reactions]
    <2>1. txn' = [txn EXCEPT ![t] = r] /\ pc' = [pc EXCEPT ![t] = "toggle"]
      BY <1>1, Zenon DEF ReadExists
    <2>2. /\ r.comment = txn[t].comment /\ r.user = txn[t].user /\ r.inserted = txn[t].inserted
          /\ r.deleted = txn[t].deleted /\ r.locked = txn[t].locked /\ r.new = txn[t].new
          /\ r.rewarded = txn[t].rewarded
      BY <1>0 DEF TxnType
    <2> HIDE DEF r
    <2>3. r \in TxnType
      BY <1>0, <2>1 DEF TypeOK
    <2>4. pc[t] = "exists" /\ UNCHANGED <<score, posted, reactions>>
      BY <1>1 DEF ReadExists, KeepDb, dbVars
    <2> QED BY <2>1, <2>2, <2>3, <2>4, ReadStep DEF Unsettled, PCs, Settling
  <1>2. CASE CountComments(t)
    <2> DEFINE r == [txn[t] EXCEPT !.total = Cardinality(CommentsIn(Argument(t)))]
    <2>1. txn' = [txn EXCEPT ![t] = r] /\ pc' = [pc EXCEPT ![t] = "votes"]
      BY <1>2, Zenon DEF CountComments
    <2>2. /\ r.comment = txn[t].comment /\ r.user = txn[t].user /\ r.inserted = txn[t].inserted
          /\ r.deleted = txn[t].deleted /\ r.locked = txn[t].locked /\ r.new = txn[t].new
          /\ r.rewarded = txn[t].rewarded
      BY <1>0 DEF TxnType
    <2> HIDE DEF r
    <2>3. r \in TxnType
      BY <1>0, <2>1 DEF TypeOK
    <2>4. pc[t] = "total" /\ UNCHANGED <<score, posted, reactions>>
      BY <1>2 DEF CountComments, KeepDb, dbVars
    <2> QED BY <2>1, <2>2, <2>3, <2>4, ReadStep DEF Unsettled, PCs, Settling
  <1>3. CASE FlagComment(t)
    <2> DEFINE r == [txn[t] EXCEPT !.flagged = {txn[t].comment}]
    <2>1. txn' = [txn EXCEPT ![t] = r] /\ pc' = [pc EXCEPT ![t] = "creator"]
      BY <1>3, Zenon DEF FlagComment
    <2>2. /\ r.comment = txn[t].comment /\ r.user = txn[t].user /\ r.inserted = txn[t].inserted
          /\ r.deleted = txn[t].deleted /\ r.locked = txn[t].locked /\ r.new = txn[t].new
          /\ r.rewarded = txn[t].rewarded
      BY <1>0 DEF TxnType
    <2> HIDE DEF r
    <2>3. r \in TxnType
      BY <1>0, <2>1 DEF TypeOK
    <2>4. pc[t] = "flag" /\ UNCHANGED <<score, posted, reactions>>
      BY <1>3 DEF FlagComment, KeepDb, dbVars
    <2> QED BY <2>1, <2>2, <2>3, <2>4, ReadStep DEF Unsettled, PCs, Settling
  <1>4. CASE UpdateArgument(t)
    <2> DEFINE r == [txn[t] EXCEPT !.scored = {Argument(t)}]
    <2>1. txn' = [txn EXCEPT ![t] = r] /\ pc' = [pc EXCEPT ![t] = "commit"]
      BY <1>4, Zenon DEF UpdateArgument
    <2>2. /\ r.comment = txn[t].comment /\ r.user = txn[t].user /\ r.inserted = txn[t].inserted
          /\ r.deleted = txn[t].deleted /\ r.locked = txn[t].locked /\ r.new = txn[t].new
          /\ r.rewarded = txn[t].rewarded
      BY <1>0 DEF TxnType
    <2> HIDE DEF r
    <2>3. r \in TxnType
      BY <1>0, <2>1 DEF TypeOK
    <2>4. pc[t] = "argscore" /\ UNCHANGED <<score, posted, reactions>>
      BY <1>4 DEF UpdateArgument, KeepDb, dbVars
    <2> QED BY <2>1, <2>2, <2>3, <2>4, ReadStep DEF Unsettled, PCs, Settling
  <1>5. CASE CountVotes(t)
    <2>1. pc[t] = "votes" /\ txn' = [txn EXCEPT ![t] = txn[t]] /\ UNCHANGED <<score, posted, reactions>>
      BY <1>0, <1>5 DEF CountVotes, TypeOK, KeepDb, dbVars
    <2>2. PICK label \in {"flag", "argscore"} : pc' = [pc EXCEPT ![t] = label]
      BY <1>5 DEF CountVotes
    <2> QED BY <1>0, <2>1, <2>2, ReadStep DEF Unsettled, PCs, Settling
  <1> QED BY <1>1, <1>2, <1>3, <1>4, <1>5, ToggleSettles, CreatorSettles, CompetitorsSettle,
             CompetitorSettles, WinnerSettles DEF Statement

\* A statement reads and writes for the comment and the user it began with.
LEMMA StatementKeeps ==
    ASSUME TypeOK, NEW t \in Txs, Statement(t)
    PROVE  /\ txn'[t].comment = txn[t].comment /\ txn'[t].user = txn[t].user
           /\ txn'[t].seenTriggered = txn[t].seenTriggered
           /\ InsertFire(t) \/ txn'[t].inserted = txn[t].inserted
           /\ Unfire(t) \/ txn'[t].deleted = txn[t].deleted
           /\ RewardWinner(t) \/ txn'[t].rewarded = txn[t].rewarded
           /\ UNCHANGED PromiseVars /\ pc[t] # "idle"
  <1> DEFINE Keeps(r) == /\ r.comment = txn[t].comment /\ r.user = txn[t].user
                         /\ r.seenTriggered = txn[t].seenTriggered
                         /\ InsertFire(t) \/ r.inserted = txn[t].inserted
                         /\ Unfire(t) \/ r.deleted = txn[t].deleted
                         /\ RewardWinner(t) \/ r.rewarded = txn[t].rewarded
  <1>0. txn[t] \in TxnType /\ txn \in [Txs -> TxnType]
    BY TxnFacts DEF TypeOK
  <1>1. UNCHANGED PromiseVars /\ pc[t] # "idle"
    BY DEF Statement, ReadExists, Unfire, InsertFire, CountComments, CountVotes, FlagComment,
           PenaliseCreator, ReadCompetitors, PenaliseCompetitor, RewardWinner, UpdateArgument,
           KeepDb, dbVars, PromiseVars
  <1>2. ASSUME NEW r, txn' = [txn EXCEPT ![t] = r], Keeps(r)
        PROVE  Keeps(txn'[t])
    BY <1>0, <1>2
  <1>3. CASE ReadExists(t)
    <2> DEFINE r == [txn[t] EXCEPT !.exists = Row(t) \in reactions]
    <2>1. txn' = [txn EXCEPT ![t] = r]
      BY <1>3, Zenon DEF ReadExists
    <2>2. Keeps(r)
      BY <1>0, <1>3 DEF TxnType
    <2> HIDE DEF r
    <2> QED BY <1>1, <1>2, <2>1, <2>2
  <1>4. CASE Unfire(t)
    <2> DEFINE r == [txn[t] EXCEPT !.deleted = {Row(t)} \intersect reactions]
    <2>1. txn' = [txn EXCEPT ![t] = r]
      BY <1>4, Zenon DEF Unfire
    <2>2. Keeps(r)
      BY <1>0, <1>4 DEF TxnType
    <2> HIDE DEF r
    <2> QED BY <1>1, <1>2, <2>1, <2>2
  <1>5. CASE InsertFire(t)
    <2> DEFINE r == [txn[t] EXCEPT !.inserted = {Row(t)}]
    <2>1. txn' = [txn EXCEPT ![t] = r]
      BY <1>5, Zenon DEF InsertFire
    <2>2. Keeps(r)
      BY <1>0, <1>5 DEF TxnType
    <2> HIDE DEF r
    <2> QED BY <1>1, <1>2, <2>1, <2>2
  <1>6. CASE CountComments(t)
    <2> DEFINE r == [txn[t] EXCEPT !.total = Cardinality(CommentsIn(Argument(t)))]
    <2>1. txn' = [txn EXCEPT ![t] = r]
      BY <1>6, Zenon DEF CountComments
    <2>2. Keeps(r)
      BY <1>0, <1>6 DEF TxnType
    <2> HIDE DEF r
    <2> QED BY <1>1, <1>2, <2>1, <2>2
  <1>7. CASE FlagComment(t)
    <2> DEFINE r == [txn[t] EXCEPT !.flagged = {txn[t].comment}]
    <2>1. txn' = [txn EXCEPT ![t] = r]
      BY <1>7, Zenon DEF FlagComment
    <2>2. Keeps(r)
      BY <1>0, <1>7 DEF TxnType
    <2> HIDE DEF r
    <2> QED BY <1>1, <1>2, <2>1, <2>2
  <1>8. CASE UpdateArgument(t)
    <2> DEFINE r == [txn[t] EXCEPT !.scored = {Argument(t)}]
    <2>1. txn' = [txn EXCEPT ![t] = r]
      BY <1>8, Zenon DEF UpdateArgument
    <2>2. Keeps(r)
      BY <1>0, <1>8 DEF TxnType
    <2> HIDE DEF r
    <2> QED BY <1>1, <1>2, <2>1, <2>2
  <1>9. CASE CountVotes(t)
    BY <1>1, <1>9 DEF CountVotes
  <1>10. CASE ReadCompetitors(t)
    <2>0. PICK order \in SetToSeqs(Competitors(t)) : txn' = [txn EXCEPT ![t].competitors = order]
      BY <1>10 DEF ReadCompetitors
    <2> DEFINE r == [txn[t] EXCEPT !.competitors = order]
    <2>1. txn' = [txn EXCEPT ![t] = r]
      BY <2>0, Zenon
    <2>2. Keeps(r)
      BY <1>0, <1>10 DEF TxnType
    <2> HIDE DEF r
    <2> QED BY <1>1, <1>2, <2>1, <2>2
  <1>11. CASE PenaliseCreator(t)
    <2> DEFINE u == Creator[Argument(t)]
               s == Sees(t, u)
               p == CalculateCreatorPenalty(s)
               r == Penalised(txn[t], u, s, p)
    <2>1. txn' = [txn EXCEPT ![t] = r]
      BY <1>11, Zenon DEF PenaliseCreator
    <2>2. u \in Users
      BY TxnFacts
    <2>3. Keeps(r)
      <3> HIDE DEF u, s, p
      <3> QED BY <1>0, <2>2, PenalisedRest, PenalisedKeeps
    <2> HIDE DEF r
    <2> QED BY <1>1, <1>2, <2>1, <2>3
  <1>12. CASE PenaliseCompetitor(t)
    <2> DEFINE list == txn[t].competitors
               u == Head(list)
               s == Sees(t, u)
               p == CalculateCompetitorPenalty(s)
               q == Penalised(txn[t], u, s, p)
               r == [q EXCEPT !.competitors = Tail(list)]
    <2>1. txn' = [txn EXCEPT ![t] = r]
      BY <1>12, Zenon DEF PenaliseCompetitor
    <2>2. list \in Seq(Users) /\ list # <<>>
      BY <1>12, TxnFacts DEF PenaliseCompetitor
    <2>3. u \in Users
      BY <2>2
    <2>4. s \in Int
      <3> HIDE DEF u
      <3> QED BY <2>3, SeesType
    <2>5. p \in Int
      <3> HIDE DEF s
      <3> QED BY <2>4, PenaltyTypes
    <2>6. q \in TxnType
      <3> HIDE DEF u, s, p, list
      <3> QED BY <1>0, <2>3, <2>4, <2>5, PenalisedType
    <2>7. Keeps(q)
      <3> HIDE DEF u, s, p, list
      <3> QED BY <1>0, <2>3, PenalisedRest, PenalisedKeeps
    <2>8. Keeps(r)
      <3> HIDE DEF q
      <3> QED BY <2>6, <2>7 DEF TxnType
    <2> HIDE DEF r
    <2> QED BY <1>1, <1>2, <2>1, <2>8
  <1>13. CASE RewardWinner(t)
    <2> DEFINE u == Winner(t)
               r1 == [txn[t] EXCEPT !.locked = @ \union {u}]
               r2 == [r1 EXCEPT !.new = [txn[t].new EXCEPT ![u] = Sees(t, u) + Reward]]
               r == [r2 EXCEPT !.rewarded = {u}]
    <2>1. txn' = [txn EXCEPT ![t] = r]
      BY <1>13, Zenon DEF RewardWinner
    <2>2. Keeps(r)
      BY <1>0, <1>13 DEF TxnType
    <2> HIDE DEF r
    <2> QED BY <1>1, <1>2, <2>1, <2>2
  <1> QED BY <1>3, <1>4, <1>5, <1>6, <1>7, <1>8, <1>9, <1>10, <1>11, <1>12, <1>13 DEF Statement

LEMMA BeginsAccount ==
    ASSUME SettleInv, NEW t \in Txs, NEW u \in Users, NEW c \in Comments, ReadComment(t, u, c),
           ~UNCHANGED <<pc, txn>>, NEW seen
    PROVE  /\ Continues(t, seen) /\ pc[t] = "idle"
           /\ txn'[t] = Fresh(u, c, triggered[c]) /\ pc'[t] = "exists"
  <1> DEFINE r == Fresh(u, c, triggered[c])
  <1>1. /\ txn' = [txn EXCEPT ![t] = r] /\ pc' = [pc EXCEPT ![t] = "exists"] /\ pc[t] = "idle"
        /\ c \in posted /\ u # Author[c] /\ triggered[c] \in BOOLEAN
        /\ UNCHANGED <<score, posted, reactions>>
        /\ txn \in [Txs -> TxnType] /\ pc \in [Txs -> PCs]
    BY DEF ReadComment, Goto, SettleInv, IInv, TypeOK, dbVars
  <1>2. /\ Tale(r, "exists", posted, reactions) /\ Account(r, "exists", score, seen)
        /\ r.inserted = {} /\ r \in TxnType
    BY <1>1, FreshTale, FreshType
  <1> HIDE DEF r
  <1>3. Continues(t, seen)
    BY <1>1, <1>2, StatementStep DEF PCs
  <1> QED BY <1>1, <1>3 DEF r

LEMMA SettleNext ==
    ASSUME SettleInv, IInv', [Next]_vars
    PROVE  SettleInv' /\ [Promise!Next]_PromiseVars
  <1>1. CASE UNCHANGED vars
    BY <1>1 DEF vars, PromiseVars, SettleInv, OneInserts
  <1>2. ASSUME NEW t \in Txs, NEW u \in Users, NEW c \in Comments, ReadComment(t, u, c)
        PROVE  SettleInv' /\ [Promise!Next]_PromiseVars
    <2>1. UNCHANGED <<score, posted, triggered, reactions>> /\ pc[t] = "idle"
      BY <1>2 DEF ReadComment, dbVars
    <2>2. CASE UNCHANGED <<pc, txn>>
      BY <2>1, <2>2 DEF PromiseVars, SettleInv, OneInserts
    <2>3. CASE ~UNCHANGED <<pc, txn>>
      <3>1. Continues(t, {})
        BY <1>2, <2>3, BeginsAccount
      <3>2. SettleInv'
        BY <3>1, ContinuesSettles
      <3> QED BY <2>1, <3>2 DEF PromiseVars
    <2> QED BY <2>2, <2>3
  <1>3. ASSUME NEW t \in Txs, Statement(t)
        PROVE  SettleInv' /\ [Promise!Next]_PromiseVars
    <2>1. PICK seen \in SUBSET Rivals(txn[t].comment, posted) : Account(txn[t], pc[t], score, seen)
      BY DEF SettleInv
    <2>2. TypeOK
      BY DEF SettleInv, IInv
    <2>3. txn'[t].comment = txn[t].comment /\ UNCHANGED PromiseVars
      BY <1>3, <2>2, StatementKeeps
    <2>4. PICK s \in SUBSET Rivals(txn[t].comment, posted) : Continues(t, s)
      BY <1>3, <2>1, StatementContinues
    <2> QED BY <2>3, <2>4, ContinuesSettles
  <1>4. ASSUME NEW t \in Txs, Rollback(t)
        PROVE  SettleInv' /\ [Promise!Next]_PromiseVars
    <2>1. Continues(t, {}) /\ UNCHANGED PromiseVars
      BY <1>4, RollbackSettles DEF Rollback, KeepDb, dbVars, PromiseVars
    <2> QED BY <2>1, ContinuesSettles
  <1>5. ASSUME NEW t \in Txs, Commit(t)
        PROVE  SettleInv' /\ [Promise!Next]_PromiseVars
    <2>1. PICK seen \in SUBSET Rivals(txn[t].comment, posted) : Account(txn[t], pc[t], score, seen)
      BY DEF SettleInv
    <2>2. CommitKinds(t, seen)
      BY <1>5, <2>1, CommitPromise
    <2>3. txn[t].comment \in Comments /\ txn[t].user \in Users
      BY <1>5, CommitFacts
    <2>4. seen \in SUBSET Promise!Competitors(txn[t].comment)
      BY DEF Rivals, Promise!Competitors
    <2>5. [Promise!Next]_PromiseVars
      BY <2>2, <2>3, <2>4 DEF CommitKinds, Promise!Next, Promise!LooseFire
    <2> QED BY <1>5, <2>5, CommitSettles
  <1>6. ASSUME NEW t \in Txs, NEW c \in Comments, PostComment(t, c)
        PROVE  SettleInv' /\ [Promise!Next]_PromiseVars
    <2>1. /\ posted' = posted \union {c} /\ c \notin posted
          /\ UNCHANGED <<score, triggered, reactions, pc, txn>>
      BY <1>6 DEF PostComment
    <2>2. ASSUME NEW o \in Txs
          PROVE  \E seen \in SUBSET Rivals(txn[o].comment, posted') :
                    Account(txn[o], pc[o], score, seen)
      <3>1. PICK seen \in SUBSET Rivals(txn[o].comment, posted) :
                    Account(txn[o], pc[o], score, seen)
        BY DEF SettleInv
      <3>2. Rivals(txn[o].comment, posted) \subseteq Rivals(txn[o].comment, posted')
        BY <2>1, RivalsGrow
      <3> QED BY <3>1, <3>2
    <2>3. ASSUME NEW o \in Txs PROVE Tale(txn[o], pc[o], posted', reactions)
      <3>1. Tale(txn[o], pc[o], posted, reactions) /\ posted \subseteq posted'
        BY <2>1 DEF SettleInv
      <3> QED BY <3>1 DEF Tale
    <2>4. SettleInv'
      BY <2>1, <2>2, <2>3 DEF SettleInv, OneInserts
    <2>5. Promise!Post(c)
      BY <2>1 DEF Promise!Post
    <2> QED BY <2>4, <2>5 DEF Promise!Next
  <1> QED BY <1>1, <1>2, <1>3, <1>4, <1>5, <1>6
          DEF Next, Step, Statement, InsertRefused, Abort, DeadlockVictim

LEMMA SettleInit == Init => SettleInv /\ Promise!Init
  <1> SUFFICES ASSUME Init PROVE SettleInv /\ Promise!Init
    OBVIOUS
  <1>1. \A t \in Txs : txn[t] = Blank /\ pc[t] = "idle"
    BY DEF Init
  <1>2. /\ Tale(Blank, "idle", posted, reactions) /\ Account(Blank, "idle", score, {})
        /\ Blank.inserted = {}
    BY FreshTale, ConstantsAssumption DEF Blank
  <1>3. OneInserts
    BY <1>1, <1>2 DEF OneInserts, Others
  <1>4. SettleInv
    BY <1>1, <1>2, <1>3, InvInit DEF SettleInv
  <1> QED BY <1>4 DEF Init, Promise!Init

\* With any number of handlers, in whatever order their statements lock and write
\* the rows of users, and whatever aborts, every commit is one atomic reaction of
\* Settlement: a settlement takes from everyone it hits what the rule takes off
\* the balances of that moment.
THEOREM TransactionsAreAtomic == Spec => SettlesAtomically
  <1>1. SettleInv /\ [Next]_vars => SettleInv' /\ [Promise!Next]_Promise!vars
    <2>1. SettleInv => IInv
      BY DEF SettleInv
    <2> QED BY <2>1, InvNext, SettleNext DEF Promise!vars, PromiseVars
  <1> QED BY SettleInit, <1>1, PTL DEF Spec, SettlesAtomically, Promise!Spec

-----------------------------------------------------------------------------
(* One handler at a time.  What it has read of the committed database is    *)
(* still so when it commits, which overlapping handlers cannot say: the run *)
(* fire_twice shows what becomes of the rule then.                          *)

OneHandler == \A t, o \in Txs : t = o

\* 40% of the comments rows have a reaction among fires, for a comment c.
Full(c, rows, fires) ==
    ReachesThreshold(Cardinality({r \in fires : r[1] = c}),
                     Cardinality({d \in rows : ArgOf[d] = ArgOf[c]}))

\* What the handler has read is what the database says, and it settles exactly
\* if, with its own fire, its untriggered comment is at the threshold.
Judged(r, label, rows, fires, flags) ==
    LET full == Full(r.comment, rows, (fires \ r.deleted) \union r.inserted)
    IN  /\ label # "idle" => r.seenTriggered = flags[r.comment]
        /\ label = "votes" => r.total = Cardinality({d \in rows : ArgOf[d] = ArgOf[r.comment]})
        /\ label \in {"flag"} \union Settling \/ r.rewarded # {} => full
        /\ /\ label \in {"argscore", "commit"}
           /\ r.rewarded = {} /\ r.inserted # {} /\ ~r.seenTriggered
           => ~full

SerialInv ==
    /\ SettleInv
    /\ PayInv
    /\ \A t \in Txs : /\ Account(txn[t], pc[t], score, Rivals(txn[t].comment, posted))
                      /\ Judged(txn[t], pc[t], posted, reactions, triggered)

\* No commit leaves a comment at the threshold untriggered.
NoneMissed ==
    /\ \A r \in reactions : r[1] \in posted
    /\ \A c \in posted : Full(c, posted, reactions) => triggered[c]

\* The promise and the code count the same.
LEMMA Threshold ==
    ASSUME NEW c, NEW fires
    PROVE  Promise!AtThreshold(c, fires) <=> Full(c, posted, fires)
  <1>1. \A x, y : Promise!ReachesThreshold(x, y) = ReachesThreshold(x, y)
    BY DEF Promise!ReachesThreshold, ReachesThreshold
  <1>2. \A S : Promise!Cardinality(S) = Cardinality(S)
    BY Zenon DEF Promise!Cardinality, Cardinality
  <1> QED BY <1>1, <1>2, Zenon DEF Promise!AtThreshold, Full

LEMMA FullIs ==
    ASSUME NEW t \in Txs
    PROVE  ReachesThreshold(FiresOn(txn[t].comment, SeenReactions(t)),
                            Cardinality(CommentsIn(Argument(t))))
             = Full(txn[t].comment, posted, (reactions \ txn[t].deleted) \union txn[t].inserted)
  BY Zenon DEF Full, FiresOn, SeenReactions, CommentsIn, Argument

\* Every statement reads and decides as the rule does.
LEMMA StatementJudged ==
    ASSUME SerialInv, IInv', NEW t \in Txs, Statement(t)
    PROVE  Judged(txn'[t], pc'[t], posted, reactions, triggered)
  <1> DEFINE r == txn[t]
             q == txn'[t]
             Now(x) == Full(x.comment, posted, (reactions \ x.deleted) \union x.inserted)
  <1>0. /\ TypeOK /\ r \in TxnType /\ Judged(r, pc[t], posted, reactions, triggered)
        /\ Tale(r, pc[t], posted, reactions) /\ FlagAndReward(r, pc[t])
        /\ pc[t] \in {"total", "votes", "flag"} \union Settling => ~r.seenTriggered
        /\ txn \in [Txs -> TxnType] /\ pc \in [Txs -> PCs] /\ pc' \in [Txs -> PCs]
    BY TxnFacts DEF SerialInv, PayInv, Eligible, SettleInv, IInv, TypeOK
  <1>1. /\ q.comment = r.comment /\ q.user = r.user /\ q.seenTriggered = r.seenTriggered
        /\ InsertFire(t) \/ q.inserted = r.inserted
        /\ Unfire(t) \/ q.deleted = r.deleted
        /\ RewardWinner(t) \/ q.rewarded = r.rewarded
        /\ pc[t] # "idle"
    BY <1>0, StatementKeeps
  <1>2. q.seenTriggered = triggered[q.comment]
    BY <1>0, <1>1 DEF Judged
  <1>3. pc[t] \notin {"argscore", "commit"} => r.rewarded = {}
    BY <1>0 DEF FlagAndReward
  <1>4. /\ ReadExists(t) => pc'[t] = "toggle"
        /\ Unfire(t) => pc'[t] = "argscore" /\ pc[t] = "toggle"
        /\ InsertFire(t) => pc[t] = "toggle" /\ pc'[t] = IF r.seenTriggered THEN "argscore" ELSE "total"
        /\ CountComments(t) => pc'[t] = "votes" /\ pc[t] = "total"
        /\ FlagComment(t) => pc'[t] = "creator" /\ pc[t] = "flag"
        /\ PenaliseCreator(t) => pc'[t] = "competitors" /\ pc[t] = "creator"
        /\ ReadCompetitors(t) => pc'[t] = "penalise" /\ pc[t] = "competitors"
        /\ PenaliseCompetitor(t) => pc'[t] = "penalise" /\ pc[t] = "penalise"
        /\ RewardWinner(t) => pc'[t] = "argscore" /\ pc[t] = "penalise"
        /\ UpdateArgument(t) => pc'[t] = "commit" /\ pc[t] = "argscore"
    BY <1>0 DEF ReadExists, Unfire, InsertFire, CountComments, FlagComment, PenaliseCreator,
                ReadCompetitors, PenaliseCompetitor, RewardWinner, UpdateArgument, Goto
  <1>5. /\ pc[t] \in {"flag"} \union Settling \/ r.rewarded # {} => Now(r)
        /\ pc[t] = "argscore" /\ r.rewarded = {} /\ r.inserted # {} /\ ~r.seenTriggered => ~Now(r)
    BY <1>0 DEF Judged
  <1>6. ~InsertFire(t) /\ ~Unfire(t) => Now(q) = Now(r)
    BY <1>1
  <1>7. SUFFICES
          /\ pc'[t] = "votes" => q.total = Cardinality({d \in posted : ArgOf[d] = ArgOf[q.comment]})
          /\ pc'[t] \in {"flag"} \union Settling \/ q.rewarded # {} => Now(q)
          /\ /\ pc'[t] \in {"argscore", "commit"}
             /\ q.rewarded = {} /\ q.inserted # {} /\ ~q.seenTriggered
             => ~Now(q)
    BY <1>2 DEF Judged
  <1> HIDE DEF Now
  <1>8. CASE ReadExists(t)
    <2>1. pc[t] = "exists"
      BY <1>8 DEF ReadExists
    <2> QED BY <1>1, <1>3, <1>4, <1>8, <2>1 DEF Settling, RewardWinner
  <1>9. CASE Unfire(t)
    <2>1. r.inserted = {} /\ ~InsertFire(t) /\ ~RewardWinner(t)
      BY <1>0, <1>4, <1>9 DEF Tale, InsertFire, Unfire, RewardWinner
    <2> QED BY <1>1, <1>3, <1>4, <1>9, <2>1 DEF Settling
  <1>10. CASE InsertFire(t)
    <2>1. ~RewardWinner(t)
      BY <1>4, <1>10 DEF RewardWinner
    <2> QED BY <1>1, <1>3, <1>4, <1>10, <2>1 DEF Settling
  <1>11. CASE CountComments(t)
    <2>1. q.total = Cardinality(CommentsIn(Argument(t)))
      <3> DEFINE s == [r EXCEPT !.total = Cardinality(CommentsIn(Argument(t)))]
      <3>1. txn' = [txn EXCEPT ![t] = s]
        BY <1>11, Zenon DEF CountComments
      <3>2. s.total = Cardinality(CommentsIn(Argument(t)))
        BY <1>0 DEF TxnType
      <3> HIDE DEF s
      <3> QED BY <1>0, <3>1, <3>2
    <2>2. ~RewardWinner(t)
      BY <1>4, <1>11
    <2> QED BY <1>1, <1>3, <1>4, <1>11, <2>1, <2>2 DEF Settling, CommentsIn, Argument
  <1>12. CASE CountVotes(t)
    <2>1. /\ pc[t] = "votes" /\ UNCHANGED txn
          /\ pc'[t] = IF ReachesThreshold(FiresOn(r.comment, SeenReactions(t)), r.total)
                      THEN "flag" ELSE "argscore"
      BY <1>0, <1>12 DEF CountVotes, Goto
    <2>2. r.total = Cardinality(CommentsIn(Argument(t)))
      BY <1>0, <2>1 DEF Judged, CommentsIn, Argument
    <2>3. pc'[t] = IF Now(r) THEN "flag" ELSE "argscore"
      BY <2>1, <2>2, FullIs DEF Now
    <2>4. Now(q) = Now(r) /\ r.rewarded = {} /\ q = r
      BY <1>3, <2>1
    <2> QED BY <2>3, <2>4 DEF Settling
  <1>13. CASE FlagComment(t) \/ PenaliseCreator(t) \/ ReadCompetitors(t) \/ PenaliseCompetitor(t)
    <2>1. ~InsertFire(t) /\ ~Unfire(t) /\ Now(q)
      <3>1. pc[t] \in {"flag"} \union Settling /\ pc[t] # "toggle"
        BY <1>4, <1>13 DEF Settling
      <3>2. ~InsertFire(t) /\ ~Unfire(t)
        BY <1>4, <3>1
      <3> QED BY <1>5, <1>6, <3>1, <3>2
    <2> QED BY <1>4, <1>13, <2>1 DEF Settling
  <1>14. CASE RewardWinner(t)
    <2>1. ~InsertFire(t) /\ ~Unfire(t) /\ Now(q)
      <3>1. pc[t] \in Settling /\ ~InsertFire(t) /\ ~Unfire(t)
        BY <1>4, <1>14 DEF Settling
      <3> QED BY <1>5, <1>6, <3>1
    <2>2. q.rewarded # {}
      <3> DEFINE r1 == [txn[t] EXCEPT !.locked = @ \union {Winner(t)}]
                 r2 == [r1 EXCEPT !.new = [txn[t].new EXCEPT ![Winner(t)] = Sees(t, Winner(t)) + Reward]]
                 s == [r2 EXCEPT !.rewarded = {Winner(t)}]
      <3>1. txn' = [txn EXCEPT ![t] = s]
        BY <1>14, Zenon DEF RewardWinner
      <3>2. s.rewarded = {Winner(t)}
        BY <1>0 DEF TxnType
      <3> HIDE DEF s
      <3> QED BY <1>0, <3>1, <3>2
    <2> QED BY <1>4, <1>14, <2>1, <2>2 DEF Settling
  <1>15. CASE UpdateArgument(t)
    <2>1. ~InsertFire(t) /\ ~Unfire(t) /\ ~RewardWinner(t)
      BY <1>4, <1>15
    <2> QED BY <1>1, <1>4, <1>5, <1>6, <1>15, <2>1 DEF Settling
  <1> QED BY <1>8, <1>9, <1>10, <1>11, <1>12, <1>13, <1>14, <1>15 DEF Statement

\* With one handler every step that goes on keeps the account of all the rivals.
LEMMA ContinuesSerial ==
    ASSUME OneHandler, SettleInv', PayInv', NEW t \in Txs,
           Continues(t, Rivals(txn'[t].comment, posted)), UNCHANGED triggered,
           Judged(txn'[t], pc'[t], posted, reactions, triggered)
    PROVE  SerialInv'
  <1>1. \A o \in Txs : o = t
    BY DEF OneHandler
  <1>2. \A o \in Txs :
           /\ Account(txn'[o], pc'[o], score', Rivals(txn'[o].comment, posted'))
           /\ Judged(txn'[o], pc'[o], posted', reactions', triggered')
    BY <1>1 DEF Continues
  <1> QED BY <1>2 DEF SerialInv

\* A handler that has just begun, and one that is through, has judged nothing.
LEMMA FreshJudged ==
    ASSUME NEW u \in Users, NEW c \in Comments, NEW b \in BOOLEAN,
           NEW rows, NEW fires, NEW flags
    PROVE  /\ Judged(Fresh(u, c, b), "idle", rows, fires, flags)
           /\ b = flags[c] => Judged(Fresh(u, c, b), "exists", rows, fires, flags)
  <1>1. Fresh(u, c, b).rewarded = {} /\ Fresh(u, c, b).comment = c /\ Fresh(u, c, b).seenTriggered = b
    BY DEF Fresh
  <1> QED BY <1>1 DEF Judged, Settling

LEMMA SerialNext ==
    ASSUME OneHandler, SerialInv, SettleInv', PayInv', [Next]_vars
    PROVE  SerialInv' /\ [Promise!StrictNext]_PromiseVars
  <1>0. SettleInv /\ IInv /\ IInv' /\ TypeOK
    BY DEF SerialInv, SettleInv, IInv
  <1>1. CASE UNCHANGED vars
    BY <1>1 DEF vars, PromiseVars, SerialInv
  <1>2. ASSUME NEW t \in Txs, NEW u \in Users, NEW c \in Comments, ReadComment(t, u, c)
        PROVE  SerialInv' /\ [Promise!StrictNext]_PromiseVars
    <2>1. UNCHANGED <<score, posted, triggered, reactions>>
      BY <1>2 DEF ReadComment, dbVars
    <2>2. CASE UNCHANGED <<pc, txn>>
      BY <2>1, <2>2 DEF PromiseVars, SerialInv
    <2>3. CASE ~UNCHANGED <<pc, txn>>
      <3>1. /\ Continues(t, Rivals(txn'[t].comment, posted))
            /\ txn'[t] = Fresh(u, c, triggered[c]) /\ pc'[t] = "exists"
        BY <1>0, <1>2, <2>3, BeginsAccount
      <3>2. Judged(txn'[t], pc'[t], posted, reactions, triggered)
        BY <1>0, <3>1, FreshJudged DEF TypeOK
      <3>3. SerialInv'
        BY <2>1, <3>1, <3>2, ContinuesSerial
      <3> QED BY <2>1, <3>3 DEF PromiseVars
    <2> QED BY <2>2, <2>3
  <1>3. ASSUME NEW t \in Txs, Statement(t)
        PROVE  SerialInv' /\ [Promise!StrictNext]_PromiseVars
    <2>1. Account(txn[t], pc[t], score, Rivals(txn[t].comment, posted))
      BY DEF SerialInv
    <2>2. txn'[t].comment = txn[t].comment /\ UNCHANGED PromiseVars
      BY <1>0, <1>3, StatementKeeps
    <2>3. Continues(t, Rivals(txn'[t].comment, posted))
      BY <1>0, <1>3, <2>1, <2>2, StatementContinues
    <2>4. Judged(txn'[t], pc'[t], posted, reactions, triggered)
      BY <1>0, <1>3, StatementJudged
    <2> QED BY <2>2, <2>3, <2>4, ContinuesSerial DEF PromiseVars
  <1>4. ASSUME NEW t \in Txs, Rollback(t)
        PROVE  SerialInv' /\ [Promise!StrictNext]_PromiseVars
    <2>1. /\ Continues(t, Rivals(txn'[t].comment, posted)) /\ UNCHANGED PromiseVars
          /\ txn'[t] = Blank /\ pc'[t] = "idle"
      BY <1>0, <1>4, RollbackSettles DEF Rollback, KeepDb, dbVars, PromiseVars, Goto, TypeOK
    <2>2. Judged(txn'[t], pc'[t], posted, reactions, triggered)
      BY <2>1, FreshJudged, ConstantsAssumption DEF Blank
    <2> QED BY <2>1, <2>2, ContinuesSerial DEF PromiseVars
  <1>5. ASSUME NEW t \in Txs, Commit(t)
        PROVE  SerialInv' /\ [Promise!StrictNext]_PromiseVars
    <2> DEFINE r == txn[t]
               seen == Rivals(r.comment, posted)
    <2>1. /\ Account(r, pc[t], score, seen) /\ Judged(r, "commit", posted, reactions, triggered)
          /\ r.rewarded # {} => ~r.seenTriggered
      BY <1>0, <1>5, CommitFacts DEF SerialInv, PayInv, Eligible
    <2>2. CommitKinds(t, seen)
      BY <1>0, <1>5, <2>1, CommitPromise
    <2>3. /\ r.comment \in Comments /\ r.user \in Users
          /\ reactions' = (reactions \ r.deleted) \union r.inserted
          /\ txn'[t] = Blank /\ pc'[t] = "idle"
      BY <1>0, <1>5, CommitFacts
    <2>4. seen = Promise!Competitors(r.comment)
      BY DEF Rivals, Promise!Competitors
    <2>5. /\ r.seenTriggered = triggered[r.comment]
          /\ r.rewarded # {} => Promise!AtThreshold(r.comment, reactions')
          /\ r.rewarded = {} /\ r.inserted # {} /\ ~r.seenTriggered
                => ~Promise!AtThreshold(r.comment, reactions')
      BY <2>1, <2>3, Threshold DEF Judged
    <2>6. [Promise!StrictNext]_PromiseVars
      <3> HIDE DEF r, seen
      <3>1. r.inserted # {} /\ r.rewarded = {} => Promise!StrictFire(r.user, r.comment) \/ ~CommitKinds(t, seen)
        BY <2>5 DEF CommitKinds, Promise!StrictFire, r
      <3>2. r.rewarded # {} /\ r.inserted # {} => Promise!StrictFire(r.user, r.comment) \/ ~CommitKinds(t, seen)
        BY <2>1, <2>4, <2>5 DEF CommitKinds, Promise!StrictFire, r
      <3>3. r.inserted = {} => UNCHANGED PromiseVars \/ Promise!Unfire(r.user, r.comment)
        BY <2>2 DEF CommitKinds, r
      <3> QED BY <2>2, <2>3, <3>1, <3>2, <3>3 DEF Promise!StrictNext
    <2>7. SerialInv'
      <3>1. \A o \in Txs : txn'[o] = Blank /\ pc'[o] = "idle"
        BY <2>3 DEF OneHandler
      <3>2. /\ Account(Blank, "idle", score', Rivals(Blank.comment, posted'))
            /\ Judged(Blank, "idle", posted', reactions', triggered')
        BY FreshTale, FreshJudged, ConstantsAssumption DEF Blank
      <3> QED BY <3>1, <3>2 DEF SerialInv
    <2> QED BY <2>6, <2>7
  <1>6. ASSUME NEW t \in Txs, NEW c \in Comments, PostComment(t, c)
        PROVE  SerialInv' /\ [Promise!StrictNext]_PromiseVars
    <2>1. /\ posted' = posted \union {c} /\ c \notin posted /\ pc[t] = "idle"
          /\ UNCHANGED <<score, triggered, reactions, pc, txn>>
      BY <1>6 DEF PostComment
    <2>2. ASSUME NEW o \in Txs
          PROVE  /\ Account(txn[o], pc[o], score, Rivals(txn[o].comment, posted'))
                 /\ Judged(txn[o], pc[o], posted', reactions, triggered)
      <3>1. pc[o] = "idle" /\ txn[o].rewarded = {}
        BY <2>1 DEF OneHandler, SerialInv, PayInv, Eligible
      <3>2. txn[o].locked = {}
        BY <3>1, NothingLocked DEF SerialInv, Unsettled
      <3> QED BY <3>1, <3>2, AccountEmpty DEF Unsettled, Judged, Settling
    <2>3. SerialInv'
      BY <2>1, <2>2 DEF SerialInv
    <2>4. Promise!Post(c)
      BY <2>1 DEF Promise!Post
    <2> QED BY <2>3, <2>4 DEF Promise!StrictNext
  <1> QED BY <1>1, <1>2, <1>3, <1>4, <1>5, <1>6
          DEF Next, Step, Statement, InsertRefused, Abort, DeadlockVictim

\* The accounts and the payouts are kept for any number of handlers.
LEMMA SerialSteps == OneHandler => (SerialInv /\ [Next]_vars => SerialInv' /\ [Promise!StrictNext]_PromiseVars)
  <1> SUFFICES ASSUME OneHandler, SerialInv, [Next]_vars
               PROVE  SerialInv' /\ [Promise!StrictNext]_PromiseVars
    OBVIOUS
  <1>1. SettleInv /\ PayInv /\ IInv
    BY DEF SerialInv, SettleInv
  <1>2. IInv'
    BY <1>1, InvNext
  <1>3. SettleInv' /\ PayInv'
    BY <1>1, <1>2, SettleNext, PayNext
  <1> QED BY <1>3, SerialNext

LEMMA SerialInit == Init => SerialInv
  <1> SUFFICES ASSUME Init PROVE SerialInv
    OBVIOUS
  <1>1. \A t \in Txs : txn[t] = Blank /\ pc[t] = "idle"
    BY DEF Init
  <1>2. /\ Account(Blank, "idle", score, Rivals(Blank.comment, posted))
        /\ Judged(Blank, "idle", posted, reactions, triggered)
    BY FreshTale, FreshJudged, ConstantsAssumption DEF Blank
  <1> QED BY <1>1, <1>2, SettleInit, PayInit DEF SerialInv

\* With one request at a time the code obeys the whole rule: a fire settles exactly
\* when it takes an untriggered comment to 40%, and then hits every other commenter
\* of the argument.
THEOREM OneHandlerFollowsTheRule ==
    ASSUME OneHandler PROVE Spec => FollowsTheRule
  <1>1. SerialInv /\ [Next]_vars => SerialInv' /\ [Promise!StrictNext]_Promise!vars
    BY SerialSteps DEF Promise!vars, PromiseVars
  <1>2. Init => Promise!Init
    BY SettleInit
  <1> QED BY SerialInit, <1>1, <1>2, PTL DEF Spec, FollowsTheRule, Promise!StrictSpec

\* With one request at a time a comment wins its consensus once (README.md:77),
\* however often its reactions are taken back and given again.
THEOREM OneHandlerPaysOnce ==
    ASSUME OneHandler PROVE Spec => []ConsensusOnce
  <1>1. PayInv => ConsensusOnce
    <2> SUFFICES ASSUME PayInv, NEW c \in Comments PROVE wins[c] <= 1
      BY DEF ConsensusOnce
    <2>1. Cardinality(Txs) <= 1
      <3>1. CASE Txs = {}
        BY <3>1, FS_EmptySet
      <3>2. CASE Txs # {}
        <4>1. PICK t : Txs = {t}
          BY <3>2 DEF OneHandler
        <4>2. Cardinality({t}) = 1
          BY FS_Singleton
        <4>3. Cardinality(Txs) = 1
          BY <4>1, <4>2, Zenon
        <4> QED BY <4>3
      <3> QED BY <3>1, <3>2
    <2>2. wins[c] \in Nat /\ (triggered[c] <=> wins[c] > 0)
      BY DEF PayInv, IInv, TypeOK, AllOrNothing
    <2>3. triggered[c] => wins[c] + Cardinality(Contenders(c)) <= Cardinality(Txs)
      BY DEF PayInv, PayoutsBounded
    <2> QED BY <2>1, <2>2, <2>3, ContendersFinite
  <1>2. PayInv /\ [Next]_vars => PayInv'
    <2>1. PayInv => IInv
      BY DEF PayInv
    <2> QED BY <2>1, InvNext, PayNext
  <1> QED BY PayInit, <1>1, <1>2, PTL DEF Spec

\* More comments and fewer reactions leave fewer comments at the threshold, and a
\* comment nobody has reacted to is not at it.
LEMMA FullShrinks ==
    ASSUME NEW c, NEW rows \in SUBSET Comments, NEW more \in SUBSET Comments, rows \subseteq more,
           NEW fires \in SUBSET Rows, NEW fewer,
           {r \in fewer : r[1] = c} \subseteq {r \in fires : r[1] = c}
    PROVE  /\ Full(c, more, fewer) /\ c \in rows => Full(c, rows, fires)
           /\ {r \in fewer : r[1] = c} = {} => ~Full(c, more, fewer)
  <1> DEFINE few == {r \in fewer : r[1] = c}
             many == {r \in fires : r[1] = c}
             total == {d \in rows : ArgOf[d] = ArgOf[c]}
             larger == {d \in more : ArgOf[d] = ArgOf[c]}
  <1>1. IsFiniteSet(Rows) /\ IsFiniteSet(Comments)
    BY ConstantsAssumption, FS_Product DEF Rows
  <1>2. IsFiniteSet(many) /\ Cardinality(many) \in Nat
    <2>1. many \in SUBSET Rows
      OBVIOUS
    <2> HIDE DEF many
    <2> QED BY <1>1, <2>1, FS_Subset, FS_CardinalityType
  <1>3. /\ Cardinality(few) \in Nat /\ Cardinality(few) <= Cardinality(many)
        /\ few = {} => Cardinality(few) = 0
    <2>1. few \in SUBSET many
      OBVIOUS
    <2> HIDE DEF many, few
    <2> QED BY <1>2, <2>1, FS_Subset, FS_CardinalityType, FS_EmptySet
  <1>4. IsFiniteSet(larger) /\ Cardinality(larger) \in Nat
    <2>1. larger \in SUBSET Comments
      OBVIOUS
    <2> HIDE DEF larger
    <2> QED BY <1>1, <2>1, FS_Subset, FS_CardinalityType
  <1>5. /\ Cardinality(total) \in Nat /\ Cardinality(total) <= Cardinality(larger)
        /\ c \in rows => Cardinality(total) # 0
    <2>1. total \in SUBSET larger /\ (c \in rows => total # {})
      OBVIOUS
    <2> HIDE DEF total, larger
    <2> QED BY <1>4, <2>1, FS_Subset, FS_CardinalityType, FS_EmptySet
  <1> HIDE DEF few, many, total, larger
  <1>6. /\ Full(c, more, fewer) <=> ReachesThreshold(Cardinality(few), Cardinality(larger))
        /\ Full(c, rows, fires) <=> ReachesThreshold(Cardinality(many), Cardinality(total))
    BY Zenon DEF Full, few, many, total, larger
  <1>7. /\ Full(c, more, fewer) /\ c \in rows => Full(c, rows, fires)
        /\ few = {} => ~Full(c, more, fewer)
    BY <1>2, <1>3, <1>4, <1>5, <1>6 DEF ReachesThreshold
  <1> QED BY <1>7 DEF few

\* No reaction of the rule leaves a comment at the threshold untriggered.
LEMMA NoneMissedStep ==
    ASSUME TypeOK, NoneMissed, [Promise!StrictNext]_PromiseVars
    PROVE  NoneMissed'
  <1>0. /\ posted \in SUBSET Comments /\ reactions \in SUBSET Rows
        /\ triggered \in [Comments -> BOOLEAN]
    BY DEF TypeOK
  <1>1. CASE UNCHANGED PromiseVars
    BY <1>1 DEF PromiseVars, NoneMissed
  <1>2. ASSUME NEW c \in Comments, Promise!Post(c) PROVE NoneMissed'
    <2>1. posted' = posted \union {c} /\ UNCHANGED <<triggered, reactions>> /\ c \notin posted
      BY <1>2 DEF Promise!Post
    <2>2. ASSUME NEW d \in posted', Full(d, posted', reactions) PROVE triggered[d]
      <3>1. posted' \in SUBSET Comments /\ posted \subseteq posted'
        BY <1>0, <2>1
      <3>2. CASE d \in posted
        BY <1>0, <2>2, <3>1, <3>2, FullShrinks DEF NoneMissed
      <3>3. CASE d \notin posted
        <4>1. {r \in reactions : r[1] = d} = {}
          BY <3>3 DEF NoneMissed
        <4> QED BY <1>0, <2>2, <3>1, <4>1, FullShrinks
      <3> QED BY <3>2, <3>3
    <2> QED BY <2>1, <2>2 DEF NoneMissed
  <1>3. ASSUME NEW u \in Users, NEW c \in Comments, Promise!Unfire(u, c) PROVE NoneMissed'
    <2>1. /\ posted' = posted /\ triggered' = triggered
          /\ reactions' \subseteq reactions
      BY <1>3 DEF Promise!Unfire, Promise!Quiet
    <2>2. ASSUME NEW d \in posted, Full(d, posted, reactions') PROVE triggered[d]
      <3>1. {r \in reactions' : r[1] = d} \subseteq {r \in reactions : r[1] = d}
        BY <2>1
      <3> QED BY <1>0, <2>2, <3>1, FullShrinks DEF NoneMissed
    <2> QED BY <2>1, <2>2 DEF NoneMissed
  <1>4. ASSUME NEW u \in Users, NEW c \in Comments, Promise!StrictFire(u, c) PROVE NoneMissed'
    <2>1. /\ posted' = posted /\ c \in posted
          /\ reactions' = reactions \union {<<c, u>>}
      BY <1>4 DEF Promise!StrictFire, Promise!Fire
    <2>2. /\ \A d \in Comments : triggered[d] => triggered'[d]
          /\ Full(c, posted, reactions') => triggered'[c]
      <3>1. Promise!AtThreshold(c, reactions') <=> Full(c, posted, reactions')
        BY Threshold
      <3>2. Promise!Quiet \/ \E hit : Promise!Settle(c, hit)
        BY <1>4 DEF Promise!StrictFire
      <3>3. ~triggered[c] /\ Full(c, posted, reactions') => \E hit : Promise!Settle(c, hit)
        BY <1>4, <3>1 DEF Promise!StrictFire
      <3>4. (\E hit : Promise!Settle(c, hit)) => triggered' = [triggered EXCEPT ![c] = TRUE]
        BY DEF Promise!Settle
      <3>5. Promise!Quiet => triggered' = triggered
        BY DEF Promise!Quiet
      <3> QED BY <1>0, <3>2, <3>3, <3>4, <3>5
    <2>3. ASSUME NEW d \in posted, Full(d, posted, reactions') PROVE triggered'[d]
      <3>1. CASE d = c
        BY <2>2, <2>3, <3>1
      <3>2. CASE d # c
        <4>1. {r \in reactions' : r[1] = d} \subseteq {r \in reactions : r[1] = d}
          BY <2>1, <3>2
        <4>2. Full(d, posted, reactions)
          BY <1>0, <2>3, <4>1, FullShrinks
        <4> QED BY <1>0, <2>2, <4>2 DEF NoneMissed
      <3> QED BY <3>1, <3>2
    <2>4. \A r \in reactions' : r[1] \in posted
      BY <2>1 DEF NoneMissed
    <2> QED BY <2>1, <2>3, <2>4 DEF NoneMissed
  <1> QED BY <1>1, <1>2, <1>3, <1>4 DEF Promise!StrictNext

\* With one request at a time no comment that reaches 40% is left untriggered
\* (README.md:77): neither a fire, nor one taken back, nor a comment that is posted
\* in between gets it there unseen.
THEOREM OneHandlerMissesNothing ==
    ASSUME OneHandler PROVE Spec => []NoMissedConsensus
  <1>1. Init => NoneMissed
    <2> SUFFICES ASSUME Init, NEW c \in posted PROVE ~Full(c, posted, {})
      BY DEF Init, NoneMissed
    <2>1. posted \in SUBSET Comments
      BY ConstantsAssumption DEF Init
    <2>2. {r \in {} : r[1] = c} = {}
      OBVIOUS
    <2> QED BY <2>1, <2>2, FullShrinks
  <1>2. SerialInv /\ NoneMissed /\ [Next]_vars => SerialInv' /\ NoneMissed'
    <2>1. SerialInv => TypeOK
      BY DEF SerialInv, SettleInv, IInv
    <2> QED BY <2>1, SerialSteps, NoneMissedStep
  <1>3. NoneMissed => NoMissedConsensus
    BY Zenon DEF NoneMissed, NoMissedConsensus, Full, FiresOn, CommentsIn
  <1> QED BY SerialInit, <1>1, <1>2, <1>3, PTL DEF Spec
=============================================================================
