---------------------------- MODULE FireReaction ----------------------------
(***************************************************************************)
(* HandleFireReaction and ApplyConsensusDeflationTx as Postgres runs them: *)
(* one step per SQL statement, at READ COMMITTED.  A statement sees what   *)
(* is committed plus the writes of its own transaction; row locks are held *)
(* to the end of the transaction; COMMIT installs all of its writes at     *)
(* once, and any error rolls all of them back.                             *)
(*                                                                         *)
(* Row locks.  SELECT ... FOR UPDATE of a user row conflicts with every    *)
(* other lock.  UPDATE users SET logic_score takes NO KEY UPDATE, which    *)
(* conflicts with the exclusive modes only.  Inserting a reaction or a     *)
(* comment checks its foreign key with KEY SHARE on the user's row, which  *)
(* conflicts with FOR UPDATE only.                                         *)
(*                                                                         *)
(* HandleCreateComment is here as far as it commits a comment: it changes  *)
(* the denominator of the threshold and the set of competitors.            *)
(***************************************************************************)
EXTENDS Scoring, SequencesExt

CONSTANTS Users, Arguments, Comments,
          Txs,            \* request handlers that may hold a transaction
          Author,         \* Author[c]  : comments.user_id
          ArgOf,          \* ArgOf[c]   : comments.argument_id
          Creator,        \* Creator[a] : arguments.user_id
          InitialComments,\* the comments there are at the start
          InitialScore,   \* logic_score of a new account (1000 in HandleRegister)
          MaxRequests     \* bound: requests started in a behaviour

ASSUME ConstantsAssumption ==
    /\ Author \in [Comments -> Users]
    /\ ArgOf \in [Comments -> Arguments]
    /\ Creator \in [Arguments -> Users]
    /\ Users # {} /\ IsFiniteSet(Users)
    /\ Comments # {} /\ IsFiniteSet(Comments)
    /\ IsFiniteSet(Txs)
    /\ InitialComments \subseteq Comments
    /\ InitialScore \in Nat
    /\ MaxRequests \in Nat

VARIABLES
    \* the committed database
    score,      \* users.logic_score
    ledger,     \* sum of score_events.delta_score per user
    posted,     \* rows of comments
    triggered,  \* comments.is_fire_triggered
    reactions,  \* rows of comment_reactions, <<comment, user>>
    \* the handlers
    pc,         \* the statement each one runs next
    txn,        \* what each one has read, locked and written so far
    \* bookkeeping of the model
    wins,       \* committed consensus payouts per comment
    paid,       \* committed +50 rewards per user
    started     \* requests started

dbVars == <<score, ledger, posted, triggered, reactions>>
vars == <<score, ledger, posted, triggered, reactions, pc, txn, wins, paid, started>>

PCs == {"idle", "exists", "toggle", "total", "votes", "flag", "creator",
        "competitors", "penalise", "argscore", "commit"}

-----------------------------------------------------------------------------
(* A transaction.  new[u] is the logic_score this transaction leaves in a  *)
(* user row it has locked; log[u] the score_events rows it has added.      *)

Rows == Comments \X Users

TxnType ==
    [comment : Comments, user : Users,
     seenTriggered : BOOLEAN,      \* isTriggered
     exists : BOOLEAN,             \* a reaction was there: this is an un-fire
     total : Nat,                  \* totalComments
     inserted : SUBSET Rows,       \* reaction rows inserted
     deleted : SUBSET Rows,        \* reaction rows deleted
     flagged : SUBSET Comments,    \* comments rows set to triggered
     forUpdate : SUBSET Users,     \* rows locked by SELECT ... FOR UPDATE
     locked : SUBSET Users,        \* rows locked in either exclusive mode
     new : [Users -> Int],
     log : [Users -> Int],
     competitors : Seq(Users),     \* compUserIDs still to visit, in order
     rewarded : SUBSET Users,      \* rows given the +50
     scored : SUBSET Arguments]    \* arguments rows updated

\* A transaction that has read comment c for user u and written nothing.
Fresh(u, c, isTriggered) ==
    [comment |-> c, user |-> u, seenTriggered |-> isTriggered,
     exists |-> FALSE, total |-> 0,
     inserted |-> {}, deleted |-> {}, flagged |-> {},
     forUpdate |-> {}, locked |-> {},
     new |-> [x \in Users |-> 0], log |-> [x \in Users |-> 0],
     competitors |-> <<>>, rewarded |-> {}, scored |-> {}]

\* A handler without a transaction: nothing locked, nothing written.
Blank == Fresh(CHOOSE u \in Users : TRUE, CHOOSE c \in Comments : TRUE, FALSE)

Others(t) == Txs \ {t}
Argument(t) == ArgOf[txn[t].comment]
Winner(t) == Author[txn[t].comment]
Row(t) == <<txn[t].comment, txn[t].user>>

\* Who holds what.
KeyShare(t) == {r[2] : r \in txn[t].inserted}
MutantForUpdateBlockers(t, u) == {}     \* the SELECT has no FOR UPDATE
ForUpdateBlockers(t, u) ==
    {o \in Others(t) : u \in txn[o].locked \/ u \in KeyShare(o)}
NoKeyUpdateBlockers(t, u) == {o \in Others(t) : u \in txn[o].locked}
KeyShareBlockers(t, u) == {o \in Others(t) : u \in txn[o].forUpdate}
DeleteBlockers(t) == {o \in Others(t) : Row(t) \in txn[o].deleted}
InsertBlockers(t) ==
    {o \in Others(t) : Row(t) \in txn[o].inserted \union txn[o].deleted}
        \union KeyShareBlockers(t, txn[t].user)
FlagBlockers(t) == {o \in Others(t) : txn[t].comment \in txn[o].flagged}
ArgBlockers(t) ==
    {o \in Others(t) : Argument(t) \in txn[o].scored}

\* What transaction t sees of a user's score: its own write, else the
\* committed row (a waiter re-reads the row once it has the lock).
Sees(t, u) == IF u \in txn[t].locked THEN txn[t].new[u] ELSE score[u]

CommentsIn(a) == {c \in posted : ArgOf[c] = a}
SeenReactions(t) == (reactions \ txn[t].deleted) \union txn[t].inserted
FiresOn(c, rows) == Cardinality({r \in rows : r[1] = c})

Goto(t, label) == pc' = [pc EXCEPT ![t] = label]
KeepDb == UNCHANGED <<dbVars, wins, paid, started>>

-----------------------------------------------------------------------------
Init ==
    /\ score = [u \in Users |-> InitialScore]
    /\ ledger = [u \in Users |-> 0]
    /\ posted = InitialComments
    /\ triggered = [c \in Comments |-> FALSE]
    /\ reactions = {}
    /\ pc = [t \in Txs |-> "idle"]
    /\ txn = [t \in Txs |-> Blank]
    /\ wins = [c \in Comments |-> 0]
    /\ paid = [u \in Users |-> 0]
    /\ started = 0

\* A request arrives, BEGIN, and the comment is read without a lock.  A
\* missing comment answers 404 and the user's own comment 400: both leave
\* through the deferred Rollback with nothing written.
ReadComment(t, u, c) ==
    /\ pc[t] = "idle"
    /\ started < MaxRequests
    /\ started' = started + 1
    /\ IF c \in posted /\ u # Author[c]
       THEN /\ Goto(t, "exists")
            /\ txn' = [txn EXCEPT ![t] = Fresh(u, c, triggered[c])]
       ELSE UNCHANGED <<pc, txn>>
    /\ UNCHANGED <<dbVars, wins, paid>>

\* SELECT EXISTS(... reaction_type = 'fire').
ReadExists(t) ==
    /\ pc[t] = "exists"
    /\ txn' = [txn EXCEPT ![t].exists = Row(t) \in reactions]
    /\ Goto(t, "toggle")
    /\ KeepDb

\* Mutant: an early return without the deferred Rollback keeps its locks.
MutantRollback(t) == Goto(t, "idle") /\ UNCHANGED txn /\ KeepDb

\* Rollback: the deferred tx.Rollback() after any early return.
Rollback(t) ==
    /\ Goto(t, "idle")
    /\ txn' = [txn EXCEPT ![t] = Blank]
    /\ KeepDb

\* DELETE of a reaction that is already gone affects no row and is no error.
Unfire(t) ==
    /\ pc[t] = "toggle"
    /\ txn[t].exists
    /\ DeleteBlockers(t) = {}
    /\ txn' = [txn EXCEPT ![t].deleted = {Row(t)} \intersect reactions]
    /\ Goto(t, "argscore")
    /\ KeepDb

\* Mutant: the flag of the comment is not looked at.
MutantInsertFire(t) ==
    /\ pc[t] = "toggle"
    /\ ~txn[t].exists
    /\ InsertBlockers(t) = {}
    /\ Row(t) \notin reactions
    /\ txn' = [txn EXCEPT ![t].inserted = {Row(t)}]
    /\ Goto(t, "total")
    /\ KeepDb

\* INSERT waits for whoever is inserting or deleting the same key and for
\* the key share lock on the user's row.
InsertFire(t) ==
    /\ pc[t] = "toggle"
    /\ ~txn[t].exists
    /\ InsertBlockers(t) = {}
    /\ Row(t) \notin reactions
    /\ txn' = [txn EXCEPT ![t].inserted = {Row(t)}]
    /\ Goto(t, IF txn[t].seenTriggered THEN "argscore" ELSE "total")
    /\ KeepDb

\* The key is there by now: unique_comment_user_reaction, answered 500.
InsertRefused(t) ==
    /\ pc[t] = "toggle"
    /\ ~txn[t].exists
    /\ InsertBlockers(t) = {}
    /\ Row(t) \in reactions
    /\ Rollback(t)

CountComments(t) ==
    /\ pc[t] = "total"
    /\ txn' = [txn EXCEPT ![t].total = Cardinality(CommentsIn(Argument(t)))]
    /\ Goto(t, "votes")
    /\ KeepDb

\* Mutant: the votes are counted outside the transaction, without its own.
MutantCountVotes(t) ==
    /\ pc[t] = "votes"
    /\ Goto(t, IF ReachesThreshold(FiresOn(txn[t].comment, reactions), txn[t].total)
               THEN "flag" ELSE "argscore")
    /\ UNCHANGED txn
    /\ KeepDb

\* fireVotes, and the 40% test on it.
CountVotes(t) ==
    /\ pc[t] = "votes"
    /\ Goto(t, IF ReachesThreshold(FiresOn(txn[t].comment, SeenReactions(t)),
                                   txn[t].total)
               THEN "flag" ELSE "argscore")
    /\ UNCHANGED txn
    /\ KeepDb

-----------------------------------------------------------------------------
(* ApplyConsensusDeflationTx. *)

\* Mutant: the flag is set on the pool's connection, outside the transaction.
MutantFlagComment(t) ==
    /\ pc[t] = "flag"
    /\ FlagBlockers(t) = {}
    /\ triggered' = [triggered EXCEPT ![txn[t].comment] = TRUE]
    /\ Goto(t, "creator")
    /\ UNCHANGED <<score, ledger, posted, reactions, txn, wins, paid, started>>

\* UPDATE comments SET is_fire_triggered = TRUE, unconditionally: a waiter
\* finds the flag set already and goes on.
FlagComment(t) ==
    /\ pc[t] = "flag"
    /\ FlagBlockers(t) = {}
    /\ txn' = [txn EXCEPT ![t].flagged = {txn[t].comment}]
    /\ Goto(t, "creator")
    /\ KeepDb

\* r after SELECT ... FOR UPDATE of u, which reads s, UPDATE and the
\* score_events row, for a penalty p.
Penalised(r, u, s, p) ==
    [r EXCEPT !.forUpdate = @ \union {u},
              !.locked = @ \union {u},
              !.new[u] = Deduct(s, p),
              !.log[u] = @ - p]

\* Mutant: a creator who wins is let off.
MutantPenaliseCreator(t) ==
    LET u == Creator[Argument(t)]
        s == Sees(t, u)
    IN  /\ pc[t] = "creator"
        /\ ForUpdateBlockers(t, u) = {}
        /\ txn' = IF u = Winner(t) THEN txn
                  ELSE [txn EXCEPT ![t] =
                           Penalised(txn[t], u, s, CalculateCreatorPenalty(s))]
        /\ Goto(t, "competitors")
        /\ KeepDb

PenaliseCreator(t) ==
    LET u == Creator[Argument(t)]
        s == Sees(t, u)
    IN  /\ pc[t] = "creator"
        /\ ForUpdateBlockers(t, u) = {}
        /\ txn' = [txn EXCEPT ![t] =
                      Penalised(txn[t], u, s, CalculateCreatorPenalty(s))]
        /\ Goto(t, "competitors")
        /\ KeepDb

\* Mutant: the comments' ids are selected where their users are meant.
MutantCompetitors(t) ==
    CommentsIn(Argument(t)) \ {txn[t].comment}

\* The users of the argument's other comments, without the winner.
Competitors(t) ==
    {Author[c] : c \in CommentsIn(Argument(t)) \ {txn[t].comment}} \ {Winner(t)}

\* SELECT DISTINCT user_id ..., which has no ORDER BY: any order.
ReadCompetitors(t) ==
    /\ pc[t] = "competitors"
    /\ \E order \in SetToSeqs(Competitors(t)) :
          txn' = [txn EXCEPT ![t].competitors = order]
    /\ Goto(t, "penalise")
    /\ KeepDb

\* Mutant: the balance is read outside the transaction, so that the hits on a
\* creator who competes do not compound.
MutantPenaliseCompetitor(t) ==
    LET u == Head(txn[t].competitors)
        s == score[u]
    IN  /\ pc[t] = "penalise"
        /\ txn[t].competitors # <<>>
        /\ ForUpdateBlockers(t, u) = {}
        /\ txn' = [txn EXCEPT ![t] =
              [Penalised(txn[t], u, s, CalculateCompetitorPenalty(s))
                  EXCEPT !.competitors = Tail(txn[t].competitors)]]
        /\ UNCHANGED pc
        /\ KeepDb

\* One turn of the loop over compUserIDs.
PenaliseCompetitor(t) ==
    LET u == Head(txn[t].competitors)
        s == Sees(t, u)
    IN  /\ pc[t] = "penalise"
        /\ txn[t].competitors # <<>>
        /\ ForUpdateBlockers(t, u) = {}
        /\ txn' = [txn EXCEPT ![t] =
              [Penalised(txn[t], u, s, CalculateCompetitorPenalty(s))
                  EXCEPT !.competitors = Tail(txn[t].competitors)]]
        /\ UNCHANGED pc
        /\ KeepDb

\* UPDATE users SET logic_score = logic_score + 50, with no score_events row.
RewardWinner(t) ==
    LET u == Winner(t)
    IN  /\ pc[t] = "penalise"
        /\ txn[t].competitors = <<>>
        /\ NoKeyUpdateBlockers(t, u) = {}
        /\ txn' = [txn EXCEPT ![t].locked = @ \union {u},
                              ![t].new[u] = Sees(t, u) + Reward,
                              ![t].rewarded = {u}]
        /\ Goto(t, "argscore")
        /\ KeepDb

-----------------------------------------------------------------------------
\* UPDATE arguments SET logic_score: of the stored value only the row lock
\* is kept here.
UpdateArgument(t) ==
    /\ pc[t] = "argscore"
    /\ ArgBlockers(t) = {}
    /\ txn' = [txn EXCEPT ![t].scored = {Argument(t)}]
    /\ Goto(t, "commit")
    /\ KeepDb

Commit(t) ==
    /\ pc[t] = "commit"
    /\ score' = [u \in Users |-> Sees(t, u)]
    /\ ledger' = [u \in Users |-> ledger[u] + txn[t].log[u]]
    /\ triggered' = [c \in Comments |-> triggered[c] \/ c \in txn[t].flagged]
    /\ reactions' = SeenReactions(t)
    /\ wins' = IF txn[t].rewarded # {}
               THEN [wins EXCEPT ![txn[t].comment] = @ + 1] ELSE wins
    /\ paid' = [u \in Users |-> IF u \in txn[t].rewarded THEN paid[u] + 1 ELSE paid[u]]
    /\ Goto(t, "idle")
    /\ txn' = [txn EXCEPT ![t] = Blank]
    /\ UNCHANGED <<posted, started>>

\* A statement fails, or the connection or the server is lost: Postgres
\* rolls the transaction back.
Abort(t) == pc[t] # "idle" /\ Rollback(t)

-----------------------------------------------------------------------------
(* Postgres's deadlock detector. *)

Blockers(t) ==
    CASE pc[t] = "toggle" /\ txn[t].exists  -> DeleteBlockers(t)
      [] pc[t] = "toggle" /\ ~txn[t].exists -> InsertBlockers(t)
      [] pc[t] = "flag"     -> FlagBlockers(t)
      [] pc[t] = "creator"  -> ForUpdateBlockers(t, Creator[Argument(t)])
      [] pc[t] = "penalise" ->
           IF txn[t].competitors = <<>> THEN NoKeyUpdateBlockers(t, Winner(t))
           ELSE ForUpdateBlockers(t, Head(txn[t].competitors))
      [] pc[t] = "argscore" -> ArgBlockers(t)
      [] OTHER -> {}

Knot(S) == S # {} /\ \A t \in S : Blockers(t) \intersect S # {}
OnWaitCycle(t) ==
    \E S \in SUBSET Txs : /\ t \in S /\ Knot(S)
                         /\ \A R \in SUBSET S : Knot(R) => R = S

\* A member of a cycle of waiters is aborted; its statement returns an error.
\* (ApplyConsensusDeflationTx ignores the error of a SELECT ... FOR UPDATE,
\* but then the next statement of the aborted transaction fails.)
DeadlockVictim(t) == OnWaitCycle(t) /\ Rollback(t)

\* HandleCreateComment, up to its response: one autocommit INSERT, which needs
\* key share on the author's row.  A handler does it instead of a reaction.
PostComment(t, c) ==
    /\ pc[t] = "idle"
    /\ c \notin posted
    /\ KeyShareBlockers(t, Author[c]) = {}
    /\ posted' = posted \union {c}
    /\ UNCHANGED <<score, ledger, triggered, reactions, pc, txn, wins, paid, started>>

Step(t) ==
    \/ ReadExists(t) \/ Unfire(t) \/ InsertFire(t) \/ InsertRefused(t)
    \/ CountComments(t) \/ CountVotes(t)
    \/ FlagComment(t) \/ PenaliseCreator(t) \/ ReadCompetitors(t)
    \/ PenaliseCompetitor(t) \/ RewardWinner(t)
    \/ UpdateArgument(t) \/ Commit(t)

Next ==
    \/ \E t \in Txs, u \in Users, c \in Comments : ReadComment(t, u, c)
    \/ \E t \in Txs : Step(t) \/ Abort(t) \/ DeadlockVictim(t)
    \/ \E t \in Txs, c \in Comments : PostComment(t, c)

Spec == Init /\ [][Next]_vars

\* A handler that has a request runs on until it answers, and Postgres's
\* deadlock_timeout fires.  New requests and failures need not come.
FairSpec ==
    Spec /\ \A t \in Txs : WF_vars(Step(t)) /\ WF_vars(DeadlockVictim(t))

-----------------------------------------------------------------------------
(* Properties. *)

\* Every variable keeps its type: in particular wins and the running sums stay
\* integers, and a transaction's competitor list names users.
TypeOK ==
    /\ score \in [Users -> Int]
    /\ ledger \in [Users -> Int]
    /\ posted \subseteq Comments
    /\ triggered \in [Comments -> BOOLEAN]
    /\ reactions \subseteq Rows
    /\ pc \in [Txs -> PCs]
    /\ txn \in [Txs -> TxnType]
    /\ wins \in [Comments -> Nat]
    /\ paid \in [Users -> Nat]
    /\ started \in Nat

\* The score of every user is the initial score, plus what score_events says
\* was deducted, plus the rewards (which write no event): no concurrent
\* consensus overwrites another's deduction with a value computed from a score
\* read before it (the SELECT ... FOR UPDATE of scoring.go:52 and :94).
LedgerReconciles ==
    \A u \in Users : score[u] = InitialScore + ledger[u] + Reward * paid[u]

\* A consensus is all or nothing: the flag of a comment is set exactly if its
\* author was paid, whatever failed or was aborted on the way.
AllOrNothing == \A c \in Comments : triggered[c] <=> wins[c] > 0

\* Handlers that read a comment before it was triggered and may yet pay for it.
Contenders(c) ==
    {t \in Txs : pc[t] # "idle" /\ txn[t].comment = c /\ ~txn[t].seenTriggered}

\* The flag is read without a lock (handlers_comments.go:89), so a comment can
\* be paid more than once, but only by handlers already running when the first
\* payout committed: never more than there are handlers at once.
PayoutsBounded ==
    \A c \in Comments :
        triggered[c] => wins[c] + Cardinality(Contenders(c)) <= Cardinality(Txs)

\* Every request is answered: whatever rows handlers wait for, and in whatever
\* order they lock users, none waits for ever.
Answered == \A t \in Txs : pc[t] # "idle" ~> pc[t] = "idle"

\* Transactions do not mix: with any number of handlers every commit is one
\* atomic reaction, and a settlement is computed for all its users off the
\* balances of the commit ("scaling straight off current live balances",
\* README.md:85), though it reads and locks them one statement at a time.
Promise == INSTANCE Settlement WITH
             score <- score, posted <- posted, triggered <- triggered, reactions <- reactions
SettlesAtomically == Promise!Spec

\* One request at a time follows the whole rule: it settles exactly when it
\* takes an untriggered comment to 40%, and hits every other commenter.
FollowsTheRule == Promise!StrictSpec

\* README.md:77, "Triggers atomic consensus ... locking state": a comment wins
\* its consensus once.  Two overlapping fires violate it.
ConsensusOnce == \A c \in Comments : wins[c] <= 1

\* README.md:77, "Triggers atomic consensus when a comment hits the 40%
\* engagement threshold": with no request running, a comment at the threshold
\* has been triggered.  Two fires that do not see each other violate it.
NoMissedConsensus ==
    (\A t \in Txs : pc[t] = "idle") =>
        \A c \in posted :
            ReachesThreshold(FiresOn(c, reactions), Cardinality(CommentsIn(ArgOf[c])))
                => triggered[c]
=============================================================================
