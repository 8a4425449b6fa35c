------------------------------ MODULE Realtime ------------------------------
(***************************************************************************)
(* The handlers that feed the hub: HandleCreateComment, which commits a    *)
(* comment, notifies the owner's connections itself and then broadcasts,   *)
(* and HandleFireReaction, which toggles a reaction in a transaction, then *)
(* re-reads the fire count and broadcasts it.  One handler per comment and *)
(* per fire; the fires are all on one comment.  (Statement by statement    *)
(* the transaction is in FireReaction; here it is what it read, and its    *)
(* commit.)                                                                *)
(***************************************************************************)
EXTENDS Hub

CONSTANTS Posts,        \* comments being created
          Fires,        \* fire reactions being processed
          FireUser,     \* FireUser[f]: whose
          UserId,       \* UserId[k]: Client.UserId
          Poster,       \* Poster[p]: the comment's author
          Owner         \* Owner[p]: author of the parent, or of the argument

VARIABLES
    post,      \* where each HandleCreateComment is
    targets,   \* targetClients it has still to notify
    fire,      \* where each HandleFireReaction is
    reacted,   \* users with a committed fire on the comment
    exists,    \* what the handler read: its user's fire was there
    newFireCount, \* what it read back after its commit
    stale,     \* history: handlers that read it back before another's commit
    blind      \* history: handlers whose reading it back failed

vars == <<hubVars, post, targets, fire, reacted, exists, newFireCount, stale, blind>>
postVars == <<post, targets>>
fireVars == <<fire, reacted, exists, newFireCount, stale, blind>>

Reactors == {FireUser[f] : f \in Fires}

Comment(p) == [type |-> "NEW_COMMENT", about |-> p]
Notification(p) == [type |-> "NEW_NOTIFICATION", about |-> p]
Score(f) == [type |-> "SWING_SCORE_UPDATE", about |-> f]

ASSUME NoMsgAssumption ==
    (\A p \in Posts : NoMsg # Comment(p)) /\ \A f \in Fires : NoMsg # Score(f)

Init ==
    /\ HubInit
    /\ post = [p \in Posts |-> "start"]
    /\ targets = [p \in Posts |-> {}]
    /\ fire = [f \in Fires |-> "start"]
    /\ reacted \in SUBSET Reactors
    /\ exists = [f \in Fires |-> FALSE]
    /\ newFireCount = [f \in Fires |-> 0]
    /\ stale = {}
    /\ blind = {}

-----------------------------------------------------------------------------
(* HandleCreateComment. *)

\* INSERT INTO comments commits by itself; the argument's score follows, and the
\* owner is looked up: without one (it is the poster, or the query failed) there
\* is nobody to notify.
SaveComment(p) ==
    /\ post[p] = "start"
    /\ \E found \in BOOLEAN :
          post' = [post EXCEPT ![p] = IF found /\ Owner[p] # Poster[p]
                                      THEN "notify" ELSE "broadcast"]
    /\ UNCHANGED <<hubVars, targets, fireVars>>

\* INSERT INTO notif.
SaveNotification(p) ==
    /\ post[p] = "notify"
    /\ post' = [post EXCEPT ![p] = "collect"]
    /\ UNCHANGED <<hubVars, targets, fireVars>>

\* That INSERT fails: the handler answers with an error, though the comment
\* stays.
NotificationFails(p) ==
    /\ post[p] = "notify"
    /\ post' = [post EXCEPT ![p] = "failed"]
    /\ UNCHANGED <<hubVars, targets, fireVars>>

\* The owner's clients, collected under Mu, which the hub then does not hold.
CollectTargets(p) ==
    /\ post[p] = "collect"
    /\ message = NoMsg
    /\ targets' = [targets EXCEPT ![p] = {k \in clients : UserId[k] = Owner[p]}]
    /\ post' = [post EXCEPT ![p] = "send"]
    /\ UNCHANGED <<hubVars, fireVars>>

\* Mutant: whoever is full is sent to all the same.
MutantSendNotification(p, k) ==
    /\ post[p] = "send"
    /\ k \in targets[p]
    /\ targets' = [targets EXCEPT ![p] = @ \ {k}]
    /\ queue' = [queue EXCEPT ![k] = Append(@, Notification(p))]
    /\ UNCHANGED <<clients, open, stage, writer, message, left, hubDown, log,
                   joined, got, post, fireVars>>

\* client.Send <- notifMsg without Mu: a full buffer skips the client, and a
\* channel the hub has closed since panics, which ends this handler (net/http
\* recovers it).
SendNotification(p, k) ==
    /\ post[p] = "send"
    /\ k \in targets[p]
    /\ targets' = [targets EXCEPT ![p] = @ \ {k}]
    /\ queue' = IF k \in open /\ Len(queue[k]) < Cap
                THEN [queue EXCEPT ![k] = Append(@, Notification(p))] ELSE queue
    /\ post' = IF k \in open THEN post ELSE [post EXCEPT ![p] = "panicked"]
    /\ UNCHANGED <<clients, open, stage, writer, message, left, hubDown, log,
                   joined, got, fireVars>>

AllNotified(p) ==
    /\ post[p] = "send"
    /\ targets[p] = {}
    /\ post' = [post EXCEPT ![p] = "broadcast"]
    /\ UNCHANGED <<hubVars, targets, fireVars>>

BroadcastComment(p) ==
    /\ post[p] = "broadcast"
    /\ Receive(Comment(p))
    /\ post' = [post EXCEPT ![p] = "done"]
    /\ UNCHANGED <<targets, fireVars>>

-----------------------------------------------------------------------------
(* HandleFireReaction. *)

ReadExists(f) ==
    /\ fire[f] = "start"
    /\ exists' = [exists EXCEPT ![f] = FireUser[f] \in reacted]
    /\ fire' = [fire EXCEPT ![f] = "toggle"]
    /\ UNCHANGED <<hubVars, postVars, reacted, newFireCount, stale, blind>>

\* DELETE of what was there (another request of the user may have deleted it
\* since: no row, and no error), or INSERT, which fails if it is there by now.
Toggled(f) ==
    /\ ~exists[f] => FireUser[f] \notin reacted
    /\ reacted' = IF exists[f] THEN reacted \ {FireUser[f]} ELSE reacted \union {FireUser[f]}

\* Whoever has read the count and not broadcast it has an old one from now on.
Outdated == {g \in Fires : fire[g] = "broadcast"}

\* Mutant: the count is read before the transaction commits.
MutantCommitFire(f) ==
    /\ fire[f] = "toggle"
    /\ Toggled(f)
    /\ newFireCount' = [newFireCount EXCEPT ![f] = Cardinality(reacted)]
    /\ stale' = stale \union Outdated
    /\ fire' = [fire EXCEPT ![f] = "broadcast"]
    /\ UNCHANGED <<hubVars, postVars, exists, blind>>

CommitFire(f) ==
    /\ fire[f] = "toggle"
    /\ Toggled(f)
    /\ stale' = stale \union Outdated
    /\ fire' = [fire EXCEPT ![f] = "read"]
    /\ UNCHANGED <<hubVars, postVars, exists, newFireCount, blind>>

\* The unique constraint refuses the INSERT, or any other statement fails: the
\* transaction is rolled back.
FireFails(f) ==
    /\ fire[f] = "toggle"
    /\ fire' = [fire EXCEPT ![f] = "failed"]
    /\ UNCHANGED <<hubVars, postVars, reacted, exists, newFireCount, stale, blind>>

\* After the Redis deletes: SELECT COUNT(*), outside the transaction.
ReadFireCount(f) ==
    /\ fire[f] = "read"
    /\ newFireCount' = [newFireCount EXCEPT ![f] = Cardinality(reacted)]
    /\ fire' = [fire EXCEPT ![f] = "broadcast"]
    /\ UNCHANGED <<hubVars, postVars, reacted, exists, stale, blind>>

\* Its error is ignored: the count stays 0.
RecountFails(f) ==
    /\ fire[f] = "read"
    /\ blind' = blind \union {f}
    /\ fire' = [fire EXCEPT ![f] = "broadcast"]
    /\ UNCHANGED <<hubVars, postVars, reacted, exists, newFireCount, stale>>

BroadcastScore(f) ==
    /\ fire[f] = "broadcast"
    /\ Receive(Score(f))
    /\ fire' = [fire EXCEPT ![f] = "done"]
    /\ UNCHANGED <<postVars, reacted, exists, newFireCount, stale, blind>>

PostStep(p) ==
    \/ SaveComment(p) \/ SaveNotification(p) \/ NotificationFails(p)
    \/ CollectTargets(p) \/ (\E k \in Conns : SendNotification(p, k))
    \/ AllNotified(p) \/ BroadcastComment(p)
FireStep(f) ==
    \/ ReadExists(f) \/ CommitFire(f) \/ FireFails(f)
    \/ ReadFireCount(f) \/ RecountFails(f) \/ BroadcastScore(f)
Network(k) == (ConnStep(k) \/ HubStep(k)) /\ UNCHANGED <<postVars, fireVars>>

Next ==
    \/ \E k \in Conns : Network(k)
    \/ \E p \in Posts : PostStep(p)
    \/ \E f \in Fires : FireStep(f)

Spec == Init /\ [][Next]_vars

\* Goroutines run: the hub takes what its select offers, and a handler that has
\* begun goes on.  (Go's select picks at random among ready channels; with the
\* number of messages bounded, weak fairness is all that is needed of it.)
\* Browsers, and requests that have not come, owe nothing.
FairSpec ==
    /\ Spec
    /\ \A k \in Conns : WF_vars(HubStep(k) /\ UNCHANGED <<postVars, fireVars>>)
    /\ \A p \in Posts : WF_vars(post[p] # "start" /\ PostStep(p))
    /\ \A f \in Fires : WF_vars(fire[f] # "start" /\ FireStep(f))

-----------------------------------------------------------------------------
(* Properties. *)

Messages == {Comment(p) : p \in Posts} \union {Notification(p) : p \in Posts}
                \union {Score(f) : f \in Fires}

\* Types, and: a queue never exceeds its buffer, a fan-out visits only
\* connections that have one.
TypeOK ==
    /\ clients \subseteq Conns /\ open \subseteq Conns /\ left \subseteq Conns
    /\ queue \in [Conns -> Seq(Messages)]
    /\ \A k \in Conns : Len(queue[k]) <= Cap
    /\ stage \in [Conns -> {"none", "reading", "unregistering", "gone"}]
    /\ writer \in [Conns -> {"off", "on", "failed", "ended"}]
    /\ message \in Messages \union {NoMsg}
    /\ hubDown \in BOOLEAN
    /\ post \in [Posts -> {"start", "notify", "collect", "send", "broadcast",
                           "done", "failed", "panicked"}]
    /\ targets \in [Posts -> SUBSET Conns]
    /\ fire \in [Fires -> {"start", "toggle", "read", "broadcast", "done", "failed"}]
    /\ reacted \subseteq Reactors /\ stale \subseteq Fires /\ blind \subseteq Fires
    /\ exists \in [Fires -> BOOLEAN]

\* The hub goroutine never panics: whatever order a slow client is dropped and
\* its reader unregisters in, Send is closed once, and the hub never sends to a
\* client it has closed (hub.go:24 and :35).
HubNeverPanics == ~hubDown /\ left \subseteq open /\ clients \subseteq open

\* How many of the first n messages of s are broadcasts.
Heard(s, n) == Cardinality({i \in 1..n : s[i].type # "NEW_NOTIFICATION"})

\* While its writer works, a connection has been sent the broadcasts since it
\* registered without a gap, in the order the hub received them; and a client
\* still in the hub has been sent all of them.  (A slow client is cut off, it
\* never misses one in the middle.)
Gapless ==
    \A k \in Conns : writer[k] \in {"on", "ended"} =>
        LET sent == got[k] \o queue[k]
        IN  /\ \A i \in 1..Len(sent) : sent[i].type # "NEW_NOTIFICATION" =>
                  LET place == joined[k] + Heard(sent, i)
                  IN  place <= Len(log) /\ sent[i] = log[place]
            /\ k \in clients \ left => joined[k] + Heard(sent, Len(sent)) = Len(log)

\* Once no fire is between its commit and its broadcast, the count that pages
\* were told last (they replace theirs with it) is the number of fires there
\* are, however toggles interleaved, unless the handler that told it had
\* broadcast it after another's later commit or had failed to read it.
LastCountRight ==
    (\A g \in Fires : fire[g] \notin {"read", "broadcast"}) =>
        \A i \in 1..Len(log), f \in Fires :
            /\ log[i] = Score(f)
            /\ \A j \in 1..Len(log) : log[j].type = "SWING_SCORE_UPDATE" => j <= i
            => newFireCount[f] = Cardinality(reacted) \/ f \in stale \union blind

\* Every handler that saved something ends, whatever the clients do: no
\* browser, however slow, holds the hub or a handler up.
HandlersEnd ==
    /\ \A p \in Posts : post[p] = "notify" ~> post[p] \in {"done", "failed", "panicked"}
    /\ \A f \in Fires : fire[f] = "toggle" ~> fire[f] \in {"done", "failed"}

\* README.md:1, "live comment thread updates": a comment whose handler met no
\* database error has been broadcast by the time the handler is over.  The hub
\* closing a slow owner's channel between CollectTargets and SendNotification
\* violates it.
SavedCommentsAreBroadcast ==
    \A p \in Posts : post[p] \in {"done", "panicked"} =>
        \E i \in DOMAIN log : log[i] = Comment(p)
=============================================================================
