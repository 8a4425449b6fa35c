--------------------------- MODULE RealtimeProofs ---------------------------
(***************************************************************************)
(* Proofs about Hub and Realtime, for any number of connections, posts and *)
(* fires, and any size of the buffers.                                     *)
(***************************************************************************)
EXTENDS Realtime, FiniteSetTheorems, TLAPS

-----------------------------------------------------------------------------
(* The hub does not panic. *)

\* HubNeverPanics needs to know that between two fan-outs nobody is left: then
\* an Unregister cannot close a channel the fan-out has still to visit.
HubInv == HubNeverPanics /\ (message = NoMsg => left = {})

LEMMA ReceiveStep ==
    ASSUME HubInv, NEW m, m # NoMsg, Receive(m)
    PROVE  HubInv'
  BY DEF HubInv, HubNeverPanics, Receive, Selecting

LEMMA HubInvNext ==
    ASSUME HubInv, [Next]_vars
    PROVE  HubInv'
  <1> USE DEF HubInv, HubNeverPanics
  <1>1. ASSUME UNCHANGED <<clients, open, left, message, hubDown>> PROVE HubInv'
    BY <1>1
  <1>2. CASE UNCHANGED vars
    BY <1>1, <1>2 DEF vars, hubVars
  <1>3. ASSUME NEW k \in Conns, Register(k) PROVE HubInv'
    BY <1>3 DEF Register, Selecting
  <1>4. ASSUME NEW k \in Conns, ReadFails(k) \/ WriterSends(k) \/ WriterFails(k) \/ WriterEnds(k)
        PROVE  HubInv'
    BY <1>1, <1>4 DEF ReadFails, WriterSends, WriterFails, WriterEnds
  <1>5. ASSUME NEW k \in Conns, Unregister(k) PROVE HubInv'
    BY <1>5 DEF Unregister, Selecting, Close
  <1>6. ASSUME NEW k \in Conns, Visit(k) PROVE HubInv'
    <2>1. k \in left /\ left' = left \ {k} /\ message' = IF left' = {} THEN NoMsg ELSE message
      BY <1>6 DEF Visit
    <2>2. CASE UNCHANGED <<clients, open, hubDown>>
      BY <2>1, <2>2
    <2>3. CASE Slow(k)
      BY <2>1, <2>3 DEF Slow, Close
    <2> QED BY <1>6, <2>2, <2>3 DEF Visit
  <1>7. ASSUME NEW p \in Posts, PostStep(p) PROVE HubInv'
    <2>1. CASE BroadcastComment(p)
      BY <2>1, ReceiveStep, NoMsgAssumption DEF BroadcastComment
    <2>2. CASE \/ SaveComment(p) \/ SaveNotification(p) \/ NotificationFails(p)
               \/ CollectTargets(p) \/ AllNotified(p)
      BY <1>1, <2>2 DEF SaveComment, SaveNotification, NotificationFails, CollectTargets,
                        AllNotified, hubVars
    <2>3. ASSUME NEW k \in Conns, SendNotification(p, k) PROVE HubInv'
      BY <1>1, <2>3 DEF SendNotification
    <2> QED BY <1>7, <2>1, <2>2, <2>3 DEF PostStep
  <1>8. ASSUME NEW f \in Fires, FireStep(f) PROVE HubInv'
    <2>1. CASE BroadcastScore(f)
      BY <2>1, ReceiveStep, NoMsgAssumption DEF BroadcastScore
    <2>2. CASE \/ ReadExists(f) \/ CommitFire(f) \/ FireFails(f)
               \/ ReadFireCount(f) \/ RecountFails(f)
      BY <1>1, <2>2 DEF ReadExists, CommitFire, FireFails, ReadFireCount, RecountFails, hubVars
    <2> QED BY <1>8, <2>1, <2>2 DEF FireStep
  <1> QED BY <1>2, <1>3, <1>4, <1>5, <1>6, <1>7, <1>8 DEF Next, Network, ConnStep, HubStep

\* Whatever clients come, stall and go, the hub closes no channel twice and
\* sends to none it has closed.
THEOREM HubIsSafe == Spec => []HubNeverPanics
  <1>1. Init => HubInv
    BY DEF Init, HubInit, HubInv, HubNeverPanics
  <1>2. HubInv => HubNeverPanics
    BY DEF HubInv
  <1> QED BY <1>1, <1>2, HubInvNext, PTL DEF Spec

-----------------------------------------------------------------------------
(* The stream each connection gets. *)

BroadcastType == {Comment(p) : p \in Posts} \union {Score(f) : f \in Fires}

LEMMA MessageFacts ==
    /\ BroadcastType \subseteq Messages
    /\ NoMsg \notin BroadcastType
    /\ \A m \in BroadcastType : m.type # "NEW_NOTIFICATION"
    /\ \A p \in Posts : /\ Comment(p) \in BroadcastType /\ Notification(p) \in Messages
                        /\ Notification(p).type = "NEW_NOTIFICATION"
    /\ \A f \in Fires : Score(f) \in BroadcastType
  <1>1. BroadcastType \subseteq Messages
    BY DEF BroadcastType, Messages
  <1>2. NoMsg \notin BroadcastType
    BY NoMsgAssumption DEF BroadcastType
  <1>3. \A m \in BroadcastType : m.type # "NEW_NOTIFICATION"
    <2>1. \A p \in Posts : Comment(p).type = "NEW_COMMENT"
      BY DEF Comment
    <2>2. \A f \in Fires : Score(f).type = "SWING_SCORE_UPDATE"
      BY DEF Score
    <2> QED BY <2>1, <2>2 DEF BroadcastType
  <1>4. \A p \in Posts : Comment(p) \in BroadcastType /\ Notification(p) \in Messages
    BY DEF BroadcastType, Messages
  <1>5. \A p \in Posts : Notification(p).type = "NEW_NOTIFICATION"
    BY DEF Notification
  <1>6. \A f \in Fires : Score(f) \in BroadcastType
    BY DEF BroadcastType
  <1> QED BY <1>1, <1>2, <1>3, <1>4, <1>5, <1>6

LEMMA HeardNat ==
    ASSUME NEW s, NEW n \in Nat
    PROVE  /\ Heard(s, n) \in Nat
           /\ IsFiniteSet({i \in 1..n : s[i].type # "NEW_NOTIFICATION"})
           /\ n = 0 => Heard(s, n) = 0
           /\ n > 0 /\ s[n].type # "NEW_NOTIFICATION" => Heard(s, n) > 0
  <1> DEFINE B == {i \in 1..n : s[i].type # "NEW_NOTIFICATION"}
  <1>1. IsFiniteSet(1..n)
    BY FS_Interval
  <1>2. B \subseteq 1..n
    OBVIOUS
  <1>3. IsFiniteSet(B) /\ Cardinality(B) \in Nat
    BY <1>1, <1>2, FS_Subset, FS_CardinalityType
  <1>4. Cardinality(B) = 0 <=> B = {}
    BY <1>3, FS_EmptySet
  <1>5. n = 0 => B = {}
    OBVIOUS
  <1>6. n > 0 /\ s[n].type # "NEW_NOTIFICATION" => n \in B
    OBVIOUS
  <1> QED BY <1>3, <1>4, <1>5, <1>6 DEF Heard

\* A message more is a broadcast more, or a notification.
LEMMA HeardAppend ==
    ASSUME NEW s \in Seq(Messages), NEW m \in Messages
    PROVE  /\ \A n \in 0..Len(s) : Heard(Append(s, m), n) = Heard(s, n)
           /\ Heard(Append(s, m), Len(s) + 1) =
                Heard(s, Len(s)) + (IF m.type = "NEW_NOTIFICATION" THEN 0 ELSE 1)
  <1> DEFINE t == Append(s, m)
             B(x, n) == {i \in 1..n : x[i].type # "NEW_NOTIFICATION"}
  <1>1. \A i \in 1..Len(s) : t[i] = s[i]
    OBVIOUS
  <1>2. t[Len(s) + 1] = m /\ Len(s) \in Nat
    OBVIOUS
  <1> HIDE DEF t
  <1>3. \A n \in 0..Len(s) : B(t, n) = B(s, n)
    BY <1>1, <1>2
  <1>4. Heard(s, Len(s)) \in Nat /\ Heard(s, Len(s)) = Cardinality(B(s, Len(s)))
    BY <1>2, HeardNat DEF Heard
  <1>5. Heard(t, Len(s) + 1) =
            Heard(s, Len(s)) + (IF m.type = "NEW_NOTIFICATION" THEN 0 ELSE 1)
    <2>1. CASE m.type = "NEW_NOTIFICATION"
      <3>1. B(t, Len(s) + 1) = B(s, Len(s))
        BY <1>1, <1>2, <2>1
      <3>2. Heard(t, Len(s) + 1) = Heard(s, Len(s))
        BY <3>1 DEF Heard
      <3> QED BY <1>4, <2>1, <3>2
    <2>2. CASE m.type # "NEW_NOTIFICATION"
      <3>1. B(t, Len(s) + 1) = B(s, Len(s)) \union {Len(s) + 1}
        BY <1>1, <1>2, <2>2
      <3>2. Len(s) + 1 \notin B(s, Len(s))
        BY <1>2
      <3>3. IsFiniteSet(B(s, Len(s)))
        BY <1>2, HeardNat
      <3>4. Cardinality(B(t, Len(s) + 1)) = Cardinality(B(s, Len(s))) + 1
        BY <3>1, <3>2, <3>3, FS_AddElement
      <3>5. Heard(t, Len(s) + 1) = Heard(s, Len(s)) + 1
        BY <1>4, <3>4 DEF Heard
      <3> QED BY <1>4, <2>2, <3>5
    <2> QED BY <2>1, <2>2
  <1>6. \A n \in 0..Len(s) : Heard(t, n) = Heard(s, n)
    BY <1>3 DEF Heard
  <1> QED BY <1>5, <1>6 DEF t

\* The broadcasts in s are those of l from its place j + 1 on.
Follows(s, j, l) ==
    \A i \in 1..Len(s) : s[i].type # "NEW_NOTIFICATION" =>
        j + Heard(s, i) <= Len(l) /\ s[i] = l[j + Heard(s, i)]

\* A stream goes on following when it is sent a notification, or the message of
\* the log that comes next.
LEMMA FollowsMessage ==
    ASSUME NEW s \in Seq(Messages), NEW j \in Nat, NEW l \in Seq(BroadcastType),
           NEW m \in Messages, Follows(s, j, l),
           m.type # "NEW_NOTIFICATION" =>
               j + Heard(s, Len(s)) + 1 <= Len(l) /\ m = l[j + Heard(s, Len(s)) + 1]
    PROVE  Follows(Append(s, m), j, l)
  <1> DEFINE t == Append(s, m)
  <1>1. Len(t) = Len(s) + 1 /\ Len(s) \in Nat /\ t[Len(s) + 1] = m
    OBVIOUS
  <1>2. \A i \in 1..Len(s) : t[i] = s[i]
    OBVIOUS
  <1>3. Heard(s, Len(s)) \in Nat
    BY <1>1, HeardNat
  <1>4. /\ \A n \in 0..Len(s) : Heard(t, n) = Heard(s, n)
        /\ Heard(t, Len(s) + 1) =
                Heard(s, Len(s)) + (IF m.type = "NEW_NOTIFICATION" THEN 0 ELSE 1)
    BY HeardAppend
  <1> HIDE DEF t
  <1> SUFFICES ASSUME NEW i \in 1..Len(t), t[i].type # "NEW_NOTIFICATION"
               PROVE  j + Heard(t, i) <= Len(l) /\ t[i] = l[j + Heard(t, i)]
    BY DEF Follows, t
  <1>5. CASE i \in 1..Len(s)
    BY <1>2, <1>4, <1>5 DEF Follows
  <1>6. CASE i = Len(s) + 1
    <2>1. m.type # "NEW_NOTIFICATION" /\ t[i] = m
      BY <1>1, <1>6
    <2>2. j + Heard(t, i) = j + Heard(s, Len(s)) + 1
      BY <1>3, <1>4, <1>6, <2>1
    <2> QED BY <2>1, <2>2
  <1> QED BY <1>1, <1>5, <1>6

\* A longer log takes nothing from what a stream has followed.
LEMMA FollowsLog ==
    ASSUME NEW s \in Seq(Messages), NEW j \in Nat, NEW l \in Seq(BroadcastType),
           NEW b \in BroadcastType, Follows(s, j, l)
    PROVE  Follows(s, j, Append(l, b))
  <1> SUFFICES ASSUME NEW i \in 1..Len(s), s[i].type # "NEW_NOTIFICATION"
               PROVE  /\ j + Heard(s, i) <= Len(Append(l, b))
                      /\ s[i] = Append(l, b)[j + Heard(s, i)]
    BY DEF Follows
  <1>1. i \in Nat /\ i > 0
    OBVIOUS
  <1>2. Heard(s, i) \in Nat /\ Heard(s, i) > 0
    BY <1>1, HeardNat
  <1>3. j + Heard(s, i) \in 1..Len(l) /\ s[i] = l[j + Heard(s, i)]
    BY <1>2 DEF Follows
  <1> DEFINE n == j + Heard(s, i)
  <1>4. n \in 1..Len(l) /\ s[i] = l[n]
    BY <1>3
  <1> HIDE DEF n
  <1>5. n <= Len(Append(l, b)) /\ s[i] = Append(l, b)[n]
    BY <1>4
  <1> QED BY <1>5 DEF n

Sent(k) == got[k] \o queue[k]

\* What a connection has been sent follows the log from where it joined, and a
\* client of the hub lacks the last message just while the fan-out is on its way
\* to it.
Stream(k) ==
    /\ Follows(Sent(k), joined[k], log)
    /\ k \in clients =>
         joined[k] + Heard(Sent(k), Len(Sent(k))) = Len(log) - (IF k \in left THEN 1 ELSE 0)

StreamTypes ==
    /\ TypeOK
    /\ HubInv
    /\ got \in [Conns -> Seq(Messages)]
    /\ log \in Seq(BroadcastType)
    /\ joined \in [Conns -> Nat]

\* Gapless needs to know what is being fanned out (the end of the log) and to
\* whom (clients only), and that a connection starts with nothing sent.
GapInv ==
    /\ StreamTypes
    /\ left \subseteq clients
    /\ message # NoMsg => Len(log) > 0 /\ message = log[Len(log)]
    /\ \A k \in Conns : stage[k] = "none" =>
         got[k] = <<>> /\ queue[k] = <<>> /\ k \notin open
    /\ \A k \in Conns : writer[k] \in {"on", "ended"} => Stream(k)

LEMMA ReceiveTypes ==
    ASSUME StreamTypes, NEW m \in BroadcastType, Receive(m)
    PROVE  /\ message' \in Messages \union {NoMsg} /\ left' \subseteq Conns
           /\ log' \in Seq(BroadcastType)
           /\ UNCHANGED <<clients, open, queue, stage, writer, hubDown, joined, got>>
  BY MessageFacts DEF StreamTypes, TypeOK, Receive

LEMMA StreamTypesNext ==
    ASSUME StreamTypes, [Next]_vars
    PROVE  StreamTypes'
  <1> USE DEF StreamTypes
  <1>h. HubInv'
    BY HubInvNext
  <1>1. CASE UNCHANGED vars
    BY <1>1, <1>h DEF vars, hubVars, TypeOK
  <1>2. ASSUME NEW k \in Conns, Network(k) PROVE StreamTypes'
    <2> USE <1>h DEF TypeOK
    <2>0. UNCHANGED <<postVars, fireVars>>
      BY <1>2 DEF Network
    <2>1. CASE Register(k)
      BY <2>0, <2>1 DEF Register, postVars, fireVars
    <2>2. CASE ReadFails(k)
      BY <2>0, <2>2 DEF ReadFails, postVars, fireVars
    <2>3. CASE WriterSends(k)
      <3>1. queue[k] \in Seq(Messages) /\ got[k] \in Seq(Messages) /\ queue[k] # <<>>
        BY <2>3 DEF WriterSends
      <3>2. /\ Head(queue[k]) \in Messages /\ Tail(queue[k]) \in Seq(Messages)
            /\ Len(Tail(queue[k])) <= Len(queue[k])
        BY <3>1
      <3>3. Append(got[k], Head(queue[k])) \in Seq(Messages)
        BY <3>1, <3>2
      <3> QED BY <2>0, <2>3, <3>2, <3>3, HubAssumption DEF WriterSends, postVars, fireVars
    <2>4. CASE WriterFails(k)
      <3>1. queue[k] \in Seq(Messages) /\ queue[k] # <<>>
        BY <2>4 DEF WriterFails
      <3>2. Tail(queue[k]) \in Seq(Messages) /\ Len(Tail(queue[k])) <= Len(queue[k])
        BY <3>1
      <3> QED BY <2>0, <2>4, <3>2, HubAssumption DEF WriterFails, postVars, fireVars
    <2>5. CASE WriterEnds(k)
      BY <2>0, <2>5 DEF WriterEnds, postVars, fireVars
    <2>6. CASE Unregister(k)
      BY <2>0, <2>6 DEF Unregister, Close, postVars, fireVars
    <2>7. CASE Visit(k)
      <3>1. message \in Messages
        BY <2>7 DEF Visit, HubInv
      <3>2. CASE Len(queue[k]) < Cap
        <4>1. /\ Append(queue[k], message) \in Seq(Messages)
              /\ Len(Append(queue[k], message)) <= Cap
          BY <3>1, <3>2, HubAssumption
        <4> QED BY <2>0, <2>7, <3>1, <3>2, <4>1 DEF Visit, postVars, fireVars
      <3>3. CASE ~(Len(queue[k]) < Cap)
        BY <2>0, <2>7, <3>1, <3>3 DEF Visit, Slow, Close, postVars, fireVars
      <3> QED BY <3>2, <3>3
    <2> QED BY <1>2, <2>1, <2>2, <2>3, <2>4, <2>5, <2>6, <2>7 DEF Network, ConnStep, HubStep
  <1>3. ASSUME NEW p \in Posts, PostStep(p) PROVE StreamTypes'
    <2> USE <1>h DEF TypeOK
    <2>1. CASE SaveComment(p) \/ SaveNotification(p) \/ NotificationFails(p) \/ AllNotified(p)
      BY <2>1 DEF SaveComment, SaveNotification, NotificationFails, AllNotified, hubVars, fireVars
    <2>2. CASE CollectTargets(p)
      BY <2>2 DEF CollectTargets, hubVars, fireVars
    <2>3. ASSUME NEW k \in Conns, SendNotification(p, k) PROVE StreamTypes'
      <3>1. CASE Len(queue[k]) < Cap
        <4>1. /\ Append(queue[k], Notification(p)) \in Seq(Messages)
              /\ Len(Append(queue[k], Notification(p))) <= Cap
          BY <3>1, MessageFacts, HubAssumption
        <4>2. /\ queue' \in [Conns -> Seq(Messages)]
              /\ \A c \in Conns : Len(queue'[c]) <= Cap
          BY <2>3, <3>1, <4>1 DEF SendNotification
        <4> QED BY <2>3, <4>2 DEF SendNotification, fireVars
      <3>2. CASE ~(Len(queue[k]) < Cap)
        BY <2>3, <3>2 DEF SendNotification, fireVars
      <3> QED BY <3>1, <3>2
    <2>4. CASE BroadcastComment(p)
      BY <2>4, ReceiveTypes, MessageFacts DEF BroadcastComment, fireVars
    <2> QED BY <1>3, <2>1, <2>2, <2>3, <2>4 DEF PostStep
  <1>4. ASSUME NEW f \in Fires, FireStep(f) PROVE StreamTypes'
    <2> USE <1>h DEF TypeOK
    <2>1. CASE \/ ReadExists(f) \/ CommitFire(f) \/ FireFails(f)
               \/ ReadFireCount(f) \/ RecountFails(f)
      <3>1. UNCHANGED <<hubVars, postVars>>
        BY <2>1 DEF ReadExists, CommitFire, FireFails, ReadFireCount, RecountFails
      <3>2. fire' \in [Fires -> {"start", "toggle", "read", "broadcast", "done", "failed"}]
        <4>1. \E to \in {"toggle", "read", "broadcast", "failed"} : fire' = [fire EXCEPT ![f] = to]
          BY <2>1 DEF ReadExists, CommitFire, FireFails, ReadFireCount, RecountFails
        <4> QED BY <4>1
      <3>e. exists' \in [Fires -> BOOLEAN]
        <4>1. CASE ReadExists(f)
          <5> DEFINE there == FireUser[f] \in reacted
          <5>1. there \in BOOLEAN /\ exists' = [exists EXCEPT ![f] = there]
            BY <4>1 DEF ReadExists
          <5> HIDE DEF there
          <5> QED BY <5>1
        <4>2. CASE exists' = exists
          BY <4>2
        <4> QED BY <2>1, <4>1, <4>2 DEF CommitFire, FireFails, ReadFireCount, RecountFails
      <3>3. stale' \subseteq Fires /\ blind' \subseteq Fires
        BY <2>1 DEF ReadExists, CommitFire, FireFails, ReadFireCount, RecountFails, Outdated
      <3>4. reacted' \subseteq Reactors
        BY <2>1 DEF ReadExists, CommitFire, FireFails, ReadFireCount, RecountFails, Toggled, Reactors
      <3>5. TypeOK'
        BY <3>1, <3>2, <3>e, <3>3, <3>4 DEF hubVars, postVars, Reactors
      <3> QED BY <3>1, <3>5 DEF hubVars
    <2>2. CASE BroadcastScore(f)
      BY <2>2, ReceiveTypes, MessageFacts DEF BroadcastScore, postVars
    <2> QED BY <1>4, <2>1, <2>2 DEF FireStep
  <1> QED BY <1>1, <1>2, <1>3, <1>4 DEF Next

LEMMA InitTypes == Init => StreamTypes
  <1> SUFFICES ASSUME Init PROVE StreamTypes
    OBVIOUS
  <1> USE DEF Init, HubInit
  <1>1. <<>> \in Seq(Messages) /\ Len(<<>>) = 0 /\ <<>> \in Seq(BroadcastType)
    OBVIOUS
  <1>2. queue \in [Conns -> Seq(Messages)] /\ got \in [Conns -> Seq(Messages)]
    BY <1>1
  <1>3. \A k \in Conns : Len(queue[k]) <= Cap
    BY <1>1, HubAssumption
  <1>4. TypeOK
    BY <1>2, <1>3 DEF TypeOK
  <1>5. HubInv
    BY DEF HubInv, HubNeverPanics
  <1> QED BY <1>1, <1>2, <1>4, <1>5 DEF StreamTypes

\* The state keeps its types: no queue outgrows its buffer, whatever the order
\* in which hub and handlers fill it and writers empty it.
THEOREM TypeCorrect == Spec => []TypeOK
  <1>1. Init => StreamTypes
    BY InitTypes
  <1>2. StreamTypes => TypeOK
    BY DEF StreamTypes
  <1> QED BY <1>1, <1>2, StreamTypesNext, PTL DEF Spec

-----------------------------------------------------------------------------
LEMMA SentType ==
    ASSUME StreamTypes, NEW k \in Conns
    PROVE  Sent(k) \in Seq(Messages) /\ Len(Sent(k)) \in Nat
  BY DEF StreamTypes, TypeOK, Sent

\* A writer takes from the queue what it puts on the socket.
LEMMA WriterKeepsSent ==
    ASSUME StreamTypes, NEW k \in Conns, WriterSends(k), NEW c \in Conns
    PROVE  Sent(c)' = Sent(c)
  <1>1. CASE c = k
    <2> DEFINE q == queue[k]
               g == got[k]
    <2>1. q \in Seq(Messages) /\ q # <<>> /\ g \in Seq(Messages)
      BY DEF StreamTypes, TypeOK, WriterSends
    <2>2. got'[k] = Append(g, Head(q)) /\ queue'[k] = Tail(q)
      BY DEF StreamTypes, TypeOK, WriterSends
    <2> HIDE DEF q, g
    <2>3. Append(g, Head(q)) \o Tail(q) = g \o q
      BY <2>1
    <2> QED BY <1>1, <2>2, <2>3 DEF Sent, q, g
  <1>2. CASE c # k
    BY <1>2 DEF StreamTypes, TypeOK, WriterSends, Sent
  <1> QED BY <1>1, <1>2

LEMMA QueueingSends ==
    ASSUME NEW g \in Seq(Messages), NEW q \in Seq(Messages), NEW m \in Messages
    PROVE  g \o Append(q, m) = Append(g \o q, m)
  OBVIOUS

LEMMA StreamKeeps ==
    ASSUME NEW c \in Conns, Stream(c), Sent(c)' = Sent(c), joined'[c] = joined[c],
           log' = log, c \in clients' => c \in clients /\ (c \in left' <=> c \in left)
    PROVE  Stream(c)'
  BY DEF Stream, Follows

\* The hub receives a broadcast: every client lacks it for now.
LEMMA StreamReceives ==
    ASSUME GapInv, NEW m \in BroadcastType, Receive(m), NEW c \in Conns, Stream(c)
    PROVE  Stream(c)'
  <1> DEFINE s == Sent(c)
             j == joined[c]
             l == log
  <1>1. s \in Seq(Messages) /\ Len(s) \in Nat /\ j \in Nat /\ l \in Seq(BroadcastType)
    BY SentType DEF GapInv, StreamTypes
  <1>2. Follows(s, j, l)
    BY DEF Stream
  <1>3. Follows(s, j, Append(l, m))
    BY <1>1, <1>2, FollowsLog
  <1>4. Sent(c)' = s /\ joined'[c] = j /\ log' = Append(l, m) /\ clients' = clients
    BY DEF Receive, Sent
  <1>5. left = {} /\ (clients # {} => left' = clients)
    BY DEF Receive, Selecting, GapInv, StreamTypes, HubInv
  <1>6. c \in clients => j + Heard(s, Len(s)) = Len(l)
    BY <1>1, <1>5 DEF Stream
  <1> HIDE DEF s, j, l
  <1>7. c \in clients => c \in left' /\ j + Heard(s, Len(s)) = Len(Append(l, m)) - 1
    BY <1>1, <1>5, <1>6
  <1>8. Follows(Sent(c), joined[c], log)'
    BY <1>3, <1>4 DEF Follows
  <1> QED BY <1>4, <1>7, <1>8 DEF Stream

LEMMA ReceiveKeepsGap ==
    ASSUME GapInv, NEW m \in BroadcastType, Receive(m), StreamTypes'
    PROVE  GapInv'
  <1>1. m # NoMsg
    BY MessageFacts
  <1>2. /\ left' \subseteq clients'
        /\ message' # NoMsg => Len(log') > 0 /\ message' = log'[Len(log')]
    <2>1. log \in Seq(BroadcastType) /\ message = NoMsg /\ left = {}
      BY DEF GapInv, StreamTypes, HubInv, Receive, Selecting
    <2>2. Len(Append(log, m)) > 0 /\ Append(log, m)[Len(Append(log, m))] = m
      BY <2>1
    <2> QED BY <2>1, <2>2 DEF Receive
  <1>3. UNCHANGED <<stage, got, queue, open, writer>>
    BY DEF Receive
  <1> QED BY <1>2, <1>3, StreamReceives DEF GapInv

LEMMA VisitKeepsGap ==
    ASSUME GapInv, NEW k \in Conns, Visit(k), StreamTypes'
    PROVE  GapInv'
  <1> USE DEF GapInv
  <1>1. k \in left /\ k \in clients /\ message # NoMsg /\ message = log[Len(log)] /\ k \in open
    BY DEF Visit, StreamTypes, HubInv, HubNeverPanics
  <1>2. left' = left \ {k} /\ UNCHANGED <<stage, writer, log, joined, got>>
    BY DEF Visit
  <1>3. stage[k] # "none"
    BY <1>1
  <1>4. message' # NoMsg => message' = message
    BY DEF Visit
  <1>5. CASE Len(queue[k]) < Cap
    <2>1. /\ UNCHANGED <<clients, open>>
          /\ queue' = [queue EXCEPT ![k] = Append(@, message)]
      BY <1>5 DEF Visit
    <2>2. \A c \in Conns : c # k => Sent(c)' = Sent(c)
      BY <1>2, <2>1 DEF Sent, StreamTypes, TypeOK
    <2>3. ASSUME Stream(k) PROVE Stream(k)'
      <3> DEFINE s == Sent(k)
                 j == joined[k]
                 l == log
                 m == message
      <3>1. /\ s \in Seq(Messages) /\ Len(s) \in Nat /\ j \in Nat /\ l \in Seq(BroadcastType)
            /\ Len(l) > 0 /\ m = l[Len(l)] /\ Heard(s, Len(s)) \in Nat
        BY <1>1, SentType, HeardNat DEF StreamTypes
      <3>2. Sent(k)' = Append(s, m)
        BY <1>1, <1>2, <2>1, QueueingSends DEF Sent, StreamTypes, TypeOK
      <3>3. Follows(s, j, l) /\ j + Heard(s, Len(s)) = Len(l) - 1
        BY <1>1, <2>3 DEF Stream
      <3>4. joined'[k] = j /\ log' = l /\ k \notin left'
        BY <1>2
      <3> HIDE DEF s, j, l, m
      <3>5. m \in BroadcastType
        BY <3>1
      <3>6. m \in Messages /\ m.type # "NEW_NOTIFICATION"
        BY <3>5, MessageFacts
      <3>7. j + Heard(s, Len(s)) + 1 <= Len(l) /\ m = l[j + Heard(s, Len(s)) + 1]
        BY <3>1, <3>3
      <3>8. Follows(Append(s, m), j, l)
        BY <3>1, <3>3, <3>6, <3>7, FollowsMessage
      <3>9. /\ Len(Append(s, m)) = Len(s) + 1
            /\ Heard(Append(s, m), Len(s) + 1) = Heard(s, Len(s)) + 1
        BY <3>1, <3>6, HeardAppend
      <3>10. j + Heard(Append(s, m), Len(Append(s, m))) = Len(l)
        BY <3>1, <3>3, <3>9
      <3>11. Follows(Sent(k), joined[k], log)'
        BY <3>2, <3>4, <3>8 DEF Follows
      <3> QED BY <3>1, <3>2, <3>4, <3>10, <3>11 DEF Stream
    <2>4. ASSUME NEW c \in Conns, Stream(c) PROVE Stream(c)'
      BY <1>2, <2>1, <2>2, <2>3, <2>4, StreamKeeps
    <2> QED BY <1>1, <1>2, <1>3, <1>4, <2>1, <2>4 DEF StreamTypes, TypeOK
  <1>6. CASE ~(Len(queue[k]) < Cap)
    <2>1. clients' = clients \ {k} /\ open' = open \ {k} /\ UNCHANGED queue
      BY <1>6 DEF Visit, Slow, Close
    <2>2. \A c \in Conns : Sent(c)' = Sent(c)
      BY <1>2, <2>1 DEF Sent
    <2>3. ASSUME NEW c \in Conns, Stream(c) PROVE Stream(c)'
      BY <1>2, <2>1, <2>2, <2>3, StreamKeeps
    <2> QED BY <1>1, <1>2, <1>3, <1>4, <2>1, <2>3
  <1> QED BY <1>5, <1>6

LEMMA NotificationKeepsGap ==
    ASSUME GapInv, NEW p \in Posts, NEW k \in Conns, SendNotification(p, k), StreamTypes'
    PROVE  GapInv'
  <1> USE DEF GapInv
  <1>1. UNCHANGED <<clients, open, stage, writer, message, left, log, joined, got>>
    BY DEF SendNotification
  <1>2. CASE queue' = queue
    <2>1. \A c \in Conns : Sent(c)' = Sent(c)
      BY <1>1, <1>2 DEF Sent
    <2>2. ASSUME NEW c \in Conns, Stream(c) PROVE Stream(c)'
      BY <1>1, <2>1, <2>2, StreamKeeps
    <2> QED BY <1>1, <1>2, <2>2
  <1>3. CASE k \in open /\ queue' = [queue EXCEPT ![k] = Append(@, Notification(p))]
    <2>1. stage[k] # "none"
      BY <1>3
    <2>2. \A c \in Conns : c # k => Sent(c)' = Sent(c)
      BY <1>1, <1>3 DEF Sent, StreamTypes, TypeOK
    <2>3. ASSUME Stream(k) PROVE Stream(k)'
      <3> DEFINE s == Sent(k)
                 j == joined[k]
                 l == log
                 m == Notification(p)
      <3>1. /\ s \in Seq(Messages) /\ Len(s) \in Nat /\ j \in Nat /\ l \in Seq(BroadcastType)
            /\ Heard(s, Len(s)) \in Nat /\ m \in Messages /\ m.type = "NEW_NOTIFICATION"
        BY SentType, HeardNat, MessageFacts DEF StreamTypes
      <3>2. Sent(k)' = Append(s, m)
        BY <1>1, <1>3, <3>1, QueueingSends DEF Sent, StreamTypes, TypeOK
      <3>3. /\ Follows(s, j, l)
            /\ k \in clients => j + Heard(s, Len(s)) = Len(l) - (IF k \in left THEN 1 ELSE 0)
        BY <2>3 DEF Stream
      <3>4. joined'[k] = j /\ log' = l /\ left' = left /\ clients' = clients
        BY <1>1
      <3> HIDE DEF s, j, l, m
      <3>5. Follows(Append(s, m), j, l)
        BY <3>1, <3>3, FollowsMessage
      <3>6. Len(Append(s, m)) = Len(s) + 1 /\ Heard(Append(s, m), Len(s) + 1) = Heard(s, Len(s))
        BY <3>1, HeardAppend
      <3>7. Follows(Sent(k), joined[k], log)'
        BY <3>2, <3>4, <3>5 DEF Follows
      <3>8. Heard(Sent(k)', Len(Sent(k)')) = Heard(s, Len(s))
        BY <3>2, <3>6
      <3> QED BY <3>3, <3>4, <3>7, <3>8 DEF Stream, Heard
    <2>4. ASSUME NEW c \in Conns, Stream(c) PROVE Stream(c)'
      BY <1>1, <2>2, <2>3, <2>4, StreamKeeps
    <2> QED BY <1>1, <1>3, <2>1, <2>4 DEF StreamTypes, TypeOK
  <1> QED BY <1>2, <1>3 DEF SendNotification

\* A connection that joins has heard nothing, and the hub is between fan-outs.
LEMMA RegisterKeepsGap ==
    ASSUME GapInv, NEW k \in Conns, Register(k), StreamTypes'
    PROVE  GapInv'
  <1> USE DEF GapInv
  <1>1. /\ left = {} /\ left' = {} /\ message' = NoMsg /\ stage[k] = "none"
        /\ clients' = clients \union {k} /\ open' = open \union {k}
        /\ UNCHANGED <<queue, log, got>>
    BY DEF Register, Selecting, StreamTypes, HubInv
  <1>2. \A c \in Conns : Sent(c)' = Sent(c)
    BY <1>1 DEF Sent
  <1>3. Stream(k)'
    <2>1. Sent(k)' = <<>>
      BY <1>1, <1>2 DEF Sent
    <2>2. joined'[k] = Len(log) /\ Len(log) \in Nat
      BY DEF Register, StreamTypes
    <2>3. Heard(<<>>, 0) = 0 /\ Len(<<>>) = 0
      BY HeardNat
    <2>4. Follows(Sent(k), joined[k], log)'
      BY <2>1 DEF Follows
    <2>5. Heard(Sent(k)', Len(Sent(k)')) = 0
      BY <2>1, <2>3
    <2> QED BY <1>1, <2>2, <2>4, <2>5 DEF Stream, Heard
  <1>4. ASSUME NEW c \in Conns, c # k, Stream(c) PROVE Stream(c)'
    <2>1. joined'[c] = joined[c] /\ (c \in clients' => c \in clients)
      BY <1>1, <1>4 DEF Register, StreamTypes
    <2> QED BY <1>1, <1>2, <1>4, <2>1, StreamKeeps
  <1>5. \A c \in Conns : c # k => stage'[c] = stage[c] /\ writer'[c] = writer[c]
    BY DEF Register, StreamTypes, TypeOK
  <1>6. stage'[k] = "reading"
    BY DEF Register, StreamTypes, TypeOK
  <1> QED BY <1>1, <1>3, <1>4, <1>5, <1>6

\* Nothing the writers, the readers and Unregister do takes a message from a
\* stream that still runs.
LEMMA OthersKeepGap ==
    ASSUME GapInv, NEW k \in Conns, StreamTypes',
           ReadFails(k) \/ WriterSends(k) \/ WriterFails(k) \/ WriterEnds(k) \/ Unregister(k)
    PROVE  GapInv'
  <1> USE DEF GapInv
  <1>1. /\ UNCHANGED <<log, joined, message, left>>
        /\ clients' \subseteq clients /\ open' \subseteq open
        /\ left \subseteq clients'
    BY DEF ReadFails, WriterSends, WriterFails, WriterEnds, Unregister, Close, Selecting,
           StreamTypes, HubInv
  <1>2. \A c \in Conns : stage'[c] = "none" => stage[c] = "none"
    BY DEF ReadFails, WriterSends, WriterFails, WriterEnds, Unregister, StreamTypes, TypeOK
  <1>3. \A c \in Conns : stage[c] = "none" => queue'[c] = queue[c] /\ got'[c] = got[c]
    <2>1. CASE ReadFails(k) \/ WriterEnds(k) \/ Unregister(k)
      BY <2>1 DEF ReadFails, WriterEnds, Unregister
    <2>2. CASE WriterSends(k) \/ WriterFails(k)
      <3>1. stage[k] # "none"
        BY <2>2 DEF WriterSends, WriterFails
      <3>2. \A c \in Conns : c # k => queue'[c] = queue[c] /\ got'[c] = got[c]
        BY <2>2 DEF WriterSends, WriterFails, StreamTypes, TypeOK
      <3> QED BY <3>1, <3>2
    <2> QED BY <2>1, <2>2
  <1>4. \A c \in Conns : writer'[c] \in {"on", "ended"} => writer[c] \in {"on", "ended"}
    <2>1. CASE ReadFails(k) \/ WriterSends(k) \/ Unregister(k)
      <3>1. writer' = writer
        BY <2>1 DEF ReadFails, WriterSends, Unregister
      <3> QED BY <3>1
    <2>2. CASE WriterFails(k) \/ WriterEnds(k)
      <3>1. writer[k] = "on" /\ \A c \in Conns : c # k => writer'[c] = writer[c]
        BY <2>2 DEF WriterFails, WriterEnds, StreamTypes, TypeOK
      <3> QED BY <3>1
    <2> QED BY <2>1, <2>2
  <1>5. \A c \in Conns : writer'[c] \in {"on", "ended"} => Sent(c)' = Sent(c)
    <2>1. CASE WriterSends(k)
      BY <2>1, WriterKeepsSent
    <2>2. CASE ReadFails(k) \/ WriterEnds(k) \/ Unregister(k)
      BY <2>2 DEF ReadFails, WriterEnds, Unregister, Sent
    <2>3. CASE WriterFails(k)
      <3>1. writer'[k] = "failed" /\ got' = got
            /\ \A c \in Conns : c # k => queue'[c] = queue[c]
        BY <2>3 DEF WriterFails, StreamTypes, TypeOK
      <3> QED BY <3>1 DEF Sent
    <2> QED BY <2>1, <2>2, <2>3
  <1>6. ASSUME NEW c \in Conns, writer'[c] \in {"on", "ended"} PROVE Stream(c)'
    <2>1. Stream(c) /\ Sent(c)' = Sent(c)
      BY <1>4, <1>5, <1>6
    <2> QED BY <1>1, <2>1, StreamKeeps
  <1> QED BY <1>1, <1>2, <1>3, <1>6

LEMMA GapInvNext ==
    ASSUME GapInv, [Next]_vars
    PROVE  GapInv'
  <1>h. StreamTypes'
    BY StreamTypesNext DEF GapInv
  <1>0. ASSUME UNCHANGED hubVars PROVE GapInv'
    BY <1>0, <1>h DEF hubVars, GapInv, Stream, Sent, Follows
  <1>1. CASE UNCHANGED vars
    BY <1>0, <1>1 DEF vars
  <1>2. ASSUME NEW k \in Conns, Network(k) PROVE GapInv'
    BY <1>2, <1>h, RegisterKeepsGap, OthersKeepGap, VisitKeepsGap
       DEF Network, ConnStep, HubStep
  <1>3. ASSUME NEW p \in Posts, PostStep(p) PROVE GapInv'
    <2>1. CASE \/ SaveComment(p) \/ SaveNotification(p) \/ NotificationFails(p)
               \/ CollectTargets(p) \/ AllNotified(p)
      BY <1>0, <2>1 DEF SaveComment, SaveNotification, NotificationFails, CollectTargets,
                        AllNotified
    <2>2. CASE BroadcastComment(p)
      BY <1>h, <2>2, MessageFacts, ReceiveKeepsGap DEF BroadcastComment
    <2>3. ASSUME NEW k \in Conns, SendNotification(p, k) PROVE GapInv'
      BY <1>h, <2>3, NotificationKeepsGap
    <2> QED BY <1>3, <2>1, <2>2, <2>3 DEF PostStep
  <1>4. ASSUME NEW f \in Fires, FireStep(f) PROVE GapInv'
    <2>1. CASE \/ ReadExists(f) \/ CommitFire(f) \/ FireFails(f)
               \/ ReadFireCount(f) \/ RecountFails(f)
      BY <1>0, <2>1 DEF ReadExists, CommitFire, FireFails, ReadFireCount, RecountFails
    <2>2. CASE BroadcastScore(f)
      BY <1>h, <2>2, MessageFacts, ReceiveKeepsGap DEF BroadcastScore
    <2> QED BY <1>4, <2>1, <2>2 DEF FireStep
  <1> QED BY <1>1, <1>2, <1>3, <1>4 DEF Next

\* However slow clients are cut off and whatever the handlers queue meanwhile, a
\* connection whose writer works gets the broadcasts since it joined, in the
\* hub's order and without a gap, and a client of the hub gets all of them.
THEOREM StreamsHaveNoGap == Spec => []Gapless
  <1>1. Init => GapInv
    <2> SUFFICES ASSUME Init PROVE GapInv
      OBVIOUS
    <2>1. StreamTypes
      BY InitTypes
    <2> QED BY <2>1 DEF Init, HubInit, GapInv
  <1>2. GapInv => Gapless
    <2> SUFFICES ASSUME GapInv, NEW k \in Conns, writer[k] \in {"on", "ended"}
                 PROVE  /\ Follows(Sent(k), joined[k], log)
                        /\ k \in clients \ left =>
                             joined[k] + Heard(Sent(k), Len(Sent(k))) = Len(log)
      BY DEF Gapless, Sent, Follows
    <2>1. Stream(k) /\ Len(log) \in Nat
      BY DEF GapInv, StreamTypes
    <2> QED BY <2>1 DEF Stream
  <1> QED BY <1>1, <1>2, GapInvNext, PTL DEF Spec

-----------------------------------------------------------------------------
(* The counts of fires. *)

\* A handler about to broadcast has the count that is, or is one of those
\* LastCountRight exempts.
CountInv ==
    /\ StreamTypes
    /\ DOMAIN newFireCount = Fires
    /\ \A f \in Fires : fire[f] = "broadcast" =>
         newFireCount[f] = Cardinality(reacted) \/ f \in stale \union blind
    /\ LastCountRight

\* What leaves the fires alone and logs no score leaves the last count alone.
LEMMA CountKept ==
    ASSUME CountInv, StreamTypes', UNCHANGED fireVars,
           log' = log \/ \E p \in Posts : log' = Append(log, Comment(p))
    PROVE  CountInv'
  <1> USE DEF CountInv, fireVars
  <1>1. CASE log' = log
    BY <1>1 DEF LastCountRight
  <1>2. ASSUME NEW p \in Posts, log' = Append(log, Comment(p)) PROVE CountInv'
    <2>1. log \in Seq(BroadcastType) /\ Comment(p).type # "SWING_SCORE_UPDATE"
      BY DEF StreamTypes, Comment
    <2> DEFINE l == log
               m == Comment(p)
               ll == Append(l, m)
    <2>2. \A f \in Fires : Score(f) # m
      BY DEF Score, Comment
    <2>3. /\ Len(ll) = Len(l) + 1 /\ Len(l) \in Nat /\ ll[Len(l) + 1] = m
          /\ \A i \in 1..Len(l) : ll[i] = l[i]
      BY <2>1
    <2> HIDE DEF l, m, ll
    <2>4. \A i \in 1..Len(ll), f \in Fires : ll[i] = Score(f) => i \in 1..Len(l) /\ l[i] = Score(f)
      BY <2>2, <2>3
    <2>5. \A j \in 1..Len(l) : j \in 1..Len(ll) /\ ll[j] = l[j]
      BY <2>3
    <2>6. LastCountRight'
      BY <1>2, <2>4, <2>5 DEF LastCountRight, l, m, ll
    <2> QED BY <2>6
  <1> QED BY <1>1, <1>2

LEMMA CountInvNext ==
    ASSUME CountInv, [Next]_vars
    PROVE  CountInv'
  <1>h. StreamTypes' /\ fire \in [Fires -> {"start", "toggle", "read", "broadcast", "done", "failed"}]
    BY StreamTypesNext DEF CountInv, StreamTypes, TypeOK
  <1>1. ASSUME UNCHANGED fireVars, UNCHANGED log PROVE CountInv'
    BY <1>h, <1>1, CountKept
  <1>2. CASE UNCHANGED vars
    BY <1>1, <1>2 DEF vars, fireVars, hubVars
  <1>3. ASSUME NEW k \in Conns, Network(k) PROVE CountInv'
    <2>1. UNCHANGED fireVars /\ UNCHANGED log
      BY <1>3 DEF Network, ConnStep, HubStep, ReadFails, WriterSends, WriterFails, WriterEnds,
                  Register, Unregister, Visit
    <2> QED BY <1>1, <2>1
  <1>4. ASSUME NEW p \in Posts, PostStep(p) PROVE CountInv'
    <2>1. CASE BroadcastComment(p)
      BY <1>h, <2>1, CountKept DEF BroadcastComment, Receive
    <2>2. CASE ~BroadcastComment(p)
      <3>1. UNCHANGED fireVars /\ UNCHANGED log
        BY <1>4, <2>2 DEF PostStep, SaveComment, SaveNotification, NotificationFails,
                          CollectTargets, SendNotification, AllNotified, hubVars
      <3> QED BY <1>1, <3>1
    <2> QED BY <2>1, <2>2
  <1>5. ASSUME NEW f \in Fires, ReadExists(f) \/ FireFails(f) PROVE CountInv'
    <2>1. /\ UNCHANGED <<reacted, newFireCount, stale, blind, log>>
          /\ \A g \in Fires : fire'[g] \in {"read", "broadcast"} <=> fire[g] \in {"read", "broadcast"}
          /\ \A g \in Fires : fire'[g] = "broadcast" => fire[g] = "broadcast"
      BY <1>h, <1>5 DEF ReadExists, FireFails, hubVars
    <2> QED BY <1>h, <2>1 DEF CountInv, LastCountRight
  <1>6. ASSUME NEW f \in Fires, CommitFire(f) PROVE CountInv'
    <2>1. fire'[f] = "read" /\ newFireCount' = newFireCount
      BY <1>h, <1>6 DEF CommitFire
    <2>2. \A g \in Fires : fire'[g] = "broadcast" => g \in stale'
      BY <1>h, <1>6 DEF CommitFire, Outdated
    <2> QED BY <1>h, <2>1, <2>2 DEF CountInv, LastCountRight
  <1>7. ASSUME NEW f \in Fires, ReadFireCount(f) \/ RecountFails(f) PROVE CountInv'
    <2>1. /\ fire'[f] = "broadcast" /\ UNCHANGED <<reacted, stale>> /\ blind \subseteq blind'
          /\ newFireCount'[f] = Cardinality(reacted) \/ f \in blind'
          /\ \A g \in Fires : g # f => fire'[g] = fire[g] /\ newFireCount'[g] = newFireCount[g]
          /\ DOMAIN newFireCount' = Fires
      BY <1>h, <1>7 DEF ReadFireCount, RecountFails, CountInv
    <2> QED BY <1>h, <2>1 DEF CountInv, LastCountRight
  <1>8. ASSUME NEW f \in Fires, BroadcastScore(f) PROVE CountInv'
    <2>1. /\ fire[f] = "broadcast" /\ fire' = [fire EXCEPT ![f] = "done"]
          /\ UNCHANGED <<reacted, newFireCount, stale, blind>> /\ log' = Append(log, Score(f))
      BY <1>8 DEF BroadcastScore, Receive
    <2>2. log \in Seq(BroadcastType)
      BY DEF CountInv, StreamTypes
    <2> DEFINE l == log
               m == Score(f)
               ll == Append(l, m)
    <2>3. Len(ll) = Len(l) + 1 /\ Len(l) \in Nat /\ ll[Len(l) + 1] = m
      BY <2>2
    <2>4. m.type = "SWING_SCORE_UPDATE" /\ \A g \in Fires : Score(g) = m => g = f
      BY DEF Score
    <2>5. newFireCount[f] = Cardinality(reacted) \/ f \in stale \union blind
      BY <2>1 DEF CountInv
    <2> HIDE DEF l, m, ll
    <2>6. ASSUME NEW i \in 1..Len(ll), NEW g \in Fires, ll[i] = Score(g),
                 \A j \in 1..Len(ll) : ll[j].type = "SWING_SCORE_UPDATE" => j <= i
          PROVE  g = f
      <3>1. Len(ll) \in 1..Len(ll) /\ ll[Len(ll)] = m
        BY <2>3
      <3>2. i = Len(ll)
        BY <2>3, <2>4, <2>6, <3>1
      <3> QED BY <2>4, <2>6, <3>1, <3>2
    <2>7. LastCountRight'
      BY <2>1, <2>5, <2>6 DEF LastCountRight, l, m, ll
    <2>8. \A g \in Fires : fire'[g] = "broadcast" => fire[g] = "broadcast"
      BY <1>h, <2>1
    <2> QED BY <1>h, <2>1, <2>7, <2>8 DEF CountInv
  <1> QED BY <1>2, <1>3, <1>4, <1>5, <1>6, <1>7, <1>8 DEF Next, FireStep

\* For any number of fires and un-fires, in any order: the last count pages are
\* told is the number of fires, but for the two races and failures named.
THEOREM LastCountsAreRight == Spec => []LastCountRight
  <1>1. Init => CountInv
    <2> SUFFICES ASSUME Init PROVE CountInv
      OBVIOUS
    <2>1. StreamTypes
      BY InitTypes
    <2>2. log = <<>> /\ Len(<<>>) = 0
      BY DEF Init, HubInit
    <2> QED BY <2>1, <2>2 DEF Init, CountInv, LastCountRight
  <1>2. CountInv => LastCountRight
    BY DEF CountInv
  <1> QED BY <1>1, <1>2, CountInvNext, PTL DEF Spec
=============================================================================
