---------------------------- MODULE ThreadProofs ----------------------------
(***************************************************************************)
(* Proofs about Thread, for any comments and replies, any number of        *)
(* fetches under way and of changes of the URL.                            *)
(***************************************************************************)
EXTENDS Thread, SequenceTheorems, TLAPS

-----------------------------------------------------------------------------
(* Types, and what is known to be saved *)

Copies == {Nothing} \cup SUBSET Copy
Calls == [from : Nat, was : Copies]
Stages == {"unsaved", "saved", "broadcast", "abandoned"}
PostPlaces == {"idle", "posting", "fetching", "stats", "done"}

Types ==
  /\ saved \in Seq(Comments)
  /\ stage \in [Comments -> Stages]
  /\ wire \in Seq(Comments)
  /\ list \in Copies
  /\ detail \in Copies
  /\ asked \in Seq(Calls)
  /\ post \in [Own -> [at : PostPlaces, from : Nat, was : Copies]]

InTable(c) == \E i \in 1..Len(saved) : saved[i] = c

\* What is on the wire, or is about to be inserted, is in the table.
AllSaved ==
  /\ \A c \in Comments : stage[c] # "unsaved" => InTable(c)
  /\ \A i \in 1..Len(wire) : InTable(wire[i])
  /\ \A c \in Own : post[c].at \in {"fetching", "stats"} => InTable(c)

Inv == Types /\ AllSaved

-----------------------------------------------------------------------------
(* The operators *)

LEMMA RowsOfTable ==
  ASSUME saved \in Seq(Comments), NEW n \in 0..Len(saved)
  PROVE  Rows(n) \subseteq Comments
  BY DEF Rows

LEMMA IsRow ==
  ASSUME NEW c, InTable(c)
  PROVE  c \in Rows(Len(saved))
  BY DEF InTable, Rows

LEMMA IdsOfCopy ==
  ASSUME NEW copy \in SUBSET Copy
  PROVE  /\ copy # Nothing
         /\ Ids(copy) \subseteq Comments
         /\ Ids(copy) # Nothing
         /\ \A c : Holds(copy, c) <=> c \in Ids(copy)
  <1>1. copy # Nothing
    BY NothingAssumption
  <1>2. Ids(copy) = {x.id : x \in copy}
    BY <1>1 DEF Ids
  <1>3. Ids(copy) \subseteq Comments
    BY <1>2 DEF Copy
  <1>4. Ids(copy) # Nothing
    BY <1>3, NothingAssumption
  <1> QED BY <1>1, <1>2, <1>3, <1>4 DEF Holds

LEMMA FullOfRows ==
  ASSUME NEW S \in SUBSET Comments
  PROVE  /\ Full(S) \in SUBSET Copy
         /\ Ids(Full(S)) = S
         /\ \A x, y \in Full(S) : x.id = y.id => x = y
  <1>1. Full(S) \in SUBSET Copy
    <2>1. \A c \in S : [id |-> c, full |-> TRUE] \in Copy
      BY DEF Copy
    <2> QED BY <2>1 DEF Full
  <1>2. Full(S) # Nothing
    BY <1>1, NothingAssumption
  <1>3. \A x \in Full(S) : x.id \in S /\ x = [id |-> x.id, full |-> TRUE]
    BY DEF Full
  <1>4. \A c \in S : \E x \in Full(S) : x.id = c
    <2>1. SUFFICES ASSUME NEW c \in S PROVE \E x \in Full(S) : x.id = c
      OBVIOUS
    <2>2. [id |-> c, full |-> TRUE] \in Full(S)
      BY DEF Full
    <2> QED BY <2>2
  <1>5. Ids(Full(S)) = S
    BY <1>2, <1>3, <1>4 DEF Ids
  <1> QED BY <1>1, <1>3, <1>5

LEMMA AddingOne ==
  ASSUME NEW copy \in SUBSET Copy, NEW x \in Copy
  PROVE  /\ copy \cup {x} \in SUBSET Copy
         /\ Ids(copy \cup {x}) = Ids(copy) \cup {x.id}
  <1>1. copy \cup {x} \in SUBSET Copy
    OBVIOUS
  <1>2. copy # Nothing /\ copy \cup {x} # Nothing
    BY <1>1, NothingAssumption
  <1> QED BY <1>1, <1>2 DEF Ids

LEMMA Removing ==
  ASSUME NEW S, NEW s \in Seq(S), NEW i \in 1..Len(s)
  PROVE  RemoveAt(s, i) \in Seq(S)
  <1>1. SubSeq(s, 1, i - 1) \in Seq(S)
    <2>1. \A j \in 1..(i - 1) : s[j] \in S
      BY LenProperties
    <2> QED BY <2>1, SubSeqProperties
  <1>2. SubSeq(s, i + 1, Len(s)) \in Seq(S)
    <2>1. \A j \in (i + 1)..Len(s) : s[j] \in S
      BY LenProperties
    <2> QED BY <2>1, LenProperties, SubSeqProperties
  <1> QED BY <1>1, <1>2, ConcatProperties DEF RemoveAt

LEMMA OnWire ==
  ASSUME NEW w \in Seq(Comments), NEW c
  PROVE  c \in Range(w) <=> \E i \in 1..Len(w) : w[i] = c
  BY LenProperties DEF Range

LEMMA AddToListIsCopy ==
  ASSUME NEW x \in Copy, list \in Copies
  PROVE  AddToList(x) \in Copies
  BY AddingOne DEF AddToList, Places, Copies

LEMMA InsertIsCopy ==
  ASSUME NEW c \in Comments, detail \in Copies
  PROVE  Insert(c) \in Copies
  <1>1. Blank(c) \in Copy
    BY DEF Blank, Copy
  <1> QED BY <1>1, AddingOne DEF Insert, Places, Copies

LEMMA AnswersAreCopies ==
  ASSUME saved \in Seq(Comments), NEW call, call.was \in Copies, call.from \in Nat,
         NEW d \in Answers(call)
  PROVE  d \in Copies
  <1>1. CASE d = call.was
    BY <1>1
  <1>2. ASSUME NEW n \in (call.from..Len(saved)) \cup {0}, d = Full(Rows(n))
        PROVE  d \in Copies
    <2>1. n \in 0..Len(saved)
      BY LenProperties
    <2> QED BY <1>2, <2>1, RowsOfTable, FullOfRows DEF Copies
  <1> QED BY <1>1, <1>2 DEF Answers

LEMMA Rendered ==
  ASSUME saved \in Seq(Comments), NEW l \in Copies, NEW d \in Copies, NEW o, NEW k,
         NEW others \in Seq(Calls), NEW moved, Render(l, d, o, k, others, moved)
  PROVE  list' = l /\ detail' = d /\ asked' \in Seq(Calls)
  <1>1. Call(l) \in Calls
    BY LenProperties DEF Call, Calls
  <1>2. PICK m \in BOOLEAN, r \in BOOLEAN :
          asked' = others \o ((IF m THEN <<Call(l)>> ELSE << >>) \o (IF r THEN <<Call(l)>> ELSE << >>))
    <2> DEFINE r == o /\ Length(Shown(l, d)) # Length(IF chosen THEN Shown(list, detail) ELSE Nothing)
    <2>1. asked' = others \o ((IF moved THEN <<Call(l)>> ELSE << >>) \o (IF r THEN <<Call(l)>> ELSE << >>))
      BY DEF Render
    <2> HIDE DEF r
    <2>2. (IF moved THEN <<Call(l)>> ELSE << >>) = (IF moved = TRUE THEN <<Call(l)>> ELSE << >>)
      OBVIOUS
    <2> QED BY <2>1, <2>2
  <1>3. <<Call(l)>> \in Seq(Calls) /\ << >> \in Seq(Calls)
    BY <1>1
  <1>4. (IF m THEN <<Call(l)>> ELSE << >>) \o (IF r THEN <<Call(l)>> ELSE << >>) \in Seq(Calls)
    BY <1>3, ConcatProperties
  <1>5. asked' \in Seq(Calls)
    BY <1>2, <1>4, ConcatProperties
  <1> QED BY <1>5 DEF Render

LEMMA Answering ==
  ASSUME saved \in Seq(Comments), asked \in Seq(Calls), list \in Copies,
         Answered
  PROVE  /\ list' = list /\ asked' \in Seq(Calls)
         /\ \E i \in 1..Len(asked) : detail' \in Answers(asked[i])
         /\ detail' \in Copies
  <1>1. PICK i \in 1..Len(asked) : \E d \in Answers(asked[i]) :
          Render(list, d, open, linked, RemoveAt(asked, i), FALSE)
    BY DEF Answered
  <1>2. PICK d \in Answers(asked[i]) : Render(list, d, open, linked, RemoveAt(asked, i), FALSE)
    BY <1>1
  <1>3. asked[i] \in Calls
    BY LenProperties
  <1>4. d \in Copies
    BY <1>3, AnswersAreCopies DEF Calls
  <1>5. RemoveAt(asked, i) \in Seq(Calls)
    BY Removing
  <1>6. list' = list /\ detail' = d /\ asked' \in Seq(Calls)
    BY <1>2, <1>4, <1>5, Rendered
  <1> QED BY <1>4, <1>6

-----------------------------------------------------------------------------
(* Types and AllSaved are inductive *)

LEMMA InvInit == Init => Inv
  <1> SUFFICES ASSUME Init PROVE Inv
    OBVIOUS
  <1>1. saved \in Seq(Comments) /\ wire \in Seq(Comments) /\ saved = << >> /\ wire = << >>
    BY DEF Init
  <1>2. asked \in Seq(Calls)
    <2>1. Call(Nothing) \in Calls
      BY <1>1, LenProperties DEF Call, Calls, Copies
    <2>2. <<Call(Nothing)>> \in Seq(Calls) /\ << >> \in Seq(Calls)
      BY <2>1
    <2> QED BY <2>2 DEF Init
  <1>3. stage \in [Comments -> Stages] /\ list \in Copies /\ detail \in Copies
    BY DEF Init, Stages, Copies
  <1>4. post \in [Own -> [at : PostPlaces, from : Nat, was : Copies]]
    BY DEF Init, PostPlaces, Copies, At
  <1>5. Types
    BY <1>1, <1>2, <1>3, <1>4 DEF Types
  <1>6. AllSaved
    <2>1. \A c \in Comments : stage[c] = "unsaved"
      BY DEF Init
    <2>2. \A c \in Own : post[c].at = "idle"
      BY DEF Init, At
    <2>3. \A i \in 1..Len(wire) : FALSE
      BY <1>1, EmptySeq
    <2> QED BY <2>1, <2>2, <2>3 DEF AllSaved
  <1> QED BY <1>5, <1>6 DEF Inv

LEMMA PostType ==
  ASSUME Types, NEW c \in Own
  PROVE  /\ post[c].at \in PostPlaces /\ post[c].from \in Nat /\ post[c].was \in Copies
         /\ c \in Comments
  BY CommentsAssumption DEF Types

LEMMA TypesNext ==
  ASSUME Types, AllSaved, [Next]_vars
  PROVE  Types'
  <1> USE DEF Types, server, dialog, loading
  <1>1. CASE UNCHANGED vars
    BY <1>1 DEF vars
  <1>2. ASSUME NEW c \in Comments, Save(c) PROVE Types'
    <2>1. saved' \in Seq(Comments)
      BY <1>2, AppendProperties DEF Save
    <2> QED BY <1>2, <2>1 DEF Save, Stages
  <1>3. ASSUME NEW c \in Comments, Broadcast(c) PROVE Types'
    <2>1. Append(wire, c) \in Seq(Comments)
      BY AppendProperties
    <2> QED BY <1>3, <2>1 DEF Broadcast, Stages
  <1>4. ASSUME NEW c \in Comments, Abandon(c) PROVE Types'
    BY <1>4 DEF Abandon, Stages
  <1>5. CASE Disconnect \/ Reconnect \/ GiveUp
    BY <1>5, EmptySeq DEF Disconnect, Reconnect, GiveUp
  <1>6. CASE Message
    <2> DEFINE x == [id |-> Head(wire), full |-> TRUE]
    <2>1. Head(wire) \in Comments /\ wire' \in Seq(Comments)
      BY <1>6, HeadTailProperties DEF Message
    <2>2. x \in Copy
      BY <2>1 DEF Copy
    <2>3. Render(AddToList(x), detail, open, linked, asked, FALSE)
      BY <1>6 DEF Message, Redraw
    <2> HIDE DEF x
    <2>4. list' \in Copies /\ detail' \in Copies /\ asked' \in Seq(Calls)
      BY <2>2, <2>3, AddToListIsCopy, Rendered
    <2> QED BY <1>6, <2>1, <2>4 DEF Message
  <1>7. CASE OpenListed
    <2>1. list' \in Copies /\ detail' \in Copies /\ asked' \in Seq(Calls)
      BY <1>7, Rendered DEF OpenListed
    <2> QED BY <1>7, <2>1 DEF OpenListed
  <1>8. ASSUME NEW k \in BOOLEAN, Navigate(k) PROVE Types'
    <2>1. list' \in Copies /\ detail' \in Copies /\ asked' \in Seq(Calls)
      BY <1>8, Rendered DEF Navigate
    <2> QED BY <1>8, <2>1 DEF Navigate
  <1>9. CASE Close
    <2>1. list' \in Copies /\ detail' \in Copies /\ asked' \in Seq(Calls)
      BY <1>9, Rendered DEF Close
    <2> QED BY <1>9, <2>1 DEF Close
  <1>10. CASE Expand \/ ListFails
    BY <1>10 DEF Expand, ListFails
  <1>11. CASE ListLoaded
    <2>1. PICK l \in {Full(Rows(n)) : n \in 0..Len(saved)} \cup {Nothing} : Redraw(l, detail)
      BY <1>11 DEF ListLoaded
    <2>2. l \in Copies
      BY RowsOfTable, FullOfRows DEF Copies
    <2>3. list' \in Copies /\ detail' \in Copies /\ asked' \in Seq(Calls)
      BY <2>1, <2>2, Rendered DEF Redraw
    <2> QED BY <1>11, <2>3 DEF ListLoaded
  <1>12. CASE Answered
    BY <1>12, Answering DEF Answered
  <1>13. ASSUME NEW c \in Own, Submit(c) PROVE Types'
    BY <1>13, PostType DEF Submit, PostPlaces, At
  <1>14. ASSUME NEW c \in Own, Posted(c) PROVE Types'
    <2>1. Blank(c) \in Copy
      BY PostType DEF Blank, Copy
    <2>2. list' \in Copies /\ detail' \in Copies /\ asked' \in Seq(Calls)
      BY <1>14, <2>1, AddToListIsCopy, Rendered DEF Posted, Redraw
    <2>3. post' \in [Own -> [at : PostPlaces, from : Nat, was : Copies]]
      BY <1>14, PostType, LenProperties DEF Posted, PostPlaces, At
    <2> QED BY <1>14, <2>2, <2>3 DEF Posted
  <1>15. ASSUME NEW c \in Own, PostFails(c) PROVE Types'
    BY <1>15, PostType DEF PostFails, PostPlaces, Copies, At
  <1>16. ASSUME NEW c \in Own, Fetched(c) PROVE Types'
    <2>1. PICK d \in Answers(post[c]) : Redraw(list, d)
      BY <1>16 DEF Fetched
    <2>2. d \in Copies
      BY PostType, AnswersAreCopies
    <2>3. list' \in Copies /\ detail' \in Copies /\ asked' \in Seq(Calls)
      BY <2>1, <2>2, Rendered DEF Redraw
    <2>4. post' \in [Own -> [at : PostPlaces, from : Nat, was : Copies]]
      BY <1>16, PostType DEF Fetched, PostPlaces, Copies, At
    <2> QED BY <1>16, <2>3, <2>4 DEF Fetched
  <1>17. ASSUME NEW c \in Own, Inserted(c) PROVE Types'
    <2>1. list' \in Copies /\ detail' \in Copies /\ asked' \in Seq(Calls)
      BY <1>17, PostType, InsertIsCopy, Rendered DEF Inserted, Redraw
    <2>2. post' \in [Own -> [at : PostPlaces, from : Nat, was : Copies]]
      BY <1>17, PostType DEF Inserted, PostPlaces, Copies, At
    <2> QED BY <1>17, <2>1, <2>2 DEF Inserted
  <1> QED BY <1>1, <1>2, <1>3, <1>4, <1>5, <1>6, <1>7, <1>8, <1>9, <1>10, <1>11, <1>12, <1>13,
             <1>14, <1>15, <1>16, <1>17 DEF Next

\* What is saved stays saved, and a step that saves nothing keeps AllSaved if
\* what it puts on the wire or is about to insert is in the table.
LEMMA AllSavedKept ==
  ASSUME AllSaved, UNCHANGED <<saved, stage>>,
         \A i \in 1..Len(wire') : InTable(wire'[i]),
         \A c \in Own : post'[c].at \in {"fetching", "stats"} => InTable(c)
  PROVE  AllSaved'
  <1>1. \A c : InTable(c)' <=> InTable(c)
    BY DEF InTable
  <1>2. (\A c \in Comments : stage[c] # "unsaved" => InTable(c))'
    BY <1>1 DEF AllSaved
  <1>3. (\A i \in 1..Len(wire) : InTable(wire[i]))'
    BY <1>1
  <1>4. (\A c \in Own : post[c].at \in {"fetching", "stats"} => InTable(c))'
    BY <1>1
  <1> QED BY <1>2, <1>3, <1>4 DEF AllSaved

LEMMA AllSavedNext ==
  ASSUME Types, AllSaved, [Next]_vars
  PROVE  AllSaved'
  <1> USE DEF server, dialog, loading
  <1>1. ASSUME UNCHANGED <<saved, stage, wire, post>> PROVE AllSaved'
    BY <1>1, AllSavedKept DEF AllSaved
  <1>2. CASE UNCHANGED vars
    BY <1>1, <1>2 DEF vars
  <1>3. ASSUME NEW c \in Comments, Save(c) PROVE AllSaved'
    <2>1. /\ saved' = Append(saved, c) /\ stage' = [stage EXCEPT ![c] = "saved"]
          /\ wire' = wire /\ post' = post
      BY <1>3 DEF Save
    <2>2. /\ saved \in Seq(Comments) /\ Len(saved) \in Nat /\ Len(saved') = Len(saved) + 1
          /\ \A i \in 1..Len(saved) : saved'[i] = saved[i]
          /\ saved'[Len(saved) + 1] = c
      BY <2>1, AppendProperties, LenProperties DEF Types
    <2>3. \A x : InTable(x) => InTable(x)'
      BY <2>2 DEF InTable
    <2>4. InTable(c)'
      BY <2>2 DEF InTable
    <2>5. (\A x \in Comments : stage[x] # "unsaved" => InTable(x))'
      BY <2>1, <2>3, <2>4 DEF AllSaved, Types
    <2>6. (\A i \in 1..Len(wire) : InTable(wire[i]))'
      BY <2>1, <2>3 DEF AllSaved
    <2>7. (\A x \in Own : post[x].at \in {"fetching", "stats"} => InTable(x))'
      BY <2>1, <2>3 DEF AllSaved
    <2> QED BY <2>5, <2>6, <2>7 DEF AllSaved
  <1>4. ASSUME NEW c \in Comments, Broadcast(c) \/ Abandon(c) PROVE AllSaved'
    <2>1. /\ stage[c] = "saved" /\ stage' \in {[stage EXCEPT ![c] = s] : s \in Stages}
          /\ wire' \in {wire, Append(wire, c)} /\ UNCHANGED <<saved, post>>
      BY <1>4 DEF Broadcast, Abandon, Stages
    <2>2. InTable(c)
      BY <2>1 DEF AllSaved
    <2>3. \A x : InTable(x)' <=> InTable(x)
      BY <2>1 DEF InTable
    <2>4. (\A x \in Comments : stage[x] # "unsaved" => InTable(x))'
      BY <2>1, <2>2, <2>3 DEF AllSaved, Types
    <2>5. (\A i \in 1..Len(wire) : InTable(wire[i]))'
      <3>1. \A i \in 1..Len(wire') : wire'[i] = c \/ \E j \in 1..Len(wire) : wire'[i] = wire[j]
        BY <2>1, AppendProperties, LenProperties DEF Types
      <3> QED BY <3>1, <2>2, <2>3 DEF AllSaved
    <2>6. (\A x \in Own : post[x].at \in {"fetching", "stats"} => InTable(x))'
      BY <2>1, <2>3 DEF AllSaved
    <2> QED BY <2>4, <2>5, <2>6 DEF AllSaved
  <1>5. CASE Disconnect
    <2>1. UNCHANGED <<saved, stage, post>> /\ \A i \in 1..Len(wire') : FALSE
      BY <1>5, EmptySeq DEF Disconnect
    <2> QED BY <2>1, AllSavedKept DEF AllSaved
  <1>6. CASE Message
    <2>1. UNCHANGED <<saved, stage, post>> /\ wire' = Tail(wire) /\ wire # << >>
      BY <1>6 DEF Message
    <2>2. \A i \in 1..Len(wire') : i + 1 \in 1..Len(wire) /\ wire'[i] = wire[i + 1]
      BY <2>1, HeadTailProperties, LenProperties DEF Types
    <2> QED BY <2>1, <2>2, AllSavedKept DEF AllSaved
  <1>7. CASE Reconnect \/ GiveUp \/ OpenListed \/ Close \/ Expand \/ ListLoaded \/ ListFails \/ Answered
    BY <1>1, <1>7 DEF Reconnect, GiveUp, OpenListed, Close, Expand, ListLoaded, ListFails, Answered
  <1>8. ASSUME NEW k \in BOOLEAN, Navigate(k) PROVE AllSaved'
    BY <1>1, <1>8 DEF Navigate
  <1>9. ASSUME NEW c \in Own, Submit(c) \/ Posted(c) \/ PostFails(c) \/ Fetched(c) \/ Inserted(c)
        PROVE  AllSaved'
    <2>1. UNCHANGED <<saved, stage, wire>>
      BY <1>9 DEF Submit, Posted, PostFails, Fetched, Inserted
    <2>2. ASSUME NEW x \in Own, post'[x].at \in {"fetching", "stats"} PROVE InTable(x)
      <3>1. CASE x # c
        <4>1. post'[x] = post[x]
          BY <1>9, <3>1 DEF Submit, Posted, PostFails, Fetched, Inserted, Types
        <4> QED BY <2>2, <4>1 DEF AllSaved
      <3>2. CASE x = c
        <4>1. Posted(c) \/ Fetched(c)
          BY <1>9, <2>2, <3>2 DEF Submit, PostFails, Inserted, Types, At
        <4> QED BY <4>1, <3>2, CommentsAssumption DEF Posted, Fetched, AllSaved
      <3> QED BY <3>1, <3>2
    <2> QED BY <2>1, <2>2, AllSavedKept DEF AllSaved
  <1> QED BY <1>2, <1>3, <1>4, <1>5, <1>6, <1>7, <1>8, <1>9 DEF Next

LEMMA InvAlways == Spec => []Inv
  <1>1. Inv /\ [Next]_vars => Inv'
    BY TypesNext, AllSavedNext DEF Inv
  <1> QED BY InvInit, <1>1, PTL DEF Spec

-----------------------------------------------------------------------------
(* The rest of the types.  TypeOK bounds what a call of fetchStats and a    *)
(* submit handler have seen of the table, and counts the list loads: there  *)
(* are never more under way than changes of the URL, and the first.         *)

CallsUpTo(n) == [from : 0..n, was : Copies]

Flags ==
  /\ chosen \in BOOLEAN /\ open \in BOOLEAN /\ linked \in BOOLEAN /\ broken \in BOOLEAN
  /\ open \/ linked => chosen

CallsKnown == Len(asked) <= MaxAsked /\ asked \in Seq(CallsUpTo(Len(saved)))

PostsKnown ==
  \A c \in Own : /\ post[c].from <= Len(saved)
                 /\ post[c].at = "idle" => stage[c] = "unsaved"

Counts ==
  /\ socket \in {"open", "closed", "gone"} /\ excused \subseteq Comments
  /\ navs \in 0..MaxNavs /\ loads \in 0..(1 + navs)
  /\ CallsKnown /\ PostsKnown

LEMMA SeqGrows ==
  ASSUME NEW S, NEW T, S \subseteq T, NEW s \in Seq(S)
  PROVE  s \in Seq(T)
  BY LenProperties

LEMMA RenderFlags ==
  ASSUME NEW l, NEW d, NEW o, NEW k, NEW moved, NEW others, Render(l, d, o, k, others, moved)
  PROVE  open' = o /\ linked' = k /\ broken' \in BOOLEAN
  BY DEF Render, Breaks

LEMMA FlagsNext ==
  ASSUME Flags, [Next]_vars
  PROVE  Flags'
  <1> USE DEF Flags, server, dialog, loading
  <1>1. ASSUME UNCHANGED <<chosen, open, linked>>, broken' \in BOOLEAN PROVE Flags'
    BY <1>1
  <1>2. CASE UNCHANGED vars
    BY <1>1, <1>2 DEF vars
  <1>3. ASSUME NEW c \in Comments, Save(c) \/ Broadcast(c) \/ Abandon(c) PROVE Flags'
    BY <1>1, <1>3 DEF Save, Broadcast, Abandon
  <1>4. CASE Disconnect \/ Reconnect \/ GiveUp \/ Expand \/ ListFails
    BY <1>1, <1>4 DEF Disconnect, Reconnect, GiveUp, Expand, ListFails
  <1>5. CASE Message \/ ListLoaded \/ Answered
    BY <1>1, <1>5, RenderFlags DEF Message, ListLoaded, Answered, Redraw
  <1>6. CASE OpenListed
    BY <1>6, RenderFlags DEF OpenListed
  <1>7. ASSUME NEW k \in BOOLEAN, Navigate(k) PROVE Flags'
    <2>1. /\ open' = (open \/ k) /\ linked' = k /\ broken' \in BOOLEAN
          /\ chosen' = (chosen \/ k)
      BY <1>7, RenderFlags DEF Navigate
    <2> QED BY <2>1, Zenon
  <1>8. CASE Close
    <2>1. open' = FALSE /\ linked' = FALSE /\ broken' \in BOOLEAN /\ chosen' = chosen
      BY <1>8, RenderFlags DEF Close
    <2> QED BY <2>1
  <1>9. ASSUME NEW c \in Own, Posted(c) \/ Fetched(c) \/ Inserted(c) PROVE Flags'
    BY <1>1, <1>9, RenderFlags DEF Posted, Fetched, Inserted, Redraw
  <1>10. ASSUME NEW c \in Own, Submit(c) \/ PostFails(c) PROVE Flags'
    BY <1>1, <1>10 DEF Submit, PostFails
  <1> QED BY <1>2, <1>3, <1>4, <1>5, <1>6, <1>7, <1>8, <1>9, <1>10 DEF Next

\* A render calls for no more than is saved by now, and not beyond the bound.
LEMMA RenderCalls ==
  ASSUME Types, NEW l \in Copies, NEW d, NEW o, NEW k, NEW moved,
         NEW others \in Seq(CallsUpTo(Len(saved))), Render(l, d, o, k, others, moved)
  PROVE  Len(asked') <= MaxAsked /\ asked' \in Seq(CallsUpTo(Len(saved)))
  <1> DEFINE S == CallsUpTo(Len(saved))
  <1>1. Call(l) \in S
    BY LenProperties DEF Call, CallsUpTo, Types
  <1>2. PICK m \in BOOLEAN, r \in BOOLEAN :
          asked' = others \o ((IF m THEN <<Call(l)>> ELSE << >>) \o (IF r THEN <<Call(l)>> ELSE << >>))
    <2> DEFINE r == o /\ Length(Shown(l, d)) # Length(IF chosen THEN Shown(list, detail) ELSE Nothing)
    <2>1. asked' = others \o ((IF moved THEN <<Call(l)>> ELSE << >>) \o (IF r THEN <<Call(l)>> ELSE << >>))
      BY DEF Render
    <2> HIDE DEF r
    <2>2. (IF moved THEN <<Call(l)>> ELSE << >>) = (IF moved = TRUE THEN <<Call(l)>> ELSE << >>)
      OBVIOUS
    <2> QED BY <2>1, <2>2
  <1> HIDE DEF S
  <1>3. <<Call(l)>> \in Seq(S) /\ << >> \in Seq(S)
    BY <1>1
  <1>4. (IF m THEN <<Call(l)>> ELSE << >>) \o (IF r THEN <<Call(l)>> ELSE << >>) \in Seq(S)
    BY <1>3, ConcatProperties
  <1>5. asked' \in Seq(S)
    BY <1>2, <1>4, ConcatProperties DEF S
  <1> QED BY <1>5 DEF Render, S

LEMMA CountsInit == Init => Counts
  <1> SUFFICES ASSUME Init PROVE Counts
    OBVIOUS
  <1>1. saved = << >> /\ Len(saved) = 0
    BY EmptySeq DEF Init
  <1>2. CallsKnown
    <2>1. Call(Nothing) \in CallsUpTo(Len(saved))
      BY <1>1 DEF Call, CallsUpTo, Copies
    <2>2. /\ <<Call(Nothing)>> \in Seq(CallsUpTo(Len(saved))) /\ Len(<<Call(Nothing)>>) = 1
          /\ << >> \in Seq(CallsUpTo(Len(saved))) /\ Len(<< >>) = 0
      BY <2>1
    <2> QED BY <2>2, BoundsAssumption DEF Init, CallsKnown
  <1>3. PostsKnown
    BY <1>1, CommentsAssumption DEF Init, At, PostsKnown
  <1>4. socket = "open" /\ loads = 1 /\ navs = 0 /\ excused = {}
    BY DEF Init
  <1>5. navs \in 0..MaxNavs /\ loads \in 0..(1 + navs)
    BY <1>4, BoundsAssumption
  <1>6. socket \in {"open", "closed", "gone"} /\ excused \subseteq Comments
    BY <1>4
  <1> QED BY <1>2, <1>3, <1>5, <1>6 DEF Counts

LEMMA CountsNext ==
  ASSUME Inv, Counts, Types', [Next]_vars
  PROVE  Counts'
  <1> USE DEF server, dialog, loading
  <1>0. /\ Types
        /\ saved \in Seq(Comments) /\ Len(saved) \in Nat /\ MaxNavs \in Nat /\ MaxAsked \in Nat
        /\ Own \subseteq Comments
        /\ stage \in [Comments -> Stages] /\ wire \in Seq(Comments) /\ list \in Copies /\ detail \in Copies
        /\ post \in [Own -> [at : PostPlaces, from : Nat, was : Copies]]
    BY LenProperties, BoundsAssumption, CommentsAssumption DEF Inv, Types
  <1>1. ASSUME UNCHANGED <<saved, socket, asked>>,
               navs' \in 0..MaxNavs, loads' \in 0..(1 + navs'), excused' \subseteq Comments,
               \A c \in Own : /\ post'[c].from <= Len(saved)
                              /\ post'[c].at = "idle" => stage'[c] = "unsaved"
        PROVE  Counts'
    <2>1. CallsKnown'
      BY <1>1 DEF Counts, CallsKnown
    <2>2. PostsKnown'
      BY <1>1 DEF PostsKnown
    <2>3. socket' \in {"open", "closed", "gone"}
      BY <1>1 DEF Counts
    <2> QED BY <1>1, <2>1, <2>2, <2>3 DEF Counts
  <1>2. CASE UNCHANGED vars
    BY <1>2 DEF vars, Counts, CallsKnown, PostsKnown
  <1>3. ASSUME NEW c \in Comments, Save(c) PROVE Counts'
    <2>1. /\ saved' = Append(saved, c) /\ stage' = [stage EXCEPT ![c] = "saved"]
          /\ c \in Own => post[c].at # "idle"
          /\ UNCHANGED <<socket, list, detail, chosen, open, linked, loads, navs, asked, post, broken, excused>>
      BY <1>3 DEF Save
    <2>2. Len(saved') = Len(saved) + 1
      BY <1>0, <2>1, AppendProperties
    <2>3. CallsUpTo(Len(saved)) \subseteq CallsUpTo(Len(saved'))
      BY <1>0, <2>2 DEF CallsUpTo
    <2>4. asked' \in Seq(CallsUpTo(Len(saved')))
      BY <2>1, <2>3, SeqGrows DEF Counts, CallsKnown, PostsKnown
    <2>5. \A x \in Own : /\ post'[x].from <= Len(saved')
                         /\ post'[x].at = "idle" => stage'[x] = "unsaved"
      <3>1. ASSUME NEW x \in Own
            PROVE  post[x].from <= Len(saved') /\ (post[x].at = "idle" => stage'[x] = "unsaved")
        <4>1. post[x].from \in Nat
          BY <1>0, PostType
        <4> QED BY <1>0, <2>1, <2>2, <4>1 DEF Counts, CallsKnown, PostsKnown
      <3> QED BY <2>1, <3>1
    <2>6. CallsKnown'
      BY <2>1, <2>4 DEF Counts, CallsKnown
    <2>7. PostsKnown'
      BY <2>5 DEF PostsKnown
    <2>8. /\ socket' \in {"open", "closed", "gone"} /\ excused' \subseteq Comments
          /\ navs' \in 0..MaxNavs /\ loads' \in 0..(1 + navs')
      BY <2>1 DEF Counts
    <2> QED BY <2>6, <2>7, <2>8 DEF Counts
  <1>4. ASSUME NEW c \in Comments, Broadcast(c) \/ Abandon(c) PROVE Counts'
    <2>1. /\ stage[c] = "saved" /\ \E s \in Stages : stage' = [stage EXCEPT ![c] = s]
          /\ excused' \in {excused, excused \cup {c}}
          /\ UNCHANGED <<saved, socket, chosen, open, linked, loads, navs, asked, post, broken>>
      BY <1>4 DEF Broadcast, Abandon, Stages
    <2>2. \A x \in Own : post[x].at = "idle" => stage'[x] = "unsaved"
      BY <1>0, <2>1 DEF Counts, CallsKnown, PostsKnown
    <2> QED BY <1>1, <2>1, <2>2 DEF Counts, CallsKnown, PostsKnown
  <1>5. CASE Disconnect \/ Reconnect \/ GiveUp
    <2>1. Range(wire) \subseteq Comments
      <3>1. ASSUME NEW x \in Range(wire) PROVE x \in Comments
        <4>1. PICK i \in 1..Len(wire) : wire[i] = x
          BY <1>0, OnWire
        <4> QED BY <1>0, <4>1, LenProperties
      <3> QED BY <3>1
    <2> QED BY <1>5, <2>1 DEF Disconnect, Reconnect, GiveUp, Counts, CallsKnown, PostsKnown
  <1>6. ASSUME NEW l \in Copies, NEW d, NEW o, NEW k, NEW moved,
               NEW others \in Seq(CallsUpTo(Len(saved))), Render(l, d, o, k, others, moved),
               UNCHANGED <<saved, socket>>,
               navs' \in 0..MaxNavs, loads' \in 0..(1 + navs'), excused' \subseteq Comments,
               \A c \in Own : /\ post'[c].from <= Len(saved)
                              /\ post'[c].at = "idle" => stage'[c] = "unsaved"
        PROVE  Counts'
    <2>1. Len(asked') <= MaxAsked /\ asked' \in Seq(CallsUpTo(Len(saved)))
      BY <1>0, <1>6, RenderCalls
    <2>2. CallsKnown'
      BY <1>6, <2>1 DEF CallsKnown
    <2>3. PostsKnown'
      BY <1>6 DEF PostsKnown
    <2>4. socket' \in {"open", "closed", "gone"}
      BY <1>6 DEF Counts
    <2> QED BY <1>6, <2>2, <2>3, <2>4 DEF Counts
  <1>7. CASE Message
    <2>1. Head(wire) \in Comments
      BY <1>0, <1>7, HeadTailProperties DEF Message
    <2>2. AddToList([id |-> Head(wire), full |-> TRUE]) \in Copies
      BY <1>0, <2>1, AddToListIsCopy DEF Copy
    <2>3. excused' \subseteq Comments
      BY <1>7, <2>1 DEF Message, Counts, CallsKnown, PostsKnown
    <2>4. Render(AddToList([id |-> Head(wire), full |-> TRUE]), detail, open, linked, asked, FALSE)
          /\ UNCHANGED <<saved, stage, socket, chosen, loads, navs, post>>
      BY <1>7 DEF Message, Redraw
    <2> QED BY <1>0, <1>6, <2>2, <2>3, <2>4 DEF Counts, CallsKnown, PostsKnown
  <1>8. CASE OpenListed
    <2>1. /\ Render(list, detail, TRUE, linked, asked, ~chosen) /\ chosen' = TRUE
          /\ UNCHANGED <<saved, stage, socket, loads, navs, post, excused>>
      BY <1>8 DEF OpenListed
    <2> QED BY <1>0, <1>6, <2>1 DEF Counts, CallsKnown, PostsKnown
  <1>9. ASSUME NEW k \in BOOLEAN, Navigate(k) PROVE Counts'
    <2>1. /\ Render(list, detail, open \/ k, k, asked, chosen') /\ chosen' = (chosen \/ k)
          /\ navs < MaxNavs /\ navs' = navs + 1 /\ loads' = loads + 1
          /\ UNCHANGED <<saved, stage, socket, post, excused>>
      BY <1>9 DEF Navigate
    <2>2. navs' \in 0..MaxNavs /\ loads' \in 0..(1 + navs')
      BY <1>0, <2>1 DEF Counts, CallsKnown, PostsKnown
    <2> QED BY <1>0, <1>6, <2>1, <2>2 DEF Counts, CallsKnown, PostsKnown
  <1>10. CASE Close
    <2>1. /\ Render(list, detail, FALSE, FALSE, asked, linked)
          /\ IF linked THEN navs < MaxNavs /\ navs' = navs + 1 /\ loads' = loads + 1
             ELSE UNCHANGED <<loads, navs>>
          /\ UNCHANGED <<saved, stage, socket, chosen, post, excused>>
      BY <1>10 DEF Close
    <2>2. navs' \in 0..MaxNavs /\ loads' \in 0..(1 + navs')
      BY <1>0, <2>1 DEF Counts, CallsKnown, PostsKnown
    <2> QED BY <1>0, <1>6, <2>1, <2>2 DEF Counts, CallsKnown, PostsKnown
  <1>11. CASE Expand
    BY <1>1, <1>11 DEF Expand, Counts, CallsKnown, PostsKnown
  <1>12. CASE ListLoaded
    <2>1. PICK l \in {Full(Rows(n)) : n \in 0..Len(saved)} \cup {Nothing} :
             /\ Redraw(l, detail)
             /\ excused' = {c \in Comments \ Range(wire) : stage[c] = "broadcast" /\ ~Holds(l, c)}
      BY <1>12 DEF ListLoaded
    <2>2. l \in Copies
      BY <1>0, RowsOfTable, FullOfRows DEF Copies
    <2>3. loads > 0 /\ loads' = loads - 1 /\ UNCHANGED <<saved, stage, socket, navs, post>>
      BY <1>12 DEF ListLoaded
    <2>4. loads' \in 0..(1 + navs') /\ navs' \in 0..MaxNavs
      BY <1>0, <2>3 DEF Counts, CallsKnown, PostsKnown
    <2>5. Render(l, detail, open, linked, asked, FALSE) /\ chosen' = chosen /\ excused' \subseteq Comments
      BY <2>1 DEF Redraw
    <2> QED BY <1>0, <1>6, <2>2, <2>3, <2>4, <2>5 DEF Counts, CallsKnown, PostsKnown
  <1>13. CASE ListFails
    <2>1. /\ loads > 0 /\ loads' = loads - 1
          /\ UNCHANGED <<saved, stage, socket, list, detail, chosen, open, linked, navs, asked, post, broken, excused>>
      BY <1>13 DEF ListFails
    <2>2. loads' \in 0..(1 + navs') /\ navs' \in 0..MaxNavs
      BY <1>0, <2>1 DEF Counts, CallsKnown, PostsKnown
    <2> QED BY <1>1, <2>1, <2>2 DEF Counts, CallsKnown, PostsKnown
  <1>14. CASE Answered
    <2>1. PICK i \in 1..Len(asked) : \E d \in Answers(asked[i]) :
             Render(list, d, open, linked, RemoveAt(asked, i), FALSE)
      BY <1>14 DEF Answered
    <2>2. RemoveAt(asked, i) \in Seq(CallsUpTo(Len(saved)))
      BY Removing DEF Counts, CallsKnown, PostsKnown
    <2>3. UNCHANGED <<saved, stage, socket, chosen, loads, navs, post, excused>>
      BY <1>14 DEF Answered
    <2> QED BY <1>0, <1>6, <2>1, <2>2, <2>3 DEF Counts, CallsKnown, PostsKnown
  <1>15. ASSUME NEW c \in Own, NEW r, post' = [post EXCEPT ![c] = r], stage' = stage,
                r.at # "idle", r.from <= Len(saved)
         PROVE  \A x \in Own : /\ post'[x].from <= Len(saved)
                               /\ post'[x].at = "idle" => stage'[x] = "unsaved"
    <2> SUFFICES ASSUME NEW x \in Own
                 PROVE  /\ post'[x].from <= Len(saved)
                        /\ post'[x].at = "idle" => stage'[x] = "unsaved"
      OBVIOUS
    <2>2. CASE x = c
      <3>1. post'[x] = r
        BY <1>0, <1>15, <2>2
      <3> QED BY <1>15, <3>1
    <2>3. CASE x # c
      <3>1. post'[x] = post[x]
        BY <1>0, <1>15, <2>3
      <3> QED BY <1>15, <3>1 DEF Counts, CallsKnown, PostsKnown
    <2> QED BY <2>2, <2>3
  <1>16. ASSUME NEW c \in Own, Submit(c) PROVE Counts'
    <2>1. /\ post' = [post EXCEPT ![c] = At("posting", 0, list)]
          /\ UNCHANGED <<saved, stage, socket, chosen, open, linked, loads, navs, asked, broken, excused>>
      BY <1>16 DEF Submit
    <2>2. \A x \in Own : /\ post'[x].from <= Len(saved)
                         /\ post'[x].at = "idle" => stage'[x] = "unsaved"
      <3> DEFINE r == At("posting", 0, list)
      <3>1. r.at # "idle" /\ r.from <= Len(saved)
        BY <1>0 DEF At
      <3> HIDE DEF r
      <3>2. post' = [post EXCEPT ![c] = r] /\ stage' = stage
        BY <2>1 DEF r
      <3> QED BY <1>15, <3>1, <3>2
    <2> QED BY <1>1, <2>1, <2>2 DEF Counts, CallsKnown, PostsKnown
  <1>17. ASSUME NEW c \in Own, Posted(c) PROVE Counts'
    <2>1. /\ post' = [post EXCEPT ![c] = At("fetching", Len(saved), post[c].was)]
          /\ Render(AddToList(Blank(c)), detail, open, linked, asked, FALSE)
          /\ UNCHANGED <<saved, stage, socket, chosen, loads, navs>>
          /\ excused' \subseteq excused
      BY <1>17 DEF Posted, Redraw
    <2>2. AddToList(Blank(c)) \in Copies
      BY <1>0, PostType, AddToListIsCopy DEF Blank, Copy
    <2>3. \A x \in Own : /\ post'[x].from <= Len(saved)
                         /\ post'[x].at = "idle" => stage'[x] = "unsaved"
      <3> DEFINE r == At("fetching", Len(saved), post[c].was)
      <3>1. r.at # "idle" /\ r.from <= Len(saved)
        BY <1>0 DEF At
      <3> HIDE DEF r
      <3>2. post' = [post EXCEPT ![c] = r] /\ stage' = stage
        BY <2>1 DEF r
      <3> QED BY <1>15, <3>1, <3>2
    <2> QED BY <1>0, <1>6, <2>1, <2>2, <2>3 DEF Counts, CallsKnown, PostsKnown
  <1>18. ASSUME NEW c \in Own, PostFails(c) PROVE Counts'
    <2>1. /\ post' = [post EXCEPT ![c] = At("done", 0, Nothing)]
          /\ UNCHANGED <<saved, stage, socket, chosen, open, linked, loads, navs, asked, broken, excused>>
      BY <1>18 DEF PostFails
    <2>2. \A x \in Own : /\ post'[x].from <= Len(saved)
                         /\ post'[x].at = "idle" => stage'[x] = "unsaved"
      <3> DEFINE r == At("done", 0, Nothing)
      <3>1. r.at # "idle" /\ r.from <= Len(saved)
        BY <1>0 DEF At
      <3> HIDE DEF r
      <3>2. post' = [post EXCEPT ![c] = r] /\ stage' = stage
        BY <2>1 DEF r
      <3> QED BY <1>15, <3>1, <3>2
    <2> QED BY <1>1, <2>1, <2>2 DEF Counts, CallsKnown, PostsKnown
  <1>19. ASSUME NEW c \in Own, Fetched(c) \/ Inserted(c) PROVE Counts'
    <2>1. /\ \E d : Render(list, d, open, linked, asked, FALSE)
          /\ \E at \in {"stats", "done"} : post' = [post EXCEPT ![c] = At(at, 0, Nothing)]
          /\ UNCHANGED <<saved, stage, socket, chosen, loads, navs, excused>>
      <3>1. CASE Fetched(c)
        BY <3>1 DEF Fetched, Redraw
      <3>2. CASE Inserted(c)
        BY <3>2 DEF Inserted, Redraw
      <3> QED BY <1>19, <3>1, <3>2
    <2>2. \A x \in Own : /\ post'[x].from <= Len(saved)
                         /\ post'[x].at = "idle" => stage'[x] = "unsaved"
      <3>1. PICK at \in {"stats", "done"} : post' = [post EXCEPT ![c] = At(at, 0, Nothing)]
        BY <2>1
      <3> DEFINE r == At(at, 0, Nothing)
      <3>2. r.at # "idle" /\ r.from <= Len(saved)
        BY <1>0 DEF At
      <3> HIDE DEF r
      <3>3. post' = [post EXCEPT ![c] = r] /\ stage' = stage
        BY <2>1, <3>1 DEF r
      <3> QED BY <1>15, <3>2, <3>3
    <2> QED BY <1>0, <1>6, <2>1, <2>2 DEF Counts, CallsKnown, PostsKnown
  <1> QED BY <1>2, <1>3, <1>4, <1>5, <1>7, <1>8, <1>9, <1>10, <1>11, <1>12, <1>13, <1>14,
             <1>16, <1>17, <1>18, <1>19 DEF Next

\* Every variable keeps its type, with any number of calls and posts under way:
\* no list load is counted that was not started, no call has seen rows that are
\* not there, and nothing is saved of a comment that was not submitted.
THEOREM ThreadTypeCorrect == Spec => []TypeOK
  <1>1. Init => Flags
    <2> SUFFICES ASSUME Init PROVE Flags
      OBVIOUS
    <2>1. chosen \in BOOLEAN /\ chosen = linked /\ open = linked /\ broken = FALSE
      BY DEF Init
    <2>2. linked \in BOOLEAN /\ open \in BOOLEAN /\ broken \in BOOLEAN
      BY <2>1
    <2>3. open \/ linked => chosen
      BY <2>1, Zenon
    <2> QED BY <2>1, <2>2, <2>3, Zenon DEF Flags
  <1>2. Inv /\ Counts /\ [Next]_vars => Counts'
    <2>1. Inv /\ [Next]_vars => Types'
      BY TypesNext DEF Inv
    <2> QED BY <2>1, CountsNext
  <1>3. Inv /\ Flags /\ Counts => TypeOK
    <2> SUFFICES ASSUME Inv, Flags, Counts PROVE TypeOK
      OBVIOUS
    <2>1. Len(saved) \in Nat /\ MaxNavs \in Nat
      BY LenProperties, BoundsAssumption DEF Inv, Types
    <2>2. loads \in 0..(1 + MaxNavs)
      BY <2>1 DEF Counts, CallsKnown, PostsKnown
    <2>3. ASSUME NEW i \in 1..Len(asked)
          PROVE  asked[i].from \in 0..Len(saved) /\ asked[i].was \in {Nothing} \cup SUBSET Copy
      <3>1. asked[i] \in CallsUpTo(Len(saved))
        BY LenProperties DEF Counts, CallsKnown, PostsKnown
      <3> QED BY <3>1 DEF CallsUpTo, Copies
    <2>4. ASSUME NEW c \in Own
          PROVE  /\ post[c].at \in {"idle", "posting", "fetching", "stats", "done"}
                 /\ post[c].at = "idle" => stage[c] = "unsaved"
                 /\ post[c].from \in 0..Len(saved)
                 /\ post[c].was \in {Nothing} \cup SUBSET Copy
      BY <2>1, PostType DEF Inv, Counts, PostsKnown, PostPlaces, Copies
    <2>5. /\ saved \in Seq(Comments)
          /\ stage \in [Comments -> {"unsaved", "saved", "broadcast", "abandoned"}]
          /\ wire \in Seq(Comments)
          /\ list \in {Nothing} \cup SUBSET Copy
          /\ detail \in {Nothing} \cup SUBSET Copy
      BY DEF Inv, Types, Stages, Copies
    <2>6. /\ socket \in {"open", "closed", "gone"} /\ navs \in 0..MaxNavs
          /\ Len(asked) <= MaxAsked /\ excused \subseteq Comments
      BY DEF Counts, CallsKnown, PostsKnown
    <2> QED BY <2>2, <2>3, <2>4, <2>5, <2>6, Zenon DEF Flags, TypeOK
  <1> QED BY CountsInit, InvAlways, FlagsNext, <1>1, <1>2, <1>3, PTL DEF Spec

-----------------------------------------------------------------------------
(* The list's copy *)

Delivers(c, f) == list' = AddToList([id |-> c, full |-> f])

\* What a step can do to the table and to the list's copy.
LEMMA ListStep ==
  ASSUME Inv, [Next]_vars
  PROVE  \/ UNCHANGED <<saved, list>>
         \/ \E c \in Comments : saved' = Append(saved, c) /\ UNCHANGED list
         \/ \E c \in Rows(Len(saved)), f \in BOOLEAN : Delivers(c, f) /\ UNCHANGED saved
         \/ \E n \in 0..Len(saved) : list' = Full(Rows(n)) /\ UNCHANGED saved
         \/ list' = Nothing /\ UNCHANGED saved
  <1> USE DEF server, dialog, loading, Redraw, Render
  <1>1. CASE UNCHANGED vars
    BY <1>1 DEF vars
  <1>2. ASSUME NEW c \in Comments, Save(c)
        PROVE  saved' = Append(saved, c) /\ UNCHANGED list
    BY <1>2 DEF Save
  <1>3. ASSUME NEW c \in Comments, Broadcast(c) \/ Abandon(c) PROVE UNCHANGED <<saved, list>>
    BY <1>3 DEF Broadcast, Abandon
  <1>4. CASE Message
    <2>1. Head(wire) \in Rows(Len(saved))
      <3>1. InTable(Head(wire))
        <4>1. 1 \in 1..Len(wire) /\ Head(wire) = wire[1]
          BY <1>4, EmptySeq, LenProperties DEF Message, Inv, Types
        <4> QED BY <4>1 DEF Inv, AllSaved
      <3> QED BY <3>1, IsRow
    <2>2. Delivers(Head(wire), TRUE) /\ UNCHANGED saved
      BY <1>4 DEF Message, Delivers
    <2> QED BY <2>1, <2>2
  <1>5. CASE ListLoaded
    <2>1. PICK l \in {Full(Rows(n)) : n \in 0..Len(saved)} \cup {Nothing} : list' = l
      BY <1>5 DEF ListLoaded
    <2>2. UNCHANGED saved
      BY <1>5 DEF ListLoaded
    <2> QED BY <2>1, <2>2
  <1>6. ASSUME NEW c \in Own, Posted(c)
        PROVE  \E f \in BOOLEAN : c \in Rows(Len(saved)) /\ Delivers(c, f) /\ UNCHANGED saved
    <2>1. InTable(c)
      BY <1>6, CommentsAssumption DEF Posted, Inv, AllSaved
    <2>2. Delivers(c, FALSE) /\ UNCHANGED saved
      BY <1>6 DEF Posted, Delivers, Blank
    <2> QED BY <2>1, <2>2, IsRow
  <1>7. CASE Disconnect \/ Reconnect \/ GiveUp \/ OpenListed \/ Close \/ Expand \/ ListFails \/ Answered
    BY <1>7 DEF Disconnect, Reconnect, GiveUp, OpenListed, Close, Expand, ListFails, Answered
  <1>8. ASSUME NEW k \in BOOLEAN, Navigate(k) PROVE UNCHANGED <<saved, list>>
    BY <1>8 DEF Navigate
  <1>9. ASSUME NEW c \in Own, Submit(c) \/ PostFails(c) \/ Fetched(c) \/ Inserted(c)
        PROVE  UNCHANGED <<saved, list>>
    BY <1>9 DEF Submit, PostFails, Fetched, Inserted
  <1> QED BY <1>1, <1>2, <1>3, <1>4, <1>5, <1>6, <1>7, <1>8, <1>9 DEF Next

LEMMA OnceStep ==
  ASSUME Inv, ListOnce, [Next]_vars
  PROVE  ListOnce'
  <1>1. CASE list' = list
    BY <1>1 DEF ListOnce
  <1>2. ASSUME NEW c \in Rows(Len(saved)), NEW f \in BOOLEAN, Delivers(c, f)
        PROVE  ListOnce'
    <2>1. CASE list' = list
      BY <2>1, <1>1
    <2>2. CASE list # Nothing /\ ~Holds(list, c) /\ list' = list \cup {[id |-> c, full |-> f]}
      BY <2>2 DEF ListOnce, Holds
    <2> QED BY <1>2, <2>1, <2>2 DEF Delivers, AddToList, Places
  <1>3. ASSUME NEW n \in 0..Len(saved), list' = Full(Rows(n))
        PROVE  ListOnce'
    BY <1>3, RowsOfTable, FullOfRows DEF ListOnce, Inv, Types
  <1>4. CASE list' = Nothing
    BY <1>4 DEF ListOnce
  <1> QED BY <1>1, <1>2, <1>3, <1>4, ListStep

\* However messages, responses and answers of the list interleave, no comment
\* is twice in the list's copy (page.tsx:392-432, 594-640).
THEOREM NoCommentTwice == Spec => []ListOnce
  <1>1. Init => ListOnce
    BY DEF Init, ListOnce
  <1>2. Inv /\ ListOnce /\ [Next]_vars => ListOnce'
    BY OnceStep
  <1> QED BY <1>1, <1>2, InvAlways, PTL DEF Spec

LEMMA ListReplicaStep ==
  ASSUME Inv, [Next]_vars
  PROVE  [ListReplica!Next]_<<saved, Ids(list)>>
  <1> USE DEF Inv, Types
  <1>1. CASE UNCHANGED <<saved, list>>
    BY <1>1 DEF Ids
  <1>2. ASSUME NEW c \in Comments, saved' = Append(saved, c), UNCHANGED list
        PROVE  ListReplica!Next
    <2>1. ListReplica!Save(c)
      BY <1>2 DEF ListReplica!Save, Ids
    <2> QED BY <2>1 DEF ListReplica!Next
  <1>3. ASSUME NEW c \in Rows(Len(saved)), NEW f \in BOOLEAN, Delivers(c, f), UNCHANGED saved
        PROVE  [ListReplica!Next]_<<saved, Ids(list)>>
    <2>1. CASE list' = list
      BY <1>1, <1>3, <2>1
    <2>2. CASE Places(list, c) /\ ~Holds(list, c) /\ list' = list \cup {[id |-> c, full |-> f]}
      <3>1. list \in SUBSET Copy
        BY <2>2 DEF Places, Copies
      <3>2. c \in Comments
        BY RowsOfTable, LenProperties
      <3>3. [id |-> c, full |-> f] \in Copy
        BY <3>2 DEF Copy
      <3>4. Ids(list') = Ids(list) \cup {c}
        BY <2>2, <3>1, <3>3, AddingOne
      <3>5. Ids(list) # Nothing /\ c \notin Ids(list) /\ Parent[c] \in Ids(list) \cup {NoParent}
        BY <2>2, <3>1, IdsOfCopy DEF Places
      <3>6. ListReplica!Take(c)
        BY <1>3, <3>4, <3>5 DEF ListReplica!Take, ListReplica!Rows, Rows, Ids
      <3> QED BY <3>2, <3>6 DEF ListReplica!Next
    <2> QED BY <1>3, <2>1, <2>2 DEF Delivers, AddToList
  <1>4. ASSUME NEW n \in 0..Len(saved), list' = Full(Rows(n)), UNCHANGED saved
        PROVE  ListReplica!Next
    <2>1. Ids(list') = Rows(n)
      BY <1>4, RowsOfTable, FullOfRows
    <2>2. Ids(list)' = Rows(n)
      BY <2>1 DEF Ids
    <2>3. ListReplica!Replace
      BY <1>4, <2>2 DEF ListReplica!Replace, ListReplica!Rows, Rows
    <2> QED BY <2>3 DEF ListReplica!Next
  <1>5. ASSUME list' = Nothing, UNCHANGED saved
        PROVE  ListReplica!Next
    <2>1. Ids(list)' = Nothing
      BY <1>5 DEF Ids
    <2>2. ListReplica!Replace
      BY <1>5, <2>1 DEF ListReplica!Replace
    <2> QED BY <2>2 DEF ListReplica!Next
  <1> QED BY <1>1, <1>2, <1>3, <1>4, <1>5, ListStep

\* The list's copy implements Replica.
THEOREM ListImplementsReplica == Spec => ListIsReplica
  <1>1. Init => ListReplica!Init
    BY DEF Init, ListReplica!Init, Ids
  <1>2. Inv /\ [Next]_vars => [ListReplica!Next]_<<saved, Ids(list)>>
    BY ListReplicaStep
  <1> QED BY <1>1, <1>2, InvAlways, PTL DEF Spec, ListIsReplica, ListReplica!Spec

-----------------------------------------------------------------------------
(* What is missing from it *)

LEMMA ListGrows ==
  ASSUME list \in Copies, NEW x \in Copy, list' = AddToList(x)
  PROVE  /\ \A c : Holds(list, c) => Holds(list', c)
         /\ Places(list, x.id) => Holds(list', x.id)
         /\ list' # Nothing => list # Nothing
  <1>1. CASE ~(Places(list, x.id) /\ ~Holds(list, x.id))
    <2>1. list' = list
      BY <1>1 DEF AddToList
    <2> QED BY <1>1, <2>1
  <1>2. CASE Places(list, x.id) /\ ~Holds(list, x.id)
    <2>0. list \in SUBSET Copy /\ list' = list \cup {x}
      BY <1>2 DEF AddToList, Places, Copies
    <2>1. /\ list # Nothing /\ \A c : Holds(list, c) <=> c \in Ids(list)
          /\ \A c : Holds(list \cup {x}, c) <=> c \in Ids(list \cup {x})
      BY <2>0, AddingOne, IdsOfCopy
    <2>2. Ids(list \cup {x}) = Ids(list) \cup {x.id}
      BY <2>0, AddingOne
    <2> QED BY <2>0, <2>1, <2>2
  <1> QED BY <1>1, <1>2

\* A step that keeps the list, the wire and what has been broadcast.
LEMMA MissingKept ==
  ASSUME MissingOnlyIf, UNCHANGED <<list, wire>>, excused \subseteq excused',
         \A c \in Comments : stage'[c] = "broadcast" => stage[c] = "broadcast"
  PROVE  MissingOnlyIf'
  BY DEF MissingOnlyIf, Holds

LEMMA MissingStep ==
  ASSUME Inv, MissingOnlyIf, [Next]_vars
  PROVE  MissingOnlyIf'
  <1> USE DEF Inv, Types, server, dialog, loading, Redraw, Render
  <1>1. CASE UNCHANGED vars
    BY <1>1, MissingKept DEF vars
  <1>2. ASSUME NEW c \in Comments, Save(c) \/ Abandon(c) PROVE MissingOnlyIf'
    BY <1>2, MissingKept DEF Save, Abandon
  <1>3. ASSUME NEW c \in Comments, Broadcast(c) PROVE MissingOnlyIf'
    <2>1. /\ stage' = [stage EXCEPT ![c] = "broadcast"] /\ list' = list
          /\ \/ wire' = Append(wire, c) /\ excused' = excused
             \/ wire' = wire /\ excused' = excused \cup {c}
      BY <1>3 DEF Broadcast
    <2>2. Append(wire, c) \in Seq(Comments)
      BY AppendProperties
    <2>3. \A x : x \in Range(wire) \cup excused \cup {c} => x \in Range(wire') \cup excused'
      <3>1. CASE wire' = Append(wire, c) /\ excused' = excused
        <4>1. \A i \in 1..Len(wire) : i \in 1..Len(wire') /\ wire'[i] = wire[i]
          BY <3>1, AppendProperties, LenProperties
        <4>2. Len(wire') \in 1..Len(wire') /\ wire'[Len(wire')] = c
          BY <3>1, AppendProperties, LenProperties
        <4>3. wire' \in Seq(Comments)
          BY <2>2, <3>1
        <4>4. \A x \in Range(wire) : x \in Range(wire')
          BY <4>1, <4>3, OnWire
        <4>5. c \in Range(wire')
          BY <4>2, <4>3, OnWire
        <4> QED BY <3>1, <4>4, <4>5
      <3>2. CASE wire' = wire /\ excused' = excused \cup {c}
        BY <3>2
      <3> QED BY <2>1, <3>1, <3>2
    <2>4. \A x \in Comments : stage'[x] = "broadcast" => x = c \/ stage[x] = "broadcast"
      BY <2>1
    <2> QED BY <2>1, <2>3, <2>4 DEF MissingOnlyIf, Holds
  <1>4. CASE Disconnect
    <2>1. UNCHANGED <<list, stage>> /\ excused' = excused \cup Range(wire)
      BY <1>4 DEF Disconnect
    <2> QED BY <2>1 DEF MissingOnlyIf, Holds
  <1>5. CASE Message
    <2> DEFINE c == Head(wire)
    <2>1. /\ list' = AddToList([id |-> c, full |-> TRUE])
          /\ excused' = IF Places(list, c) THEN excused \ {c} ELSE excused \cup {c}
          /\ wire' = Tail(wire) /\ wire # << >> /\ stage' = stage
      BY <1>5 DEF Message
    <2>2. \A x \in Range(wire) : x = c \/ x \in Range(wire')
      <3>1. wire' \in Seq(Comments)
        BY <2>1, HeadTailProperties
      <3>2. \A i \in 1..Len(wire) : wire[i] = c \/ (i - 1 \in 1..Len(wire') /\ wire'[i - 1] = wire[i])
        BY <2>1, HeadTailProperties, LenProperties
      <3> QED BY <3>1, <3>2, OnWire
    <2>3. [id |-> c, full |-> TRUE] \in Copy
      <3>1. c \in Comments
        BY <2>1, HeadTailProperties
      <3> QED BY <3>1 DEF Copy
    <2>4. /\ \A x : Holds(list, x) => Holds(list', x)
          /\ Places(list, c) => Holds(list', c)
          /\ list' # Nothing => list # Nothing
      BY <2>1, <2>3, ListGrows
    <2> HIDE DEF c
    <2> QED BY <2>1, <2>2, <2>4 DEF MissingOnlyIf
  <1>6. CASE ListLoaded
    <2>1. /\ excused' = {c \in Comments \ Range(wire) : stage[c] = "broadcast" /\ ~Holds(list', c)}
          /\ UNCHANGED <<stage, wire>>
      BY <1>6 DEF ListLoaded
    <2> QED BY <2>1 DEF MissingOnlyIf
  <1>7. ASSUME NEW c \in Own, Posted(c) PROVE MissingOnlyIf'
    <2>1. /\ list' = AddToList(Blank(c)) /\ excused' = {x \in excused : ~Holds(list', x)}
          /\ UNCHANGED <<stage, wire>>
      BY <1>7 DEF Posted
    <2>2. Blank(c) \in Copy
      BY PostType DEF Blank, Copy
    <2>3. /\ \A x : Holds(list, x) => Holds(list', x)
          /\ list' # Nothing => list # Nothing
      BY <2>1, <2>2, ListGrows
    <2> QED BY <2>1, <2>3 DEF MissingOnlyIf
  <1>8. CASE Reconnect \/ GiveUp \/ OpenListed \/ Close \/ Expand \/ ListFails \/ Answered
    BY <1>8, MissingKept DEF Reconnect, GiveUp, OpenListed, Close, Expand, ListFails, Answered
  <1>9. ASSUME NEW k \in BOOLEAN, Navigate(k) PROVE MissingOnlyIf'
    BY <1>9, MissingKept DEF Navigate
  <1>10. ASSUME NEW c \in Own, Submit(c) \/ PostFails(c) \/ Fetched(c) \/ Inserted(c)
         PROVE  MissingOnlyIf'
    BY <1>10, MissingKept DEF Submit, PostFails, Fetched, Inserted
  <1> QED BY <1>1, <1>2, <1>3, <1>4, <1>5, <1>6, <1>7, <1>8, <1>9, <1>10 DEF Next

\* A comment that was broadcast is missing from the list's copy only for a
\* reason: no order of messages, responses and answers loses it otherwise.
THEOREM MissingExplained == Spec => []MissingOnlyIf
  <1>1. Init => MissingOnlyIf
    BY DEF Init, MissingOnlyIf
  <1>2. Inv /\ MissingOnlyIf /\ [Next]_vars => MissingOnlyIf'
    BY MissingStep
  <1> QED BY <1>1, <1>2, InvAlways, PTL DEF Spec

-----------------------------------------------------------------------------
(* The dialog's copy *)

LEMMA DetailStep ==
  ASSUME Inv, [Next]_vars
  PROVE  \/ UNCHANGED <<saved, detail>>
         \/ \E c \in Comments : saved' = Append(saved, c) /\ UNCHANGED detail
         \/ \E i \in 1..Len(asked) : detail' \in Answers(asked[i]) /\ UNCHANGED saved
         \/ \E c \in Own : detail' \in Answers(post[c]) /\ UNCHANGED saved
         \/ \E c \in Rows(Len(saved)) : detail' = Insert(c) /\ UNCHANGED saved
  <1> USE DEF server, dialog, loading, Redraw, Render
  <1>1. CASE UNCHANGED vars
    BY <1>1 DEF vars
  <1>2. ASSUME NEW c \in Comments, Save(c)
        PROVE  saved' = Append(saved, c) /\ UNCHANGED detail
    BY <1>2 DEF Save
  <1>3. ASSUME NEW c \in Comments, Broadcast(c) \/ Abandon(c) PROVE UNCHANGED <<saved, detail>>
    BY <1>3 DEF Broadcast, Abandon
  <1>4. CASE Answered
    BY <1>4, Answering DEF Answered, Inv, Types
  <1>5. ASSUME NEW c \in Own, Fetched(c) PROVE detail' \in Answers(post[c]) /\ UNCHANGED saved
    BY <1>5 DEF Fetched
  <1>6. ASSUME NEW c \in Own, Inserted(c)
        PROVE  c \in Rows(Len(saved)) /\ detail' = Insert(c) /\ UNCHANGED saved
    <2>1. InTable(c)
      BY <1>6 DEF Inserted, Inv, AllSaved
    <2> QED BY <1>6, <2>1, IsRow DEF Inserted
  <1>7. CASE \/ Disconnect \/ Reconnect \/ GiveUp \/ Message \/ OpenListed \/ Close \/ Expand
             \/ ListLoaded \/ ListFails
    BY <1>7 DEF Disconnect, Reconnect, GiveUp, Message, OpenListed, Close, Expand, ListLoaded, ListFails
  <1>8. ASSUME NEW k \in BOOLEAN, Navigate(k) PROVE UNCHANGED <<saved, detail>>
    BY <1>8 DEF Navigate
  <1>9. ASSUME NEW c \in Own, Submit(c) \/ PostFails(c) \/ Posted(c) PROVE UNCHANGED <<saved, detail>>
    BY <1>9 DEF Submit, PostFails, Posted
  <1> QED BY <1>1, <1>2, <1>3, <1>4, <1>5, <1>6, <1>7, <1>8, <1>9 DEF Next

\* An answer is a state of the table or the copy kept with the call.
LEMMA AnswerReplaces ==
  ASSUME Inv, NEW call, call.from \in Nat, Ids(call.was) \in Kept,
         detail' \in Answers(call), UNCHANGED saved
  PROVE  DetailReplica!Replace
  <1>1. CASE detail' = call.was
    <2>1. Ids(detail)' \in Kept
      BY <1>1 DEF Ids
    <2> QED BY <2>1 DEF DetailReplica!Replace
  <1>2. ASSUME NEW n \in (call.from..Len(saved)) \cup {0}, detail' = Full(Rows(n))
        PROVE  DetailReplica!Replace
    <2>1. n \in 0..Len(saved)
      BY LenProperties DEF Inv, Types
    <2>2. Ids(detail') = Rows(n)
      BY <1>2, <2>1, RowsOfTable, FullOfRows DEF Inv, Types
    <2>3. Ids(detail)' = Rows(n)
      BY <2>2 DEF Ids
    <2> QED BY <2>1, <2>3 DEF DetailReplica!Replace, DetailReplica!Rows, Rows
  <1> QED BY <1>1, <1>2 DEF Answers

LEMMA DetailReplicaStep ==
  ASSUME Inv, [Next]_vars
  PROVE  [DetailReplica!Next]_<<saved, Ids(detail)>>
  <1>1. ASSUME UNCHANGED <<saved, detail>> PROVE UNCHANGED <<saved, Ids(detail)>>
    BY <1>1 DEF Ids
  <1>2. ASSUME NEW c \in Comments, saved' = Append(saved, c), UNCHANGED detail
        PROVE  DetailReplica!Next
    <2>1. DetailReplica!Save(c)
      BY <1>2 DEF DetailReplica!Save, Ids
    <2> QED BY <2>1 DEF DetailReplica!Next
  <1>3. ASSUME NEW i \in 1..Len(asked), detail' \in Answers(asked[i]), UNCHANGED saved
        PROVE  DetailReplica!Next
    <2>1. asked[i] \in Calls
      BY LenProperties DEF Inv, Types
    <2>2. Ids(asked[i].was) \in Kept
      BY DEF Kept
    <2> QED BY <1>3, <2>1, <2>2, AnswerReplaces DEF Calls, DetailReplica!Next
  <1>4. ASSUME NEW c \in Own, detail' \in Answers(post[c]), UNCHANGED saved
        PROVE  DetailReplica!Next
    <2>1. post[c].from \in Nat
      BY PostType DEF Inv
    <2>2. Ids(post[c].was) \in Kept
      BY DEF Kept
    <2> QED BY <1>4, <2>1, <2>2, AnswerReplaces DEF DetailReplica!Next
  <1>5. ASSUME NEW c \in Rows(Len(saved)), detail' = Insert(c), UNCHANGED saved
        PROVE  [DetailReplica!Next]_<<saved, Ids(detail)>>
    <2>1. CASE ~Places(detail, c)
      BY <1>1, <1>5, <2>1 DEF Insert
    <2>2. CASE Places(detail, c)
      <3>1. detail \in SUBSET Copy
        BY <2>2 DEF Places, Inv, Types, Copies
      <3>2. c \in Comments
        BY RowsOfTable, LenProperties DEF Inv, Types
      <3>3. Blank(c) \in Copy /\ Blank(c).id = c
        BY <3>2 DEF Blank, Copy
      <3>4. Ids(detail') = Ids(detail) \cup {c}
        BY <1>5, <2>2, <3>1, <3>3, AddingOne DEF Insert
      <3>5. Ids(detail)' = Ids(detail) \cup {c}
        BY <3>4 DEF Ids
      <3>6. Ids(detail) # Nothing /\ Parent[c] \in Ids(detail) \cup {NoParent}
        BY <2>2, <3>1, IdsOfCopy DEF Places
      <3>7. CASE c \in Ids(detail)
        <4>1. Ids(detail)' = Ids(detail)
          BY <3>5, <3>7
        <4> QED BY <1>5, <4>1
      <3>8. CASE c \notin Ids(detail)
        <4>1. DetailReplica!Take(c)
          BY <1>5, <3>5, <3>6, <3>8 DEF DetailReplica!Take, DetailReplica!Rows, Rows
        <4> QED BY <3>2, <4>1 DEF DetailReplica!Next
      <3> QED BY <3>7, <3>8
    <2> QED BY <2>1, <2>2
  <1> QED BY <1>1, <1>2, <1>3, <1>4, <1>5, DetailStep

\* The dialog's copy implements Replica, with the copies its fetches keep to
\* fall back on.
THEOREM DetailImplementsReplica == Spec => DetailIsReplica
  <1>1. Init => DetailReplica!Init
    BY DEF Init, DetailReplica!Init, Ids
  <1>2. Inv /\ [Next]_vars => [DetailReplica!Next]_<<saved, Ids(detail)>>
    BY DetailReplicaStep
  <1> QED BY <1>1, <1>2, InvAlways, PTL DEF Spec, DetailIsReplica, DetailReplica!Spec
=============================================================================
