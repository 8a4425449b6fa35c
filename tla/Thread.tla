------------------------------- MODULE Thread -------------------------------
(***************************************************************************)
(* One argument's thread in one browser tab: the copy in the dashboard's   *)
(* list (argumentsList, fed by list loads, socket messages and the         *)
(* responses to one's own posts) and the copy in the review dialog         *)
(* (detailedArgument, fed by fetchStats and the same responses).  The      *)
(* dialog shows the first if the list has the argument, else the second.   *)
(***************************************************************************)
EXTENDS Naturals, Sequences, SequencesExt

CONSTANTS
  Comments,   \* comments of the argument
  Own,        \* those posted from this tab
  Parent,     \* what each replies to
  NoParent, Nothing,
  MaxAsked,   \* bound: fetches of the dialog under way
  MaxNavs     \* bound: changes of the URL

ASSUME CommentsAssumption ==
  /\ Own \subseteq Comments
  /\ Parent \in [Comments -> Comments \cup {NoParent}]
  /\ NoParent \notin Comments

\* A page opened by a link to the argument fetches at once.
ASSUME BoundsAssumption == MaxAsked \in Nat \ {0} /\ MaxNavs \in Nat

(* A comment as the browser has it.  The response to a post carries no     *)
(* content, so a comment made from it is not `full`.                       *)
Copy == [id : Comments, full : BOOLEAN]

ASSUME NothingAssumption ==
  (\A S \in SUBSET Comments : S # Nothing) /\ \A S \in SUBSET Copy : S # Nothing

VARIABLES
  saved,      \* the comments table, in order of insertion
  stage,      \* per comment, how far its handler is
  socket, wire,       \* the tab's connection and the messages on it
  list, detail,       \* the two copies, or Nothing
  chosen, open, linked,   \* an argument is selected; the dialog is open; its id is in the URL
  loads, navs,        \* list loads under way; changes of the URL so far
  asked,      \* fetchStats called by an effect, under way
  post,       \* per own comment, where its submit handler is
  broken,     \* rendering has thrown and the page is gone
  excused     \* history: comments some named event keeps from the list

server == <<saved, stage>>
dialog == <<chosen, open, linked>>
loading == <<loads, navs>>
vars == <<saved, stage, socket, wire, list, detail, chosen, open, linked, loads, navs,
          asked, post, broken, excused>>

Ids(copy) == IF copy = Nothing THEN Nothing ELSE {x.id : x \in copy}
Holds(copy, c) == copy # Nothing /\ \E x \in copy : x.id = c
Rows(n) == {saved[i] : i \in 1..n}
Full(S) == {[id |-> c, full |-> TRUE] : c \in S}
Blank(c) == [id |-> c, full |-> FALSE]

(* A submit handler: where it is, and its call of fetchStats *)
At(place, from, was) == [at |-> place, from |-> from, was |-> was]

(* activeArg *)
Shown(l, d) == IF l # Nothing THEN l ELSE d

(* activeArg?.comments?.length *)
Length(copy) ==
  IF copy = Nothing THEN Nothing ELSE Cardinality({x \in copy : Parent[x.id] = NoParent})

Visible(l, d, o, k) == o /\ (l # Nothing \/ k) /\ Shown(l, d) # Nothing

(* CommentFunc reads content.length: a comment without content throws,     *)
(* unless it is a reply below a collapsed comment.                         *)
Breaks(l, d, o, k) ==
  LET blanks == IF Visible(l, d, o, k) THEN {x \in Shown(l, d) : ~x.full} ELSE {} IN
  IF \E x \in blanks : Parent[x.id] = NoParent THEN {TRUE}
  ELSE IF blanks # {} THEN BOOLEAN ELSE {FALSE}

(* A call of fetchStats: what is saved by now will be in its answer; if it *)
(* fails the dialog falls back on the list's copy of that render.          *)
Call(l) == [from |-> Len(saved), was |-> l]

(* React renders the new state (l, d, o, k) and runs the effects of the    *)
(* dialog; `others` are the calls under way, `moved` says that the URL or  *)
(* the selection changed.                                                  *)
Render(l, d, o, k, others, moved) ==
  LET before == Length(IF chosen THEN Shown(list, detail) ELSE Nothing)
      resized == o /\ Length(Shown(l, d)) # before
      calls == (IF moved THEN <<Call(l)>> ELSE << >>) \o (IF resized THEN <<Call(l)>> ELSE << >>)
  IN /\ list' = l /\ detail' = d /\ open' = o /\ linked' = k
     /\ asked' = others \o calls
     /\ Len(asked') <= MaxAsked
     /\ broken' \in Breaks(l, d, o, k)

Redraw(l, d) == Render(l, d, open, linked, asked, FALSE) /\ UNCHANGED chosen

Init ==
  /\ saved = << >> /\ stage = [c \in Comments |-> "unsaved"]
  /\ socket = "open" /\ wire = << >>
  /\ list = Nothing /\ detail = Nothing
  /\ linked \in BOOLEAN /\ chosen = linked /\ open = linked
  /\ loads = 1 /\ navs = 0
  /\ asked = IF linked THEN <<Call(Nothing)>> ELSE << >>
  /\ post = [c \in Own |-> At("idle", 0, Nothing)]
  /\ broken = FALSE /\ excused = {}

-----------------------------------------------------------------------------
(* The server *)

Save(c) ==
  /\ stage[c] = "unsaved"
  /\ c \in Own => post[c].at # "idle"
  /\ Parent[c] \in Rows(Len(saved)) \cup {NoParent}
  /\ saved' = Append(saved, c)
  /\ stage' = [stage EXCEPT ![c] = "saved"]
  /\ UNCHANGED <<socket, wire, list, detail, dialog, loading, asked, post, broken, excused>>

(* The message goes to the tab if it is connected. *)
Broadcast(c) ==
  /\ stage[c] = "saved"
  /\ stage' = [stage EXCEPT ![c] = "broadcast"]
  /\ IF socket = "open"
       THEN wire' = Append(wire, c) /\ UNCHANGED excused
       ELSE excused' = excused \cup {c} /\ UNCHANGED wire
  /\ UNCHANGED <<saved, socket, list, detail, dialog, loading, asked, post, broken>>

(* The handler ends with an error after the insert. *)
Abandon(c) ==
  /\ stage[c] = "saved"
  /\ stage' = [stage EXCEPT ![c] = "abandoned"]
  /\ UNCHANGED <<saved, socket, wire, list, detail, dialog, loading, asked, post, broken, excused>>

-----------------------------------------------------------------------------
(* The socket *)

Disconnect ==
  /\ socket = "open" /\ ~broken
  /\ socket' = "closed" /\ wire' = << >>
  /\ excused' = excused \cup Range(wire)
  /\ UNCHANGED <<server, list, detail, dialog, loading, asked, post, broken>>

Reconnect ==
  /\ socket = "closed" /\ ~broken
  /\ socket' = "open"
  /\ UNCHANGED <<server, wire, list, detail, dialog, loading, asked, post, broken, excused>>

(* The profile or the ticket cannot be had: no further attempt is made. *)
GiveUp ==
  /\ socket = "closed" /\ ~broken
  /\ socket' = "gone"
  /\ UNCHANGED <<server, wire, list, detail, dialog, loading, asked, post, broken, excused>>

(* Is there a place for c in this copy? *)
Places(copy, c) ==
  copy # Nothing /\ (Parent[c] = NoParent \/ Holds(copy, Parent[c]))

(* the handler does not look whether the comment is there *)
MutantAddToList(x) == IF Places(list, x.id) THEN list \cup {x} ELSE list

(* it does not search the replies *)
MutantAddToRoots(x) ==
  IF list # Nothing /\ Parent[x.id] = NoParent /\ ~Holds(list, x.id) THEN list \cup {x} ELSE list

(* a reply whose parent is not there is put at the top *)
MutantAddOrphan(x) == IF list = Nothing \/ Holds(list, x.id) THEN list ELSE list \cup {x}

(* The list's copy with x added at its level: a root, or below its parent; *)
(* not if it is there, and nowhere if the parent is not.                   *)
AddToList(x) ==
  IF Places(list, x.id) /\ ~Holds(list, x.id) THEN list \cup {x} ELSE list

Message ==
  /\ wire # << >> /\ ~broken
  /\ LET c == Head(wire)
     IN /\ Redraw(AddToList([id |-> c, full |-> TRUE]), detail)
        /\ excused' = IF Places(list, c) THEN excused \ {c} ELSE excused \cup {c}
  /\ wire' = Tail(wire)
  /\ UNCHANGED <<server, socket, loading, post>>

-----------------------------------------------------------------------------
(* The dialog *)

OpenListed ==
  /\ list # Nothing /\ ~open /\ ~broken
  /\ chosen' = TRUE
  /\ Render(list, detail, TRUE, linked, asked, ~chosen)
  /\ UNCHANGED <<server, socket, wire, loading, post, excused>>

(* The URL changes: to one that names the argument (a link, a notification *)
(* or the Back button), which opens the dialog, or to one that does not.   *)
Navigate(k) ==
  /\ navs < MaxNavs /\ ~broken
  /\ navs' = navs + 1 /\ loads' = loads + 1
  /\ chosen' = (chosen \/ k)
  /\ Render(list, detail, open \/ k, k, asked, chosen')
  /\ UNCHANGED <<server, socket, wire, post, excused>>

Close ==
  /\ open /\ ~broken
  /\ Render(list, detail, FALSE, FALSE, asked, linked)
  /\ IF linked
       THEN navs < MaxNavs /\ navs' = navs + 1 /\ loads' = loads + 1
       ELSE UNCHANGED loading
  /\ UNCHANGED <<server, socket, wire, chosen, post, excused>>

(* "View" on a comment whose replies include one without content. *)
Expand ==
  /\ ~broken /\ Visible(list, detail, open, linked)
  /\ \E x \in Shown(list, detail) : ~x.full
  /\ broken' = TRUE
  /\ UNCHANGED <<server, socket, wire, list, detail, dialog, loading, asked, post, excused>>

(* The list's answer may come from a cache that new comments do not touch; *)
(* the page loaded may not have the argument.                              *)
ListLoaded ==
  /\ loads > 0 /\ ~broken
  /\ \E l \in {Full(Rows(n)) : n \in 0..Len(saved)} \cup {Nothing} :
       /\ Redraw(l, detail)
       /\ excused' = {c \in Comments \ Range(wire) : stage[c] = "broadcast" /\ ~Holds(l, c)}
  /\ loads' = loads - 1
  /\ UNCHANGED <<server, socket, wire, navs, post>>

(* a failed load counts twice *)
MutantListFails ==
  /\ ~broken
  /\ loads' = loads - 1
  /\ UNCHANGED <<server, socket, wire, list, detail, dialog, navs, asked, post, broken, excused>>

ListFails ==
  /\ loads > 0 /\ ~broken
  /\ loads' = loads - 1
  /\ UNCHANGED <<server, socket, wire, list, detail, dialog, navs, asked, post, broken, excused>>

(* What fetchStats may put in the dialog: the thread as it was at some     *)
(* time since the call, an empty one if the query for the comments failed, *)
(* or the copy it falls back on.                                           *)
Answers(call) == {Full(Rows(n)) : n \in call.from..Len(saved) \cup {0}} \cup {call.was}

Answered ==
  /\ ~broken
  /\ \E i \in 1..Len(asked) : \E d \in Answers(asked[i]) :
       Render(list, d, open, linked, RemoveAt(asked, i), FALSE)
  /\ UNCHANGED <<server, socket, wire, chosen, loading, post, excused>>

-----------------------------------------------------------------------------
(* Posting a comment *)

Submit(c) ==
  /\ post[c].at = "idle" /\ ~broken
  /\ Visible(list, detail, open, linked)
  /\ Parent[c] # NoParent => [id |-> Parent[c], full |-> TRUE] \in Shown(list, detail)
  /\ post' = [post EXCEPT ![c] = At("posting", 0, list)]
  /\ UNCHANGED <<server, socket, wire, list, detail, dialog, loading, asked, broken, excused>>

(* handleAddReply, and the call of fetchStats that follows it *)
Posted(c) ==
  /\ post[c].at = "posting" /\ stage[c] = "broadcast" /\ ~broken
  /\ Redraw(AddToList(Blank(c)), detail)
  /\ post' = [post EXCEPT ![c] = At("fetching", Len(saved), @.was)]
  /\ excused' = {x \in excused : ~Holds(list', x)}
  /\ UNCHANGED <<server, socket, wire, loading>>

(* The response does not come, or it is an error, whether or not the       *)
(* comment was saved.                                                      *)
PostFails(c) ==
  /\ post[c].at = "posting" /\ ~broken
  /\ post' = [post EXCEPT ![c] = At("done", 0, Nothing)]
  /\ UNCHANGED <<server, socket, wire, list, detail, dialog, loading, asked, broken, excused>>

Fetched(c) ==
  /\ post[c].at = "fetching" /\ ~broken
  /\ \E d \in Answers(post[c]) : Redraw(list, d)
  /\ post' = [post EXCEPT ![c] = At("stats", 0, Nothing)]
  /\ UNCHANGED <<server, socket, wire, loading, excused>>

MutantInsert(c) == IF detail = Nothing THEN detail ELSE detail \cup {Blank(c)}

(* After fetchUserStats the saved comment goes into the dialog's copy,     *)
(* also if the fetch has brought it already.                               *)
Insert(c) ==
  IF Places(detail, c) THEN detail \cup {Blank(c)} ELSE detail

Inserted(c) ==
  /\ post[c].at = "stats" /\ ~broken
  /\ Redraw(list, Insert(c))
  /\ post' = [post EXCEPT ![c] = At("done", 0, Nothing)]
  /\ UNCHANGED <<server, socket, wire, loading, excused>>

Next ==
  \/ \E c \in Comments : Save(c) \/ Broadcast(c) \/ Abandon(c)
  \/ Disconnect \/ Reconnect \/ GiveUp \/ Message
  \/ OpenListed \/ (\E k \in BOOLEAN : Navigate(k)) \/ Close \/ Expand
  \/ ListLoaded \/ ListFails \/ Answered
  \/ \E c \in Own : Submit(c) \/ Posted(c) \/ PostFails(c) \/ Fetched(c) \/ Inserted(c)

Spec == Init /\ [][Next]_vars
-----------------------------------------------------------------------------
(* Properties *)

TypeOK ==
  /\ saved \in Seq(Comments)
  /\ stage \in [Comments -> {"unsaved", "saved", "broadcast", "abandoned"}]
  /\ socket \in {"open", "closed", "gone"} /\ wire \in Seq(Comments)
  /\ list \in {Nothing} \cup SUBSET Copy
  /\ detail \in {Nothing} \cup SUBSET Copy
  /\ chosen \in BOOLEAN /\ open \in BOOLEAN /\ linked \in BOOLEAN
  /\ open \/ linked => chosen
  /\ loads \in 0..(1 + MaxNavs) /\ navs \in 0..MaxNavs
  /\ Len(asked) <= MaxAsked
  /\ \A i \in 1..Len(asked) :
       asked[i].from \in 0..Len(saved) /\ asked[i].was \in {Nothing} \cup SUBSET Copy
  /\ \A c \in Own :
       /\ post[c].at \in {"idle", "posting", "fetching", "stats", "done"}
       /\ post[c].at = "idle" => stage[c] = "unsaved"
       /\ post[c].from \in 0..Len(saved)
       /\ post[c].was \in {Nothing} \cup SUBSET Copy
  /\ broken \in BOOLEAN /\ excused \subseteq Comments

(* A comment is in the list's copy at most once, although its message, the *)
(* response to the post and the list's answers bring it independently and  *)
(* in any order (page.tsx:413, 418 and 605, 617 look for it first).        *)
ListOnce ==
  list # Nothing => \A x, y \in list : x.id = y.id => x = y

(* A comment that has been broadcast is missing from the list's copy only  *)
(* while its message is on the way; or if the message did not reach the    *)
(* tab, or came when its parent was not there; or if the list was replaced *)
(* afterwards by an answer that does not have it.                          *)
MissingOnlyIf ==
  list # Nothing =>
    \A c \in Comments : stage[c] = "broadcast" /\ ~Holds(list, c) => c \in Range(wire) \cup excused

(* The list's copy is a replica of the table: it changes by one saved      *)
(* comment at a time, below a comment it has, or is replaced by a state    *)
(* the table has been in.                                                  *)
ListReplica == INSTANCE Replica WITH copy <- Ids(list), kept <- {}
ListIsReplica == ListReplica!Spec

(* So is the dialog's copy, which may also go back to what the list had    *)
(* when a fetch was called (reviewModal.tsx:127).                          *)
Kept == {Ids(asked[i].was) : i \in 1..Len(asked)} \cup {Ids(post[c].was) : c \in Own}
DetailReplica == INSTANCE Replica WITH copy <- Ids(detail), kept <- Kept
DetailIsReplica == DetailReplica!Spec

(* comments.tsx:14 and page.tsx:591 declare that a saved comment has a     *)
(* content, and comments.tsx:187 passes the response on "so parent state   *)
(* updates immediately".  The response has none, and rendering it throws.  *)
PageStaysUp == ~broken
=============================================================================
