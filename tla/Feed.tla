-------------------------------- MODULE Feed --------------------------------
(***************************************************************************)
(* The dashboard's list of arguments in one browser tab: what the URL asks *)
(* for, the requests under way for it, the list and its page buttons, the  *)
(* watch stars, arguments announced over the socket and arguments created  *)
(* here.                                                                   *)
(***************************************************************************)
EXTENDS Integers, FiniteSets, FiniteSetsExt, SequencesExt

CONSTANTS
  Args,        \* arguments
  Mine,        \* those this user creates in this tab
  Limit,       \* arguments per page (LIMIT, 20)
  ChunkSize,   \* pages Prev and Next skip, and page buttons shown (10)
  Clicks,      \* slots for clicks on a star under way
  Bounds,      \* bounds of a behaviour: tabs, URL changes, clicks at once, posts, news
  None, Unknown

ASSUME FeedAssumption ==
  /\ Mine \subseteq Args
  /\ Limit \in Nat \ {0} /\ ChunkSize \in Nat \ {0}
  /\ Bounds \subseteq [tabs : SUBSET {"recent", "top", "watchlist"}, navs : Nat, clicks : Nat,
               posts : Nat, news : Nat]

VARIABLES
  bound,               \* the bounds of this behaviour
  posted, watched,     \* server: the arguments and this user's watchlist, oldest first
  uncleared,           \* server: arguments inserted, the cached pages not yet cleared
  cache,               \* server: this user's cached pages
  url,                 \* the URL's tab and page
  loads, navs,         \* list requests under way; how many there were before the last
  list, hasMore, maxPage, busy,   \* argumentsList and the state of its page buttons
  click,               \* per slot, a click on a star under way
  pending, rendered,   \* pendingArguments, now and when the page was last rendered
  heard, created,      \* arguments announced here; own arguments whose response came
  source, late,        \* history: the answer shown; it is not the newest's
  basis, shrunk,       \* history: the rows the last page button knew of; an argument was unwatched
  struck,              \* history: one unwatched on the watchlist was taken out of another list
  doubt                \* history: arguments whose star may be wrong

server == <<bound, posted, watched, uncleared, cache>>
shown == <<list, hasMore, maxPage, busy>>
news == <<pending, rendered, heard, created>>
past == <<source, late, basis, shrunk, struck>>
vars == <<bound, posted, watched, uncleared, cache, url, loads, navs, list, hasMore, maxPage, busy,
          click, pending, rendered, heard, created, source, late, basis, shrunk, struck,
          doubt>>

Ids(S) == {x.id : x \in S}
Idle == [at |-> "idle"]
Clicked(a) == \E k \in Clicks : click[k].at # "idle" /\ click[k].arg = a

(* What the server answers a request for a page of a tab. *)
Answer(items, pages, seen, D) == [items |-> items, pages |-> pages, seen |-> seen, dirty |-> D]
Load(n, t, p, D) == [n |-> n, tab |-> t, page |-> p, at |-> "sent", answer |-> Answer({}, 0, 0, D)]

Init ==
  /\ bound \in Bounds
  /\ posted = << >> /\ watched = << >> /\ uncleared = {} /\ cache = {}
  /\ url = [tab |-> "recent", page |-> 1]
  /\ loads = {Load(0, "recent", 1, {})} /\ navs = 0
  /\ list = {} /\ hasMore = TRUE /\ maxPage = Unknown /\ busy = TRUE
  /\ click = [k \in Clicks |-> Idle]
  /\ pending = {} /\ rendered = {} /\ heard = {} /\ created = {}
  /\ source = None /\ late = FALSE /\ basis = None /\ shrunk = FALSE /\ struck = FALSE
  /\ doubt = {}

-----------------------------------------------------------------------------
(* Choosing a tab or a page.  The handlers push a URL, and the effect that *)
(* watches it calls loadArguments.                                         *)

Go(t, p, b) ==
  /\ navs < bound.navs
  /\ IF [tab |-> t, page |-> p] = url
       THEN UNCHANGED <<url, loads, navs, maxPage, busy, late, basis>>
       ELSE /\ url' = [tab |-> t, page |-> p]
            /\ navs' = navs + 1
            /\ loads' = loads \cup {Load(navs', t, p, {a \in Args : Clicked(a)})}
            /\ maxPage' = Unknown /\ busy' = TRUE
            /\ late' = FALSE /\ basis' = b
  /\ UNCHANGED <<server, list, hasMore, click, news, source, shrunk, struck, doubt>>

ClickTab(t) == Go(t, 1, None)

(* The page buttons are part of a list that is not empty. *)
ClickPage(p) ==
  /\ list # {} /\ ~busy
  /\ Go(url.tab, p, IF maxPage # Unknown /\ url.page <= maxPage /\ source.tab = url.tab
                      THEN source.seen ELSE None)

Prev == url.page > 1 /\ ClickPage(Max({1, url.page - ChunkSize}))

Numbered(p) ==
  LET first == ((url.page - 1) \div ChunkSize) * ChunkSize + 1
  IN /\ p \in first..(first + ChunkSize - 1)
     /\ maxPage # Unknown => p <= maxPage
     /\ ClickPage(p)

NextChunk ==
  /\ hasMore
  /\ maxPage # Unknown => url.page < maxPage
  /\ ClickPage(IF maxPage = Unknown THEN url.page + ChunkSize
               ELSE Min({maxPage, url.page + ChunkSize}))

-----------------------------------------------------------------------------
(* loadArguments, and the handlers of the three lists *)

(* The order of the top list changes with the scores. *)
Orders(t) ==
  CASE t = "recent" -> {Reverse(posted)}
    [] t = "top" -> SetToSeqs(Range(posted))
    [] t = "watchlist" -> {Reverse(watched)}

PageOf(rows, p) ==
  {rows[i] : i \in {j \in 1..Len(rows) : (p - 1) * Limit < j /\ j <= p * Limit}}

(* Mutant: one page too many when the last one is full. *)
MutantPagesFor(total) == total \div Limit + 1

PagesFor(total) == (total + Limit - 1) \div Limit

Entry(l) == [tab |-> l.tab, page |-> l.page, answer |-> l.answer]
Cached(l) == {e \in cache : e.tab = l.tab /\ e.page = l.page}

Hit(l) ==
  /\ l.at = "sent"
  /\ \E e \in Cached(l) :
       loads' = (loads \ {l}) \cup
         {[l EXCEPT !.at = "served", !.answer = [e.answer EXCEPT !.dirty = @ \cup l.answer.dirty]]}
  /\ UNCHANGED <<server, url, navs, shown, click, news, past, doubt>>

Total(t) == IF t = "watchlist" THEN Len(watched) ELSE Len(posted)

(* A count that fails is answered as zero. *)
Count(l) ==
  /\ l.at = "sent" /\ Cached(l) = {}
  /\ \E total \in {0, Total(l.tab)} :
       loads' = (loads \ {l}) \cup
         {[l EXCEPT !.at = "counted", !.answer = Answer({}, PagesFor(total), Total(l.tab), @.dirty)]}
  /\ UNCHANGED <<server, url, navs, shown, click, news, past, doubt>>

Read(l) ==
  /\ l.at = "counted"
  /\ \E rows \in Orders(l.tab) :
       LET items == {[id |-> a, star |-> a \in Range(watched)] : a \in PageOf(rows, l.page)}
       IN loads' = (loads \ {l}) \cup {[l EXCEPT !.at = "read", !.answer.items = items]}
  /\ UNCHANGED <<server, url, navs, shown, click, news, past, doubt>>

Store(l) ==
  /\ l.at = "read"
  /\ cache' = (cache \ Cached(l)) \cup {Entry(l)}
  /\ loads' = (loads \ {l}) \cup {[l EXCEPT !.at = "served"]}
  /\ UNCHANGED <<bound, posted, watched, uncleared, url, navs, shown, click, news, past, doubt>>

(* After a minute, when another handler clears it, or when a command fails *)
Expire(e) ==
  /\ cache' = cache \ {e}
  /\ UNCHANGED <<bound, posted, watched, uncleared, url, loads, navs, shown, click, news, past, doubt>>

Apply(l) ==
  /\ l.at = "served"
  /\ loads' = loads \ {l}
  /\ list' = l.answer.items
  /\ hasMore' = (Cardinality(l.answer.items) = Limit)
  /\ maxPage' = l.answer.pages
  /\ busy' = FALSE
  /\ source' = [tab |-> l.tab, page |-> l.page, seen |-> l.answer.seen]
  /\ late' = (l.n # navs /\ (late \/ ~\E k \in loads : k.n = navs))
  /\ struck' = FALSE /\ doubt' = l.answer.dirty
  /\ UNCHANGED <<server, url, navs, click, news, basis, shrunk>>

(* Mutant: the end of loading is not in the finally block. *)
MutantLoadFails(l) ==
  /\ loads' = loads \ {l}
  /\ late' = (late \/ l.n = navs)
  /\ UNCHANGED <<server, url, navs, shown, click, news, source, basis, shrunk, struck, doubt>>

LoadFails(l) ==
  /\ loads' = loads \ {l}
  /\ busy' = FALSE
  /\ late' = (late \/ l.n = navs)
  /\ UNCHANGED <<server, url, navs, list, hasMore, maxPage, click, news, source, basis, shrunk, struck, doubt>>

-----------------------------------------------------------------------------
(* The watch star: handleToggleWatch and HandleCreateWatchlist, which      *)
(* reads and then changes the watchlist.                                   *)

ClickStar(k, a) ==
  /\ click[k].at = "idle" /\ a \in Ids(list)
  /\ Cardinality({j \in Clicks : click[j].at # "idle"}) < bound.clicks
  /\ click' = [click EXCEPT ![k] = [at |-> "sent", arg |-> a, tab |-> url.tab, found |-> FALSE]]
  /\ loads' = {[l EXCEPT !.answer.dirty = @ \cup {a}] : l \in loads}
  /\ doubt' = IF Clicked(a) THEN doubt \cup {a} ELSE doubt
  /\ UNCHANGED <<server, url, navs, shown, news, past>>

Exists(k) ==
  /\ click[k].at = "sent"
  /\ click' = [click EXCEPT ![k].at = "checked", ![k].found = click[k].arg \in Range(watched)]
  /\ UNCHANGED <<server, url, loads, navs, shown, news, past, doubt>>

(* A row that is there already refuses the insert (UNIQUE), so there is at *)
(* most one to delete.                                                     *)
Toggle(k) ==
  LET a == click[k].arg
      there == a \in Range(watched)
  IN /\ click[k].at = "checked"
     /\ watched' = IF click[k].found THEN RemoveFirst(watched, a)
                   ELSE IF there THEN watched ELSE Append(watched, a)
     /\ shrunk' = (shrunk \/ click[k].found)
     /\ click' = [click EXCEPT ![k].at = IF ~click[k].found /\ there THEN "refused" ELSE "changed"]
     /\ UNCHANGED <<bound, posted, uncleared, cache, url, loads, navs, shown, news,
                    source, late, basis, struck, doubt>>

(* Mutant: only the watchlist's cached pages are cleared. *)
MutantClear(k) ==
  /\ click[k].at = "changed"
  /\ cache' = {e \in cache : e.tab # "watchlist"}
  /\ click' = [click EXCEPT ![k].at = IF click[k].found THEN "unwatched" ELSE "watched"]
  /\ UNCHANGED <<bound, posted, watched, uncleared, url, loads, navs, shown, news, past, doubt>>

(* The user's cached pages are cleared; errors are ignored, and a page may *)
(* stay.                                                                   *)
Clear(k) ==
  /\ click[k].at = "changed"
  /\ \E E \in SUBSET cache : cache' = {[e EXCEPT !.answer.dirty = @ \cup {click[k].arg}] : e \in E}
  /\ click' = [click EXCEPT ![k].at = IF click[k].found THEN "unwatched" ELSE "watched"]
  /\ UNCHANGED <<bound, posted, watched, uncleared, url, loads, navs, shown, news, past, doubt>>

(* The response is applied with the tab of the render the click came from. *)
Toggled(k) ==
  LET a == click[k].arg
      now == click[k].at = "watched"
  IN /\ click[k].at \in {"watched", "unwatched"}
     /\ list' = IF click[k].tab = "watchlist" /\ ~now
                  THEN {x \in list : x.id # a}
                  ELSE {IF x.id = a THEN [x EXCEPT !.star = now] ELSE x : x \in list}
     /\ struck' = (struck \/ (url.tab # "watchlist" /\ a \in Ids(list) \ Ids(list')))
     /\ click' = [click EXCEPT ![k] = Idle]
     /\ UNCHANGED <<server, url, loads, navs, hasMore, maxPage, busy, news,
                    source, late, basis, shrunk, doubt>>

(* An error response, or none. *)
ToggleFails(k) ==
  /\ click[k].at \in {"sent", "refused", "watched", "unwatched"}
  /\ click' = [click EXCEPT ![k] = Idle]
  /\ doubt' = doubt \cup {click[k].arg}
  /\ UNCHANGED <<server, url, loads, navs, shown, news, past>>

-----------------------------------------------------------------------------
(* New arguments *)

(* Someone's insert is committed, this user's among them; then the cached *)
(* pages of the recent and top lists are cleared.                          *)
Post(a) ==
  /\ a \notin Range(posted) /\ Len(posted) < bound.posts
  /\ posted' = Append(posted, a)
  /\ uncleared' = uncleared \cup {a}
  /\ UNCHANGED <<bound, watched, cache, url, loads, navs, shown, click, news, past, doubt>>

Cleared(a) ==
  /\ a \in uncleared
  /\ uncleared' = uncleared \ {a}
  /\ \E E \in SUBSET {e \in cache : e.tab # "watchlist"} :
       cache' = E \cup {e \in cache : e.tab = "watchlist"}
  /\ UNCHANGED <<bound, posted, watched, url, loads, navs, shown, click, news, past, doubt>>

(* Mutant: an argument that is in the list is added again. *)
MutantAddToList(S) == list \cup {[id |-> a, star |-> FALSE] : a \in S}

(* handleCreateSubmit and handleShowNewArguments: whatever the list shows, *)
(* the new arguments go into it.                                           *)
AddToList(S) == list \cup {[id |-> a, star |-> FALSE] : a \in S \ Ids(list)}

(* Stars made without an answer of the server that knows of a click. *)
Unseen(S) == {a \in S \ Ids(list) : a \in Range(watched) \/ Clicked(a)}

(* How many of the new arguments reach this tab is bounded. *)
Reaches(a) == Cardinality(heard \cup created \cup {a}) <= bound.news

Created(a) ==
  /\ a \in (Mine \cap Range(posted)) \ (created \cup uncleared) /\ Reaches(a)
  /\ created' = created \cup {a}
  /\ list' = AddToList({a})
  /\ doubt' = doubt \cup Unseen({a})
  /\ UNCHANGED <<server, url, loads, navs, hasMore, maxPage, busy, click,
                 pending, rendered, heard, past>>

Announced(a) ==
  /\ a \in Range(posted) \ (heard \cup uncleared) /\ Reaches(a)
  /\ heard' = heard \cup {a}
  /\ pending' = pending \cup {a}
  /\ UNCHANGED <<server, url, loads, navs, shown, click, rendered, created, past, doubt>>

Render ==
  /\ rendered' = pending
  /\ UNCHANGED <<server, url, loads, navs, shown, click, pending, heard, created, past, doubt>>

(* Mutant: only others' arguments are shown. *)
MutantShowNew ==
  /\ url.tab = "recent" /\ rendered \ Mine # {}
  /\ list' = AddToList(rendered \ Mine)
  /\ pending' = {}
  /\ doubt' = doubt \cup Unseen(rendered)
  /\ UNCHANGED <<server, url, loads, navs, hasMore, maxPage, busy, click,
                 rendered, heard, created, past>>

(* The button shows if others' arguments are pending; its handler has the  *)
(* arguments that were pending when the page was rendered.                 *)
ShowNew ==
  /\ url.tab = "recent" /\ rendered \ Mine # {}
  /\ list' = AddToList(rendered)
  /\ pending' = {}
  /\ doubt' = doubt \cup Unseen(rendered)
  /\ UNCHANGED <<server, url, loads, navs, hasMore, maxPage, busy, click,
                 rendered, heard, created, past>>

Next ==
  \/ \E t \in bound.tabs : ClickTab(t)
  \/ Prev \/ NextChunk \/ (\E p \in 1..(Cardinality(Args) + 2 * ChunkSize) : Numbered(p))
  \/ \E l \in loads : Hit(l) \/ Count(l) \/ Read(l) \/ Store(l) \/ Apply(l) \/ LoadFails(l)
  \/ \E e \in cache : Expire(e)
  \/ \E k \in Clicks : \/ \E a \in Args : ClickStar(k, a)
                       \/ Exists(k) \/ Toggle(k) \/ Clear(k) \/ Toggled(k) \/ ToggleFails(k)
  \/ \E a \in Args : Post(a) \/ Cleared(a) \/ Created(a) \/ Announced(a)
  \/ Render \/ ShowNew

Spec == Init /\ [][Next]_vars

-----------------------------------------------------------------------------
(* Properties *)

Tabs == {"recent", "top", "watchlist"}
Pages == Nat \ {0}
AnswerType(x) ==
  /\ \A y \in x.items : y.id \in Args /\ y.star \in BOOLEAN
  /\ x.pages \in Nat /\ x.seen \in Nat /\ x.dirty \subseteq Args

TypeOK ==
  /\ posted \in Seq(Args) /\ watched \in Seq(Args)
  /\ Cardinality(Range(watched)) = Len(watched)
  /\ uncleared \subseteq Range(posted)
  /\ \A e \in cache : /\ e.tab \in Tabs /\ e.page \in Pages /\ AnswerType(e.answer)
                      /\ Cached(e) = {e}
  /\ url \in [tab : Tabs, page : Pages]
  /\ \A l \in loads : /\ l.n \in 0..navs /\ l.tab \in Tabs /\ l.page \in Pages
                      /\ l.at \in {"sent", "counted", "read", "served"} /\ AnswerType(l.answer)
                      /\ \A k \in loads : k.n = l.n => k = l
  /\ \A x, y \in list : x.id \in Args /\ x.star \in BOOLEAN /\ (x.id = y.id => x = y)
  /\ hasMore \in BOOLEAN /\ maxPage \in {Unknown} \cup Nat /\ busy \in BOOLEAN
  /\ click \in [Clicks -> {Idle} \cup
       [at : {"sent", "checked", "changed", "watched", "unwatched", "refused"},
        arg : Args, tab : Tabs, found : BOOLEAN]]
  /\ pending \subseteq heard /\ rendered \subseteq heard
  /\ heard \subseteq Range(posted) /\ created \subseteq Mine \cap Range(posted)
  /\ source \in {None} \cup [tab : Tabs, page : Pages, seen : Nat]
  /\ basis \in {None} \cup Nat /\ doubt \subseteq Args

(* The list is "loading" only while a request is under way, so the page    *)
(* buttons never stay disabled; and when none is, the list is the one the  *)
(* URL names, unless the newest request failed or an older one was         *)
(* answered after it (page.tsx:75-150, 527-537).                           *)
ShowsUrl ==
  /\ busy => loads # {}
  /\ loads = {} => late \/ (source.tab = url.tab /\ source.page = url.page)

(* Once everything is answered, the buttons have led past the last page,   *)
(* to an empty list that has no buttons to leave it by, only if they were  *)
(* used without the number of pages of that tab (after a failed or         *)
(* overtaken request) or from a page past it (Prev does not look at it),   *)
(* the answer is older than the one the buttons were made from (a stale    *)
(* cached page), the watchlist has shrunk, or a star clicked there was     *)
(* answered after the tab had changed: it takes its argument out of        *)
(* whatever list is shown by then (page.tsx:159-163).                      *)
StrandedOnlyIf ==
  loads = {} /\ ~late /\ list = {} /\ url.page > 1 =>
    basis = None \/ source.seen < basis \/ (url.tab = "watchlist" /\ shrunk) \/ struck

(* With no click on it under way, a star is what the server has, unless    *)
(* clicks on it overlapped, one failed, the list shown was read during a   *)
(* click or survived it in the cache, or the argument was put in the list  *)
(* without an answer.                                                      *)
StarOnlyIf ==
  \A x \in list : ~Clicked(x.id) /\ x.id \notin doubt => x.star = (x.id \in Range(watched))

(* "n new arguments" discards an announced argument without showing it     *)
(* only if it came after the page was last rendered (page.tsx:665-680).    *)
AnnouncedShown ==
  [][\A a \in pending \ pending' : a \in Ids(list') \/ a \notin rendered]_vars
=============================================================================
