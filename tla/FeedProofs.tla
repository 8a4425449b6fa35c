----------------------------- MODULE FeedProofs -----------------------------
(***************************************************************************)
(* Proofs about Feed, for any number of arguments, clicks, requests and    *)
(* pages.                                                                  *)
(***************************************************************************)
EXTENDS Feed, FiniteSetTheorems, SequenceTheorems, TLAPS

-----------------------------------------------------------------------------
(* What the list shows. *)

OfUrl == source.tab = url.tab /\ source.page = url.page

Numbers ==
    /\ navs \in Nat
    /\ \A l \in loads : /\ l.n \in Nat /\ l.n <= navs
                        /\ l.n = navs => l.tab = url.tab /\ l.page = url.page

Newest == \E l \in loads : l.n = navs

\* ShowsUrl is about the moment when nothing is under way; until then, it is
\* the newest request that will bring what the URL names.
LoadInv == Numbers /\ (busy => loads # {}) /\ (Newest \/ late \/ OfUrl)

LEMMA LoadInit == Init => LoadInv
  <1> SUFFICES ASSUME Init PROVE LoadInv
    OBVIOUS
  <1> DEFINE first == Load(0, "recent", 1, {})
  <1>1. /\ loads = {first} /\ navs = 0 /\ busy = TRUE /\ late = FALSE
        /\ url.tab = "recent" /\ url.page = 1
    BY DEF Init
  <1>2. first.n = 0 /\ first.tab = "recent" /\ first.page = 1
    BY DEF Load
  <1> HIDE DEF first
  <1>3. Numbers
    <2>1. navs \in Nat
      BY <1>1
    <2>2. \A l \in loads : /\ l.n \in Nat /\ l.n <= navs
                           /\ l.n = navs => l.tab = url.tab /\ l.page = url.page
      BY <1>1, <1>2
    <2> QED BY <2>1, <2>2 DEF Numbers
  <1>4. Newest /\ loads # {}
    BY <1>1, <1>2 DEF Newest
  <1> QED BY <1>3, <1>4 DEF LoadInv

\* The newest request is that of the new URL.
LEMMA GoStep ==
    ASSUME NEW t, NEW p, NEW b, Go(t, p, b), LoadInv
    PROVE  LoadInv'
  <1>1. CASE [tab |-> t, page |-> p] = url
    BY <1>1 DEF Go, LoadInv, Numbers, Newest, OfUrl
  <1>2. CASE [tab |-> t, page |-> p] # url
    <2> DEFINE new == Load(navs + 1, t, p, {a \in Args : Clicked(a)})
    <2>1. /\ url'.tab = t /\ url'.page = p /\ navs' = navs + 1 /\ busy' = TRUE /\ late' = FALSE
          /\ loads' = loads \cup {new}
      BY <1>2 DEF Go
    <2>2. new.n = navs + 1 /\ new.tab = t /\ new.page = p
      BY DEF Load
    <2> HIDE DEF new
    <2>3. Numbers'
      <3>1. navs' \in Nat
        BY <2>1 DEF LoadInv, Numbers
      <3>2. ASSUME NEW l \in loads'
            PROVE  /\ l.n \in Nat /\ l.n <= navs'
                   /\ l.n = navs' => l.tab = url'.tab /\ l.page = url'.page
        <4>1. CASE l = new
          BY <2>1, <2>2, <4>1 DEF LoadInv, Numbers
        <4>2. CASE l \in loads
          BY <2>1, <4>2 DEF LoadInv, Numbers
        <4> QED BY <2>1, <4>1, <4>2
      <3> QED BY <3>1, <3>2 DEF Numbers
    <2>4. Newest' /\ loads' # {}
      BY <2>1, <2>2 DEF Newest
    <2> QED BY <2>3, <2>4 DEF LoadInv
  <1> QED BY <1>1, <1>2

\* The server's steps on a request leave its number, tab and page alone.
LEMMA ServeStep ==
    ASSUME NEW l \in loads, NEW m, loads' = (loads \ {l}) \cup {m},
           m.n = l.n, m.tab = l.tab, m.page = l.page,
           UNCHANGED <<url, navs, busy, late, source>>, LoadInv
    PROVE  LoadInv'
  BY DEF LoadInv, Numbers, Newest, OfUrl

\* An answer ends the loading; one that is not the newest's leaves the
\* newest under way, or is late.
LEMMA ApplyStep ==
    ASSUME NEW l \in loads, Apply(l), LoadInv
    PROVE  LoadInv'
  <1>1. /\ loads' = loads \ {l} /\ busy' = FALSE /\ UNCHANGED <<url, navs>>
        /\ source'.tab = l.tab /\ source'.page = l.page
        /\ late' = (l.n # navs /\ (late \/ ~\E k \in loads : k.n = navs))
    BY DEF Apply
  <1>2. Numbers'
    BY <1>1 DEF LoadInv, Numbers
  <1>3. CASE l.n = navs
    BY <1>1, <1>3 DEF LoadInv, Numbers, OfUrl
  <1>4. CASE l.n # navs
    BY <1>1, <1>4 DEF LoadInv, Numbers, Newest, OfUrl
  <1>5. busy' = FALSE
    BY <1>1
  <1> QED BY <1>1, <1>2, <1>3, <1>4, <1>5 DEF LoadInv

\* A failure ends the loading too (the finally block).
LEMMA LoadFailsStep ==
    ASSUME NEW l \in loads, LoadFails(l), LoadInv
    PROVE  LoadInv'
  BY DEF LoadFails, LoadInv, Numbers, Newest, OfUrl

\* A click on a star marks the requests under way.
LEMMA ClickStarStep ==
    ASSUME NEW k, NEW a, ClickStar(k, a), LoadInv
    PROVE  LoadInv'
  <1> DEFINE Mark(l) == [l EXCEPT !.answer.dirty = @ \cup {a}]
  <1>1. loads' = {Mark(l) : l \in loads} /\ UNCHANGED <<url, navs, busy, late, source>>
    BY DEF ClickStar, shown, past
  <1>2. \A l \in loads : Mark(l).n = l.n /\ Mark(l).tab = l.tab /\ Mark(l).page = l.page
    OBVIOUS
  <1> HIDE DEF Mark
  <1> QED BY <1>1, <1>2 DEF LoadInv, Numbers, Newest, OfUrl

LEMMA LoadNext ==
    ASSUME LoadInv, [Next]_vars
    PROVE  LoadInv'
  <1>1. ASSUME UNCHANGED <<url, loads, navs, busy, late, source>>
        PROVE  LoadInv'
    BY <1>1 DEF LoadInv, Numbers, Newest, OfUrl
  <1>2. CASE UNCHANGED vars
    BY <1>1, <1>2 DEF vars
  <1>3. ASSUME NEW t, ClickTab(t) PROVE LoadInv'
    BY <1>3, GoStep DEF ClickTab
  <1>4. CASE Prev
    BY <1>4, GoStep DEF Prev, ClickPage
  <1>5. CASE NextChunk
    BY <1>5, GoStep DEF NextChunk, ClickPage
  <1>6. ASSUME NEW p, Numbered(p) PROVE LoadInv'
    BY <1>6, GoStep DEF Numbered, ClickPage
  <1>7. ASSUME NEW l \in loads, Hit(l) PROVE LoadInv'
    <2>1. PICK x : loads' = (loads \ {l}) \cup {[l EXCEPT !.at = "served", !.answer = x]}
      BY <1>7 DEF Hit
    <2> DEFINE m == [l EXCEPT !.at = "served", !.answer = x]
    <2>2. m.n = l.n /\ m.tab = l.tab /\ m.page = l.page
      OBVIOUS
    <2>3. UNCHANGED <<url, navs, busy, late, source>>
      BY <1>7 DEF Hit, shown, past
    <2>4. loads' = (loads \ {l}) \cup {m}
      BY <2>1
    <2> HIDE DEF m
    <2> QED BY <2>2, <2>3, <2>4, ServeStep
  <1>16. ASSUME NEW l \in loads, Count(l) PROVE LoadInv'
    <2>1. PICK n : loads' = (loads \ {l}) \cup
                     {[l EXCEPT !.at = "counted",
                                !.answer = Answer({}, PagesFor(n), Total(l.tab), @.dirty)]}
      BY <1>16 DEF Count
    <2> DEFINE m == [l EXCEPT !.at = "counted",
                              !.answer = Answer({}, PagesFor(n), Total(l.tab), @.dirty)]
    <2>2. m.n = l.n /\ m.tab = l.tab /\ m.page = l.page
      OBVIOUS
    <2>3. UNCHANGED <<url, navs, busy, late, source>>
      BY <1>16 DEF Count, shown, past
    <2>4. loads' = (loads \ {l}) \cup {m}
      BY <2>1
    <2> HIDE DEF m
    <2> QED BY <2>2, <2>3, <2>4, ServeStep
  <1>8. ASSUME NEW l \in loads, Read(l) PROVE LoadInv'
    <2>1. PICK x : loads' = (loads \ {l}) \cup {[l EXCEPT !.at = "read", !.answer.items = x]}
      BY <1>8 DEF Read
    <2> DEFINE m == [l EXCEPT !.at = "read", !.answer.items = x]
    <2>2. m.n = l.n /\ m.tab = l.tab /\ m.page = l.page
      OBVIOUS
    <2>3. UNCHANGED <<url, navs, busy, late, source>>
      BY <1>8 DEF Read, shown, past
    <2>4. loads' = (loads \ {l}) \cup {m}
      BY <2>1
    <2> HIDE DEF m
    <2> QED BY <2>2, <2>3, <2>4, ServeStep
  <1>9. ASSUME NEW l \in loads, Store(l) PROVE LoadInv'
    <2> DEFINE m == [l EXCEPT !.at = "served"]
    <2>1. loads' = (loads \ {l}) \cup {m}
      BY <1>9 DEF Store
    <2>2. m.n = l.n /\ m.tab = l.tab /\ m.page = l.page
      OBVIOUS
    <2>3. UNCHANGED <<url, navs, busy, late, source>>
      BY <1>9 DEF Store, shown, past
    <2> HIDE DEF m
    <2> QED BY <2>1, <2>2, <2>3, ServeStep
  <1>10. ASSUME NEW l \in loads, Apply(l) \/ LoadFails(l) PROVE LoadInv'
    BY <1>10, ApplyStep, LoadFailsStep
  <1>11. ASSUME NEW e, Expire(e) PROVE LoadInv'
    BY <1>1, <1>11 DEF Expire, shown, past
  <1>12. ASSUME NEW k, NEW a, ClickStar(k, a) PROVE LoadInv'
    BY <1>12, ClickStarStep
  <1>13. ASSUME NEW k, Exists(k) \/ Toggle(k) \/ Clear(k) \/ Toggled(k) \/ ToggleFails(k) PROVE LoadInv'
    BY <1>1, <1>13 DEF Exists, Toggle, Clear, Toggled, ToggleFails, shown, past
  <1>14. ASSUME NEW a, Post(a) \/ Cleared(a) \/ Created(a) \/ Announced(a) PROVE LoadInv'
    BY <1>1, <1>14 DEF Post, Cleared, Created, Announced, shown, past
  <1>15. CASE Render \/ ShowNew
    BY <1>1, <1>15 DEF Render, ShowNew, shown, past
  <1> QED BY <1>2, <1>3, <1>4, <1>5, <1>6, <1>7, <1>8, <1>9, <1>10, <1>11, <1>12, <1>13,
             <1>14, <1>15, <1>16 DEF Next

\* Loading ends with the last answer, and what is then shown is what the URL
\* names, unless the newest request failed or was overtaken (page.tsx:75-150).
THEOREM ShowsTheUrl == Spec => []ShowsUrl
  <1>1. LoadInv => ShowsUrl
    BY DEF LoadInv, Newest, OfUrl, ShowsUrl
  <1> QED BY LoadInit, LoadNext, <1>1, PTL DEF Spec

-----------------------------------------------------------------------------
(* What is announced. *)

\* The new arguments are in the list afterwards, once or before.
LEMMA AddToListHas ==
    ASSUME NEW S, NEW a \in S
    PROVE  \E x \in AddToList(S) : x.id = a
  <1>1. CASE a \in Ids(list)
    BY <1>1 DEF AddToList, Ids
  <1>2. CASE a \notin Ids(list)
    <2>1. [id |-> a, star |-> FALSE] \in AddToList(S)
      BY <1>2 DEF AddToList
    <2> QED BY <2>1
  <1> QED BY <1>1, <1>2

LEMMA AnnouncedStep ==
    ASSUME [Next]_vars
    PROVE  [\A a \in pending \ pending' : a \in Ids(list') \/ a \notin rendered]_vars
  <1> SUFFICES ASSUME NEW a \in pending \ pending', a \in rendered
               PROVE  a \in Ids(list')
    OBVIOUS
  <1>1. CASE ShowNew
    <2>1. list' = AddToList(rendered)
      BY <1>1 DEF ShowNew
    <2> QED BY <2>1, AddToListHas DEF Ids
  <1>2. ASSUME pending \subseteq pending' PROVE FALSE
    BY <1>2
  <1>3. CASE UNCHANGED vars
    BY <1>2, <1>3 DEF vars
  <1>4. ASSUME NEW t, NEW p, NEW b, Go(t, p, b) PROVE FALSE
    BY <1>2, <1>4 DEF Go, news
  <1>5. ASSUME NEW t, NEW p, ClickTab(t) \/ Prev \/ NextChunk \/ Numbered(p) PROVE FALSE
    BY <1>4, <1>5 DEF ClickTab, Prev, NextChunk, Numbered, ClickPage
  <1>6. ASSUME NEW l, Hit(l) \/ Count(l) \/ Read(l) \/ Store(l) \/ Apply(l) \/ LoadFails(l) PROVE FALSE
    BY <1>2, <1>6 DEF Hit, Count, Read, Store, Apply, LoadFails, news
  <1>7. ASSUME NEW e, Expire(e) PROVE FALSE
    BY <1>2, <1>7 DEF Expire, news
  <1>8. ASSUME NEW k, NEW x, ClickStar(k, x) \/ Exists(k) \/ Toggle(k) \/ Clear(k)
                             \/ Toggled(k) \/ ToggleFails(k)
        PROVE  FALSE
    BY <1>2, <1>8 DEF ClickStar, Exists, Toggle, Clear, Toggled, ToggleFails, news
  <1>9. ASSUME NEW x, Post(x) \/ Cleared(x) \/ Created(x) \/ Announced(x) PROVE FALSE
    BY <1>2, <1>9 DEF Post, Cleared, Created, Announced, news
  <1>10. CASE Render
    BY <1>2, <1>10 DEF Render
  <1> QED BY <1>1, <1>3, <1>5, <1>6, <1>7, <1>8, <1>9, <1>10 DEF Next

\* "n new arguments" drops an announced argument unseen only if it came after
\* the render the click was made on (page.tsx:665-680).
THEOREM AnnouncedIsShown == Spec => AnnouncedShown
  BY AnnouncedStep, PTL DEF Spec, AnnouncedShown

-----------------------------------------------------------------------------
(* The operators: pages, orders, the watchlist *)

Distinct(s) == \A i, j \in 1..Len(s) : s[i] = s[j] => i = j

LEMMA Members ==
    ASSUME NEW S, NEW s \in Seq(S)
    PROVE  /\ Range(s) \subseteq S
           /\ \A x : x \in Range(s) <=> \E i \in 1..Len(s) : s[i] = x
  BY LenProperties DEF Range

LEMMA RangeOfAppend ==
    ASSUME NEW S, NEW s \in Seq(S), NEW a \in S
    PROVE  /\ Append(s, a) \in Seq(S)
           /\ Len(Append(s, a)) = Len(s) + 1
           /\ Range(Append(s, a)) = Range(s) \cup {a}
           /\ Distinct(s) /\ a \notin Range(s) => Distinct(Append(s, a))
  <1> DEFINE t == Append(s, a)
  <1>1. /\ t \in Seq(S) /\ Len(t) = Len(s) + 1
        /\ \A i \in 1..Len(s) : t[i] = s[i]
        /\ t[Len(s) + 1] = a
    BY AppendProperties
  <1> HIDE DEF t
  <1>2. Len(s) \in Nat
    BY LenProperties
  <1>3. ASSUME NEW x PROVE x \in Range(t) <=> x \in Range(s) \/ x = a
    <2>1. (\E i \in 1..Len(t) : t[i] = x) <=> (\E i \in 1..Len(s) : s[i] = x) \/ x = a
      BY <1>1, <1>2
    <2> QED BY <1>1, <2>1, Members
  <1>4. ASSUME Distinct(s), a \notin Range(s) PROVE Distinct(t)
    <2>1. \A i \in 1..Len(s) : s[i] # a
      BY <1>4, Members
    <2> QED BY <1>1, <1>2, <1>4, <2>1 DEF Distinct
  <1>5. Range(t) = Range(s) \cup {a}
    BY <1>3
  <1> QED BY <1>1, <1>4, <1>5 DEF t

\* Removing one of distinct elements.
LEMMA RemoveAtHas ==
    ASSUME NEW S, NEW s \in Seq(S), NEW i \in 1..Len(s)
    PROVE  /\ RemoveAt(s, i) \in Seq(S)
           /\ Len(RemoveAt(s, i)) = Len(s) - 1
           /\ \A j \in 1..(Len(s) - 1) : RemoveAt(s, i)[j] = IF j < i THEN s[j] ELSE s[j + 1]
  <1> DEFINE left == SubSeq(s, 1, i - 1)
             right == SubSeq(s, i + 1, Len(s))
  <1>0. Len(s) \in Nat /\ \A j \in 1..Len(s) : s[j] \in S
    BY LenProperties
  <1>1. left \in Seq(S) /\ Len(left) = i - 1 /\ \A j \in 1..(i - 1) : left[j] = s[j]
    <2>1. \A j \in 1..(i - 1) : s[j] \in S
      BY <1>0
    <2>2. \A j \in 1..((i - 1) - 1 + 1) : left[j] = s[1 + j - 1]
      BY <2>1, SubSeqProperties
    <2>3. left \in Seq(S) /\ Len(left) = IF 1 <= i - 1 THEN (i - 1) - 1 + 1 ELSE 0
      BY <2>1, SubSeqProperties
    <2> HIDE DEF left
    <2> QED BY <1>0, <2>2, <2>3
  <1>2. right \in Seq(S) /\ Len(right) = Len(s) - i /\ \A j \in 1..(Len(s) - i) : right[j] = s[i + j]
    <2>1. \A j \in (i + 1)..Len(s) : s[j] \in S
      BY <1>0
    <2>2. \A j \in 1..(Len(s) - (i + 1) + 1) : right[j] = s[(i + 1) + j - 1]
      BY <1>0, <2>1, SubSeqProperties
    <2>3. right \in Seq(S) /\ Len(right) = IF i + 1 <= Len(s) THEN Len(s) - (i + 1) + 1 ELSE 0
      BY <1>0, <2>1, SubSeqProperties
    <2> HIDE DEF right
    <2> QED BY <1>0, <2>2, <2>3
  <1> HIDE DEF left, right
  <1>3. /\ left \o right \in Seq(S)
        /\ Len(left \o right) = Len(left) + Len(right)
        /\ \A j \in 1..(Len(left) + Len(right)) :
             (left \o right)[j] = IF j <= Len(left) THEN left[j] ELSE right[j - Len(left)]
    BY <1>1, <1>2, ConcatProperties
  <1>4. RemoveAt(s, i) = left \o right
    BY DEF RemoveAt, left, right
  <1>5. \A j \in 1..(Len(s) - 1) : (left \o right)[j] = IF j < i THEN s[j] ELSE s[j + 1]
    <2> SUFFICES ASSUME NEW j \in 1..(Len(s) - 1)
                 PROVE  (left \o right)[j] = IF j < i THEN s[j] ELSE s[j + 1]
      OBVIOUS
    <2>1. Len(left) = i - 1 /\ Len(right) = Len(s) - i
      BY <1>1, <1>2
    <2>2. (left \o right)[j] = IF j <= i - 1 THEN left[j] ELSE right[j - (i - 1)]
      BY <1>0, <1>3, <2>1
    <2>3. CASE j < i
      BY <1>0, <1>1, <2>2, <2>3
    <2>4. CASE ~(j < i)
      <3>1. j - (i - 1) \in 1..(Len(s) - i) /\ i + (j - (i - 1)) = j + 1
        BY <1>0, <2>4
      <3> QED BY <1>0, <1>2, <2>2, <2>4, <3>1
    <2> QED BY <2>3, <2>4
  <1> QED BY <1>0, <1>1, <1>2, <1>3, <1>4, <1>5

LEMMA RemoveFirstHas ==
    ASSUME NEW S, NEW s \in Seq(S), Distinct(s), NEW a
    PROVE  /\ RemoveFirst(s, a) \in Seq(S)
           /\ Distinct(RemoveFirst(s, a))
           /\ Range(RemoveFirst(s, a)) = Range(s) \ {a}
  <1>0. Len(s) \in Nat
    BY LenProperties
  <1>1. CASE ~\E i \in 1..Len(s) : s[i] = a
    <2>1. a \notin Range(s)
      BY <1>1, Members
    <2> QED BY <1>1, <2>1 DEF RemoveFirst
  <1>2. CASE \E i \in 1..Len(s) : s[i] = a
    <2>1. PICK i \in 1..Len(s) : s[i] = a
      BY <1>2
    <2>2. {j \in 1..Len(s) : s[j] = a} = {i}
      BY <2>1 DEF Distinct
    <2>3. Min({i}) = i
      BY DEF Min
    <2>4. SelectInSeq(s, LAMBDA v : v = a) = i
      BY <2>2, <2>3 DEF SelectInSeq
    <2>5. RemoveFirst(s, a) = RemoveAt(s, i)
      BY <1>2, <2>4 DEF RemoveFirst
    <2> DEFINE t == RemoveAt(s, i)
    <2>6. /\ t \in Seq(S) /\ Len(t) = Len(s) - 1
          /\ \A j \in 1..(Len(s) - 1) : t[j] = IF j < i THEN s[j] ELSE s[j + 1]
      BY RemoveAtHas
    <2> HIDE DEF t
    <2>7. Distinct(t)
      BY <1>0, <2>6 DEF Distinct
    <2>8. ASSUME NEW x PROVE x \in Range(t) <=> x \in Range(s) \ {a}
      <3>1. ASSUME NEW j \in 1..(Len(s) - 1), t[j] = x PROVE x # a /\ \E k \in 1..Len(s) : s[k] = x
        <4>1. CASE j < i
          <5>1. j \in 1..Len(s) /\ j # i /\ s[j] = x
            BY <1>0, <2>1, <2>6, <3>1, <4>1
          <5> QED BY <2>1, <5>1 DEF Distinct
        <4>2. CASE ~(j < i)
          <5>1. j + 1 \in 1..Len(s) /\ j + 1 # i /\ s[j + 1] = x
            BY <1>0, <2>1, <2>6, <3>1, <4>2
          <5> QED BY <2>1, <5>1 DEF Distinct
        <4> QED BY <4>1, <4>2
      <3>2. ASSUME NEW k \in 1..Len(s), s[k] = x, x # a PROVE \E j \in 1..(Len(s) - 1) : t[j] = x
        <4>1. CASE k < i
          <5>1. k \in 1..(Len(s) - 1) /\ t[k] = x
            BY <1>0, <2>6, <3>2, <4>1
          <5> QED BY <5>1
        <4>2. CASE k > i
          <5>1. k - 1 \in 1..(Len(s) - 1) /\ t[k - 1] = x
            BY <1>0, <2>6, <3>2, <4>2
          <5> QED BY <5>1
        <4>3. k # i
          BY <2>1, <3>2
        <4> QED BY <1>0, <4>1, <4>2, <4>3
      <3> QED BY <2>6, <3>1, <3>2, Members
    <2>9. Range(t) = Range(s) \ {a}
      BY <2>8
    <2> QED BY <2>5, <2>6, <2>7, <2>9 DEF t
  <1> QED BY <1>1, <1>2

LEMMA DistinctCounts ==
    ASSUME NEW S, NEW s \in Seq(S), Distinct(s)
    PROVE  Cardinality(Range(s)) = Len(s)
  <1>1. Len(s) \in Nat /\ s \in [1..Len(s) -> S] /\ DOMAIN s = 1..Len(s)
    BY LenProperties
  <1>2. s \in Bijection(1..Len(s), Range(s))
    <2>1. s \in [1..Len(s) -> Range(s)]
      BY <1>1, Members
    <2> QED BY <1>1, <2>1, Members DEF Distinct, Bijection, Injection, Surjection, IsInjective
  <1>3. ExistsBijection(1..Len(s), Range(s))
    BY <1>2 DEF ExistsBijection
  <1> QED BY <1>1, <1>3, FS_CountingElements

LEMMA LenOfFunction ==
    ASSUME NEW n \in Nat, NEW S, NEW f \in [1..n -> S]
    PROVE  f \in Seq(S) /\ Len(f) = n
  OBVIOUS

\* Every order of a list has its rows, and as many.
LEMMA OrderOf ==
    ASSUME posted \in Seq(Args), watched \in Seq(Args), Distinct(posted), NEW t \in Tabs,
           NEW rows \in Orders(t)
    PROVE  rows \in Seq(Args) /\ Len(rows) = Total(t)
  <1>1. ASSUME NEW s \in Seq(Args) PROVE Reverse(s) \in Seq(Args) /\ Len(Reverse(s)) = Len(s)
    <2>1. Len(s) \in Nat /\ \A i \in 1..Len(s) : s[i] \in Args
      BY LenProperties
    <2>2. Reverse(s) \in [1..Len(s) -> Args]
      BY <2>1 DEF Reverse
    <2> QED BY <2>1, <2>2, LenOfFunction
  <1>2. CASE t = "recent"
    BY <1>1, <1>2 DEF Orders, Total
  <1>3. CASE t = "watchlist"
    BY <1>1, <1>3 DEF Orders, Total
  <1>4. CASE t = "top"
    <2>1. Cardinality(Range(posted)) = Len(posted) /\ Range(posted) \subseteq Args /\ Len(posted) \in Nat
      BY DistinctCounts, Members, LenProperties
    <2>2. rows \in SetToSeqs(Range(posted))
      BY <1>4 DEF Orders
    <2>3. rows \in [1..Len(posted) -> Args]
      BY <2>1, <2>2 DEF SetToSeqs
    <2> QED BY <1>4, <2>1, <2>3, LenOfFunction DEF Total
  <1> QED BY <1>2, <1>3, <1>4 DEF Tabs

\* A page of an order is of its rows, and is empty only past the end.
LEMMA PageHas ==
    ASSUME NEW rows \in Seq(Args), NEW p \in Pages
    PROVE  /\ PageOf(rows, p) \subseteq Args
           /\ (p - 1) * Limit < Len(rows) => PageOf(rows, p) # {}
  <1>0. Len(rows) \in Nat /\ \A i \in 1..Len(rows) : rows[i] \in Args
    BY LenProperties
  <1>1. PageOf(rows, p) \subseteq Args
    BY <1>0 DEF PageOf
  <1>2. ASSUME (p - 1) * Limit < Len(rows) PROVE PageOf(rows, p) # {}
    <2> DEFINE j == (p - 1) * Limit + 1
    <2>1. (p - 1) * Limit \in Nat /\ p * Limit = (p - 1) * Limit + Limit /\ Limit \in Nat \ {0}
      <3>1. Limit \in Nat \ {0} /\ p - 1 \in Nat /\ p \in Int
        BY FeedAssumption DEF Pages
      <3> QED BY <3>1
    <2>2. j \in 1..Len(rows) /\ (p - 1) * Limit < j /\ j <= p * Limit
      BY <1>0, <1>2, <2>1
    <2> HIDE DEF j
    <2>3. rows[j] \in PageOf(rows, p)
      BY <2>2 DEF PageOf
    <2> QED BY <2>3
  <1> QED BY <1>1, <1>2

\* The pages of n rows: none past the last row.
LEMMA PagesOf ==
    ASSUME NEW n \in Nat
    PROVE  /\ PagesFor(n) \in Nat
           /\ \A p \in Pages : p <= PagesFor(n) => (p - 1) * Limit < n
  <1>1. Limit \in Nat \ {0}
    BY FeedAssumption
  <1> DEFINE a == n + Limit - 1
  <1>2. a \in Nat /\ PagesFor(n) = a \div Limit
    BY <1>1 DEF PagesFor
  <1> HIDE DEF a
  <1>3. a \div Limit \in Nat /\ (a \div Limit) * Limit <= a
    BY <1>1, <1>2
  <1>4. ASSUME NEW p \in Pages, p <= a \div Limit PROVE (p - 1) * Limit < n
    <2>1. p * Limit <= (a \div Limit) * Limit
      BY <1>1, <1>3, <1>4 DEF Pages
    <2>2. (p - 1) * Limit = p * Limit - Limit /\ p * Limit \in Int
      BY <1>1 DEF Pages
    <2>3. p * Limit <= n + Limit - 1
      BY <1>1, <1>2, <1>3, <2>1, <2>2 DEF a
    <2> QED BY <1>1, <2>2, <2>3
  <1> QED BY <1>2, <1>3, <1>4

-----------------------------------------------------------------------------
(* Types *)

Steps == {"sent", "counted", "read", "served"}
ClickSteps == {"sent", "checked", "changed", "watched", "unwatched", "refused"}
Listed == [id : Args, star : BOOLEAN]
Answers == [items : SUBSET Listed, pages : Nat, seen : Nat, dirty : SUBSET Args]
Entries == [tab : Tabs, page : Pages, answer : Answers]
Requests == [n : Nat, tab : Tabs, page : Pages, at : Steps, answer : Answers]
ClickRecs == [at : ClickSteps, arg : Args, tab : Tabs, found : BOOLEAN]
Sources == [tab : Tabs, page : Pages, seen : Nat]

Once(L) == \A x, y \in L : x.id = y.id => x = y

ServerTypes ==
    /\ bound \in Bounds
    /\ posted \in Seq(Args) /\ Distinct(posted)
    /\ watched \in Seq(Args) /\ Distinct(watched)
    /\ uncleared \subseteq Range(posted)
CacheTypes ==
    /\ cache \subseteq Entries
    /\ \A e \in cache : Once(e.answer.items)
    /\ \A e, f \in cache : e.tab = f.tab /\ e.page = f.page => e = f
LoadTypes ==
    /\ navs \in Nat /\ loads \subseteq Requests
    /\ \A l \in loads : l.n <= navs /\ Once(l.answer.items)
    /\ \A l, k \in loads : l.n = k.n => l = k
ClickTypes ==
    /\ click \in [Clicks -> {Idle} \cup ClickRecs]
    /\ doubt \subseteq Args
PageTypes ==
    /\ url \in [tab : Tabs, page : Pages]
    /\ basis \in {None} \cup Nat
ListTypes ==
    /\ list \subseteq Listed /\ Once(list)
    /\ maxPage \in {Unknown} \cup Nat
    /\ maxPage # Unknown => source \in Sources
    /\ source \in {None} \cup Sources
Flags == hasMore \in BOOLEAN /\ busy \in BOOLEAN
NewsTypes ==
    /\ pending \subseteq heard /\ rendered \subseteq heard
    /\ heard \subseteq Range(posted)
    /\ created \subseteq Mine \cap Range(posted)

\* TypeOK, with what keeps it: no argument posted, watched or listed twice in
\* any answer, and a number of pages only with the list it came with.
Types ==
    /\ ServerTypes /\ CacheTypes /\ LoadTypes /\ ClickTypes /\ PageTypes
    /\ ListTypes /\ Flags /\ NewsTypes

LEMMA TypesInit == Init => Types
  <1> SUFFICES ASSUME Init PROVE Types
    OBVIOUS
  <1>1. << >> \in Seq(Args) /\ Len(<< >>) = 0
    BY EmptySeq
  <1>2. ServerTypes
    BY <1>1 DEF Init, ServerTypes, Distinct
  <1>3. CacheTypes
    BY DEF Init, CacheTypes
  <1>4. LoadTypes
    <2> DEFINE first == Load(0, "recent", 1, {})
    <2>1. first \in Requests /\ first.n = 0 /\ first.answer.items = {}
      BY DEF Load, Answer, Requests, Answers, Tabs, Pages, Steps
    <2>2. navs = 0 /\ loads = {first}
      BY DEF Init
    <2> HIDE DEF first
    <2> QED BY <2>1, <2>2 DEF LoadTypes, Once
  <1>5. ClickTypes
    BY DEF Init, ClickTypes
  <1>6. PageTypes
    BY DEF Init, PageTypes, Tabs, Pages
  <1>7. ListTypes /\ Flags
    BY DEF Init, ListTypes, Flags, Once
  <1>8. NewsTypes
    BY DEF Init, NewsTypes
  <1> QED BY <1>2, <1>3, <1>4, <1>5, <1>6, <1>7, <1>8 DEF Types

LEMMA ClickUnderWay ==
    ASSUME ClickTypes, NEW k \in Clicks, click[k].at # "idle"
    PROVE  click[k] \in ClickRecs
  BY DEF ClickTypes, Idle

LEMMA MemberOf ==
    ASSUME NEW a \in Args, NEW b \in BOOLEAN
    PROVE  [id |-> a, star |-> b] \in Listed
  BY DEF Listed

\* What the steps of the server make of a request.
Serves(l, m) ==
    \/ /\ l.at = "sent" /\ m.at = "served"
       /\ \E e \in Cached(l) :
            /\ m.answer.items = e.answer.items
            /\ m.answer.pages = e.answer.pages /\ m.answer.seen = e.answer.seen
            /\ m.answer.dirty = e.answer.dirty \cup l.answer.dirty
    \/ /\ l.at = "sent" /\ m.at = "counted"
       /\ m.answer.items = {} /\ m.answer.seen = Total(l.tab)
       /\ m.answer.pages \in {PagesFor(0), PagesFor(Total(l.tab))}
       /\ m.answer.dirty = l.answer.dirty
    \/ /\ l.at = "counted" /\ m.at = "read"
       /\ \E rows \in Orders(l.tab) :
            m.answer.items = {[id |-> a, star |-> a \in Range(watched)] : a \in PageOf(rows, l.page)}
       /\ m.answer.pages = l.answer.pages /\ m.answer.seen = l.answer.seen
       /\ m.answer.dirty = l.answer.dirty
    \/ l.at = "read" /\ m.at = "served" /\ m.answer = l.answer

Serve(l) == Hit(l) \/ Count(l) \/ Read(l) \/ Store(l)

LEMMA Serving ==
    ASSUME ServerTypes, CacheTypes, LoadTypes, NEW l \in loads, Serve(l)
    PROVE  /\ \E m \in Requests :
                /\ loads' = (loads \ {l}) \cup {m}
                /\ m.n = l.n /\ m.tab = l.tab /\ m.page = l.page
                /\ Serves(l, m) /\ Once(m.answer.items)
           /\ UNCHANGED <<bound, posted, watched, uncleared, url, navs, shown, click, news, past, doubt>>
           /\ UNCHANGED cache \/ Store(l)
  <1>0. l \in Requests /\ Once(l.answer.items)
    BY DEF LoadTypes
  <1>1. CASE Hit(l)
    <2>1. PICK e \in Cached(l) :
            loads' = (loads \ {l}) \cup
              {[l EXCEPT !.at = "served", !.answer = [e.answer EXCEPT !.dirty = @ \cup l.answer.dirty]]}
      BY <1>1 DEF Hit
    <2> DEFINE x == [e.answer EXCEPT !.dirty = @ \cup l.answer.dirty]
               m == [l EXCEPT !.at = "served", !.answer = x]
    <2>2. e \in cache /\ e \in Entries /\ Once(e.answer.items)
      BY DEF Cached, CacheTypes
    <2>3. /\ x \in Answers /\ x.items = e.answer.items /\ x.pages = e.answer.pages
          /\ x.seen = e.answer.seen /\ x.dirty = e.answer.dirty \cup l.answer.dirty
      BY <1>0, <2>2 DEF Entries, Answers, Requests
    <2> HIDE DEF x
    <2>4. m \in Requests /\ m.n = l.n /\ m.tab = l.tab /\ m.page = l.page /\ m.at = "served" /\ m.answer = x
      BY <1>0, <2>3 DEF Requests, Steps
    <2>5. loads' = (loads \ {l}) \cup {m}
      BY <2>1 DEF x
    <2> HIDE DEF m
    <2>6. Serves(l, m)
      BY <1>1, <2>3, <2>4 DEF Serves, Hit
    <2>7. UNCHANGED <<bound, posted, watched, uncleared, cache, url, navs, shown, click, news, past, doubt>>
      BY <1>1 DEF Hit, server
    <2> QED BY <2>2, <2>3, <2>4, <2>5, <2>6, <2>7
  <1>2. CASE Count(l)
    <2>1. PICK n \in {0, Total(l.tab)} :
            loads' = (loads \ {l}) \cup
              {[l EXCEPT !.at = "counted", !.answer = Answer({}, PagesFor(n), Total(l.tab), @.dirty)]}
      BY <1>2 DEF Count
    <2> DEFINE x == Answer({}, PagesFor(n), Total(l.tab), l.answer.dirty)
               m == [l EXCEPT !.at = "counted", !.answer = x]
    <2>2. Total(l.tab) \in Nat /\ n \in Nat
      BY LenProperties DEF Total, ServerTypes
    <2>3. /\ x \in Answers /\ x.items = {} /\ x.pages = PagesFor(n)
          /\ x.seen = Total(l.tab) /\ x.dirty = l.answer.dirty
      <3>1. PagesFor(n) \in Nat
        BY <2>2, PagesOf
      <3> QED BY <1>0, <2>2, <3>1 DEF Answer, Answers, Requests
    <2> HIDE DEF x
    <2>4. m \in Requests /\ m.n = l.n /\ m.tab = l.tab /\ m.page = l.page /\ m.at = "counted" /\ m.answer = x
      BY <1>0, <2>3 DEF Requests, Steps
    <2>5. loads' = (loads \ {l}) \cup {m}
      BY <1>0, <2>1 DEF x
    <2> HIDE DEF m
    <2>6. Serves(l, m)
      BY <1>2, <2>1, <2>3, <2>4 DEF Serves, Count
    <2>7. UNCHANGED <<bound, posted, watched, uncleared, cache, url, navs, shown, click, news, past, doubt>>
      BY <1>2 DEF Count, server
    <2>8. Once(x.items)
      BY <2>3 DEF Once
    <2> QED BY <2>3, <2>4, <2>5, <2>6, <2>7, <2>8
  <1>3. CASE Read(l)
    <2>1. PICK rows \in Orders(l.tab) :
            loads' = (loads \ {l}) \cup
              {[l EXCEPT !.at = "read",
                         !.answer.items = {[id |-> a, star |-> a \in Range(watched)] : a \in PageOf(rows, l.page)}]}
      BY <1>3 DEF Read
    <2> DEFINE items == {[id |-> a, star |-> a \in Range(watched)] : a \in PageOf(rows, l.page)}
               m == [l EXCEPT !.at = "read", !.answer.items = items]
    <2>2. l.tab \in Tabs /\ l.page \in Pages
      BY <1>0 DEF Requests
    <2>3. rows \in Seq(Args)
      BY <2>2, OrderOf DEF ServerTypes
    <2>4. PageOf(rows, l.page) \subseteq Args
      BY <2>2, <2>3, PageHas
    <2>5. items \subseteq Listed /\ Once(items)
      <3>1. \A a \in PageOf(rows, l.page) : [id |-> a, star |-> a \in Range(watched)] \in Listed
        BY <2>4 DEF Listed
      <3> QED BY <3>1 DEF Once
    <2>6. loads' = (loads \ {l}) \cup {m}
      BY <2>1
    <2> HIDE DEF items
    <2>7. /\ m \in Requests /\ m.n = l.n /\ m.tab = l.tab /\ m.page = l.page /\ m.at = "read"
          /\ m.answer.items = items /\ m.answer.pages = l.answer.pages
          /\ m.answer.seen = l.answer.seen /\ m.answer.dirty = l.answer.dirty
      BY <1>0, <2>5 DEF Requests, Steps, Answers
    <2> HIDE DEF m
    <2>8. Serves(l, m)
      BY <1>3, <2>1, <2>7 DEF Serves, Read, items
    <2>9. UNCHANGED <<bound, posted, watched, uncleared, cache, url, navs, shown, click, news, past, doubt>>
      BY <1>3 DEF Read, server
    <2> QED BY <2>5, <2>6, <2>7, <2>8, <2>9
  <1>4. CASE Store(l)
    <2> DEFINE m == [l EXCEPT !.at = "served"]
    <2>1. loads' = (loads \ {l}) \cup {m}
      BY <1>4 DEF Store
    <2>2. /\ m \in Requests /\ m.n = l.n /\ m.tab = l.tab /\ m.page = l.page
          /\ m.at = "served" /\ m.answer = l.answer
      BY <1>0 DEF Requests, Steps
    <2> HIDE DEF m
    <2>3. Serves(l, m)
      BY <1>4, <2>2 DEF Serves, Store
    <2>4. UNCHANGED <<bound, posted, watched, uncleared, url, navs, shown, click, news, past, doubt>>
      BY <1>4 DEF Store
    <2> QED BY <1>0, <1>4, <2>1, <2>2, <2>3, <2>4
  <1> QED BY <1>1, <1>2, <1>3, <1>4 DEF Serve

\* The tabs and pages a click on them can ask for; a page button that knows
\* the number of pages of its tab asks for none past the last.
Asks(t, q, b) ==
    /\ t \in Tabs /\ q \in Pages
    /\ b \in {None} \cup Nat
    /\ b # None => /\ maxPage # Unknown /\ q <= maxPage
                   /\ source \in Sources /\ source.tab = t /\ b = source.seen

Choose == \/ \E t \in bound.tabs : ClickTab(t)
          \/ Prev \/ NextChunk \/ (\E q \in 1..(Cardinality(Args) + 2 * ChunkSize) : Numbered(q))

LEMMA BiggestOf ==
    ASSUME NEW x \in Int, NEW y \in Int
    PROVE  /\ Max({x, y}) \in {x, y} /\ Max({x, y}) >= x /\ Max({x, y}) >= y
           /\ Min({x, y}) \in {x, y} /\ Min({x, y}) <= x /\ Min({x, y}) <= y
  <1>1. \E z \in {x, y} : \A w \in {x, y} : z >= w
    OBVIOUS
  <1>2. \E z \in {x, y} : \A w \in {x, y} : z <= w
    OBVIOUS
  <1>3. Max({x, y}) \in {x, y} /\ \A w \in {x, y} : Max({x, y}) >= w
    BY <1>1 DEF Max
  <1>4. Min({x, y}) \in {x, y} /\ \A w \in {x, y} : Min({x, y}) <= w
    BY <1>2 DEF Min
  <1> QED BY <1>3, <1>4

LEMMA Choosing ==
    ASSUME Types, Choose
    PROVE  \E t, q, b : Asks(t, q, b) /\ Go(t, q, b)
  <1>0. /\ bound \in Bounds /\ url.tab \in Tabs /\ url.page \in Pages
        /\ maxPage \in {Unknown} \cup Nat /\ (maxPage # Unknown => source \in Sources)
        /\ ChunkSize \in Nat \ {0}
    BY FeedAssumption DEF Types, ServerTypes, PageTypes, ListTypes
  <1> DEFINE base == IF maxPage # Unknown /\ url.page <= maxPage /\ source.tab = url.tab
                       THEN source.seen ELSE None
  <1>1. ASSUME NEW q \in Pages, ClickPage(q), maxPage # Unknown /\ url.page <= maxPage => q <= maxPage
        PROVE  Asks(url.tab, q, base) /\ Go(url.tab, q, base)
    <2>1. Go(url.tab, q, base)
      BY <1>1 DEF ClickPage
    <2>2. base # None => maxPage # Unknown /\ url.page <= maxPage /\ source.tab = url.tab /\ base = source.seen
      OBVIOUS
    <2>3. base \in {None} \cup Nat
      BY <1>0 DEF Sources
    <2> HIDE DEF base
    <2> QED BY <1>0, <1>1, <2>1, <2>2, <2>3 DEF Asks
  <1>2. ASSUME NEW t \in bound.tabs, ClickTab(t) PROVE Asks(t, 1, None) /\ Go(t, 1, None)
    <2>1. bound.tabs \subseteq Tabs
      BY <1>0, FeedAssumption DEF Tabs
    <2> QED BY <1>2, <2>1 DEF Asks, ClickTab, Pages
  <1>3. CASE Prev
    <2> DEFINE q == Max({1, url.page - ChunkSize})
    <2>1. q \in {1, url.page - ChunkSize} /\ q >= 1
      <3> DEFINE back == url.page - ChunkSize
      <3>1. back \in Int
        BY <1>0 DEF Pages
      <3> HIDE DEF back
      <3>2. \A x \in Int : Max({x, back}) \in {x, back} /\ Max({x, back}) >= x
        BY <3>1, BiggestOf
      <3> QED BY <3>2 DEF back
    <2>2. q \in Pages /\ q <= url.page
      BY <1>0, <2>1 DEF Pages
    <2>3. ClickPage(q)
      BY <1>3 DEF Prev
    <2> HIDE DEF q
    <2>4. maxPage # Unknown /\ url.page <= maxPage => q <= maxPage
      BY <1>0, <2>2 DEF Pages
    <2> QED BY <1>1, <2>2, <2>3, <2>4
  <1>4. CASE NextChunk
    <2> DEFINE q == IF maxPage = Unknown THEN url.page + ChunkSize
                    ELSE Min({maxPage, url.page + ChunkSize})
    <2>1. ClickPage(q)
      BY <1>4 DEF NextChunk
    <2>2. CASE maxPage = Unknown
      <3>1. q \in Pages
        BY <1>0, <2>2 DEF Pages
      <3> HIDE DEF q
      <3> QED BY <1>1, <2>1, <2>2, <3>1
    <2>3. CASE maxPage # Unknown
      <3>1. maxPage \in Nat /\ url.page < maxPage
        BY <1>0, <1>4, <2>3 DEF NextChunk
      <3>2. q \in {maxPage, url.page + ChunkSize} /\ q <= maxPage
        <4> DEFINE far == url.page + ChunkSize
        <4>1. far \in Int /\ maxPage \in Int
          BY <1>0, <3>1 DEF Pages
        <4> HIDE DEF far
        <4>2. Min({maxPage, far}) \in {maxPage, far} /\ Min({maxPage, far}) <= maxPage
          BY <4>1, BiggestOf
        <4> QED BY <2>3, <4>2 DEF far
      <3>3. q \in Pages
        BY <1>0, <3>1, <3>2 DEF Pages
      <3> HIDE DEF q
      <3> QED BY <1>1, <2>1, <3>2, <3>3
    <2> QED BY <2>2, <2>3
  <1>5. ASSUME NEW q, Numbered(q) PROVE \E t, r, b : Asks(t, r, b) /\ Go(t, r, b)
    <2> DEFINE first == ((url.page - 1) \div ChunkSize) * ChunkSize + 1
    <2>1. q \in first..(first + ChunkSize - 1) /\ (maxPage # Unknown => q <= maxPage) /\ ClickPage(q)
      BY <1>5 DEF Numbered
    <2>2. first \in Nat /\ first >= 1
      <3>1. (url.page - 1) \div ChunkSize \in Nat
        BY <1>0 DEF Pages
      <3>2. ((url.page - 1) \div ChunkSize) * ChunkSize \in Nat
        BY <1>0, <3>1
      <3> QED BY <3>2
    <2> HIDE DEF first
    <2>3. q \in Pages
      BY <1>0, <2>1, <2>2 DEF Pages
    <2> QED BY <1>1, <2>1, <2>3
  <1> QED BY <1>1, <1>2, <1>3, <1>4, <1>5 DEF Choose

\* A step, by what it can change.
LEMMA StepOf ==
    ASSUME [Next]_vars
    PROVE  \/ UNCHANGED vars
           \/ Choose
           \/ \E l \in loads : Serve(l) \/ Apply(l) \/ LoadFails(l)
           \/ \E e \in cache : Expire(e)
           \/ \E k \in Clicks : \/ \E a \in Args : ClickStar(k, a)
                                \/ Exists(k) \/ Toggle(k) \/ Clear(k) \/ Toggled(k) \/ ToggleFails(k)
           \/ \E a \in Args : Post(a) \/ Cleared(a) \/ Created(a) \/ Announced(a)
           \/ Render \/ ShowNew
  BY DEF Next, Choose, Serve

LEMMA ServerTypesNext ==
    ASSUME Types, [Next]_vars
    PROVE  ServerTypes' /\ Range(posted) \subseteq Range(posted')
  <1> USE DEF Types, ServerTypes, server, vars
  <1>1. ASSUME UNCHANGED <<bound, posted, watched>>, uncleared' \subseteq uncleared
        PROVE  ServerTypes' /\ Range(posted) \subseteq Range(posted')
    BY <1>1
  <1>2. CASE UNCHANGED vars
    BY <1>1, <1>2
  <1>3. CASE Choose
    <2>1. PICK t, q, b : Go(t, q, b)
      BY <1>3, Choosing
    <2> QED BY <1>1, <2>1 DEF Go
  <1>4. ASSUME NEW l \in loads, Serve(l) PROVE UNCHANGED <<bound, posted, watched, uncleared>>
    BY <1>4, Serving
  <1>5. ASSUME NEW l \in loads, Apply(l) \/ LoadFails(l)
        PROVE  ServerTypes' /\ Range(posted) \subseteq Range(posted')
    BY <1>1, <1>5 DEF Apply, LoadFails
  <1>6. ASSUME NEW e \in cache, Expire(e)
        PROVE  ServerTypes' /\ Range(posted) \subseteq Range(posted')
    BY <1>1, <1>6 DEF Expire
  <1>7. ASSUME NEW k \in Clicks, NEW a, ClickStar(k, a) \/ Exists(k) \/ Clear(k) \/ Toggled(k) \/ ToggleFails(k)
        PROVE  ServerTypes' /\ Range(posted) \subseteq Range(posted')
    BY <1>1, <1>7 DEF ClickStar, Exists, Clear, Toggled, ToggleFails
  <1>8. ASSUME NEW k \in Clicks, Toggle(k)
        PROVE  ServerTypes' /\ Range(posted) \subseteq Range(posted')
    <2> DEFINE a == click[k].arg
    <2>1. a \in Args
      BY <1>8, ClickUnderWay DEF Toggle, ClickRecs
    <2>2. /\ watched' \in {RemoveFirst(watched, a), watched, Append(watched, a)}
          /\ watched' = Append(watched, a) => a \notin Range(watched) \/ watched' \in {RemoveFirst(watched, a), watched}
          /\ UNCHANGED <<bound, posted, uncleared>>
      BY <1>8 DEF Toggle
    <2> HIDE DEF a
    <2>3. RemoveFirst(watched, a) \in Seq(Args) /\ Distinct(RemoveFirst(watched, a))
      BY RemoveFirstHas
    <2>4. /\ Append(watched, a) \in Seq(Args)
          /\ a \notin Range(watched) => Distinct(Append(watched, a))
      BY <2>1, RangeOfAppend
    <2>5. watched' \in Seq(Args) /\ Distinct(watched')
      BY <2>2, <2>3, <2>4
    <2> QED BY <2>2, <2>5
  <1>9. ASSUME NEW a \in Args, Post(a)
        PROVE  ServerTypes' /\ Range(posted) \subseteq Range(posted')
    <2>1. /\ a \notin Range(posted) /\ posted' = Append(posted, a)
          /\ uncleared' = uncleared \cup {a} /\ UNCHANGED <<bound, watched>>
      BY <1>9 DEF Post
    <2>2. /\ posted' \in Seq(Args) /\ Distinct(posted') /\ Range(posted') = Range(posted) \cup {a}
      BY <2>1, RangeOfAppend
    <2> QED BY <2>1, <2>2
  <1>10. ASSUME NEW a \in Args, Cleared(a) \/ Created(a) \/ Announced(a)
         PROVE  ServerTypes' /\ Range(posted) \subseteq Range(posted')
    BY <1>1, <1>10 DEF Cleared, Created, Announced
  <1>11. CASE Render \/ ShowNew
    BY <1>1, <1>11 DEF Render, ShowNew
  <1> QED BY <1>1, <1>2, <1>3, <1>4, <1>5, <1>6, <1>7, <1>8, <1>9, <1>10, <1>11, StepOf

LEMMA CacheTypesNext ==
    ASSUME Types, [Next]_vars
    PROVE  CacheTypes'
  <1> USE DEF server, vars
  <1>1. ASSUME cache' \subseteq cache PROVE CacheTypes'
    BY <1>1 DEF Types, CacheTypes
  <1>2. CASE UNCHANGED vars
    BY <1>1, <1>2
  <1>3. CASE Choose
    <2>1. PICK t, q, b : Go(t, q, b)
      BY <1>3, Choosing
    <2> QED BY <1>1, <2>1 DEF Go
  <1>4. ASSUME NEW l \in loads, Serve(l) PROVE CacheTypes'
    <2>1. CASE UNCHANGED cache
      BY <1>1, <2>1
    <2>2. CASE Store(l)
      <3> DEFINE e == Entry(l)
      <3>1. l \in Requests /\ Once(l.answer.items)
        BY DEF Types, LoadTypes
      <3>2. /\ e \in Entries /\ e.tab = l.tab /\ e.page = l.page /\ Once(e.answer.items)
        BY <3>1 DEF Entry, Entries, Requests
      <3>3. cache' = (cache \ Cached(l)) \cup {e}
        BY <2>2 DEF Store
      <3> HIDE DEF e
      <3>4. \A f \in cache \ Cached(l) : ~(f.tab = e.tab /\ f.page = e.page)
        BY <3>2 DEF Cached
      <3> QED BY <3>2, <3>3, <3>4 DEF Types, CacheTypes
    <2>3. UNCHANGED cache \/ Store(l)
      BY <1>4, Serving DEF Types
    <2> QED BY <2>1, <2>2, <2>3
  <1>5. ASSUME NEW l \in loads, Apply(l) \/ LoadFails(l) PROVE CacheTypes'
    BY <1>1, <1>5 DEF Apply, LoadFails
  <1>6. ASSUME NEW e \in cache, Expire(e) PROVE CacheTypes'
    BY <1>1, <1>6 DEF Expire
  <1>7. ASSUME NEW k \in Clicks, NEW a, ClickStar(k, a) \/ Exists(k) \/ Toggle(k) \/ Toggled(k) \/ ToggleFails(k)
        PROVE  CacheTypes'
    BY <1>1, <1>7 DEF ClickStar, Exists, Toggle, Toggled, ToggleFails
  <1>8. ASSUME NEW k \in Clicks, Clear(k) PROVE CacheTypes'
    <2> DEFINE a == click[k].arg
               Mark(e) == [e EXCEPT !.answer.dirty = @ \cup {a}]
    <2>1. a \in Args
      BY <1>8, ClickUnderWay DEF Clear, ClickRecs, Types
    <2>2. PICK E \in SUBSET cache : cache' = {Mark(e) : e \in E}
      BY <1>8 DEF Clear
    <2> HIDE DEF a
    <2>3. ASSUME NEW e \in Entries
          PROVE  /\ Mark(e) \in Entries /\ Mark(e).tab = e.tab /\ Mark(e).page = e.page
                 /\ Mark(e).answer.items = e.answer.items
      BY <2>1 DEF Entries, Answers
    <2> HIDE DEF Mark
    <2>4. \A e \in E : e \in Entries
      BY DEF Types, CacheTypes
    <2>5. cache' \subseteq Entries
      BY <2>2, <2>3, <2>4
    <2>6. \A f \in cache' : Once(f.answer.items)
      <3> SUFFICES ASSUME NEW f \in cache' PROVE Once(f.answer.items)
        OBVIOUS
      <3>1. PICK e \in E : f = Mark(e)
        BY <2>2
      <3> QED BY <2>3, <2>4, <3>1 DEF Types, CacheTypes
    <2>7. \A f, g \in cache' : f.tab = g.tab /\ f.page = g.page => f = g
      <3> SUFFICES ASSUME NEW f \in cache', NEW g \in cache', f.tab = g.tab /\ f.page = g.page PROVE f = g
        OBVIOUS
      <3>1. PICK d \in E, e \in E : f = Mark(d) /\ g = Mark(e)
        BY <2>2
      <3>2. d.tab = e.tab /\ d.page = e.page
        BY <2>3, <2>4, <3>1
      <3> QED BY <3>1, <3>2 DEF Types, CacheTypes
    <2> QED BY <2>5, <2>6, <2>7 DEF CacheTypes
  <1>9. ASSUME NEW a \in Args, Post(a) \/ Cleared(a) \/ Created(a) \/ Announced(a) PROVE CacheTypes'
    BY <1>1, <1>9 DEF Post, Cleared, Created, Announced
  <1>10. CASE Render \/ ShowNew
    BY <1>1, <1>10 DEF Render, ShowNew
  <1> QED BY <1>2, <1>3, <1>4, <1>5, <1>6, <1>7, <1>8, <1>9, <1>10, StepOf

LEMMA LoadTypesNext ==
    ASSUME Types, [Next]_vars
    PROVE  LoadTypes'
  <1> USE DEF vars
  <1>1. ASSUME navs' = navs, loads' \subseteq loads PROVE LoadTypes'
    BY <1>1 DEF Types, LoadTypes
  <1>2. CASE UNCHANGED vars
    BY <1>1, <1>2
  <1>3. CASE Choose
    <2>1. PICK t, q, b : Asks(t, q, b) /\ Go(t, q, b)
      BY <1>3, Choosing
    <2>2. CASE [tab |-> t, page |-> q] = url
      BY <1>1, <2>1, <2>2 DEF Go
    <2>3. CASE [tab |-> t, page |-> q] # url
      <3> DEFINE new == Load(navs', t, q, {a \in Args : Clicked(a)})
      <3>1. navs' = navs + 1 /\ loads' = loads \cup {new}
        BY <2>1, <2>3 DEF Go
      <3>2. navs \in Nat
        BY DEF Types, LoadTypes
      <3>3. new \in Requests /\ new.n = navs + 1 /\ new.answer.items = {}
        BY <2>1, <3>1, <3>2 DEF Load, Answer, Requests, Answers, Asks, Steps
      <3> HIDE DEF new
      <3>4. Once(new.answer.items)
        BY <3>3 DEF Once
      <3>5. \A l \in loads : l \in Requests /\ l.n \in Nat /\ l.n <= navs /\ Once(l.answer.items)
        BY DEF Types, LoadTypes, Requests
      <3>6. navs' \in Nat /\ loads' \subseteq Requests
        BY <3>1, <3>2, <3>3, <3>5
      <3>7. \A l \in loads' : l.n <= navs' /\ Once(l.answer.items)
        <4> SUFFICES ASSUME NEW l \in loads' PROVE l.n <= navs' /\ Once(l.answer.items)
          OBVIOUS
        <4>1. CASE l = new
          BY <3>1, <3>2, <3>3, <3>4, <4>1
        <4>2. CASE l \in loads
          BY <3>1, <3>2, <3>5, <4>2
        <4> QED BY <3>1, <4>1, <4>2
      <3>8. \A l, k \in loads' : l.n = k.n => l = k
        <4>1. \A l \in loads : l.n # new.n
          BY <3>2, <3>3, <3>5
        <4> QED BY <3>1, <4>1 DEF Types, LoadTypes
      <3> QED BY <3>6, <3>7, <3>8 DEF LoadTypes
    <2> QED BY <2>2, <2>3
  <1>4. ASSUME NEW l \in loads, Serve(l) PROVE LoadTypes'
    <2>1. PICK m \in Requests : loads' = (loads \ {l}) \cup {m} /\ m.n = l.n /\ Once(m.answer.items)
      BY <1>4, Serving DEF Types
    <2>2. navs' = navs
      BY <1>4, Serving DEF Types
    <2> QED BY <2>1, <2>2 DEF Types, LoadTypes
  <1>5. ASSUME NEW l \in loads, Apply(l) \/ LoadFails(l) PROVE LoadTypes'
    BY <1>1, <1>5 DEF Apply, LoadFails
  <1>6. ASSUME NEW e \in cache, Expire(e) PROVE LoadTypes'
    BY <1>1, <1>6 DEF Expire
  <1>7. ASSUME NEW k \in Clicks, NEW a \in Args, ClickStar(k, a) PROVE LoadTypes'
    <2> DEFINE Mark(l) == [l EXCEPT !.answer.dirty = @ \cup {a}]
    <2>1. loads' = {Mark(l) : l \in loads} /\ navs' = navs
      BY <1>7 DEF ClickStar
    <2>2. ASSUME NEW l \in Requests
          PROVE  Mark(l) \in Requests /\ Mark(l).n = l.n /\ Mark(l).answer.items = l.answer.items
      BY DEF Requests, Answers
    <2> HIDE DEF Mark
    <2>3. loads \subseteq Requests
      BY DEF Types, LoadTypes
    <2>4. loads' \subseteq Requests
      BY <2>1, <2>2, <2>3
    <2>5. \A m \in loads' : m.n <= navs /\ Once(m.answer.items)
      <3> SUFFICES ASSUME NEW m \in loads' PROVE m.n <= navs /\ Once(m.answer.items)
        OBVIOUS
      <3>1. PICK l \in loads : m = Mark(l)
        BY <2>1
      <3> QED BY <2>2, <2>3, <3>1 DEF Types, LoadTypes
    <2>6. \A m, o \in loads' : m.n = o.n => m = o
      <3> SUFFICES ASSUME NEW m \in loads', NEW o \in loads', m.n = o.n PROVE m = o
        OBVIOUS
      <3>1. PICK l \in loads, j \in loads : m = Mark(l) /\ o = Mark(j)
        BY <2>1
      <3>2. l.n = j.n
        BY <2>2, <2>3, <3>1
      <3> QED BY <3>1, <3>2 DEF Types, LoadTypes
    <2> QED BY <2>1, <2>4, <2>5, <2>6 DEF Types, LoadTypes
  <1>8. ASSUME NEW k \in Clicks, Exists(k) \/ Toggle(k) \/ Clear(k) \/ Toggled(k) \/ ToggleFails(k)
        PROVE  LoadTypes'
    BY <1>1, <1>8 DEF Exists, Toggle, Clear, Toggled, ToggleFails
  <1>9. ASSUME NEW a \in Args, Post(a) \/ Cleared(a) \/ Created(a) \/ Announced(a) PROVE LoadTypes'
    BY <1>1, <1>9 DEF Post, Cleared, Created, Announced
  <1>10. CASE Render \/ ShowNew
    BY <1>1, <1>10 DEF Render, ShowNew
  <1> QED BY <1>2, <1>3, <1>4, <1>5, <1>6, <1>7, <1>8, <1>9, <1>10, StepOf

LEMMA ClickTypesNext ==
    ASSUME Types, [Next]_vars
    PROVE  ClickTypes'
  <1> USE DEF vars
  <1>0. click \in [Clicks -> {Idle} \cup ClickRecs] /\ doubt \subseteq Args
    BY DEF Types, ClickTypes
  <1>1. ASSUME UNCHANGED click, doubt' \subseteq Args PROVE ClickTypes'
    BY <1>1 DEF Types, ClickTypes
  <1>2. ASSUME NEW k \in Clicks, NEW c \in {Idle} \cup ClickRecs, click' = [click EXCEPT ![k] = c],
               doubt' \subseteq Args
        PROVE  ClickTypes'
    BY <1>0, <1>2 DEF ClickTypes
  <1>3. CASE UNCHANGED vars
    BY <1>0, <1>1, <1>3
  <1>4. CASE Choose
    <2>1. PICK t, q, b : Go(t, q, b)
      BY <1>4, Choosing
    <2> QED BY <1>0, <1>1, <2>1 DEF Go
  <1>5. ASSUME NEW l \in loads, Serve(l) PROVE ClickTypes'
    <2>1. UNCHANGED <<click, doubt>>
      BY <1>5, Serving DEF Types
    <2> QED BY <1>0, <1>1, <2>1
  <1>6. ASSUME NEW l \in loads, Apply(l) PROVE ClickTypes'
    <2>1. l.answer.dirty \subseteq Args
      BY DEF Types, LoadTypes, Requests, Answers
    <2> QED BY <1>1, <1>6, <2>1 DEF Apply
  <1>7. ASSUME NEW l \in loads, LoadFails(l) PROVE ClickTypes'
    BY <1>0, <1>1, <1>7 DEF LoadFails
  <1>8. ASSUME NEW e \in cache, Expire(e) PROVE ClickTypes'
    BY <1>0, <1>1, <1>8 DEF Expire
  <1>9. ASSUME NEW k \in Clicks, NEW a \in Args, ClickStar(k, a) PROVE ClickTypes'
    <2> DEFINE c == [at |-> "sent", arg |-> a, tab |-> url.tab, found |-> FALSE]
    <2>1. c \in ClickRecs
      BY DEF ClickRecs, ClickSteps, Types, PageTypes
    <2>2. click' = [click EXCEPT ![k] = c] /\ doubt' \subseteq Args
      BY <1>0, <1>9 DEF ClickStar
    <2> HIDE DEF c
    <2> QED BY <1>2, <2>1, <2>2
  <1>10. ASSUME NEW k \in Clicks, Exists(k) PROVE ClickTypes'
    <2>1. click[k] \in ClickRecs
      BY <1>10, ClickUnderWay DEF Exists, Types
    <2> DEFINE b == click[k].arg \in Range(watched)
    <2>2. b \in BOOLEAN
      OBVIOUS
    <2>3. click' = [click EXCEPT ![k].at = "checked", ![k].found = b] /\ doubt' = doubt
      BY <1>10 DEF Exists
    <2> HIDE DEF b
    <2> DEFINE c == [click[k] EXCEPT !.at = "checked", !.found = b]
    <2>4. c \in ClickRecs
      BY <2>1, <2>2 DEF ClickRecs, ClickSteps
    <2>5. click' = [click EXCEPT ![k] = c]
      BY <1>0, <2>3
    <2> HIDE DEF c
    <2> QED BY <1>0, <1>2, <2>3, <2>4, <2>5
  <1>11. ASSUME NEW k \in Clicks, NEW at \in ClickSteps, click[k].at # "idle",
                click' = [click EXCEPT ![k].at = at], doubt' \subseteq Args
         PROVE  ClickTypes'
    <2> DEFINE c == [click[k] EXCEPT !.at = at]
    <2>1. c \in ClickRecs
      BY <1>11, ClickUnderWay DEF ClickRecs, Types
    <2>2. click' = [click EXCEPT ![k] = c]
      BY <1>0, <1>11
    <2> HIDE DEF c
    <2> QED BY <1>2, <1>11, <2>1, <2>2
  <1>12. ASSUME NEW k \in Clicks, Toggle(k) PROVE ClickTypes'
    <2>1. PICK at \in ClickSteps : click' = [click EXCEPT ![k].at = at]
      BY <1>12 DEF Toggle, ClickSteps
    <2>2. click[k].at # "idle" /\ doubt' = doubt
      BY <1>12 DEF Toggle
    <2> QED BY <1>0, <1>11, <2>1, <2>2
  <1>13. ASSUME NEW k \in Clicks, Clear(k) PROVE ClickTypes'
    <2>1. PICK at \in ClickSteps : click' = [click EXCEPT ![k].at = at]
      BY <1>13 DEF Clear, ClickSteps
    <2>2. click[k].at # "idle" /\ doubt' = doubt
      BY <1>13 DEF Clear
    <2> QED BY <1>0, <1>11, <2>1, <2>2
  <1>14. ASSUME NEW k \in Clicks, Toggled(k) PROVE ClickTypes'
    BY <1>0, <1>2, <1>14 DEF Toggled
  <1>15. ASSUME NEW k \in Clicks, ToggleFails(k) PROVE ClickTypes'
    <2>1. click[k].arg \in Args
      BY <1>15, ClickUnderWay DEF ToggleFails, ClickRecs, Types
    <2> QED BY <1>0, <1>2, <1>15, <2>1 DEF ToggleFails
  <1>16. ASSUME NEW a \in Args, Post(a) \/ Cleared(a) \/ Announced(a) PROVE ClickTypes'
    BY <1>0, <1>1, <1>16 DEF Post, Cleared, Announced
  <1>17. ASSUME NEW a \in Args, Created(a) PROVE ClickTypes'
    BY <1>0, <1>1, <1>17 DEF Created, Unseen
  <1>18. CASE Render
    BY <1>0, <1>1, <1>18 DEF Render
  <1>19. CASE ShowNew
    <2>1. rendered \subseteq Args
      BY Members DEF Types, NewsTypes, ServerTypes
    <2> QED BY <1>0, <1>1, <1>19, <2>1 DEF ShowNew, Unseen
  <1> QED BY <1>3, <1>4, <1>5, <1>6, <1>7, <1>8, <1>9, <1>10, <1>12, <1>13, <1>14, <1>15,
             <1>16, <1>17, <1>18, <1>19, StepOf

LEMMA PageTypesNext ==
    ASSUME Types, [Next]_vars
    PROVE  PageTypes'
  <1> USE DEF vars, past
  <1>1. ASSUME UNCHANGED <<url, basis>> PROVE PageTypes'
    BY <1>1 DEF Types, PageTypes
  <1>2. CASE UNCHANGED vars
    BY <1>1, <1>2
  <1>3. CASE Choose
    <2>1. PICK t, q, b : Asks(t, q, b) /\ Go(t, q, b)
      BY <1>3, Choosing
    <2>2. CASE [tab |-> t, page |-> q] = url
      BY <1>1, <2>1, <2>2 DEF Go
    <2>3. CASE [tab |-> t, page |-> q] # url
      BY <2>1, <2>3 DEF Go, Asks, PageTypes
    <2> QED BY <2>2, <2>3
  <1>4. ASSUME NEW l \in loads, Serve(l) PROVE PageTypes'
    <2>1. UNCHANGED <<url, basis>>
      BY <1>4, Serving DEF Types
    <2> QED BY <1>1, <2>1
  <1>5. ASSUME NEW l \in loads, Apply(l) \/ LoadFails(l) PROVE PageTypes'
    BY <1>1, <1>5 DEF Apply, LoadFails
  <1>6. ASSUME NEW e \in cache, Expire(e) PROVE PageTypes'
    BY <1>1, <1>6 DEF Expire
  <1>7. ASSUME NEW k \in Clicks, NEW a, \/ ClickStar(k, a) \/ Exists(k) \/ Toggle(k) \/ Clear(k)
                                       \/ Toggled(k) \/ ToggleFails(k)
        PROVE  PageTypes'
    BY <1>1, <1>7 DEF ClickStar, Exists, Toggle, Clear, Toggled, ToggleFails
  <1>8. ASSUME NEW a \in Args, Post(a) \/ Cleared(a) \/ Created(a) \/ Announced(a) PROVE PageTypes'
    BY <1>1, <1>8 DEF Post, Cleared, Created, Announced
  <1>9. CASE Render \/ ShowNew
    BY <1>1, <1>9 DEF Render, ShowNew
  <1> QED BY <1>2, <1>3, <1>4, <1>5, <1>6, <1>7, <1>8, <1>9, StepOf

\* What is added to the list is not in it yet.
LEMMA AddToListIs ==
    ASSUME list \subseteq Listed, Once(list), NEW S \in SUBSET Args
    PROVE  /\ AddToList(S) \subseteq Listed /\ Once(AddToList(S))
           /\ list \subseteq AddToList(S)
           /\ \A x \in AddToList(S) : x \in list \/ (x.id \in S \ Ids(list) /\ x.star = FALSE)
  <1> DEFINE new == {[id |-> a, star |-> FALSE] : a \in S \ Ids(list)}
  <1>1. AddToList(S) = list \cup new
    BY DEF AddToList
  <1> DEFINE Entered(a) == [id |-> a, star |-> FALSE]
  <1>6. \A a \in Args : Entered(a) \in Listed /\ Entered(a).id = a /\ Entered(a).star = FALSE
    BY DEF Listed
  <1>7. new = {Entered(a) : a \in S \ Ids(list)}
    OBVIOUS
  <1> HIDE DEF new, Entered
  <1>2. \A x \in new : x.id \in S \ Ids(list) /\ x.star = FALSE /\ x \in Listed
    BY <1>6, <1>7
  <1>3. \A x, y \in new : x.id = y.id => x = y
    BY <1>6, <1>7
  <1>4. \A x \in list, y \in new : x.id # y.id
    BY <1>2 DEF Ids
  <1>5. Once(list \cup new)
    BY <1>3, <1>4 DEF Once
  <1> QED BY <1>1, <1>2, <1>5

LEMMA ListTypesNext ==
    ASSUME Types, [Next]_vars
    PROVE  ListTypes'
  <1> USE DEF vars, shown, past
  <1>0. list \subseteq Listed /\ Once(list)
    BY DEF Types, ListTypes
  <1>1. ASSUME UNCHANGED <<list, maxPage, source>> PROVE ListTypes'
    BY <1>1 DEF Types, ListTypes, Once
  <1>2. ASSUME list' \subseteq Listed, Once(list'), UNCHANGED <<maxPage, source>> PROVE ListTypes'
    BY <1>2 DEF Types, ListTypes
  <1>3. CASE UNCHANGED vars
    BY <1>1, <1>3
  <1>4. CASE Choose
    <2>1. PICK t, q, b : Go(t, q, b)
      BY <1>4, Choosing
    <2>2. UNCHANGED <<list, source>> /\ maxPage' \in {maxPage, Unknown}
      BY <2>1 DEF Go
    <2> QED BY <2>2 DEF Types, ListTypes, Once
  <1>5. ASSUME NEW l \in loads, Serve(l) PROVE ListTypes'
    <2>1. UNCHANGED <<list, maxPage, source>>
      BY <1>5, Serving DEF Types
    <2> QED BY <1>1, <2>1
  <1>6. ASSUME NEW l \in loads, Apply(l) PROVE ListTypes'
    <2>1. /\ l.tab \in Tabs /\ l.page \in Pages /\ l.answer.items \subseteq Listed
          /\ l.answer.pages \in Nat /\ l.answer.seen \in Nat /\ Once(l.answer.items)
      BY DEF Types, LoadTypes, Requests, Answers
    <2>2. /\ list' = l.answer.items /\ maxPage' = l.answer.pages
          /\ source' = [tab |-> l.tab, page |-> l.page, seen |-> l.answer.seen]
      BY <1>6 DEF Apply
    <2>3. source' \in Sources
      BY <2>1, <2>2 DEF Sources
    <2> QED BY <2>1, <2>2, <2>3 DEF ListTypes
  <1>7. ASSUME NEW l \in loads, LoadFails(l) PROVE ListTypes'
    BY <1>1, <1>7 DEF LoadFails
  <1>8. ASSUME NEW e \in cache, Expire(e) PROVE ListTypes'
    BY <1>1, <1>8 DEF Expire
  <1>9. ASSUME NEW k \in Clicks, NEW a, \/ ClickStar(k, a) \/ Exists(k) \/ Toggle(k) \/ Clear(k)
                                       \/ ToggleFails(k)
        PROVE  ListTypes'
    BY <1>1, <1>9 DEF ClickStar, Exists, Toggle, Clear, ToggleFails
  <1>10. ASSUME NEW k \in Clicks, Toggled(k) PROVE ListTypes'
    <2> DEFINE a == click[k].arg
               now == click[k].at = "watched"
    <2>1. \/ list' = {x \in list : x.id # a}
          \/ list' = {IF x.id = a THEN [x EXCEPT !.star = now] ELSE x : x \in list}
      BY <1>10 DEF Toggled
    <2>2. UNCHANGED <<maxPage, source>>
      BY <1>10 DEF Toggled
    <2>3. now \in BOOLEAN
      OBVIOUS
    <2> HIDE DEF a, now
    <2>4. CASE list' = {x \in list : x.id # a}
      BY <1>0, <1>2, <2>2, <2>4 DEF Once
    <2>5. CASE list' = {IF x.id = a THEN [x EXCEPT !.star = now] ELSE x : x \in list}
      <3> DEFINE Mark(x) == IF x.id = a THEN [x EXCEPT !.star = now] ELSE x
      <3>1. \A x \in Listed : Mark(x) \in Listed /\ Mark(x).id = x.id
        BY <2>3 DEF Listed
      <3>2. list' = {Mark(x) : x \in list}
        BY <2>5
      <3> HIDE DEF Mark
      <3>3. list' \subseteq Listed
        BY <1>0, <3>1, <3>2
      <3>4. Once(list')
        <4> SUFFICES ASSUME NEW x \in list', NEW y \in list', x.id = y.id PROVE x = y
          BY DEF Once
        <4>1. PICK u \in list, v \in list : x = Mark(u) /\ y = Mark(v)
          BY <3>2
        <4>2. u.id = v.id
          BY <1>0, <3>1, <4>1
        <4> QED BY <1>0, <4>1, <4>2 DEF Once
      <3> QED BY <1>2, <2>2, <3>3, <3>4
    <2> QED BY <2>1, <2>4, <2>5
  <1>11. ASSUME NEW a \in Args, Post(a) \/ Cleared(a) \/ Announced(a) PROVE ListTypes'
    BY <1>1, <1>11 DEF Post, Cleared, Announced
  <1>12. ASSUME NEW S \in SUBSET Args, list' = AddToList(S), UNCHANGED <<maxPage, source>> PROVE ListTypes'
    BY <1>0, <1>2, <1>12, AddToListIs
  <1>13. ASSUME NEW a \in Args, Created(a) PROVE ListTypes'
    <2>1. list' = AddToList({a}) /\ UNCHANGED <<maxPage, source>>
      BY <1>13 DEF Created
    <2> QED BY <1>12, <2>1
  <1>14. CASE Render
    BY <1>1, <1>14 DEF Render
  <1>15. CASE ShowNew
    <2>1. rendered \subseteq Args
      BY Members DEF Types, NewsTypes, ServerTypes
    <2>2. list' = AddToList(rendered) /\ UNCHANGED <<maxPage, source>>
      BY <1>15 DEF ShowNew
    <2> QED BY <1>12, <2>1, <2>2
  <1> QED BY <1>3, <1>4, <1>5, <1>6, <1>7, <1>8, <1>9, <1>10, <1>11, <1>13, <1>14, <1>15, StepOf

LEMMA FlagsNext ==
    ASSUME Types, [Next]_vars
    PROVE  Flags'
  <1> USE DEF vars, shown
  <1>1. ASSUME UNCHANGED <<hasMore, busy>> PROVE Flags'
    BY <1>1 DEF Types, Flags
  <1>2. CASE UNCHANGED vars
    BY <1>1, <1>2
  <1>3. CASE Choose
    <2>1. PICK t, q, b : Go(t, q, b)
      BY <1>3, Choosing
    <2>2. hasMore' = hasMore /\ (busy' = busy \/ busy' = TRUE)
      BY <2>1 DEF Go
    <2> QED BY <2>2 DEF Types, Flags
  <1>4. ASSUME NEW l \in loads, Serve(l) PROVE Flags'
    <2>1. UNCHANGED <<hasMore, busy>>
      BY <1>4, Serving DEF Types
    <2> QED BY <1>1, <2>1
  <1>5. ASSUME NEW l \in loads, Apply(l) PROVE Flags'
    <2>1. hasMore' = (Cardinality(l.answer.items) = Limit) /\ busy' = FALSE
      BY <1>5 DEF Apply
    <2> QED BY <2>1 DEF Flags
  <1>6. ASSUME NEW l \in loads, LoadFails(l) PROVE Flags'
    <2>1. hasMore' = hasMore /\ busy' = FALSE
      BY <1>6 DEF LoadFails
    <2> QED BY <2>1 DEF Types, Flags
  <1>7. ASSUME NEW e \in cache, Expire(e) PROVE Flags'
    BY <1>1, <1>7 DEF Expire
  <1>8. ASSUME NEW k \in Clicks, NEW a, \/ ClickStar(k, a) \/ Exists(k) \/ Toggle(k) \/ Clear(k)
                                       \/ Toggled(k) \/ ToggleFails(k)
        PROVE  Flags'
    BY <1>1, <1>8 DEF ClickStar, Exists, Toggle, Clear, Toggled, ToggleFails
  <1>9. ASSUME NEW a \in Args, Post(a) \/ Cleared(a) \/ Created(a) \/ Announced(a) PROVE Flags'
    BY <1>1, <1>9 DEF Post, Cleared, Created, Announced
  <1>10. CASE Render \/ ShowNew
    BY <1>1, <1>10 DEF Render, ShowNew
  <1> QED BY <1>2, <1>3, <1>4, <1>5, <1>6, <1>7, <1>8, <1>9, <1>10, StepOf

LEMMA NewsTypesNext ==
    ASSUME Types, [Next]_vars
    PROVE  NewsTypes'
  <1> USE DEF vars, news
  <1>0. Range(posted) \subseteq Range(posted') /\ NewsTypes
    BY ServerTypesNext DEF Types
  <1>1. ASSUME UNCHANGED news PROVE NewsTypes'
    BY <1>0, <1>1 DEF NewsTypes
  <1>2. CASE UNCHANGED vars
    BY <1>1, <1>2
  <1>3. CASE Choose
    <2>1. PICK t, q, b : Go(t, q, b)
      BY <1>3, Choosing
    <2> QED BY <1>1, <2>1 DEF Go
  <1>4. ASSUME NEW l \in loads, Serve(l) PROVE NewsTypes'
    <2>1. UNCHANGED news
      BY <1>4, Serving DEF Types
    <2> QED BY <1>1, <2>1
  <1>5. ASSUME NEW l \in loads, Apply(l) \/ LoadFails(l) PROVE NewsTypes'
    BY <1>1, <1>5 DEF Apply, LoadFails
  <1>6. ASSUME NEW e \in cache, Expire(e) PROVE NewsTypes'
    BY <1>1, <1>6 DEF Expire
  <1>7. ASSUME NEW k \in Clicks, NEW a, \/ ClickStar(k, a) \/ Exists(k) \/ Toggle(k) \/ Clear(k)
                                       \/ Toggled(k) \/ ToggleFails(k)
        PROVE  NewsTypes'
    BY <1>1, <1>7 DEF ClickStar, Exists, Toggle, Clear, Toggled, ToggleFails
  <1>8. ASSUME NEW a \in Args, Post(a) \/ Cleared(a) PROVE NewsTypes'
    BY <1>1, <1>8 DEF Post, Cleared
  <1>9. ASSUME NEW a \in Args, Created(a) PROVE NewsTypes'
    BY <1>0, <1>9 DEF Created, NewsTypes, server
  <1>10. ASSUME NEW a \in Args, Announced(a) PROVE NewsTypes'
    BY <1>0, <1>10 DEF Announced, NewsTypes, server
  <1>11. CASE Render \/ ShowNew
    BY <1>0, <1>11 DEF Render, ShowNew, NewsTypes, server
  <1> QED BY <1>2, <1>3, <1>4, <1>5, <1>6, <1>7, <1>8, <1>9, <1>10, <1>11, StepOf

LEMMA TypesAlways == Spec => []Types
  <1>1. Types /\ [Next]_vars => Types'
    BY ServerTypesNext, CacheTypesNext, LoadTypesNext, ClickTypesNext, PageTypesNext, ListTypesNext,
       FlagsNext, NewsTypesNext DEF Types
  <1> QED BY TypesInit, <1>1, PTL DEF Spec

\* Every variable keeps its type, whatever is posted, watched, cached or
\* clicked while requests are under way: the watchlist and the list hold an
\* argument once, a page is cached once, and requests have their own numbers.
THEOREM FeedTypeCorrect == Spec => []TypeOK
  <1>1. Types => TypeOK
    <2> SUFFICES ASSUME Types PROVE TypeOK
      OBVIOUS
    <2>1. /\ posted \in Seq(Args) /\ watched \in Seq(Args)
          /\ Cardinality(Range(watched)) = Len(watched)
          /\ uncleared \subseteq Range(posted)
      BY DistinctCounts DEF Types, ServerTypes
    <2>2. ASSUME NEW x \in Answers PROVE AnswerType(x)
      BY DEF Answers, Listed, AnswerType
    <2>3. ASSUME NEW e \in cache
          PROVE  e.tab \in Tabs /\ e.page \in Pages /\ AnswerType(e.answer) /\ Cached(e) = {e}
      <3>1. e \in Entries /\ e.answer \in Answers
        BY DEF Types, CacheTypes, Entries
      <3>2. Cached(e) = {e}
        BY DEF Types, CacheTypes, Cached
      <3> QED BY <2>2, <3>1, <3>2 DEF Entries
    <2>4. ASSUME NEW l \in loads
          PROVE  /\ l.n \in 0..navs /\ l.tab \in Tabs /\ l.page \in Pages
                 /\ l.at \in {"sent", "counted", "read", "served"} /\ AnswerType(l.answer)
                 /\ \A k \in loads : k.n = l.n => k = l
      <3>1. l \in Requests /\ l.n <= navs /\ navs \in Nat
        BY DEF Types, LoadTypes
      <3>2. AnswerType(l.answer)
        BY <2>2, <3>1 DEF Requests
      <3>3. \A k \in loads : k.n = l.n => k = l
        BY DEF Types, LoadTypes
      <3> QED BY <3>1, <3>2, <3>3 DEF Requests, Steps
    <2>5. \A x, y \in list : x.id \in Args /\ x.star \in BOOLEAN /\ (x.id = y.id => x = y)
      BY DEF Types, ListTypes, Listed, Once
    <2>6. hasMore \in BOOLEAN /\ busy \in BOOLEAN
      BY DEF Types, Flags
    <2>7. /\ maxPage \in {Unknown} \cup Nat
          /\ source \in {None} \cup [tab : Tabs, page : Pages, seen : Nat]
      BY DEF Types, ListTypes, Sources
    <2>8. /\ click \in [Clicks -> {Idle} \cup
               [at : {"sent", "checked", "changed", "watched", "unwatched", "refused"},
                arg : Args, tab : Tabs, found : BOOLEAN]]
          /\ doubt \subseteq Args
      BY DEF Types, ClickTypes, ClickRecs, ClickSteps
    <2>9. url \in [tab : Tabs, page : Pages] /\ basis \in {None} \cup Nat
      BY DEF Types, PageTypes
    <2>10. /\ pending \subseteq heard /\ rendered \subseteq heard
           /\ heard \subseteq Range(posted) /\ created \subseteq Mine \cap Range(posted)
      BY DEF Types, NewsTypes
    <2> QED BY <2>1, <2>3, <2>4, <2>5, <2>6, <2>7, <2>8, <2>9, <2>10, Zenon DEF TypeOK
  <1> QED BY TypesAlways, <1>1, PTL

-----------------------------------------------------------------------------
(* The stars *)

Starred(x) == x.star = (x.id \in Range(watched))
Under(k) == click[k].at # "idle"
Changing(a) == \E k \in Clicks : click[k].at = "changed" /\ click[k].arg = a

\* A cached page may have the stars of before a click on them only from the
\* change of the watchlist until the page is cleared or marked.
CacheStars ==
    \A e \in cache : \A x \in e.answer.items :
      x.id \notin e.answer.dirty /\ ~Changing(x.id) => Starred(x)
\* A request knows of every click under way.
LoadStars ==
    \A l \in loads : /\ \A a \in Args : Clicked(a) => a \in l.answer.dirty
                     /\ \A x \in l.answer.items : x.id \notin l.answer.dirty => Starred(x)
\* The only click on its argument knows what the watchlist has of it.
ClickStars ==
    \A k \in Clicks : Under(k) /\ click[k].arg \notin doubt =>
      /\ \A j \in Clicks : Under(j) /\ click[j].arg = click[k].arg => j = k
      /\ click[k].at = "checked" => (click[k].found <=> click[k].arg \in Range(watched))
      /\ click[k].at = "changed" => (click[k].found <=> click[k].arg \notin Range(watched))
      /\ click[k].at = "watched" => click[k].arg \in Range(watched)
      /\ click[k].at = "unwatched" => click[k].arg \notin Range(watched)

StarInv == CacheStars /\ LoadStars /\ ClickStars /\ StarOnlyIf

LEMMA OneClick ==
    ASSUME Types, NEW k \in Clicks, NEW c, click' = [click EXCEPT ![k] = c]
    PROVE  click'[k] = c /\ \A j \in Clicks : j # k => click'[j] = click[j]
  BY DEF Types, ClickTypes

\* What a toggle makes of the watchlist.
LEMMA Toggling ==
    ASSUME Types, NEW k \in Clicks, Toggle(k)
    PROVE  LET a == click[k].arg IN
           /\ click[k] \in ClickRecs /\ click[k].at = "checked" /\ a \in Args
           /\ \A x : x # a => (x \in Range(watched') <=> x \in Range(watched))
           /\ click'[k].arg = a /\ click'[k].found = click[k].found
           /\ \A j \in Clicks : j # k => click'[j] = click[j]
           /\ click[k].found => a \notin Range(watched') /\ click'[k].at = "changed" /\ shrunk'
           /\ ~click[k].found /\ a \in Range(watched) => watched' = watched /\ click'[k].at = "refused"
           /\ ~click[k].found /\ a \notin Range(watched) =>
                a \in Range(watched') /\ click'[k].at = "changed"
           /\ ~click[k].found => Len(watched) <= Len(watched')
           /\ shrunk => shrunk'
  <1> DEFINE a == click[k].arg
  <1>1. click[k] \in ClickRecs /\ a \in Args /\ click[k].found \in BOOLEAN /\ click[k].at = "checked"
    BY ClickUnderWay DEF Toggle, ClickRecs, Types
  <1>2. watched \in Seq(Args) /\ Distinct(watched) /\ Len(watched) \in Nat
    BY LenProperties DEF Types, ServerTypes
  <1>3. /\ click[k].found => watched' = RemoveFirst(watched, a)
        /\ ~click[k].found /\ a \in Range(watched) => watched' = watched
        /\ ~click[k].found /\ a \notin Range(watched) => watched' = Append(watched, a)
        /\ shrunk' = (shrunk \/ click[k].found)
    BY DEF Toggle
  <1> DEFINE at == IF ~click[k].found /\ a \in Range(watched) THEN "refused" ELSE "changed"
  <1>4. click' = [click EXCEPT ![k] = [click[k] EXCEPT !.at = at]]
    BY DEF Toggle, Types, ClickTypes
  <1>5. click'[k] = [click[k] EXCEPT !.at = at] /\ \A j \in Clicks : j # k => click'[j] = click[j]
    BY <1>4, OneClick
  <1>6. click'[k].at = at /\ click'[k].arg = a /\ click'[k].found = click[k].found
    BY <1>1, <1>5 DEF ClickRecs
  <1>7. Range(RemoveFirst(watched, a)) = Range(watched) \ {a}
    BY <1>2, RemoveFirstHas
  <1>8. Range(Append(watched, a)) = Range(watched) \cup {a} /\ Len(Append(watched, a)) = Len(watched) + 1
    BY <1>1, <1>2, RangeOfAppend
  <1>9. CASE click[k].found
    <2>1. Range(watched') = Range(watched) \ {a} /\ at = "changed" /\ shrunk'
      BY <1>3, <1>7, <1>9
    <2> QED BY <1>1, <1>5, <1>6, <1>9, <2>1
  <1>10. CASE ~click[k].found /\ a \in Range(watched)
    <2>1. watched' = watched /\ at = "refused"
      BY <1>3, <1>10
    <2>2. /\ \A x : x # a => (x \in Range(watched') <=> x \in Range(watched))
          /\ Len(watched) <= Len(watched') /\ (shrunk => shrunk')
      <3>1. \A x : x # a => (x \in Range(watched') <=> x \in Range(watched))
        BY <2>1
      <3>2. Len(watched) <= Len(watched')
        BY <1>2, <2>1
      <3>3. shrunk => shrunk'
        BY <1>3
      <3> QED BY <3>1, <3>2, <3>3
    <2>3. click'[k].at = "refused" /\ \A j \in Clicks : j # k => click'[j] = click[j]
      BY <1>5, <1>6, <2>1
    <2> HIDE DEF at
    <2> QED BY <1>1, <1>6, <1>10, <2>1, <2>2, <2>3
  <1>11. CASE ~click[k].found /\ a \notin Range(watched)
    <2>1. Range(watched') = Range(watched) \cup {a} /\ Len(watched') = Len(watched) + 1 /\ at = "changed"
      BY <1>3, <1>8, <1>11
    <2>2. /\ \A x : x # a => (x \in Range(watched') <=> x \in Range(watched))
          /\ a \in Range(watched') /\ Len(watched) <= Len(watched') /\ (shrunk => shrunk')
      <3>1. \A x : x # a => (x \in Range(watched') <=> x \in Range(watched))
        BY <2>1
      <3>2. a \in Range(watched') /\ Len(watched) <= Len(watched')
        BY <1>2, <2>1
      <3>3. shrunk => shrunk'
        BY <1>3
      <3> QED BY <3>1, <3>2, <3>3
    <2>3. click'[k].at = "changed" /\ \A j \in Clicks : j # k => click'[j] = click[j]
      BY <1>5, <1>6, <2>1
    <2> HIDE DEF at
    <2> QED BY <1>1, <1>6, <1>11, <2>1, <2>2, <2>3
  <1> QED BY <1>9, <1>10, <1>11

LEMMA ClickStarsNext ==
    ASSUME Types, ClickStars, LoadStars, [Next]_vars
    PROVE  ClickStars'
  <1> USE DEF vars, server
  <1>0. ASSUME NEW k \in Clicks, Under(k) PROVE click[k] \in ClickRecs
    BY <1>0, ClickUnderWay DEF Types, Under
  <1>1. ASSUME UNCHANGED <<click, watched>>, doubt \subseteq doubt' PROVE ClickStars'
    BY <1>1 DEF ClickStars, Under
  <1>2. ASSUME NEW k \in Clicks, NEW c, Under(k), click' = [click EXCEPT ![k] = c],
               c.arg = click[k].arg, UNCHANGED <<watched, doubt>>,
               click[k].arg \notin doubt =>
                 /\ c.at = "checked" => (c.found <=> c.arg \in Range(watched))
                 /\ c.at = "changed" => (c.found <=> c.arg \notin Range(watched))
                 /\ c.at = "watched" => c.arg \in Range(watched)
                 /\ c.at = "unwatched" => c.arg \notin Range(watched)
        PROVE  ClickStars'
    <2>1. click'[k] = c /\ \A j \in Clicks : j # k => click'[j] = click[j]
      BY <1>2, OneClick
    <2>2. \A j \in Clicks : (Under(j)' => Under(j)) /\ (Under(j)' => click'[j].arg = click[j].arg)
      BY <1>2, <2>1 DEF Under
    <2> SUFFICES ASSUME NEW i \in Clicks, Under(i)', click'[i].arg \notin doubt'
                 PROVE  /\ \A j \in Clicks : Under(j)' /\ click'[j].arg = click'[i].arg => j = i
                        /\ click'[i].at = "checked" => (click'[i].found <=> click'[i].arg \in Range(watched'))
                        /\ click'[i].at = "changed" => (click'[i].found <=> click'[i].arg \notin Range(watched'))
                        /\ click'[i].at = "watched" => click'[i].arg \in Range(watched')
                        /\ click'[i].at = "unwatched" => click'[i].arg \notin Range(watched')
      BY DEF ClickStars
    <2>3. Under(i) /\ click[i].arg \notin doubt
      BY <1>2, <2>2
    <2>4. \A j \in Clicks : Under(j)' /\ click'[j].arg = click'[i].arg => j = i
      BY <2>2, <2>3 DEF ClickStars
    <2>5. CASE i = k
      BY <1>2, <2>1, <2>3, <2>4, <2>5
    <2>6. CASE i # k
      BY <1>2, <2>1, <2>3, <2>4, <2>6 DEF ClickStars
    <2> QED BY <2>5, <2>6
  <1>3. CASE UNCHANGED vars
    BY <1>1, <1>3
  <1>4. CASE Choose
    <2>1. PICK t, q, b : Go(t, q, b)
      BY <1>4, Choosing
    <2> QED BY <1>1, <2>1 DEF Go
  <1>5. ASSUME NEW l \in loads, Serve(l) PROVE ClickStars'
    <2>1. UNCHANGED <<click, watched, doubt>>
      BY <1>5, Serving DEF Types
    <2> QED BY <1>1, <2>1
  <1>6. ASSUME NEW l \in loads, Apply(l) PROVE ClickStars'
    <2>1. doubt' = l.answer.dirty /\ click' = click
      BY <1>6 DEF Apply
    <2>2. \A k \in Clicks : Under(k) => click[k].arg \in l.answer.dirty
      BY <1>0 DEF LoadStars, Clicked, Under, ClickRecs
    <2> QED BY <2>1, <2>2 DEF ClickStars, Under
  <1>7. ASSUME NEW l \in loads, LoadFails(l) PROVE ClickStars'
    BY <1>1, <1>7 DEF LoadFails
  <1>8. ASSUME NEW e \in cache, Expire(e) PROVE ClickStars'
    BY <1>1, <1>8 DEF Expire
  <1>9. ASSUME NEW k \in Clicks, NEW a \in Args, ClickStar(k, a) PROVE ClickStars'
    <2> DEFINE c == [at |-> "sent", arg |-> a, tab |-> url.tab, found |-> FALSE]
    <2>1. /\ click' = [click EXCEPT ![k] = c] /\ ~Under(k) /\ watched' = watched
          /\ doubt' = IF Clicked(a) THEN doubt \cup {a} ELSE doubt
      BY <1>9 DEF ClickStar, Under
    <2>2. c.at = "sent" /\ c.arg = a
      OBVIOUS
    <2> HIDE DEF c
    <2>3. click'[k] = c /\ \A j \in Clicks : j # k => click'[j] = click[j]
      BY <2>1, OneClick
    <2> SUFFICES ASSUME NEW i \in Clicks, Under(i)', click'[i].arg \notin doubt'
                 PROVE  /\ \A j \in Clicks : Under(j)' /\ click'[j].arg = click'[i].arg => j = i
                        /\ click'[i].at = "checked" => (click'[i].found <=> click'[i].arg \in Range(watched'))
                        /\ click'[i].at = "changed" => (click'[i].found <=> click'[i].arg \notin Range(watched'))
                        /\ click'[i].at = "watched" => click'[i].arg \in Range(watched')
                        /\ click'[i].at = "unwatched" => click'[i].arg \notin Range(watched')
      BY DEF ClickStars
    <2>4. CASE i = k
      <3>1. ~Clicked(a)
        BY <2>1, <2>2, <2>3, <2>4
      <3>2. \A j \in Clicks : j # k => ~(Under(j) /\ click[j].arg = a)
        BY <3>1 DEF Clicked, Under
      <3>3. \A j \in Clicks : j # k /\ Under(j)' => click'[j].arg # a
        BY <2>3, <3>2 DEF Under
      <3> QED BY <2>2, <2>3, <2>4, <3>3
    <2>5. CASE i # k
      <3>1. click'[i] = click[i] /\ Under(i) /\ click[i].arg \notin doubt
        BY <2>1, <2>3, <2>5 DEF Under
      <3>2. click[i].arg # a
        <4>1. click[i].arg = a => Clicked(a)
          BY <3>1 DEF Clicked, Under
        <4> QED BY <2>1, <3>1, <4>1
      <3>3. \A j \in Clicks : Under(j)' /\ click'[j].arg = click'[i].arg => j = i
        BY <2>2, <2>3, <3>1, <3>2 DEF ClickStars, Under
      <3> QED BY <2>1, <3>1, <3>3 DEF ClickStars
    <2> QED BY <2>4, <2>5
  <1>10. ASSUME NEW k \in Clicks, Exists(k) PROVE ClickStars'
    <2> DEFINE b == click[k].arg \in Range(watched)
               c == [click[k] EXCEPT !.at = "checked", !.found = b]
    <2>1. Under(k) /\ click[k] \in ClickRecs
      BY <1>0, <1>10 DEF Exists, Under
    <2>2. c.arg = click[k].arg /\ c.at = "checked" /\ (c.found <=> b)
      BY <2>1 DEF ClickRecs
    <2>3. click' = [click EXCEPT ![k] = c] /\ UNCHANGED <<watched, doubt>>
      BY <1>10 DEF Exists, Types, ClickTypes
    <2>4. c.found <=> c.arg \in Range(watched)
      BY <2>2
    <2> HIDE DEF c, b
    <2> QED BY <1>2, <2>1, <2>2, <2>3, <2>4
  <1>11. ASSUME NEW k \in Clicks, Toggle(k) PROVE ClickStars'
    <2> DEFINE a == click[k].arg
    <2>1. /\ click[k].at = "checked" /\ click'[k].arg = a /\ click'[k].found = click[k].found
          /\ \A x : x # a => (x \in Range(watched') <=> x \in Range(watched))
          /\ \A j \in Clicks : j # k => click'[j] = click[j]
          /\ click[k].found => a \notin Range(watched') /\ click'[k].at = "changed"
          /\ ~click[k].found /\ a \in Range(watched) => click'[k].at = "refused"
          /\ ~click[k].found /\ a \notin Range(watched) => a \in Range(watched') /\ click'[k].at = "changed"
      BY <1>11, Toggling
    <2>2. doubt' = doubt /\ Under(k)
      BY <1>11 DEF Toggle, Under
    <2>3. \A j \in Clicks : Under(j)' => Under(j) /\ click'[j].arg = click[j].arg
      BY <2>1, <2>2 DEF Under
    <2> HIDE DEF a
    <2> SUFFICES ASSUME NEW i \in Clicks, Under(i)', click'[i].arg \notin doubt'
                 PROVE  /\ \A j \in Clicks : Under(j)' /\ click'[j].arg = click'[i].arg => j = i
                        /\ click'[i].at = "checked" => (click'[i].found <=> click'[i].arg \in Range(watched'))
                        /\ click'[i].at = "changed" => (click'[i].found <=> click'[i].arg \notin Range(watched'))
                        /\ click'[i].at = "watched" => click'[i].arg \in Range(watched')
                        /\ click'[i].at = "unwatched" => click'[i].arg \notin Range(watched')
      BY DEF ClickStars
    <2>4. Under(i) /\ click[i].arg = click'[i].arg /\ click[i].arg \notin doubt
      BY <2>2, <2>3
    <2>5. \A j \in Clicks : Under(j)' /\ click'[j].arg = click'[i].arg => j = i
      BY <2>3, <2>4 DEF ClickStars
    <2>6. CASE i = k
      <3>1. click'[k].at = "changed" => (click[k].found <=> a \notin Range(watched'))
        BY <2>1
      <3>2. click'[k].at \in {"changed", "refused"}
        BY <2>1
      <3> QED BY <2>1, <2>5, <2>6, <3>1, <3>2
    <2>7. CASE i # k
      <3>1. click[i].arg # a
        BY <2>2, <2>4, <2>7 DEF ClickStars, a
      <3>2. click[i].arg \in Range(watched') <=> click[i].arg \in Range(watched)
        BY <2>1, <3>1
      <3>3. click'[i] = click[i]
        BY <2>1, <2>7
      <3> QED BY <2>4, <2>5, <3>2, <3>3 DEF ClickStars
    <2> QED BY <2>6, <2>7
  <1>12. ASSUME NEW k \in Clicks, Clear(k) PROVE ClickStars'
    <2> DEFINE at == IF click[k].found THEN "unwatched" ELSE "watched"
               c == [click[k] EXCEPT !.at = at]
    <2>1. Under(k) /\ click[k] \in ClickRecs /\ click[k].at = "changed"
      BY <1>0, <1>12 DEF Clear, Under
    <2>2. c.arg = click[k].arg /\ c.at = at
      BY <2>1 DEF ClickRecs
    <2>3. click' = [click EXCEPT ![k] = c] /\ UNCHANGED <<watched, doubt>>
      BY <1>12 DEF Clear, Types, ClickTypes
    <2>4. click[k].arg \notin doubt => (click[k].found <=> click[k].arg \notin Range(watched))
      BY <2>1 DEF ClickStars
    <2>5. click[k].arg \notin doubt =>
                 /\ c.at = "checked" => (c.found <=> c.arg \in Range(watched))
                 /\ c.at = "changed" => (c.found <=> c.arg \notin Range(watched))
                 /\ c.at = "watched" => c.arg \in Range(watched)
                 /\ c.at = "unwatched" => c.arg \notin Range(watched)
      <3>1. CASE click[k].found
        BY <2>2, <2>4, <3>1
      <3>2. CASE ~click[k].found
        BY <2>2, <2>4, <3>2
      <3> QED BY <3>1, <3>2
    <2> HIDE DEF c, at
    <2> QED BY <1>2, <2>1, <2>2, <2>3, <2>5
  <1>13. ASSUME NEW k \in Clicks, Toggled(k) \/ ToggleFails(k) PROVE ClickStars'
    <2>1. click' = [click EXCEPT ![k] = Idle] /\ watched' = watched /\ doubt \subseteq doubt'
      BY <1>13 DEF Toggled, ToggleFails
    <2>2. click'[k] = Idle /\ \A j \in Clicks : j # k => click'[j] = click[j]
      BY <2>1, OneClick
    <2>3. ~Under(k)' /\ \A j \in Clicks : Under(j)' => Under(j) /\ click'[j] = click[j] /\ j # k
      BY <2>2 DEF Under, Idle
    <2> QED BY <2>1, <2>3 DEF ClickStars
  <1>14. ASSUME NEW a \in Args, Post(a) \/ Cleared(a) \/ Created(a) \/ Announced(a) PROVE ClickStars'
    BY <1>1, <1>14 DEF Post, Cleared, Created, Announced
  <1>15. CASE Render \/ ShowNew
    BY <1>1, <1>15 DEF Render, ShowNew
  <1> QED BY <1>3, <1>4, <1>5, <1>6, <1>7, <1>8, <1>9, <1>10, <1>11, <1>12, <1>13, <1>14, <1>15, StepOf

LEMMA CacheStarsNext ==
    ASSUME Types, CacheStars, LoadStars, [Next]_vars
    PROVE  CacheStars'
  <1> USE DEF vars, server
  <1>1. ASSUME cache' \subseteq cache, UNCHANGED watched, \A a : Changing(a)' => Changing(a),
               \A a : Changing(a) => Changing(a)'
        PROVE  CacheStars'
    BY <1>1 DEF CacheStars, Starred
  <1>2. ASSUME cache' \subseteq cache, UNCHANGED <<watched, click>> PROVE CacheStars'
    BY <1>1, <1>2 DEF Changing
  <1>3. ASSUME NEW k \in Clicks, NEW c, click' = [click EXCEPT ![k] = c], c.at # "changed",
               click[k].at # "changed", UNCHANGED <<cache, watched>>
        PROVE  CacheStars'
    <2>1. click'[k] = c /\ \A j \in Clicks : j # k => click'[j] = click[j]
      BY <1>3, OneClick
    <2>2. \A a : Changing(a)' <=> Changing(a)
      BY <1>3, <2>1 DEF Changing
    <2> QED BY <1>1, <1>3, <2>2
  <1>4. CASE UNCHANGED vars
    BY <1>2, <1>4
  <1>5. CASE Choose
    <2>1. PICK t, q, b : Go(t, q, b)
      BY <1>5, Choosing
    <2> QED BY <1>2, <2>1 DEF Go
  <1>6. ASSUME NEW l \in loads, Serve(l) PROVE CacheStars'
    <2>1. UNCHANGED <<watched, click>> /\ (UNCHANGED cache \/ Store(l))
      BY <1>6, Serving DEF Types
    <2>2. CASE UNCHANGED cache
      BY <1>2, <2>1, <2>2
    <2>3. CASE Store(l)
      <3> DEFINE e == Entry(l)
      <3>1. e.answer = l.answer /\ cache' = (cache \ Cached(l)) \cup {e}
        BY <2>3 DEF Store, Entry
      <3> HIDE DEF e
      <3>2. \A x \in e.answer.items : x.id \notin e.answer.dirty => Starred(x)
        BY <3>1 DEF LoadStars
      <3> QED BY <2>1, <3>1, <3>2 DEF CacheStars, Starred, Changing
    <2> QED BY <2>1, <2>2, <2>3
  <1>7. ASSUME NEW l \in loads, Apply(l) \/ LoadFails(l) PROVE CacheStars'
    BY <1>2, <1>7 DEF Apply, LoadFails
  <1>8. ASSUME NEW e \in cache, Expire(e) PROVE CacheStars'
    BY <1>2, <1>8 DEF Expire
  <1>9. ASSUME NEW k \in Clicks, NEW a \in Args, ClickStar(k, a) PROVE CacheStars'
    <2> DEFINE c == [at |-> "sent", arg |-> a, tab |-> url.tab, found |-> FALSE]
    <2>1. click' = [click EXCEPT ![k] = c] /\ click[k].at = "idle" /\ UNCHANGED <<cache, watched>>
      BY <1>9 DEF ClickStar
    <2>2. c.at = "sent"
      OBVIOUS
    <2> HIDE DEF c
    <2> QED BY <1>3, <2>1, <2>2
  <1>10. ASSUME NEW k \in Clicks, Exists(k) PROVE CacheStars'
    <2> DEFINE b == click[k].arg \in Range(watched)
               c == [click[k] EXCEPT !.at = "checked", !.found = b]
    <2>1. click[k] \in ClickRecs
      BY <1>10, ClickUnderWay DEF Exists, Types
    <2>2. c.at = "checked"
      BY <2>1 DEF ClickRecs
    <2>3. click' = [click EXCEPT ![k] = c] /\ click[k].at = "sent" /\ UNCHANGED <<cache, watched>>
      BY <1>10 DEF Exists, Types, ClickTypes
    <2> HIDE DEF c
    <2> QED BY <1>3, <2>2, <2>3
  <1>11. ASSUME NEW k \in Clicks, Toggle(k) PROVE CacheStars'
    <2> DEFINE a == click[k].arg
    <2>1. /\ click[k].at = "checked" /\ click'[k].arg = a
          /\ \A x : x # a => (x \in Range(watched') <=> x \in Range(watched))
          /\ \A j \in Clicks : j # k => click'[j] = click[j]
          /\ watched' = watched \/ click'[k].at = "changed"
      BY <1>11, Toggling
    <2>2. cache' = cache
      BY <1>11 DEF Toggle
    <2>3. \A x : Changing(x) => Changing(x)'
      BY <2>1 DEF Changing
    <2> HIDE DEF a
    <2> SUFFICES ASSUME NEW e \in cache, NEW x \in e.answer.items, x.id \notin e.answer.dirty, ~Changing(x.id)'
                 PROVE  x.star = (x.id \in Range(watched'))
      BY <2>2 DEF CacheStars, Starred
    <2>5. x.star = (x.id \in Range(watched))
      BY <2>3 DEF CacheStars, Starred
    <2>6. x.id \in Range(watched) <=> x.id \in Range(watched')
      <3>1. CASE x.id = a
        <4>1. watched' = watched
          BY <2>1, <3>1 DEF Changing
        <4> QED BY <4>1
      <3>2. CASE x.id # a
        BY <2>1, <3>2
      <3> QED BY <3>1, <3>2
    <2> QED BY <2>5, <2>6
  <1>12. ASSUME NEW k \in Clicks, Clear(k) PROVE CacheStars'
    <2> DEFINE a == click[k].arg
               Mark(e) == [e EXCEPT !.answer.dirty = @ \cup {a}]
               c == [click[k] EXCEPT !.at = IF click[k].found THEN "unwatched" ELSE "watched"]
    <2>1. PICK E \in SUBSET cache : cache' = {Mark(e) : e \in E}
      BY <1>12 DEF Clear
    <2>2. ASSUME NEW e \in Entries
          PROVE  /\ Mark(e).answer.items = e.answer.items
                 /\ Mark(e).answer.dirty = e.answer.dirty \cup {a}
      BY DEF Entries, Answers
    <2>3. click' = [click EXCEPT ![k] = c] /\ watched' = watched
      BY <1>12 DEF Clear, Types, ClickTypes
    <2>4. \A j \in Clicks : j # k => click'[j] = click[j]
      BY <2>3, OneClick
    <2>5. \A x : x # a /\ Changing(x) => Changing(x)'
      BY <2>4 DEF Changing
    <2> HIDE DEF Mark, a
    <2> SUFFICES ASSUME NEW f \in cache', NEW x \in f.answer.items, x.id \notin f.answer.dirty, ~Changing(x.id)'
                 PROVE  x.star = (x.id \in Range(watched'))
      BY DEF CacheStars, Starred
    <2>6. PICK e \in E : f = Mark(e)
      BY <2>1
    <2>7. e \in Entries /\ e \in cache
      BY DEF Types, CacheTypes
    <2>8. x \in e.answer.items /\ x.id \notin e.answer.dirty /\ x.id # a
      BY <2>2, <2>6, <2>7
    <2>9. x.star = (x.id \in Range(watched))
      BY <2>5, <2>7, <2>8 DEF CacheStars, Starred
    <2> QED BY <2>3, <2>9
  <1>13. ASSUME NEW k \in Clicks, Toggled(k) \/ ToggleFails(k) PROVE CacheStars'
    <2>1. click' = [click EXCEPT ![k] = Idle] /\ click[k].at # "changed" /\ UNCHANGED <<cache, watched>>
      BY <1>13 DEF Toggled, ToggleFails
    <2>2. Idle.at # "changed"
      BY DEF Idle
    <2> QED BY <1>3, <2>1, <2>2
  <1>14. ASSUME NEW a \in Args, Post(a) \/ Created(a) \/ Announced(a) PROVE CacheStars'
    BY <1>2, <1>14 DEF Post, Created, Announced
  <1>15. ASSUME NEW a \in Args, Cleared(a) PROVE CacheStars'
    BY <1>2, <1>15 DEF Cleared
  <1>16. CASE Render \/ ShowNew
    BY <1>2, <1>16 DEF Render, ShowNew
  <1> QED BY <1>4, <1>5, <1>6, <1>7, <1>8, <1>9, <1>10, <1>11, <1>12, <1>13, <1>14, <1>15, <1>16, StepOf

LEMMA LoadStarsNext ==
    ASSUME Types, CacheStars, LoadStars, [Next]_vars
    PROVE  LoadStars'
  <1> USE DEF vars, server
  <1>1. ASSUME loads' \subseteq loads, UNCHANGED watched, \A a : Clicked(a)' => Clicked(a) PROVE LoadStars'
    BY <1>1 DEF LoadStars, Starred
  <1>2. ASSUME loads' \subseteq loads, UNCHANGED <<watched, click>> PROVE LoadStars'
    BY <1>1, <1>2 DEF Clicked
  <1>3. ASSUME NEW k \in Clicks, NEW c, click' = [click EXCEPT ![k] = c], UNCHANGED <<loads, watched>>,
               c.at = "idle" \/ (click[k].at # "idle" /\ c.arg = click[k].arg)
        PROVE  LoadStars'
    <2>1. click'[k] = c /\ \A j \in Clicks : j # k => click'[j] = click[j]
      BY <1>3, OneClick
    <2>2. \A a : Clicked(a)' => Clicked(a)
      BY <1>3, <2>1 DEF Clicked
    <2> QED BY <1>1, <1>3, <2>2
  <1>4. CASE UNCHANGED vars
    BY <1>2, <1>4
  <1>5. CASE Choose
    <2>1. PICK t, q, b : Go(t, q, b)
      BY <1>5, Choosing
    <2>2. CASE [tab |-> t, page |-> q] = url
      BY <1>2, <2>1, <2>2 DEF Go
    <2>3. CASE [tab |-> t, page |-> q] # url
      <3> DEFINE D == {a \in Args : Clicked(a)}
                 new == Load(navs', t, q, D)
      <3>1. loads' = loads \cup {new} /\ UNCHANGED <<watched, click>>
        BY <2>1, <2>3 DEF Go
      <3>2. new.answer.items = {} /\ new.answer.dirty = D
        BY DEF Load, Answer
      <3>3. \A a \in Args : Clicked(a)' => a \in D
        BY <3>1 DEF Clicked
      <3> HIDE DEF new, D
      <3> QED BY <3>1, <3>2, <3>3 DEF LoadStars, Starred, Clicked
    <2> QED BY <2>2, <2>3
  <1>6. ASSUME NEW l \in loads, Serve(l) PROVE LoadStars'
    <2>1. PICK m \in Requests :
            loads' = (loads \ {l}) \cup {m} /\ m.tab = l.tab /\ m.page = l.page /\ Serves(l, m)
      BY <1>6, Serving DEF Types
    <2>2. UNCHANGED <<watched, click>>
      BY <1>6, Serving DEF Types
    <2>3. \A a \in Args : Clicked(a) => a \in l.answer.dirty
      BY DEF LoadStars
    <2>4. l.answer.dirty \subseteq m.answer.dirty
      BY <2>1 DEF Serves
    <2>5. \A x \in m.answer.items : x.id \notin m.answer.dirty => Starred(x)
      <3>1. ASSUME NEW e \in Cached(l), m.answer.items = e.answer.items,
                   m.answer.dirty = e.answer.dirty \cup l.answer.dirty
            PROVE  \A x \in m.answer.items : x.id \notin m.answer.dirty => Starred(x)
        <4> SUFFICES ASSUME NEW x \in m.answer.items, x.id \notin m.answer.dirty PROVE Starred(x)
          OBVIOUS
        <4>1. e \in cache /\ x.id \in Args
          BY DEF Cached, Requests, Answers, Listed
        <4>2. ~Clicked(x.id)
          BY <2>3, <3>1, <4>1
        <4>3. ~Changing(x.id)
          BY <4>2 DEF Clicked, Changing
        <4> QED BY <3>1, <4>1, <4>3 DEF CacheStars
      <3>2. ASSUME m.answer.items = {} PROVE \A x \in m.answer.items : x.id \notin m.answer.dirty => Starred(x)
        BY <3>2
      <3>3. ASSUME NEW P, m.answer.items = {[id |-> a, star |-> a \in Range(watched)] : a \in P}
            PROVE  \A x \in m.answer.items : x.id \notin m.answer.dirty => Starred(x)
        BY <3>3 DEF Starred
      <3>4. ASSUME m.answer = l.answer
            PROVE  \A x \in m.answer.items : x.id \notin m.answer.dirty => Starred(x)
        BY <3>4 DEF LoadStars
      <3> QED BY <2>1, <3>1, <3>2, <3>3, <3>4 DEF Serves
    <2> QED BY <2>1, <2>2, <2>3, <2>4, <2>5 DEF LoadStars, Starred, Clicked
  <1>7. ASSUME NEW l \in loads, Apply(l) \/ LoadFails(l) PROVE LoadStars'
    BY <1>2, <1>7 DEF Apply, LoadFails
  <1>8. ASSUME NEW e \in cache, Expire(e) PROVE LoadStars'
    BY <1>2, <1>8 DEF Expire
  <1>9. ASSUME NEW k \in Clicks, NEW a \in Args, ClickStar(k, a) PROVE LoadStars'
    <2> DEFINE Mark(l) == [l EXCEPT !.answer.dirty = @ \cup {a}]
               c == [at |-> "sent", arg |-> a, tab |-> url.tab, found |-> FALSE]
    <2>1. loads' = {Mark(l) : l \in loads} /\ click' = [click EXCEPT ![k] = c] /\ watched' = watched
      BY <1>9 DEF ClickStar
    <2>2. ASSUME NEW l \in Requests
          PROVE  /\ Mark(l).answer.items = l.answer.items
                 /\ Mark(l).answer.dirty = l.answer.dirty \cup {a}
      BY DEF Requests, Answers
    <2>3. c.arg = a
      OBVIOUS
    <2> HIDE DEF Mark, c
    <2>4. click'[k] = c /\ \A j \in Clicks : j # k => click'[j] = click[j]
      BY <2>1, OneClick
    <2>5. \A x : Clicked(x)' => Clicked(x) \/ x = a
      BY <2>3, <2>4 DEF Clicked
    <2>6. \A l \in loads : l \in Requests
      BY DEF Types, LoadTypes
    <2>7. ASSUME NEW m \in loads'
          PROVE  /\ \A x \in Args : Clicked(x)' => x \in m.answer.dirty
                 /\ \A x \in m.answer.items : x.id \notin m.answer.dirty => Starred(x)
      <3>1. PICK l \in loads : m = Mark(l)
        BY <2>1
      <3>2. m.answer.items = l.answer.items /\ m.answer.dirty = l.answer.dirty \cup {a}
        BY <2>2, <2>6, <3>1
      <3> QED BY <2>5, <3>2 DEF LoadStars
    <2> QED BY <2>1, <2>7 DEF LoadStars, Starred
  <1>10. ASSUME NEW k \in Clicks, Exists(k) PROVE LoadStars'
    <2> DEFINE b == click[k].arg \in Range(watched)
               c == [click[k] EXCEPT !.at = "checked", !.found = b]
    <2>1. click[k] \in ClickRecs
      BY <1>10, ClickUnderWay DEF Exists, Types
    <2>2. c.arg = click[k].arg
      BY <2>1 DEF ClickRecs
    <2>3. click' = [click EXCEPT ![k] = c] /\ click[k].at = "sent" /\ UNCHANGED <<loads, watched>>
      BY <1>10 DEF Exists, Types, ClickTypes
    <2> HIDE DEF c
    <2> QED BY <1>3, <2>2, <2>3
  <1>11. ASSUME NEW k \in Clicks, Toggle(k) PROVE LoadStars'
    <2> DEFINE a == click[k].arg
    <2>1. /\ click[k].at = "checked" /\ click'[k].arg = a /\ a \in Args
          /\ \A x : x # a => (x \in Range(watched') <=> x \in Range(watched))
          /\ \A j \in Clicks : j # k => click'[j] = click[j]
      BY <1>11, Toggling
    <2>2. loads' = loads
      BY <1>11 DEF Toggle
    <2>3. \A x : Clicked(x)' => Clicked(x)
      BY <2>1 DEF Clicked
    <2>4. Clicked(a)
      BY <2>1 DEF Clicked
    <2> HIDE DEF a
    <2>5. ASSUME NEW l \in loads, NEW x \in l.answer.items, x.id \notin l.answer.dirty
          PROVE  x.star = (x.id \in Range(watched'))
      <3>1. x.star = (x.id \in Range(watched)) /\ a \in l.answer.dirty
        BY <2>1, <2>4, <2>5 DEF LoadStars, Starred
      <3>2. x.id \in Range(watched) <=> x.id \in Range(watched')
        BY <2>1, <2>5, <3>1
      <3> QED BY <3>1, <3>2
    <2> QED BY <2>2, <2>3, <2>5 DEF LoadStars, Starred
  <1>12. ASSUME NEW k \in Clicks, Clear(k) PROVE LoadStars'
    <2> DEFINE c == [click[k] EXCEPT !.at = IF click[k].found THEN "unwatched" ELSE "watched"]
    <2>1. click[k] \in ClickRecs /\ click[k].at = "changed"
      BY <1>12, ClickUnderWay DEF Clear, Types
    <2>2. c.arg = click[k].arg
      BY <2>1 DEF ClickRecs
    <2>3. click' = [click EXCEPT ![k] = c] /\ UNCHANGED <<loads, watched>>
      BY <1>12 DEF Clear, Types, ClickTypes
    <2> HIDE DEF c
    <2> QED BY <1>3, <2>1, <2>2, <2>3
  <1>13. ASSUME NEW k \in Clicks, Toggled(k) \/ ToggleFails(k) PROVE LoadStars'
    <2>1. click' = [click EXCEPT ![k] = Idle] /\ UNCHANGED <<loads, watched>>
      BY <1>13 DEF Toggled, ToggleFails
    <2>2. Idle.at = "idle"
      BY DEF Idle
    <2> QED BY <1>3, <2>1, <2>2
  <1>14. ASSUME NEW a \in Args, Post(a) \/ Cleared(a) \/ Created(a) \/ Announced(a) PROVE LoadStars'
    BY <1>2, <1>14 DEF Post, Cleared, Created, Announced
  <1>15. CASE Render \/ ShowNew
    BY <1>2, <1>15 DEF Render, ShowNew
  <1> QED BY <1>4, <1>5, <1>6, <1>7, <1>8, <1>9, <1>10, <1>11, <1>12, <1>13, <1>14, <1>15, StepOf

LEMMA StarOnlyNext ==
    ASSUME Types, StarInv, [Next]_vars
    PROVE  StarOnlyIf'
  <1> USE DEF vars, server, shown
  <1>1. ASSUME list' \subseteq list, UNCHANGED watched, \A a : Clicked(a) => Clicked(a)',
               doubt \subseteq doubt'
        PROVE  StarOnlyIf'
    BY <1>1 DEF StarInv, StarOnlyIf
  <1>2. ASSUME list' \subseteq list, UNCHANGED <<watched, click>>, doubt \subseteq doubt' PROVE StarOnlyIf'
    BY <1>1, <1>2 DEF Clicked
  <1>3. CASE UNCHANGED vars
    BY <1>2, <1>3
  <1>4. CASE Choose
    <2>1. PICK t, q, b : Go(t, q, b)
      BY <1>4, Choosing
    <2> QED BY <1>2, <2>1 DEF Go
  <1>5. ASSUME NEW l \in loads, Serve(l) PROVE StarOnlyIf'
    <2>1. UNCHANGED <<list, watched, click, doubt>>
      BY <1>5, Serving DEF Types
    <2> QED BY <1>2, <2>1
  <1>6. ASSUME NEW l \in loads, Apply(l) PROVE StarOnlyIf'
    <2>1. list' = l.answer.items /\ doubt' = l.answer.dirty /\ UNCHANGED <<watched, click>>
      BY <1>6 DEF Apply
    <2> QED BY <2>1 DEF StarInv, LoadStars, Starred, StarOnlyIf
  <1>7. ASSUME NEW l \in loads, LoadFails(l) PROVE StarOnlyIf'
    BY <1>2, <1>7 DEF LoadFails
  <1>8. ASSUME NEW e \in cache, Expire(e) PROVE StarOnlyIf'
    BY <1>2, <1>8 DEF Expire
  <1>9. ASSUME NEW k \in Clicks, NEW c, click' = [click EXCEPT ![k] = c], c.at # "idle",
               click[k].at = "idle" \/ c.arg = click[k].arg,
               list' = list, watched' = watched, doubt \subseteq doubt'
        PROVE  StarOnlyIf'
    <2>1. click'[k] = c /\ \A j \in Clicks : j # k => click'[j] = click[j]
      BY <1>9, OneClick
    <2>2. \A a : Clicked(a) => Clicked(a)'
      BY <1>9, <2>1 DEF Clicked
    <2> QED BY <1>1, <1>9, <2>2
  <1>10. ASSUME NEW k \in Clicks, NEW a \in Args, ClickStar(k, a) PROVE StarOnlyIf'
    <2> DEFINE c == [at |-> "sent", arg |-> a, tab |-> url.tab, found |-> FALSE]
    <2>1. /\ click' = [click EXCEPT ![k] = c] /\ click[k].at = "idle"
          /\ UNCHANGED <<list, watched>> /\ doubt \subseteq doubt'
      BY <1>10 DEF ClickStar
    <2>2. c.at # "idle"
      OBVIOUS
    <2> HIDE DEF c
    <2> QED BY <1>9, <2>1, <2>2
  <1>11. ASSUME NEW k \in Clicks, Exists(k) PROVE StarOnlyIf'
    <2> DEFINE b == click[k].arg \in Range(watched)
               c == [click[k] EXCEPT !.at = "checked", !.found = b]
    <2>1. click[k] \in ClickRecs
      BY <1>11, ClickUnderWay DEF Exists, Types
    <2>2. c.arg = click[k].arg /\ c.at # "idle"
      BY <2>1 DEF ClickRecs
    <2>3. click' = [click EXCEPT ![k] = c] /\ UNCHANGED <<list, watched, doubt>>
      BY <1>11 DEF Exists, Types, ClickTypes
    <2> HIDE DEF c
    <2> QED BY <1>9, <2>2, <2>3
  <1>12. ASSUME NEW k \in Clicks, Toggle(k) PROVE StarOnlyIf'
    <2> DEFINE a == click[k].arg
    <2>1. /\ click[k].at = "checked" /\ click'[k].arg = a /\ click'[k].at # "idle"
          /\ \A x : x # a => (x \in Range(watched') <=> x \in Range(watched))
          /\ \A j \in Clicks : j # k => click'[j] = click[j]
      BY <1>12, Toggling
    <2>2. list' = list /\ doubt' = doubt
      BY <1>12 DEF Toggle
    <2>3. \A x : Clicked(x) => Clicked(x)'
      BY <2>1 DEF Clicked
    <2>4. Clicked(a)'
      BY <2>1 DEF Clicked
    <2> HIDE DEF a
    <2> SUFFICES ASSUME NEW x \in list, ~Clicked(x.id)', x.id \notin doubt
                 PROVE  x.star = (x.id \in Range(watched'))
      BY <2>2 DEF StarOnlyIf
    <2>5. x.star = (x.id \in Range(watched))
      BY <2>3 DEF StarInv, StarOnlyIf
    <2>6. x.id # a
      BY <2>1 DEF Clicked
    <2>7. x.id \in Range(watched) <=> x.id \in Range(watched')
      BY <2>1, <2>6
    <2> QED BY <2>5, <2>7
  <1>13. ASSUME NEW k \in Clicks, Clear(k) PROVE StarOnlyIf'
    <2> DEFINE c == [click[k] EXCEPT !.at = IF click[k].found THEN "unwatched" ELSE "watched"]
    <2>1. click[k] \in ClickRecs
      BY <1>13, ClickUnderWay DEF Clear, Types
    <2>2. c.arg = click[k].arg /\ c.at # "idle"
      BY <2>1 DEF ClickRecs
    <2>3. click' = [click EXCEPT ![k] = c] /\ UNCHANGED <<list, watched, doubt>>
      BY <1>13 DEF Clear, Types, ClickTypes
    <2> HIDE DEF c
    <2> QED BY <1>9, <2>2, <2>3
  <1>14. ASSUME NEW k \in Clicks, Toggled(k) PROVE StarOnlyIf'
    <2> DEFINE a == click[k].arg
               now == click[k].at = "watched"
    <2>1. /\ click[k].at \in {"watched", "unwatched"}
          /\ click' = [click EXCEPT ![k] = Idle] /\ UNCHANGED <<watched, doubt>>
          /\ \/ list' = {x \in list : x.id # a}
             \/ list' = {IF x.id = a THEN [x EXCEPT !.star = now] ELSE x : x \in list}
      BY <1>14 DEF Toggled
    <2>2. \A j \in Clicks : j # k => click'[j] = click[j]
      BY <2>1, OneClick
    <2>3. \A x : x # a /\ Clicked(x) => Clicked(x)'
      BY <2>2 DEF Clicked
    <2>4. a \notin doubt => (now <=> a \in Range(watched))
      BY <2>1 DEF StarInv, ClickStars, Under
    <2>5. now \in BOOLEAN
      OBVIOUS
    <2>6. list \subseteq Listed
      BY DEF Types, ListTypes
    <2> DEFINE Mark(x) == IF x.id = a THEN [x EXCEPT !.star = now] ELSE x
    <2>7. \/ list' = {x \in list : x.id # a}
          \/ list' = {Mark(x) : x \in list}
      BY <2>1
    <2>8. \A x \in Listed : /\ Mark(x).id = x.id
                            /\ x.id = a => Mark(x).star = now
                            /\ x.id # a => Mark(x) = x
      BY DEF Listed
    <2> HIDE DEF a, now, Mark
    <2>9. ASSUME NEW x \in list, x.id # a, ~Clicked(x.id)', x.id \notin doubt
          PROVE  x.star = (x.id \in Range(watched))
      BY <2>3, <2>9 DEF StarInv, StarOnlyIf
    <2> SUFFICES ASSUME NEW y \in list', ~Clicked(y.id)', y.id \notin doubt
                 PROVE  y.star = (y.id \in Range(watched))
      BY <2>1 DEF StarOnlyIf
    <2>10. CASE list' = {x \in list : x.id # a}
      BY <2>9, <2>10
    <2>11. CASE list' = {Mark(x) : x \in list}
      <3>1. PICK x \in list : y = Mark(x)
        BY <2>11
      <3>2. /\ Mark(x).id = x.id
            /\ x.id = a => Mark(x).star = now
            /\ x.id # a => Mark(x) = x
        BY <2>6, <2>8
      <3> HIDE DEF Mark
      <3>3. CASE x.id = a
        <4>1. y.id = a /\ y.star = now
          BY <3>1, <3>2, <3>3
        <4>2. a \notin doubt
          BY <4>1
        <4> QED BY <2>4, <2>5, <4>1, <4>2
      <3>4. CASE x.id # a
        <4>1. y = x
          BY <3>1, <3>2, <3>4
        <4> QED BY <2>9, <3>4, <4>1
      <3> QED BY <3>3, <3>4
    <2> QED BY <2>7, <2>10, <2>11
  <1>15. ASSUME NEW k \in Clicks, ToggleFails(k) PROVE StarOnlyIf'
    <2> DEFINE a == click[k].arg
    <2>1. /\ click' = [click EXCEPT ![k] = Idle] /\ UNCHANGED <<list, watched>> /\ doubt' = doubt \cup {a}
      BY <1>15 DEF ToggleFails
    <2>2. \A j \in Clicks : j # k => click'[j] = click[j]
      BY <2>1, OneClick
    <2>3. \A x : x # a /\ Clicked(x) => Clicked(x)'
      BY <2>2 DEF Clicked
    <2> HIDE DEF a
    <2> QED BY <2>1, <2>3 DEF StarInv, StarOnlyIf
  <1>16. ASSUME NEW a \in Args, Post(a) \/ Cleared(a) \/ Announced(a) PROVE StarOnlyIf'
    BY <1>2, <1>16 DEF Post, Cleared, Announced
  <1>17. ASSUME NEW S \in SUBSET Args, list' = AddToList(S), UNCHANGED <<watched, click>>,
                doubt' = doubt \cup Unseen(S)
         PROVE  StarOnlyIf'
    <2>1. \A x \in AddToList(S) : x \in list \/ (x.id \in S \ Ids(list) /\ x.star = FALSE)
      BY AddToListIs DEF Types, ListTypes
    <2>2. \A a : Clicked(a) => Clicked(a)'
      BY <1>17 DEF Clicked
    <2> SUFFICES ASSUME NEW x \in AddToList(S), ~Clicked(x.id)', x.id \notin doubt \cup Unseen(S)
                 PROVE  x.star = (x.id \in Range(watched))
      BY <1>17 DEF StarOnlyIf
    <2>3. CASE x \in list
      BY <2>2, <2>3 DEF StarInv, StarOnlyIf
    <2>4. CASE x.id \in S \ Ids(list) /\ x.star = FALSE
      <3>1. (x.id \in Range(watched)) = FALSE
        BY <2>4 DEF Unseen
      <3> QED BY <2>4, <3>1
    <2> QED BY <2>1, <2>3, <2>4
  <1>18. ASSUME NEW a \in Args, Created(a) PROVE StarOnlyIf'
    <2>1. list' = AddToList({a}) /\ doubt' = doubt \cup Unseen({a}) /\ UNCHANGED <<watched, click>>
      BY <1>18 DEF Created
    <2> QED BY <1>17, <2>1
  <1>19. CASE Render
    BY <1>2, <1>19 DEF Render
  <1>20. CASE ShowNew
    <2>1. rendered \subseteq Args
      BY Members DEF Types, NewsTypes, ServerTypes
    <2>2. list' = AddToList(rendered) /\ doubt' = doubt \cup Unseen(rendered) /\ UNCHANGED <<watched, click>>
      BY <1>20 DEF ShowNew
    <2> QED BY <1>17, <2>1, <2>2
  <1> QED BY <1>3, <1>4, <1>5, <1>6, <1>7, <1>8, <1>10, <1>11, <1>12, <1>13, <1>14, <1>15, <1>16,
             <1>18, <1>19, <1>20, StepOf

LEMMA StarInit == Init => StarInv
  <1> SUFFICES ASSUME Init PROVE StarInv
    OBVIOUS
  <1>1. \A k \in Clicks : click[k].at = "idle"
    BY DEF Init, Idle
  <1>2. cache = {} /\ list = {} /\ loads = {Load(0, "recent", 1, {})}
    BY DEF Init
  <1>3. ASSUME NEW l \in loads PROVE l.answer.items = {}
    BY <1>2 DEF Load, Answer
  <1>4. LoadStars
    BY <1>1, <1>3 DEF LoadStars, Clicked
  <1>5. CacheStars /\ ClickStars /\ StarOnlyIf
    BY <1>1, <1>2 DEF CacheStars, ClickStars, Under, StarOnlyIf
  <1> QED BY <1>4, <1>5 DEF StarInv

\* With no click on it under way a star is what the server has, unless one of
\* the reasons in doubt holds (page.tsx:152-180, HandleCreateWatchlist): every
\* answer and every cached page is right about the stars it is not marked for.
THEOREM StarsAreRight == Spec => []StarOnlyIf
  <1>1. Types /\ StarInv /\ [Next]_vars => StarInv'
    BY CacheStarsNext, LoadStarsNext, ClickStarsNext, StarOnlyNext DEF StarInv
  <1>2. StarInv => StarOnlyIf
    BY DEF StarInv
  <1> QED BY StarInit, TypesAlways, <1>1, <1>2, PTL DEF Spec

-----------------------------------------------------------------------------
(* The empty page *)

\* An answer has rows if its page starts before the end of those counted for
\* it, unless the watchlist got shorter in between.
Filled(t, q, x) == (q - 1) * Limit < x.seen => x.items # {} \/ (t = "watchlist" /\ shrunk)
\* The rows counted are still there.
Known(t, x) == x.seen <= Total(t) \/ (t = "watchlist" /\ shrunk)
\* The pages answered are those of the rows counted, or of a failed count.
Numbering(x) == x.pages \in {PagesFor(0), PagesFor(x.seen)}

CacheFull == \A e \in cache : Numbering(e.answer) /\ Filled(e.tab, e.page, e.answer)
LoadFull ==
    \A l \in loads : l.at # "sent" =>
      /\ Numbering(l.answer)
      /\ l.at = "counted" => Known(l.tab, l.answer)
      /\ l.at # "counted" => Filled(l.tab, l.page, l.answer)
Unwatches ==
    \A k \in Clicks : (click[k].at = "changed" /\ click[k].found) \/ click[k].at = "unwatched" => shrunk
Buttons ==
    /\ maxPage # Unknown => maxPage \in {PagesFor(0), PagesFor(source.seen)}
    /\ basis # None => (url.page - 1) * Limit < basis
ListFull ==
    Newest \/ late \/ /\ source \in Sources
                      /\ (source.page - 1) * Limit < source.seen =>
                           list # {} \/ (source.tab = "watchlist" /\ shrunk) \/ struck

\* Nothing under way, cached or shown brings an empty list before the end.
EmptyInv == CacheFull /\ LoadFull /\ Unwatches /\ Buttons /\ ListFull

\* Only the watchlist gets shorter, and that is remembered.
LEMMA TotalsNext ==
    ASSUME Types, [Next]_vars
    PROVE  /\ shrunk => shrunk'
           /\ Len(posted) <= Len(posted')
           /\ Len(watched) <= Len(watched') \/ shrunk'
  <1> USE DEF vars, server, past
  <1>0. posted \in Seq(Args) /\ Len(posted) \in Nat /\ Len(watched) \in Nat
    BY LenProperties DEF Types, ServerTypes
  <1> DEFINE Goal == /\ shrunk => shrunk'
                     /\ Len(posted) <= Len(posted')
                     /\ Len(watched) <= Len(watched') \/ shrunk'
  <1>1. ASSUME UNCHANGED <<posted, watched, shrunk>> PROVE Goal
    BY <1>0, <1>1
  <1>2. CASE UNCHANGED vars
    BY <1>1, <1>2
  <1>3. CASE Choose
    <2>1. PICK t, q, b : Go(t, q, b)
      BY <1>3, Choosing
    <2> QED BY <1>1, <2>1 DEF Go
  <1>4. ASSUME NEW l \in loads, Serve(l) PROVE Goal
    <2>1. UNCHANGED <<posted, watched, shrunk>>
      BY <1>4, Serving DEF Types
    <2> QED BY <1>1, <2>1
  <1>5. ASSUME NEW l \in loads, Apply(l) \/ LoadFails(l) PROVE Goal
    BY <1>1, <1>5 DEF Apply, LoadFails
  <1>6. ASSUME NEW e \in cache, Expire(e) PROVE Goal
    BY <1>1, <1>6 DEF Expire
  <1>7. ASSUME NEW k \in Clicks, NEW a, ClickStar(k, a) \/ Exists(k) \/ Clear(k) \/ Toggled(k) \/ ToggleFails(k)
        PROVE  Goal
    BY <1>1, <1>7 DEF ClickStar, Exists, Clear, Toggled, ToggleFails
  <1>8. ASSUME NEW k \in Clicks, Toggle(k) PROVE Goal
    <2>1. /\ shrunk => shrunk'
          /\ click[k].found => shrunk'
          /\ ~click[k].found => Len(watched) <= Len(watched')
      BY <1>8, Toggling
    <2>2. posted' = posted
      BY <1>8 DEF Toggle
    <2> QED BY <1>0, <2>1, <2>2
  <1>9. ASSUME NEW a \in Args, Post(a) PROVE Goal
    <2>1. posted' = Append(posted, a) /\ UNCHANGED <<watched, shrunk>>
      BY <1>9 DEF Post
    <2>2. Len(posted') = Len(posted) + 1
      BY <1>0, <2>1, RangeOfAppend
    <2> QED BY <1>0, <2>1, <2>2
  <1>10. ASSUME NEW a \in Args, Cleared(a) \/ Created(a) \/ Announced(a) PROVE Goal
    BY <1>1, <1>10 DEF Cleared, Created, Announced
  <1>11. CASE Render \/ ShowNew
    BY <1>1, <1>11 DEF Render, ShowNew
  <1> QED BY <1>2, <1>3, <1>4, <1>5, <1>6, <1>7, <1>8, <1>9, <1>10, <1>11, StepOf

\* What an answer promises survives every step, and a mark for a star.
LEMMA FilledStays ==
    ASSUME Types, [Next]_vars, NEW t, NEW q, NEW x, NEW y,
           y.items = x.items, y.seen = x.seen, Filled(t, q, x)
    PROVE  Filled(t, q, y)'
  BY TotalsNext DEF Filled

LEMMA KnownStays ==
    ASSUME Types, [Next]_vars, NEW t, NEW x, NEW y,
           x.seen \in Nat, y.seen = x.seen, Known(t, x)
    PROVE  Known(t, y)'
  <1>1. Len(posted) \in Nat /\ Len(watched) \in Nat
    BY LenProperties DEF Types, ServerTypes
  <1>2. Len(posted') \in Nat /\ Len(watched') \in Nat
    BY ServerTypesNext, LenProperties DEF ServerTypes
  <1> QED BY <1>1, <1>2, TotalsNext DEF Known, Total

LEMMA CacheFullNext ==
    ASSUME Types, CacheFull, LoadFull, [Next]_vars
    PROVE  CacheFull'
  <1> USE DEF vars, server
  <1>1. ASSUME NEW f \in cache',
               \E x : /\ Numbering(x) /\ Filled(f.tab, f.page, x)
                      /\ f.answer.pages = x.pages /\ f.answer.items = x.items /\ f.answer.seen = x.seen
        PROVE  (Numbering(f.answer) /\ Filled(f.tab, f.page, f.answer))'
    <2>1. PICK x : /\ Numbering(x) /\ Filled(f.tab, f.page, x)
                   /\ f.answer.pages = x.pages /\ f.answer.items = x.items /\ f.answer.seen = x.seen
      BY <1>1
    <2>2. Filled(f.tab, f.page, f.answer)'
      BY <2>1, FilledStays
    <2>3. Numbering(f.answer)
      BY <2>1 DEF Numbering
    <2> QED BY <2>2, <2>3
  <1>2. ASSUME cache' \subseteq cache PROVE CacheFull'
    BY <1>1, <1>2 DEF CacheFull
  <1>3. CASE UNCHANGED vars
    BY <1>2, <1>3
  <1>4. CASE Choose
    <2>1. PICK t, q, b : Go(t, q, b)
      BY <1>4, Choosing
    <2> QED BY <1>2, <2>1 DEF Go
  <1>5. ASSUME NEW l \in loads, Serve(l) PROVE CacheFull'
    <2>1. CASE UNCHANGED cache
      BY <1>2, <2>1
    <2>2. CASE Store(l)
      <3> DEFINE e == Entry(l)
      <3>1. e.tab = l.tab /\ e.page = l.page /\ e.answer = l.answer
        BY DEF Entry
      <3>2. cache' = (cache \ Cached(l)) \cup {e} /\ l.at = "read"
        BY <2>2 DEF Store
      <3> HIDE DEF e
      <3>3. Numbering(l.answer) /\ Filled(l.tab, l.page, l.answer)
        BY <3>2 DEF LoadFull
      <3> SUFFICES ASSUME NEW f \in cache' PROVE (Numbering(f.answer) /\ Filled(f.tab, f.page, f.answer))'
        BY DEF CacheFull
      <3>4. CASE f = e
        BY <1>1, <3>1, <3>3, <3>4
      <3>5. CASE f \in cache
        BY <1>1, <3>5 DEF CacheFull
      <3> QED BY <3>2, <3>4, <3>5
    <2>3. UNCHANGED cache \/ Store(l)
      BY <1>5, Serving DEF Types
    <2> QED BY <2>1, <2>2, <2>3
  <1>6. ASSUME NEW l \in loads, Apply(l) \/ LoadFails(l) PROVE CacheFull'
    BY <1>2, <1>6 DEF Apply, LoadFails
  <1>7. ASSUME NEW e \in cache, Expire(e) PROVE CacheFull'
    BY <1>2, <1>7 DEF Expire
  <1>8. ASSUME NEW k \in Clicks, NEW a, ClickStar(k, a) \/ Exists(k) \/ Toggle(k) \/ Toggled(k) \/ ToggleFails(k)
        PROVE  CacheFull'
    BY <1>2, <1>8 DEF ClickStar, Exists, Toggle, Toggled, ToggleFails
  <1>9. ASSUME NEW k \in Clicks, Clear(k) PROVE CacheFull'
    <2> DEFINE a == click[k].arg
               Mark(e) == [e EXCEPT !.answer.dirty = @ \cup {a}]
    <2>1. PICK E \in SUBSET cache : cache' = {Mark(e) : e \in E}
      BY <1>9 DEF Clear
    <2>2. ASSUME NEW e \in Entries
          PROVE  /\ Mark(e).tab = e.tab /\ Mark(e).page = e.page
                 /\ Mark(e).answer.items = e.answer.items /\ Mark(e).answer.seen = e.answer.seen
                 /\ Mark(e).answer.pages = e.answer.pages
      BY DEF Entries, Answers
    <2> HIDE DEF Mark, a
    <2> SUFFICES ASSUME NEW f \in cache' PROVE (Numbering(f.answer) /\ Filled(f.tab, f.page, f.answer))'
      BY DEF CacheFull
    <2>3. PICK e \in E : f = Mark(e)
      BY <2>1
    <2>4. e \in cache /\ e \in Entries
      BY DEF Types, CacheTypes
    <2>5. Numbering(e.answer) /\ Filled(e.tab, e.page, e.answer)
      BY <2>4 DEF CacheFull
    <2>6. /\ f.tab = e.tab /\ f.page = e.page /\ f.answer.items = e.answer.items
          /\ f.answer.seen = e.answer.seen /\ f.answer.pages = e.answer.pages
      BY <2>2, <2>3, <2>4
    <2> QED BY <1>1, <2>5, <2>6
  <1>10. ASSUME NEW a \in Args, Post(a) \/ Cleared(a) \/ Created(a) \/ Announced(a) PROVE CacheFull'
    BY <1>2, <1>10 DEF Post, Cleared, Created, Announced
  <1>11. CASE Render \/ ShowNew
    BY <1>2, <1>11 DEF Render, ShowNew
  <1> QED BY <1>3, <1>4, <1>5, <1>6, <1>7, <1>8, <1>9, <1>10, <1>11, StepOf

LEMMA LoadFullNext ==
    ASSUME Types, CacheFull, LoadFull, [Next]_vars
    PROVE  LoadFull'
  <1> USE DEF vars
  <1> DEFINE Full(l) == l.at # "sent" =>
               /\ Numbering(l.answer)
               /\ l.at = "counted" => Known(l.tab, l.answer)
               /\ l.at # "counted" => Filled(l.tab, l.page, l.answer)
  <1>0. \A l \in loads : l \in Requests /\ l.answer.seen \in Nat
    BY DEF Types, LoadTypes, Requests, Answers
  <1>1. ASSUME NEW l \in loads, NEW m \in loads', m.at = l.at, m.tab = l.tab, m.page = l.page,
               m.answer.pages = l.answer.pages, m.answer.items = l.answer.items,
               m.answer.seen = l.answer.seen
        PROVE  Full(m)'
    <2> SUFFICES ASSUME m.at # "sent"
                 PROVE  /\ Numbering(m.answer)
                        /\ m.at = "counted" => Known(m.tab, m.answer)'
                        /\ m.at # "counted" => Filled(m.tab, m.page, m.answer)'
      OBVIOUS
    <2>1. Numbering(m.answer)
      BY <1>1 DEF LoadFull, Numbering
    <2>2. ASSUME m.at = "counted" PROVE Known(m.tab, m.answer)'
      <3>1. Known(l.tab, l.answer)
        BY <1>1, <2>2 DEF LoadFull
      <3> QED BY <1>0, <1>1, <3>1, KnownStays
    <2>3. ASSUME m.at # "counted" PROVE Filled(m.tab, m.page, m.answer)'
      <3>1. Filled(l.tab, l.page, l.answer)
        BY <1>1, <2>3 DEF LoadFull
      <3> QED BY <1>1, <3>1, FilledStays
    <2> QED BY <2>1, <2>2, <2>3
  <1>2. ASSUME \A m \in loads' : Full(m)' PROVE LoadFull'
    BY <1>2 DEF LoadFull
  <1> HIDE DEF Full
  <1>3. ASSUME loads' \subseteq loads PROVE LoadFull'
    BY <1>1, <1>2, <1>3
  <1>4. CASE UNCHANGED vars
    BY <1>3, <1>4
  <1>5. CASE Choose
    <2>1. PICK t, q, b : Go(t, q, b)
      BY <1>5, Choosing
    <2>2. CASE [tab |-> t, page |-> q] = url
      BY <1>3, <2>1, <2>2 DEF Go
    <2>3. CASE [tab |-> t, page |-> q] # url
      <3> DEFINE new == Load(navs', t, q, {a \in Args : Clicked(a)})
      <3>1. loads' = loads \cup {new}
        BY <2>1, <2>3 DEF Go
      <3>2. new.at = "sent"
        BY DEF Load
      <3> HIDE DEF new
      <3>3. ASSUME NEW m \in loads' PROVE Full(m)'
        <4>1. CASE m = new
          BY <3>2, <4>1 DEF Full
        <4>2. CASE m \in loads
          BY <1>1, <4>2
        <4> QED BY <3>1, <4>1, <4>2
      <3> QED BY <1>2, <3>3
    <2> QED BY <2>2, <2>3
  <1>6. ASSUME NEW l \in loads, Serve(l) PROVE LoadFull'
    <2>1. PICK m \in Requests :
            loads' = (loads \ {l}) \cup {m} /\ m.tab = l.tab /\ m.page = l.page /\ Serves(l, m)
      BY <1>6, Serving DEF Types
    <2>2. UNCHANGED <<posted, watched, shrunk>>
      BY <1>6, Serving DEF Types, past
    <2>3. ASSUME NEW e \in Cached(l), m.at = "served", m.answer.items = e.answer.items,
                 m.answer.pages = e.answer.pages, m.answer.seen = e.answer.seen
          PROVE  Full(m)'
      <3>1. e \in cache /\ e.tab = m.tab /\ e.page = m.page
        BY <2>1 DEF Cached
      <3>2. Numbering(e.answer) /\ Filled(m.tab, m.page, e.answer)
        BY <3>1 DEF CacheFull
      <3>3. Numbering(m.answer)
        BY <2>3, <3>2 DEF Numbering
      <3>4. Filled(m.tab, m.page, m.answer)'
        BY <2>3, <3>2, FilledStays
      <3> QED BY <2>3, <3>3, <3>4 DEF Full
    <2>4. ASSUME m.at = "counted", m.answer.seen = Total(l.tab),
                 m.answer.pages \in {PagesFor(0), PagesFor(Total(l.tab))}
          PROVE  Full(m)'
      <3>1. Numbering(m.answer)
        BY <2>4 DEF Numbering
      <3>2. m.answer.seen \in Nat
        BY DEF Requests, Answers
      <3>3. Known(m.tab, m.answer)
        BY <2>1, <2>4, <3>2 DEF Known
      <3>4. Known(m.tab, m.answer)'
        BY <3>2, <3>3, KnownStays
      <3> QED BY <2>4, <3>1, <3>4 DEF Full
    <2>5. ASSUME l.at = "counted", m.at = "read", NEW rows \in Orders(l.tab),
                 m.answer.items = {[id |-> a, star |-> a \in Range(watched)] : a \in PageOf(rows, l.page)},
                 m.answer.pages = l.answer.pages, m.answer.seen = l.answer.seen
          PROVE  Full(m)'
      <3>1. Numbering(l.answer) /\ Known(l.tab, l.answer)
        BY <2>5 DEF LoadFull
      <3>2. l.tab \in Tabs /\ l.page \in Pages /\ l.answer.seen \in Nat
        BY <1>0 DEF Requests
      <3>3. rows \in Seq(Args) /\ Len(rows) = Total(l.tab)
        BY <2>5, <3>2, OrderOf DEF Types, ServerTypes
      <3>4. (l.page - 1) * Limit < Len(rows) => m.answer.items # {}
        BY <2>5, <3>2, <3>3, PageHas
      <3>5. Len(rows) \in Nat /\ (l.page - 1) * Limit \in Int
        <4>1. Limit \in Int /\ l.page - 1 \in Int
          BY <3>2, FeedAssumption DEF Pages
        <4> QED BY <3>3, <4>1, LenProperties
      <3>6. Filled(m.tab, m.page, m.answer)
        BY <2>1, <2>5, <3>1, <3>2, <3>3, <3>4, <3>5 DEF Filled, Known
      <3>7. Filled(m.tab, m.page, m.answer)'
        BY <3>6, FilledStays
      <3>8. Numbering(m.answer)
        BY <2>5, <3>1 DEF Numbering
      <3> QED BY <2>5, <3>7, <3>8 DEF Full
    <2>6. ASSUME l.at = "read", m.at = "served", m.answer = l.answer PROVE Full(m)'
      <3>1. Numbering(l.answer) /\ Filled(l.tab, l.page, l.answer)
        BY <2>6 DEF LoadFull
      <3>2. Filled(m.tab, m.page, m.answer)'
        BY <2>1, <2>6, <3>1, FilledStays
      <3> QED BY <2>6, <3>1, <3>2 DEF Full
    <2>7. Full(m)'
      BY <2>1, <2>3, <2>4, <2>5, <2>6 DEF Serves
    <2>8. ASSUME NEW k \in loads' PROVE Full(k)'
      <3>1. CASE k = m
        BY <2>7, <3>1
      <3>2. CASE k \in loads
        BY <1>1, <3>2
      <3> QED BY <2>1, <3>1, <3>2
    <2> QED BY <1>2, <2>8
  <1>7. ASSUME NEW l \in loads, Apply(l) \/ LoadFails(l) PROVE LoadFull'
    BY <1>3, <1>7 DEF Apply, LoadFails
  <1>8. ASSUME NEW e \in cache, Expire(e) PROVE LoadFull'
    BY <1>3, <1>8 DEF Expire
  <1>9. ASSUME NEW k \in Clicks, NEW a \in Args, ClickStar(k, a) PROVE LoadFull'
    <2> DEFINE Mark(l) == [l EXCEPT !.answer.dirty = @ \cup {a}]
    <2>1. loads' = {Mark(l) : l \in loads}
      BY <1>9 DEF ClickStar
    <2>2. ASSUME NEW l \in Requests
          PROVE  /\ Mark(l).at = l.at /\ Mark(l).tab = l.tab /\ Mark(l).page = l.page
                 /\ Mark(l).answer.items = l.answer.items /\ Mark(l).answer.seen = l.answer.seen
                 /\ Mark(l).answer.pages = l.answer.pages
      BY DEF Requests, Answers
    <2> HIDE DEF Mark
    <2>3. ASSUME NEW m \in loads' PROVE Full(m)'
      <3>1. PICK l \in loads : m = Mark(l)
        BY <2>1
      <3>2. l \in Requests
        BY <1>0
      <3> QED BY <1>1, <2>2, <3>1, <3>2
    <2> QED BY <1>2, <2>3
  <1>10. ASSUME NEW k \in Clicks, Exists(k) \/ Toggle(k) \/ Clear(k) \/ Toggled(k) \/ ToggleFails(k)
         PROVE  LoadFull'
    BY <1>3, <1>10 DEF Exists, Toggle, Clear, Toggled, ToggleFails
  <1>11. ASSUME NEW a \in Args, Post(a) \/ Cleared(a) \/ Created(a) \/ Announced(a) PROVE LoadFull'
    BY <1>3, <1>11 DEF Post, Cleared, Created, Announced
  <1>12. CASE Render \/ ShowNew
    BY <1>3, <1>12 DEF Render, ShowNew
  <1> QED BY <1>4, <1>5, <1>6, <1>7, <1>8, <1>9, <1>10, <1>11, <1>12, StepOf

\* A click that takes an argument off the watchlist has made it shorter.
LEMMA UnwatchesNext ==
    ASSUME Types, Unwatches, [Next]_vars
    PROVE  Unwatches'
  <1> USE DEF vars
  <1> DEFINE Takes(c) == (c.at = "changed" /\ c.found) \/ c.at = "unwatched"
  <1>0. shrunk => shrunk'
    BY TotalsNext
  <1>1. ASSUME UNCHANGED click PROVE Unwatches'
    BY <1>0, <1>1 DEF Unwatches
  <1>2. ASSUME NEW k \in Clicks, NEW c, click' = [click EXCEPT ![k] = c],
               Takes(c) => shrunk' \/ Takes(click[k])
        PROVE  Unwatches'
    <2>1. click'[k] = c /\ \A j \in Clicks : j # k => click'[j] = click[j]
      BY <1>2, OneClick
    <2>2. \A j \in Clicks : Takes(click[j]) => shrunk'
      BY <1>0 DEF Unwatches
    <2>3. ASSUME NEW j \in Clicks, Takes(click'[j]) PROVE shrunk'
      BY <1>2, <2>1, <2>2, <2>3
    <2> QED BY <2>3 DEF Unwatches
  <1>3. CASE UNCHANGED vars
    BY <1>1, <1>3
  <1>4. CASE Choose
    <2>1. PICK t, q, b : Go(t, q, b)
      BY <1>4, Choosing
    <2> QED BY <1>1, <2>1 DEF Go
  <1>5. ASSUME NEW l \in loads, Serve(l) PROVE Unwatches'
    <2>1. UNCHANGED click
      BY <1>5, Serving DEF Types
    <2> QED BY <1>1, <2>1
  <1>6. ASSUME NEW l \in loads, Apply(l) \/ LoadFails(l) PROVE Unwatches'
    BY <1>1, <1>6 DEF Apply, LoadFails
  <1>7. ASSUME NEW e \in cache, Expire(e) PROVE Unwatches'
    BY <1>1, <1>7 DEF Expire
  <1>8. ASSUME NEW k \in Clicks, NEW a \in Args, ClickStar(k, a) PROVE Unwatches'
    <2> DEFINE c == [at |-> "sent", arg |-> a, tab |-> url.tab, found |-> FALSE]
    <2>1. click' = [click EXCEPT ![k] = c] /\ ~Takes(c)
      BY <1>8 DEF ClickStar
    <2> HIDE DEF c, Takes
    <2> QED BY <1>2, <2>1
  <1>9. ASSUME NEW k \in Clicks, Exists(k) PROVE Unwatches'
    <2> DEFINE b == click[k].arg \in Range(watched)
               c == [click[k] EXCEPT !.at = "checked", !.found = b]
    <2>1. click[k] \in ClickRecs
      BY <1>9, ClickUnderWay DEF Exists, Types
    <2>2. ~Takes(c)
      BY <2>1 DEF ClickRecs
    <2>3. click' = [click EXCEPT ![k] = c]
      BY <1>9 DEF Exists, Types, ClickTypes
    <2> HIDE DEF c, Takes
    <2> QED BY <1>2, <2>2, <2>3
  <1>10. ASSUME NEW k \in Clicks, Toggle(k) PROVE Unwatches'
    <2>1. /\ \A j \in Clicks : j # k => click'[j] = click[j]
          /\ click'[k].found = click[k].found /\ (click[k].found => shrunk')
          /\ click'[k].at \in {"changed", "refused"}
      BY <1>10, Toggling
    <2> QED BY <1>0, <2>1 DEF Unwatches
  <1>11. ASSUME NEW k \in Clicks, Clear(k) PROVE Unwatches'
    <2> DEFINE c == [click[k] EXCEPT !.at = IF click[k].found THEN "unwatched" ELSE "watched"]
    <2>1. click[k] \in ClickRecs /\ click[k].at = "changed"
      BY <1>11, ClickUnderWay DEF Clear, Types
    <2>2. Takes(c) => Takes(click[k])
      BY <2>1 DEF ClickRecs
    <2>3. click' = [click EXCEPT ![k] = c]
      BY <1>11 DEF Clear, Types, ClickTypes
    <2> HIDE DEF c, Takes
    <2> QED BY <1>2, <2>2, <2>3
  <1>12. ASSUME NEW k \in Clicks, Toggled(k) \/ ToggleFails(k) PROVE Unwatches'
    <2>1. click' = [click EXCEPT ![k] = Idle]
      BY <1>12 DEF Toggled, ToggleFails
    <2>2. ~Takes(Idle)
      BY DEF Idle
    <2> HIDE DEF Takes
    <2> QED BY <1>2, <2>1, <2>2
  <1>13. ASSUME NEW a \in Args, Post(a) \/ Cleared(a) \/ Created(a) \/ Announced(a) PROVE Unwatches'
    BY <1>1, <1>13 DEF Post, Cleared, Created, Announced
  <1>14. CASE Render \/ ShowNew
    BY <1>1, <1>14 DEF Render, ShowNew
  <1> QED BY <1>3, <1>4, <1>5, <1>6, <1>7, <1>8, <1>9, <1>10, <1>11, <1>12, <1>13, <1>14, StepOf

\* The page that a button asked for had rows when its answer was counted.
LEMMA ButtonsNext ==
    ASSUME Types, Buttons, LoadFull, [Next]_vars
    PROVE  Buttons'
  <1> USE DEF vars, past, shown
  <1>1. ASSUME UNCHANGED <<maxPage, source, basis, url>> PROVE Buttons'
    BY <1>1 DEF Buttons
  <1>2. CASE UNCHANGED vars
    BY <1>1, <1>2
  <1>3. CASE Choose
    <2>1. PICK t, q, b : Asks(t, q, b) /\ Go(t, q, b)
      BY <1>3, Choosing
    <2>2. CASE [tab |-> t, page |-> q] = url
      BY <1>1, <2>1, <2>2 DEF Go
    <2>3. CASE [tab |-> t, page |-> q] # url
      <3>1. maxPage' = Unknown /\ basis' = b /\ url'.page = q
        BY <2>1, <2>3 DEF Go
      <3>2. ASSUME b # None PROVE (q - 1) * Limit < b
        <4>1. /\ q \in Pages /\ q <= maxPage /\ b = source.seen /\ b \in Nat
              /\ maxPage \in {PagesFor(0), PagesFor(source.seen)}
          BY <2>1, <3>2 DEF Asks, Buttons
        <4>2. q <= PagesFor(b) => (q - 1) * Limit < b
          BY <4>1, PagesOf
        <4>3. q <= PagesFor(0) => (q - 1) * Limit < 0
          BY <4>1, PagesOf
        <4>4. (q - 1) * Limit \in Int
          <5>1. Limit \in Int /\ q - 1 \in Int
            BY <4>1, FeedAssumption DEF Pages
          <5> QED BY <5>1
        <4> QED BY <4>1, <4>2, <4>3, <4>4
      <3> QED BY <3>1, <3>2 DEF Buttons
    <2> QED BY <2>2, <2>3
  <1>4. ASSUME NEW l \in loads, Serve(l) PROVE Buttons'
    <2>1. UNCHANGED <<maxPage, source, basis, url>>
      BY <1>4, Serving DEF Types
    <2> QED BY <1>1, <2>1
  <1>5. ASSUME NEW l \in loads, Apply(l) PROVE Buttons'
    <2>1. maxPage' = l.answer.pages /\ source'.seen = l.answer.seen /\ UNCHANGED <<basis, url>> /\ l.at = "served"
      BY <1>5 DEF Apply
    <2>2. l.answer.pages \in {PagesFor(0), PagesFor(l.answer.seen)}
      BY <2>1 DEF LoadFull, Numbering
    <2> QED BY <2>1, <2>2 DEF Buttons
  <1>6. ASSUME NEW l \in loads, LoadFails(l) PROVE Buttons'
    BY <1>1, <1>6 DEF LoadFails
  <1>7. ASSUME NEW e \in cache, Expire(e) PROVE Buttons'
    BY <1>1, <1>7 DEF Expire
  <1>8. ASSUME NEW k \in Clicks, NEW a, \/ ClickStar(k, a) \/ Exists(k) \/ Toggle(k) \/ Clear(k)
                                       \/ Toggled(k) \/ ToggleFails(k)
        PROVE  Buttons'
    BY <1>1, <1>8 DEF ClickStar, Exists, Toggle, Clear, Toggled, ToggleFails
  <1>9. ASSUME NEW a \in Args, Post(a) \/ Cleared(a) \/ Created(a) \/ Announced(a) PROVE Buttons'
    BY <1>1, <1>9 DEF Post, Cleared, Created, Announced
  <1>10. CASE Render \/ ShowNew
    BY <1>1, <1>10 DEF Render, ShowNew
  <1> QED BY <1>2, <1>3, <1>4, <1>5, <1>6, <1>7, <1>8, <1>9, <1>10, StepOf

\* The list shown has lost its last argument only to a click on a star.
LEMMA ListFullNext ==
    ASSUME Types, LoadInv, EmptyInv, [Next]_vars
    PROVE  ListFull'
  <1> USE DEF vars, past, shown
  <1>0. shrunk => shrunk'
    BY TotalsNext
  <1>1. ASSUME Newest => Newest', late => late' \/ Newest', UNCHANGED source,
               list # {} => list' # {}, struck => struck'
        PROVE  ListFull'
    BY <1>0, <1>1 DEF EmptyInv, ListFull
  <1>2. ASSUME UNCHANGED <<loads, navs, late, source, struck>>, list # {} => list' # {} PROVE ListFull'
    BY <1>1, <1>2 DEF Newest
  <1>3. CASE UNCHANGED vars
    BY <1>2, <1>3
  <1>4. CASE Choose
    <2>1. PICK t, q, b : Go(t, q, b)
      BY <1>4, Choosing
    <2>2. CASE [tab |-> t, page |-> q] = url
      BY <1>2, <2>1, <2>2 DEF Go
    <2>3. CASE [tab |-> t, page |-> q] # url
      <3> DEFINE new == Load(navs', t, q, {a \in Args : Clicked(a)})
      <3>1. loads' = loads \cup {new}
        BY <2>1, <2>3 DEF Go
      <3>2. new.n = navs'
        BY DEF Load
      <3> HIDE DEF new
      <3>3. Newest'
        BY <3>1, <3>2 DEF Newest
      <3> QED BY <3>3 DEF ListFull
    <2> QED BY <2>2, <2>3
  <1>5. ASSUME NEW l \in loads, Serve(l) PROVE ListFull'
    <2>1. PICK m \in Requests : loads' = (loads \ {l}) \cup {m} /\ m.n = l.n
      BY <1>5, Serving DEF Types
    <2>2. UNCHANGED <<navs, late, source, struck, list>>
      BY <1>5, Serving DEF Types
    <2>3. Newest => Newest'
      BY <2>1, <2>2 DEF Newest
    <2> QED BY <1>1, <2>2, <2>3
  <1>6. ASSUME NEW l \in loads, Apply(l) PROVE ListFull'
    <2>1. /\ loads' = loads \ {l} /\ navs' = navs /\ l.at = "served"
          /\ list' = l.answer.items /\ shrunk' = shrunk
          /\ source' = [tab |-> l.tab, page |-> l.page, seen |-> l.answer.seen]
          /\ late' = (l.n # navs /\ (late \/ ~Newest))
      BY <1>6 DEF Apply, Newest
    <2>2. CASE l.n = navs
      <3>1. Filled(l.tab, l.page, l.answer)
        BY <2>1 DEF EmptyInv, LoadFull
      <3>2. source' \in Sources /\ source'.tab = l.tab /\ source'.page = l.page /\ source'.seen = l.answer.seen
        BY <2>1 DEF Types, LoadTypes, Requests, Answers, Sources
      <3> QED BY <2>1, <3>1, <3>2 DEF Filled, ListFull
    <2>3. CASE l.n # navs
      <3>1. Newest => Newest'
        BY <2>1, <2>3 DEF Newest
      <3>2. late' \/ Newest'
        BY <2>1, <2>3, <3>1
      <3> QED BY <3>2 DEF ListFull
    <2> QED BY <2>2, <2>3
  <1>7. ASSUME NEW l \in loads, LoadFails(l) PROVE ListFull'
    <2>1. /\ loads' = loads \ {l} /\ late' = (late \/ l.n = navs)
          /\ UNCHANGED <<navs, source, struck, list>>
      BY <1>7 DEF LoadFails
    <2>2. CASE l.n = navs
      BY <2>1, <2>2 DEF ListFull
    <2>3. CASE l.n # navs
      <3>1. Newest => Newest'
        BY <2>1, <2>3 DEF Newest
      <3>2. late => late'
        BY <2>1
      <3> QED BY <1>1, <2>1, <3>1, <3>2
    <2> QED BY <2>2, <2>3
  <1>8. ASSUME NEW e \in cache, Expire(e) PROVE ListFull'
    BY <1>2, <1>8 DEF Expire
  <1>9. ASSUME NEW k \in Clicks, NEW a \in Args, ClickStar(k, a) PROVE ListFull'
    <2> DEFINE Mark(l) == [l EXCEPT !.answer.dirty = @ \cup {a}]
    <2>1. loads' = {Mark(l) : l \in loads} /\ UNCHANGED <<navs, late, source, struck, list>>
      BY <1>9 DEF ClickStar
    <2>2. \A l \in loads : Mark(l).n = l.n
      OBVIOUS
    <2> HIDE DEF Mark
    <2>3. Newest => Newest'
      BY <2>1, <2>2 DEF Newest
    <2> QED BY <1>1, <2>1, <2>3
  <1>10. ASSUME NEW k \in Clicks, Exists(k) \/ Toggle(k) \/ Clear(k) \/ ToggleFails(k) PROVE ListFull'
    BY <1>2, <1>10 DEF Exists, Toggle, Clear, ToggleFails
  <1>11. ASSUME NEW k \in Clicks, Toggled(k) PROVE ListFull'
    <2> DEFINE a == click[k].arg
               now == click[k].at = "watched"
    <2>1. /\ click[k].at \in {"watched", "unwatched"}
          /\ list' = IF click[k].tab = "watchlist" /\ ~now
                       THEN {x \in list : x.id # a}
                       ELSE {IF x.id = a THEN [x EXCEPT !.star = now] ELSE x : x \in list}
          /\ struck' = (struck \/ (url.tab # "watchlist" /\ a \in Ids(list) \ Ids(list')))
          /\ UNCHANGED <<loads, navs, late, source, shrunk>>
      BY <1>11 DEF Toggled
    <2>2. CASE list = {} \/ list' # {}
      <3>1. struck => struck'
        BY <2>1
      <3>2. Newest => Newest'
        BY <2>1 DEF Newest
      <3> QED BY <1>1, <2>1, <2>2, <3>1, <3>2
    <2>3. CASE list # {} /\ list' = {}
      <3>1. list' = {x \in list : x.id # a} /\ ~now
        <4> SUFFICES ASSUME list' = {IF x.id = a THEN [x EXCEPT !.star = now] ELSE x : x \in list}
                     PROVE  FALSE
          BY <2>1
        <4>1. PICK x \in list : TRUE
          BY <2>3
        <4>2. (IF x.id = a THEN [x EXCEPT !.star = now] ELSE x) \in list'
          OBVIOUS
        <4> QED BY <2>3, <4>2
      <3>2. shrunk
        BY <2>1, <3>1 DEF EmptyInv, Unwatches
      <3>3. a \in Ids(list) \ Ids(list')
        BY <2>3, <3>1 DEF Ids
      <3> HIDE DEF a, now
      <3>4. CASE url.tab # "watchlist"
        BY <2>1, <3>3, <3>4 DEF EmptyInv, ListFull, Newest
      <3>5. CASE url.tab = "watchlist"
        <4> SUFFICES ASSUME ~Newest', ~late'
                     PROVE  source' \in Sources /\ source'.tab = "watchlist" /\ shrunk'
          BY DEF ListFull
        <4>1. ~Newest /\ ~late
          BY <2>1 DEF Newest
        <4>2. source \in Sources /\ source.tab = url.tab
          BY <4>1 DEF EmptyInv, ListFull, LoadInv, OfUrl
        <4> QED BY <2>1, <3>2, <3>5, <4>2
      <3> QED BY <3>4, <3>5
    <2> QED BY <2>2, <2>3
  <1>12. ASSUME NEW a \in Args, Post(a) \/ Cleared(a) \/ Announced(a) PROVE ListFull'
    BY <1>2, <1>12 DEF Post, Cleared, Announced
  <1>13. ASSUME NEW a \in Args, Created(a) PROVE ListFull'
    BY <1>2, <1>13 DEF Created, AddToList
  <1>14. CASE Render
    BY <1>2, <1>14 DEF Render
  <1>15. CASE ShowNew
    BY <1>2, <1>15 DEF ShowNew, AddToList
  <1> QED BY <1>3, <1>4, <1>5, <1>6, <1>7, <1>8, <1>9, <1>10, <1>11, <1>12, <1>13, <1>14, <1>15, StepOf

LEMMA EmptyInit == Init => EmptyInv
  <1> SUFFICES ASSUME Init PROVE EmptyInv
    OBVIOUS
  <1>1. /\ loads = {Load(0, "recent", 1, {})} /\ navs = 0 /\ cache = {}
        /\ basis = None /\ maxPage = Unknown
        /\ \A k \in Clicks : click[k].at = "idle"
    BY DEF Init, Idle
  <1>2. Load(0, "recent", 1, {}).at = "sent" /\ Load(0, "recent", 1, {}).n = 0
    BY DEF Load
  <1>3. CacheFull /\ LoadFull
    BY <1>1, <1>2 DEF CacheFull, LoadFull
  <1>4. Unwatches /\ Buttons
    BY <1>1 DEF Unwatches, Buttons
  <1>5. ListFull
    BY <1>1, <1>2 DEF ListFull, Newest
  <1> QED BY <1>3, <1>4, <1>5 DEF EmptyInv

\* When nothing is under way the buttons have led to an empty list only for
\* one of the reasons that StrandedOnlyIf lists (page.tsx:75-150, 527-560):
\* a button that knows how many pages there are asks for one that has rows,
\* and the answer for it, counted when there were no fewer, is not empty.
THEOREM StrandedIsExplained == Spec => []StrandedOnlyIf
  <1>1. Types /\ LoadInv /\ EmptyInv /\ [Next]_vars => EmptyInv'
    BY CacheFullNext, LoadFullNext, UnwatchesNext, ButtonsNext, ListFullNext DEF EmptyInv
  <1>2. Types /\ LoadInv /\ EmptyInv => StrandedOnlyIf
    <2> SUFFICES ASSUME Types, LoadInv, EmptyInv, loads = {}, ~late, list = {},
                        basis # None, ~(source.seen < basis)
                 PROVE  (url.tab = "watchlist" /\ shrunk) \/ struck
      BY DEF StrandedOnlyIf
    <2>1. ~Newest
      BY DEF Newest
    <2>2. source.tab = url.tab /\ source.page = url.page
      BY <2>1 DEF LoadInv, OfUrl
    <2>3. /\ source \in Sources
          /\ (source.page - 1) * Limit < source.seen => (source.tab = "watchlist" /\ shrunk) \/ struck
      BY <2>1 DEF EmptyInv, ListFull
    <2>4. (url.page - 1) * Limit < basis
      BY DEF EmptyInv, Buttons
    <2>5. source.seen \in Nat /\ basis \in Nat /\ (url.page - 1) * Limit \in Int
      <3>1. source.seen \in Nat /\ basis \in Nat
        BY <2>3 DEF Sources, Types, PageTypes
      <3>2. Limit \in Int /\ url.page - 1 \in Int
        BY FeedAssumption DEF Types, PageTypes, Pages
      <3> QED BY <3>1, <3>2
    <2>6. (source.page - 1) * Limit < source.seen
      BY <2>2, <2>4, <2>5
    <2> QED BY <2>2, <2>3, <2>6
  <1> QED BY EmptyInit, LoadInit, LoadNext, TypesAlways, <1>1, <1>2, PTL DEF Spec

=============================================================================
