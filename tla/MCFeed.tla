------------------------------- MODULE MCFeed -------------------------------
(***************************************************************************)
(* Constants for Feed: a behaviour takes one of these bounds.              *)
(***************************************************************************)
EXTENDS Feed

CONSTANTS a1, a2, k1, k2

Bound(t, n, c, p, a) == [tabs |-> t, navs |-> n, clicks |-> c, posts |-> p, news |-> a]

ThereAndBack == Bound({"recent", "watchlist"}, 2, 1, 1, 0)
TwoWatched == Bound({"watchlist"}, 2, 1, 2, 1)
LeftWatchlist == Bound({"recent", "watchlist"}, 3, 1, 2, 0)

MCBounds ==
  {Bound({"recent"}, 3, 0, 2, 1), Bound({"recent"}, 1, 0, 2, 2),
   Bound({"recent", "top"}, 2, 0, 1, 0), Bound({"recent", "top"}, 1, 0, 2, 0),
   Bound({"recent", "watchlist"}, 1, 2, 1, 0), Bound({"recent", "watchlist"}, 1, 1, 1, 1),
   ThereAndBack, TwoWatched, LeftWatchlist}

(* A click while the tab changes and changes back is checked with at most  *)
(* two requests at a time.  A watchlist of two pages takes two arguments   *)
(* and many steps: it is checked with one request at a time, away from     *)
(* clicks, at most one cached page, and nothing failing.  A star clicked   *)
(* there and answered on the second page of another tab takes as many: it  *)
(* is checked with the first argument watched, one slot for clicks, one    *)
(* request at a time, at most one cached page and no request failing.      *)
Calm ==
  /\ bound = ThereAndBack => Cardinality(loads) <= 2
  /\ bound = TwoWatched =>
       /\ Cardinality(loads) <= 1 /\ \A l \in loads : l.answer.dirty = {}
       /\ Cardinality(cache) <= 1
       /\ doubt = {} /\ ~late /\ rendered = {}
  /\ bound = LeftWatchlist =>
       /\ Cardinality(loads) <= 1 /\ Cardinality(cache) <= 1 /\ ~late /\ url.page <= 2
       /\ posted \in {<< >>, <<a1>>, <<a1, a2>>} /\ Range(watched) \subseteq {a1}
       /\ click[k2] = Idle
=============================================================================
