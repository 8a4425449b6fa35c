--------------------------- MODULE MCFireReaction ---------------------------
(***************************************************************************)
(* Three users in one argument: u1 opened it and commented, so that a      *)
(* creator is a competitor as well.                                        *)
(***************************************************************************)
EXTENDS FireReaction

CONSTANTS u1, u2, u3, a1, c1, c2, c3, t1, t2

MCAuthor == c1 :> u2 @@ c2 :> u1 @@ c3 :> u3
MCArgOf == c1 :> a1 @@ c2 :> a1 @@ c3 :> a1
MCCreator == a1 :> u1
=============================================================================
