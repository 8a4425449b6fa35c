----------------------------- MODULE MCDbPool -----------------------------
(***************************************************************************)
(* Three connections; three list requests and another one: the pool can    *)
(* starve, and it can also come within one connection of it and recover.   *)
(***************************************************************************)
EXTENDS DbPool
CONSTANTS l1, l2, l3, s1, c1, c2, c3
=============================================================================
