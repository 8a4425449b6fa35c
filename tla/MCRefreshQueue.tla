--------------------------- MODULE MCRefreshQueue ---------------------------
(* Three requests of one tab, one of them a logout, and two accounts.        *)
EXTENDS RefreshQueue
CONSTANTS r1, r2, out, a, b
=============================================================================
