----------------------------- MODULE MCSession -----------------------------
(***************************************************************************)
(* Three browsers of one account: two can share it, and the third can log  *)
(* in while they come and go.                                              *)
(***************************************************************************)
EXTENDS Session
CONSTANTS b1, b2, b3
=============================================================================
