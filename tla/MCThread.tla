------------------------------ MODULE MCThread ------------------------------
(* Constants for Thread: c2 replies to c1, c1 is a comment on the argument *)
EXTENDS Thread

CONSTANTS c1, c2

MCParent == [c \in Comments |-> IF c = c2 THEN c1 ELSE NoParent]
=============================================================================
