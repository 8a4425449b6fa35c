------------------------------ MODULE Replica ------------------------------
(***************************************************************************)
(* What a browser's copy of a discussion promises.  `saved` is the         *)
(* server's table in the order of insertion, `copy` the comments a browser *)
(* holds, or Nothing.  A copy takes one saved comment at a time, below a   *)
(* comment it has, or is replaced by a state the table was in, or by a     *)
(* copy the page has kept (`kept`).                                        *)
(***************************************************************************)
EXTENDS Naturals, Sequences

CONSTANTS Comments, Parent, NoParent, Nothing

VARIABLES saved, copy, kept

Rows(n) == {saved[i] : i \in 1..n}

Save(c) == saved' = Append(saved, c) /\ UNCHANGED copy

Take(c) ==
  /\ copy # Nothing
  /\ c \in Rows(Len(saved)) \ copy
  /\ Parent[c] \in copy \cup {NoParent}
  /\ copy' = copy \cup {c}
  /\ UNCHANGED saved

Replace ==
  /\ copy' \in {Rows(n) : n \in 0..Len(saved)} \cup kept \cup {Nothing}
  /\ UNCHANGED saved

Init == saved = << >> /\ copy = Nothing

Next == Replace \/ \E c \in Comments : Save(c) \/ Take(c)

Spec == Init /\ [][Next]_<<saved, copy>>
=============================================================================
