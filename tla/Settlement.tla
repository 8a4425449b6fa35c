----------------------------- MODULE Settlement -----------------------------
(***************************************************************************)
(* What a reaction promises, with each request one atomic step: it toggles *)
(* the user's fire, and it may settle a consensus, which moves the points  *)
(* of everyone in the argument at once, off the balances of that moment.   *)
(*                                                                         *)
(* Spec leaves open whether a fire settles and which competitors it saw:   *)
(* that is what overlapping transactions guarantee.  StrictSpec is the     *)
(* full rule, which one request at a time obeys.                           *)
(***************************************************************************)
EXTENDS Scoring, FiniteSets

CONSTANTS Users, Arguments, Comments, Author, ArgOf, Creator,
          InitialComments, InitialScore

VARIABLES score, posted, triggered, reactions
vars == <<score, posted, triggered, reactions>>

Competitors(c) ==
    {Author[d] : d \in {x \in posted : ArgOf[x] = ArgOf[c]} \ {c}} \ {Author[c]}

\* What a settlement leaves of a balance s.  The creator's penalty comes first:
\* a creator who is also a competitor is hit twice, the second time off what
\* the first has left.
Settled(s, isCreator, isCompetitor, isWinner) ==
    LET afterCreator == IF isCreator
                        THEN Deduct(s, CalculateCreatorPenalty(s)) ELSE s
        afterBoth == IF isCompetitor
                     THEN Deduct(afterCreator, CalculateCompetitorPenalty(afterCreator))
                     ELSE afterCreator
    IN  IF isWinner THEN afterBoth + Reward ELSE afterBoth

Settle(c, hit) ==
    /\ triggered' = [triggered EXCEPT ![c] = TRUE]
    /\ score' = [x \in Users |-> Settled(score[x], x = Creator[ArgOf[c]],
                                         x \in hit, x = Author[c])]

Quiet == UNCHANGED <<score, triggered>>

Init ==
    /\ score = [u \in Users |-> InitialScore]
    /\ posted = InitialComments
    /\ triggered = [c \in Comments |-> FALSE]
    /\ reactions = {}

Post(c) ==
    /\ c \notin posted
    /\ posted' = posted \union {c}
    /\ UNCHANGED <<score, triggered, reactions>>

Unfire(u, c) ==
    /\ reactions' = reactions \ {<<c, u>>}
    /\ Quiet
    /\ UNCHANGED posted

Fire(u, c) ==
    /\ c \in posted
    /\ u # Author[c]
    /\ <<c, u>> \notin reactions
    /\ reactions' = reactions \union {<<c, u>>}
    /\ UNCHANGED posted

-----------------------------------------------------------------------------
\* A fire that may settle, hitting competitors it has seen.
LooseFire(u, c) ==
    /\ Fire(u, c)
    /\ Quiet \/ \E hit \in SUBSET Competitors(c) : Settle(c, hit)

Next ==
    \/ \E c \in Comments : Post(c)
    \/ \E u \in Users, c \in Comments : Unfire(u, c) \/ LooseFire(u, c)

Spec == Init /\ [][Next]_vars

\* A fire settles exactly if it takes an untriggered comment to the threshold,
\* and then hits every competitor.
AtThreshold(c, rows) ==
    ReachesThreshold(Cardinality({r \in rows : r[1] = c}),
                     Cardinality({d \in posted : ArgOf[d] = ArgOf[c]}))

StrictFire(u, c) ==
    /\ Fire(u, c)
    /\ IF ~triggered[c] /\ AtThreshold(c, reactions')
       THEN Settle(c, Competitors(c)) ELSE Quiet

StrictNext ==
    \/ \E c \in Comments : Post(c)
    \/ \E u \in Users, c \in Comments : Unfire(u, c) \/ StrictFire(u, c)

StrictSpec == Init /\ [][StrictNext]_vars
=============================================================================
