------------------------------ MODULE Scoring ------------------------------
(***************************************************************************)
(* The arithmetic of internal/arguments/scoring.go.  The Go code works in  *)
(* float64: math.Round(float64(score) * rate), with rate 0.02 or 0.05.     *)
(* math.Round rounds halves away from zero, and for every score a column   *)
(* of type INTEGER holds the float product rounds to the same integer as   *)
(* the exact fraction, so the penalties are written with integer division. *)
(***************************************************************************)
EXTENDS Integers

Reward == 50      \* logic_score + 50 for the author of the winning comment

\* The nearest integer to percent * s / 100, halves rounded up (s >= 0).
RoundPercent(percent, s) == (percent * s + 50) \div 100

AtLeastOne(n) == IF n < 1 THEN 1 ELSE n

\* -2% for the argument's creator, at least one point, nothing from zero.
CalculateCreatorPenalty(s) ==
    IF s <= 0 THEN 0 ELSE AtLeastOne(RoundPercent(2, s))

\* -5% for every other commenter of the argument.
CalculateCompetitorPenalty(s) ==
    IF s <= 0 THEN 0 ELSE AtLeastOne(RoundPercent(5, s))

\* newScore := max(0, score - penalty), guarded by score > 0.
Deduct(s, penalty) == IF penalty > s THEN 0 ELSE s - penalty

\* fires / total >= 0.40 and total > 0.
ReachesThreshold(fires, total) == total > 0 /\ 5 * fires >= 2 * total
=============================================================================
