--------------------------- MODULE SessionProofs ---------------------------
(***************************************************************************)
(* For any number of browsers and any LockTTL: an account is shared for    *)
(* SharedOnlyIf's reasons only.  SharedOnlyIf is not inductive: that a     *)
(* login which nobody raced finds no rightful holder inside rests on what  *)
(* an absent key says (Absent), and on that still being so between EXISTS  *)
(* and SET (Unraced).  BeatingKeepsOthersOut rests on the same two facts   *)
(* about the time that has passed (Remains, Expired).                      *)
(***************************************************************************)
EXTENDS Session, TLAPS

Excused == returned \union lapsed

\* Without a key, whoever is in came back by a refresh or let it expire.
Absent == lock = 0 => In \subseteq Excused

\* So it is while a login that nobody has raced is between EXISTS and SET.
Unraced == Checked \subseteq raced \/ In \subseteq Excused

IInv == TypeOK /\ Absent /\ Unraced /\ SharedOnlyIf

LEMMA TypeInit == Init => TypeOK
BY SessionAssumption DEF Init, TypeOK, In

LEMMA TypeStep == TypeOK /\ [Next]_vars => TypeOK'
<1> SUFFICES ASSUME TypeOK, [Next]_vars PROVE TypeOK'
  OBVIOUS
<1> USE SessionAssumption DEF TypeOK
<1>1. ASSUME NEW b \in Browsers, LoginCheck(b) PROVE TypeOK'
  BY <1>1 DEF LoginCheck, In
<1>2. ASSUME NEW b \in Browsers, LoginSet(b) PROVE TypeOK'
  BY <1>2 DEF LoginSet, SetLock, In, Checked
<1>3. ASSUME NEW b \in Browsers, LoginFails(b) PROVE TypeOK'
  BY <1>3 DEF LoginFails, In
<1>4. ASSUME NEW b \in Browsers, SendBeat(b) \/ BeatFails(b) PROVE TypeOK'
  BY <1>4 DEF SendBeat, BeatFails, In
<1>5. ASSUME NEW b \in Browsers, Beat(b) PROVE TypeOK'
  BY <1>5 DEF Beat, SetLock, In, Checked
<1>6. ASSUME NEW b \in Browsers, NEW to \in {"out", "away"}, Exit(b, to) PROVE TypeOK'
  BY <1>6 DEF Exit, In
<1>7. ASSUME NEW b \in Browsers, Return(b) PROVE TypeOK'
  BY <1>7 DEF Return, In
<1>8. ASSUME Tick PROVE TypeOK'
  BY <1>8 DEF Tick, In
<1>9. ASSUME UNCHANGED vars PROVE TypeOK'
  BY <1>9 DEF vars, In
<1> QED
  BY <1>1, <1>2, <1>3, <1>4, <1>5, <1>6, <1>7, <1>8, <1>9
  DEF Next, Step, Logout, Leave, Forget

\* Every variable keeps its type, and only browsers that are in have lapsed or
\* returned.
THEOREM SessionTypeCorrect == Spec => []TypeOK
<1> QED BY TypeInit, TypeStep, PTL DEF Spec

-----------------------------------------------------------------------------
\* A step that lets nobody in and takes nobody's excuse.
LEMMA NobodyEnters ==
    ASSUME IInv, TypeOK',
           In' \subseteq In, In' \intersect Excused \subseteq Excused',
           In' \intersect raced \subseteq raced',
           Checked' \subseteq Checked, Checked' \intersect raced \subseteq raced',
           lock' = 0 => lock = 0
    PROVE  IInv'
BY DEF IInv, Absent, Unraced, SharedOnlyIf, Excused

LEMMA SharedInit == Init => IInv
BY TypeInit DEF Init, IInv, Absent, Unraced, SharedOnlyIf, In, Checked

LEMMA SharedStep == IInv /\ [Next]_vars => IInv'
<1> SUFFICES ASSUME IInv, [Next]_vars PROVE IInv'
  OBVIOUS
<1>0. TypeOK /\ TypeOK'
  BY TypeStep DEF IInv
<1>1. ASSUME NEW b \in Browsers, LoginCheck(b) PROVE IInv'
  <2>1. lock' = 0 /\ In' = In /\ Excused' = Excused
    BY <1>0, <1>1 DEF LoginCheck, In, Excused, TypeOK
  <2>2. In \subseteq Excused
    BY <1>1 DEF LoginCheck, IInv, Absent
  <2> QED BY <1>0, <2>1, <2>2 DEF IInv, Absent, Unraced, SharedOnlyIf, Excused
<1>2. ASSUME NEW b \in Browsers, LoginSet(b) PROVE IInv'
  <2>1. In' = In \union {b} /\ Excused' = Excused /\ b \in Checked
    BY <1>0, <1>2 DEF LoginSet, In, Checked, Excused, TypeOK
  <2>2. lock' = LockTTL /\ raced' = raced \union (Checked \ {b}) /\ Checked' = Checked \ {b}
    BY <1>0, <1>2 DEF LoginSet, SetLock, Checked, TypeOK
  <2>3. b \in raced \/ In \subseteq Excused
    BY <2>1 DEF IInv, Unraced
  <2>4. Absent' /\ Unraced'
    BY <2>2, SessionAssumption DEF Absent, Unraced
  <2>5. SharedOnlyIf'
    BY <2>1, <2>2, <2>3 DEF IInv, SharedOnlyIf, Excused
  <2> QED BY <1>0, <2>4, <2>5 DEF IInv
<1>3. ASSUME NEW b \in Browsers, Beat(b) PROVE IInv'
  <2>1. In' = In /\ Excused' = Excused /\ Checked' = Checked
    BY <1>3 DEF Beat, In, Checked, Excused
  <2>2. lock' = LockTTL /\ raced' = raced \union (Checked \ {b})
    BY <1>3 DEF Beat, SetLock
  <2>3. Unraced'
    <3>1. CASE Checked \subseteq raced
      BY <2>1, <2>2, <3>1 DEF Unraced
    <3>2. CASE In \subseteq Excused
      BY <2>1, <3>2 DEF Unraced
    <3> QED BY <3>1, <3>2 DEF IInv, Unraced
  <2>4. Absent' /\ SharedOnlyIf'
    BY <2>1, <2>2, SessionAssumption DEF IInv, Absent, SharedOnlyIf, Excused
  <2> QED BY <1>0, <2>3, <2>4 DEF IInv
<1>4. ASSUME NEW b \in Browsers, Return(b) PROVE IInv'
  <2>1. In' = In \union {b} /\ Excused' = Excused \union {b} /\ Checked' = Checked
    BY <1>0, <1>4 DEF Return, In, Checked, Excused, TypeOK
  <2>2. lock' = lock /\ raced' = raced
    BY <1>4 DEF Return
  <2>3. Absent' /\ Unraced'
    BY <2>1, <2>2 DEF IInv, Absent, Unraced
  <2>4. SharedOnlyIf'
    BY <2>1, <2>2 DEF IInv, SharedOnlyIf, Excused
  <2> QED BY <1>0, <2>3, <2>4 DEF IInv
<1>5. ASSUME Tick PROVE IInv'
  <2>1. CASE lock = 1
    <3>1. In' = In /\ raced' = raced /\ In \subseteq Excused'
      BY <1>5, <2>1 DEF Tick, In, Excused
    <3> QED BY <1>0, <3>1 DEF IInv, Absent, Unraced, SharedOnlyIf, Excused
  <2>2. CASE lock # 1
    <3>1. lock' # 0
      BY <1>0, <1>5, <2>2 DEF Tick, TypeOK
    <3>2. In' = In /\ raced' = raced /\ Excused' = Excused /\ Checked' = Checked
      BY <1>5, <2>2 DEF Tick, In, Excused, Checked
    <3> QED BY <1>0, <3>1, <3>2, NobodyEnters
  <2> QED BY <2>1, <2>2
<1>6. ASSUME NEW b \in Browsers, NEW to \in {"out", "away"}, Exit(b, to) PROVE IInv'
  <2>1. In' = In \ {b} /\ Excused' = Excused \ {b}
    BY <1>0, <1>6 DEF Exit, In, Excused, TypeOK
  <2>2. lock' = lock /\ raced' = raced /\ Checked' \subseteq Checked
    BY <1>0, <1>6 DEF Exit, Checked, TypeOK
  <2> QED BY <1>0, <2>1, <2>2, NobodyEnters
<1>7. ASSUME NEW b \in Browsers, LoginFails(b) PROVE IInv'
  <2>1. In' = In /\ Excused' = Excused /\ Checked' \subseteq Checked
    BY <1>0, <1>7 DEF LoginFails, In, Checked, Excused, TypeOK
  <2>2. lock' = lock /\ raced' = raced
    BY <1>7 DEF LoginFails
  <2> QED BY <1>0, <2>1, <2>2, NobodyEnters
<1>8. ASSUME UNCHANGED <<lock, stage, raced, returned, lapsed>> PROVE IInv'
  <2>1. In' = In /\ Excused' = Excused /\ Checked' = Checked
    BY <1>8 DEF In, Checked, Excused
  <2> QED BY <1>0, <1>8, <2>1, NobodyEnters
<1>9. ASSUME NEW b \in Browsers, SendBeat(b) \/ BeatFails(b) PROVE IInv'
  BY <1>8, <1>9 DEF SendBeat, BeatFails
<1>10. ASSUME UNCHANGED vars PROVE IInv'
  BY <1>8, <1>10 DEF vars
<1> QED
  BY <1>1, <1>2, <1>3, <1>4, <1>5, <1>6, <1>7, <1>9, <1>10
  DEF Next, Step, Logout, Leave, Forget

\* Whatever logins, heartbeats, logouts and refreshes interleave, two browsers
\* share an account only after a raced login, a refresh, or heartbeats that let
\* the key expire: nothing else defeats the check of HandleLogin.
THEOREM SharingExplained == Spec => []SharedOnlyIf
<1>1. IInv => SharedOnlyIf
  BY DEF IInv
<1> QED BY <1>1, SharedInit, SharedStep, PTL DEF Spec

-----------------------------------------------------------------------------
Inside == {b \in Browsers : stage[b] \in {"in", "away"}}

\* Whoever is in, or away, set the key when it logged in: what the key has left
\* covers what is left of the LockTTL intervals since that browser set it last.
Remains == \A a \in Inside : lock >= LockTTL - quiet[a]

\* A login that nobody has raced since its EXISTS finds that those intervals
\* are over for everyone.
Expired == \A b \in Checked \ raced, a \in Inside : quiet[a] >= LockTTL

BInv == TypeOK /\ Remains /\ Expired

\* A step that sets no key and lets time stand still.
LEMMA NothingSet ==
    ASSUME BInv, TypeOK', UNCHANGED <<lock, quiet>>, Inside' \subseteq Inside,
           (Checked \ raced)' \subseteq Checked \ raced
    PROVE  BInv'
BY DEF BInv, Remains, Expired

\* A step that sets the key on behalf of b, which may itself be logging in again.
LEMMA KeySet ==
    ASSUME BInv, TypeOK', NEW b \in Browsers, SetLock(b),
           Checked' \subseteq Checked, Inside' \subseteq Inside \union {b}
    PROVE  BInv'
<1>1. /\ lock' = LockTTL /\ quiet' = [quiet EXCEPT ![b] = 0]
      /\ raced' = raced \union (Checked \ {b})
  BY DEF SetLock
<1>2. Remains'
  BY <1>1, SessionAssumption DEF Remains, TypeOK, Inside
<1>3. (Checked \ raced)' \subseteq (Checked \ raced) \intersect {b}
  BY <1>1
<1>4. ASSUME NEW c \in (Checked \ raced)', NEW a \in Inside' PROVE quiet'[a] >= LockTTL
  <2>1. c = b /\ b \in Checked' /\ b \in Checked \ raced
    BY <1>3, <1>4
  <2>2. a # b /\ a \in Inside
    BY <1>4, <2>1 DEF Checked, Inside
  <2>3. quiet'[a] = quiet[a]
    BY <1>1, <2>2 DEF BInv, TypeOK, Inside
  <2> QED BY <2>1, <2>2, <2>3 DEF BInv, Expired
<1> QED BY <1>2, <1>4 DEF BInv, Expired

LEMMA BeatingStep == BInv /\ [Next]_vars => BInv'
<1> SUFFICES ASSUME BInv, [Next]_vars PROVE BInv'
  OBVIOUS
<1>0. TypeOK /\ TypeOK'
  BY TypeStep DEF BInv
<1> USE SessionAssumption
<1>1. ASSUME NEW b \in Browsers, LoginCheck(b) PROVE BInv'
  <2>1. lock = 0 /\ lock' = lock /\ quiet' = quiet /\ Inside' = Inside
    BY <1>0, <1>1 DEF LoginCheck, Inside, TypeOK
  <2>2. \A a \in Inside : quiet[a] >= LockTTL
    BY <1>0, <2>1 DEF BInv, Remains, TypeOK, Inside
  <2> QED BY <1>0, <2>1, <2>2 DEF BInv, Remains, Expired
<1>2. ASSUME NEW b \in Browsers, LoginSet(b) PROVE BInv'
  <2>1. Checked' \subseteq Checked /\ Inside' \subseteq Inside \union {b} /\ SetLock(b)
    BY <1>0, <1>2 DEF LoginSet, Checked, Inside, TypeOK
  <2> QED BY <1>0, <2>1, KeySet
<1>3. ASSUME NEW b \in Browsers, Beat(b) PROVE BInv'
  <2>1. Checked' = Checked /\ Inside' = Inside /\ SetLock(b)
    BY <1>3 DEF Beat, Checked, Inside
  <2> QED BY <1>0, <2>1, KeySet
<1>4. ASSUME NEW b \in Browsers, NEW to \in {"out", "away"}, stage[b] \in {"in", "away"},
             Exit(b, to)
      PROVE  BInv'
  <2>1. Inside' \subseteq Inside /\ Checked' \subseteq Checked /\ raced' = raced
    BY <1>0, <1>4 DEF Exit, Inside, Checked, TypeOK
  <2>2. UNCHANGED <<lock, quiet>>
    BY <1>4 DEF Exit
  <2> QED BY <1>0, <2>1, <2>2, NothingSet
<1>5. ASSUME NEW b \in Browsers, Return(b) PROVE BInv'
  <2>1. Inside' = Inside /\ Checked' = Checked /\ raced' = raced /\ UNCHANGED <<lock, quiet>>
    BY <1>0, <1>5 DEF Return, Inside, Checked, TypeOK
  <2> QED BY <1>0, <2>1, NothingSet
<1>6. ASSUME NEW b \in Browsers, LoginFails(b) PROVE BInv'
  <2>1. Inside' \subseteq Inside /\ Checked' \subseteq Checked /\ raced' = raced
    BY <1>0, <1>6 DEF LoginFails, Inside, Checked, TypeOK
  <2>2. UNCHANGED <<lock, quiet>>
    BY <1>6 DEF LoginFails
  <2> QED BY <1>0, <2>1, <2>2, NothingSet
<1>7. ASSUME Tick PROVE BInv'
  <2>1. /\ lock' = lock - 1 /\ lock > 0
        /\ Inside' = Inside /\ Checked' = Checked /\ raced' = raced
    BY <1>7 DEF Tick, Inside, Checked
  <2>2. \A a \in Inside : /\ quiet[a] \in 0..LockTTL
                         /\ quiet'[a] = IF quiet[a] < LockTTL THEN quiet[a] + 1 ELSE LockTTL
    BY <1>0, <1>7 DEF Tick, Inside, TypeOK
  <2>3. Remains'
    BY <1>0, <2>1, <2>2 DEF BInv, Remains, TypeOK
  <2>4. Expired'
    BY <2>1, <2>2 DEF BInv, Expired
  <2> QED BY <1>0, <2>3, <2>4 DEF BInv
<1>8. ASSUME UNCHANGED <<lock, stage, quiet, raced>> PROVE BInv'
  <2>1. Inside' = Inside /\ Checked' = Checked
    BY <1>8 DEF Inside, Checked
  <2> QED BY <1>0, <1>8, <2>1, NothingSet
<1>9. ASSUME NEW b \in Browsers, SendBeat(b) \/ BeatFails(b) PROVE BInv'
  BY <1>8, <1>9 DEF SendBeat, BeatFails
<1>10. ASSUME UNCHANGED vars PROVE BInv'
  BY <1>8, <1>10 DEF vars
<1> QED
  BY <1>1, <1>2, <1>3, <1>4, <1>5, <1>6, <1>7, <1>9, <1>10
  DEF Next, Step, Logout, Leave, Forget

\* For any number of browsers and any lifetime of the key, while a browser's
\* login or heartbeat is younger than the key's lifetime, another one gets in by
\* a login only if the key was set between that login's EXISTS and SET.
THEOREM BeatingKeepsTheLock == Spec => BeatingKeepsOthersOut
<1>1. Init => BInv
  BY TypeInit DEF Init, BInv, Remains, Expired, Inside, Checked
<1>2. ASSUME BInv, NEW a \in Browsers, NEW b \in Browsers, stage[a] = "in",
             quiet[a] < LockTTL, stage[b] = "checked"
      PROVE  b \in raced
  <2>1. a \in Inside /\ b \in Checked /\ quiet[a] \in Int
    BY <1>2 DEF BInv, TypeOK, Inside, Checked
  <2> QED BY <1>2, <2>1, SessionAssumption DEF BInv, Expired
<1>3. BInv /\ [Next]_vars =>
      [\A a, b \in Browsers :
          /\ a # b /\ stage[a] = "in" /\ quiet[a] < LockTTL
          /\ stage[b] = "checked" /\ stage'[b] = "in"
          => b \in raced]_vars
  BY <1>2
<1> QED BY <1>1, <1>3, BeatingStep, PTL DEF Spec, BeatingKeepsOthersOut
=============================================================================
