-------------------------- MODULE FxSessionProofs ---------------------------
(***************************************************************************)
(* A forex session, for any signals, bars, sizes and gate answers: its log, *)
(* the fills, the types, the drawdown and the book that a judgment sees.   *)
(* What the loops over bars, fills and positions compute is read off the   *)
(* values they go through, by the laws of FoldRules.                       *)
(***************************************************************************)
EXTENDS FxSession, SequenceTheorems, FiniteSetTheorems, TLAPS

-----------------------------------------------------------------------------
(* The log *)

\* The two lists grow from sequences; of what is left open.
Lists == (\E S : audit \in Seq(S)) /\ (\E S : decisions \in Seq(S))

JoinInv == Lists /\ AuditJoins

\* A list with one more entry.
LEMMA Grows ==
  ASSUME NEW s, \E S : s \in Seq(S), NEW e, NEW t, t = Append(s, e)
  PROVE  /\ \E S : t \in Seq(S)
         /\ Len(s) \in Nat /\ DOMAIN s = 1 .. Len(s)
         /\ Len(t) = Len(s) + 1
         /\ DOMAIN t = 1 .. Len(s) + 1
         /\ \A k \in 1 .. Len(s) : t[k] = s[k]
         /\ t[Len(s) + 1] = e
<1>. PICK S : s \in Seq(S)
  OBVIOUS
<1>1. s \in Seq(S \cup {e}) /\ e \in S \cup {e}
  OBVIOUS
<1>. QED
  BY <1>1, AppendProperties, LenProperties

LEMMA InitJoin == Init => JoinInv
<1>1. <<>> \in Seq({}) /\ Len(<<>>) = 0 /\ DOMAIN <<>> = {}
  OBVIOUS
<1>. QED
  BY <1>1 DEF Init, JoinInv, Lists, AuditJoins

\* The first call of a candidate.
LEMMA AssessJoins == JoinInv /\ Assess => JoinInv'
<1>. SUFFICES ASSUME JoinInv, Assess PROVE JoinInv'
  OBVIOUS
<1>. DEFINE entry == [decision |-> Len(decisions), call |-> "assess"]
<1>1. /\ stage = "assess" /\ stage' = "gate" /\ decisions' = decisions
      /\ audit' = Append(audit, entry)
  BY DEF Assess, Record
<1>2. Len(decisions) \in Nat /\ Len(audit) \in Nat /\ Len(audit) = 2 * Len(decisions)
  BY <1>1, LenProperties DEF JoinInv, Lists, AuditJoins
<1>3. /\ \E S : audit' \in Seq(S)
      /\ Len(audit') = Len(audit) + 1
      /\ DOMAIN audit = 1 .. Len(audit) /\ DOMAIN audit' = 1 .. Len(audit) + 1
      /\ \A k \in 1 .. Len(audit) : audit'[k] = audit[k]
      /\ audit'[Len(audit) + 1] = entry
  <2>1. \E S : audit \in Seq(S)
    BY DEF JoinInv, Lists
  <2>. HIDE DEF entry
  <2>. QED
    BY <1>1, <2>1, Grows
<1>4. /\ (Len(audit) + 1 - 1) \div 2 = Len(decisions)
      /\ (Len(audit) + 1) % 2 = 1
  BY <1>2
<1>5. AuditJoins'
  BY <1>1, <1>2, <1>3, <1>4 DEF JoinInv, AuditJoins
<1>. QED
  BY <1>1, <1>3, <1>5 DEF JoinInv, Lists

\* The second call, with the decision.
LEMMA GateJoins ==
  ASSUME JoinInv, NEW action, NEW size, NEW bars, Gate(action, size, bars)
  PROVE  JoinInv'
<1>. DEFINE entry == [decision |-> Len(decisions), call |-> "gate"]
<1>1. /\ stage = "gate" /\ stage' = "next" /\ audit' = Append(audit, entry)
      /\ \E d : decisions' = Append(decisions, d)
  BY DEF Gate, Record
<1>2. Len(decisions) \in Nat /\ Len(audit) \in Nat /\ Len(audit) = 2 * Len(decisions) + 1
  BY <1>1, LenProperties DEF JoinInv, Lists, AuditJoins
<1>3. /\ \E S : audit' \in Seq(S)
      /\ Len(audit') = Len(audit) + 1
      /\ DOMAIN audit = 1 .. Len(audit) /\ DOMAIN audit' = 1 .. Len(audit) + 1
      /\ \A k \in 1 .. Len(audit) : audit'[k] = audit[k]
      /\ audit'[Len(audit) + 1] = entry
  <2>1. \E S : audit \in Seq(S)
    BY DEF JoinInv, Lists
  <2>. HIDE DEF entry
  <2>. QED
    BY <1>1, <2>1, Grows
<1>4. /\ \E S : decisions' \in Seq(S)
      /\ Len(decisions') = Len(decisions) + 1
  <2>1. \E S : decisions \in Seq(S)
    BY DEF JoinInv, Lists
  <2>. PICK d : decisions' = Append(decisions, d)
    BY <1>1
  <2>. QED
    BY <2>1, Grows
<1>5. /\ (Len(audit) + 1 - 1) \div 2 = Len(decisions)
      /\ (Len(audit) + 1) % 2 = 0
  BY <1>2
<1>6. AuditJoins'
  <2>1. \A k \in DOMAIN audit' :
          audit'[k] = [decision |-> (k - 1) \div 2,
                       call |-> IF k % 2 = 1 THEN "assess" ELSE "gate"]
    <3>. SUFFICES ASSUME NEW k \in 1 .. Len(audit) + 1
                  PROVE  audit'[k] = [decision |-> (k - 1) \div 2,
                                      call |-> IF k % 2 = 1 THEN "assess" ELSE "gate"]
      BY <1>3
    <3>1. CASE k \in 1 .. Len(audit)
      BY <1>3, <3>1 DEF JoinInv, AuditJoins
    <3>2. CASE k = Len(audit) + 1
      BY <1>3, <1>5, <3>2
    <3>. QED
      BY <1>2, <3>1, <3>2
  <2>2. Len(audit') - 2 * Len(decisions') = 0
    BY <1>2, <1>3, <1>4
  <2>. QED
    BY <1>1, <2>1, <2>2 DEF AuditJoins
<1>. QED
  BY <1>3, <1>4, <1>6 DEF JoinInv, Lists

\* However the session goes, the log is the calls of its decisions in order, two
\* each under the decision's id (fx/lib.rs run_session, decision_id).
THEOREM LogJoins == Spec => []AuditJoins
<1>1. JoinInv /\ [Next]_vars => JoinInv'
  <2>. SUFFICES ASSUME JoinInv, [Next]_vars PROVE JoinInv'
    OBVIOUS
  <2>1. CASE Assess
    BY <2>1, AssessJoins
  <2>2. CASE stage = "gate" /\ \E action \in Actions : \E size \in SizeOf(action) :
               \E bars \in [candidate.at + 1 .. Deadline(candidate) -> Bars] :
                 Gate(action, size, bars)
    BY <2>2, GateJoins
  <2>3. CASE \E c \in Signals : Take(c)
    BY <2>3 DEF Take, JoinInv, Lists, AuditJoins
  <2>4. CASE CallFails
    BY <2>4 DEF CallFails, JoinInv, Lists, AuditJoins
  <2>5. CASE Finish
    BY <2>5 DEF Finish, JoinInv, Lists, AuditJoins
  <2>6. CASE UNCHANGED vars
    BY <2>6 DEF vars, JoinInv, Lists, AuditJoins
  <2>. QED
    BY <2>1, <2>2, <2>3, <2>4, <2>5, <2>6 DEF Next
<1>. QED
  BY InitJoin, <1>1, PTL DEF Spec, JoinInv

-----------------------------------------------------------------------------
(* The fills *)

Walking == INSTANCE FoldRules WITH op <- AtBar

Touched(bar) == bar.stop \/ bar.target

\* After k of the n bars: closed at the first that was touched, or at the last, due
\* and untouched; or nothing has touched the position so far.
Walked(walk, c, bars, k, n) ==
  \/ \E j \in 1 .. k :
       /\ Touched(bars[c.at + j]) /\ \A m \in 1 .. j - 1 : ~ Touched(bars[c.at + m])
       /\ walk = [open |-> FALSE, exited |-> c.at + j,
                  exit |-> IF bars[c.at + j].stop THEN "stop" ELSE "target",
                  move |-> IF bars[c.at + j].stop THEN StopMove ELSE TargetMove]
  \/ /\ \A m \in 1 .. k : ~ Touched(bars[c.at + m])
     /\ \/ (k < n \/ n = 0) /\ walk = Entered
        \/ /\ k = n /\ n > 0
           /\ walk = [open |-> FALSE, exited |-> c.at + n,
                      exit |-> IF c.at + n = LastBar THEN "end_of_data" ELSE "timeout",
                      move |-> bars[c.at + n].close]

LEMMA DeadlineIs ==
  ASSUME NEW c \in Candidates
  PROVE  /\ c.at \in Nat /\ Deadline(c) \in Nat /\ c.at <= Deadline(c) /\ Deadline(c) <= LastBar
         /\ Deadline(c) = c.at => c.at = LastBar
BY TimeAssumption DEF Candidates, Deadline, LowerOf

LEMMA OneTurn ==
  ASSUME NEW walk, walk.open, NEW turn
  PROVE  /\ Touched(turn.bar) =>
              AtBar(walk, turn) = [open |-> FALSE, exited |-> turn.i,
                                   exit |-> IF turn.bar.stop THEN "stop" ELSE "target",
                                   move |-> IF turn.bar.stop THEN StopMove ELSE TargetMove]
         /\ ~ Touched(turn.bar) /\ ~ turn.due => AtBar(walk, turn) = walk
         /\ ~ Touched(turn.bar) /\ turn.due =>
              AtBar(walk, turn) = [open |-> FALSE, exited |-> turn.i,
                                   exit |-> IF turn.i = LastBar THEN "end_of_data" ELSE "timeout",
                                   move |-> turn.bar.close]
BY DEF AtBar, Touched

LEMMA SimulateWalks ==
  ASSUME NEW c \in Candidates, NEW bars
  PROVE  Walked(FoldLeft(AtBar, Entered, Turns(c, bars)), c, bars, Deadline(c) - c.at, Deadline(c) - c.at)
<1>. DEFINE n == Deadline(c) - c.at
            turns == Turns(c, bars)
<1>1. n \in Nat /\ c.at \in Nat /\ Deadline(c) = c.at + n
  BY DeadlineIs
<1>2. /\ DOMAIN turns = 1 .. n
      /\ \A k \in 1 .. n : /\ turns[k].i = c.at + k /\ turns[k].bar = bars[c.at + k]
                           /\ turns[k].due <=> c.at + k = Deadline(c)
  BY DEF Turns
<1>. HIDE DEF n, turns
<1>3. PICK f : Walking!Steps(f, Entered, turns, n) /\ f[n] = Walking!Left(Entered, turns)
  BY <1>1, <1>2, Walking!LeftSteps
<1>4. f[0] = Entered /\ \A k \in 1 .. n : f[k] = AtBar(f[k - 1], turns[k])
  BY <1>3 DEF Walking!Steps
<1>. DEFINE T == {k \in Nat : k <= n => Walked(f[k], c, bars, k, n)}
<1>5. 0 \in T
  BY <1>1, <1>4 DEF Walked
<1>6. ASSUME NEW k \in Nat, k \in T PROVE k + 1 \in T
  <2>. SUFFICES ASSUME k + 1 <= n PROVE Walked(f[k + 1], c, bars, k + 1, n)
    OBVIOUS
  <2>. DEFINE walk == f[k]
              bar == bars[c.at + (k + 1)]
  <2>1. k + 1 \in 1 .. n /\ (k + 1) - 1 = k /\ k < n /\ Walked(walk, c, bars, k, n)
    BY <1>1, <1>6
  <2>2. /\ f[k + 1] = AtBar(walk, turns[k + 1])
        /\ turns[k + 1].i = c.at + (k + 1) /\ turns[k + 1].bar = bar
        /\ turns[k + 1].due <=> c.at + (k + 1) = Deadline(c)
    BY <1>2, <1>4, <2>1
  <2>. HIDE DEF walk
  <2>3. CASE ~ walk.open
    <3>1. f[k + 1] = walk
      BY <2>2, <2>3 DEF AtBar
    <3>2. walk # Entered
      BY <2>3 DEF Entered
    <3>3. PICK j \in 1 .. k :
             /\ Touched(bars[c.at + j]) /\ \A m \in 1 .. j - 1 : ~ Touched(bars[c.at + m])
             /\ walk = [open |-> FALSE, exited |-> c.at + j,
                        exit |-> IF bars[c.at + j].stop THEN "stop" ELSE "target",
                        move |-> IF bars[c.at + j].stop THEN StopMove ELSE TargetMove]
      BY <2>1, <3>2 DEF Walked
    <3>4. j \in 1 .. k + 1
      OBVIOUS
    <3>. QED
      BY <3>1, <3>3, <3>4 DEF Walked
  <2>4. CASE walk.open
    <3>1. walk = Entered /\ \A m \in 1 .. k : ~ Touched(bars[c.at + m])
      BY <2>1, <2>4 DEF Walked
    <3>2. CASE Touched(bar)
      <4>1. f[k + 1] = [open |-> FALSE, exited |-> c.at + (k + 1),
                        exit |-> IF bar.stop THEN "stop" ELSE "target",
                        move |-> IF bar.stop THEN StopMove ELSE TargetMove]
        BY <2>2, <2>4, <3>2, OneTurn
      <4>2. k + 1 \in 1 .. k + 1
        BY <2>1
      <4>. QED
        BY <2>1, <3>1, <3>2, <4>1, <4>2 DEF Walked
    <3>3. CASE ~ Touched(bar)
      <4>1. \A m \in 1 .. k + 1 : ~ Touched(bars[c.at + m])
        <5>1. \A m \in 1 .. k + 1 : m \in 1 .. k \/ m = k + 1
          OBVIOUS
        <5>. QED
          BY <3>1, <3>3, <5>1
      <4>2. CASE k + 1 < n
        <5>1. c.at + (k + 1) # Deadline(c)
          BY <1>1, <4>2
        <5>2. f[k + 1] = walk
          BY <2>2, <2>4, <3>3, <5>1, OneTurn
        <5>. QED
          BY <3>1, <4>1, <4>2, <5>2 DEF Walked
      <4>3. CASE k + 1 = n
        <5>1. c.at + (k + 1) = Deadline(c) /\ n > 0
          BY <1>1, <4>3
        <5>2. f[k + 1] = [open |-> FALSE, exited |-> c.at + (k + 1),
                          exit |-> IF c.at + (k + 1) = LastBar THEN "end_of_data" ELSE "timeout",
                          move |-> bar.close]
          BY <2>2, <2>4, <3>3, <5>1, OneTurn
        <5>. QED
          BY <4>1, <4>3, <5>1, <5>2 DEF Walked
      <4>. QED
        BY <1>1, <2>1, <4>2, <4>3
    <3>. QED
      BY <3>2, <3>3
  <2>. QED
    BY <2>3, <2>4
<1>7. n \in T
  <2>. HIDE DEF T
  <2>. QED
    BY <1>1, <1>5, <1>6, Walking!NatSetInduction
<1>8. FoldLeft(AtBar, Entered, turns) = f[n]
  BY <1>3 DEF Walking!Left, FoldLeft, Walking!FoldLeft, MapThenFoldSet, Walking!MapThenFoldSet, Max, Walking!Max
<1>. QED
  BY <1>1, <1>7, <1>8 DEF n, turns

\* A fill ends at the first bar that was touched, and otherwise at the deadline.
EndsRight(fill, c, bars) ==
  LET touched == {i \in DOMAIN bars : bars[i].stop \/ bars[i].target}
      first == Min(touched)
  IN  /\ touched # {} =>
           /\ fill.exited = first
           /\ fill.exit = IF bars[first].stop THEN "stop" ELSE "target"
      /\ touched = {} =>
           /\ fill.exited = Deadline(c)
           /\ fill.exit = IF Deadline(c) = LastBar THEN "end_of_data" ELSE "timeout"

LEMMA FillIs ==
  ASSUME NEW c \in Candidates, NEW bars \in [c.at + 1 .. Deadline(c) -> Bars], NEW size \in 1 .. Full
  PROVE  /\ Simulate(c, bars, size) \in Fills /\ Simulate(c, bars, size).size = size
         /\ EndsRight(Simulate(c, bars, size), c, bars)
         /\ [Simulate(c, bars, size) EXCEPT !.size = Full] = Simulate(c, bars, Full)
<1>. DEFINE walked == FoldLeft(AtBar, Entered, Turns(c, bars))
            n == Deadline(c) - c.at
            fill == Simulate(c, bars, size)
            touched == {i \in DOMAIN bars : bars[i].stop \/ bars[i].target}
            first == Min(touched)
<1>1. /\ c.at \in Nat /\ LastBar \in Nat /\ n \in Nat /\ c.at + n = Deadline(c) /\ Deadline(c) <= LastBar
      /\ n = 0 => c.at = LastBar
  BY DeadlineIs, TimeAssumption
<1>2. Walked(walked, c, bars, n, n)
  BY SimulateWalks
<1>3. /\ fill = [size |-> size, exited |-> walked.exited, exit |-> walked.exit, move |-> walked.move]
      /\ Simulate(c, bars, Full) = [size |-> Full, exited |-> walked.exited, exit |-> walked.exit,
                                    move |-> walked.move]
  BY DEF Simulate, Full
<1>4. /\ DOMAIN bars = c.at + 1 .. c.at + n
      /\ \A j \in 1 .. n : c.at + j \in DOMAIN bars /\ bars[c.at + j] \in Bars
      /\ \A i \in DOMAIN bars : \E j \in 1 .. n : i = c.at + j
  <2>1. DOMAIN bars = c.at + 1 .. c.at + n
    BY <1>1
  <2>2. \A i \in c.at + 1 .. c.at + n : i - c.at \in 1 .. n /\ i = c.at + (i - c.at)
    BY <1>1
  <2>3. \A j \in 1 .. n : c.at + j \in c.at + 1 .. c.at + n
    BY <1>1
  <2>. HIDE DEF n
  <2>. QED
    BY <1>1, <2>1, <2>2, <2>3
<1>. HIDE DEF walked, n, fill
<1>. DEFINE Right ==
       /\ walked.exited \in 0 .. LastBar /\ walked.exit \in Exits
       /\ walked.move \in Moves \cup {StopMove, TargetMove}
       /\ touched # {} => /\ walked.exited = first
                          /\ walked.exit = IF bars[first].stop THEN "stop" ELSE "target"
       /\ touched = {} => /\ walked.exited = Deadline(c)
                          /\ walked.exit = IF Deadline(c) = LastBar THEN "end_of_data" ELSE "timeout"
<1>5. Right
  <2>1. ASSUME NEW j \in 1 .. n,
               Touched(bars[c.at + j]), \A m \in 1 .. j - 1 : ~ Touched(bars[c.at + m]),
               walked = [open |-> FALSE, exited |-> c.at + j,
                  exit |-> IF bars[c.at + j].stop THEN "stop" ELSE "target",
                  move |-> IF bars[c.at + j].stop THEN StopMove ELSE TargetMove]
        PROVE  Right
    <3>. DEFINE i == c.at + j
    <3>1. i \in touched /\ i \in 0 .. LastBar
      <4>1. i \in touched
        BY <1>4, <2>1 DEF Touched
      <4>2. i \in Nat /\ i <= LastBar
        BY <1>1
      <4>. QED
        BY <1>1, <4>1, <4>2
    <3>2. \A k \in touched : i <= k
      <4>. SUFFICES ASSUME NEW k \in touched PROVE i <= k
        OBVIOUS
      <4>1. PICK m \in 1 .. n : k = c.at + m
        BY <1>4
      <4>2. Touched(bars[c.at + m])
        BY <4>1 DEF Touched
      <4>3. ~ (m \in 1 .. j - 1)
        BY <2>1, <4>2
      <4>. QED
        BY <1>1, <4>1, <4>3
    <3>3. first = i
      <4>1. \A k \in touched : k \in Int
        BY <1>1, <1>4
      <4>. HIDE DEF touched, i
      <4>2. \A k \in touched : (\A l \in touched : k <= l) => k = i
        BY <3>1, <3>2, <4>1
      <4>. QED
        BY <3>1, <3>2, <4>2 DEF Min
    <3>. HIDE DEF touched, first, i
    <3>. QED
      BY <2>1, <3>1, <3>3 DEF Exits, i
  <2>2. ASSUME \A m \in 1 .. n : ~ Touched(bars[c.at + m])
        PROVE  touched = {}
    BY <1>4, <2>2 DEF Touched
  <2>3. CASE touched = {} /\ n = 0 /\ walked = Entered
    <3>1. Deadline(c) = LastBar /\ 0 \in Moves
      BY <1>1, <2>3, MoveAssumption
    <3>2. walked.exited = LastBar /\ walked.exit = "end_of_data" /\ walked.move = 0
      BY <2>3 DEF Entered
    <3>. HIDE DEF touched, first
    <3>. QED
      BY <1>1, <2>3, <3>1, <3>2 DEF Exits
  <2>4. CASE /\ touched = {} /\ n > 0
             /\ walked = [open |-> FALSE, exited |-> c.at + n,
                          exit |-> IF c.at + n = LastBar THEN "end_of_data" ELSE "timeout",
                          move |-> bars[c.at + n].close]
    <3>1. n \in 1 .. n /\ bars[c.at + n] \in Bars /\ bars[c.at + n].close \in Moves
      BY <1>1, <1>4, <2>4 DEF Bars
    <3>. HIDE DEF touched, first
    <3>. QED
      BY <1>1, <2>4, <3>1 DEF Exits
  <2>5. CASE \A m \in 1 .. n : ~ Touched(bars[c.at + m])
    <3>1. ~ (n < n)
      BY <1>1
    <3>2. \A j \in 1 .. n : ~ Touched(bars[c.at + j])
      BY <2>5
    <3>3. touched = {}
      BY <2>2, <2>5
    <3>. HIDE DEF touched, first
    <3>. QED
      BY <1>2, <2>3, <2>4, <3>1, <3>2, <3>3 DEF Walked
  <2>6. CASE ~ \A m \in 1 .. n : ~ Touched(bars[c.at + m])
    <3>. HIDE DEF Right
    <3>. QED
      BY <1>2, <2>1, <2>6 DEF Walked
  <2>. QED
    BY <2>5, <2>6
<1>6. fill \in Fills
  BY <1>3, <1>5 DEF Fills
<1>7. EndsRight(fill, c, bars)
  <2>1. fill.exited = walked.exited /\ fill.exit = walked.exit
    BY <1>3
  <2>. QED
    BY <1>5, <2>1 DEF EndsRight
<1>8. [fill EXCEPT !.size = Full] = Simulate(c, bars, Full)
  BY <1>3
<1>. QED
  BY <1>3, <1>6, <1>7, <1>8 DEF fill

-----------------------------------------------------------------------------
(* The running book *)

Adding == INSTANCE FoldRules WITH op <- Add

\* The instance speaks of the same places as the specification.
LEMMA NthIsNth ==
  /\ \A I : Cardinality(I) = Adding!Cardinality(I)
  /\ \A I, n : Nth(I, n) = Adding!Nth(I, n)
  /\ \A s, I : At(s, I) = Adding!At(s, I)
<1>1. \A I : Cardinality(I) = Adding!Cardinality(I)
  BY Zenon DEF Cardinality, Adding!Cardinality, IsFiniteSet, Adding!IsFiniteSet
<1>2. \A I, n : Nth(I, n) = Adding!Nth(I, n)
  BY <1>1 DEF Nth, Adding!Nth
<1>. QED
  BY <1>1, <1>2 DEF At, Adding!At

\* What At leaves of a sequence: the entries at the places, in their order.
LEMMA AtLists ==
  ASSUME NEW S, NEW s \in Seq(S), NEW I \in SUBSET (DOMAIN s)
  PROVE  /\ At(s, I) \in Seq(S) /\ Len(At(s, I)) = Cardinality(I) /\ Cardinality(I) \in Nat
         /\ DOMAIN At(s, I) = 1 .. Cardinality(I)
         /\ \A m \in 1 .. Cardinality(I) : Nth(I, m) \in I /\ At(s, I)[m] = s[Nth(I, m)]
         /\ \A i \in I : \E m \in 1 .. Cardinality(I) : Nth(I, m) = i
<1>. DEFINE n == Len(s)
            c == Cardinality(I)
<1>1. n \in Nat /\ I \in SUBSET (1 .. n) /\ \A i \in I : s[i] \in S
  BY LenProperties, ElementOfSeq
<1>. HIDE DEF n, c
<1>2. /\ Adding!Cardinality(I) \in Nat
      /\ \A m \in 1 .. Adding!Cardinality(I) : Adding!Nth(I, m) \in I
      /\ \A i \in I : \E m \in 1 .. Adding!Cardinality(I) : Adding!Nth(I, m) = i
  BY <1>1, Adding!NthLists
<1>3. /\ c \in Nat
      /\ \A m \in 1 .. c : Nth(I, m) \in I
      /\ \A i \in I : \E m \in 1 .. c : Nth(I, m) = i
  BY <1>2, NthIsNth DEF c
<1>4. At(s, I) = [m \in 1 .. c |-> s[Nth(I, m)]]
  BY DEF At, c
<1>5. At(s, I) \in [1 .. c -> S]
  BY <1>1, <1>3, <1>4
<1>6. At(s, I) \in Seq(S) /\ Len(At(s, I)) = c
  BY <1>3, <1>4, <1>5
<1>. QED
  BY <1>3, <1>4, <1>6 DEF c

\* Units add up to a number.
LEMMA AddsUp ==
  ASSUME NEW n \in Nat, NEW units, DOMAIN units = 1 .. n, \A k \in 1 .. n : units[k] \in Int,
         NEW base \in Int
  PROVE  FoldLeft(Add, base, units) \in Int
<1>1. PICK f : Adding!Steps(f, base, units, n) /\ f[n] = Adding!Left(base, units)
  BY Adding!LeftSteps
<1>2. f[0] = base /\ \A k \in 1 .. n : f[k] = f[k - 1] + units[k]
  BY <1>1 DEF Adding!Steps, Add
<1>. DEFINE T == {k \in Nat : k <= n => f[k] \in Int}
<1>3. 0 \in T
  BY <1>2
<1>4. ASSUME NEW k \in Nat, k \in T PROVE k + 1 \in T
  <2>. SUFFICES ASSUME k + 1 <= n PROVE f[k + 1] \in Int
    OBVIOUS
  <2>1. k + 1 \in 1 .. n /\ (k + 1) - 1 = k /\ f[k] \in Int
    BY <1>4
  <2>. QED
    BY <1>2, <2>1
<1>5. n \in T
  <2>. HIDE DEF T
  <2>. QED
    BY <1>3, <1>4, Adding!NatSetInduction
<1>6. FoldLeft(Add, base, units) = f[n]
  BY <1>1 DEF Adding!Left, FoldLeft, Adding!FoldLeft, MapThenFoldSet, Adding!MapThenFoldSet, Max, Adding!Max
<1>. QED
  BY <1>5, <1>6

LEMMA ExposuresType ==
  ASSUME NEW positions \in Seq(Positions)
  PROVE  Exposures(positions) \in [Currencies -> Int]
<1>. SUFFICES ASSUME NEW cur \in Currencies
              PROVE  FoldLeft(Add, Starting[cur],
                       [k \in DOMAIN positions |->
                          IF positions[k].currency = cur THEN positions[k].units ELSE 0]) \in Int
  BY DEF Exposures
<1>. DEFINE n == Len(positions)
            units == [k \in DOMAIN positions |->
                        IF positions[k].currency = cur THEN positions[k].units ELSE 0]
<1>1. n \in Nat /\ DOMAIN positions = 1 .. n /\ \A k \in 1 .. n : positions[k] \in Positions
  BY LenProperties, ElementOfSeq
<1>2. DOMAIN units = 1 .. n /\ \A k \in 1 .. n : units[k] \in Int
  <2>1. \A k \in 1 .. n : positions[k].units \in Int
    BY <1>1 DEF Positions, Full
  <2>. QED
    BY <1>1, <2>1
<1>3. Starting[cur] \in Int
  BY BookAssumption
<1>. HIDE DEF n, units
<1>4. FoldLeft(Add, Starting[cur], units) \in Int
  BY <1>1, <1>2, <1>3, AddsUp
<1>. QED
  BY <1>4 DEF units

-----------------------------------------------------------------------------
(* The types *)

\* The type invariant, with what a judgment under way adds to it.
TypeInv ==
  /\ TypeOK
  /\ stage \in {"assess", "gate"} => candidate \in Candidates /\ Len(decisions) < MaxDecisions

LEMMA TypeInit == Init => TypeInv
<1>. SUFFICES ASSUME Init PROVE TypeInv
  OBVIOUS
<1>1. /\ <<>> \in Seq(Positions) /\ <<>> \in Seq(Decisions) /\ <<>> \in Seq(Calls)
      /\ DOMAIN <<>> = {}
  OBVIOUS
<1>. QED
  BY <1>1, BookAssumption DEF Init, TypeInv, TypeOK

LEMMA TakeTypes ==
  ASSUME TypeInv, NEW c \in Signals, Take(c)
  PROVE  TypeInv'
<1>1. /\ stage = "next" /\ Len(decisions) < MaxDecisions /\ candidate' = c
      /\ open' = Expire(open, c.at) /\ seen' = Exposures(open') /\ stage' = "assess"
      /\ tape' = <<>> /\ decisions' = decisions /\ audit' = audit
  BY DEF Take
<1>2. c \in Candidates
  BY SignalAssumption
<1>3. open' \in Seq(Positions)
  <2>. DEFINE E == {k \in DOMAIN open : open[k].exit > c.at}
  <2>1. E \in SUBSET (DOMAIN open) /\ open \in Seq(Positions)
    BY DEF TypeInv, TypeOK
  <2>2. open' = At(open, E)
    BY <1>1 DEF Expire
  <2>. HIDE DEF E
  <2>. QED
    BY <2>1, <2>2, AtLists
<1>4. seen' \in [Currencies -> Int]
  BY <1>1, <1>3, ExposuresType
<1>5. DOMAIN tape' = {}
  BY <1>1
<1>. QED
  BY <1>1, <1>2, <1>3, <1>4, <1>5 DEF TypeInv, TypeOK

LEMMA RecordTypes ==
  ASSUME TypeInv, stage \in {"assess", "gate"}, NEW call \in {"assess", "gate"}, Record(call)
  PROVE  audit' \in Seq(Calls)
<1>1. audit \in Seq(Calls) /\ Len(decisions) \in Nat
  BY LenProperties DEF TypeInv, TypeOK
<1>2. [decision |-> Len(decisions), call |-> call] \in Calls
  BY <1>1, LimitAssumption DEF TypeInv, Calls
<1>. QED
  BY <1>1, <1>2 DEF Record

\* What a gate decides: the fills, and the position of the one it lets through.
LEMMA GateFills ==
  ASSUME TypeInv, stage = "gate", NEW action \in Actions, NEW size \in SizeOf(action),
         NEW bars \in [candidate.at + 1 .. Deadline(candidate) -> Bars]
  PROVE  LET ungated == Simulate(candidate, bars, Full)
             gated == Simulate(candidate, bars, size)
         IN  /\ [candidate |-> candidate, action |-> action, ungated |-> ungated, gated |-> gated] \in Decisions
             /\ EndsRight(ungated, candidate, bars)
             /\ gated = NoFill \/ (gated \in Fills /\ [gated EXCEPT !.size = Full] = ungated)
             /\ gated # NoFill => [currency |-> Added(candidate), units |-> gated.size,
                                   exit |-> gated.exited] \in Positions
<1>. DEFINE ungated == Simulate(candidate, bars, Full)
            gated == Simulate(candidate, bars, size)
<1>1. candidate \in Candidates
  BY DEF TypeInv
<1>2. ungated \in Fills /\ EndsRight(ungated, candidate, bars)
  <2>1. Full \in 1 .. Full
    BY DEF Full
  <2>. QED
    BY <1>1, <2>1, FillIs
<1>3. size = 0 \/ size \in 1 .. Full
  BY SizeAssumption DEF SizeOf, Full
<1>4. size = 0 => gated = NoFill
  BY DEF Simulate
<1>5. size \in 1 .. Full => gated \in Fills /\ [gated EXCEPT !.size = Full] = ungated
  BY <1>1, FillIs
<1>6. Added(candidate) \in Currencies
  BY <1>1 DEF Added, Currencies, Candidates
<1>. HIDE DEF gated, ungated
<1>7. gated \in Fills => [currency |-> Added(candidate), units |-> gated.size, exit |-> gated.exited] \in Positions
  BY <1>6 DEF Fills, Positions
<1>8. gated \in Fills \cup {NoFill}
  BY <1>3, <1>4, <1>5
<1>9. [candidate |-> candidate, action |-> action, ungated |-> ungated, gated |-> gated] \in Decisions
  BY <1>1, <1>2, <1>8 DEF Decisions
<1>. QED
  BY <1>2, <1>3, <1>4, <1>5, <1>7, <1>9 DEF gated, ungated

LEMMA GateTypes ==
  ASSUME TypeInv, NEW action \in Actions, NEW size \in SizeOf(action),
         NEW bars \in [candidate.at + 1 .. Deadline(candidate) -> Bars], Gate(action, size, bars)
  PROVE  TypeInv'
<1>. DEFINE ungated == Simulate(candidate, bars, Full)
            gated == Simulate(candidate, bars, size)
            d == [candidate |-> candidate, action |-> action, ungated |-> ungated, gated |-> gated]
            p == [currency |-> Added(candidate), units |-> gated.size, exit |-> gated.exited]
<1>1. /\ stage = "gate" /\ stage' = "next" /\ candidate' = candidate /\ seen' = seen
      /\ tape' = bars /\ decisions' = Append(decisions, d)
      /\ open' = IF gated = NoFill THEN open ELSE Append(open, p)
  BY DEF Gate
<1>2. d \in Decisions /\ (gated # NoFill => p \in Positions)
  BY <1>1, GateFills
<1>. HIDE DEF d, p, gated
<1>3. decisions' \in Seq(Decisions) /\ open' \in Seq(Positions)
  BY <1>1, <1>2 DEF TypeInv, TypeOK
<1>4. audit' \in Seq(Calls)
  BY <1>1, RecordTypes DEF Gate
<1>5. \A i \in DOMAIN tape' : i \in 1 .. LastBar /\ tape'[i] \in Bars
  <2>1. candidate \in Candidates
    BY <1>1 DEF TypeInv
  <2>. QED
    BY <1>1, <2>1, DeadlineIs, TimeAssumption
<1>. QED
  BY <1>1, <1>3, <1>4, <1>5 DEF TypeInv, TypeOK

LEMMA TypeStep == TypeInv /\ [Next]_vars => TypeInv'
<1>. SUFFICES ASSUME TypeInv, [Next]_vars PROVE TypeInv'
  OBVIOUS
<1>1. CASE \E c \in Signals : Take(c)
  BY <1>1, TakeTypes
<1>2. CASE Assess
  <2>1. audit' \in Seq(Calls)
    BY <1>2, RecordTypes DEF Assess
  <2>. QED
    BY <1>2, <2>1 DEF Assess, TypeInv, TypeOK
<1>3. CASE stage = "gate" /\ \E action \in Actions : \E size \in SizeOf(action) :
             \E bars \in [candidate.at + 1 .. Deadline(candidate) -> Bars] :
               Gate(action, size, bars)
  BY <1>3, GateTypes
<1>4. CASE CallFails
  BY <1>4 DEF CallFails, TypeInv, TypeOK
<1>5. CASE Finish
  BY <1>5 DEF Finish, TypeInv, TypeOK
<1>6. CASE UNCHANGED vars
  BY <1>6 DEF vars, TypeInv, TypeOK
<1>. QED
  BY <1>1, <1>2, <1>3, <1>4, <1>5, <1>6 DEF Next

LEMMA TypesKept == Spec => []TypeInv
BY TypeInit, TypeStep, PTL DEF Spec

\* The variables of a session keep to their types.
THEOREM TypeCorrect == Spec => []TypeOK
<1>1. TypeInv => TypeOK
  BY DEF TypeInv
<1>. QED
  BY <1>1, TypesKept, PTL

\* A position ends where the bars say it does, the stop before the target, and the gate
\* changes its size alone (fx/engine.rs simulate, fx/lib.rs run_session).
THEOREM FillsAreFair == Spec => []FillsFair
<1>1. Init => FillsFair
  BY DEF Init, FillsFair
<1>2. ASSUME TypeInv, FillsFair, [Next]_vars PROVE FillsFair'
  <2>1. ASSUME NEW action \in Actions, NEW size \in SizeOf(action),
               NEW bars \in [candidate.at + 1 .. Deadline(candidate) -> Bars],
               Gate(action, size, bars)
        PROVE  FillsFair'
    <3>. DEFINE ungated == Simulate(candidate, bars, Full)
                gated == Simulate(candidate, bars, size)
                d == [candidate |-> candidate, action |-> action, ungated |-> ungated, gated |-> gated]
    <3>1. stage = "gate" /\ tape' = bars /\ decisions' = Append(decisions, d)
      BY <2>1 DEF Gate
    <3>2. /\ EndsRight(d.ungated, d.candidate, bars)
          /\ d.gated = NoFill \/ [d.gated EXCEPT !.size = Full] = d.ungated
      <4>1. EndsRight(ungated, candidate, bars) /\ (gated = NoFill \/ [gated EXCEPT !.size = Full] = ungated)
        BY <1>2, <3>1, GateFills
      <4>. HIDE DEF ungated, gated
      <4>. QED
        BY <4>1
    <3>. HIDE DEF d
    <3>3. decisions'[Len(decisions')] = d
      BY <1>2, <3>1 DEF TypeInv, TypeOK
    <3>4. /\ EndsRight(decisions'[Len(decisions')].ungated, decisions'[Len(decisions')].candidate, tape')
          /\ decisions'[Len(decisions')].gated # NoFill =>
               [decisions'[Len(decisions')].gated EXCEPT !.size = Full] = decisions'[Len(decisions')].ungated
      BY <3>1, <3>2, <3>3
    <3>. QED
      BY <3>4 DEF FillsFair, EndsRight
  <2>2. CASE \E c \in Signals : Take(c)
    BY <2>2 DEF Take, FillsFair
  <2>3. CASE Assess
    BY <2>3 DEF Assess, FillsFair
  <2>4. CASE CallFails
    BY <2>4 DEF CallFails, FillsFair
  <2>5. CASE Finish
    BY <2>5 DEF Finish, FillsFair
  <2>6. CASE UNCHANGED vars
    BY <1>2, <2>6 DEF vars, FillsFair
  <2>. QED
    BY <1>2, <2>1, <2>2, <2>3, <2>4, <2>5, <2>6 DEF Next
<1>. QED
  BY <1>1, <1>2, TypesKept, PTL DEF Spec

-----------------------------------------------------------------------------
(* The drawdown *)

Tallying == INSTANCE FoldRules WITH op <- Tally

Flat == [trades |-> 0, wins |-> 0, losses |-> 0, pnl |-> 0, peak |-> 0, drawdown |-> 0]

\* After each fill the book has seen its levels, the highest of them and the worst
\* fall from an earlier one.
Worst(f, k) ==
  /\ f[k].pnl \in Int /\ f[k].peak \in Int /\ f[k].drawdown \in Int
  /\ \E i \in 0 .. k : f[k].peak = f[i].pnl
  /\ \A i \in 0 .. k : f[i].pnl \in Int /\ f[i].pnl <= f[k].peak
  /\ \E i, j \in 0 .. k : i <= j /\ f[k].drawdown = f[i].pnl - f[j].pnl
  /\ \A i, j \in 0 .. k : i <= j => f[i].pnl - f[j].pnl <= f[k].drawdown

LEMMA WorstFall ==
  ASSUME NEW n \in Nat, NEW fills, DOMAIN fills = 1 .. n, \A k \in 1 .. n : Pnl(fills[k]) \in Int,
         NEW f, Tallying!Steps(f, Flat, fills, n)
  PROVE  Worst(f, n)
<1>1. f[0] = Flat /\ \A k \in 1 .. n : f[k] = Tally(f[k - 1], fills[k])
  BY DEF Tallying!Steps
<1>. DEFINE T == {k \in Nat : k <= n => Worst(f, k)}
<1>2. 0 \in T
  <2>1. f[0].pnl = 0 /\ f[0].peak = 0 /\ f[0].drawdown = 0
    BY <1>1 DEF Flat
  <2>2. 0 .. 0 = {0}
    OBVIOUS
  <2>. QED
    BY <2>1, <2>2 DEF Worst
<1>3. ASSUME NEW k \in Nat, k \in T PROVE k + 1 \in T
  <2>. SUFFICES ASSUME k + 1 <= n PROVE Worst(f, k + 1)
    OBVIOUS
  <2>. DEFINE b == f[k]
              e == f[k + 1]
              x == Pnl(fills[k + 1])
  <2>1. k + 1 \in 1 .. n /\ (k + 1) - 1 = k /\ Worst(f, k) /\ x \in Int
    BY <1>3
  <2>2. /\ e.pnl = b.pnl + x
        /\ e.peak = IF b.pnl + x > b.peak THEN b.pnl + x ELSE b.peak
        /\ e.drawdown = IF e.peak - e.pnl > b.drawdown THEN e.peak - e.pnl ELSE b.drawdown
    <3>1. f[k + 1] = Tally(f[k], fills[k + 1])
      BY <1>1, <2>1
    <3>. QED
      BY <3>1 DEF Tally
  <2>3. /\ b.pnl \in Int /\ b.peak \in Int /\ b.drawdown \in Int
        /\ \A i \in 0 .. k : f[i].pnl \in Int /\ f[i].pnl <= b.peak
        /\ \A i, j \in 0 .. k : i <= j => f[i].pnl - f[j].pnl <= b.drawdown
    BY <2>1 DEF Worst
  <2>4. PICK h \in 0 .. k : b.peak = f[h].pnl
    BY <2>1 DEF Worst
  <2>5. PICK i0 \in 0 .. k, j0 \in 0 .. k : i0 <= j0 /\ b.drawdown = f[i0].pnl - f[j0].pnl
    BY <2>1 DEF Worst
  <2>. HIDE DEF x, b
  <2>6. /\ e.pnl \in Int /\ e.peak \in Int /\ e.drawdown \in Int
        /\ b.peak <= e.peak /\ e.pnl <= e.peak
        /\ b.drawdown <= e.drawdown /\ e.peak - e.pnl <= e.drawdown
        /\ e.peak = e.pnl \/ e.peak = b.peak
        /\ e.drawdown = e.peak - e.pnl \/ e.drawdown = b.drawdown
    <3>. HIDE DEF e
    <3>1. b.pnl \in Int /\ b.peak \in Int /\ b.drawdown \in Int /\ x \in Int
      BY <2>1, <2>3
    <3>2. e.pnl \in Int /\ e.peak \in Int /\ b.peak <= e.peak /\ e.pnl <= e.peak
          /\ (e.peak = e.pnl \/ e.peak = b.peak)
      BY <2>2, <3>1
    <3>3. /\ e.drawdown \in Int /\ b.drawdown <= e.drawdown /\ e.peak - e.pnl <= e.drawdown
          /\ e.drawdown = e.peak - e.pnl \/ e.drawdown = b.drawdown
      <4>1. e.peak - e.pnl \in Int
        BY <3>2
      <4>2. CASE e.peak - e.pnl > b.drawdown
        BY <2>2, <3>1, <4>1, <4>2
      <4>3. CASE ~ (e.peak - e.pnl > b.drawdown)
        BY <2>2, <3>1, <4>1, <4>3
      <4>. QED
        BY <4>2, <4>3
    <3>. QED
      BY <3>2, <3>3
  <2>. HIDE DEF e
  <2>7. \A i \in 0 .. k + 1 : i \in 0 .. k \/ i = k + 1
    OBVIOUS
  <2>8. \A i \in 0 .. k + 1 : f[i].pnl \in Int /\ f[i].pnl <= e.peak
    BY <2>3, <2>6, <2>7 DEF e
  <2>9. \E i \in 0 .. k + 1 : e.peak = f[i].pnl
    <3>1. h \in 0 .. k + 1 /\ k + 1 \in 0 .. k + 1
      OBVIOUS
    <3>2. e.peak = f[k + 1].pnl \/ e.peak = f[h].pnl
      BY <2>4, <2>6 DEF e
    <3>. QED
      BY <3>1, <3>2
  <2>10. \E i, j \in 0 .. k + 1 : i <= j /\ e.drawdown = f[i].pnl - f[j].pnl
    <3>1. CASE e.drawdown = b.drawdown
      <4>1. i0 \in 0 .. k + 1 /\ j0 \in 0 .. k + 1
        OBVIOUS
      <4>. QED
        BY <2>5, <3>1, <4>1
    <3>2. CASE e.drawdown = e.peak - e.pnl
      <4>1. PICK i \in 0 .. k + 1 : e.peak = f[i].pnl
        BY <2>9
      <4>2. i <= k + 1 /\ k + 1 \in 0 .. k + 1
        OBVIOUS
      <4>. QED
        BY <3>2, <4>1, <4>2 DEF e
    <3>. QED
      BY <2>6, <3>1, <3>2
  <2>11. ASSUME NEW i \in 0 .. k + 1, NEW j \in 0 .. k + 1, i <= j
         PROVE  f[i].pnl - f[j].pnl <= e.drawdown
    <3>1. CASE j = k + 1
      <4>1. f[i].pnl \in Int /\ f[i].pnl <= e.peak
        BY <2>8
      <4>. QED
        BY <2>6, <3>1, <4>1 DEF e
    <3>2. CASE j \in 0 .. k
      <4>1. i \in 0 .. k
        BY <2>11, <3>2
      <4>2. f[i].pnl - f[j].pnl <= b.drawdown /\ f[i].pnl \in Int /\ f[j].pnl \in Int
        BY <2>3, <2>11, <3>2, <4>1
      <4>. QED
        BY <2>3, <2>6, <4>2
    <3>. QED
      BY <2>7, <3>1, <3>2
  <2>. QED
    BY <2>6, <2>8, <2>9, <2>10, <2>11 DEF Worst, e
<1>4. n \in T
  <2>. HIDE DEF T
  <2>. QED
    BY <1>2, <1>3, Tallying!NatSetInduction
<1>. QED
  BY <1>4

LEMMA BookSteps ==
  ASSUME NEW n \in Nat, NEW fills, DOMAIN fills = 1 .. n
  PROVE  \E f : Tallying!Steps(f, Flat, fills, n) /\ Summarise(fills) = f[n]
<1>1. PICK f : Tallying!Steps(f, Flat, fills, n) /\ f[n] = Tallying!Left(Flat, fills)
  BY Tallying!LeftSteps
<1>2. Summarise(fills) = Tallying!Left(Flat, fills)
  BY DEF Summarise, Flat, Tallying!Left, FoldLeft, Tallying!FoldLeft, MapThenFoldSet,
         Tallying!MapThenFoldSet, Max, Tallying!Max
<1>. QED
  BY <1>1, <1>2

\* The level after k fills is the book's after as many steps.
LEMMA LevelIs ==
  ASSUME NEW S, NEW fills \in Seq(S), NEW f, Tallying!Steps(f, Flat, fills, Len(fills)),
         NEW k \in 0 .. Len(fills)
  PROVE  Summarise(SubSeq(fills, 1, k)) = f[k]
<1>. DEFINE sub == SubSeq(fills, 1, k)
            n == Len(fills)
<1>1. n \in Nat /\ k \in Nat /\ k <= n
  BY LenProperties
<1>2. DOMAIN sub = 1 .. k /\ \A i \in 1 .. k : sub[i] = fills[i]
  OBVIOUS
<1>. HIDE DEF sub, n
<1>3. PICK g : Tallying!Steps(g, Flat, sub, k) /\ Summarise(sub) = g[k]
  BY <1>1, <1>2, BookSteps
<1>4. Tallying!Steps(f, Flat, sub, k)
  <2>1. f[0] = Flat /\ \A i \in 1 .. n : f[i] = Tally(f[i - 1], fills[i])
    BY DEF Tallying!Steps, n
  <2>2. \A i \in 1 .. k : i \in 1 .. n
    BY <1>1
  <2>. QED
    BY <1>2, <2>1, <2>2 DEF Tallying!Steps
<1>5. \A i \in 0 .. k : g[i] = f[i]
  BY <1>1, <1>3, <1>4, Tallying!LeftUnique
<1>6. k \in 0 .. k
  BY <1>1
<1>. QED
  BY <1>3, <1>5, <1>6 DEF sub

LEMMA MaxIs ==
  ASSUME NEW T, NEW x \in T, \A y \in T : y \in Int /\ y <= x
  PROVE  Max(T) = x
<1>1. \A y \in T : (\A z \in T : y >= z) => y = x
  OBVIOUS
<1>2. \A z \in T : x >= z
  OBVIOUS
<1>. QED
  BY <1>1, <1>2 DEF Max

\* The fills on the book are those the gate let through.
LEMMA GatedTypes == TypeOK => GatedFills \in Seq(Fills)
<1>. SUFFICES ASSUME TypeOK PROVE GatedFills \in Seq(Fills)
  OBVIOUS
<1>. DEFINE n == Len(decisions)
            column == [i \in DOMAIN decisions |-> decisions[i].gated]
            I == {i \in DOMAIN column : column[i] # NoFill}
<1>1. n \in Nat /\ DOMAIN decisions = 1 .. n /\ \A i \in 1 .. n : decisions[i] \in Decisions
  BY LenProperties, ElementOfSeq DEF TypeOK
<1>2. I \in SUBSET (1 .. n) /\ \A i \in I : column[i] \in Fills
  BY <1>1 DEF Decisions
<1>3. GatedFills = At(column, I)
  BY DEF GatedFills, Filled
<1>. HIDE DEF n, column, I
<1>4. Adding!At(column, I) \in Seq(Fills)
  BY <1>1, <1>2, Adding!AtType
<1>. QED
  BY <1>3, <1>4, NthIsNth

LEMMA PnlType == \A fill \in Fills : Pnl(fill) \in Int
<1>. SUFFICES ASSUME NEW fill \in Fills PROVE Pnl(fill) \in Int
  OBVIOUS
<1>1. fill.move \in Int /\ fill.size \in Int
  <2>1. fill.move \in Moves \cup {StopMove, TargetMove} /\ fill.size \in 1 .. Full
    BY DEF Fills
  <2>2. Moves \cup {StopMove, TargetMove} \subseteq Int
    BY MoveAssumption
  <2>3. 1 .. Full \subseteq Int
    BY DEF Full
  <2>. QED
    BY <2>1, <2>2, <2>3
<1>. QED
  BY <1>1 DEF Pnl

LEMMA DrawdownIs ==
  ASSUME NEW fills \in Seq(Fills)
  PROVE  LET Level(k) == Summarise(SubSeq(fills, 1, k)).pnl
             falls == {Level(w[1]) - Level(w[2]) : w \in
                  {w \in (0 .. Len(fills)) \X (0 .. Len(fills)) : w[1] <= w[2]}}
         IN  Summarise(fills).drawdown = Max(falls)
<1>. DEFINE n == Len(fills)
            Level(k) == Summarise(SubSeq(fills, 1, k)).pnl
            pairs == {w \in (0 .. n) \X (0 .. n) : w[1] <= w[2]}
            falls == {Level(w[1]) - Level(w[2]) : w \in pairs}
<1>1. n \in Nat /\ DOMAIN fills = 1 .. n /\ \A k \in 1 .. n : Pnl(fills[k]) \in Int
  BY LenProperties, ElementOfSeq, PnlType
<1>2. PICK f : Tallying!Steps(f, Flat, fills, n) /\ Summarise(fills) = f[n]
  BY <1>1, BookSteps
<1>3. \A k \in 0 .. n : Level(k) = f[k].pnl
  BY <1>2, LevelIs
<1>4. Worst(f, n)
  BY <1>1, <1>2, WorstFall
<1>5. \A w \in pairs : w[1] \in 0 .. n /\ w[2] \in 0 .. n /\ w[1] <= w[2]
  OBVIOUS
<1>6. f[n].drawdown \in falls
  <2>1. PICK i \in 0 .. n, j \in 0 .. n : i <= j /\ f[n].drawdown = f[i].pnl - f[j].pnl
    BY <1>4 DEF Worst
  <2>2. <<i, j>> \in pairs
    BY <2>1
  <2>3. Level(<<i, j>>[1]) - Level(<<i, j>>[2]) = f[n].drawdown
    BY <1>3, <2>1
  <2>. HIDE DEF pairs, Level
  <2>. QED
    BY <2>2, <2>3
<1>7. \A x \in falls : x \in Int /\ x <= f[n].drawdown
  <2>. SUFFICES ASSUME NEW w \in pairs
                PROVE  Level(w[1]) - Level(w[2]) \in Int /\ Level(w[1]) - Level(w[2]) <= f[n].drawdown
    OBVIOUS
  <2>1. Level(w[1]) = f[w[1]].pnl /\ Level(w[2]) = f[w[2]].pnl
    BY <1>3, <1>5
  <2>2. /\ f[w[1]].pnl \in Int /\ f[w[2]].pnl \in Int
        /\ f[w[1]].pnl - f[w[2]].pnl <= f[n].drawdown
    BY <1>4, <1>5 DEF Worst
  <2>. HIDE DEF Level, pairs
  <2>. QED
    BY <2>1, <2>2
<1>. HIDE DEF falls
<1>8. Max(falls) = f[n].drawdown
  BY <1>6, <1>7, MaxIs
<1>. QED
  BY <1>2, <1>8 DEF falls

\* The drawdown reported of a session is the worst fall from an earlier level
\* (fx/engine.rs summarise).
THEOREM DrawdownsAreWorst == Spec => []DrawdownIsWorstFall
<1>1. TypeInv => DrawdownIsWorstFall
  <2>1. TypeInv => GatedFills \in Seq(Fills)
    BY GatedTypes DEF TypeInv
  <2>. QED
    BY <2>1, DrawdownIs DEF DrawdownIsWorstFall
<1>. QED
  BY <1>1, TypesKept, PTL

-----------------------------------------------------------------------------
(* The sum of what is held *)

\* The order in which a sum over a set takes its operands.
PlusFirst(sum, units) == units + sum

Totalling == INSTANCE FoldRules WITH op <- PlusFirst

Sized(ds, n) == \A i \in 1 .. n : ds[i].gated.size \in Int

Sums(ds, n) ==
  /\ TotalSize(ds, {}) = 0
  /\ \A s \in SUBSET (1 .. n) :
       /\ TotalSize(ds, s) \in Int
       /\ \A x \in s : TotalSize(ds, s) = ds[x].gated.size + TotalSize(ds, s \ {x})

\* The total of some decisions is their sizes' sum, whichever is added last.
LEMMA TotalIs ==
  ASSUME NEW n \in Nat, NEW ds, Sized(ds, n)
  PROVE  Sums(ds, n)
<1>. DEFINE D == 1 .. n
            sizes == [i \in D |-> ds[i].gated.size]
            c == [s \in SUBSET D |-> CHOOSE x \in s : TRUE]
<1>1. Totalling!IsFiniteSet(D)
  BY Totalling!FS_Interval
<1>2. \A i \in D : sizes[i] = ds[i].gated.size /\ sizes[i] \in Int
  BY DEF Sized
<1>3. \A s \in SUBSET D : s # {} => c[s] = (CHOOSE x \in s : TRUE) /\ c[s] \in s
  OBVIOUS
<1>. HIDE DEF D, sizes, c
<1>4. \A s \in SUBSET D : s # {} => c[s] \in s
  BY <1>3
<1>5. PICK g : Totalling!IsIter(g, 0, sizes, D, c)
  BY <1>1, <1>3, Totalling!IterExists
<1>6. \A s \in SUBSET D : g[s] = IF s = {} THEN 0 ELSE sizes[c[s]] + g[s \ {c[s]}]
  BY <1>5 DEF Totalling!IsIter, PlusFirst
<1>7. ASSUME NEW s \in SUBSET D PROVE TotalSize(ds, s) = g[s]
  <2>. DEFINE Iter(h) == h = [t \in SUBSET s |->
                               IF t = {} THEN 0
                               ELSE ds[CHOOSE x \in t : TRUE].gated.size
                                    + h[t \ {CHOOSE x \in t : TRUE}]]
              it == CHOOSE h : Iter(h)
              part == [t \in SUBSET s |-> g[t]]
  <2>1. Iter(part)
    <3>1. ASSUME NEW t \in SUBSET s
          PROVE  g[t] = IF t = {} THEN 0 ELSE ds[CHOOSE x \in t : TRUE].gated.size
                                    + part[t \ {CHOOSE x \in t : TRUE}]
      <4>1. CASE t = {}
        BY <1>6, <4>1
      <4>2. CASE t # {}
        <5>. DEFINE x == CHOOSE x \in t : TRUE
        <5>1. x = c[t] /\ x \in t /\ x \in D
          BY <1>3, <4>2
        <5>2. sizes[x] = ds[x].gated.size
          BY <1>2, <5>1
        <5>. HIDE DEF x
        <5>3. t \ {x} \in SUBSET s
          OBVIOUS
        <5>4. g[t] = sizes[x] + g[t \ {x}]
          BY <1>6, <4>2, <5>1
        <5>5. part[t \ {x}] = g[t \ {x}]
          BY <5>3
        <5>6. g[t] = ds[x].gated.size + part[t \ {x}]
          BY <5>2, <5>4, <5>5
        <5>. QED
          BY <4>2, <5>6 DEF x
      <4>. QED
        BY <4>1, <4>2
    <3>. QED
      BY <3>1
  <2>2. Iter(it)
    <3>. HIDE DEF Iter, part
    <3>. QED
      BY <2>1
  <2>3. TotalSize(ds, s) = it[s]
    BY DEF TotalSize, MapThenSumSet, MapThenFoldSet
  <2>. HIDE DEF it
  <2>4. ASSUME NEW t \in SUBSET s
        PROVE  it[t] = IF t = {} THEN 0 ELSE PlusFirst(it[t \ {c[t]}], sizes[c[t]])
    <3>1. CASE t = {}
      BY <2>2, <3>1
    <3>2. CASE t # {}
      <4>1. c[t] = (CHOOSE x \in t : TRUE) /\ c[t] \in D
        BY <1>3, <3>2
      <4>2. it[t] = ds[CHOOSE x \in t : TRUE].gated.size + it[t \ {CHOOSE x \in t : TRUE}]
        BY <2>2, <3>2
      <4>. QED
        BY <1>2, <3>2, <4>1, <4>2 DEF PlusFirst
    <3>. QED
      BY <3>1, <3>2
  <2>5. it[s] = g[s]
    <3>1. Totalling!Folds(it, 0, sizes, s, c)
      BY <2>4 DEF Totalling!Folds
    <3>. QED
      BY <1>1, <1>4, <1>5, <3>1, Totalling!IterAgrees
  <2>. QED
    BY <2>3, <2>5
<1>8. \A s \in SUBSET D : g[s] \in Int /\ \A x \in s : g[s] = PlusFirst(g[s \ {x}], sizes[x])
  <2>1. \A v \in Int : \A x \in D : PlusFirst(v, sizes[x]) \in Int
    BY <1>2 DEF PlusFirst
  <2>2. \A v \in Int : \A x, y \in D :
          PlusFirst(PlusFirst(v, sizes[x]), sizes[y]) = PlusFirst(PlusFirst(v, sizes[y]), sizes[x])
    BY <1>2 DEF PlusFirst
  <2>. QED
    <3>1. Totalling!Steady(Int, 0, sizes, D)
      BY <2>1, <2>2 DEF Totalling!Steady
    <3>2. Totalling!AnyLast(g, Int, sizes, D)
      BY <1>1, <1>4, <1>5, <3>1, Totalling!IterAnyLast
    <3>. QED
      BY <1>2, <3>2 DEF Totalling!AnyLast
<1>9. TotalSize(ds, {}) = 0
  BY <1>6, <1>7
<1>10. ASSUME NEW s \in SUBSET D
      PROVE  /\ TotalSize(ds, s) \in Int
             /\ \A x \in s : TotalSize(ds, s) = ds[x].gated.size + TotalSize(ds, s \ {x})
  <2>1. \A x \in s : s \ {x} \in SUBSET D /\ x \in D
    OBVIOUS
  <2>. QED
    BY <1>2, <1>7, <1>8, <2>1 DEF PlusFirst
<1>. QED
  BY <1>9, <1>10 DEF D, Sums

\* Units read off at the places of I add up to the total of those that count.
LEMMA HeldAddsUp ==
  ASSUME NEW n \in Nat, NEW ds, Sized(ds, n),
         NEW I \in SUBSET (1 .. n), NEW B \in SUBSET I, NEW base \in Int,
         NEW units, \A i \in 1 .. n : units[i] = IF i \in B THEN ds[i].gated.size ELSE 0
  PROVE  FoldLeft(Add, base, At(units, I)) = base + TotalSize(ds, B)
<1>. DEFINE sum(m) == Adding!Left(base, Adding!At(units, I \cap 1 .. m))
            T == {m \in Nat : m <= n => sum(m) = base + TotalSize(ds, B \cap 1 .. m)}
<1>1. \A i \in 1 .. n : units[i] \in Int
  BY DEF Sized
<1>2. /\ TotalSize(ds, {}) = 0
      /\ \A s \in SUBSET (1 .. n) :
           /\ TotalSize(ds, s) \in Int
           /\ \A x \in s : TotalSize(ds, s) = ds[x].gated.size + TotalSize(ds, s \ {x})
  BY TotalIs DEF Sums
<1>3. 0 \in T
  <2>1. I \cap 1 .. 0 = {} /\ B \cap 1 .. 0 = {}
    <3>1. 1 .. 0 = {}
      OBVIOUS
    <3>. QED
      BY <3>1
  <2>2. sum(0) = base
    <3>1. Adding!At(units, {}) = <<>>
      BY Adding!AtEmpty
    <3>. QED
      BY <2>1, <3>1, Adding!LeftEmpty
  <2>. HIDE DEF sum
  <2>. QED
    BY <1>2, <2>1, <2>2
<1>4. ASSUME NEW m \in Nat, m \in T PROVE m + 1 \in T
  <2>. SUFFICES ASSUME m + 1 <= n PROVE sum(m + 1) = base + TotalSize(ds, B \cap 1 .. m + 1)
    OBVIOUS
  <2>. DEFINE Im == I \cap 1 .. m
              Bm == B \cap 1 .. m
  <2>1. /\ m + 1 \in 1 .. n /\ m <= n
        /\ 1 .. m + 1 = (1 .. m) \cup {m + 1} /\ m + 1 \notin 1 .. m
    OBVIOUS
  <2>2. sum(m) = base + TotalSize(ds, Bm) /\ TotalSize(ds, Bm) \in Int
    BY <1>2, <1>4, <2>1
  <2>3. CASE m + 1 \notin I
    <3>1. I \cap 1 .. m + 1 = Im /\ B \cap 1 .. m + 1 = Bm
      BY <2>1, <2>3
    <3>. QED
      BY <2>2, <3>1
  <2>4. CASE m + 1 \in I
    <3>1. I \cap 1 .. m + 1 = Im \cup {m + 1} /\ Im \in SUBSET (1 .. m) /\ \A i \in Im : units[i] \in Int
      BY <1>1, <2>1, <2>4
    <3>2. Adding!At(units, Im) \in Seq(Int)
      <4>. HIDE DEF Im
      <4>. QED
        BY <3>1, Adding!AtType
    <3>3. Adding!At(units, Im \cup {m + 1}) = Append(Adding!At(units, Im), units[m + 1])
      <4>. HIDE DEF Im
      <4>. QED
        BY <3>1, Adding!AtOneMore
    <3>4. sum(m + 1) = sum(m) + units[m + 1]
      <4>1. units[m + 1] \in Int
        BY <1>1, <2>1
      <4>. HIDE DEF Im
      <4>2. Adding!Left(base, Append(Adding!At(units, Im), units[m + 1]))
              = Add(Adding!Left(base, Adding!At(units, Im)), units[m + 1])
        BY <3>2, <4>1, Adding!LeftAppend
      <4>. QED
        BY <3>1, <3>3, <4>2 DEF Add, Im
    <3>. HIDE DEF sum
    <3>5. CASE m + 1 \in B
      <4>1. /\ B \cap 1 .. m + 1 \in SUBSET (1 .. n) /\ m + 1 \in B \cap 1 .. m + 1
            /\ (B \cap 1 .. m + 1) \ {m + 1} = Bm
        BY <2>1, <3>5
      <4>2. TotalSize(ds, B \cap 1 .. m + 1) = ds[m + 1].gated.size + TotalSize(ds, Bm)
        BY <1>2, <4>1
      <4>3. units[m + 1] = ds[m + 1].gated.size /\ units[m + 1] \in Int
        BY <1>1, <2>1, <3>5
      <4>. HIDE DEF Bm
      <4>. QED
        BY <2>2, <3>4, <4>2, <4>3
    <3>6. CASE m + 1 \notin B
      <4>1. B \cap 1 .. m + 1 = Bm
        BY <2>1, <3>6
      <4>2. units[m + 1] = 0
        BY <2>1, <3>6
      <4>3. TotalSize(ds, B \cap 1 .. m + 1) = TotalSize(ds, Bm)
        BY <4>1
      <4>. HIDE DEF Bm
      <4>. QED
        BY <2>2, <3>4, <4>2, <4>3
    <3>. QED
      BY <3>5, <3>6
  <2>. QED
    BY <2>3, <2>4
<1>5. n \in T
  <2>. HIDE DEF T
  <2>. QED
    BY <1>3, <1>4, Adding!NatSetInduction
<1>6. I \cap 1 .. n = I /\ B \cap 1 .. n = B
  OBVIOUS
<1>7. Adding!Left(base, Adding!At(units, I)) = base + TotalSize(ds, B)
  <2>. HIDE DEF sum
  <2>1. sum(n) = base + TotalSize(ds, B \cap 1 .. n)
    BY <1>5
  <2>. QED
    BY <1>6, <2>1 DEF sum
<1>8. Adding!At(units, I) = At(units, I)
  BY NthIsNth
<1>9. Adding!Left(base, At(units, I)) = FoldLeft(Add, base, At(units, I))
  BY DEF Adding!Left, FoldLeft, Adding!FoldLeft, MapThenFoldSet, Adding!MapThenFoldSet, Max, Adding!Max
<1>. QED
  BY <1>7, <1>8, <1>9

-----------------------------------------------------------------------------
(* The book that is judged *)

\* What a decision whose fill was let through puts on the book.
Entry(d) == [currency |-> Added(d.candidate), units |-> d.gated.size, exit |-> d.gated.exited]
Entries(ds) == [i \in DOMAIN ds |-> Entry(ds[i])]

\* The open positions are those of the decisions in I: let through, and none left out
\* that is still open at the last candidate's bar.
Holds(I) ==
  /\ open = At(Entries(decisions), I)
  /\ \A i \in I : decisions[i].gated # NoFill
  /\ \A i \in DOMAIN decisions :
       decisions[i].gated # NoFill /\ decisions[i].gated.exited > candidate.at => i \in I
  /\ stage \in {"assess", "gate"} =>
       seen = Exposures(open) /\ \A i \in I : decisions[i].gated.exited > candidate.at

BookInv == \E I \in SUBSET (DOMAIN decisions) : Holds(I)

LEMMA DecisionTypes ==
  ASSUME TypeInv
  PROVE  /\ Len(decisions) \in Nat /\ DOMAIN decisions = 1 .. Len(decisions)
         /\ candidate.at \in Int
         /\ \A i \in DOMAIN decisions :
              /\ decisions[i] \in Decisions
              /\ decisions[i].gated.size \in Int /\ decisions[i].gated.exited \in Int
              /\ decisions[i].gated # NoFill => Entry(decisions[i]) \in Positions
<1>1. Len(decisions) \in Nat /\ DOMAIN decisions = 1 .. Len(decisions)
      /\ \A i \in DOMAIN decisions : decisions[i] \in Decisions
  BY LenProperties, ElementOfSeq DEF TypeInv, TypeOK
<1>2. candidate.at \in Int
  BY DEF TypeInv, TypeOK, Candidates, NoCandidate
<1>3. ASSUME NEW i \in DOMAIN decisions
      PROVE  /\ decisions[i].gated.size \in Int /\ decisions[i].gated.exited \in Int
             /\ decisions[i].gated # NoFill => Entry(decisions[i]) \in Positions
  <2>. DEFINE d == decisions[i]
  <2>1. d.candidate \in Candidates /\ d.gated \in Fills \cup {NoFill}
    BY <1>1, <1>3 DEF Decisions
  <2>2. Added(d.candidate) \in Currencies
    BY <2>1 DEF Added, Currencies, Candidates
  <2>. HIDE DEF d
  <2>3. CASE d.gated = NoFill
    BY <2>3 DEF NoFill, d
  <2>4. CASE d.gated \in Fills
    <3>1. d.gated.size \in 1 .. Full /\ d.gated.exited \in 0 .. LastBar
      BY <2>4 DEF Fills
    <3>2. Entry(d) \in Positions
      BY <2>2, <3>1 DEF Entry, Positions
    <3>3. d.gated.size \in Int
      BY <3>1 DEF Full
    <3>. QED
      BY <3>1, <3>2, <3>3 DEF d
  <2>. QED
    BY <2>1, <2>3, <2>4
<1>. QED
  BY <1>1, <1>2, <1>3

LEMMA BookInit == Init => BookInv
<1>. SUFFICES ASSUME Init PROVE Holds({})
  BY DEF BookInv
<1>1. open = <<>> /\ decisions = <<>> /\ stage = "next" /\ DOMAIN decisions = {}
  BY DEF Init
<1>2. At(Entries(decisions), {}) = <<>>
  BY Adding!AtEmpty, NthIsNth
<1>. QED
  BY <1>1, <1>2 DEF Holds

\* What has closed by the next candidate's bar leaves the book.
LEMMA TakeBook ==
  ASSUME TypeInv, BookInv, NEW c \in Signals, Take(c)
  PROVE  BookInv'
<1>1. /\ stage' = "assess" /\ decisions' = decisions /\ candidate' = c
      /\ open' = Expire(open, c.at) /\ seen' = Exposures(open')
      /\ After(c, candidate)
  BY DEF Take
<1>2. PICK I \in SUBSET (DOMAIN decisions) : Holds(I)
  BY DEF BookInv
<1>. DEFINE n == Len(decisions)
            ent == Entries(decisions)
            J == {i \in I : decisions[i].gated.exited > c.at}
            E == {k \in DOMAIN open : open[k].exit > c.at}
<1>3. /\ n \in Nat /\ DOMAIN decisions = 1 .. n
      /\ candidate.at \in Int /\ c.at \in Int
      /\ \A i \in 1 .. n : decisions[i].gated.exited \in Int
      /\ \A i \in 1 .. n : ent[i].exit = decisions[i].gated.exited
  <2>1. c.at \in Int
    BY SignalAssumption DEF Candidates
  <2>2. \A i \in DOMAIN decisions : ent[i].exit = decisions[i].gated.exited
    BY DEF Entries, Entry
  <2>. QED
    BY <2>1, <2>2, DecisionTypes
<1>4. c.at >= candidate.at
  BY <1>1, <1>3 DEF After
<1>5. open = At(ent, I)
  BY <1>2 DEF Holds
<1>. HIDE DEF n, ent
<1>6. /\ Cardinality(I) \in Nat
      /\ \A k \in 1 .. Cardinality(I) : Nth(I, k) \in I
      /\ \A i \in I : \E k \in 1 .. Cardinality(I) : Nth(I, k) = i
  BY <1>2, <1>3, Adding!NthLists, NthIsNth
<1>7. /\ DOMAIN open = 1 .. Cardinality(I)
      /\ \A k \in 1 .. Cardinality(I) : open[k] = ent[Nth(I, k)]
  BY <1>5 DEF At
<1>8. {Nth(I, k) : k \in E} = J
  <2>1. ASSUME NEW k \in E PROVE Nth(I, k) \in J
    <3>1. k \in 1 .. Cardinality(I) /\ ent[Nth(I, k)].exit > c.at
      BY <1>7
    <3>. QED
      BY <1>2, <1>3, <1>6, <3>1
  <2>2. ASSUME NEW i \in J PROVE \E k \in E : Nth(I, k) = i
    <3>1. PICK k \in 1 .. Cardinality(I) : Nth(I, k) = i
      BY <1>6
    <3>2. open[k].exit > c.at
      BY <1>2, <1>3, <1>7, <3>1
    <3>. QED
      BY <1>7, <3>1, <3>2
  <2>. QED
    BY <2>1, <2>2
<1>9. open' = At(ent, J)
  <2>1. open' = At(At(ent, I), E)
    BY <1>1, <1>5 DEF Expire
  <2>2. E \in SUBSET (1 .. Cardinality(I)) /\ I \in SUBSET (1 .. n)
    BY <1>2, <1>3, <1>7
  <2>. HIDE DEF E, J
  <2>3. At(At(ent, I), E) = At(ent, {Nth(I, k) : k \in E})
    <3>1. E \in SUBSET (1 .. Adding!Cardinality(I))
      BY <2>2, NthIsNth
    <3>2. Adding!At(Adding!At(ent, I), E) = Adding!At(ent, Adding!Listed(I, E))
      BY <1>3, <2>2, <3>1, Adding!AtAt
    <3>3. Adding!Listed(I, E) = {Nth(I, k) : k \in E}
      BY NthIsNth DEF Adding!Listed
    <3>. QED
      BY <3>2, <3>3, NthIsNth
  <2>. QED
    BY <1>8, <2>1, <2>3
<1>10. PICK K : K = J
  OBVIOUS
<1>11. Holds(K)'
  <2>1. \A i \in J : decisions[i].gated # NoFill
    BY <1>2 DEF Holds
  <2>2. ASSUME NEW i \in DOMAIN decisions, decisions[i].gated # NoFill, decisions[i].gated.exited > c.at
        PROVE  i \in J
    <3>1. decisions[i].gated.exited > candidate.at
      BY <1>3, <1>4, <2>2
    <3>2. i \in I
      BY <1>2, <2>2, <3>1 DEF Holds
    <3>. QED
      BY <2>2, <3>2
  <2>3. \A i \in J : decisions[i].gated.exited > c.at
    OBVIOUS
  <2>4. Entries(decisions)' = ent
    BY <1>1 DEF ent, Entries
  <2>. HIDE DEF J
  <2>. QED
    BY <1>1, <1>9, <1>10, <2>1, <2>2, <2>3, <2>4 DEF Holds
<1>12. K \in SUBSET (DOMAIN decisions')
  BY <1>1, <1>2, <1>10
<1>. HIDE DEF J
<1>. QED
  BY <1>11, <1>12 DEF BookInv

\* The fill that the gate let through is put on the book, after the others.
LEMMA GateBook ==
  ASSUME TypeInv, BookInv, NEW action \in Actions, NEW size \in SizeOf(action),
         NEW bars \in [candidate.at + 1 .. Deadline(candidate) -> Bars], Gate(action, size, bars)
  PROVE  BookInv'
<1>. DEFINE gated == Simulate(candidate, bars, size)
            d == [candidate |-> candidate, action |-> action,
                  ungated |-> Simulate(candidate, bars, Full), gated |-> gated]
            p == [currency |-> Added(candidate), units |-> gated.size, exit |-> gated.exited]
            n == Len(decisions)
<1>1. /\ stage' = "next" /\ decisions' = Append(decisions, d) /\ candidate' = candidate
      /\ open' = IF gated = NoFill THEN open ELSE Append(open, p)
  BY DEF Gate
<1>2. PICK I \in SUBSET (DOMAIN decisions) : Holds(I)
  BY DEF BookInv
<1>3. d.gated = gated /\ Entry(d) = p
  BY DEF Entry
<1>. HIDE DEF d, gated, p
<1>4. /\ n \in Nat /\ DOMAIN decisions = 1 .. n
      /\ DOMAIN decisions' = 1 .. n + 1
      /\ \A i \in 1 .. n : decisions'[i] = decisions[i]
      /\ decisions'[n + 1] = d
  <2>1. decisions \in Seq(Decisions \cup {d}) /\ d \in Decisions \cup {d}
    BY DEF TypeInv, TypeOK
  <2>. QED
    BY <1>1, <2>1, AppendProperties, LenProperties
<1>. HIDE DEF n
<1>. DEFINE ent == Entries(decisions)
            more == Entries(decisions')
<1>5. (\A i \in 1 .. n : more[i] = ent[i]) /\ more[n + 1] = Entry(d)
  <2>1. n + 1 \in 1 .. n + 1 /\ 1 .. n \subseteq 1 .. n + 1
    BY <1>4
  <2>. QED
    BY <1>4, <2>1 DEF Entries
<1>6. open = At(ent, I) /\ I \in SUBSET (1 .. n)
  BY <1>2, <1>4 DEF Holds
<1>. HIDE DEF ent
<1>7. Entries(decisions)' = more
  BY DEF Entries
<1>. HIDE DEF more
<1>8. At(ent, I) = At(more, I)
  <2>1. \A i \in I : ent[i] = more[i]
    BY <1>5, <1>6
  <2>. QED
    BY <1>4, <1>6, <2>1, Adding!AtAgrees, NthIsNth
<1>9. \A i \in DOMAIN decisions' : i \in 1 .. n \/ i = n + 1
  BY <1>4
<1>10. CASE gated = NoFill
  <2>1. open' = At(more, I)
    BY <1>1, <1>6, <1>8, <1>10
  <2>2. \A i \in I : decisions'[i].gated # NoFill
    BY <1>2, <1>4, <1>6 DEF Holds
  <2>3. \A i \in DOMAIN decisions' :
          decisions'[i].gated # NoFill /\ decisions'[i].gated.exited > candidate.at => i \in I
    BY <1>2, <1>3, <1>4, <1>9, <1>10 DEF Holds
  <2>4. Holds(I)'
    BY <1>1, <1>7, <2>1, <2>2, <2>3 DEF Holds
  <2>5. I \in SUBSET (DOMAIN decisions')
    BY <1>4, <1>6
  <2>. QED
    BY <2>4, <2>5 DEF BookInv
<1>11. CASE gated # NoFill
  <2>0. PICK J : J = I \cup {n + 1}
    OBVIOUS
  <2>1. open' = At(more, J)
    <3>1. open' = Append(At(more, I), more[n + 1])
      BY <1>1, <1>3, <1>5, <1>6, <1>8, <1>11
    <3>2. At(more, J) = Append(At(more, I), more[n + 1])
      BY <2>0, <1>4, <1>6, Adding!AtOneMore, NthIsNth
    <3>. QED
      BY <3>1, <3>2
  <2>2. \A i \in J : decisions'[i].gated # NoFill
    BY <1>2, <1>3, <1>4, <1>6, <1>11, <2>0 DEF Holds
  <2>3. \A i \in DOMAIN decisions' :
          decisions'[i].gated # NoFill /\ decisions'[i].gated.exited > candidate.at => i \in J
    BY <1>2, <1>4, <1>9, <2>0 DEF Holds
  <2>4. J \in SUBSET (DOMAIN decisions')
    BY <1>4, <1>6, <2>0
  <2>5. Holds(J)'
    BY <1>1, <1>7, <2>1, <2>2, <2>3 DEF Holds
  <2>. QED
    BY <2>4, <2>5 DEF BookInv
<1>. QED
  BY <1>10, <1>11

LEMMA BookStep == TypeInv /\ BookInv /\ [Next]_vars => BookInv'
<1>. SUFFICES ASSUME TypeInv, BookInv, [Next]_vars PROVE BookInv'
  OBVIOUS
<1>1. CASE \E c \in Signals : Take(c)
  BY <1>1, TakeBook
<1>2. CASE Assess
  <2>1. /\ stage = "assess" /\ stage' = "gate" /\ open' = open /\ decisions' = decisions
        /\ candidate' = candidate /\ seen' = seen
    BY <1>2 DEF Assess
  <2>. QED
    BY <2>1 DEF BookInv, Holds, Exposures
<1>3. CASE stage = "gate" /\ \E action \in Actions : \E size \in SizeOf(action) :
             \E bars \in [candidate.at + 1 .. Deadline(candidate) -> Bars] :
               Gate(action, size, bars)
  BY <1>3, GateBook
<1>4. CASE CallFails
  BY <1>4 DEF CallFails, BookInv, Holds
<1>5. CASE Finish
  BY <1>5 DEF Finish, BookInv, Holds
<1>6. CASE UNCHANGED vars
  BY <1>6 DEF vars, BookInv, Holds
<1>. QED
  BY <1>1, <1>2, <1>3, <1>4, <1>5, <1>6 DEF Next

\* Of the decisions on the book, those of a currency are what its exposure adds up.
LEMMA BookIsHeld == TypeInv /\ BookInv => JudgedBook
<1>. SUFFICES ASSUME TypeInv, BookInv, stage \in {"assess", "gate"}, NEW cur \in Currencies
              PROVE  LET held == {i \in DOMAIN decisions :
                                    /\ decisions[i].gated # NoFill
                                    /\ decisions[i].gated.exited > candidate.at
                                    /\ Added(decisions[i].candidate) = cur}
                     IN  seen[cur] = Starting[cur] + TotalSize(decisions, held)
  BY DEF JudgedBook
<1>1. PICK I \in SUBSET (DOMAIN decisions) : Holds(I)
  BY DEF BookInv
<1>. DEFINE n == Len(decisions)
            held == {i \in DOMAIN decisions :
                       /\ decisions[i].gated # NoFill
                       /\ decisions[i].gated.exited > candidate.at
                       /\ Added(decisions[i].candidate) = cur}
            units == [i \in DOMAIN decisions |-> IF i \in held THEN decisions[i].gated.size ELSE 0]
            added == [k \in DOMAIN open |-> IF open[k].currency = cur THEN open[k].units ELSE 0]
<1>2. n \in Nat /\ DOMAIN decisions = 1 .. n /\ Sized(decisions, n)
  BY DecisionTypes DEF Sized
<1>3. held \in SUBSET I
  BY <1>1 DEF Holds
<1>4. \A i \in I : i \in held <=> Added(decisions[i].candidate) = cur
  BY <1>1 DEF Holds
<1>5. seen[cur] = FoldLeft(Add, Starting[cur], added)
  BY <1>1 DEF Holds, Exposures
<1>6. added = At(units, I)
  <2>1. open = At(Entries(decisions), I)
    BY <1>1 DEF Holds
  <2>2. /\ DOMAIN open = 1 .. Cardinality(I)
        /\ \A k \in 1 .. Cardinality(I) : open[k] = Entries(decisions)[Nth(I, k)]
    BY <2>1 DEF At
  <2>3. \A k \in 1 .. Cardinality(I) : Nth(I, k) \in I
    BY <1>1, <1>2, Adding!NthLists, NthIsNth
  <2>4. ASSUME NEW k \in 1 .. Cardinality(I) PROVE added[k] = units[Nth(I, k)]
    <3>. DEFINE i == Nth(I, k)
    <3>1. i \in I /\ i \in DOMAIN decisions /\ open[k] = Entry(decisions[i])
      BY <1>1, <2>2, <2>3 DEF Entries
    <3>. HIDE DEF i, held
    <3>2. added[k] = IF Added(decisions[i].candidate) = cur THEN decisions[i].gated.size ELSE 0
      BY <2>2, <3>1 DEF Entry
    <3>3. units[i] = IF i \in held THEN decisions[i].gated.size ELSE 0
      BY <3>1
    <3>. QED
      BY <1>4, <3>1, <3>2, <3>3 DEF i
  <2>5. added = [k \in 1 .. Cardinality(I) |-> added[k]]
    BY <2>2
  <2>. HIDE DEF added, units
  <2>6. At(units, I) = [k \in 1 .. Cardinality(I) |-> units[Nth(I, k)]]
    BY DEF At
  <2>. QED
    BY <2>4, <2>5, <2>6
<1>7. \A i \in 1 .. n : units[i] = IF i \in held THEN decisions[i].gated.size ELSE 0
  BY <1>2
<1>8. Starting[cur] \in Int
  BY BookAssumption
<1>. HIDE DEF n, held, units, added
<1>9. FoldLeft(Add, Starting[cur], At(units, I)) = Starting[cur] + TotalSize(decisions, held)
  BY <1>1, <1>2, <1>3, <1>7, <1>8, HeldAddsUp
<1>. QED
  BY <1>5, <1>6, <1>9 DEF held

\* A judgment sees the starting book and the gated fills still open at its bar, and
\* nothing else (fx/lib.rs RunningBook::expire, exposures).
THEOREM BooksAreJudged == Spec => []JudgedBook
<1>1. Spec => []BookInv
  BY TypesKept, BookInit, BookStep, PTL DEF Spec
<1>. QED
  BY <1>1, TypesKept, BookIsHeld, PTL
=============================================================================
