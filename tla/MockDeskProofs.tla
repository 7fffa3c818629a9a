-------------------------- MODULE MockDeskProofs --------------------------
(***************************************************************************)
(* The offline backend, for every market, session and threshold that the   *)
(* assumptions of MockDesk admit: the gate's verdict over every set of     *)
(* features (mock.rs decide), then the answers of each stage, from the     *)
(* weights they are made of to the validation they pass, and last the runs *)
(* of a decision, of its replay and of a summary.                          *)
(***************************************************************************)
EXTENDS MockDesk, FiniteSetTheorems, SequenceTheorems, TLAPS

-----------------------------------------------------------------------------
(* The gate *)

\* What the rules can come to.
Verdicts6 == {Execute, Reduce(750), Reduce(500), Reduce(250), Hold, Escalate}

\* Every rule that applies says one of six things, and execute is among them.
LEMMA ApplicableAreVerdicts ==
  ASSUME NEW f, NEW priors
  PROVE  Applicable(f, priors) \subseteq Verdicts6 /\ Execute \in Applicable(f, priors)
<1>1. RiskVerdict(priors.risk) \in Verdicts6
  BY DEF RiskVerdict, Verdicts6
<1>2. \A r \in Rules(f, priors) : r[1] \in Verdicts6
  <2>1. {Execute, Escalate, Hold, Reduce(500), Reduce(250)} \subseteq Verdicts6
    BY DEF Verdicts6
  <2>2. ASSUME NEW r \in Rules(f, priors)
        PROVE  \E v \in Verdicts6 : \E applies : r = <<v, applies>>
    BY <1>1, <2>1, ZenonT(60) DEF Rules
  <2>. QED
    BY <2>2
<1>3. \E r \in Rules(f, priors) : r[1] = Execute /\ r[2]
  BY DEF Rules
<1>4. Applicable(f, priors) = {r[1] : r \in {q \in Rules(f, priors) : q[2]}}
  BY DEF Applicable
<1>. QED
  BY <1>2, <1>3, <1>4

\* The six in their order of caution.
LEMMA CautionOrder ==
  /\ \A e \in Verdicts6 : AtLeastAsCautious(Escalate, e)
  /\ \A e \in Verdicts6 \ {Escalate} : AtLeastAsCautious(Hold, e)
  /\ \A e \in Verdicts6 \ {Escalate, Hold} : AtLeastAsCautious(Reduce(250), e)
  /\ \A e \in Verdicts6 \ {Escalate, Hold, Reduce(250)} : AtLeastAsCautious(Reduce(500), e)
  /\ \A e \in {Reduce(750), Execute} : AtLeastAsCautious(Reduce(750), e)
  /\ AtLeastAsCautious(Execute, Execute)
BY DEF Verdicts6, AtLeastAsCautious, Caution, Execute, Reduce, Hold, Escalate, Verdict

\* Any set of verdicts has a most cautious one.
LEMMA MostCautiousExists ==
  ASSUME NEW V, V \subseteq Verdicts6, Execute \in V
  PROVE  \E d \in V : \A e \in V : AtLeastAsCautious(d, e)
<1>1. CASE Escalate \in V
  BY <1>1, CautionOrder
<1>2. CASE Escalate \notin V /\ Hold \in V
  BY <1>2, CautionOrder
<1>3. CASE {Escalate, Hold} \cap V = {} /\ Reduce(250) \in V
  BY <1>3, CautionOrder
<1>4. CASE {Escalate, Hold, Reduce(250)} \cap V = {} /\ Reduce(500) \in V
  BY <1>4, CautionOrder
<1>5. CASE {Escalate, Hold, Reduce(250), Reduce(500)} \cap V = {} /\ Reduce(750) \in V
  BY <1>5, CautionOrder DEF Verdicts6
<1>6. CASE {Escalate, Hold, Reduce(250), Reduce(500), Reduce(750)} \cap V = {}
  BY <1>6, CautionOrder DEF Verdicts6
<1>. QED
  BY <1>1, <1>2, <1>3, <1>4, <1>5, <1>6

\* The decision is one of the rules that apply, and none that applies is more
\* cautious: no rule is ever outvoted towards risk.
THEOREM DecideIsMostCautious ==
  ASSUME NEW f, NEW priors
  PROVE  /\ Decide(f, priors) \in Applicable(f, priors)
         /\ \A e \in Applicable(f, priors) : AtLeastAsCautious(Decide(f, priors), e)
BY ApplicableAreVerdicts, MostCautiousExists DEF Decide

\* The action and the size, which a backend is asked for in two questions, always
\* agree: all of it is executed, a proper part of it reduced to, none of it held.
THEOREM DecisionIsConsistent ==
  ASSUME NEW f, NEW priors
  PROVE  LET d == Decide(f, priors) IN
           /\ d.action = "execute" <=> d.size = 1000
           /\ d.action = "reduce" <=> d.size \in 1 .. 999
           /\ d.action \in {"hold", "escalate"} <=> d.size = 0
<1>1. Decide(f, priors) \in Verdicts6
  BY DecideIsMostCautious, ApplicableAreVerdicts
<1>. QED
  BY <1>1 DEF Verdicts6, Execute, Reduce, Hold, Escalate, Verdict

\* No check fails without consequence: an implausible margin goes to a human, a
\* reserve at risk or a release on a tight stop stops the trade, and every other
\* failed check makes it smaller at least.
THEOREM FailedChecksCount ==
  ASSUME NEW f, NEW priors
  PROVE  LET d == Decide(f, priors) IN
           /\ Failed(priors, "margin_plausible") => d.action = "escalate"
           /\ Failed(priors, "reserve_ok") \/ EventPinsTightStop(f) \/ priors.label = "stressed"
                => d.action \in {"hold", "escalate"}
           /\ (\/ Failed(priors, "signal_valid_in_regime") \/ Failed(priors, "stop_sane")
               \/ Failed(priors, "correlated_exposure_ok") \/ Failed(priors, "cycle_budget_ok"))
                => d.action # "execute" /\ d.size <= 500
<1>. DEFINE d == Decide(f, priors)
<1>1. d \in Verdicts6 /\ \A e \in Applicable(f, priors) : AtLeastAsCautious(d, e)
  BY DecideIsMostCautious, ApplicableAreVerdicts
<1>2. \A r \in Rules(f, priors) : r[2] => r[1] \in Applicable(f, priors)
  BY DEF Applicable
<1>3. Failed(priors, "margin_plausible") => d.action = "escalate"
  <2>1. Failed(priors, "margin_plausible") => Escalate \in Applicable(f, priors)
    BY <1>2 DEF Rules
  <2>. QED
    BY <1>1, <2>1 DEF Verdicts6, AtLeastAsCautious, Caution, Execute, Reduce, Hold, Escalate, Verdict
<1>4. Failed(priors, "reserve_ok") \/ EventPinsTightStop(f) \/ priors.label = "stressed"
        => d.action \in {"hold", "escalate"}
  <2>1. Failed(priors, "reserve_ok") \/ EventPinsTightStop(f) \/ priors.label = "stressed"
          => Hold \in Applicable(f, priors)
    BY <1>2 DEF Rules
  <2>. QED
    BY <1>1, <2>1 DEF Verdicts6, AtLeastAsCautious, Caution, Execute, Reduce, Hold, Escalate, Verdict
<1>5. (\/ Failed(priors, "signal_valid_in_regime") \/ Failed(priors, "stop_sane")
       \/ Failed(priors, "correlated_exposure_ok") \/ Failed(priors, "cycle_budget_ok"))
        => d.action # "execute" /\ d.size <= 500
  <2>1. (\/ Failed(priors, "signal_valid_in_regime") \/ Failed(priors, "stop_sane")
         \/ Failed(priors, "correlated_exposure_ok") \/ Failed(priors, "cycle_budget_ok"))
          => Reduce(250) \in Applicable(f, priors) \/ Reduce(500) \in Applicable(f, priors)
    BY <1>2 DEF Rules
  <2>. QED
    BY <1>1, <2>1 DEF Verdicts6, AtLeastAsCautious, Caution, Execute, Reduce, Hold, Escalate, Verdict
<1>. QED
  BY <1>3, <1>4, <1>5

-----------------------------------------------------------------------------
(* Sums over a few labels or levels *)

\* The order in which a sum over a set takes its operands.
PlusFirst(sum, term) == term + sum

Summing == INSTANCE FoldRules WITH op <- PlusFirst

\* it is what MapThenSumSet iterates to add val up over D.
Iterates(it, val, D) ==
  it = [s \in SUBSET D |->
          IF s = {} THEN 0
          ELSE val[CHOOSE x \in s : TRUE] + it[s \ {CHOOSE x \in s : TRUE}]]

\* An iteration over a finite set exists.
LEMMA IterateExists ==
  ASSUME NEW D, IsFiniteSet(D), NEW val
  PROVE  \E it : Iterates(it, val, D)
<1>. DEFINE c == [s \in SUBSET D |-> CHOOSE x \in s : TRUE]
<1>1. \A s \in SUBSET D : s # {} => c[s] = (CHOOSE x \in s : TRUE) /\ c[s] \in s
  OBVIOUS
<1>2. Summing!IsFiniteSet(D)
  BY DEF IsFiniteSet, Summing!IsFiniteSet
<1>. HIDE DEF c
<1>3. PICK g : Summing!IsIter(g, 0, val, D, c)
  BY <1>1, <1>2, Summing!IterExists
<1>4. g = [s \in SUBSET D |-> IF s = {} THEN 0 ELSE val[c[s]] + g[s \ {c[s]}]]
  BY <1>3 DEF Summing!IsIter, PlusFirst
<1>5. Iterates(g, val, D)
  <2>. DEFINE h == [s \in SUBSET D |->
          IF s = {} THEN 0
          ELSE val[CHOOSE x \in s : TRUE] + g[s \ {CHOOSE x \in s : TRUE}]]
  <2>1. \A s \in SUBSET D : g[s] = h[s]
    BY <1>1, <1>4
  <2>. QED
    BY <1>4, <2>1 DEF Iterates
<1>. QED
  BY <1>5

\* The operands are integers.
Ints(val, D) == \A x \in D : val[x] \in Int

\* Any of the terms may be added last.
Adds(it, val, D) ==
  /\ it[{}] = 0
  /\ \A s \in SUBSET D : it[s] \in Int /\ \A x \in s : it[s] = val[x] + it[s \ {x}]

\* What an iteration over a finite set of integers adds up.
LEMMA IterateAdds ==
  ASSUME NEW D, IsFiniteSet(D), NEW val, Ints(val, D),
         NEW it, Iterates(it, val, D)
  PROVE  Adds(it, val, D)
<1>. DEFINE c == [s \in SUBSET D |-> CHOOSE x \in s : TRUE]
<1>1. \A s \in SUBSET D : s # {} => c[s] = (CHOOSE x \in s : TRUE) /\ c[s] \in s
  OBVIOUS
<1>2. Summing!IsFiniteSet(D)
  BY DEF IsFiniteSet, Summing!IsFiniteSet
<1>. HIDE DEF c
<1>3. Summing!IsIter(it, 0, val, D, c)
  <2>. DEFINE h == [s \in SUBSET D |-> IF s = {} THEN 0 ELSE PlusFirst(it[s \ {c[s]}], val[c[s]])]
  <2>1. it = [s \in SUBSET D |-> it[s]]
    BY DEF Iterates
  <2>2. \A s \in SUBSET D : it[s] = h[s]
    BY <1>1 DEF Iterates, PlusFirst
  <2>3. it = h
    BY <2>1, <2>2
  <2>. QED
    BY <2>3 DEF Summing!IsIter
<1>4. Summing!Steady(Int, 0, val, D)
  BY DEF Summing!Steady, PlusFirst, Ints
<1>5. Summing!AnyLast(it, Int, val, D)
  BY <1>1, <1>2, <1>3, <1>4, Summing!IterAnyLast
<1>6. it[{}] = 0
  BY DEF Iterates
<1>. QED
  BY <1>5, <1>6 DEF Adds, Summing!AnyLast, PlusFirst

\* The sums of three, four and five terms.
LEMMA AddThree ==
  ASSUME NEW a, NEW b, NEW c, a # b, a # c, b # c, NEW D, {a, b, c} \subseteq D,
         NEW val, Ints(val, D), NEW it, Adds(it, val, D)
  PROVE  it[{a, b, c}] = val[a] + val[b] + val[c]
<1>1. /\ it[{}] = 0 /\ it[{a}] = val[a] + it[{}] /\ it[{a, b}] = val[b] + it[{a}]
      /\ it[{a, b, c}] = val[c] + it[{a, b}]
  <2>1. {a} \ {a} = {} /\ {a, b} \ {b} = {a} /\ {a, b, c} \ {c} = {a, b}
    OBVIOUS
  <2>2. {{a}, {a, b}, {a, b, c}} \subseteq SUBSET D
    OBVIOUS
  <2>. QED
    BY <2>1, <2>2 DEF Adds
<1>2. {val[a], val[b], val[c]} \subseteq Int
  BY DEF Ints
<1>. QED
  BY <1>1, <1>2 DEF Ints

\* The sum of four.
LEMMA AddFour ==
  ASSUME NEW a, NEW b, NEW c, NEW d, a # b, a # c, b # c, d \notin {a, b, c},
         NEW D, {a, b, c, d} \subseteq D,
         NEW val, Ints(val, D), NEW it, Adds(it, val, D)
  PROVE  it[{a, b, c, d}] = val[a] + val[b] + val[c] + val[d]
<1>0. {a, b, c} \subseteq D
  OBVIOUS
<1>1. it[{a, b, c}] = val[a] + val[b] + val[c]
  BY <1>0, AddThree
<1>2. {a, b, c, d} \ {d} = {a, b, c} /\ {a, b, c, d} \in SUBSET D
  OBVIOUS
<1>3. it[{a, b, c, d}] = val[d] + it[{a, b, c}]
  BY <1>2 DEF Adds
<1>4. {val[a], val[b], val[c], val[d]} \subseteq Int
  BY DEF Ints
<1>. QED
  BY <1>1, <1>3, <1>4

\* The sum of the entries of a function, as MapThenSumSet adds them.
Sum(val, D) == MapThenSumSet(LAMBDA x : val[x], D)

\* A sum over a finite set is what some iteration adds up.
LEMMA SumIs ==
  ASSUME NEW D, IsFiniteSet(D), NEW val, Ints(val, D)
  PROVE  \E it : Adds(it, val, D) /\ it[D] = Sum(val, D)
<1>. DEFINE it == CHOOSE h : Iterates(h, val, D)
<1>1. Iterates(it, val, D)
  BY IterateExists
<1>2. Sum(val, D) = it[D]
  BY DEF Sum, MapThenSumSet, MapThenFoldSet, Iterates
<1>. HIDE DEF it
<1>3. Adds(it, val, D)
  BY <1>1, IterateAdds
<1>. QED
  BY <1>2, <1>3

\* So is the expectation of a distribution over levels.
LEMMA ExpectedIs ==
  ASSUME NEW p, IsFiniteSet(DOMAIN p),
         NEW val, \A x \in DOMAIN p : val[x] \in Int /\ val[x] = x * p[x]
  PROVE  \E it : Adds(it, val, DOMAIN p) /\ it[DOMAIN p] = Expected(p)
<1>. DEFINE D == DOMAIN p
            Iter(h) == h = [s \in SUBSET D |->
                             IF s = {} THEN 0
                             ELSE (CHOOSE x \in s : TRUE) * p[CHOOSE x \in s : TRUE]
                                  + h[s \ {CHOOSE x \in s : TRUE}]]
            it == CHOOSE h : Iter(h)
<1>1. ASSUME NEW h PROVE Iter(h) <=> Iterates(h, val, D)
  <2>. DEFINE f == [s \in SUBSET D |->
                             IF s = {} THEN 0
                             ELSE (CHOOSE x \in s : TRUE) * p[CHOOSE x \in s : TRUE]
                                  + h[s \ {CHOOSE x \in s : TRUE}]]
              g == [s \in SUBSET D |->
                             IF s = {} THEN 0
                             ELSE val[CHOOSE x \in s : TRUE] + h[s \ {CHOOSE x \in s : TRUE}]]
  <2>1. \A s \in SUBSET D : f[s] = g[s]
    OBVIOUS
  <2>2. f = g
    BY <2>1
  <2>. QED
    BY <2>2 DEF Iterates
<1>2. Iter(it)
  <2>1. \E h : Iter(h)
    <3>. HIDE DEF Iter
    <3>. QED
      BY <1>1, IterateExists
  <2>. HIDE DEF Iter
  <2>. QED
    BY <2>1
<1>3. Expected(p) = it[D]
  BY DEF Expected, MapThenSumSet, MapThenFoldSet
<1>. HIDE DEF it, Iter
<1>. QED
  BY <1>1, <1>2, <1>3, IterateAdds DEF Ints

-----------------------------------------------------------------------------
(* Scores *)

\* How many levels the rubrics of the desks have.
RubricSizes == {4, 5}

\* Where a fraction lies on a rubric: on or above a level, by a part of the way to the next.
Exact(levels, fraction) == fraction * (levels - 1)
\* The level an exact position falls into, and how far into it.
Level(levels, fraction) == Exact(levels, fraction) \div 1000
Part(levels, fraction)  == Exact(levels, fraction) - 1000 * Level(levels, fraction)

\* The mass that ScoreDistribution puts on each level.
ScoreMass(levels, fraction) ==
  [l \in 0 .. levels - 1 |->
     IF l = Level(levels, fraction) THEN 1000 - Part(levels, fraction)
     ELSE IF l = Level(levels, fraction) + 1 THEN Part(levels, fraction) ELSE 0]

\* The position is the level and its part, the part below one.
Parted(levels, exact, level, part) ==
  /\ levels \in Nat /\ levels - 1 \in 3 .. 4
  /\ exact \in 0 .. 1000 * (levels - 1) /\ level \in 0 .. levels - 1 /\ part \in 0 .. 999
  /\ exact = 1000 * level + part
  /\ level = levels - 1 => part = 0

\* What the level and its part are, for each rubric of the code.
LEMMA ScoreParts ==
  ASSUME NEW levels \in RubricSizes, NEW fraction \in 0 .. 1000
  PROVE  Parted(levels, Exact(levels, fraction), Level(levels, fraction), Part(levels, fraction))
<1>1. CASE levels = 4
  BY <1>1 DEF Parted, Exact, Level, Part
<1>2. CASE levels = 5
  BY <1>2 DEF Parted, Exact, Level, Part
<1>. QED
  BY <1>1, <1>2 DEF RubricSizes

\* What a score made of a fraction says.
SaysFraction(v, levels, fraction) ==
  /\ v.type = "score" /\ v.levels = levels
  /\ v.probabilities = ScoreMass(levels, fraction)
  /\ v.score = Exact(levels, fraction) /\ v.score \in 0 .. 1000 * (levels - 1)
  /\ v.confidence \in 0 .. 1000
  /\ Fraction(v) = fraction

\* A score is read back as the fraction it was made of (mock.rs score_answer, verdict.rs).
LEMMA ScoreIs ==
  ASSUME NEW levels \in RubricSizes, NEW fraction \in 0 .. 1000
  PROVE  SaysFraction(ScoreDistribution(levels, fraction), levels, fraction)
<1>. DEFINE exact == fraction * (levels - 1)
            lower == exact \div 1000
            part  == exact - 1000 * lower
            upper == LesserOf(lower + 1, levels - 1)
            v == ScoreDistribution(levels, fraction)
            Mass1(l) == IF lower = upper THEN IF l = lower THEN Unit ELSE 0
                        ELSE IF l = lower THEN Unit - part ELSE IF l = upper THEN part ELSE 0
<1>1. /\ levels \in Nat /\ levels - 1 \in 3 .. 4
      /\ exact \in 0 .. 1000 * (levels - 1) /\ lower \in 0 .. levels - 1 /\ part \in 0 .. 999
      /\ exact = 1000 * lower + part
      /\ lower = levels - 1 => part = 0
  <2>1. Parted(levels, Exact(levels, fraction), Level(levels, fraction), Part(levels, fraction))
    BY ScoreParts
  <2>. QED
    BY <2>1 DEF Parted, Exact, Level, Part
<1>0. Unit = 1000 /\ part = exact - lower * Unit
  BY <1>1, ThousandthsAssumption
<1>2. /\ v.type = "score" /\ v.levels = levels
      /\ v.probabilities = [l \in 0 .. levels - 1 |-> Mass1(l)]
      /\ v.score = lower * Mass1(lower) + (IF lower = upper THEN 0 ELSE upper * Mass1(upper))
      /\ v.confidence = GreaterOf(Mass1(lower), Mass1(upper))
  BY <1>0 DEF ScoreDistribution
<1>3. ScoreMass(levels, fraction) =
        [l \in 0 .. levels - 1 |->
          IF l = lower THEN 1000 - part ELSE IF l = lower + 1 THEN part ELSE 0]
  BY DEF ScoreMass, Exact, Level, Part
<1>5. exact \div (levels - 1) = fraction
  BY <1>1
<1>. HIDE DEF v, lower, part, exact
<1>6. CASE lower = levels - 1
  <2>1. upper = lower
    BY <1>0, <1>1, <1>6 DEF LesserOf
  <2>2. v.probabilities = ScoreMass(levels, fraction)
    <3>1. \A l \in 0 .. levels - 1 : Mass1(l) = IF l = lower THEN 1000 - part ELSE IF l = lower + 1 THEN part ELSE 0
      BY <1>0, <1>1, <1>6, <2>1
    <3>. QED
      BY <1>2, <1>3, <3>1
  <2>3. v.score = exact
    BY <1>0, <1>1, <1>2, <1>6, <2>1
  <2>4. v.confidence \in 0 .. 1000
    BY <1>0, <1>2, <2>1 DEF GreaterOf
  <2>5. Fraction(v) = fraction
    BY <1>1, <1>2, <1>5, <2>3 DEF Fraction
  <2>. QED
    BY <1>1, <1>2, <2>2, <2>3, <2>4, <2>5 DEF v, exact, SaysFraction, Exact
<1>7. CASE lower # levels - 1
  <2>1. upper = lower + 1 /\ upper # lower /\ upper \in 0 .. levels - 1
    BY <1>0, <1>1, <1>7 DEF LesserOf
  <2>. HIDE DEF upper
  <2>2. v.probabilities = ScoreMass(levels, fraction)
    <3>1. \A l \in 0 .. levels - 1 : Mass1(l) = IF l = lower THEN 1000 - part ELSE IF l = lower + 1 THEN part ELSE 0
      BY <1>0, <1>1, <1>7, <2>1
    <3>. QED
      BY <1>2, <1>3, <3>1
  <2>3. v.score = exact
    <3>1. v.score = lower * (1000 - part) + (lower + 1) * part
      BY <1>0, <1>2, <2>1
    <3>2. lower \in {0, 1, 2, 3, 4}
      BY <1>0, <1>1
    <3>. QED
      BY <1>1, <3>1, <3>2
  <2>4. v.confidence \in 0 .. 1000
    BY <1>0, <1>1, <1>2, <2>1 DEF GreaterOf
  <2>5. Fraction(v) = fraction
    BY <1>1, <1>2, <1>5, <2>3 DEF Fraction
  <2>. QED
    BY <1>1, <1>2, <2>2, <2>3, <2>4, <2>5 DEF v, exact, SaysFraction, Exact
<1>. QED
  BY <1>6, <1>7

\* Masses of four levels.
LEMMA FourLevels ==
  ASSUME NEW val, Ints(val, {0, 1, 2, 3}), NEW it, Adds(it, val, {0, 1, 2, 3})
  PROVE  it[{0, 1, 2, 3}] = val[0] + val[1] + val[2] + val[3]
<1>1. 0 # 1 /\ 0 # 2 /\ 1 # 2 /\ 3 \notin {0, 1, 2} /\ {0, 1, 2, 3} \subseteq {0, 1, 2, 3}
  OBVIOUS
<1>. QED
  BY <1>1, AddFour

\* Masses of five levels.
LEMMA FiveLevels ==
  ASSUME NEW val, Ints(val, {0, 1, 2, 3, 4}), NEW it, Adds(it, val, {0, 1, 2, 3, 4})
  PROVE  it[{0, 1, 2, 3, 4}] = val[0] + val[1] + val[2] + val[3] + val[4]
<1>. DEFINE D == {0, 1, 2, 3, 4}
<1>1. 0 # 1 /\ 0 # 2 /\ 1 # 2 /\ 3 \notin {0, 1, 2} /\ {0, 1, 2, 3} \subseteq D
  OBVIOUS
<1>2. 4 \in D /\ D \ {4} = {0, 1, 2, 3} /\ D \in SUBSET D /\ {val[0], val[1], val[2], val[3], val[4]} \subseteq Int
  BY DEF Ints
<1>. HIDE DEF D
<1>3. it[{0, 1, 2, 3}] = val[0] + val[1] + val[2] + val[3]
  BY <1>1, AddFour DEF D
<1>4. it[D] = val[4] + it[{0, 1, 2, 3}]
  BY <1>2 DEF Adds, D
<1>. QED
  BY <1>2, <1>3, <1>4 DEF D

\* The masses are a distribution whose mean is the score.
AddsTo(p, levels, exact) ==
  /\ DOMAIN p = 0 .. levels - 1
  /\ \A l \in DOMAIN p : p[l] \in 0 .. 1000
  /\ Mass(p) = 1000 /\ Expected(p) = exact

\* The masses of a score add up to the whole, and their mean to its position.
LEMMA MassesAdd ==
  ASSUME NEW levels \in RubricSizes, NEW fraction \in 0 .. 1000
  PROVE  AddsTo(ScoreMass(levels, fraction), levels, Exact(levels, fraction))
<1>. DEFINE exact == Exact(levels, fraction)
            lower == Level(levels, fraction)
            part  == Part(levels, fraction)
            p == ScoreMass(levels, fraction)
            D == DOMAIN p
            val == [l \in D |-> l * p[l]]
<1>1. /\ levels \in Nat /\ levels - 1 \in 3 .. 4
      /\ exact \in Int /\ lower \in 0 .. levels - 1 /\ part \in 0 .. 999
      /\ exact = 1000 * lower + part
      /\ lower = levels - 1 => part = 0
  <2>1. Parted(levels, exact, lower, part)
    BY ScoreParts
  <2>. QED
    BY <2>1 DEF Parted
<1>2. DOMAIN p = 0 .. levels - 1
  BY DEF ScoreMass
<1>3. p = [l \in 0 .. levels - 1 |->
             IF l = lower THEN 1000 - part ELSE IF l = lower + 1 THEN part ELSE 0]
  BY DEF ScoreMass
<1>. HIDE DEF p, lower, part, exact
<1>4. /\ D = 0 .. levels - 1
      /\ \A l \in D : p[l] \in 0 .. 1000 /\ p[l] \in Int /\ l \in Int
  <2>1. \A l \in 0 .. levels - 1 : p[l] \in 0 .. 1000 /\ p[l] \in Int /\ l \in Int
    BY <1>1, <1>3
  <2>. QED
    BY <1>3, <2>1
<1>5. IsFiniteSet(D)
  <2>1. D = 0 .. levels - 1 /\ 0 \in Int /\ levels - 1 \in Int
    BY <1>1, <1>4
  <2>. HIDE DEF D
  <2>. QED
    BY <2>1, FS_Interval
<1>6. \A l \in D : p[l] \in Int /\ val[l] \in Int /\ val[l] = l * p[l]
  <2>1. \A l \in D : l \in Int /\ p[l] \in Int
    BY <1>4
  <2>. HIDE DEF D
  <2>. QED
    BY <2>1
<1>10. Ints(p, D) /\ Ints(val, D)
  BY <1>6 DEF Ints
<1>7. Mass(p) = Sum(p, D)
  BY DEF Mass, Sum
<1>8. PICK sum : Adds(sum, p, D) /\ sum[D] = Sum(p, D)
  BY <1>5, <1>10, SumIs
<1>9. PICK mean : Adds(mean, val, D) /\ mean[D] = Expected(p)
  BY <1>5, <1>6, ExpectedIs
<1>. HIDE DEF val, D
<1>11. ASSUME levels = 4 PROVE Mass(p) = 1000 /\ Expected(p) = exact
  <2>1. D = {0, 1, 2, 3}
    BY <1>4, <1>11
  <2>2. sum[D] = p[0] + p[1] + p[2] + p[3]
    BY <1>8, <1>10, <2>1, FourLevels
  <2>3. mean[D] = val[0] + val[1] + val[2] + val[3]
    BY <1>9, <1>10, <2>1, FourLevels
  <2>4. /\ p[0] = IF lower = 0 THEN 1000 - part ELSE 0
        /\ p[1] = IF lower = 1 THEN 1000 - part ELSE IF lower = 0 THEN part ELSE 0
        /\ p[2] = IF lower = 2 THEN 1000 - part ELSE IF lower = 1 THEN part ELSE 0
        /\ p[3] = IF lower = 3 THEN 1000 - part ELSE IF lower = 2 THEN part ELSE 0
    BY <1>1, <1>3, <1>11
  <2>5. val[0] = 0 /\ val[1] = p[1] /\ val[2] = 2 * p[2] /\ val[3] = 3 * p[3]
    BY <1>4, <1>6, <2>1
  <2>6. lower \in {0, 1, 2, 3}
    BY <1>1, <1>11
  <2>7. Mass(p) = sum[D] /\ Expected(p) = mean[D]
    BY <1>7, <1>8, <1>9
  <2>8. sum[D] = 1000
    BY <1>1, <1>11, <2>2, <2>4, <2>6
  <2>9. mean[D] = exact
    BY <1>1, <1>11, <2>3, <2>4, <2>5, <2>6
  <2>. QED
    BY <2>7, <2>8, <2>9
<1>12. ASSUME levels = 5 PROVE Mass(p) = 1000 /\ Expected(p) = exact
  <2>1. D = {0, 1, 2, 3, 4}
    BY <1>4, <1>12
  <2>2. sum[D] = p[0] + p[1] + p[2] + p[3] + p[4]
    BY <1>8, <1>10, <2>1, FiveLevels
  <2>3. mean[D] = val[0] + val[1] + val[2] + val[3] + val[4]
    BY <1>9, <1>10, <2>1, FiveLevels
  <2>4. /\ p[0] = IF lower = 0 THEN 1000 - part ELSE 0
        /\ p[1] = IF lower = 1 THEN 1000 - part ELSE IF lower = 0 THEN part ELSE 0
        /\ p[2] = IF lower = 2 THEN 1000 - part ELSE IF lower = 1 THEN part ELSE 0
        /\ p[3] = IF lower = 3 THEN 1000 - part ELSE IF lower = 2 THEN part ELSE 0
        /\ p[4] = IF lower = 4 THEN 1000 - part ELSE IF lower = 3 THEN part ELSE 0
    BY <1>1, <1>3, <1>12
  <2>5. val[0] = 0 /\ val[1] = p[1] /\ val[2] = 2 * p[2] /\ val[3] = 3 * p[3] /\ val[4] = 4 * p[4]
    BY <1>4, <1>6, <2>1
  <2>6. lower \in {0, 1, 2, 3, 4}
    BY <1>1, <1>12
  <2>7. Mass(p) = sum[D] /\ Expected(p) = mean[D]
    BY <1>7, <1>8, <1>9
  <2>8. sum[D] = 1000
    BY <1>1, <1>12, <2>2, <2>4, <2>6
  <2>9. mean[D] = exact
    BY <1>1, <1>12, <2>3, <2>4, <2>5, <2>6
  <2>. QED
    BY <2>7, <2>8, <2>9
<1>14. levels = 4 \/ levels = 5
  BY DEF RubricSizes
<1>13. Mass(p) = 1000 /\ Expected(p) = exact
  BY <1>11, <1>12, <1>14
<1>. QED
  <2>1. AddsTo(p, levels, exact)
    <3>1. \A l \in DOMAIN p : p[l] \in 0 .. 1000
      BY <1>4 DEF D
    <3>. QED
      BY <1>2, <1>13, <3>1 DEF AddsTo
  <2>. QED
    BY <2>1 DEF p, exact

\* A score the backend gives is valid for the rubric it was asked on.
LEMMA ScoreStands ==
  ASSUME NEW levels \in RubricSizes, NEW fraction \in 0 .. 1000
  PROVE  ValidFor(ScoreDistribution(levels, fraction), Rubric(levels))
<1>. DEFINE v == ScoreDistribution(levels, fraction)
            p == ScoreMass(levels, fraction)
            exact == Exact(levels, fraction)
<1>1. SaysFraction(v, levels, fraction) /\ AddsTo(p, levels, exact)
      /\ exact \in Int /\ levels \in Nat /\ levels >= 2
  <2>1. Parted(levels, exact, Level(levels, fraction), Part(levels, fraction))
    BY ScoreParts
  <2>2. SaysFraction(v, levels, fraction) /\ AddsTo(p, levels, exact)
    BY ScoreIs, MassesAdd
  <2>. HIDE DEF v, p, exact
  <2>. QED
    BY <2>1, <2>2 DEF Parted
<1>. HIDE DEF v, p, exact
<1>2. /\ v.type = "score" /\ v.levels = levels /\ v.probabilities = p
      /\ v.score = exact /\ v.score \in 0 .. 1000 * (levels - 1)
      /\ v.confidence \in 0 .. 1000
  BY <1>1 DEF SaysFraction, p, exact
<1>3. IsDistribution(p) /\ Within(v.score, Expected(p), ScoreTolerance)
  <2>1. /\ \A l \in DOMAIN p : p[l] \in 0 .. Unit
        /\ Mass(p) = 1000 /\ Expected(p) = exact
    BY <1>1, ThousandthsAssumption DEF AddsTo
  <2>2. Within(1000, Unit, SumTolerance) /\ Within(exact, exact, ScoreTolerance)
    BY <1>1, ThousandthsAssumption, UnitAssumption DEF Within
  <2>. QED
    BY <1>2, <2>1, <2>2 DEF IsDistribution, InRange
<1>4. ScoreFits(v, Rubric(levels))
  BY <1>1, <1>2, <1>3, ThousandthsAssumption DEF AddsTo, ScoreFits, InRange, Rubric
<1>. QED
  BY <1>2, <1>4 DEF ValidFor, Rubric, v

-----------------------------------------------------------------------------
(* Choices *)

\* A product compared, kept apart from its factors.
FewerTimes(t, x, y) == t * x < t * y

\* A common factor cancels.
LEMMA Cancel ==
  ASSUME NEW t \in Nat \ {0}, NEW x \in Int, NEW y \in Int, FewerTimes(t, x, y)
  PROVE  x < y
BY Z3 DEF FewerTimes

\* A share of a total, in thousandths and rounded down.
Shares(q, w, t) ==
  /\ q \in 0 .. 1000 /\ t * q \in Int /\ t * q <= 1000 * w /\ 1000 * w < t * q + t

\* A weight in a total has a share of a thousand, rounded down.
LEMMA ShareOf ==
  ASSUME NEW w \in Nat, NEW t \in Nat \ {0}, w <= t
  PROVE  Shares((w * 1000) \div t, w, t)
<1>. DEFINE q == (w * 1000) \div t
<1>1. q \in Int /\ t * q \in Int /\ t * q <= 1000 * w /\ 1000 * w < t * q + t
  BY Z3
<1>. HIDE DEF q
<1>2. FewerTimes(t, q, 1001) /\ FewerTimes(t, -1, q)
  BY <1>1, Z3 DEF FewerTimes
<1>4. 1001 \in Int /\ -1 \in Int
  OBVIOUS
<1>3. q < 1001 /\ -1 < q
  BY <1>1, <1>2, <1>4, Cancel
<1>. QED
  BY <1>1, <1>3 DEF q, Shares

\* The heavier has no smaller a share.
LEMMA MoreHasMore ==
  ASSUME NEW t \in Nat \ {0}, NEW v \in Nat, NEW w \in Nat, v <= w,
         NEW p, NEW q, Shares(p, v, t), Shares(q, w, t)
  PROVE  p <= q
<1>1. p \in Int /\ q \in Int /\ q + 1 \in Int /\ t * p <= 1000 * v /\ 1000 * w < t * q + t
  BY DEF Shares
<1>2. FewerTimes(t, p, q + 1)
  <2>1. t * (q + 1) = t * q + t /\ t * p \in Int /\ t * q \in Int
    BY <1>1, Z3
  <2>. QED
    BY <1>1, <2>1 DEF FewerTimes
<1>3. p < q + 1
  BY <1>1, <1>2, Cancel
<1>. QED
  BY <1>1, <1>3

\* What bounds a sum of shares times the total bounds the sum.
LEMMA Between ==
  ASSUME NEW t \in Nat \ {0}, NEW s \in Int, FewerTimes(t, s, 1001), FewerTimes(t, 996, s)
  PROVE  996 < s /\ s < 1001
<1>1. 1001 \in Int /\ 996 \in Int
  OBVIOUS
<1>. QED
  BY <1>1, Cancel

\* The range of one weight.
OneWeight == 1 .. 1000

\* Rounded down, the shares of three lose less than four thousandths.
LEMMA SharesOfThree ==
  ASSUME NEW a \in OneWeight, NEW b \in OneWeight, NEW c \in OneWeight, NEW t, t = a + b + c,
         NEW p, NEW q, NEW r, Shares(p, a, t), Shares(q, b, t), Shares(r, c, t)
  PROVE  p + q + r <= 1000 /\ 996 <= p + q + r
<1>. DEFINE s == p + q + r
<1>1. t \in Nat \ {0} /\ p \in Int /\ q \in Int /\ r \in Int
  BY DEF Shares, OneWeight
<1>2. /\ t * p <= 1000 * a /\ 1000 * a < t * p + t
      /\ t * q <= 1000 * b /\ 1000 * b < t * q + t
      /\ t * r <= 1000 * c /\ 1000 * c < t * r + t
  BY DEF Shares
<1>3. t * s = t * p + t * q + t * r /\ t * p \in Int /\ t * q \in Int /\ t * r \in Int
  BY <1>1, Z3
<1>4. FewerTimes(t, s, 1001) /\ FewerTimes(t, 996, s)
  BY <1>1, <1>2, <1>3 DEF FewerTimes, OneWeight
<1>. HIDE DEF s
<1>5. s \in Int
  BY <1>1 DEF s
<1>6. 996 < s /\ s < 1001
  BY <1>1, <1>4, <1>5, Between
<1>. QED
  BY <1>5, <1>6 DEF s

\* So do the shares of four.
LEMMA SharesOfFour ==
  ASSUME NEW a \in OneWeight, NEW b \in OneWeight, NEW c \in OneWeight, NEW d \in OneWeight,
         NEW t, t = a + b + c + d, NEW p, NEW q, NEW r, NEW u,
         Shares(p, a, t), Shares(q, b, t), Shares(r, c, t), Shares(u, d, t)
  PROVE  p + q + r + u <= 1000 /\ 996 <= p + q + r + u
<1>. DEFINE s == p + q + r + u
<1>1. t \in Nat \ {0} /\ p \in Int /\ q \in Int /\ r \in Int /\ u \in Int
  BY DEF Shares, OneWeight
<1>2. /\ t * p <= 1000 * a /\ 1000 * a < t * p + t
      /\ t * q <= 1000 * b /\ 1000 * b < t * q + t
      /\ t * r <= 1000 * c /\ 1000 * c < t * r + t
      /\ t * u <= 1000 * d /\ 1000 * d < t * u + t
  BY DEF Shares
<1>3. /\ t * s = t * p + t * q + t * r + t * u
      /\ t * p \in Int /\ t * q \in Int /\ t * r \in Int /\ t * u \in Int
  BY <1>1, Z3
<1>4. FewerTimes(t, s, 1001) /\ FewerTimes(t, 996, s)
  BY <1>1, <1>2, <1>3 DEF FewerTimes, OneWeight
<1>. HIDE DEF s
<1>5. s \in Int
  BY <1>1 DEF s
<1>6. 996 < s /\ s < 1001
  BY <1>1, <1>4, <1>5, Between
<1>. QED
  BY <1>5, <1>6 DEF s

\* Every label has a weight of the code's range.
Weighted(labels, weight) ==
  \A l \in Range(labels) : weight[l] \in Int /\ 1 <= weight[l] /\ weight[l] <= 1000

\* The first of the heaviest is a label, and none is heavier.
LEMMA HeaviestIs ==
  ASSUME NEW n \in Nat \ {0}, NEW labels, DOMAIN labels = 1 .. n,
         NEW weight, Weighted(labels, weight)
  PROVE  /\ Heaviest(labels, weight) \in Range(labels)
         /\ \A l \in Range(labels) : weight[l] <= weight[Heaviest(labels, weight)]
<1>. DEFINE W == {weight[l] : l \in Range(labels)}
            F == {i \in 1 .. n : \A j \in 1 .. n : weight[labels[j]] <= weight[labels[i]]}
            Wins(i) == /\ \A j \in DOMAIN labels : weight[labels[j]] <= weight[labels[i]]
                       /\ \A j \in 1 .. i - 1 : weight[labels[j]] < weight[labels[i]]
<1>1. \A i \in 1 .. n : labels[i] \in Range(labels) /\ weight[labels[i]] \in Int
  BY DEF Range, Weighted
<1>2. \A l \in Range(labels) : \E i \in 1 .. n : l = labels[i]
  BY DEF Range
<1>3. PICK x \in W : \A y \in W : y <= x
  <2>. DEFINE most == 1000
  <2>1. most \in Nat /\ \A v \in Int : 1 <= v /\ v <= 1000 => v \in 1 .. most
    OBVIOUS
  <2>. HIDE DEF most
  <2>2. \A l \in Range(labels) : weight[l] \in 1 .. most
    BY <2>1, Zenon DEF Weighted
  <2>3. \A y \in W : y \in 1 .. most
    BY <2>2, Zenon
  <2>4. weight[labels[1]] \in W
    BY <1>1
  <2>. HIDE DEF W
  <2>5. W \in SUBSET (1 .. most) /\ W # {}
    BY <2>3, <2>4
  <2>. QED
    BY <2>1, <2>5, Summing!Extremes
<1>4. F # {} /\ F \in SUBSET (1 .. n)
  <2>1. PICK i \in 1 .. n : x = weight[labels[i]]
    BY <1>2, <1>3
  <2>2. \A j \in 1 .. n : weight[labels[j]] \in W
    BY <1>1
  <2>. HIDE DEF W
  <2>. QED
    BY <1>3, <2>1, <2>2
<1>5. PICK i \in F : \A j \in F : i <= j
  <2>. HIDE DEF F
  <2>. QED
    BY <1>4, Summing!Extremes
<1>6. Wins(i)
  <2>1. i \in 1 .. n /\ \A j \in 1 .. n : weight[labels[j]] <= weight[labels[i]]
    OBVIOUS
  <2>2. ASSUME NEW j \in 1 .. i - 1, ~ (weight[labels[j]] < weight[labels[i]]) PROVE FALSE
    <3>1. j \in 1 .. n /\ j < i
      BY <2>1
    <3>2. weight[labels[j]] = weight[labels[i]]
      <4>1. weight[labels[j]] \in Int /\ weight[labels[i]] \in Int
        BY <1>1, <2>1, <3>1, Zenon
      <4>. QED
        BY <2>1, <2>2, <3>1, <4>1
    <3>3. j \in F
      BY <2>1, <3>1, <3>2
    <3>. HIDE DEF F
    <3>. QED
      BY <1>5, <2>1, <3>1, <3>3
  <2>. QED
    BY <2>1, <2>2
<1>7. i \in DOMAIN labels
  BY <1>4
<1>. DEFINE k == CHOOSE k \in DOMAIN labels : Wins(k)
<1>8. k \in DOMAIN labels /\ Wins(k)
  <2>. HIDE DEF Wins, F
  <2>. QED
    BY <1>6, <1>7
<1>9. Heaviest(labels, weight) = labels[k]
  BY DEF Heaviest
<1>. HIDE DEF k, F
<1>. QED
  BY <1>1, <1>2, <1>8, <1>9

\* One label is heavier than each other.
Outweighs(x, labels, weight) ==
  x \in Range(labels) /\ \A l \in Range(labels) : l = x \/ weight[l] < weight[x]

\* What outweighs all the others is it.
LEMMA HeaviestIsOnly ==
  ASSUME NEW n \in Nat \ {0}, NEW labels, DOMAIN labels = 1 .. n,
         NEW weight, Weighted(labels, weight), NEW x,
         Outweighs(x, labels, weight)
  PROVE  Heaviest(labels, weight) = x
<1>. DEFINE h == Heaviest(labels, weight)
<1>1. h \in Range(labels) /\ weight[x] <= weight[h]
  BY HeaviestIs DEF Outweighs
<1>. HIDE DEF h
<1>2. weight[x] \in Int /\ weight[h] \in Int
  BY <1>1 DEF Weighted, Outweighs
<1>3. h = x \/ weight[h] < weight[x]
  BY <1>1 DEF Outweighs
<1>4. h = x
  BY <1>1, <1>2, <1>3
<1>. QED
  BY <1>4 DEF h

\* Of a set of thousandths.
LEMMA MostIs ==
  ASSUME NEW S, \A y \in S : y \in Int /\ 0 <= y /\ y <= 1000, S # {}
  PROVE  Max(S) \in S /\ \A y \in S : y <= Max(S)
<1>. DEFINE T == {y + 1 : y \in S}
            most == 1001
<1>1. \A y \in S : y \in Int /\ y + 1 \in T /\ y + 1 \in 1 .. most
  OBVIOUS
<1>2. most \in Nat
  OBVIOUS
<1>3. \A z \in T : \E y \in S : z = y + 1
  OBVIOUS
<1>. HIDE DEF T, most
<1>4. T \in SUBSET (1 .. most) /\ T # {}
  BY <1>1, <1>3
<1>5. PICK m \in T : \A z \in T : z <= m
  BY <1>2, <1>4, Summing!Extremes
<1>6. PICK x \in S : m = x + 1
  BY <1>3
<1>7. \A y \in S : x >= y
  BY <1>1, <1>5, <1>6
<1>8. Max(S) \in S /\ \A y \in S : Max(S) >= y
  BY <1>7 DEF Max
<1>. QED
  BY <1>1, <1>8

\* The labels are listed once each.
Distinct(labels, n) ==
  DOMAIN labels = 1 .. n /\ Len(labels) = n /\ IsInjective(labels)

\* The labels' shares of the sum of their weights.
SharesIn(p, labels, weight, t) ==
  /\ DOMAIN p = Range(labels)
  /\ \A l \in Range(labels) : weight[l] <= t /\ Shares(p[l], weight[l], t)

\* What the answer on a choice carries.
Chosen(v, labels, weight, p) ==
  /\ v.type = "choice" /\ v.label = Heaviest(labels, weight) /\ v.label \in Range(labels)
  /\ v.probabilities = p /\ v.confidence \in 0 .. 1000

\* The answer on a choice is its heaviest label, with the share of each (mock.rs choice_answer).
LEMMA DistributionIs ==
  ASSUME NEW n \in Nat, n >= 2, NEW labels, Distinct(labels, n), NEW weight, Weighted(labels, weight),
         NEW t, t = Sum(weight, Range(labels)), NEW p,
         p = [l \in Range(labels) |-> (weight[l] * 1000) \div t]
  PROVE  Chosen(Distribution(labels, weight), labels, weight, p)
<1>. DEFINE first == Heaviest(labels, weight)
            W == {weight[l] : l \in Range(labels) \ {first}}
            runner == Max(W)
            v == Distribution(labels, weight)
<1>1. first \in Range(labels) /\ \A l \in Range(labels) : weight[l] <= weight[first]
  BY HeaviestIs DEF Distinct
<1>2. /\ v.type = "choice" /\ v.label = first /\ v.probabilities = p
      /\ v.confidence = ((weight[first] - runner) * 1000) \div weight[first]
  BY ThousandthsAssumption DEF Distribution, Sum
<1>. HIDE DEF first, v
<1>3. /\ \A y \in W : y \in Int /\ 1 <= y /\ y <= 1000 /\ y <= weight[first]
      /\ W # {}
  <2>1. \A l \in Range(labels) : weight[l] \in Int /\ 1 <= weight[l] /\ weight[l] <= 1000
    BY DEF Weighted
  <2>2. labels[1] \in Range(labels) /\ labels[2] \in Range(labels) /\ labels[1] # labels[2]
    BY DEF Distinct, IsInjective, Range
  <2>3. W # {}
    BY <2>2
  <2>4. \A y \in W : \E l \in Range(labels) : y = weight[l]
    OBVIOUS
  <2>. HIDE DEF W
  <2>. QED
    BY <1>1, <2>1, <2>3, <2>4
<1>. HIDE DEF W
<1>4. runner \in W
  BY <1>3, MostIs
<1>. HIDE DEF runner
<1>5. /\ runner \in Int /\ 1 <= runner /\ runner <= weight[first]
      /\ weight[first] \in Int /\ weight[first] <= 1000
  <2>1. runner \in Int /\ 1 <= runner /\ runner <= weight[first]
    BY <1>3, <1>4
  <2>2. weight[first] \in Int /\ weight[first] <= 1000
    BY <1>1 DEF Weighted
  <2>. QED
    BY <2>1, <2>2
<1>6. v.confidence \in 0 .. 1000
  <2>. DEFINE w == weight[first]
              u == w - runner
              q == (u * 1000) \div w
  <2>0. w \in Int /\ runner \in Int /\ 1 <= runner /\ runner <= w
    BY <1>5
  <2>2. v.confidence = q
    BY <1>2
  <2>. HIDE DEF w
  <2>1. w \in Nat \ {0} /\ u \in Nat /\ u <= w
    BY <2>0
  <2>. HIDE DEF u
  <2>3. Shares(q, u, w)
    BY <2>1, ShareOf
  <2>. HIDE DEF q
  <2>. QED
    BY <2>2, <2>3 DEF Shares
<1>. QED
  BY <1>1, <1>2, <1>6 DEF Chosen, v, first

\* A choice whose shares add up is valid among its labels.
LEMMA ChoiceStands ==
  ASSUME NEW n \in Nat, n >= 2, NEW labels, Distinct(labels, n), NEW weight, Weighted(labels, weight),
         NEW t \in Nat \ {0}, NEW p, SharesIn(p, labels, weight, t),
         Mass(p) \in Int, Mass(p) <= 1000, 996 <= Mass(p),
         NEW v, Chosen(v, labels, weight, p)
  PROVE  ValidFor(v, Choice(labels))
<1>. DEFINE first == Heaviest(labels, weight)
<1>1. first \in Range(labels) /\ \A l \in Range(labels) : weight[l] <= weight[first]
  BY HeaviestIs DEF Distinct
<1>. HIDE DEF first
<1>2. Contains(labels, first)
  BY <1>1 DEF Contains, Range, Distinct
<1>3. IsInjective(labels) /\ DOMAIN p = Range(labels)
  BY DEF Distinct, SharesIn
<1>4. \A k \in DOMAIN p : p[k] \in 0 .. 1000 /\ p[k] \in Int
  BY DEF SharesIn, Shares
<1>5. IsDistribution(p)
  <2>1. Within(Mass(p), Unit, SumTolerance)
    BY ThousandthsAssumption, UnitAssumption, GrainAssumption DEF Within
  <2>. QED
    BY <1>4, <2>1, ThousandthsAssumption DEF IsDistribution, InRange
<1>6. \A k \in DOMAIN p : p[k] <= p[first] + SumTolerance
  <2>1. TAKE k \in DOMAIN p
  <2>2. k \in Range(labels) /\ Shares(p[k], weight[k], t) /\ Shares(p[first], weight[first], t)
    BY <1>1, <1>3 DEF SharesIn
  <2>3. /\ weight[k] \in Int /\ 1 <= weight[k] /\ weight[first] \in Int /\ 1 <= weight[first]
        /\ weight[k] <= weight[first]
    BY <1>1, <2>2 DEF Weighted
  <2>. DEFINE a == weight[k]
              b == weight[first]
              x == p[k]
              y == p[first]
  <2>4. a \in Nat /\ b \in Nat /\ a <= b /\ Shares(x, a, t) /\ Shares(y, b, t)
    BY <2>2, <2>3
  <2>5. x \in Int /\ y \in Int
    BY <1>1, <1>3, <1>4
  <2>. HIDE DEF a, b, x, y
  <2>6. x <= y
    BY <2>4, MoreHasMore
  <2>7. x <= y + SumTolerance
    BY <2>5, <2>6, UnitAssumption
  <2>. QED
    BY <2>7 DEF x, y
<1>7. v.type = "choice" /\ v.label = first /\ v.probabilities = p /\ v.confidence \in 0 .. 1000
  BY DEF Chosen, first
<1>8. ChoiceFits(v, Choice(labels))
  BY <1>2, <1>3, <1>5, <1>6, <1>7, ThousandthsAssumption DEF ChoiceFits, Choice, InRange
<1>. QED
  BY <1>7, <1>8 DEF ValidFor, Choice

\* The share of a label of a weight.
LabelShare(labels, weight, t) == [l \in Range(labels) |-> (weight[l] * 1000) \div t]

\* The share of each label is one in the total.
LEMMA LabelSharesIn ==
  ASSUME NEW labels, NEW weight, Weighted(labels, weight), NEW t \in Nat \ {0},
         \A l \in Range(labels) : weight[l] <= t
  PROVE  SharesIn(LabelShare(labels, weight, t), labels, weight, t)
<1>. DEFINE p == LabelShare(labels, weight, t)
<1>1. DOMAIN p = Range(labels) /\ \A l \in Range(labels) : p[l] = (weight[l] * 1000) \div t
  BY DEF LabelShare
<1>. HIDE DEF p
<1>2. ASSUME NEW l \in Range(labels) PROVE Shares(p[l], weight[l], t)
  <2>. DEFINE w == weight[l]
              q == (w * 1000) \div t
  <2>1. w \in Nat /\ w <= t
    BY <1>2 DEF Weighted
  <2>2. p[l] = q
    BY <1>1, <1>2
  <2>. HIDE DEF w
  <2>3. Shares(q, w, t)
    BY <2>1, ShareOf
  <2>. QED
    BY <2>2, <2>3 DEF w
<1>. QED
  BY <1>1, <1>2 DEF SharesIn, p

\* An answer on three labels passes the validation of a choice.
LEMMA ThreeStand ==
  ASSUME NEW a, NEW b, NEW c, a # b, a # c, b # c, NEW weight, Weighted(<<a, b, c>>, weight)
  PROVE  ValidFor(Distribution(<<a, b, c>>, weight), Choice(<<a, b, c>>))
<1>. DEFINE labels == <<a, b, c>>
            R == {a, b, c}
            t == Sum(weight, R)
            p == LabelShare(labels, weight, t)
            v == Distribution(labels, weight)
            x == weight[a]
            y == weight[b]
            z == weight[c]
<1>1. Distinct(labels, 3) /\ Range(labels) = R
  BY DEF Distinct, IsInjective, Range
<1>2. IsFiniteSet(R) /\ a \in R /\ b \in R /\ c \in R
  <2>1. IsFiniteSet({a}) /\ {a, b} = {a} \cup {b} /\ {a, b, c} = {a, b} \cup {c}
    BY FS_Singleton
  <2>2. IsFiniteSet({a, b})
    BY <2>1, FS_AddElement
  <2>3. IsFiniteSet({a, b, c})
    BY <2>1, <2>2, FS_AddElement
  <2>. QED
    BY <2>3
<1>3. /\ x \in Int /\ 1 <= x /\ x <= 1000 /\ y \in Int /\ 1 <= y /\ y <= 1000
      /\ z \in Int /\ 1 <= z /\ z <= 1000
  BY <1>1, <1>2 DEF Weighted
<1>4. Ints(weight, R)
  BY <1>1 DEF Ints, Weighted
<1>. HIDE DEF R, labels, t, v
<1>5. t = x + y + z
  <2>1. PICK it : Adds(it, weight, R) /\ it[R] = t
    BY <1>2, <1>4, SumIs DEF t
  <2>2. it[{a, b, c}] = weight[a] + weight[b] + weight[c]
    BY <2>1, <1>4, AddThree DEF R
  <2>. QED
    BY <2>1, <2>2 DEF R
<1>6. \A l \in R : weight[l] <= t
  <2>. HIDE DEF x, y, z
  <2>1. x <= t /\ y <= t /\ z <= t
    BY <1>3, <1>5
  <2>. QED
    BY <2>1 DEF R, x, y, z
<1>. HIDE DEF x, y, z
<1>7. t \in Nat \ {0}
  BY <1>3, <1>5
<1>. HIDE DEF p
<1>0. Weighted(labels, weight)
  BY DEF labels
<1>8. SharesIn(p, labels, weight, t)
  BY <1>0, <1>1, <1>6, <1>7, LabelSharesIn DEF p
<1>9. Mass(p) \in Int /\ Mass(p) <= 1000 /\ 996 <= Mass(p)
  <2>. DEFINE q == p[a]
              r == p[b]
              s == p[c]
  <2>1. DOMAIN p = R /\ Shares(q, x, t) /\ Shares(r, y, t) /\ Shares(s, z, t)
    BY <1>1, <1>2, <1>8 DEF SharesIn, x, y, z
  <2>2. Ints(p, R)
    BY <1>1, <1>8 DEF Ints, SharesIn, Shares
  <2>3. PICK it : Adds(it, p, R) /\ it[R] = Sum(p, R)
    BY <1>2, <2>2, SumIs
  <2>4. it[{a, b, c}] = p[a] + p[b] + p[c]
    <3>1. {a, b, c} \subseteq R /\ Adds(it, p, R)
      BY <1>2, <2>3
    <3>. QED
      BY <2>2, <3>1, AddThree
  <2>5. Mass(p) = Sum(p, R)
    BY <2>1 DEF Mass, Sum
  <2>6. Mass(p) = q + r + s
    BY <2>3, <2>4, <2>5 DEF R
  <2>. HIDE DEF q, r, s
  <2>7. x \in OneWeight /\ y \in OneWeight /\ z \in OneWeight
    BY <1>3 DEF OneWeight
  <2>8. q + r + s <= 1000 /\ 996 <= q + r + s
    BY <1>5, <2>1, <2>7, SharesOfThree
  <2>9. q + r + s \in Int
    BY <2>1 DEF Shares
  <2>. QED
    BY <2>6, <2>8, <2>9
<1>10. Chosen(v, labels, weight, p)
  <2>1. 3 \in Nat /\ 3 >= 2
    OBVIOUS
  <2>2. t = Sum(weight, Range(labels)) /\ p = [l \in Range(labels) |-> (weight[l] * 1000) \div t]
    BY <1>1 DEF t, p, LabelShare
  <2>. QED
    BY <1>0, <1>1, <2>1, <2>2, DistributionIs DEF v
<1>11. ValidFor(v, Choice(labels))
  <2>1. 3 \in Nat /\ 3 >= 2
    OBVIOUS
  <2>. QED
    BY <1>0, <1>1, <1>7, <1>8, <1>9, <1>10, <2>1, ChoiceStands
<1>. QED
  BY <1>11 DEF v, labels

\* An answer on four labels passes it.
LEMMA FourStand ==
  ASSUME NEW a, NEW b, NEW c, NEW d, a # b, a # c, b # c, d \notin {a, b, c},
         NEW weight, Weighted(<<a, b, c, d>>, weight)
  PROVE  ValidFor(Distribution(<<a, b, c, d>>, weight), Choice(<<a, b, c, d>>))
<1>. DEFINE labels == <<a, b, c, d>>
            R == {a, b, c, d}
            t == Sum(weight, R)
            p == LabelShare(labels, weight, t)
            v == Distribution(labels, weight)
            x == weight[a]
            y == weight[b]
            z == weight[c]
            w == weight[d]
<1>1. Distinct(labels, 4) /\ Range(labels) = R
  BY DEF Distinct, IsInjective, Range
<1>2. IsFiniteSet(R) /\ a \in R /\ b \in R /\ c \in R /\ d \in R
  <2>1. IsFiniteSet({a}) /\ {a, b} = {a} \cup {b} /\ {a, b, c} = {a, b} \cup {c}
      /\ {a, b, c, d} = {a, b, c} \cup {d}
    BY FS_Singleton
  <2>2. IsFiniteSet({a, b})
    BY <2>1, FS_AddElement
  <2>3. IsFiniteSet({a, b, c})
    BY <2>1, <2>2, FS_AddElement
  <2>4. IsFiniteSet({a, b, c, d})
    BY <2>1, <2>3, FS_AddElement
  <2>. QED
    BY <2>4
<1>3. /\ x \in Int /\ 1 <= x /\ x <= 1000 /\ y \in Int /\ 1 <= y /\ y <= 1000
      /\ z \in Int /\ 1 <= z /\ z <= 1000 /\ w \in Int /\ 1 <= w /\ w <= 1000
  BY <1>1, <1>2 DEF Weighted
<1>4. Ints(weight, R)
  BY <1>1 DEF Ints, Weighted
<1>. HIDE DEF R, labels, t, v
<1>5. t = x + y + z + w
  <2>1. PICK it : Adds(it, weight, R) /\ it[R] = t
    BY <1>2, <1>4, SumIs DEF t
  <2>2. it[{a, b, c, d}] = weight[a] + weight[b] + weight[c] + weight[d]
    BY <2>1, <1>4, AddFour DEF R
  <2>. QED
    BY <2>1, <2>2 DEF R
<1>6. \A l \in R : weight[l] <= t
  <2>. HIDE DEF x, y, z, w
  <2>1. x <= t /\ y <= t /\ z <= t /\ w <= t
    BY <1>3, <1>5
  <2>. QED
    BY <2>1 DEF R, x, y, z, w
<1>. HIDE DEF x, y, z, w
<1>7. t \in Nat \ {0}
  BY <1>3, <1>5
<1>. HIDE DEF p
<1>0. Weighted(labels, weight)
  BY DEF labels
<1>8. SharesIn(p, labels, weight, t)
  BY <1>0, <1>1, <1>6, <1>7, LabelSharesIn DEF p
<1>9. Mass(p) \in Int /\ Mass(p) <= 1000 /\ 996 <= Mass(p)
  <2>. DEFINE q == p[a]
              r == p[b]
              s == p[c]
              u == p[d]
  <2>1. /\ DOMAIN p = R /\ Shares(q, x, t) /\ Shares(r, y, t) /\ Shares(s, z, t)
        /\ Shares(u, w, t)
    BY <1>1, <1>2, <1>8 DEF SharesIn, x, y, z, w
  <2>2. Ints(p, R)
    BY <1>1, <1>8 DEF Ints, SharesIn, Shares
  <2>3. PICK it : Adds(it, p, R) /\ it[R] = Sum(p, R)
    BY <1>2, <2>2, SumIs
  <2>4. it[{a, b, c, d}] = p[a] + p[b] + p[c] + p[d]
    <3>1. {a, b, c, d} \subseteq R /\ Adds(it, p, R)
      BY <1>2, <2>3
    <3>. QED
      BY <2>2, <3>1, AddFour
  <2>5. Mass(p) = Sum(p, R)
    BY <2>1 DEF Mass, Sum
  <2>6. Mass(p) = q + r + s + u
    BY <2>3, <2>4, <2>5 DEF R
  <2>. HIDE DEF q, r, s, u
  <2>7. x \in OneWeight /\ y \in OneWeight /\ z \in OneWeight /\ w \in OneWeight
    BY <1>3 DEF OneWeight
  <2>8. q + r + s + u <= 1000 /\ 996 <= q + r + s + u
    BY <1>5, <2>1, <2>7, SharesOfFour
  <2>9. q + r + s + u \in Int
    BY <2>1 DEF Shares
  <2>. QED
    BY <2>6, <2>8, <2>9
<1>10. Chosen(v, labels, weight, p)
  <2>1. 4 \in Nat /\ 4 >= 2
    OBVIOUS
  <2>2. t = Sum(weight, Range(labels)) /\ p = [l \in Range(labels) |-> (weight[l] * 1000) \div t]
    BY <1>1 DEF t, p, LabelShare
  <2>. QED
    BY <1>0, <1>1, <2>1, <2>2, DistributionIs DEF v
<1>11. ValidFor(v, Choice(labels))
  <2>1. 4 \in Nat /\ 4 >= 2
    OBVIOUS
  <2>. QED
    BY <1>0, <1>1, <1>7, <1>8, <1>9, <1>10, <2>1, ChoiceStands
<1>. QED
  BY <1>11 DEF v, labels

\* Every choice the desks ask for is one of three or of four.
LEMMA ChoicesStand ==
  ASSUME NEW weight
  PROVE  /\ \A labels \in {FxRegimes, Framings} :
              Weighted(labels, weight) => ValidFor(Distribution(labels, weight), Choice(labels))
         /\ \A labels \in {Regimes, Actions} :
              Weighted(labels, weight) => ValidFor(Distribution(labels, weight), Choice(labels))
<1>1. Weighted(FxRegimes, weight) => ValidFor(Distribution(FxRegimes, weight), Choice(FxRegimes))
  BY ThreeStand DEF FxRegimes
<1>2. Weighted(Framings, weight) => ValidFor(Distribution(Framings, weight), Choice(Framings))
  BY ThreeStand DEF Framings
<1>3. Weighted(Regimes, weight) => ValidFor(Distribution(Regimes, weight), Choice(Regimes))
  BY FourStand DEF Regimes
<1>4. Weighted(Actions, weight) => ValidFor(Distribution(Actions, weight), Choice(Actions))
  BY FourStand DEF Actions
<1>. QED
  BY <1>1, <1>2, <1>3, <1>4

-----------------------------------------------------------------------------
(* What the rules answer *)

\* A market the rules can read: each observation has its type, or is missing.
Observed(f) ==
  /\ Feature(f, "stop_clears_noise", TRUE) \in BOOLEAN
  /\ Feature(f, "grid_notice_overlaps_discharge", FALSE) \in BOOLEAN
  /\ Feature(f, "afrr_window_active", FALSE) \in BOOLEAN
  /\ Feature(f, "reserve_breached", FALSE) \in BOOLEAN
  /\ Feature(f, "cycles_within_budget", TRUE) \in BOOLEAN
  /\ Feature(f, "hours_to_event", NoEvent) \in Int
  /\ Feature(f, "trend_strength", 0) \in Int /\ Feature(f, "trend_strength", 300) \in Int
  /\ Feature(f, "exposure_multiple", 1000) \in Int
  /\ Feature(f, "post_trade_exposure_share", 0) \in Int
  /\ Feature(f, "id_deviation_sigmas", 0) \in Int /\ Feature(f, "id_deviation_sigmas", 400) \in Int
  /\ Feature(f, "volatility_percentile", 500) \in Int /\ Feature(f, "spread_percentile", 500) \in Int
  /\ Feature(f, "stress_indicator", 0) \in Int
  /\ Feature(f, "negative_price_hours", 0) \in Int

\* The named probabilities the two desks and their checks ask for.
JudgedKeys == {"signal_valid_in_regime", "correlated_exposure_ok", "margin_plausible"}
FxKeys     == {"imminent_event", "high_impact_event", "tight_stop", "trend_pressure", "crowded_book"}
BatteryKeys == {"reserve_at_risk", "price_dislocation", "cycles_nearly_spent", "grid_constraint",
                "negative_price_hours"}

\* Each of them is a probability, whatever the market.
LEMMA NoulStands ==
  ASSUME NEW f, Observed(f), NEW key \in JudgedKeys \cup FxKeys \cup BatteryKeys
  PROVE  NoulRule(key, f) \in 0 .. 1000
<1>. DEFINE deviation == Size(Feature(f, "id_deviation_sigmas", 400))
            trend == Feature(f, "trend_strength", 300)
            Fine(x) == x \in 0 .. 1000
<1>1. deviation \in Int /\ trend \in Int
  BY DEF Size, Observed
<1>2. /\ Fine(Clamp((6 * trend) \div 5, 30, 950))
      /\ Fine(Clamp(950 - deviation \div 5, 500, 950))
      /\ Fine(Clamp(deviation \div 3, 40, 960))
  <2>. HIDE DEF deviation, trend
  <2>1. (6 * trend) \div 5 \in Int /\ 950 - deviation \div 5 \in Int /\ deviation \div 3 \in Int
    BY <1>1
  <2>2. ASSUME NEW v \in Int
        PROVE  Fine(Clamp(v, 30, 950)) /\ Fine(Clamp(v, 500, 950)) /\ Fine(Clamp(v, 40, 960))
    BY DEF Clamp, LesserOf, GreaterOf
  <2>. HIDE DEF Fine
  <2>. QED
    BY <2>1, <2>2
<1>3. Fine(ImminentEvent(Feature(f, "hours_to_event", NoEvent)))
  BY DEF ImminentEvent
<1>4. Fine(HighImpact(Feature(f, "next_event_kind", "none")))
  BY DEF HighImpact
<1>5. \A p : /\ Fine(Likely(p, 110, 880)) /\ Fine(Likely(p, 140, 900)) /\ Fine(Likely(p, 870, 120))
             /\ Fine(Likely(p, 860, 170)) /\ Fine(Likely(p, 420, 60)) /\ Fine(Likely(p, 910, 130))
             /\ Fine(Likely(p, 890, 80)) /\ Fine(Likely(p, 850, 100)) /\ Fine(120) /\ Fine(930)
  BY DEF Likely
<1>. HIDE DEF Fine, deviation, trend
<1>6. ASSUME NEW a, NEW b, NEW c, Fine(a), Fine(b) PROVE Fine(IF c THEN a ELSE b)
  BY <1>6
<1>7. /\ Fine(NoulRule("signal_valid_in_regime", f))
      /\ Fine(NoulRule("correlated_exposure_ok", f))
      /\ Fine(NoulRule("margin_plausible", f))
  <2>1. Fine(NoulRule("signal_valid_in_regime", f))
    <3>1. NoulRule("signal_valid_in_regime", f) = Likely(ReadsTrending(f), 110, 880)
      BY DEF NoulRule, deviation, trend
    <3>. QED
      BY <3>1, <1>5
  <2>2. Fine(NoulRule("correlated_exposure_ok", f))
    <3>1. NoulRule("correlated_exposure_ok", f) = Likely(ExposureDoubles(f), 140, 900)
      BY DEF NoulRule, deviation, trend
    <3>. QED
      BY <3>1, <1>5
  <2>3. Fine(NoulRule("margin_plausible", f))
    <3>1. NoulRule("margin_plausible", f) = IF DeviationImplausible(f) THEN 120 ELSE Clamp(950 - deviation \div 5, 500, 950)
      BY DEF NoulRule, deviation, trend
    <3>. QED
      BY <3>1, <1>2, <1>5
  <2>. QED
    BY <2>1, <2>2, <2>3
<1>8. /\ Fine(NoulRule("imminent_event", f))
      /\ Fine(NoulRule("high_impact_event", f))
      /\ Fine(NoulRule("tight_stop", f))
      /\ Fine(NoulRule("trend_pressure", f))
      /\ Fine(NoulRule("crowded_book", f))
  <2>1. Fine(NoulRule("imminent_event", f))
    <3>1. NoulRule("imminent_event", f) = ImminentEvent(Feature(f, "hours_to_event", NoEvent))
      BY DEF NoulRule, deviation, trend
    <3>. QED
      BY <3>1, <1>3
  <2>2. Fine(NoulRule("high_impact_event", f))
    <3>1. NoulRule("high_impact_event", f) = HighImpact(Feature(f, "next_event_kind", "none"))
      BY DEF NoulRule, deviation, trend
    <3>. QED
      BY <3>1, <1>4
  <2>3. Fine(NoulRule("tight_stop", f))
    <3>1. NoulRule("tight_stop", f) = Likely(StopTight(f), 870, 120)
      BY DEF NoulRule, deviation, trend
    <3>. QED
      BY <3>1, <1>5
  <2>4. Fine(NoulRule("trend_pressure", f))
    <3>1. NoulRule("trend_pressure", f) = Clamp((6 * trend) \div 5, 30, 950)
      BY DEF NoulRule, deviation, trend
    <3>. QED
      BY <3>1, <1>2
  <2>5. Fine(NoulRule("crowded_book", f))
    <3>1. NoulRule("crowded_book", f) = Likely(ExposureDoubles(f), 860, 170)
      BY DEF NoulRule, deviation, trend
    <3>. QED
      BY <3>1, <1>5
  <2>. QED
    BY <2>1, <2>2, <2>3, <2>4, <2>5
<1>9. /\ Fine(NoulRule("reserve_at_risk", f))
      /\ Fine(NoulRule("price_dislocation", f))
      /\ Fine(NoulRule("cycles_nearly_spent", f))
      /\ Fine(NoulRule("grid_constraint", f))
      /\ Fine(NoulRule("negative_price_hours", f))
  <2>1. Fine(NoulRule("reserve_at_risk", f))
    <3>1. NoulRule("reserve_at_risk", f) = IF DipsBelowReserve(f) THEN 930 ELSE Likely(ReservePressure(f), 420, 60)
      BY DEF NoulRule, deviation, trend
    <3>. QED
      BY <3>1 DEF Likely, Fine
  <2>2. Fine(NoulRule("price_dislocation", f))
    <3>1. NoulRule("price_dislocation", f) = Clamp(deviation \div 3, 40, 960)
      BY DEF NoulRule, deviation, trend
    <3>. QED
      BY <3>1, <1>2
  <2>3. Fine(NoulRule("cycles_nearly_spent", f))
    <3>1. NoulRule("cycles_nearly_spent", f) = Likely(CyclesNearBudget(f), 910, 130)
      BY DEF NoulRule, deviation, trend
    <3>. QED
      BY <3>1, <1>5
  <2>4. Fine(NoulRule("grid_constraint", f))
    <3>1. NoulRule("grid_constraint", f) = Likely(Feature(f, "grid_notice_overlaps_discharge", FALSE), 890, 80)
      BY DEF NoulRule, deviation, trend
    <3>. QED
      <4>1. CASE Feature(f, "grid_notice_overlaps_discharge", FALSE)
        BY <3>1, <4>1 DEF Likely, Fine
      <4>2. CASE ~ Feature(f, "grid_notice_overlaps_discharge", FALSE)
        BY <3>1, <4>2 DEF Likely, Fine
      <4>. QED
        BY <4>1, <4>2
  <2>5. Fine(NoulRule("negative_price_hours", f))
    <3>1. NoulRule("negative_price_hours", f) = Likely(Feature(f, "negative_price_hours", 0) >= 1, 850, 100)
      BY DEF NoulRule, deviation, trend
    <3>. QED
      BY <3>1, <1>5
  <2>. QED
    BY <2>1, <2>2, <2>3, <2>4, <2>5
<1>10. Fine(NoulRule(key, f))
  BY <1>7, <1>8, <1>9, Zenon DEF JudgedKeys, FxKeys, BatteryKeys
<1>. QED
  BY <1>10 DEF Fine

\* Every regime has a weight from one to a thousand.
LEMMA RegimeWeighs ==
  ASSUME NEW f, Observed(f), NEW l \in Range(Regimes) \cup Range(FxRegimes)
  PROVE  RegimeWeight(l, f) \in Int /\ 1 <= RegimeWeight(l, f) /\ RegimeWeight(l, f) <= 1000
<1>. DEFINE vol    == Feature(f, "volatility_percentile", 500)
            spread == Feature(f, "spread_percentile", 500)
            trend  == Feature(f, "trend_strength", 300)
            stress == Feature(f, "stress_indicator", 0)
            hours  == Feature(f, "hours_to_event", NoEvent)
            Fine(x) == x \in Int /\ 1 <= x /\ x <= 1000
<1>1. vol \in Int /\ spread \in Int /\ trend \in Int /\ stress \in Int /\ hours \in Int
  BY DEF Observed
<1>2. \/ /\ l = "normal" /\ RegimeWeight(l, f) = Clamp(1200 - vol - stress, 50, 1000)
      \/ /\ l = "volatile" /\ RegimeWeight(l, f) = Clamp((14 * vol - 5 * stress) \div 10, 50, 1000)
      \/ /\ l = "illiquid" /\ RegimeWeight(l, f) = Clamp((3 * spread) \div 2, 50, 1000)
      \/ /\ l = "stressed" /\ RegimeWeight(l, f) = Clamp((8 * stress) \div 5, 30, 1000)
      \/ /\ l = "ranging" /\ RegimeWeight(l, f) = Clamp(1100 - trend - (2 * vol) \div 5, 50, 1000)
      \/ /\ l = "trending" /\ RegimeWeight(l, f) = Clamp((3 * trend) \div 2, 50, 1000)
      \/ RegimeWeight(l, f) \in {1000, 350, 70}
  <2>1. l \in {"normal", "volatile", "illiquid", "stressed", "ranging", "trending", "event_driven"}
    BY DEF Regimes, FxRegimes, Range
  <2>. QED
    BY <2>1 DEF RegimeWeight
<1>. HIDE DEF vol, spread, trend, stress, hours
<1>3. /\ 1200 - vol - stress \in Int /\ (14 * vol - 5 * stress) \div 10 \in Int
      /\ (3 * spread) \div 2 \in Int /\ (8 * stress) \div 5 \in Int
      /\ 1100 - trend - (2 * vol) \div 5 \in Int /\ (3 * trend) \div 2 \in Int
  BY <1>1
<1>4. ASSUME NEW v \in Int PROVE Fine(Clamp(v, 50, 1000)) /\ Fine(Clamp(v, 30, 1000))
  BY DEF Clamp, LesserOf, GreaterOf
<1>. HIDE DEF Fine
<1>5. Fine(1000) /\ Fine(350) /\ Fine(70)
  BY DEF Fine
<1>6. Fine(RegimeWeight(l, f))
  BY <1>2, <1>3, <1>4, <1>5
<1>. QED
  BY <1>6 DEF Fine

\* The pressure of an imminent release.
EventRisk(f) == IF Feature(f, "next_event_kind", "none") \in {"CPI", "NFP", "FOMC"} THEN 920 ELSE 680

\* The pressures that are present.
Presses(f, risen) ==
  \/ risen = 80
  \/ EventImminent(f) /\ risen = EventRisk(f)
  \/ ~ EventImminent(f) /\ Feature(f, "hours_to_event", NoEvent) <= 12 /\ risen = 400
  \/ ReadsTrending(f) /\ risen = 600
  \/ ExposureDoubles(f) /\ risen = 620
  \/ DipsBelowReserve(f) /\ risen = 880
  \/ ~ DipsBelowReserve(f) /\ ReservePressure(f) /\ risen = 450
  \/ DeviationImplausible(f) /\ risen = 800
  \/ CyclesNearBudget(f) /\ risen = 580
  \/ AnyCheckFails(f) /\ risen = 550

\* The largest of the pressures.
Largest(n, f) ==
  n \in Int /\ n <= 920 /\ Presses(f, n) /\ \A risen \in Int : Presses(f, risen) => risen <= n

\* The risk is the largest pressure present (mock.rs risk_fraction).
LEMMA RiskIs ==
  ASSUME NEW f
  PROVE  Largest(RiskFraction(f), f)
<1>. DEFINE P == {80}
        \cup (IF EventImminent(f) THEN {EventRisk(f)} ELSE {})
        \cup (IF ~ EventImminent(f) /\ Feature(f, "hours_to_event", NoEvent) <= 12 THEN {400} ELSE {})
        \cup (IF ReadsTrending(f) THEN {600} ELSE {})
        \cup (IF ExposureDoubles(f) THEN {620} ELSE {})
        \cup (IF DipsBelowReserve(f) THEN {880} ELSE {})
        \cup (IF ~ DipsBelowReserve(f) /\ ReservePressure(f) THEN {450} ELSE {})
        \cup (IF DeviationImplausible(f) THEN {800} ELSE {})
        \cup (IF CyclesNearBudget(f) THEN {580} ELSE {})
        \cup (IF AnyCheckFails(f) THEN {550} ELSE {})
<1>1. RiskFraction(f) = Max(P)
  BY Zenon DEF RiskFraction, EventRisk
<1>2. EventRisk(f) \in {920, 680}
  BY DEF EventRisk
<1>3. ASSUME NEW y PROVE y \in P <=> Presses(f, y)
  BY DEF Presses
<1>4. ASSUME NEW y, Presses(f, y) PROVE y \in Int /\ 0 <= y /\ y <= 920
  BY <1>2, <1>4 DEF Presses
<1>5. 80 \in P
  OBVIOUS
<1>. HIDE DEF P
<1>6. \A y \in P : y \in Int /\ 0 <= y /\ y <= 1000
  BY <1>3, <1>4
<1>7. Max(P) \in P /\ \A y \in P : y <= Max(P)
  BY <1>5, <1>6, MostIs
<1>. QED
  BY <1>1, <1>3, <1>4, <1>7 DEF Largest

\* What the two numbers of an answer on a rubric come to.
LEMMA RiskStandsUp ==
  ASSUME NEW f, Observed(f)
  PROVE  /\ Fraction(RiskAnswer(f)) = RiskFraction(f)
         /\ ValidFor(RiskAnswer(f), Rubric(RiskLevels))
<1>1. RiskFraction(f) \in 0 .. 1000
  <2>1. Largest(RiskFraction(f), f) /\ Presses(f, 80)
    BY RiskIs DEF Presses
  <2>. QED
    BY <2>1 DEF Largest
<1>2. RiskLevels \in RubricSizes
  BY DEF RiskLevels, RubricSizes
<1>3. /\ SaysFraction(RiskAnswer(f), RiskLevels, RiskFraction(f))
      /\ ValidFor(RiskAnswer(f), Rubric(RiskLevels))
  BY <1>1, <1>2, ScoreIs, ScoreStands DEF RiskAnswer
<1>. QED
  BY <1>3 DEF SaysFraction

\* The solver's size is read back as it was decided.
LEMMA GateStandsUp ==
  ASSUME NEW f, NEW priors
  PROVE  /\ ActionAnswer(f, priors).label = Decide(f, priors).action
         /\ Fraction(SizeAnswer(f, priors)) = Decide(f, priors).size
         /\ GateStands(f, priors)
<1>. DEFINE d == Decide(f, priors)
            weight == [a \in Range(Actions) |-> GateWeight(a, f, priors)]
<1>1. d \in Verdicts6
  BY DecideIsMostCautious, ApplicableAreVerdicts
<1>2. d.action \in Range(Actions) /\ d.size \in 0 .. 1000
  BY <1>1 DEF Verdicts6, Execute, Reduce, Hold, Escalate, Verdict, Actions, Range
<1>3. Weighted(Actions, weight)
  BY DEF Weighted, GateWeight
<1>4. Outweighs(d.action, Actions, weight)
  BY <1>2 DEF Outweighs, GateWeight
<1>5. ActionAnswer(f, priors).label = d.action
  <2>1. Heaviest(Actions, weight) = d.action
    <3>1. DOMAIN Actions = 1 .. 4 /\ 4 \in Nat \ {0}
      BY DEF Actions
    <3>. HIDE DEF weight, d
    <3>. QED
      BY <1>3, <1>4, <3>1, HeaviestIsOnly
  <2>. QED
    BY <2>1 DEF ActionAnswer, Distribution
<1>6. ValidFor(ActionAnswer(f, priors), Choice(Actions))
  BY <1>3, ChoicesStand DEF ActionAnswer
<1>7. SizeLevels \in RubricSizes
  BY DEF SizeLevels, RubricSizes
<1>8. Fraction(SizeAnswer(f, priors)) = d.size /\ ValidFor(SizeAnswer(f, priors), Rubric(SizeLevels))
  <2>1. /\ SaysFraction(SizeAnswer(f, priors), SizeLevels, d.size)
        /\ ValidFor(SizeAnswer(f, priors), Rubric(SizeLevels))
    BY <1>2, <1>7, ScoreIs, ScoreStands DEF SizeAnswer
  <2>. QED
    BY <2>1 DEF SaysFraction
<1>9. Consistent(d.action, SizeFor(d.action, d.size))
  <2>1. \A s \in {750, 500, 250} : s \in 0 .. Unit /\ Single[s] \in Int /\ 0 < Single[s] /\ Single[s] < Unit
    <3>1. ASSUME NEW s \in {750, 500, 250} PROVE Single[s] \in Int /\ 0 < Single[s] /\ Single[s] < 1000
      <4>1. s \in 0 .. Unit /\ 250 <= s /\ s <= 750 /\ s \in Int
        BY <3>1, ThousandthsAssumption
      <4>2. Single[s] \in Int /\ Single[s] - s <= Grain /\ s - Single[s] <= Grain
        <5>1. Single[s] \in 0 .. Unit
          BY <4>1, SingleAssumption
        <5>2. Single[s] - s <= Grain /\ s - Single[s] <= Grain
          BY <4>1, SingleAssumption, Zenon
        <5>. QED
          BY <5>1, <5>2
      <4>3. Grain \in Int /\ Grain < 250
        BY UnitAssumption, GrainAssumption
      <4>. DEFINE x == Single[s]
      <4>4. x \in Int /\ x - s <= Grain /\ s - x <= Grain
        BY <4>2
      <4>. HIDE DEF x
      <4>5. 0 < x /\ x < 1000
        BY <4>1, <4>3, <4>4
      <4>. QED
        BY <4>4, <4>5 DEF x
    <3>2. \A s \in {750, 500, 250} : s \in 0 .. Unit
      BY ThousandthsAssumption
    <3>. QED
      BY <3>1, <3>2, ThousandthsAssumption
  <2>2. CASE d.action = "reduce"
    <3>1. d.size \in {750, 500, 250}
      BY <1>1, <2>2 DEF Verdicts6, Execute, Reduce, Hold, Escalate, Verdict
    <3>. QED
      BY <2>1, <2>2, <3>1 DEF Consistent, SizeFor, Acts
  <2>3. CASE d.action # "reduce"
    BY <1>2, <2>3, ThousandthsAssumption DEF Consistent, SizeFor, Acts, Actions, Range
  <2>. QED
    BY <2>2, <2>3
<1>. QED
  BY <1>5, <1>6, <1>8, <1>9 DEF GateStands, GateOut

-----------------------------------------------------------------------------
(* What the rules are shown *)

\* A world of each desk, as its assumption has it.
FxShape(w) ==
  /\ w \in [desk : {"fx"}, at : Nat, legs : SUBSET STRING, clear : BOOLEAN,
            calendar : Seq([at : Nat, kind : STRING, currency : STRING]),
            trend : Int, vol : Int, multiple : Int, share : Int]
  /\ \A i, j \in DOMAIN w.calendar :
       /\ w.calendar[i].at % 24 \in 8 .. 14
       /\ i < j => w.calendar[i].at <= w.calendar[j].at

BatteryShape(w) ==
  /\ w \in [desk : {"battery"}, afrr : BOOLEAN, notes : SUBSET (Nat \X Nat),
            block : [Range(Kinds) -> {<<>>} \cup (Nat \X Nat)],
            dips : SUBSET Range(Kinds), spent : SUBSET Range(Kinds),
            vol : Int, spread : Int, deviation : Int, negative : Int]
  /\ "reserve_heavy" \notin w.dips

\* A release at or after the candidate that touches a leg.
Touches(w, i) == w.calendar[i].at >= w.at /\ w.calendar[i].currency \in w.legs

\* The types of a forex world, field by field.
LEMMA FxTypes ==
  ASSUME NEW w, FxShape(w)
  PROVE  /\ w.clear \in BOOLEAN /\ w.trend \in Int /\ w.vol \in Int /\ w.multiple \in Int
         /\ w.share \in Int /\ w.at \in Nat
         /\ w.calendar \in Seq([at : Nat, kind : STRING, currency : STRING])
         /\ Len(w.calendar) \in Nat /\ DOMAIN w.calendar = 1 .. Len(w.calendar)
         /\ \A i \in DOMAIN w.calendar :
              /\ w.calendar[i] \in [at : Nat, kind : STRING, currency : STRING]
              /\ w.calendar[i].at \in Nat
<1>. DEFINE c == w.calendar
<1>1. /\ w.clear \in BOOLEAN /\ w.trend \in Int /\ w.vol \in Int /\ w.multiple \in Int
      /\ w.share \in Int /\ w.at \in Nat
      /\ c \in Seq([at : Nat, kind : STRING, currency : STRING])
  BY DEF FxShape
<1>. HIDE DEF c
<1>2. Len(c) \in Nat /\ DOMAIN c = 1 .. Len(c)
  BY <1>1
<1>3. \A i \in DOMAIN c : c[i] \in [at : Nat, kind : STRING, currency : STRING]
  <2>. DEFINE S == [at : Nat, kind : STRING, currency : STRING]
  <2>1. c \in Seq(S)
    BY <1>1
  <2>. HIDE DEF S
  <2>2. \A i \in DOMAIN c : c[i] \in S
    BY <1>2, <2>1
  <2>. QED
    BY <2>2 DEF S
<1>4. \A i \in DOMAIN c : c[i].at \in Nat
  BY <1>3
<1>. QED
  BY <1>1, <1>2, <1>3, <1>4 DEF c

\* The first release that touches the candidate, or none.
ComesNext(i, w) ==
  \/ i = 0 /\ \A j \in DOMAIN w.calendar : ~ Touches(w, j)
  \/ /\ i \in DOMAIN w.calendar /\ i # 0 /\ Touches(w, i)
     /\ \A j \in DOMAIN w.calendar : Touches(w, j) => i <= j

\* NextEvent finds it (fx/lib.rs next_event_for).
LEMMA NextEventIs ==
  ASSUME NEW w, FxShape(w)
  PROVE  ComesNext(NextEvent(w), w)
<1>. DEFINE n == Len(w.calendar)
            I == {i \in 1 .. n : Touches(w, i)}
<1>1. n \in Nat /\ DOMAIN w.calendar = 1 .. n
  BY DEF FxShape
<1>2. NextEvent(w) = IF I # {} THEN Min(I) ELSE 0
  BY DEF NextEvent, SelectInSeq, Touches
<1>. HIDE DEF n
<1>3. \A i \in 1 .. n : i \in Int /\ i # 0
  BY <1>1
<1>4. CASE I = {}
  BY <1>1, <1>2, <1>4 DEF ComesNext
<1>5. CASE I # {}
  <2>1. I \in SUBSET (1 .. n)
    OBVIOUS
  <2>. HIDE DEF I
  <2>2. PICK x \in I : \A y \in I : x <= y
    BY <1>1, <1>5, <2>1, Summing!Extremes
  <2>3. Min(I) \in I /\ \A y \in I : Min(I) <= y
    BY <2>2 DEF Min
  <2>. QED
    BY <1>1, <1>2, <1>3, <1>5, <2>3 DEF ComesNext, I
<1>. QED
  BY <1>4, <1>5

\* The features of a forex candidate can be read by the rules.
LEMMA FxObserved ==
  ASSUME NEW w, FxShape(w)
  PROVE  Observed(FxFeatures(w))
<1>1. ComesNext(NextEvent(w), w)
  BY NextEventIs
<1>2. /\ w.clear \in BOOLEAN /\ w.trend \in Int /\ w.vol \in Int /\ w.multiple \in Int
      /\ w.share \in Int /\ w.at \in Nat
      /\ \A i \in DOMAIN w.calendar : w.calendar[i].at \in Nat
  BY FxTypes
<1>3. CASE NextEvent(w) = 0
  BY <1>2, <1>3 DEF FxFeatures, Feature, Observed, NoEvent
<1>4. CASE NextEvent(w) # 0
  <2>1. w.calendar[NextEvent(w)].at - w.at \in Int
    BY <1>1, <1>2, <1>4 DEF ComesNext
  <2>. QED
    BY <1>2, <1>4, <2>1 DEF FxFeatures, Feature, Observed, NoEvent
<1>. QED
  BY <1>3, <1>4

\* So can those of a schedule of a battery's day.
LEMMA BatteryObserved ==
  ASSUME NEW w, BatteryShape(w), NEW kind
  PROVE  Observed(BatteryFeatures(w, kind))
<1>. DEFINE overlaps == \E note \in w.notes : Overlaps(note, w.block[kind])
            deviation == LesserOf(Size(w.deviation), 3000) \div 3
            stress == Clamp((4 * w.vol + 3 * deviation + (IF overlaps THEN 3 * Unit ELSE 0)) \div 10, 0, Unit)
            f == BatteryFeatures(w, kind)
<1>1. /\ w.vol \in Int /\ w.spread \in Int /\ w.deviation \in Int /\ w.negative \in Int
      /\ w.afrr \in BOOLEAN
  BY DEF BatteryShape
<1>2. overlaps \in BOOLEAN
  OBVIOUS
<1>3. stress \in Int
  <2>1. deviation \in Int
    BY <1>1 DEF LesserOf, Size
  <2>. HIDE DEF deviation, overlaps
  <2>. QED
    BY <1>1, <1>2, <2>1, ThousandthsAssumption DEF Clamp, LesserOf, GreaterOf
<1>4. f = [volatility_percentile |-> w.vol, spread_percentile |-> w.spread,
           stress_indicator |-> stress, negative_price_hours |-> w.negative,
           afrr_window_active |-> w.afrr, grid_notice_overlaps_discharge |-> overlaps,
           id_deviation_sigmas |-> w.deviation, reserve_breached |-> w.afrr /\ kind \in w.dips,
           cycles_within_budget |-> kind \notin w.spent]
  BY DEF BatteryFeatures
<1>. HIDE DEF overlaps, stress, f
<1>5. Observed(f)
  BY <1>1, <1>2, <1>3, <1>4 DEF Observed, Feature, NoEvent
<1>. QED
  BY <1>5 DEF f

\* The places of a set of positions are those the laws of folds speak of.
LEMMA SamePlaces ==
  /\ \A I : Cardinality(I) = Summing!Cardinality(I)
  /\ \A I, m : Nth(I, m) = Summing!Nth(I, m)
  /\ \A s, I : At(s, I) = Summing!At(s, I)
<1>1. \A I : Cardinality(I) = Summing!Cardinality(I)
  BY Zenon DEF Cardinality, Summing!Cardinality, IsFiniteSet, Summing!IsFiniteSet
<1>2. \A I, m : Nth(I, m) = Summing!Nth(I, m)
  BY <1>1 DEF Nth, Summing!Nth
<1>. QED
  BY <1>1, <1>2 DEF At, Summing!At

\* Without the releases of its day, a candidate's world is the same but for them.
LEMMA WithoutEventsIs ==
  ASSUME NEW w, FxShape(w)
  PROVE  LET u == WithoutEvents(w) IN
         /\ FxShape(u)
         /\ u.at = w.at /\ u.legs = w.legs /\ u.clear = w.clear /\ u.trend = w.trend
         /\ u.vol = w.vol /\ u.multiple = w.multiple /\ u.share = w.share
         /\ \A m \in DOMAIN u.calendar : \E i \in DOMAIN w.calendar :
              u.calendar[m] = w.calendar[i] /\ w.calendar[i].at \div 24 # w.at \div 24
<1>. DEFINE c == w.calendar
            n == Len(c)
            I == {i \in DOMAIN c : c[i].at \div 24 # w.at \div 24}
            S == [at : Nat, kind : STRING, currency : STRING]
            d == At(c, I)
            u == WithoutEvents(w)
<1>1. u = [w EXCEPT !.calendar = d]
  BY DEF WithoutEvents
<1>2. n \in Nat /\ DOMAIN c = 1 .. n /\ \A i \in DOMAIN c : c[i] \in S
  BY FxTypes
<1>3. I \in SUBSET (1 .. n)
  BY <1>2
<1>. HIDE DEF c, n, S
<1>4. \A i \in I : c[i] \in S
  BY <1>2
<1>0. \A i \in I : i \in DOMAIN c /\ c[i].at \div 24 # w.at \div 24
  OBVIOUS
<1>. HIDE DEF I, d
<1>5. d \in Seq(S) /\ Len(d) = Cardinality(I)
  BY <1>2, <1>3, <1>4, Summing!AtType, SamePlaces DEF d
<1>6. /\ Cardinality(I) \in Nat
      /\ \A m \in 1 .. Cardinality(I) : Nth(I, m) \in I
      /\ \A m, k \in 1 .. Cardinality(I) : m < k => Nth(I, m) < Nth(I, k)
  <2>1. /\ Summing!Cardinality(I) \in Nat
        /\ \A m \in 1 .. Summing!Cardinality(I) : Summing!Nth(I, m) \in I
        /\ \A m, k \in 1 .. Summing!Cardinality(I) : m < k => Summing!Nth(I, m) < Summing!Nth(I, k)
    BY <1>2, <1>3, Summing!NthLists
  <2>. QED
    BY <2>1, SamePlaces
<1>7. DOMAIN d = 1 .. Cardinality(I) /\ \A m \in DOMAIN d : d[m] = c[Nth(I, m)]
  BY DEF d, At
<1>8. \A i, j \in DOMAIN c : c[i].at % 24 \in 8 .. 14 /\ (i < j => c[i].at <= c[j].at)
  BY DEF c, FxShape
<1>9. \A m, k \in DOMAIN d : d[m].at % 24 \in 8 .. 14 /\ (m < k => d[m].at <= d[k].at)
  <2>1. TAKE m, k \in DOMAIN d
  <2>2. Nth(I, m) \in DOMAIN c /\ Nth(I, k) \in DOMAIN c /\ (m < k => Nth(I, m) < Nth(I, k))
    BY <1>0, <1>6, <1>7
  <2>. QED
    BY <1>7, <1>8, <2>2
<1>10. u \in [desk : {"fx"}, at : Nat, legs : SUBSET STRING, clear : BOOLEAN, calendar : Seq(S),
              trend : Int, vol : Int, multiple : Int, share : Int] /\ u.calendar = d
      /\ u.at = w.at /\ u.legs = w.legs /\ u.clear = w.clear /\ u.trend = w.trend
      /\ u.vol = w.vol /\ u.multiple = w.multiple /\ u.share = w.share
  BY <1>1, <1>5 DEF FxShape, S
<1>11. \A m \in DOMAIN d : \E i \in DOMAIN c : d[m] = c[i] /\ c[i].at \div 24 # w.at \div 24
  BY <1>0, <1>6, <1>7
<1>. HIDE DEF u
<1>12. FxShape(u)
  BY <1>9, <1>10 DEF FxShape, S
<1>. QED
  BY <1>10, <1>11, <1>12 DEF u, c

-----------------------------------------------------------------------------
(* No stage fails *)

\* The regime passes the validation on either desk and is one of its labels.
LEMMA RegimesStand ==
  ASSUME NEW f, Observed(f)
  PROVE  /\ RegimeStands(Regimes, f) /\ RegimeAnswer(Regimes, f).label \in Range(Regimes)
         /\ RegimeStands(FxRegimes, f) /\ RegimeAnswer(FxRegimes, f).label \in Range(FxRegimes)
<1>. DEFINE four  == [l \in Range(Regimes) |-> RegimeWeight(l, f)]
            three == [l \in Range(FxRegimes) |-> RegimeWeight(l, f)]
<1>1. Weighted(Regimes, four) /\ Weighted(FxRegimes, three)
  BY RegimeWeighs DEF Weighted
<1>2. ValidFor(Distribution(Regimes, four), Choice(Regimes))
  BY <1>1, ChoicesStand
<1>3. ValidFor(Distribution(FxRegimes, three), Choice(FxRegimes))
  BY <1>1, ChoicesStand
<1>4. /\ DOMAIN Regimes = 1 .. 4 /\ 4 \in Nat \ {0}
      /\ DOMAIN FxRegimes = 1 .. 3 /\ 3 \in Nat \ {0}
  BY DEF Regimes, FxRegimes
<1>5. /\ RegimeAnswer(Regimes, f) = Distribution(Regimes, four)
      /\ RegimeAnswer(FxRegimes, f) = Distribution(FxRegimes, three)
  BY DEF RegimeAnswer
<1>. HIDE DEF four, three
<1>6. /\ Heaviest(Regimes, four) \in Range(Regimes)
      /\ Heaviest(FxRegimes, three) \in Range(FxRegimes)
  BY <1>1, <1>4, HeaviestIs
<1>7. /\ Distribution(Regimes, four).label = Heaviest(Regimes, four)
      /\ Distribution(FxRegimes, three).label = Heaviest(FxRegimes, three)
  BY DEF Distribution
<1>. QED
  BY <1>2, <1>3, <1>5, <1>6, <1>7 DEF RegimeStands

\* The fraction each schedule is ranked by.
Ranks(f) == [k \in Range(Kinds) |-> Fraction(FitAnswer(k, f))]

\* The ranking stands, and under pressure the schedule that keeps the reserve leads it.
LEMMA FitsStandUp ==
  ASSUME NEW f
  PROVE  /\ FitsStand(f) /\ Heaviest(Kinds, Ranks(f)) \in Range(Kinds)
         /\ ReservePressure(f) => Heaviest(Kinds, Ranks(f)) = "reserve_heavy"
<1>1. Range(Kinds) = {"reserve_heavy", "balanced", "aggressive"} /\ DOMAIN Kinds = 1 .. 3
      /\ 3 \in Nat \ {0}
  BY DEF Kinds, Range
<1>2. \A k \in Range(Kinds) : RankFit(k, f) \in 1 .. 1000
  BY <1>1 DEF RankFit
<1>3. FitLevels \in RubricSizes
  BY DEF FitLevels, RubricSizes
<1>4. ASSUME NEW k \in Range(Kinds)
      PROVE  Fraction(FitAnswer(k, f)) = RankFit(k, f) /\ ValidFor(FitAnswer(k, f), Rubric(FitLevels))
  <2>1. RankFit(k, f) \in 0 .. 1000
    BY <1>2
  <2>2. SaysFraction(FitAnswer(k, f), FitLevels, RankFit(k, f)) /\ ValidFor(FitAnswer(k, f), Rubric(FitLevels))
    BY <2>1, <1>3, ScoreIs, ScoreStands DEF FitAnswer
  <2>. QED
    BY <2>2 DEF SaysFraction
<1>. DEFINE rank == Ranks(f)
<1>5. \A k \in Range(Kinds) : rank[k] = RankFit(k, f)
  BY <1>4 DEF Ranks
<1>. HIDE DEF rank
<1>6. Weighted(Kinds, rank)
  <2>1. \A k \in Range(Kinds) : RankFit(k, f) \in Int /\ 1 <= RankFit(k, f) /\ RankFit(k, f) <= 1000
    BY <1>2
  <2>. QED
    BY <1>5, <2>1 DEF Weighted
<1>7. Heaviest(Kinds, rank) \in Range(Kinds)
  BY <1>1, <1>6, HeaviestIs
<1>8. ASSUME ReservePressure(f) PROVE Heaviest(Kinds, rank) = "reserve_heavy"
  <2>1. rank["reserve_heavy"] = 1000 /\ rank["balanced"] = 500 /\ rank["aggressive"] = 120
    BY <1>1, <1>5, <1>8 DEF RankFit
  <2>2. Outweighs("reserve_heavy", Kinds, rank)
    BY <1>1, <2>1 DEF Outweighs
  <2>. QED
    BY <1>1, <1>6, <2>2, HeaviestIsOnly
<1>9. FitsStand(f)
  BY <1>4 DEF FitsStand
<1>. QED
  BY <1>7, <1>8, <1>9 DEF rank

\* The risk and every driver asked with it pass the validation.
LEMMA RisksStand ==
  ASSUME NEW f, Observed(f)
  PROVE  RiskStands(FxDrivers, f) /\ RiskStands(Drivers, f)
<1>1. Range(FxDrivers) = FxKeys /\ Range(Drivers) = BatteryKeys
  BY DEF FxDrivers, Drivers, Range, FxKeys, BatteryKeys
<1>2. \A d \in FxKeys \cup BatteryKeys : ValidFor(NoulAnswer(d, f), Noul)
  <2>1. \A d \in FxKeys \cup BatteryKeys : NoulRule(d, f) \in 0 .. Unit
    BY NoulStands, ThousandthsAssumption
  <2>. QED
    BY <2>1 DEF ValidFor, NoulAnswer, Noul, InRange
<1>3. ValidFor(RiskAnswer(f), Rubric(RiskLevels))
  BY RiskStandsUp
<1>. QED
  BY <1>1, <1>2, <1>3 DEF RiskStands

\* So does every named check.
LEMMA ChecksStandUp ==
  ASSUME NEW f, Observed(f)
  PROVE  ChecksStand(FxChecks(f)) /\ ChecksStand(BatteryChecks(f))
<1>1. \A k \in JudgedKeys : Judged(k, f).p \in 0 .. Unit
  BY NoulStands, ThousandthsAssumption DEF Judged
<1>2. \A holds : Ruled(holds).p \in 0 .. Unit
  BY ThousandthsAssumption DEF Ruled, Likely
<1>3. ChecksStand(FxChecks(f))
  BY <1>1, <1>2 DEF ChecksStand, FxChecks, InRange, JudgedKeys
<1>4. ChecksStand(BatteryChecks(f))
  BY <1>1, <1>2 DEF ChecksStand, BatteryChecks, InRange, JudgedKeys
<1>. QED
  BY <1>3, <1>4

-----------------------------------------------------------------------------
(* What the checks say of a market, and the gate of the checks *)

\* A judged check fails exactly on the condition it names (mock.rs noul rules).
LEMMA JudgedTell ==
  ASSUME NEW f, Observed(f)
  PROVE  /\ Judged("signal_valid_in_regime", f).ok <=> ~ ReadsTrending(f)
         /\ Judged("correlated_exposure_ok", f).ok <=> ~ ExposureDoubles(f)
         /\ Judged("margin_plausible", f).ok <=> ~ DeviationImplausible(f)
<1>. DEFINE deviation == Size(Feature(f, "id_deviation_sigmas", 400))
            v == 950 - deviation \div 5
            c == Clamp(v, 500, 950)
<1>0. Threshold \in Int /\ 141 <= Threshold /\ Threshold <= 500
  BY ThresholdAssumption
<1>1. c \in Int /\ 500 <= c
  <2>1. v \in Int
    BY DEF Size, Observed
  <2>. HIDE DEF v
  <2>. QED
    BY <2>1 DEF Clamp, LesserOf, GreaterOf
<1>2. NoulRule("signal_valid_in_regime", f) = IF ReadsTrending(f) THEN 110 ELSE 880
  BY DEF NoulRule, Likely
<1>3. NoulRule("correlated_exposure_ok", f) = IF ExposureDoubles(f) THEN 140 ELSE 900
  BY DEF NoulRule, Likely
<1>4. NoulRule("margin_plausible", f) = IF DeviationImplausible(f) THEN 120 ELSE c
  BY DEF NoulRule
<1>. HIDE DEF c
<1>8. \A key : Judged(key, f).ok <=> NoulRule(key, f) >= Threshold
  BY DEF Judged
<1>5. Judged("signal_valid_in_regime", f).ok <=> ~ ReadsTrending(f)
  BY <1>0, <1>2, <1>8
<1>6. Judged("correlated_exposure_ok", f).ok <=> ~ ExposureDoubles(f)
  BY <1>0, <1>3, <1>8
<1>7. Judged("margin_plausible", f).ok <=> ~ DeviationImplausible(f)
  BY <1>0, <1>1, <1>4, <1>8
<1>. QED
  BY <1>5, <1>6, <1>7

\* The three checks of a forex decision, each with its condition.
LEMMA FxChecksTell ==
  ASSUME NEW w, FxShape(w)
  PROVE  LET f == FxFeatures(w)
             cs == FxChecks(f)
         IN  /\ DOMAIN cs = {"stop_sane", "signal_valid_in_regime", "correlated_exposure_ok"}
             /\ cs["stop_sane"].ok <=> ~ StopTight(f)
             /\ cs["signal_valid_in_regime"].ok <=> ~ ReadsTrending(f)
             /\ cs["correlated_exposure_ok"].ok <=> ~ ExposureDoubles(f)
<1>. DEFINE f == FxFeatures(w)
<1>1. Observed(f)
  BY FxObserved
<1>2. f.stop_clears_noise = Feature(f, "stop_clears_noise", TRUE)
  BY DEF FxFeatures, Feature
<1>. HIDE DEF f
<1>3. Ruled(f.stop_clears_noise).ok <=> ~ StopTight(f)
  BY <1>1, <1>2 DEF Ruled, StopTight, Observed
<1>. QED
  BY <1>1, <1>3, JudgedTell DEF FxChecks, f

\* The three checks of a battery decision, each with its condition.
LEMMA BatteryChecksTell ==
  ASSUME NEW w, BatteryShape(w), NEW kind
  PROVE  LET f == BatteryFeatures(w, kind)
             cs == BatteryChecks(f)
         IN  /\ DOMAIN cs = {"reserve_ok", "margin_plausible", "cycle_budget_ok"}
             /\ cs["reserve_ok"].ok <=> ~ DipsBelowReserve(f)
             /\ cs["margin_plausible"].ok <=> ~ DeviationImplausible(f)
             /\ cs["cycle_budget_ok"].ok <=> ~ CyclesNearBudget(f)
<1>. DEFINE f == BatteryFeatures(w, kind)
<1>1. Observed(f)
  BY BatteryObserved
<1>2. /\ f.reserve_breached = Feature(f, "reserve_breached", FALSE)
      /\ f.cycles_within_budget = Feature(f, "cycles_within_budget", TRUE)
  BY DEF BatteryFeatures, Feature
<1>. HIDE DEF f
<1>3. /\ Ruled(~ f.reserve_breached).ok <=> ~ DipsBelowReserve(f)
      /\ Ruled(f.cycles_within_budget).ok <=> ~ CyclesNearBudget(f)
  BY <1>1, <1>2 DEF Ruled, DipsBelowReserve, CyclesNearBudget, Observed
<1>. QED
  BY <1>1, <1>3, JudgedTell DEF BatteryChecks, f

\* The risk as the pipeline carries it, a whole number of a hundred.
RiskOf(f) == Percent(Fraction(RiskAnswer(f)))

\* It is the rounded fraction, and 55 at least where a check fails.
LEMMA RiskOfIs ==
  ASSUME NEW f, Observed(f)
  PROVE  /\ RiskOf(f) = (200 * RiskFraction(f) + 1000) \div 2000
         /\ RiskOf(f) \in 0 .. 100
         /\ AnyCheckFails(f) => RiskOf(f) >= 55
<1>1. RiskOf(f) = (200 * RiskFraction(f) + 1000) \div 2000
  BY RiskStandsUp, ThousandthsAssumption DEF RiskOf, Percent
<1>. DEFINE n == RiskFraction(f)
<1>2. Largest(n, f)
  BY RiskIs
<1>3. Presses(f, 80) /\ (AnyCheckFails(f) => Presses(f, 550))
  BY DEF Presses
<1>. HIDE DEF n
<1>4. n \in Int /\ 80 <= n /\ n <= 920 /\ (AnyCheckFails(f) => 550 <= n)
  BY <1>2, <1>3 DEF Largest
<1>. QED
  BY <1>1, <1>4 DEF n

\* What GateHeedsChecks says of one gate.
HeedsChecks(cs, action, scored, f) ==
  /\ (\E c \in DOMAIN cs : ~ cs[c].ok) => action # "execute" /\ scored >= 55
  /\ Size(Feature(f, "id_deviation_sigmas", 0)) > 2000 => action = "escalate"

\* A forex decision heeds its checks.
LEMMA FxGateHeeds ==
  ASSUME NEW w, FxShape(w), NEW priors,
         priors.checks = FxChecks(FxFeatures(w)), priors.risk = RiskOf(FxFeatures(w))
  PROVE  HeedsChecks(priors.checks, Decide(FxFeatures(w), priors).action, priors.risk, FxFeatures(w))
<1>. DEFINE f == FxFeatures(w)
            cs == priors.checks
<1>1. /\ DOMAIN cs = {"stop_sane", "signal_valid_in_regime", "correlated_exposure_ok"}
      /\ cs["stop_sane"].ok <=> ~ StopTight(f)
      /\ cs["signal_valid_in_regime"].ok <=> ~ ReadsTrending(f)
      /\ cs["correlated_exposure_ok"].ok <=> ~ ExposureDoubles(f)
  BY FxChecksTell
<1>2. Feature(f, "id_deviation_sigmas", 0) = 0
  BY DEF FxFeatures, Feature
<1>3. Observed(f) /\ priors.risk = RiskOf(f)
  BY FxObserved
<1>. HIDE DEF f, cs
<1>4. ASSUME NEW c \in DOMAIN cs, ~ cs[c].ok
      PROVE  Decide(f, priors).action # "execute" /\ priors.risk >= 55
  <2>1. \/ Failed(priors, "signal_valid_in_regime") \/ Failed(priors, "stop_sane")
        \/ Failed(priors, "correlated_exposure_ok")
    BY <1>1, <1>4 DEF Failed, cs
  <2>2. AnyCheckFails(f)
    BY <1>1, <1>4 DEF AnyCheckFails
  <2>. DEFINE action == Decide(f, priors).action
  <2>4. /\ Failed(priors, "margin_plausible") => action = "escalate"
        /\ Failed(priors, "reserve_ok") => action \in {"hold", "escalate"}
        /\ (\/ Failed(priors, "signal_valid_in_regime") \/ Failed(priors, "stop_sane")
            \/ Failed(priors, "correlated_exposure_ok") \/ Failed(priors, "cycle_budget_ok"))
             => action # "execute"
    BY FailedChecksCount
  <2>3. action # "execute"
    <3>. HIDE DEF action
    <3>. QED
      BY <2>1, <2>4
  <2>. QED
    BY <1>3, <2>2, <2>3, RiskOfIs
<1>5. ~ (Size(Feature(f, "id_deviation_sigmas", 0)) > 2000)
  BY <1>2 DEF Size
<1>. QED
  BY <1>4, <1>5 DEF HeedsChecks, f, cs

\* So does a battery decision, whichever schedule was chosen.
LEMMA BatteryGateHeeds ==
  ASSUME NEW w, BatteryShape(w), NEW kind, NEW priors,
         priors.checks = BatteryChecks(BatteryFeatures(w, kind)),
         priors.risk = RiskOf(BatteryFeatures(w, kind))
  PROVE  HeedsChecks(priors.checks, Decide(BatteryFeatures(w, kind), priors).action, priors.risk,
                     BatteryFeatures(w, kind))
<1>. DEFINE f == BatteryFeatures(w, kind)
            cs == priors.checks
<1>1. /\ DOMAIN cs = {"reserve_ok", "margin_plausible", "cycle_budget_ok"}
      /\ cs["reserve_ok"].ok <=> ~ DipsBelowReserve(f)
      /\ cs["margin_plausible"].ok <=> ~ DeviationImplausible(f)
      /\ cs["cycle_budget_ok"].ok <=> ~ CyclesNearBudget(f)
  BY BatteryChecksTell
<1>3. Observed(f) /\ priors.risk = RiskOf(f)
  BY BatteryObserved
<1>. HIDE DEF f, cs
<1>4. ASSUME NEW c \in DOMAIN cs, ~ cs[c].ok
      PROVE  Decide(f, priors).action # "execute" /\ priors.risk >= 55
  <2>1. \/ Failed(priors, "reserve_ok") \/ Failed(priors, "margin_plausible")
        \/ Failed(priors, "cycle_budget_ok")
    BY <1>1, <1>4 DEF Failed, cs
  <2>2. AnyCheckFails(f)
    BY <1>1, <1>4 DEF AnyCheckFails
  <2>. DEFINE action == Decide(f, priors).action
  <2>4. /\ Failed(priors, "margin_plausible") => action = "escalate"
        /\ Failed(priors, "reserve_ok") => action \in {"hold", "escalate"}
        /\ (\/ Failed(priors, "signal_valid_in_regime") \/ Failed(priors, "stop_sane")
            \/ Failed(priors, "correlated_exposure_ok") \/ Failed(priors, "cycle_budget_ok"))
             => action # "execute"
    BY FailedChecksCount
  <2>3. action # "execute"
    <3>. HIDE DEF action
    <3>. QED
      BY <2>1, <2>4
  <2>. QED
    BY <1>3, <2>2, <2>3, RiskOfIs
<1>5. ASSUME Size(Feature(f, "id_deviation_sigmas", 0)) > 2000 PROVE Decide(f, priors).action = "escalate"
  <2>1. DeviationImplausible(f)
    BY <1>5 DEF DeviationImplausible, IdDeviationSigma
  <2>2. Failed(priors, "margin_plausible")
    BY <1>1, <2>1 DEF Failed, cs
  <2>. QED
    BY <2>2, FailedChecksCount
<1>. QED
  BY <1>4, <1>5 DEF HeedsChecks, f, cs

-----------------------------------------------------------------------------
(* A candidate with and without the releases of its day *)

\* The rules that can apply to a candidate.
Applies(v, f, cs, scored) ==
  \/ v = Execute
  \/ v = Hold /\ EventPinsTightStop(f)
  \/ v = Reduce(250) /\ ~ cs["signal_valid_in_regime"].ok
  \/ v = Reduce(500) /\ ~ cs["stop_sane"].ok
  \/ v = Reduce(500) /\ ~ cs["correlated_exposure_ok"].ok
  \/ v = RiskVerdict(scored)

\* What the gate of a forex decision is shown.
FxPriors(w) ==
  [label |-> RegimeAnswer(FxRegimes, FxFeatures(w)).label, checks |-> FxChecks(FxFeatures(w)),
   risk |-> RiskOf(FxFeatures(w))]

\* The rules of the gate, one by one.
LEMMA RulesOneByOne ==
  ASSUME NEW f, NEW priors, NEW v
  PROVE  (\E r \in Rules(f, priors) : r[2] /\ v = r[1]) <=>
           (\/ v = Execute
            \/ v = Escalate /\ Failed(priors, "margin_plausible")
            \/ v = Hold /\ EventPinsTightStop(f)
            \/ v = Hold /\ Failed(priors, "reserve_ok")
            \/ v = Hold /\ priors.label = "stressed"
            \/ v = Reduce(500) /\ priors.label = "volatile" /\ CyclesNearBudget(f)
            \/ v = Reduce(250) /\ Failed(priors, "signal_valid_in_regime")
            \/ v = Reduce(500) /\ Failed(priors, "stop_sane")
            \/ v = Reduce(500) /\ Failed(priors, "correlated_exposure_ok")
            \/ v = Reduce(500) /\ Failed(priors, "cycle_budget_ok")
            \/ v = RiskVerdict(priors.risk))
<1>. DEFINE Listed ==
             \/ v = Execute
             \/ v = Escalate /\ Failed(priors, "margin_plausible")
             \/ v = Hold /\ EventPinsTightStop(f)
             \/ v = Hold /\ Failed(priors, "reserve_ok")
             \/ v = Hold /\ priors.label = "stressed"
             \/ v = Reduce(500) /\ priors.label = "volatile" /\ CyclesNearBudget(f)
             \/ v = Reduce(250) /\ Failed(priors, "signal_valid_in_regime")
             \/ v = Reduce(500) /\ Failed(priors, "stop_sane")
             \/ v = Reduce(500) /\ Failed(priors, "correlated_exposure_ok")
             \/ v = Reduce(500) /\ Failed(priors, "cycle_budget_ok")
             \/ v = RiskVerdict(priors.risk)
<1>1. ASSUME NEW r \in Rules(f, priors), r[2], v = r[1] PROVE Listed
  <2>1. CASE r = <<Execute, TRUE>>
    BY <1>1, <2>1
  <2>2. CASE r = <<Escalate, Failed(priors, "margin_plausible")>>
    BY <1>1, <2>2
  <2>3. CASE r = <<Hold, EventPinsTightStop(f)>>
    BY <1>1, <2>3
  <2>4. CASE r = <<Hold, Failed(priors, "reserve_ok")>>
    BY <1>1, <2>4
  <2>5. CASE r = <<Hold, priors.label = "stressed">>
    BY <1>1, <2>5
  <2>6. CASE r = <<Reduce(500), priors.label = "volatile" /\ CyclesNearBudget(f)>>
    BY <1>1, <2>6
  <2>7. CASE r = <<Reduce(250), Failed(priors, "signal_valid_in_regime")>>
    BY <1>1, <2>7
  <2>8. CASE r = <<Reduce(500), Failed(priors, "stop_sane")>>
    BY <1>1, <2>8
  <2>9. CASE r = <<Reduce(500), Failed(priors, "correlated_exposure_ok")>>
    BY <1>1, <2>9
  <2>10. CASE r = <<Reduce(500), Failed(priors, "cycle_budget_ok")>>
    BY <1>1, <2>10
  <2>11. CASE r = <<RiskVerdict(priors.risk), TRUE>>
    BY <1>1, <2>11
  <2>. QED
    BY <1>1, <2>1, <2>2, <2>3, <2>4, <2>5, <2>6, <2>7, <2>8, <2>9, <2>10, <2>11, Zenon DEF Rules
<1>2. ASSUME Listed PROVE \E r \in Rules(f, priors) : r[2] /\ v = r[1]
  <2>1. CASE v = Execute
    <3>1. <<Execute, TRUE>> \in Rules(f, priors)
      BY Zenon DEF Rules
    <3>. QED
      BY <2>1, <3>1
  <2>2. CASE v = Escalate /\ Failed(priors, "margin_plausible")
    <3>1. <<Escalate, Failed(priors, "margin_plausible")>> \in Rules(f, priors)
      BY Zenon DEF Rules
    <3>. QED
      BY <2>2, <3>1
  <2>3. CASE v = Hold /\ EventPinsTightStop(f)
    <3>1. <<Hold, EventPinsTightStop(f)>> \in Rules(f, priors)
      BY Zenon DEF Rules
    <3>. QED
      BY <2>3, <3>1
  <2>4. CASE v = Hold /\ Failed(priors, "reserve_ok")
    <3>1. <<Hold, Failed(priors, "reserve_ok")>> \in Rules(f, priors)
      BY Zenon DEF Rules
    <3>. QED
      BY <2>4, <3>1
  <2>5. CASE v = Hold /\ priors.label = "stressed"
    <3>1. <<Hold, priors.label = "stressed">> \in Rules(f, priors)
      BY Zenon DEF Rules
    <3>. QED
      BY <2>5, <3>1
  <2>6. CASE v = Reduce(500) /\ priors.label = "volatile" /\ CyclesNearBudget(f)
    <3>1. <<Reduce(500), priors.label = "volatile" /\ CyclesNearBudget(f)>> \in Rules(f, priors)
      BY Zenon DEF Rules
    <3>. QED
      BY <2>6, <3>1
  <2>7. CASE v = Reduce(250) /\ Failed(priors, "signal_valid_in_regime")
    <3>1. <<Reduce(250), Failed(priors, "signal_valid_in_regime")>> \in Rules(f, priors)
      BY Zenon DEF Rules
    <3>. QED
      BY <2>7, <3>1
  <2>8. CASE v = Reduce(500) /\ Failed(priors, "stop_sane")
    <3>1. <<Reduce(500), Failed(priors, "stop_sane")>> \in Rules(f, priors)
      BY Zenon DEF Rules
    <3>. QED
      BY <2>8, <3>1
  <2>9. CASE v = Reduce(500) /\ Failed(priors, "correlated_exposure_ok")
    <3>1. <<Reduce(500), Failed(priors, "correlated_exposure_ok")>> \in Rules(f, priors)
      BY Zenon DEF Rules
    <3>. QED
      BY <2>9, <3>1
  <2>10. CASE v = Reduce(500) /\ Failed(priors, "cycle_budget_ok")
    <3>1. <<Reduce(500), Failed(priors, "cycle_budget_ok")>> \in Rules(f, priors)
      BY Zenon DEF Rules
    <3>. QED
      BY <2>10, <3>1
  <2>11. CASE v = RiskVerdict(priors.risk)
    <3>1. <<RiskVerdict(priors.risk), TRUE>> \in Rules(f, priors)
      BY Zenon DEF Rules
    <3>. QED
      BY <2>11, <3>1
  <2>. QED
    BY <1>2, <2>1, <2>2, <2>3, <2>4, <2>5, <2>6, <2>7, <2>8, <2>9, <2>10, <2>11, Zenon
<1>. QED
  BY <1>1, <1>2, Zenon

\* Those of them that can apply on the forex desk.
LEMMA FxApplies ==
  ASSUME NEW w, FxShape(w), NEW v
  PROVE  v \in Applicable(FxFeatures(w), FxPriors(w))
           <=> Applies(v, FxFeatures(w), FxChecks(FxFeatures(w)), RiskOf(FxFeatures(w)))
<1>. DEFINE f == FxFeatures(w)
            priors == FxPriors(w)
            cs == FxChecks(f)
            scored == RiskOf(f)
            lab == RegimeAnswer(FxRegimes, f).label
<1>1. DOMAIN cs = {"stop_sane", "signal_valid_in_regime", "correlated_exposure_ok"}
  BY FxChecksTell
<1>2. lab \in {"ranging", "trending", "event_driven"}
  <2>1. lab \in Range(FxRegimes)
    BY FxObserved, RegimesStand
  <2>. HIDE DEF lab
  <2>. QED
    BY <2>1 DEF Range, FxRegimes
<1>3. priors.label = lab /\ priors.checks = cs /\ priors.risk = scored
  BY DEF FxPriors
<1>. HIDE DEF f, priors, cs, scored, lab
<1>4. /\ ~ Failed(priors, "margin_plausible") /\ ~ Failed(priors, "reserve_ok")
      /\ ~ Failed(priors, "cycle_budget_ok")
      /\ priors.label # "stressed" /\ priors.label # "volatile"
      /\ Failed(priors, "signal_valid_in_regime") <=> ~ cs["signal_valid_in_regime"].ok
      /\ Failed(priors, "stop_sane") <=> ~ cs["stop_sane"].ok
      /\ Failed(priors, "correlated_exposure_ok") <=> ~ cs["correlated_exposure_ok"].ok
  BY <1>1, <1>2, <1>3 DEF Failed
<1>5. v \in Applicable(f, priors) <=> \E r \in Rules(f, priors) : r[2] /\ v = r[1]
  BY DEF Applicable
<1>6. (\E r \in Rules(f, priors) : r[2] /\ v = r[1]) <=>
        (\/ v = Execute
         \/ v = Escalate /\ Failed(priors, "margin_plausible")
         \/ v = Hold /\ EventPinsTightStop(f)
         \/ v = Hold /\ Failed(priors, "reserve_ok")
         \/ v = Hold /\ priors.label = "stressed"
         \/ v = Reduce(500) /\ priors.label = "volatile" /\ CyclesNearBudget(f)
         \/ v = Reduce(250) /\ Failed(priors, "signal_valid_in_regime")
         \/ v = Reduce(500) /\ Failed(priors, "stop_sane")
         \/ v = Reduce(500) /\ Failed(priors, "correlated_exposure_ok")
         \/ v = Reduce(500) /\ Failed(priors, "cycle_budget_ok")
         \/ v = RiskVerdict(priors.risk))
  BY RulesOneByOne
<1>7. v \in Applicable(f, priors) <=> Applies(v, f, cs, scored)
  BY <1>3, <1>4, <1>5, <1>6 DEF Applies
<1>. QED
  BY <1>7 DEF f, priors, cs, scored

\* What a candidate's features say.
FxSays(f, w) ==
  /\ StopTight(f) <=> ~ w.clear
  /\ ReadsTrending(f) <=> w.trend >= 620
  /\ ExposureDoubles(f) <=> w.multiple >= 2000 /\ w.share > 350
  /\ ~ DipsBelowReserve(f) /\ ~ ReservePressure(f) /\ ~ DeviationImplausible(f) /\ ~ CyclesNearBudget(f)
  /\ AnyCheckFails(f) <=> ~ w.clear \/ w.trend >= 620 \/ (w.multiple >= 2000 /\ w.share > 350)
  /\ f.stop_clears_noise = w.clear
  /\ Feature(f, "hours_to_event", NoEvent)
       = IF NextEvent(w) = 0 THEN 99 ELSE w.calendar[NextEvent(w)].at - w.at

\* What the conditions of the rules read in a forex world.
LEMMA FxSaysSo ==
  ASSUME NEW w, FxShape(w)
  PROVE  FxSays(FxFeatures(w), w)
<1>. DEFINE f == FxFeatures(w)
<1>0. w.clear \in BOOLEAN
  BY FxTypes
<1>1. /\ Feature(f, "stop_clears_noise", TRUE) = w.clear
      /\ Feature(f, "trend_strength", 0) = w.trend
      /\ Feature(f, "exposure_multiple", 1000) = w.multiple
      /\ Feature(f, "post_trade_exposure_share", 0) = w.share
      /\ Feature(f, "hours_to_event", NoEvent)
           = IF NextEvent(w) = 0 THEN 99 ELSE w.calendar[NextEvent(w)].at - w.at
      /\ Feature(f, "afrr_window_active", FALSE) = FALSE
      /\ Feature(f, "grid_notice_overlaps_discharge", FALSE) = FALSE
      /\ Feature(f, "id_deviation_sigmas", 0) = 0
      /\ Feature(f, "reserve_breached", FALSE) = FALSE
      /\ Feature(f, "cycles_within_budget", TRUE) = TRUE
      /\ f.stop_clears_noise = w.clear
  <2>1. CASE NextEvent(w) = 0
    BY <2>1 DEF FxFeatures, Feature, NoEvent
  <2>2. CASE NextEvent(w) # 0
    BY <2>2 DEF FxFeatures, Feature, NoEvent
  <2>. QED
    BY <2>1, <2>2
<1>. HIDE DEF f
<1>5. StopTight(f) <=> ~ w.clear
  BY <1>0, <1>1 DEF StopTight
<1>6. ReadsTrending(f) <=> w.trend >= 620
  BY <1>1 DEF ReadsTrending, TrendingStrength
<1>7. ExposureDoubles(f) <=> w.multiple >= 2000 /\ w.share > 350
  BY <1>1 DEF ExposureDoubles, ExposureDoubling, ExposureShareCap
<1>2. /\ StopTight(f) <=> ~ w.clear
      /\ ReadsTrending(f) <=> w.trend >= 620
      /\ ExposureDoubles(f) <=> w.multiple >= 2000 /\ w.share > 350
  BY <1>5, <1>6, <1>7
<1>8. ~ DipsBelowReserve(f) /\ ~ ReservePressure(f) /\ ~ CyclesNearBudget(f)
  BY <1>1 DEF DipsBelowReserve, ReservePressure, CyclesNearBudget
<1>9. ~ DeviationImplausible(f)
  BY <1>1 DEF DeviationImplausible, IdDeviationSigma, Size
<1>3. ~ DipsBelowReserve(f) /\ ~ ReservePressure(f) /\ ~ DeviationImplausible(f) /\ ~ CyclesNearBudget(f)
  BY <1>8, <1>9
<1>4. AnyCheckFails(f) <=> ~ w.clear \/ w.trend >= 620 \/ (w.multiple >= 2000 /\ w.share > 350)
  BY <1>2, <1>3 DEF AnyCheckFails
<1>. QED
  BY <1>1, <1>2, <1>3, <1>4 DEF FxSays, f

\* A release of another day is hours away.
LEMMA OtherDay ==
  ASSUME NEW a \in Nat, NEW e \in Nat, e >= a, e \div 24 # a \div 24, e % 24 \in 8 .. 14
  PROVE  e - a > 8
OBVIOUS

\* The hours to the next release, or NoEvent.
Hours(w) == Feature(FxFeatures(w), "hours_to_event", NoEvent)

\* With its releases an event comes no later, and none without them is imminent.
LEMMA EventComesSooner ==
  ASSUME NEW w, FxShape(w)
  PROVE  /\ Hours(w) \in Nat /\ Hours(WithoutEvents(w)) \in Nat
         /\ Hours(WithoutEvents(w)) > 8
         /\ Hours(WithoutEvents(w)) <= 12 => Hours(w) <= Hours(WithoutEvents(w))
<1>. DEFINE u == WithoutEvents(w)
            i == NextEvent(w)
            m == NextEvent(u)
<1>1. FxShape(u) /\ u.at = w.at /\ u.legs = w.legs
      /\ \A k \in DOMAIN u.calendar : \E j \in DOMAIN w.calendar :
              u.calendar[k] = w.calendar[j] /\ w.calendar[j].at \div 24 # w.at \div 24
  BY WithoutEventsIs
<1>. HIDE DEF u
<1>2. ComesNext(i, w) /\ ComesNext(m, u)
  BY <1>1, NextEventIs
<1>3. /\ Hours(w) = IF i = 0 THEN 99 ELSE w.calendar[i].at - w.at
      /\ Hours(u) = IF m = 0 THEN 99 ELSE u.calendar[m].at - u.at
  BY <1>1, FxSaysSo DEF FxSays, Hours
<1>. HIDE DEF i, m
<1>4. /\ w.at \in Nat /\ \A j \in DOMAIN w.calendar : w.calendar[j].at \in Nat /\ j \in Nat /\ j # 0
  BY FxTypes
<1>5. i \in Nat /\ (i # 0 => i \in DOMAIN w.calendar /\ w.calendar[i].at >= w.at)
  BY <1>2, <1>4 DEF ComesNext, Touches
<1>6. Hours(w) \in Nat
  BY <1>3, <1>4, <1>5
<1>7. CASE m = 0
  BY <1>3, <1>6, <1>7 DEF u
<1>8. CASE m # 0
  <2>1. m \in DOMAIN u.calendar /\ Touches(u, m)
    BY <1>2, <1>8 DEF ComesNext
  <2>2. PICK j \in DOMAIN w.calendar :
          u.calendar[m] = w.calendar[j] /\ w.calendar[j].at \div 24 # w.at \div 24
    BY <1>1, <2>1
  <2>3. Touches(w, j)
    BY <1>1, <2>1, <2>2 DEF Touches
  <2>4. i # 0 /\ i <= j
    BY <1>2, <1>4, <2>3 DEF ComesNext
  <2>5. w.calendar[i].at <= w.calendar[j].at /\ w.calendar[j].at % 24 \in 8 .. 14
    <3>1. \A a, b \in DOMAIN w.calendar :
            w.calendar[a].at % 24 \in 8 .. 14 /\ (a < b => w.calendar[a].at <= w.calendar[b].at)
      BY DEF FxShape
    <3>. QED
      BY <1>4, <1>5, <2>4, <3>1
  <2>. DEFINE first == w.calendar[i].at
              later == w.calendar[j].at
              at    == w.at
  <2>6. first \in Nat /\ later \in Nat /\ at \in Nat /\ first <= later /\ later >= at
        /\ later \div 24 # at \div 24 /\ later % 24 \in 8 .. 14
    BY <1>4, <1>5, <2>2, <2>3, <2>4, <2>5 DEF Touches
  <2>7. Hours(w) = first - at /\ Hours(u) = later - at
    BY <1>1, <1>3, <1>8, <2>2, <2>4
  <2>. HIDE DEF first, later, at
  <2>8. later - at > 8
    BY <2>6, OtherDay
  <2>. QED
    BY <1>6, <2>6, <2>7, <2>8 DEF u
<1>. QED
  BY <1>7, <1>8

\* Without the releases of its day a candidate is no riskier, its checks the same.
LEMMA RiskFalls ==
  ASSUME NEW w, FxShape(w)
  PROVE  LET f == FxFeatures(w)
             g == FxFeatures(WithoutEvents(w))
         IN  /\ ~ EventPinsTightStop(g)
             /\ RiskFraction(g) <= RiskFraction(f) /\ RiskFraction(g) <= 620
             /\ \A c \in {"stop_sane", "signal_valid_in_regime", "correlated_exposure_ok"} :
                  FxChecks(g)[c].ok <=> FxChecks(f)[c].ok
<1>. DEFINE u == WithoutEvents(w)
            f == FxFeatures(w)
            g == FxFeatures(u)
<1>1. /\ FxShape(u) /\ u.clear = w.clear /\ u.trend = w.trend /\ u.multiple = w.multiple
      /\ u.share = w.share
  BY WithoutEventsIs
<1>2. FxSays(f, w) /\ FxSays(g, u)
  BY <1>1, FxSaysSo
<1>3. /\ StopTight(g) <=> StopTight(f)
      /\ ReadsTrending(g) <=> ReadsTrending(f)
      /\ ExposureDoubles(g) <=> ExposureDoubles(f)
      /\ AnyCheckFails(g) <=> AnyCheckFails(f)
      /\ ~ DipsBelowReserve(g) /\ ~ ReservePressure(g) /\ ~ DeviationImplausible(g) /\ ~ CyclesNearBudget(g)
      /\ ~ DipsBelowReserve(f) /\ ~ ReservePressure(f) /\ ~ DeviationImplausible(f) /\ ~ CyclesNearBudget(f)
  <2>. HIDE DEF f, g, u
  <2>. QED
    BY <1>1, <1>2 DEF FxSays
<1>. DEFINE hf == Hours(w)
            hg == Hours(u)
<1>4. hf \in Nat /\ hg \in Nat /\ hg > 8 /\ (hg <= 12 => hf <= hg)
  BY EventComesSooner
<1>5. Feature(f, "hours_to_event", NoEvent) = hf /\ Feature(g, "hours_to_event", NoEvent) = hg
  BY DEF Hours
<1>6. /\ \A c \in {"stop_sane", "signal_valid_in_regime", "correlated_exposure_ok"} :
           FxChecks(g)[c].ok <=> FxChecks(f)[c].ok
  BY <1>1, <1>3, FxChecksTell
<1>. HIDE DEF u, f, g, hf, hg
<1>7. ~ EventImminent(g)
  BY <1>4, <1>5 DEF EventImminent, EventImminentHours
<1>. DEFINE n == RiskFraction(g)
            t == RiskFraction(f)
<1>8. Largest(n, g) /\ Largest(t, f)
  BY RiskIs
<1>. HIDE DEF n, t
<1>9. n \in Int /\ t \in Int /\ Presses(g, n) /\ (\A risen \in Int : Presses(f, risen) => risen <= t)
  BY <1>8 DEF Largest
<1>10. n \in {80, 400, 600, 620, 550}
  BY <1>3, <1>7, <1>9 DEF Presses
<1>11. n <= t
  <2>1. CASE n = 400 /\ ~ EventImminent(g) /\ hg <= 12
    <3>1. hf <= 12
      BY <1>4, <2>1
    <3>2. CASE EventImminent(f)
      <4>1. Presses(f, EventRisk(f)) /\ EventRisk(f) \in Int /\ 400 <= EventRisk(f)
        BY <3>2 DEF Presses, EventRisk
      <4>. QED
        BY <1>9, <2>1, <4>1
    <3>3. CASE ~ EventImminent(f)
      <4>1. Presses(f, 400)
        BY <1>5, <3>1, <3>3 DEF Presses
      <4>. QED
        BY <1>9, <2>1, <4>1
    <3>. QED
      BY <3>2, <3>3
  <2>2. CASE ~ (n = 400 /\ ~ EventImminent(g) /\ hg <= 12)
    <3>1. Presses(f, n)
      BY <1>3, <1>5, <1>7, <1>9, <2>2 DEF Presses
    <3>. QED
      BY <1>9, <3>1
  <2>. QED
    BY <2>1, <2>2
<1>12. n <= 620
  BY <1>10
<1>. QED
  BY <1>6, <1>7, <1>11, <1>12 DEF f, g, u, n, t, EventPinsTightStop

\* No less cautious than what is no less cautious.
LEMMA CautionTransitive ==
  ASSUME NEW a, NEW b, NEW c, a.size \in Int, b.size \in Int, c.size \in Int,
         AtLeastAsCautious(a, b), AtLeastAsCautious(b, c)
  PROVE  AtLeastAsCautious(a, c)
<1>1. Caution(a) \in Int /\ Caution(b) \in Int /\ Caution(c) \in Int
  BY DEF Caution
<1>. QED
  BY <1>1 DEF AtLeastAsCautious

\* More risk is answered with no less caution, and below 68 nothing is stopped.
LEMMA RiskVerdicts ==
  ASSUME NEW s \in 0 .. 100, NEW t \in 0 .. 100, s <= t
  PROVE  /\ AtLeastAsCautious(RiskVerdict(t), RiskVerdict(s))
         /\ s < 68 => RiskVerdict(s) \in {Reduce(750), Execute}
<1>1. \/ s \in 80 .. 100 /\ t \in 80 .. 100
      \/ s \in 68 .. 79 /\ t \in 68 .. 79 \cup 80 .. 100
      \/ s \in 55 .. 67 /\ t \in 55 .. 67 \cup 68 .. 79 \cup 80 .. 100
      \/ s \in 0 .. 54
  OBVIOUS
<1>2. RiskVerdict(t) \in Verdicts6 /\ RiskVerdict(s) \in Verdicts6
  BY DEF RiskVerdict, Verdicts6
<1>3. s < 68 => RiskVerdict(s) \in {Reduce(750), Execute}
  BY DEF RiskVerdict
<1>4. /\ t \in 80 .. 100 => RiskVerdict(t) = Hold
      /\ t \in 68 .. 79 => RiskVerdict(t) = Reduce(500)
      /\ t \in 55 .. 67 => RiskVerdict(t) = Reduce(750)
      /\ s \in 80 .. 100 => RiskVerdict(s) = Hold
      /\ s \in 68 .. 79 => RiskVerdict(s) = Reduce(500)
      /\ s \in 55 .. 67 => RiskVerdict(s) = Reduce(750)
      /\ s \in 0 .. 54 => RiskVerdict(s) = Execute
  BY DEF RiskVerdict
<1>5. /\ \A e \in {Hold, Reduce(500), Reduce(750), Execute} : AtLeastAsCautious(Hold, e)
      /\ \A e \in {Reduce(500), Reduce(750), Execute} : AtLeastAsCautious(Reduce(500), e)
      /\ \A e \in {Reduce(750), Execute} : AtLeastAsCautious(Reduce(750), e)
      /\ \A e \in Verdicts6 : AtLeastAsCautious(e, Execute)
  BY DEF Verdicts6, AtLeastAsCautious, Caution, Execute, Reduce, Hold, Escalate, Verdict
<1>7. CASE s \in 80 .. 100 /\ t \in 80 .. 100
  BY <1>3, <1>4, <1>5, <1>7
<1>8. CASE s \in 68 .. 79 /\ t \in 68 .. 79 \cup 80 .. 100
  BY <1>3, <1>4, <1>5, <1>8
<1>9. CASE s \in 55 .. 67 /\ t \in 55 .. 67 \cup 68 .. 79 \cup 80 .. 100
  BY <1>3, <1>4, <1>5, <1>9
<1>10. CASE s \in 0 .. 54
  BY <1>2, <1>3, <1>4, <1>5, <1>10
<1>6. AtLeastAsCautious(RiskVerdict(t), RiskVerdict(s))
  BY <1>1, <1>7, <1>8, <1>9, <1>10
<1>. QED
  BY <1>3, <1>6

\* With the releases of its day the candidate is decided on with no less caution; a
\* release that pins a tight stop holds it, and without one something goes on.
LEMMA ReleasesDecide ==
  ASSUME NEW w, FxShape(w)
  PROVE  LET u == WithoutEvents(w)
             d == Decide(FxFeatures(w), FxPriors(w))
             e == Decide(FxFeatures(u), FxPriors(u))
         IN  /\ d \in Verdicts6 /\ e \in Verdicts6 /\ AtLeastAsCautious(d, e)
             /\ EventPinsTightStop(FxFeatures(w)) => d.action = "hold"
             /\ e.action \in {"execute", "reduce"}
<1>. DEFINE u == WithoutEvents(w)
            f == FxFeatures(w)
            g == FxFeatures(u)
            d == Decide(f, FxPriors(w))
            e == Decide(g, FxPriors(u))
            A == Applicable(f, FxPriors(w))
            B == Applicable(g, FxPriors(u))
            t == RiskOf(f)
            s == RiskOf(g)
<1>1. FxShape(u)
  BY WithoutEventsIs
<1>2. /\ \A v : v \in A <=> Applies(v, f, FxChecks(f), t)
      /\ \A v : v \in B <=> Applies(v, g, FxChecks(g), s)
  BY <1>1, FxApplies
<1>3. /\ d \in A /\ A \subseteq Verdicts6 /\ \A v \in A : AtLeastAsCautious(d, v)
      /\ e \in B /\ B \subseteq Verdicts6
  BY DecideIsMostCautious, ApplicableAreVerdicts
<1>4. /\ ~ EventPinsTightStop(g)
      /\ \A c \in {"stop_sane", "signal_valid_in_regime", "correlated_exposure_ok"} :
           FxChecks(g)[c].ok <=> FxChecks(f)[c].ok
  BY RiskFalls
<1>5. s \in 0 .. 100 /\ t \in 0 .. 100 /\ s <= t /\ s < 68
  <2>. DEFINE n == RiskFraction(g)
              m == RiskFraction(f)
  <2>1. /\ s = (200 * n + 1000) \div 2000 /\ t = (200 * m + 1000) \div 2000
        /\ s \in 0 .. 100 /\ t \in 0 .. 100
    BY <1>1, FxObserved, RiskOfIs
  <2>2. n <= m /\ n <= 620
    BY RiskFalls
  <2>3. n \in Int /\ m \in Int
    BY RiskIs DEF Largest
  <2>. HIDE DEF n, m, s, t
  <2>. QED
    BY <2>1, <2>2, <2>3
<1>6. \A v \in Verdicts6 : v.size \in Int
  BY DEF Verdicts6, Execute, Reduce, Hold, Escalate, Verdict
<1>. HIDE DEF u, f, g, d, e, A, B, s, t
<1>7. AtLeastAsCautious(d, e)
  <2>1. CASE e \in A
    BY <1>3, <2>1
  <2>2. CASE e = RiskVerdict(s)
    <3>1. RiskVerdict(t) \in A
      BY <1>2 DEF Applies
    <3>2. AtLeastAsCautious(d, RiskVerdict(t)) /\ AtLeastAsCautious(RiskVerdict(t), e)
      BY <1>3, <1>5, <2>2, <3>1, RiskVerdicts
    <3>3. d.size \in Int /\ e.size \in Int /\ RiskVerdict(t).size \in Int
      BY <1>3, <1>6, <3>1
    <3>. QED
      BY <3>2, <3>3, CautionTransitive
  <2>3. e \in A \/ e = RiskVerdict(s)
    BY <1>2, <1>3, <1>4 DEF Applies
  <2>. QED
    BY <2>1, <2>2, <2>3
<1>8. ASSUME EventPinsTightStop(f) PROVE d.action = "hold"
  <2>1. Hold \in A
    BY <1>2, <1>8 DEF Applies
  <2>2. AtLeastAsCautious(d, Hold)
    BY <1>3, <2>1
  <2>3. d # Escalate
    <3>1. Escalate \notin {Execute, Hold, Reduce(250), Reduce(500), Reduce(750)}
      BY DEF Execute, Reduce, Hold, Escalate, Verdict
    <3>2. RiskVerdict(t) \in {Execute, Hold, Reduce(500), Reduce(750)}
      BY DEF RiskVerdict
    <3>. QED
      BY <1>2, <1>3, <3>1, <3>2 DEF Applies
  <2>. QED
    BY <1>3, <2>2, <2>3 DEF Verdicts6, AtLeastAsCautious, Caution, Execute, Reduce, Hold, Escalate, Verdict
<1>9. e.action \in {"execute", "reduce"}
  <2>1. RiskVerdict(s) \in {Reduce(750), Execute}
    BY <1>5, RiskVerdicts
  <2>2. e \in {Execute, Reduce(250), Reduce(500), Reduce(750)}
    BY <1>2, <1>3, <1>4, <2>1 DEF Applies
  <2>. QED
    BY <2>2 DEF Execute, Reduce, Verdict
<1>. QED
  BY <1>3, <1>7, <1>8, <1>9 DEF u, f, g, d, e

\* The gate of a forex world.
FxGate(w) ==
  LET d == Decide(FxFeatures(w), FxPriors(w)) IN
    [action |-> d.action, size |-> SizeFor(d.action, d.size), label |-> FxPriors(w).label,
     chosen |-> "none", checks |-> FxPriors(w).checks, risk |-> FxPriors(w).risk,
     features |-> FxFeatures(w)]

\* What is put on grows with what was decided.
LEMMA SizeKeepsOrder ==
  ASSUME NEW d \in Verdicts6, NEW e \in Verdicts6, AtLeastAsCautious(d, e)
  PROVE  LET a == [action |-> d.action, size |-> SizeFor(d.action, d.size)]
             b == [action |-> e.action, size |-> SizeFor(e.action, e.size)]
         IN  Caution(a) > Caution(b) \/ (Caution(a) = Caution(b) /\ a.size <= b.size)
<1>. DEFINE a == [action |-> d.action, size |-> SizeFor(d.action, d.size)]
            b == [action |-> e.action, size |-> SizeFor(e.action, e.size)]
<1>1. Caution(a) = Caution(d) /\ Caution(b) = Caution(e)
  BY DEF Caution
<1>2. CASE Caution(d) > Caution(e)
  BY <1>1, <1>2
<1>3. CASE Caution(d) = Caution(e) /\ d.size <= e.size
  <2>1. d.action = e.action
    BY <1>3 DEF Caution, Verdicts6, Execute, Reduce, Hold, Escalate, Verdict
  <2>2. CASE d.action = "reduce"
    <3>0. \A v \in Verdicts6 : v.action = "reduce" => v.size \in {750, 500, 250}
      BY DEF Verdicts6, Execute, Reduce, Hold, Escalate, Verdict
    <3>4. d.size \in {750, 500, 250}
      BY <2>2, <3>0
    <3>5. e.action = "reduce"
      BY <2>1, <2>2
    <3>6. e.size \in {750, 500, 250}
      BY <3>0, <3>5
    <3>1. d.size \in {750, 500, 250} /\ e.size \in {750, 500, 250}
      BY <3>4, <3>6
    <3>2. d.size \in 0 .. Unit /\ e.size \in 0 .. Unit
      BY <3>1, ThousandthsAssumption
    <3>3. Single[d.size] <= Single[e.size]
      BY <1>3, <3>2, SingleAssumption, Zenon
    <3>. QED
      BY <1>1, <1>3, <2>1, <2>2, <3>3 DEF SizeFor
  <2>3. CASE d.action # "reduce"
    <3>1. b.size = a.size /\ a.size \in Int
      BY <2>1, <2>3, ThousandthsAssumption DEF SizeFor
    <3>. QED
      BY <1>1, <1>3, <3>1
  <2>. QED
    BY <2>2, <2>3
<1>. QED
  BY <1>2, <1>3 DEF AtLeastAsCautious

\* What EventDecidesReplay says of a decision and its replay.
ReplayDecided(g, h) ==
  /\ AtLeastAsCautious(g, h)
  /\ Feature(g.features, "hours_to_event", NoEvent) <= 3 /\ ~ g.features.stop_clears_noise =>
       g.action = "hold" /\ Acts(h.action)

\* A candidate judged with and without the releases of its day.
LEMMA ReplayDecides ==
  ASSUME NEW w, FxShape(w)
  PROVE  ReplayDecided(FxGate(w), FxGate(WithoutEvents(w)))
<1>. DEFINE u == WithoutEvents(w)
            d == Decide(FxFeatures(w), FxPriors(w))
            e == Decide(FxFeatures(u), FxPriors(u))
            g == FxGate(w)
            h == FxGate(u)
            a == [action |-> d.action, size |-> SizeFor(d.action, d.size)]
            b == [action |-> e.action, size |-> SizeFor(e.action, e.size)]
<1>1. /\ d \in Verdicts6 /\ e \in Verdicts6 /\ AtLeastAsCautious(d, e)
      /\ EventPinsTightStop(FxFeatures(w)) => d.action = "hold"
      /\ e.action \in {"execute", "reduce"}
  BY ReleasesDecide
<1>2. /\ g.action = a.action /\ g.size = a.size /\ h.action = b.action /\ h.size = b.size
      /\ g.features = FxFeatures(w) /\ g.action = d.action /\ h.action = e.action
  BY DEF FxGate
<1>. HIDE DEF d, e, g, h
<1>3. Caution(a) > Caution(b) \/ (Caution(a) = Caution(b) /\ a.size <= b.size)
  BY <1>1, SizeKeepsOrder
<1>. HIDE DEF a, b
<1>4. Caution(g) = Caution(a) /\ Caution(h) = Caution(b)
  BY <1>2 DEF Caution
<1>5. AtLeastAsCautious(g, h)
  BY <1>2, <1>3, <1>4 DEF AtLeastAsCautious
<1>6. ASSUME Feature(g.features, "hours_to_event", NoEvent) <= 3, ~ g.features.stop_clears_noise
      PROVE  g.action = "hold" /\ Acts(h.action)
  <2>1. Hours(w) \in Nat /\ Hours(w) = Feature(g.features, "hours_to_event", NoEvent)
    BY <1>2, EventComesSooner DEF Hours
  <2>2. EventImminent(g.features)
    BY <1>6, <2>1 DEF EventImminent, EventImminentHours
  <2>3. StopTight(g.features)
    BY <1>2, <1>6, FxSaysSo DEF FxSays
  <2>. QED
    BY <1>1, <1>2, <2>2, <2>3 DEF EventPinsTightStop, Acts
<1>. QED
  BY <1>5, <1>6 DEF ReplayDecided, g, h

-----------------------------------------------------------------------------
(* A session's summary *)

\* A finished session, as its assumption has it.
SessionShape(s) ==
  /\ s \in [desk : {"summary"}, audience : {"trader", "compliance", "ops"},
            decisions : Nat, interventions : Nat, escalations : Nat, calls : Nat, failed : Nat,
            subject : Nat, headlines : Nat \X Nat]
  /\ s.escalations <= s.interventions /\ s.interventions <= s.decisions
  /\ s.subject <= 60

\* The framing of a summary.
Framed(f) == Distribution(Framings, [l \in Range(Framings) |-> FramingWeight(l, f)])

\* The framing passes the validation and follows the counts (mock.rs framing_weight).
LEMMA FramingStands ==
  ASSUME NEW s, SessionShape(s)
  PROVE  LET v == Framed(DigestFeatures(s)) IN
         /\ ValidFor(v, Choice(Framings))
         /\ s.escalations > 0 <=> v.label = "escalated"
         /\ s.interventions = 0 <=> v.label = "quiet"
<1>. DEFINE f == DigestFeatures(s)
            weight == [l \in Range(Framings) |-> FramingWeight(l, f)]
            v == Framed(f)
<1>1. /\ s.escalations \in Nat /\ s.interventions \in Nat /\ s.escalations <= s.interventions
      /\ f["intervention_count"] = s.interventions /\ f["escalation_count"] = s.escalations
  BY DEF SessionShape, DigestFeatures
<1>. HIDE DEF f
<1>2. Range(Framings) = {"quiet", "intervened", "escalated"} /\ DOMAIN Framings = 1 .. 3 /\ 3 \in Nat \ {0}
  BY DEF Framings, Range
<1>3. /\ weight["quiet"] = IF s.interventions > 0 THEN 100 ELSE 1000
      /\ weight["intervened"] = IF ~ (s.interventions > 0) THEN 120 ELSE IF s.escalations > 0 THEN 600 ELSE 1000
      /\ weight["escalated"] = IF s.escalations > 0 THEN 1000 ELSE 50
  BY <1>1, <1>2 DEF FramingWeight
<1>. HIDE DEF weight
<1>4. Weighted(Framings, weight)
  BY <1>2, <1>3 DEF Weighted
<1>5. ValidFor(v, Choice(Framings)) /\ v.label = Heaviest(Framings, weight)
  <2>1. ValidFor(Distribution(Framings, weight), Choice(Framings))
    BY <1>4, ChoicesStand
  <2>. QED
    BY <2>1 DEF Framed, weight, Distribution
<1>. HIDE DEF v
<1>6. ASSUME NEW x, Outweighs(x, Framings, weight) PROVE v.label = x
  BY <1>2, <1>4, <1>5, <1>6, HeaviestIsOnly
<1>7. CASE s.escalations > 0
  <2>1. Outweighs("escalated", Framings, weight) /\ s.interventions > 0
    BY <1>1, <1>2, <1>3, <1>7 DEF Outweighs
  <2>. QED
    BY <1>1, <1>5, <1>6, <1>7, <2>1 DEF v, f
<1>8. CASE ~ (s.escalations > 0) /\ s.interventions > 0
  <2>1. Outweighs("intervened", Framings, weight)
    BY <1>1, <1>2, <1>3, <1>8 DEF Outweighs
  <2>. QED
    BY <1>1, <1>5, <1>6, <1>8, <2>1 DEF v, f
<1>9. CASE s.interventions = 0
  <2>1. Outweighs("quiet", Framings, weight) /\ ~ (s.escalations > 0)
    BY <1>1, <1>2, <1>3, <1>9 DEF Outweighs
  <2>. QED
    BY <1>1, <1>5, <1>6, <1>9, <2>1 DEF v, f
<1>10. s.interventions = 0 \/ s.interventions > 0
  BY <1>1
<1>. QED
  BY <1>7, <1>8, <1>9, <1>10

\* The severity and the facts pass it; the escalations are included where there were some.
LEMMA SummaryStands ==
  ASSUME NEW s, SessionShape(s)
  PROVE  LET f == DigestFeatures(s) IN
         /\ ValidFor(ScoreDistribution(SeverityLevels, SeverityFraction(f)), Rubric(SeverityLevels))
         /\ \A k \in Range(Facts) : ValidFor(NoulAnswer(k, f), Noul)
         /\ s.escalations > 0 <=> NoulRule("escalations", f) >= Threshold
         /\ Fraction(ScoreDistribution(SeverityLevels, SeverityFraction(f))) \in 0 .. 1000
<1>. DEFINE f == DigestFeatures(s)
<1>1. /\ s.escalations \in Nat /\ s.interventions \in Nat /\ s.decisions \in Nat
      /\ s.audience \in {"trader", "compliance", "ops"}
      /\ f["intervention_count"] = s.interventions /\ f["escalation_count"] = s.escalations
      /\ f["decision_count"] = s.decisions /\ f["audience"] = s.audience
  BY DEF SessionShape, DigestFeatures
<1>. HIDE DEF f
<1>2. SeverityFraction(f) \in 0 .. 1000
  <2>. DEFINE x == 2200 * s.interventions
              y == GreaterOf(s.decisions, 1)
              q == x \div y
  <2>1. x \in Int /\ y \in Int /\ y >= 1
    BY <1>1 DEF GreaterOf
  <2>2. SeverityFraction(f) = IF s.escalations > 0 THEN 1000 ELSE Clamp(q, 0, 800)
    BY <1>1 DEF SeverityFraction
  <2>. HIDE DEF x, y
  <2>3. q \in Int
    BY <2>1
  <2>. HIDE DEF q
  <2>. QED
    BY <2>2, <2>3 DEF Clamp, LesserOf, GreaterOf
<1>3. SeverityLevels \in RubricSizes
  BY DEF SeverityLevels, RubricSizes
<1>4. ValidFor(ScoreDistribution(SeverityLevels, SeverityFraction(f)), Rubric(SeverityLevels))
  BY <1>2, <1>3, ScoreStands
<1>5. /\ NoulRule("pnl_effect", f) \in {950, 280, 200}
      /\ NoulRule("gate_distribution", f) \in {550, 930, 500}
      /\ NoulRule("checks_ran", f) \in {180, 960}
      /\ NoulRule("audit_location", f) \in {120, 940, 600}
  BY <1>1 DEF NoulRule, ExplainFact
<1>6. NoulRule("escalations", f) \in IF s.escalations > 0 THEN {500, 880, 950} ELSE {60}
  BY <1>1 DEF NoulRule, ExplainFact
<1>7. NoulRule("interventions", f) \in {900, 600, 820, 60}
  BY <1>1 DEF NoulRule, ExplainFact
<1>8. \A k \in Range(Facts) : NoulRule(k, f) \in 0 .. 1000
  <2>1. Range(Facts) = {"pnl_effect", "gate_distribution", "checks_ran", "audit_location",
                        "escalations", "interventions"}
    BY DEF Facts, Range
  <2>2. NoulRule("escalations", f) \in {500, 880, 950, 60}
    BY <1>6
  <2>3. \A n \in {950, 280, 200, 550, 930, 500, 180, 960, 120, 940, 600, 880, 60, 900, 820} : n \in 0 .. 1000
    OBVIOUS
  <2>. QED
    BY <1>5, <1>7, <2>1, <2>2, <2>3
<1>9. \A k \in Range(Facts) : ValidFor(NoulAnswer(k, f), Noul)
  BY <1>8, ThousandthsAssumption DEF ValidFor, NoulAnswer, Noul, InRange
<1>10. s.escalations > 0 <=> NoulRule("escalations", f) >= Threshold
  BY <1>6, ThresholdAssumption
<1>11. Fraction(ScoreDistribution(SeverityLevels, SeverityFraction(f))) \in 0 .. 1000
  <2>1. SaysFraction(ScoreDistribution(SeverityLevels, SeverityFraction(f)), SeverityLevels,
                     SeverityFraction(f))
    BY <1>2, <1>3, ScoreIs
  <2>. QED
    BY <1>2, <2>1 DEF SaysFraction
<1>. QED
  BY <1>4, <1>9, <1>10, <1>11 DEF f

Keeping == INSTANCE FoldRules WITH op <- KeepOne

\* The laws of folds speak of the same places.
LEMMA KeepingIs ==
  /\ \A I : Cardinality(I) = Keeping!Cardinality(I)
  /\ \A I, m : Nth(I, m) = Keeping!Nth(I, m)
  /\ \A s, I : At(s, I) = Keeping!At(s, I)
<1>1. \A I : Cardinality(I) = Keeping!Cardinality(I)
  BY Zenon DEF Cardinality, Keeping!Cardinality, IsFiniteSet, Keeping!IsFiniteSet
<1>2. \A I, m : Nth(I, m) = Keeping!Nth(I, m)
  BY <1>1 DEF Nth, Keeping!Nth
<1>3. \A s, I : At(s, I) = Keeping!At(s, I)
  BY <1>1, <1>2 DEF At, Keeping!At
<1>. QED
  BY <1>1, <1>2, <1>3

\* A count is printed with a digit at least and ten at most.
LEMMA DigitsAre == \A n : Digits(n) \in 1 .. 10
<1>1. IsFiniteSet(1 .. 9) /\ Cardinality(1 .. 9) = 9
  <2>1. /\ IsFiniteSet(1 .. 9)
        /\ Cardinality(1 .. 9) = IF 1 > 9 THEN 0 ELSE 9 - 1 + 1
    BY FS_Interval, 1 \in Int, 9 \in Int
  <2>. QED
    BY <2>1
<1>. SUFFICES ASSUME NEW n PROVE Digits(n) \in 1 .. 10
  OBVIOUS
<1>. DEFINE powers == {k \in 1 .. 9 : 10 ^ k <= n}
<1>2. powers \subseteq 1 .. 9
  OBVIOUS
<1>. HIDE DEF powers
<1>3. Cardinality(powers) \in Nat /\ Cardinality(powers) <= 9
  BY <1>1, <1>2, FS_Subset, FS_CardinalityType
<1>4. Digits(n) = 1 + Cardinality(powers)
  BY DEF Digits, powers
<1>. QED
  BY <1>3, <1>4

\* The subject, the lead and the severity leave room: the lead is never cut.
LEMMA LeadHasRoom ==
  ASSUME NEW s, SessionShape(s), NEW framing \in Range(Framings),
         NEW severity, Fraction(severity) \in 0 .. 1000, NEW included
  PROVE  /\ Composed(s, framing, severity, included).lead \in Nat
         /\ Composed(s, framing, severity, included).lead <= MaxSummary
<1>. DEFINE level == Rounded(Fraction(severity), SeverityLevels)
            lead == Composed(s, framing, severity, included).lead
<1>1. level \in 0 .. 3
  BY ThousandthsAssumption DEF Rounded, SeverityLevels
<1>. HIDE DEF level
<1>2. SeverityWords[level + 1] \in 25 .. 30
  <2>1. level = 0 \/ level = 1 \/ level = 2 \/ level = 3
    BY <1>1
  <2>. QED
    BY <2>1 DEF SeverityWords
<1>3. Lead(framing, s) \in 66 .. 86
  <2>1. framing \in {"quiet", "intervened", "escalated"}
    BY DEF Framings, Range
  <2>2. /\ Digits(s.interventions) \in 1 .. 10 /\ Digits(s.decisions) \in 1 .. 10
        /\ Digits(s.escalations) \in 1 .. 10
    BY DigitsAre
  <2>. QED
    BY <2>1, <2>2 DEF Lead
<1>4. lead = s.subject + 3 + Lead(framing, s) + SeverityWords[level + 1]
  BY DEF Composed, level
<1>5. s.subject \in Nat /\ s.subject <= 60
  BY DEF SessionShape
<1>. HIDE DEF lead
<1>6. lead \in Nat /\ lead <= 200
  BY <1>2, <1>3, <1>4, <1>5
<1>. QED
  BY <1>6, RoomAssumption, MaxSummaryAssumption DEF lead

\* A fact of the spec, with the length of its phrase.
Fact == [name : Range(Facts), len : Nat, stops : BOOLEAN]

\* The facts that a lead keeps of those of these names, and the names that are told by it.
Keeps(lead, names, s, kept, told) ==
  /\ kept = KeepFacts(lead, Worded(names, s))
  /\ told = {kept[n].name : n \in DOMAIN kept}

\* What is told is some of what is included; it fits, and the escalations are passed over only
\* where they did not fit beside what is told before them (explain.rs compose).
LEMMA WordedKept ==
  ASSUME NEW s, SessionShape(s), NEW names \in SUBSET Range(Facts), NEW lead,
         NEW kept, NEW told, Keeps(lead, names, s, kept, told)
  PROVE  /\ told \subseteq names /\ Worded(told, s) = kept
         /\ kept # <<>> => Length(lead, kept) <= MaxSummary
         /\ "escalations" \in names \ told =>
              ~ (Length(lead, Worded((told \ {"interventions"}) \cup {"escalations"}, s)) <= MaxSummary)
<1>. DEFINE a == [i \in DOMAIN Facts |-> [name |-> Facts[i], len |-> Phrase(Facts[i], s), stops |-> FALSE]]
            Places(ns) == {i \in DOMAIN Facts : Facts[i] \in ns}
            I == Places(names)
            b == At(a, I)
            F == {parts \in Seq(Fact) : Length(lead, parts) <= MaxSummary}
            base == Keeping!Beside(lead, <<>>)
            beside == (told \ {"interventions"}) \cup {"escalations"}
<1>1. /\ DOMAIN Facts = 1 .. 6 /\ Facts[5] = "escalations" /\ Facts[6] = "interventions"
      /\ \A i, j \in 1 .. 6 : Facts[i] = Facts[j] => i = j
      /\ \A i \in 1 .. 6 : Facts[i] \in Range(Facts)
  <2>1. DOMAIN Facts = 1 .. 6
    BY DEF Facts
  <2>2. /\ Facts[1] = "pnl_effect" /\ Facts[2] = "gate_distribution" /\ Facts[3] = "checks_ran"
        /\ Facts[4] = "audit_location" /\ Facts[5] = "escalations" /\ Facts[6] = "interventions"
    BY DEF Facts
  <2>3. \A i \in 1 .. 6 : i = 1 \/ i = 2 \/ i = 3 \/ i = 4 \/ i = 5 \/ i = 6
    OBVIOUS
  <2>4. \A i, j \in 1 .. 6 : Facts[i] = Facts[j] => i = j
    BY <2>2, <2>3
  <2>5. \A i \in 1 .. 6 : Facts[i] \in Range(Facts)
    BY <2>1 DEF Range
  <2>. QED
    BY <2>1, <2>2, <2>4, <2>5
<1>2. \A i \in 1 .. 6 : a[i] \in Fact /\ a[i].name = Facts[i]
  <2>1. \A i \in 1 .. 6 : Phrase(Facts[i], s) \in Nat
    <3>1. /\ Digits(s.interventions) \in Nat /\ Digits(s.decisions) \in Nat
          /\ Digits(s.failed) \in Nat /\ Digits(s.calls) \in Nat /\ Digits(s.escalations) \in Nat
      BY DigitsAre
    <3>2. s.headlines[1] \in Nat /\ s.headlines[2] \in Nat
      BY DEF SessionShape
    <3>3. \A k \in {"pnl_effect", "gate_distribution", "checks_ran", "audit_location",
                    "escalations", "interventions"} : Phrase(k, s) \in Nat
      BY <3>1, <3>2 DEF Phrase
    <3>. QED
      BY <3>3 DEF Facts
  <2>. QED
    BY <1>1, <2>1 DEF Fact
<1>3. \A ns : Worded(ns, s) = At(a, Places(ns)) /\ Places(ns) \in SUBSET (1 .. 6)
  BY <1>1 DEF Worded
<1>4. Worded(names, s) = b
  BY <1>3
<1>5. kept = KeepFacts(lead, b) /\ told = {kept[n].name : n \in DOMAIN kept}
  BY <1>4 DEF Keeps
<1>. HIDE DEF a, F, base
<1>6. \A J \in SUBSET (1 .. 6) : At(a, J) \in Seq(Fact)
  <2>. SUFFICES ASSUME NEW J \in SUBSET (1 .. 6) PROVE At(a, J) \in Seq(Fact)
    OBVIOUS
  <2>1. \A i \in J : a[i] \in Fact
    BY <1>2
  <2>. QED
    BY <2>1, KeepingIs, Keeping!AtType
<1>7. I \in SUBSET (1 .. 6) /\ b \in Seq(Fact)
  BY <1>3, <1>6
<1>8. /\ Len(b) = Cardinality(I) /\ Cardinality(I) \in Nat
      /\ \A m \in 1 .. Cardinality(I) : Nth(I, m) \in I
      /\ \A m, k \in 1 .. Cardinality(I) : m < k => Nth(I, m) < Nth(I, k)
      /\ \A i \in I : \E m \in 1 .. Cardinality(I) : Nth(I, m) = i
  <2>1. \A i \in I : a[i] \in Fact
    BY <1>2, <1>7
  <2>2. Len(b) = Cardinality(I)
    BY <1>7, <2>1, KeepingIs, Keeping!AtType
  <2>3. /\ Cardinality(I) \in Nat
        /\ \A m \in 1 .. Cardinality(I) : Nth(I, m) \in I
        /\ \A m, k \in 1 .. Cardinality(I) : m < k => Nth(I, m) < Nth(I, k)
        /\ \A i \in I : \E m \in 1 .. Cardinality(I) : Nth(I, m) = i
    BY <1>7, KeepingIs, Keeping!NthLists
  <2>. QED
    BY <2>2, <2>3
<1>. DEFINE c == Cardinality(I)
            From(E) == {Nth(I, k) : k \in E}
<1>9. \A E \in SUBSET (1 .. c) : At(b, E) = At(a, From(E)) /\ From(E) \in SUBSET I
  <2>. SUFFICES ASSUME NEW E \in SUBSET (1 .. c)
                PROVE  At(b, E) = At(a, From(E)) /\ From(E) \in SUBSET I
    OBVIOUS
  <2>1. E \in SUBSET (1 .. Keeping!Cardinality(I)) /\ From(E) = Keeping!Listed(I, E)
    BY KeepingIs DEF Keeping!Listed
  <2>2. Keeping!At(Keeping!At(a, I), E) = Keeping!At(a, Keeping!Listed(I, E))
    BY <1>7, <2>1, Keeping!AtAt
  <2>. QED
    BY <1>8, <2>1, <2>2, KeepingIs
<1>. HIDE DEF I, b, c
<1>10. PICK K, some : /\ Keeping!Left(base, b) = Keeping!Beside(lead, some)
                     /\ Keeping!KeepsAt(F, some, b, K, Len(b))
  <2>1. ASSUME NEW part \in Seq(Fact), NEW x \in Fact
        PROVE  KeepOne(Keeping!Beside(lead, part), x) =
                 Keeping!Beside(lead, IF Append(part, x) \in F THEN Append(part, x) ELSE part)
    <3>1. Append(part, x) \in Seq(Fact)
      OBVIOUS
    <3>. QED
      BY <3>1 DEF KeepOne, Keeping!Beside, F
  <2>. QED
    BY <1>7, <2>1, Keeping!LeftKeeps DEF base
<1>11. kept = some
  <2>1. KeepFacts(lead, b) = Keeping!Left(base, b).kept
    BY Zenon DEF KeepFacts, base, Keeping!Beside, Keeping!Left, FoldLeft, Keeping!FoldLeft,
       MapThenFoldSet, Keeping!MapThenFoldSet, Max, Keeping!Max
  <2>. QED
    BY <1>5, <1>10, <2>1 DEF Keeping!Beside
<1>. DEFINE L == From(K)
<1>12. /\ K \in SUBSET (1 .. c) /\ kept = At(a, L) /\ L \in SUBSET I /\ L \in SUBSET (1 .. 6)
       /\ \A m \in (1 .. c) \ K : At(b, (K \cap (1 .. m - 1)) \cup {m}) \notin F
  <2>1. /\ K \in SUBSET (1 .. c) /\ kept = At(b, K)
        /\ \A m \in (1 .. c) \ K : At(b, (K \cap (1 .. m - 1)) \cup {m}) \notin F
    BY <1>8, <1>10, <1>11, KeepingIs DEF Keeping!KeepsAt, c
  <2>. QED
    BY <1>7, <1>9, <2>1
<1>13. kept # <<>> => Length(lead, kept) <= MaxSummary
  <2>1. K # {} => Length(lead, kept) <= MaxSummary
    BY <1>10, <1>11 DEF Keeping!KeepsAt, F
  <2>2. K = {} => kept = <<>>
    BY <1>10, <1>11, Keeping!AtEmpty DEF Keeping!KeepsAt
  <2>. QED
    BY <2>1, <2>2
<1>. HIDE DEF From
<1>14. told = {Facts[l] : l \in L}
  <2>1. /\ Cardinality(L) \in Nat
        /\ \A m \in 1 .. Cardinality(L) : Nth(L, m) \in L
        /\ \A l \in L : \E m \in 1 .. Cardinality(L) : Nth(L, m) = l
    BY <1>12, KeepingIs, Keeping!NthLists
  <2>2. /\ DOMAIN kept = 1 .. Cardinality(L)
        /\ \A m \in 1 .. Cardinality(L) : kept[m] = a[Nth(L, m)]
    BY <1>12 DEF At
  <2>3. \A m \in DOMAIN kept : kept[m].name = Facts[Nth(L, m)]
    BY <1>2, <1>12, <2>1, <2>2
  <2>. HIDE DEF L
  <2>. QED
    BY <1>5, <2>1, <2>2, <2>3
<1>. HIDE DEF L
<1>15. Places(told) = L
  BY <1>1, <1>12, <1>14
<1>16. told \subseteq names
  BY <1>12, <1>14 DEF I
<1>17. Worded(told, s) = kept
  BY <1>3, <1>12, <1>15
<1>18. ASSUME "escalations" \in names \ told PROVE ~ (Length(lead, Worded(beside, s)) <= MaxSummary)
  <2>1. 5 \in I /\ 5 \notin L
    BY <1>1, <1>14, <1>18 DEF I
  <2>2. PICK m \in 1 .. c : Nth(I, m) = 5
    BY <1>8, <2>1 DEF c
  <2>. DEFINE E == (K \cap (1 .. m - 1)) \cup {m}
              J == (L \ {6}) \cup {5}
  <2>3. m \notin K
    BY <2>1, <2>2 DEF L, From
  <2>4. From(E) = J
    <3>1. \A k \in 1 .. c : k < m <=> Nth(I, k) < 5
      <4>1. \A k \in 1 .. c : (k < m => Nth(I, k) < 5) /\ (m < k => 5 < Nth(I, k))
        BY <1>8, <2>2 DEF c
      <4>2. \A k \in 1 .. c : k < m \/ k = m \/ m < k
        BY <1>8 DEF c
      <4>3. \A k \in 1 .. c : Nth(I, k) \in 1 .. 6
        BY <1>7, <1>8 DEF c
      <4>. QED
        BY <2>2, <4>1, <4>2, <4>3
    <3>2. \A k \in K : k \in 1 .. c /\ (k \in 1 .. m - 1 <=> k < m)
      BY <1>8, <1>12, <2>2 DEF c
    <3>3. \A l \in L : l \in 1 .. 6 /\ l # 5
      BY <1>12, <2>1
    <3>4. \A l \in L : l < 5 <=> l # 6
      BY <3>3
    <3>5. L = {Nth(I, k) : k \in K} /\ From(E) = {Nth(I, k) : k \in E}
      BY DEF L, From
    <3>6. \A x : x \in From(E) <=> x = 5 \/ (x \in L /\ x < 5)
      <4>1. \A k \in K : k \in E <=> Nth(I, k) < 5
        BY <2>3, <3>1, <3>2
      <4>2. \A k \in E : k = m \/ k \in K
        OBVIOUS
      <4>3. m \in E
        OBVIOUS
      <4>. HIDE DEF E
      <4>. QED
        BY <2>2, <3>5, <4>1, <4>2, <4>3
    <3>. QED
      BY <3>4, <3>6
  <2>5. Places(beside) = J
    <3>1. \A i \in 1 .. 6 : Facts[i] \in told <=> i \in L
      BY <1>1, <1>14, <1>12
    <3>2. \A i \in 1 .. 6 : (Facts[i] = "escalations" <=> i = 5) /\ (Facts[i] = "interventions" <=> i = 6)
      BY <1>1
    <3>3. \A i \in 1 .. 6 : Facts[i] \in beside <=> i \in J
      <4>. QED
        BY <1>12, <3>1, <3>2
    <3>4. J \in SUBSET (1 .. 6)
      BY <1>12
    <3>. HIDE DEF J, beside
    <3>. QED
      BY <1>1, <3>3, <3>4
  <2>6. E \in SUBSET (1 .. c)
    BY <1>12, <2>2
  <2>7. At(a, J) \notin F
    <3>1. At(b, E) \notin F
      BY <1>12, <2>2, <2>3
    <3>. HIDE DEF E, J
    <3>. QED
      BY <1>9, <2>4, <2>6, <3>1
  <2>8. At(a, J) \in Seq(Fact) /\ Worded(beside, s) = At(a, J)
    <3>1. J \in SUBSET (1 .. 6)
      BY <1>12
    <3>. HIDE DEF J, beside
    <3>. QED
      BY <1>3, <1>6, <2>5, <3>1
  <2>. QED
    BY <2>7, <2>8 DEF F
<1>. QED
  BY <1>13, <1>16, <1>17, <1>18

-----------------------------------------------------------------------------
(* What holds of the run at each stage *)

\* A forex run judges a world of the desk, then the same world without its day's releases.
FxInv ==
  /\ world.desk = "fx"
  /\ \E w \in FxWorlds :
       /\ \/ world = w /\ gates = <<>> /\ phase \in {"assess", "gate"}
          \/ world = w /\ gates = <<FxGate(w)>> /\ phase = "replay"
          \/ world = WithoutEvents(w) /\ gates = <<FxGate(w)>> /\ phase \in {"assess", "gate"}
          \/ world = WithoutEvents(w) /\ gates = <<FxGate(w), FxGate(world)>> /\ phase = "done"
       /\ chosen = "none" /\ features = FxFeatures(world)
       /\ phase = "gate" => Priors = FxPriors(world)

\* What every gate of a battery run satisfies.
GoodGate(g) ==
  /\ HeedsChecks(g.checks, g.action, g.risk, g.features)
  /\ g.chosen = "balanced" => ~ g.features.grid_notice_overlaps_discharge

\* A battery run: what it is shown is that of the schedule the ranking chose.
BatteryInv ==
  /\ BatteryShape(world)
  /\ \/ gates = <<>> /\ phase \in {"read", "assess", "gate"}
     \/ Len(gates) = 1 /\ gates = <<gates[1]>> /\ phase \in {"replay", "read", "assess", "gate"}
     \/ Len(gates) = 2 /\ gates = <<gates[1], gates[2]>> /\ phase = "done"
  /\ \A i \in DOMAIN gates : GoodGate(gates[i])
  /\ chosen = "none" => phase = "read"
  /\ chosen # "none" => chosen \in Range(Kinds) /\ (world.afrr => chosen = "reserve_heavy")
  /\ phase = "read" => features = BatteryFeatures(world, "balanced")
  /\ phase # "read" => features = BatteryFeatures(world, chosen)
  /\ phase \in {"assess", "gate"} /\ chosen = "balanced" => ~ features.grid_notice_overlaps_discharge
  /\ phase = "gate" => checks = BatteryChecks(features) /\ risk = RiskOf(features)

\* What SummaryTellsEscalations says of a summary.
Told(s, told) ==
  /\ s.escalations > 0 <=> told.framing = "escalated"
  /\ s.interventions = 0 <=> told.framing = "quiet"
  /\ Length(told.lead, Worded(told.told, s)) <= MaxSummary
  /\ s.escalations > 0 <=> "escalations" \in told.included
  /\ told.told \subseteq told.included
  /\ "escalations" \in told.included \ told.told =>
       ~ (Length(told.lead, Worded((told.told \ {"interventions"}) \cup {"escalations"}, s)) <= MaxSummary)

\* The run of a summary.
SummaryInv ==
  /\ SessionShape(world)
  /\ phase \in {"explain", "done"} /\ chosen = "none" /\ gates = <<>>
  /\ features = DigestFeatures(world)
  /\ phase = "done" => Told(world, summary)

\* A run is one of the three, and none of them has failed.
RunInv == FxInv \/ BatteryInv \/ SummaryInv

\* A run starts as one of them.
LEMMA RunStarts ==
  Init => RunInv
<1>. SUFFICES ASSUME Init PROVE RunInv
  OBVIOUS
<1>1. CASE world \in FxWorlds
  <2>1. world.desk = "fx"
    BY <1>1, FxWorldAssumption
  <2>2. FxInv
    BY <1>1, <2>1 DEF FxInv, Init
  <2>. QED
    BY <2>2 DEF RunInv
<1>2. CASE world \in BatteryWorlds
  <2>1. BatteryShape(world)
    BY <1>2, BatteryWorldAssumption DEF BatteryShape
  <2>2. world.desk = "battery"
    BY <2>1 DEF BatteryShape
  <2>3. BatteryInv
    BY <2>1, <2>2 DEF BatteryInv, Init
  <2>. QED
    BY <2>3 DEF RunInv
<1>3. CASE world \in Sessions
  <2>1. SessionShape(world)
    BY <1>3, SessionAssumption, RoomAssumption DEF SessionShape
  <2>2. world.desk = "summary"
    BY <2>1 DEF SessionShape
  <2>3. SummaryInv
    BY <2>1, <2>2 DEF SummaryInv, Init
  <2>. QED
    BY <2>3 DEF RunInv
<1>. QED
  BY <1>1, <1>2, <1>3 DEF Init

\* One entry after another.
LEMMA AppendSecond ==
  ASSUME NEW a, NEW b
  PROVE  Append(<<a>>, b) = <<a, b>> /\ <<a>> # <<>> /\ Append(<<>>, a) = <<a>>
<1>1. <<a>> \in Seq({a, b}) /\ Len(<<a>>) = 1
  OBVIOUS
<1>. DEFINE s == <<a>>
            S == {a, b}
            t == Append(s, b)
<1>2. s \in Seq(S) /\ Len(s) = 1 /\ s[1] = a /\ b \in S
  BY <1>1
<1>. HIDE DEF s, S
<1>3. t \in Seq(S) /\ Len(t) = 2 /\ t[1] = a /\ t[2] = b
  <2>1. /\ t \in Seq(S) /\ Len(t) = Len(s) + 1
        /\ \A i \in 1 .. Len(s) : t[i] = s[i]
        /\ t[Len(s) + 1] = b
    BY <1>2, AppendProperties
  <2>. QED
    BY <1>2, <2>1
<1>4. t = <<a, b>>
  <2>. HIDE DEF t
  <2>2. <<a, b>> \in Seq(S) /\ Len(<<a, b>>) = 2
    BY DEF S
  <2>. QED
    BY <1>3, <2>2, SeqEqual
<1>. QED
  BY <1>4 DEF s

\* Every step of a forex run is one: every answer stands, and each gate is that of its world.
LEMMA FxRuns ==
  ASSUME FxInv, Next
  PROVE  FxInv'
<1>1. PICK w \in FxWorlds :
        /\ \/ world = w /\ gates = <<>> /\ phase \in {"assess", "gate"}
           \/ world = w /\ gates = <<FxGate(w)>> /\ phase = "replay"
           \/ world = WithoutEvents(w) /\ gates = <<FxGate(w)>> /\ phase \in {"assess", "gate"}
           \/ world = WithoutEvents(w) /\ gates = <<FxGate(w), FxGate(world)>> /\ phase = "done"
        /\ chosen = "none" /\ features = FxFeatures(world)
        /\ phase = "gate" => Priors = FxPriors(world)
  BY DEF FxInv
<1>2. FxShape(w) /\ FxShape(WithoutEvents(w)) /\ world.desk = "fx"
  <2>1. FxShape(w)
    BY FxWorldAssumption DEF FxShape
  <2>. QED
    BY <2>1, WithoutEventsIs DEF FxInv
<1>3. FxShape(world) /\ Observed(features)
  BY <1>1, <1>2, FxObserved
<1>4. CASE AssessFx
  <2>1. /\ phase = "assess" /\ phase' = "gate"
        /\ UNCHANGED <<world, chosen, features, gates>>
        /\ label' = RegimeAnswer(FxRegimes, features).label
        /\ checks' = FxChecks(features) /\ risk' = RiskOf(features)
    BY <1>3, <1>4, RegimesStand, ChecksStandUp, RisksStand DEF AssessFx, OrFail, RiskOf
  <2>2. Priors' = FxPriors(world)
    BY <1>1, <2>1 DEF Priors, FxPriors
  <2>. QED
    BY <1>1, <1>2, <2>1, <2>2 DEF FxInv
<1>5. CASE Gate
  <2>. DEFINE g == FxGate(world)
  <2>1. /\ phase = "gate" /\ Priors = FxPriors(world)
        /\ UNCHANGED <<world, chosen, features>>
    BY <1>1, <1>5 DEF Gate
  <2>2. gates' = Append(gates, g)
    <3>1. /\ label = FxPriors(world).label /\ checks = FxPriors(world).checks
          /\ risk = FxPriors(world).risk
      BY <2>1 DEF Priors
    <3>2. GateOut(features, FxPriors(world)) =
            [action |-> Decide(features, FxPriors(world)).action,
             size |-> SizeFor(Decide(features, FxPriors(world)).action,
                              Decide(features, FxPriors(world)).size)]
      BY GateStandsUp DEF GateOut
    <3>. QED
      BY <1>1, <1>5, <2>1, <3>1, <3>2 DEF Gate, FxGate
  <2>3. phase' = IF gates = <<>> THEN "replay" ELSE "done"
    BY <1>5, <2>1, GateStandsUp DEF Gate, OrFail
  <2>. HIDE DEF g
  <2>4. CASE world = w /\ gates = <<>>
    <3>1. gates' = <<g>>
      BY <2>2, <2>4
    <3>. QED
      BY <1>1, <1>2, <2>1, <2>3, <2>4, <3>1 DEF FxInv, g
  <2>5. CASE world = WithoutEvents(w) /\ gates = <<FxGate(w)>>
    <3>. DEFINE first == FxGate(w)
    <3>0. gates = <<first>>
      BY <2>5
    <3>. HIDE DEF first
    <3>1. gates' = <<first, g>> /\ gates # <<>>
      BY <2>2, <3>0, AppendSecond
    <3>2. gates' = <<FxGate(w), FxGate(world')>> /\ phase' = "done" /\ world' = WithoutEvents(w)
      BY <2>1, <2>3, <2>5, <3>1 DEF first, g
    <3>. QED
      BY <1>1, <1>2, <2>1, <3>2 DEF FxInv
  <2>. QED
    BY <1>1, <2>1, <2>4, <2>5
<1>6. CASE ReplayFx
  <2>1. /\ phase = "replay" /\ phase' = "assess" /\ world' = WithoutEvents(world)
        /\ features' = FxFeatures(world') /\ UNCHANGED <<gates, chosen>>
    BY <1>6 DEF ReplayFx
  <2>2. world = w /\ gates = <<FxGate(w)>>
    BY <1>1, <2>1
  <2>3. world'.desk = "fx"
    BY <1>2, <2>1, <2>2 DEF FxShape
  <2>. QED
    BY <1>1, <2>1, <2>2, <2>3 DEF FxInv
<1>7. ~ ReadDay /\ ~ AssessBattery /\ ~ ReplayBattery /\ ~ Explain
  BY <1>1, <1>2 DEF ReadDay, AssessBattery, ReplayBattery, Explain
<1>. QED
  BY <1>4, <1>5, <1>6, <1>7 DEF Next

\* The one step of a summary keeps it a summary, told as its counts demand.
LEMMA SummaryRuns ==
  ASSUME SummaryInv, Next
  PROVE  SummaryInv'
<1>1. /\ SessionShape(world) /\ world.desk = "summary"
      /\ phase \in {"explain", "done"} /\ chosen = "none" /\ gates = <<>>
      /\ features = DigestFeatures(world)
  BY DEF SummaryInv, SessionShape
<1>2. Explain
  BY <1>1 DEF Next, ReadDay, AssessFx, AssessBattery, Gate, ReplayFx, ReplayBattery
<1>. DEFINE f == DigestFeatures(world)
            framing == Framed(f)
            severity == ScoreDistribution(SeverityLevels, SeverityFraction(f))
<1>3. /\ ValidFor(framing, Choice(Framings))
      /\ world.escalations > 0 <=> framing.label = "escalated"
      /\ world.interventions = 0 <=> framing.label = "quiet"
  BY <1>1, FramingStands
<1>4. /\ ValidFor(severity, Rubric(SeverityLevels))
      /\ \A k \in Range(Facts) : ValidFor(NoulAnswer(k, f), Noul)
      /\ world.escalations > 0 <=> NoulRule("escalations", f) >= Threshold
      /\ Fraction(severity) \in 0 .. 1000
  BY <1>1, SummaryStands
<1>5. /\ summary' = Composed(world, framing.label, severity,
                             {k \in Range(Facts) : NoulRule(k, f) >= Threshold})
      /\ OrFail(/\ ValidFor(framing, Choice(Framings))
                /\ ValidFor(severity, Rubric(SeverityLevels))
                /\ \A k \in Range(Facts) : ValidFor(NoulAnswer(k, f), Noul), "done")
      /\ UNCHANGED <<world, chosen, features, gates>>
  BY <1>1, <1>2 DEF Explain, Framed
<1>6. "escalations" \in Range(Facts)
  BY DEF Facts, Range
<1>. HIDE DEF f, framing, severity
<1>7. phase' = "done"
  BY <1>3, <1>4, <1>5 DEF OrFail
<1>8. Told(world, summary')
  <2>. DEFINE included == {k \in Range(Facts) : NoulRule(k, f) >= Threshold}
              lead == summary'.lead
              kept == KeepFacts(lead, Worded(included, world))
  <2>1. framing.label \in Range(Framings)
    BY <1>3 DEF ValidFor, Choice, ChoiceFits, Contains, Range
  <2>2. included \in SUBSET Range(Facts) /\ ("escalations" \in included <=> world.escalations > 0)
    BY <1>4, <1>6
  <2>. HIDE DEF included
  <2>3. /\ summary'.framing = framing.label /\ summary'.included = included
        /\ summary'.told = {kept[n].name : n \in DOMAIN kept}
    BY <1>5 DEF Composed, included
  <2>4. lead \in Nat /\ lead <= MaxSummary
    BY <1>1, <1>4, <1>5, <2>1, LeadHasRoom
  <2>. HIDE DEF lead, kept
  <2>. DEFINE told == {kept[n].name : n \in DOMAIN kept}
  <2>. HIDE DEF told
  <2>5. /\ told \subseteq included /\ Worded(told, world) = kept
        /\ kept # <<>> => Length(lead, kept) <= MaxSummary
        /\ "escalations" \in included \ told =>
             ~ (Length(lead, Worded((told \ {"interventions"}) \cup {"escalations"}, world)) <= MaxSummary)
    <3>1. Keeps(lead, included, world, kept, told)
      BY DEF Keeps, kept, told
    <3>. QED
      BY <1>1, <2>2, <3>1, WordedKept
  <2>6. Length(lead, kept) <= MaxSummary
    BY <2>4, <2>5 DEF Length
  <2>7. summary'.told = told /\ summary'.framing = framing.label /\ summary'.included = included
    BY <2>3 DEF told
  <2>. QED
    BY <1>3, <2>2, <2>5, <2>6, <2>7 DEF Told, lead
<1>9. Told(world', summary') /\ SessionShape(world') /\ features' = DigestFeatures(world')
  BY <1>1, <1>5, <1>8
<1>. QED
  BY <1>1, <1>5, <1>7, <1>9 DEF SummaryInv

\* The schedule the ranking puts first.
Ranked(f) == Heaviest(Kinds, Ranks(f))

\* The schedule ranked first keeps the reserve, and a notice over the balanced one moves it.
LEMMA RankingKeepsReserve ==
  ASSUME NEW w, BatteryShape(w)
  PROVE  LET f == BatteryFeatures(w, "balanced") IN
         /\ Ranked(f) \in Range(Kinds) /\ Ranked(f) # "none"
         /\ w.afrr => Ranked(f) = "reserve_heavy"
         /\ Ranked(f) = "balanced" => ~ f.grid_notice_overlaps_discharge
<1>. DEFINE f == BatteryFeatures(w, "balanced")
<1>1. /\ Feature(f, "afrr_window_active", FALSE) = w.afrr
      /\ Feature(f, "grid_notice_overlaps_discharge", FALSE) = f.grid_notice_overlaps_discharge
  BY DEF BatteryFeatures, Feature
<1>. HIDE DEF f
<1>2. /\ Ranked(f) \in Range(Kinds)
      /\ ReservePressure(f) => Ranked(f) = "reserve_heavy"
  BY FitsStandUp DEF Ranked
<1>3. Range(Kinds) = {"reserve_heavy", "balanced", "aggressive"}
  BY DEF Kinds, Range
<1>4. w.afrr \/ f.grid_notice_overlaps_discharge => ReservePressure(f)
  BY <1>1 DEF ReservePressure
<1>. QED
  BY <1>2, <1>3, <1>4 DEF f

\* Every step of a battery run is one, the replay under a notice included.
LEMMA BatteryRuns ==
  ASSUME BatteryInv, Next
  PROVE  BatteryInv'
<1>1. BatteryShape(world) /\ world.desk = "battery"
  BY DEF BatteryInv, BatteryShape
<1>2. \A kind : Observed(BatteryFeatures(world, kind))
  BY <1>1, BatteryObserved
<1>3. Observed(features)
  BY <1>2 DEF BatteryInv
<1>4. CASE ReadDay
  <2>1. phase = "read" /\ features = BatteryFeatures(world, "balanced") /\ UNCHANGED <<world, gates>>
    BY <1>4 DEF ReadDay, BatteryInv
  <2>. DEFINE kind == Ranked(features)
  <2>2. /\ kind \in Range(Kinds) /\ kind # "none"
        /\ world.afrr => kind = "reserve_heavy"
        /\ kind = "balanced" => ~ features.grid_notice_overlaps_discharge
    BY <1>1, <2>1, RankingKeepsReserve
  <2>3. chosen' = kind /\ features' = BatteryFeatures(world, kind) /\ phase' = "assess"
    BY <1>3, <1>4, <2>1, RegimesStand, FitsStandUp DEF ReadDay, OrFail, Ranked, Ranks
  <2>. HIDE DEF kind
  <2>4. chosen' = "balanced" => ~ features'.grid_notice_overlaps_discharge
    BY <2>1, <2>2, <2>3
  <2>. QED
    BY <2>1, <2>2, <2>3, <2>4 DEF BatteryInv
<1>5. CASE AssessBattery
  <2>1. /\ phase = "assess" /\ phase' = "gate" /\ UNCHANGED <<world, chosen, features, gates>>
        /\ checks' = BatteryChecks(features) /\ risk' = RiskOf(features)
    BY <1>3, <1>5, ChecksStandUp, RisksStand DEF AssessBattery, OrFail, RiskOf
  <2>. QED
    BY <2>1 DEF BatteryInv
<1>6. CASE Gate
  <2>. DEFINE g == [action |-> Decide(features, Priors).action,
                    size |-> SizeFor(Decide(features, Priors).action, Decide(features, Priors).size),
                    label |-> label, chosen |-> chosen, checks |-> checks, risk |-> risk,
                    features |-> features]
  <2>1. /\ phase = "gate" /\ UNCHANGED <<world, chosen, features>>
        /\ phase' = IF gates = <<>> THEN "replay" ELSE "done"
    BY <1>6, GateStandsUp DEF Gate, OrFail
  <2>2. gates' = Append(gates, g)
    BY <1>6, GateStandsUp DEF Gate, GateOut
  <2>3. features = BatteryFeatures(world, chosen)
    BY <2>1 DEF BatteryInv
  <2>4. GoodGate(g)
    <3>1. Priors.checks = BatteryChecks(features) /\ Priors.risk = RiskOf(features)
          /\ Priors.checks = checks /\ Priors.risk = risk
      BY <2>1 DEF BatteryInv, Priors
    <3>2. HeedsChecks(Priors.checks, Decide(features, Priors).action, Priors.risk, features)
      BY <1>1, <2>3, <3>1, BatteryGateHeeds
    <3>3. chosen = "balanced" => ~ features.grid_notice_overlaps_discharge
      BY <2>1 DEF BatteryInv
    <3>. QED
      BY <3>1, <3>2, <3>3 DEF GoodGate
  <2>. HIDE DEF g
  <2>5. CASE gates = <<>>
    <3>1. gates' = <<g>>
      BY <2>2, <2>5, AppendSecond
    <3>2. Len(gates') = 1 /\ gates' = <<gates'[1]>> /\ \A i \in DOMAIN gates' : GoodGate(gates'[i])
      BY <2>4, <3>1
    <3>. QED
      BY <2>1, <2>3, <2>5, <3>2 DEF BatteryInv
  <2>6. CASE Len(gates) = 1 /\ gates = <<gates[1]>>
    <3>. DEFINE first == gates[1]
    <3>1. GoodGate(first)
      BY <2>6 DEF BatteryInv
    <3>2. gates = <<first>>
      BY <2>6
    <3>. HIDE DEF first
    <3>3. gates' = <<first, g>> /\ gates # <<>>
      BY <2>2, <3>2, AppendSecond
    <3>4. Len(gates') = 2 /\ gates' = <<gates'[1], gates'[2]>> /\ \A i \in DOMAIN gates' : GoodGate(gates'[i])
      BY <2>4, <3>1, <3>3
    <3>. QED
      BY <2>1, <2>3, <3>3, <3>4 DEF BatteryInv
  <2>. QED
    BY <2>1, <2>5, <2>6 DEF BatteryInv
<1>7. CASE ReplayBattery
  <2>1. /\ phase = "replay" /\ phase' = "read"
        /\ world.block[chosen] # <<>>
        /\ world' = [world EXCEPT !.notes = {world.block[chosen]}]
        /\ features' = BatteryFeatures(world', "balanced") /\ UNCHANGED <<chosen, gates>>
    BY <1>7 DEF ReplayBattery
  <2>2. chosen \in Range(Kinds)
    BY <2>1 DEF BatteryInv
  <2>. DEFINE b == world.block[chosen]
  <2>3. b \in Nat \X Nat
    BY <1>1, <2>1, <2>2 DEF BatteryShape
  <2>. HIDE DEF b
  <2>4. BatteryShape(world') /\ world'.afrr = world.afrr
    BY <1>1, <2>1, <2>3 DEF BatteryShape, b
  <2>. QED
    BY <2>1, <2>4 DEF BatteryInv
<1>8. ~ AssessFx /\ ~ ReplayFx /\ ~ Explain
  BY <1>1 DEF AssessFx, ReplayFx, Explain, BatteryInv
<1>. QED
  BY <1>4, <1>5, <1>6, <1>7, <1>8 DEF Next

\* The inductive invariant: what a run has judged, and what the stage due is shown.
THEOREM RunInvariant == Spec => []RunInv
<1>1. RunInv /\ [Next]_vars => RunInv'
  <2>. SUFFICES ASSUME RunInv, [Next]_vars PROVE RunInv'
    OBVIOUS
  <2>1. CASE UNCHANGED vars
    <3>1. /\ world' = world /\ label' = label /\ chosen' = chosen /\ features' = features
          /\ checks' = checks /\ risk' = risk /\ gates' = gates /\ summary' = summary
          /\ phase' = phase
      BY <2>1 DEF vars
    <3>2. FxInv => FxInv'
      BY <3>1 DEF FxInv, Priors
    <3>3. BatteryInv => BatteryInv'
      BY <3>1 DEF BatteryInv
    <3>4. SummaryInv => SummaryInv'
      BY <3>1 DEF SummaryInv
    <3>. QED
      BY <3>2, <3>3, <3>4 DEF RunInv
  <2>2. CASE Next
    BY <2>2, FxRuns, BatteryRuns, SummaryRuns DEF RunInv
  <2>. QED
    BY <2>1, <2>2
<1>. QED
  BY <1>1, RunStarts, PTL DEF Spec

\* Whatever the market, no answer of the offline backend is refused by the validation, and
\* the action and the size of a gate never contradict each other (mock.rs, gate.rs).
THEOREM AnswersAlwaysStand == Spec => []AnswersStand
<1>1. RunInv => AnswersStand
  BY DEF RunInv, FxInv, BatteryInv, SummaryInv, AnswersStand
<1>. QED
  BY <1>1, RunInvariant, PTL

\* A decision with a failed check never goes on as the solver sized it, and a price far from
\* its curve goes to a human (mock.rs decide).
THEOREM GatesHeedChecks == Spec => []GateHeedsChecks
<1>1. ASSUME \A i \in DOMAIN gates : LET g == gates[i] IN HeedsChecks(g.checks, g.action, g.risk, g.features)
      PROVE  GateHeedsChecks
  BY <1>1 DEF GateHeedsChecks, HeedsChecks
<1>2. ASSUME NEW w, FxShape(w)
      PROVE  LET g == FxGate(w) IN HeedsChecks(g.checks, g.action, g.risk, g.features)
  <2>1. FxPriors(w).checks = FxChecks(FxFeatures(w)) /\ FxPriors(w).risk = RiskOf(FxFeatures(w))
    BY DEF FxPriors
  <2>2. HeedsChecks(FxPriors(w).checks, Decide(FxFeatures(w), FxPriors(w)).action, FxPriors(w).risk,
                    FxFeatures(w))
    BY <1>2, <2>1, FxGateHeeds
  <2>. QED
    BY <2>2 DEF FxGate
<1>3. FxInv => GateHeedsChecks
  <2>. SUFFICES ASSUME FxInv PROVE GateHeedsChecks
    OBVIOUS
  <2>1. PICK w \in FxWorlds :
          \/ gates = <<>> \/ gates = <<FxGate(w)>>
          \/ world = WithoutEvents(w) /\ gates = <<FxGate(w), FxGate(world)>>
    BY DEF FxInv
  <2>2. FxShape(w) /\ FxShape(WithoutEvents(w))
    <3>1. FxShape(w)
      BY FxWorldAssumption DEF FxShape
    <3>. QED
      BY <3>1, WithoutEventsIs
  <2>3. \A i \in DOMAIN gates : gates[i] = FxGate(w) \/ gates[i] = FxGate(WithoutEvents(w))
    BY <2>1
  <2>. QED
    BY <1>1, <1>2, <2>2, <2>3
<1>4. BatteryInv => GateHeedsChecks
  BY <1>1 DEF BatteryInv, GoodGate
<1>5. SummaryInv => GateHeedsChecks
  BY DEF SummaryInv, GateHeedsChecks
<1>. QED
  BY <1>3, <1>4, <1>5, RunInvariant, PTL DEF RunInv

\* A release never makes a decision bolder, and with a tight stop it is the deciding factor
\* (replay_decision).
THEOREM EventsDecideReplays == Spec => []EventDecidesReplay
<1>1. RunInv => EventDecidesReplay
  <2>. SUFFICES ASSUME RunInv, world.desk = "fx", Len(gates) = 2 PROVE ReplayDecided(gates[1], gates[2])
    BY DEF EventDecidesReplay, ReplayDecided
  <2>1. FxInv
    BY DEF RunInv, BatteryInv, BatteryShape, SummaryInv, SessionShape
  <2>2. PICK w \in FxWorlds :
          \/ gates = <<>> \/ gates = <<FxGate(w)>>
          \/ world = WithoutEvents(w) /\ gates = <<FxGate(w), FxGate(world)>>
    BY <2>1 DEF FxInv
  <2>3. gates[1] = FxGate(w) /\ gates[2] = FxGate(WithoutEvents(w))
    <3>. DEFINE g == FxGate(w)
                h == FxGate(world)
    <3>1. \/ gates = <<>>
          \/ gates = <<g>>
          \/ world = WithoutEvents(w) /\ gates = <<g, h>>
      BY <2>2
    <3>. HIDE DEF g, h
    <3>2. Len(<<>>) = 0 /\ Len(<<g>>) = 1 /\ Len(<<g, h>>) = 2
      OBVIOUS
    <3>3. world = WithoutEvents(w) /\ gates = <<g, h>>
      <4>1. gates # <<>> /\ gates # <<g>>
        BY <3>2
      <4>. QED
        BY <3>1, <4>1
    <3>4. gates[1] = g /\ gates[2] = h
      BY <3>3
    <3>. QED
      BY <3>3, <3>4 DEF g, h
  <2>4. FxShape(w)
    BY FxWorldAssumption DEF FxShape
  <2>. QED
    BY <2>3, <2>4, ReplayDecides
<1>. QED
  BY <1>1, RunInvariant, PTL

\* The schedule ranked first never breaches the reserve, before and after the notice
\* (battery judgment.rs, with_grid_notice).
THEOREM ChosenAlwaysKeepsReserve == Spec => []ChosenKeepsReserve
<1>1. FxInv => ChosenKeepsReserve
  <2>. SUFFICES ASSUME FxInv PROVE ChosenKeepsReserve
    OBVIOUS
  <2>1. PICK w \in FxWorlds :
          /\ chosen = "none"
          /\ \/ gates = <<>> \/ gates = <<FxGate(w)>> \/ gates = <<FxGate(w), FxGate(world)>>
    BY DEF FxInv
  <2>2. \A u : FxGate(u).chosen = "none"
    BY DEF FxGate
  <2>3. \A i \in DOMAIN gates : gates[i] = FxGate(w) \/ gates[i] = FxGate(world)
    BY <2>1
  <2>. QED
    BY <2>1, <2>2, <2>3 DEF ChosenKeepsReserve
<1>2. BatteryInv => ChosenKeepsReserve
  BY DEF BatteryInv, BatteryShape, GoodGate, ChosenKeepsReserve
<1>3. SummaryInv => ChosenKeepsReserve
  BY DEF SummaryInv, ChosenKeepsReserve
<1>. QED
  BY <1>1, <1>2, <1>3, RunInvariant, PTL DEF RunInv

\* The lead of a summary tells of the decisions that went to a human, where there were some
\* and only there, and is read whole; the fact that counts them is chosen in those sessions,
\* and left out only where there was no room for it (explain.rs for_audience, compose).
THEOREM SummariesTellEscalations == Spec => []SummaryTellsEscalations
<1>1. RunInv => SummaryTellsEscalations
  <2>. SUFFICES ASSUME RunInv, world.desk = "summary", phase = "done" PROVE Told(world, summary)
    BY DEF SummaryTellsEscalations, Told
  <2>. QED
    BY DEF RunInv, FxInv, BatteryInv, BatteryShape, SummaryInv
<1>. QED
  BY <1>1, RunInvariant, PTL
=============================================================================
