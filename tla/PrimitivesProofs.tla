-------------------------- MODULE PrimitivesProofs --------------------------
(***************************************************************************)
(* The judgment call for any specs, any answers, any cast from f64 to f32   *)
(* that is monotone and moves a value by Grain at most, and any threshold   *)
(* inside the review band: every stage reads the answer to the question it  *)
(* asked, and what its primitive makes of it is faithful to that answer.    *)
(***************************************************************************)
EXTENDS Primitives, FiniteSetTheorems, SequenceTheorems, TLAPS

-----------------------------------------------------------------------------
(* The cast *)

\* A share of a rubric of which the whole is n units is at most one unit.
LEMMA ShareOfRubric ==
  ASSUME NEW a \in Nat, NEW n \in Nat \ {0}, NEW u \in Nat, a <= u * n
  PROVE  a \div n \in 0 .. u
<1>1. a \div n \in Int /\ n * (a \div n) <= a /\ 0 <= a \div n
  BY Z3
<1>2. ~ (u < a \div n)
  BY <1>1, Z3
<1>. QED
  BY <1>1, <1>2

\* A check whose recorded f32 reads on the other side of the threshold than its
\* outcome lies inside the review band.
LEMMA CrossingIsUndecided ==
  ASSUME NEW i, NEW item, item.rule = "none" => Need(i, <<item.name>>).p \in 0 .. Unit,
         CheckResult(i, item).ok # (CheckResult(i, item).p >= Threshold)
  PROVE  Undecided(CheckResult(i, item))
<1>1. CASE item.rule # "none"
  <2>1. CheckResult(i, item).p = IF item.rule = "holds" THEN Unit ELSE 0
    BY <1>1 DEF CheckResult
  <2>2. CheckResult(i, item).ok = (item.rule = "holds")
    BY <1>1 DEF CheckResult
  <2>3. Unit >= Threshold /\ ~ (0 >= Threshold)
    BY UnitAssumption, ThresholdAssumption
  <2>. QED
    BY <2>1, <2>2, <2>3
<1>2. CASE item.rule = "none"
  <2>. DEFINE p == Need(i, <<item.name>>).p
  <2>1. /\ CheckResult(i, item).ok = (p >= Threshold)
        /\ CheckResult(i, item).p = Single[p] /\ CheckResult(i, item).source = "jev"
    BY <1>2 DEF CheckResult
  <2>2. p \in 0 .. Unit
    BY <1>2
  <2>. HIDE DEF p
  <2>3. (p >= Threshold) # (Single[p] >= Threshold)
    BY <2>1
  <2>4. Single[p] \in Int /\ Single[p] - p <= Grain /\ p - Single[p] <= Grain
    <3>1. Single[p] \in 0 .. Unit
      BY <2>2, SingleAssumption
    <3>2. \A v \in 0 .. Unit : Single[v] - v <= Grain /\ v - Single[v] <= Grain
      BY SingleAssumption
    <3>. QED
      BY <2>2, <3>1, <3>2
  <2>5. BandLow < Single[p] /\ Single[p] < BandHigh
    BY <2>2, <2>3, <2>4, UnitAssumption, ThresholdAssumption
  <2>. QED
    BY <2>1, <2>5 DEF Undecided
<1>. QED
  BY <1>1, <1>2

\* Only a reduce can be at odds with its size, and only next to nothing or everything.
LEMMA EdgeOfReduce ==
  ASSUME NEW action, \E k \in 1 .. 4 : action = Actions[k], NEW fraction \in 0 .. Unit,
         ~ Consistent(action, SizeFor(action, fraction))
  PROVE  action = "reduce" /\ (fraction <= Grain \/ fraction >= Unit - Grain)
<1>1. action \in {"execute", "reduce", "hold", "escalate"}
  BY DEF Actions
<1>2. CASE action = "reduce"
  <2>1. Single[fraction] \in 0 .. Unit /\ Single[fraction] - fraction <= Grain
        /\ fraction - Single[fraction] <= Grain
    BY SingleAssumption
  <2>2. Single[fraction] = 0 \/ Single[fraction] = Unit
    BY <1>2, <2>1, UnitAssumption DEF Consistent, SizeFor, Acts
  <2>. QED
    BY <1>2, <2>1, <2>2, UnitAssumption
<1>3. CASE action # "reduce"
  BY <1>1, <1>3, UnitAssumption DEF Consistent, SizeFor, Acts
<1>. QED
  BY <1>2, <1>3

-----------------------------------------------------------------------------
(* The questions of a call *)

Adding == INSTANCE FoldRules WITH op <- WithOne

\* The instance speaks of the same sequences as the specification.
LEMMA FlattenIsFlatten == \A ss : FlattenSeq(ss) = Adding!FlattenSeq(ss)
BY DEF FlattenSeq, Adding!FlattenSeq

LEMMA NthIsNth ==
  /\ \A I : Cardinality(I) = Adding!Cardinality(I)
  /\ \A I, n : Nth(I, n) = Adding!Nth(I, n)
<1>1. \A I : Cardinality(I) = Adding!Cardinality(I)
  BY Zenon DEF Cardinality, Adding!Cardinality, IsFiniteSet, Adding!IsFiniteSet
<1>. QED
  BY <1>1 DEF Nth, Adding!Nth

\* What At leaves of a sequence: the entries at the places, in their order.
LEMMA AtLists ==
  ASSUME NEW S, NEW s \in Seq(S), NEW I \in SUBSET (DOMAIN s)
  PROVE  /\ At(s, I) \in Seq(S) /\ Len(At(s, I)) = Cardinality(I) /\ Cardinality(I) \in Nat
         /\ DOMAIN At(s, I) = 1 .. Cardinality(I)
         /\ \A m \in 1 .. Cardinality(I) : Nth(I, m) \in I /\ At(s, I)[m] = s[Nth(I, m)]
         /\ \A m, k \in 1 .. Cardinality(I) : m < k => Nth(I, m) < Nth(I, k)
         /\ \A i \in I : \E m \in 1 .. Cardinality(I) : Nth(I, m) = i
<1>. DEFINE n == Len(s)
            c == Cardinality(I)
<1>1. n \in Nat /\ I \in SUBSET (1 .. n) /\ \A i \in I : s[i] \in S
  BY LenProperties, ElementOfSeq
<1>. HIDE DEF n, c
<1>2. /\ Adding!Cardinality(I) \in Nat
      /\ \A m \in 1 .. Adding!Cardinality(I) : Adding!Nth(I, m) \in I
      /\ \A m, k \in 1 .. Adding!Cardinality(I) : m < k => Adding!Nth(I, m) < Adding!Nth(I, k)
      /\ \A i \in I : \E m \in 1 .. Adding!Cardinality(I) : Adding!Nth(I, m) = i
  BY <1>1, Adding!NthLists
<1>3. /\ c \in Nat
      /\ \A m \in 1 .. c : Nth(I, m) \in I
      /\ \A m, k \in 1 .. c : m < k => Nth(I, m) < Nth(I, k)
      /\ \A i \in I : \E m \in 1 .. c : Nth(I, m) = i
  BY <1>2, NthIsNth DEF c
<1>4. At(s, I) = [m \in 1 .. c |-> s[Nth(I, m)]]
  BY DEF At, c
<1>5. At(s, I) \in [1 .. c -> S]
  BY <1>1, <1>3, <1>4
<1>6. At(s, I) \in Seq(S) /\ Len(At(s, I)) = c
  BY <1>3, <1>4, <1>5
<1>. QED
  BY <1>3, <1>4, <1>6 DEF c

\* Once the first c names were added to base, each with the question ask.
Added(qs, base, names, ask, c) ==
  /\ \E S : qs \in Seq(S)
  /\ \A k \in DOMAIN base : \E m \in DOMAIN qs : qs[m] = base[k]
  /\ \A n \in 1 .. c : \E m \in DOMAIN qs : qs[m] = [name |-> names[n], ask |-> ask]
  /\ \A m \in DOMAIN qs :
       \/ \E k \in DOMAIN base : qs[m] = base[k]
       \/ \E n \in 1 .. c : qs[m] = [name |-> names[n], ask |-> ask]

\* Another name leaves what was asked under the others.
LEMMA AddOne ==
  ASSUME NEW qs, NEW base, NEW names, NEW ask, NEW c \in Nat, Added(qs, base, names, ask, c),
         \A k \in DOMAIN base : base[k].name # names[c + 1]
  PROVE  Added(With(qs, names[c + 1], ask), base, names, ask, c + 1)
<1>. DEFINE name == names[c + 1]
            q == [name |-> name, ask |-> ask]
            new == With(qs, name, ask)
<1>1. PICK S : qs \in Seq(S)
  BY DEF Added
<1>2. Len(qs) \in Nat /\ DOMAIN qs = 1 .. Len(qs)
  BY <1>1, LenProperties
<1>3. 1 .. c + 1 = 1 .. c \cup {c + 1}
  OBVIOUS
<1>. HIDE DEF name
<1>4. \A m \in DOMAIN qs : qs[m].name = name =>
        \E n \in 1 .. c : qs[m] = [name |-> names[n], ask |-> ask] /\ names[n] = name
  <2>1. \A m \in DOMAIN qs : qs[m].name = name =>
          \E n \in 1 .. c : qs[m] = [name |-> names[n], ask |-> ask]
    BY DEF Added, name
  <2>2. \A n : [name |-> names[n], ask |-> ask].name = names[n]
    OBVIOUS
  <2>. QED
    BY <2>1, <2>2
<1>5. CASE \E m \in DOMAIN qs : qs[m].name = name
  <2>1. /\ DOMAIN new = DOMAIN qs
        /\ \A m \in DOMAIN qs : new[m] = IF qs[m].name = name THEN [qs[m] EXCEPT !.ask = ask] ELSE qs[m]
    BY <1>5 DEF With
  <2>2. \A m \in DOMAIN qs : qs[m].name = name => qs[m] = q /\ [qs[m] EXCEPT !.ask = ask] = q
    BY <1>4
  <2>3. \A m \in DOMAIN qs : new[m] = qs[m]
    BY <2>1, <2>2
  <2>4. new = qs
    <3>1. new = [m \in DOMAIN qs |-> new[m]]
      BY <1>5 DEF With
    <3>2. qs = [m \in DOMAIN qs |-> qs[m]]
      BY <1>1
    <3>. QED
      BY <2>3, <3>1, <3>2
  <2>. HIDE DEF new
  <2>5. \E m \in DOMAIN qs : qs[m] = q
    BY <1>5, <2>2
  <2>. QED
    BY <1>3, <2>4, <2>5 DEF Added, new, name
<1>6. CASE ~ \E m \in DOMAIN qs : qs[m].name = name
  <2>1. new = Append(qs, q)
    BY <1>6 DEF With
  <2>2. qs \in Seq(S \cup {q}) /\ q \in S \cup {q}
    BY <1>1
  <2>. HIDE DEF new, q
  <2>3. /\ new \in Seq(S \cup {q})
        /\ DOMAIN new = 1 .. Len(qs) + 1 /\ new[Len(qs) + 1] = q
        /\ \A m \in 1 .. Len(qs) : new[m] = qs[m]
    BY <2>1, <2>2, AppendProperties, LenProperties
  <2>4. \A m \in DOMAIN new : m \in DOMAIN qs \/ m = Len(qs) + 1
    BY <1>2, <2>3
  <2>5. \A m \in DOMAIN qs : m \in DOMAIN new /\ new[m] = qs[m]
    BY <1>2, <2>3
  <2>6. Len(qs) + 1 \in DOMAIN new
    BY <1>2, <2>3
  <2>7. \A k \in DOMAIN base : \E m \in DOMAIN new : new[m] = base[k]
    BY <2>5 DEF Added
  <2>8. \A n \in 1 .. c + 1 : \E m \in DOMAIN new : new[m] = [name |-> names[n], ask |-> ask]
    <3>1. \E m \in DOMAIN new : new[m] = [name |-> names[c + 1], ask |-> ask]
      BY <2>3, <2>6 DEF q, name
    <3>2. \A n \in 1 .. c : \E m \in DOMAIN new : new[m] = [name |-> names[n], ask |-> ask]
      BY <2>5 DEF Added
    <3>. QED
      BY <1>3, <3>1, <3>2
  <2>9. ASSUME NEW m \in DOMAIN new
        PROVE  \/ \E k \in DOMAIN base : new[m] = base[k]
               \/ \E n \in 1 .. c + 1 : new[m] = [name |-> names[n], ask |-> ask]
    <3>1. CASE m = Len(qs) + 1
      <4>1. c + 1 \in 1 .. c + 1
        BY <1>3
      <4>. QED
        BY <2>3, <3>1, <4>1 DEF q, name
    <3>2. CASE m \in DOMAIN qs
      BY <1>3, <2>5, <3>2 DEF Added
    <3>. QED
      BY <2>4, <3>1, <3>2
  <2>. QED
    BY <2>3, <2>7, <2>8, <2>9 DEF Added, new, name
<1>. QED
  BY <1>5, <1>6 DEF name

\* What was there and every name added to it are asked, and nothing else is.
LEMMA AllAdded ==
  ASSUME NEW B, NEW base \in Seq(B), NEW n \in Nat, NEW names, DOMAIN names = 1 .. n, NEW ask,
         \A k \in DOMAIN base : \A m \in 1 .. n : base[k].name # names[m]
  PROVE  Added(WithAll(base, AskEach(names, ask)), base, names, ask, n)
<1>. DEFINE each == AskEach(names, ask)
<1>1. /\ DOMAIN each = 1 .. n
      /\ \A m \in 1 .. n : each[m] = [name |-> names[m], ask |-> ask]
  BY DEF AskEach
<1>. HIDE DEF each
<1>2. PICK f : Adding!Steps(f, base, each, n) /\ f[n] = Adding!Left(base, each)
  BY <1>1, Adding!LeftSteps
<1>3. f[0] = base /\ \A k \in 1 .. n : f[k] = WithOne(f[k - 1], each[k])
  BY <1>2 DEF Adding!Steps
<1>. DEFINE T == {k \in Nat : k <= n => Added(f[k], base, names, ask, k)}
<1>4. 0 \in T
  BY <1>3 DEF Added
<1>5. ASSUME NEW k \in Nat, k \in T PROVE k + 1 \in T
  <2>. SUFFICES ASSUME k + 1 <= n PROVE Added(f[k + 1], base, names, ask, k + 1)
    OBVIOUS
  <2>1. k + 1 \in 1 .. n /\ (k + 1) - 1 = k /\ Added(f[k], base, names, ask, k)
    BY <1>5
  <2>2. f[k + 1] = WithOne(f[k], each[k + 1])
    BY <1>3, <2>1
  <2>3. f[k + 1] = With(f[k], names[k + 1], ask)
    BY <1>1, <2>1, <2>2 DEF WithOne
  <2>. QED
    BY <2>1, <2>3, AddOne
<1>6. n \in T
  <2>. HIDE DEF T
  <2>. QED
    BY <1>4, <1>5, Adding!NatSetInduction
<1>7. WithAll(base, each) = f[n]
  BY <1>2 DEF WithAll, Adding!Left, FoldLeft, Adding!FoldLeft, MapThenFoldSet, Adding!MapThenFoldSet, Max, Adding!Max
<1>. QED
  BY <1>6, <1>7 DEF each

\* A stage asks a question under a name, and no other under it.
AskedIn(qs, name, ask) ==
  /\ \E k \in DOMAIN qs : qs[k].name = name
  /\ \A k \in DOMAIN qs : qs[k].name = name => qs[k].ask = ask

\* The questions of the primitives.
AskedBy(s, name, ask) ==
  \/ s.kind = "classify" /\ name = <<"label">> /\ ask = Choice(s.labels)
  \/ s.kind = "gate" /\ name = <<"action">> /\ ask = Choice(Actions)
  \/ s.kind = "gate" /\ name = <<"size_factor">> /\ ask = Rubric(s.levels)
  \/ /\ s.kind = "check" /\ ask = Noul
     /\ \E n \in DOMAIN s.items : s.items[n].rule = "none" /\ name = <<s.items[n].name>>
  \/ s.kind = "score" /\ name = <<"level">> /\ ask = Rubric(s.bands)
  \/ s.kind = "score" /\ ask = Noul /\ \E n \in DOMAIN s.drivers : name = <<"driver", s.drivers[n]>>
  \/ s.kind = "rank" /\ ask = Rubric(s.levels) /\ \E n \in DOMAIN s.candidates : name = <<"fit", s.candidates[n]>>
  \/ s.kind = "explain" /\ name = <<"framing">> /\ ask = Choice(s.framings)
  \/ s.kind = "explain" /\ name = <<"severity">> /\ ask = Rubric(s.severity)
  \/ s.kind = "explain" /\ ask = Noul /\ \E n \in DOMAIN s.facts : name = <<"fact", s.facts[n].name>>

\* A name added to a base that has not got it.
LEMMA AddedIsAsked ==
  ASSUME NEW qs, NEW base, NEW names, NEW ask, NEW c \in Nat, Added(qs, base, names, ask, c),
         \A k \in DOMAIN base : \A m \in 1 .. c : base[k].name # names[m]
  PROVE  /\ \A m \in 1 .. c : AskedIn(qs, names[m], ask)
         /\ \A k \in DOMAIN base : AskedIn(base, base[k].name, base[k].ask) =>
              AskedIn(qs, base[k].name, base[k].ask)
<1>1. \A n : [name |-> names[n], ask |-> ask].name = names[n] /\ [name |-> names[n], ask |-> ask].ask = ask
  OBVIOUS
<1>2. /\ \A k \in DOMAIN base : \E m \in DOMAIN qs : qs[m] = base[k]
      /\ \A n \in 1 .. c : \E m \in DOMAIN qs : qs[m].name = names[n]
      /\ \A m \in DOMAIN qs :
           \/ \E k \in DOMAIN base : qs[m] = base[k]
           \/ \E n \in 1 .. c : qs[m].name = names[n] /\ qs[m].ask = ask
  BY <1>1 DEF Added
<1>3. \A m \in 1 .. c : AskedIn(qs, names[m], ask)
  BY <1>2 DEF AskedIn
<1>4. \A k \in DOMAIN base : AskedIn(base, base[k].name, base[k].ask) =>
              AskedIn(qs, base[k].name, base[k].ask)
  BY <1>2 DEF AskedIn
<1>. QED
  BY <1>3, <1>4

\* One question, and two under different names.
LEMMA OneAsked ==
  ASSUME NEW a, NEW x
  PROVE  /\ \E S : Ask(a, x) \in Seq(S)
         /\ DOMAIN Ask(a, x) = {1} /\ Ask(a, x)[1].name = a /\ Ask(a, x)[1].ask = x
         /\ AskedIn(Ask(a, x), a, x)
<1>1. Ask(a, x) \in Seq({[name |-> a, ask |-> x]}) /\ Len(Ask(a, x)) = 1
  BY DEF Ask
<1>2. DOMAIN Ask(a, x) = {1}
  BY <1>1, LenProperties
<1>3. Ask(a, x)[1].name = a /\ Ask(a, x)[1].ask = x
  BY DEF Ask
<1>. QED
  BY <1>1, <1>2, <1>3 DEF AskedIn

LEMMA TwoAsked ==
  ASSUME NEW a, NEW x, NEW b, NEW y, a # b
  PROVE  LET qs == Ask(a, x) \o Ask(b, y) IN
         /\ \E S : qs \in Seq(S)
         /\ DOMAIN qs = {1, 2} /\ qs[1].name = a /\ qs[1].ask = x /\ qs[2].name = b /\ qs[2].ask = y
         /\ AskedIn(qs, a, x) /\ AskedIn(qs, b, y)
<1>. DEFINE p == [name |-> a, ask |-> x]
            q == [name |-> b, ask |-> y]
            qs == Ask(a, x) \o Ask(b, y)
<1>1. Ask(a, x) \in Seq({p, q}) /\ Ask(b, y) \in Seq({p, q})
      /\ Len(Ask(a, x)) = 1 /\ Len(Ask(b, y)) = 1 /\ Ask(a, x)[1] = p /\ Ask(b, y)[1] = q
  BY DEF Ask
<1>2. qs \in Seq({p, q}) /\ Len(qs) = 2 /\ qs[1] = p /\ qs[2] = q
  <2>. HIDE DEF p, q
  <2>1. /\ qs \in Seq({p, q}) /\ Len(qs) = 1 + 1
        /\ \A i \in 1 .. 1 + 1 : qs[i] = IF i <= 1 THEN Ask(a, x)[i] ELSE Ask(b, y)[i - 1]
    BY <1>1, ConcatProperties
  <2>. HIDE DEF qs
  <2>. QED
    BY <1>1, <2>1
<1>3. DOMAIN qs = {1, 2}
  BY <1>2, LenProperties
<1>4. p.name = a /\ p.ask = x /\ q.name = b /\ q.ask = y
  OBVIOUS
<1>. HIDE DEF p, q, qs
<1>5. AskedIn(qs, a, x) /\ AskedIn(qs, b, y)
  BY <1>2, <1>3, <1>4 DEF AskedIn
<1>. QED
  BY <1>2, <1>3, <1>4, <1>5 DEF qs

\* No question at all.
LEMMA NoneAsked == <<>> \in Seq({}) /\ DOMAIN <<>> = {}
OBVIOUS

\* A stage asks a list of questions, each under its name as it was put.
LEMMA StageAsks ==
  ASSUME NEW s \in Specs
  PROVE  /\ \E S : AsksOf(s) \in Seq(S)
         /\ \A name, ask : AskedBy(s, name, ask) => AskedIn(AsksOf(s), name, ask)
<1>1. CASE s.kind = "classify"
  <2>1. AsksOf(s) = Ask(<<"label">>, Choice(s.labels))
    BY <1>1 DEF AsksOf, ClassifyAsks
  <2>2. \A name, ask : AskedBy(s, name, ask) => name = <<"label">> /\ ask = Choice(s.labels)
    BY <1>1 DEF AskedBy
  <2>. QED
    BY <2>1, <2>2, OneAsked
<1>2. CASE s.kind = "gate"
  <2>1. AsksOf(s) = Ask(<<"action">>, Choice(Actions)) \o Ask(<<"size_factor">>, Rubric(s.levels))
    BY <1>2 DEF AsksOf, GateAsks
  <2>2. \A name, ask : AskedBy(s, name, ask) =>
        \/ name = <<"action">> /\ ask = Choice(Actions)
        \/ name = <<"size_factor">> /\ ask = Rubric(s.levels)
    BY <1>2 DEF AskedBy
  <2>3. <<"action">> # <<"size_factor">>
    OBVIOUS
  <2>. QED
    BY <2>1, <2>2, <2>3, TwoAsked
<1>3. CASE s.kind = "check"
  <2>. DEFINE I == {n \in DOMAIN s.items : s.items[n].rule = "none"}
              names == [i \in DOMAIN JudgedItems(s) |-> <<JudgedItems(s)[i].name>>]
              c == Cardinality(I)
  <2>1. s.items \in Seq(CheckItem)
    BY <1>3 DEF Specs, ClassifySpec, GateSpec, CheckSpec, ScoreSpec, RankSpec, ExplainSpec
  <2>2. /\ Len(s.items) \in Nat /\ DOMAIN s.items = 1 .. Len(s.items)
        /\ I \in SUBSET (1 .. Len(s.items)) /\ \A n \in I : s.items[n] \in CheckItem
    BY <2>1, LenProperties, ElementOfSeq
  <2>. HIDE DEF I
  <2>3. JudgedItems(s) = At(s.items, I)
    BY DEF JudgedItems, I
  <2>4. /\ JudgedItems(s) \in Seq(CheckItem) /\ Len(JudgedItems(s)) \in Nat
        /\ DOMAIN JudgedItems(s) = 1 .. Len(JudgedItems(s))
        /\ \A n \in I : \E m \in DOMAIN JudgedItems(s) : JudgedItems(s)[m] = s.items[n]
    <3>1. I \in SUBSET (DOMAIN s.items)
      BY <2>2
    <3>. DEFINE its == s.items
    <3>. HIDE DEF its
    <3>2. its \in Seq(CheckItem) /\ I \in SUBSET (DOMAIN its) /\ JudgedItems(s) = At(its, I)
      BY <2>1, <2>3, <3>1 DEF its
    <3>3. \A n \in I : \E m \in DOMAIN JudgedItems(s) : JudgedItems(s)[m] = its[n]
      BY <3>2, AtLists
    <3>4. JudgedItems(s) \in Seq(CheckItem)
      BY <3>2, AtLists
    <3>. QED
      BY <3>3, <3>4, LenProperties DEF its
  <2>. DEFINE l == Len(JudgedItems(s))
  <2>5. DOMAIN names = 1 .. l /\ l \in Nat
    BY <2>4
  <2>6. AsksOf(s) = WithAll(<<>>, AskEach(names, Noul))
    BY <1>3 DEF AsksOf, CheckAsks
  <2>7. \A name, ask : AskedBy(s, name, ask) => ask = Noul /\ \E m \in 1 .. l : name = names[m]
    <3>1. \A name, ask : AskedBy(s, name, ask) => ask = Noul /\ \E n \in I : name = <<s.items[n].name>>
      BY <1>3 DEF AskedBy, I
    <3>. QED
      BY <2>4, <3>1
  <2>. HIDE DEF names, l
  <2>8. Added(AsksOf(s), <<>>, names, Noul, l)
    BY <2>5, <2>6, NoneAsked, AllAdded
  <2>9. \A m \in 1 .. l : AskedIn(AsksOf(s), names[m], Noul)
    BY <2>5, <2>8, NoneAsked, AddedIsAsked
  <2>. QED
    BY <2>7, <2>8, <2>9 DEF Added
<1>4. CASE s.kind = "score"
  <2>. DEFINE names == [n \in DOMAIN s.drivers |-> <<"driver", s.drivers[n]>>]
              l == Len(s.drivers)
              base == Ask(<<"level">>, Rubric(s.bands))
  <2>1. s.drivers \in Seq(STRING)
    BY <1>4 DEF Specs, ClassifySpec, GateSpec, CheckSpec, ScoreSpec, RankSpec, ExplainSpec
  <2>2. l \in Nat /\ DOMAIN names = 1 .. l
    BY <2>1, LenProperties
  <2>3. AsksOf(s) = WithAll(base, AskEach(names, Noul))
    BY <1>4 DEF AsksOf, ScoreAsks
  <2>4. /\ DOMAIN base = {1} /\ base[1].name = <<"level">> /\ base[1].ask = Rubric(s.bands)
        /\ \E S : base \in Seq(S)
        /\ AskedIn(base, <<"level">>, Rubric(s.bands))
    BY OneAsked
  <2>5. \A k \in DOMAIN base : \A m \in 1 .. l : base[k].name # names[m]
    <3>1. \A m \in 1 .. l : names[m] = <<"driver", s.drivers[m]>>
      BY <2>2
    <3>2. \A x : <<"level">> # <<"driver", x>>
      OBVIOUS
    <3>. HIDE DEF names, base
    <3>. QED
      BY <2>4, <3>1, <3>2
  <2>6. \A name, ask : AskedBy(s, name, ask) =>
        \/ name = <<"level">> /\ ask = Rubric(s.bands)
        \/ ask = Noul /\ \E m \in 1 .. l : name = names[m]
    BY <1>4, <2>2 DEF AskedBy
  <2>. HIDE DEF names, base, l
  <2>7. Added(AsksOf(s), base, names, Noul, l)
    BY <2>2, <2>3, <2>4, <2>5, AllAdded
  <2>8. /\ \A m \in 1 .. l : AskedIn(AsksOf(s), names[m], Noul)
        /\ \A k \in DOMAIN base : AskedIn(base, base[k].name, base[k].ask) =>
             AskedIn(AsksOf(s), base[k].name, base[k].ask)
    BY <2>2, <2>5, <2>7, AddedIsAsked
  <2>. QED
    BY <2>4, <2>6, <2>7, <2>8 DEF Added
<1>5. CASE s.kind = "rank"
  <2>. DEFINE names == [n \in DOMAIN s.candidates |-> <<"fit", s.candidates[n]>>]
              l == Len(s.candidates)
              rubric == Rubric(s.levels)
  <2>1. s.candidates \in Seq(STRING)
    BY <1>5 DEF Specs, ClassifySpec, GateSpec, CheckSpec, ScoreSpec, RankSpec, ExplainSpec
  <2>2. l \in Nat /\ DOMAIN names = 1 .. l
    BY <2>1, LenProperties
  <2>3. AsksOf(s) = WithAll(<<>>, AskEach(names, rubric))
    BY <1>5 DEF AsksOf, RankAsks
  <2>6. \A name, ask : AskedBy(s, name, ask) => ask = rubric /\ \E m \in 1 .. l : name = names[m]
    BY <1>5, <2>2 DEF AskedBy
  <2>. HIDE DEF names, l, rubric
  <2>7. Added(AsksOf(s), <<>>, names, rubric, l)
    BY <2>2, <2>3, NoneAsked, AllAdded
  <2>8. \A m \in 1 .. l : AskedIn(AsksOf(s), names[m], rubric)
    BY <2>2, <2>7, NoneAsked, AddedIsAsked
  <2>. QED
    BY <2>6, <2>7, <2>8 DEF Added
<1>6. CASE s.kind = "explain"
  <2>. DEFINE names == [n \in DOMAIN s.facts |-> <<"fact", s.facts[n].name>>]
              l == Len(s.facts)
              base == Ask(<<"framing">>, Choice(s.framings)) \o Ask(<<"severity">>, Rubric(s.severity))
  <2>1. s.facts \in Seq(FactSpec)
    BY <1>6 DEF Specs, ClassifySpec, GateSpec, CheckSpec, ScoreSpec, RankSpec, ExplainSpec
  <2>2. l \in Nat /\ DOMAIN names = 1 .. l
    BY <2>1, LenProperties
  <2>3. AsksOf(s) = WithAll(base, AskEach(names, Noul))
    BY <1>6 DEF AsksOf, ExplainAsks
  <2>4. /\ DOMAIN base = {1, 2}
        /\ base[1].name = <<"framing">> /\ base[1].ask = Choice(s.framings)
        /\ base[2].name = <<"severity">> /\ base[2].ask = Rubric(s.severity)
        /\ \E S : base \in Seq(S)
        /\ AskedIn(base, base[1].name, base[1].ask) /\ AskedIn(base, base[2].name, base[2].ask)
    <3>1. <<"framing">> # <<"severity">>
      OBVIOUS
    <3>. QED
      BY <3>1, TwoAsked
  <2>5. \A k \in DOMAIN base : \A m \in 1 .. l : base[k].name # names[m]
    <3>1. \A m \in 1 .. l : names[m] = <<"fact", s.facts[m].name>>
      BY <2>2
    <3>2. \A x : <<"framing">> # <<"fact", x>> /\ <<"severity">> # <<"fact", x>>
      OBVIOUS
    <3>. HIDE DEF names, base
    <3>. QED
      BY <2>4, <3>1, <3>2
  <2>6. \A name, ask : AskedBy(s, name, ask) =>
        \/ name = <<"framing">> /\ ask = Choice(s.framings)
        \/ name = <<"severity">> /\ ask = Rubric(s.severity)
        \/ ask = Noul /\ \E m \in 1 .. l : name = names[m]
    BY <1>6, <2>2 DEF AskedBy
  <2>. HIDE DEF names, base, l
  <2>7. Added(AsksOf(s), base, names, Noul, l)
    BY <2>2, <2>3, <2>4, <2>5, AllAdded
  <2>8. /\ \A m \in 1 .. l : AskedIn(AsksOf(s), names[m], Noul)
        /\ \A k \in DOMAIN base : AskedIn(base, base[k].name, base[k].ask) =>
             AskedIn(AsksOf(s), base[k].name, base[k].ask)
    BY <2>2, <2>5, <2>7, AddedIsAsked
  <2>. QED
    <3>1. AskedIn(AsksOf(s), <<"framing">>, Choice(s.framings))
      BY <2>4, <2>8
    <3>2. AskedIn(AsksOf(s), <<"severity">>, Rubric(s.severity))
      BY <2>4, <2>8
    <3>. QED
      BY <2>6, <2>7, <2>8, <3>1, <3>2 DEF Added
<1>. QED
  BY <1>1, <1>2, <1>3, <1>4, <1>5, <1>6 DEF Specs, ClassifySpec, GateSpec, CheckSpec, ScoreSpec, RankSpec, ExplainSpec

\* A question of a stage is found in the call under the stage's number and its name,
\* and is the one it was put as.
AskedAs(j, i, name, ask) ==
  LET qs == CallAsks(j) IN
    /\ \E k \in DOMAIN qs : qs[k].stage = i /\ qs[k].name = name
    /\ \A k \in DOMAIN qs : qs[k].stage = i /\ qs[k].name = name => qs[k].ask = ask

\* The questions of a call are those of its stages.
LEMMA CallAsksAll ==
  ASSUME NEW j \in Seq(Specs)
  PROVE  /\ Len(CallAsks(j)) \in Nat /\ DOMAIN CallAsks(j) = 1 .. Len(CallAsks(j))
         /\ \A i \in DOMAIN j : \A name, ask : AskedBy(j[i], name, ask) => AskedAs(j, i, name, ask)
<1>. DEFINE n == Len(j)
            Tagged(i) == LET qs == AsksOf(j[i]) IN
              [k \in DOMAIN qs |-> [stage |-> i, name |-> qs[k].name, ask |-> qs[k].ask]]
            ss == [i \in DOMAIN j |-> Tagged(i)]
            E == UNION {{Tagged(i)[k] : k \in DOMAIN AsksOf(j[i])} : i \in 1 .. n}
            qs == CallAsks(j)
<1>1. n \in Nat /\ DOMAIN j = 1 .. n /\ \A i \in 1 .. n : j[i] \in Specs
  BY LenProperties, ElementOfSeq
<1>2. ASSUME NEW i \in 1 .. n
      PROVE  /\ Tagged(i) \in Seq(E)
             /\ DOMAIN Tagged(i) = DOMAIN AsksOf(j[i])
             /\ \A k \in DOMAIN AsksOf(j[i]) :
                  Tagged(i)[k] = [stage |-> i, name |-> AsksOf(j[i])[k].name, ask |-> AsksOf(j[i])[k].ask]
  <2>1. PICK S : AsksOf(j[i]) \in Seq(S)
    BY <1>1, StageAsks
  <2>2. Len(AsksOf(j[i])) \in Nat /\ DOMAIN AsksOf(j[i]) = 1 .. Len(AsksOf(j[i]))
    BY <2>1, LenProperties
  <2>3. \A k \in DOMAIN AsksOf(j[i]) : Tagged(i)[k] \in E
    <3>. HIDE DEF n, Tagged
    <3>. QED
      OBVIOUS
  <2>4. Tagged(i) \in [1 .. Len(AsksOf(j[i])) -> E]
    <3>1. Tagged(i) = [k \in 1 .. Len(AsksOf(j[i])) |-> Tagged(i)[k]]
      BY <2>2
    <3>. HIDE DEF Tagged, E
    <3>. QED
      BY <2>2, <2>3, <3>1
  <2>5. Tagged(i) \in Seq(E)
    <3>. HIDE DEF Tagged, E
    <3>. QED
      BY <2>2, <2>4
  <2>. QED
    BY <2>5
<1>3. ss \in Seq(Seq(E)) /\ DOMAIN ss = 1 .. n /\ \A i \in 1 .. n : ss[i] = Tagged(i)
  <2>. HIDE DEF Tagged, E, n
  <2>. QED
    BY <1>1, <1>2
<1>4. qs = Adding!FlattenSeq(ss)
  BY FlattenIsFlatten DEF CallAsks
<1>. HIDE DEF E, ss, Tagged, qs, n
<1>5. /\ qs \in Seq(E)
      /\ \A k \in DOMAIN qs : \E i \in DOMAIN ss : \E m \in DOMAIN ss[i] : qs[k] = ss[i][m]
      /\ \A i \in DOMAIN ss : \A m \in DOMAIN ss[i] : \E k \in DOMAIN qs : qs[k] = ss[i][m]
  <2>. DEFINE fl == Adding!FlattenSeq(ss)
  <2>1. /\ fl \in Seq(E)
        /\ \A k \in DOMAIN fl : \E i \in DOMAIN ss : \E m \in DOMAIN ss[i] : fl[k] = ss[i][m]
        /\ \A i \in DOMAIN ss : \A m \in DOMAIN ss[i] : \E k \in DOMAIN fl : fl[k] = ss[i][m]
    BY <1>3, Adding!FlattenMembers
  <2>2. qs = fl
    BY <1>4
  <2>. HIDE DEF fl
  <2>. QED
    BY <2>1, <2>2
<1>6. Len(qs) \in Nat /\ DOMAIN qs = 1 .. Len(qs)
  BY <1>5, LenProperties
<1>7. \A i \in 1 .. n : \A k \in DOMAIN AsksOf(j[i]) :
        /\ k \in DOMAIN ss[i] /\ ss[i][k].stage = i
        /\ ss[i][k].name = AsksOf(j[i])[k].name /\ ss[i][k].ask = AsksOf(j[i])[k].ask
  <2>. SUFFICES ASSUME NEW i \in 1 .. n, NEW k \in DOMAIN AsksOf(j[i])
                PROVE  /\ k \in DOMAIN ss[i] /\ ss[i][k].stage = i
                       /\ ss[i][k].name = AsksOf(j[i])[k].name /\ ss[i][k].ask = AsksOf(j[i])[k].ask
    OBVIOUS
  <2>1. k \in DOMAIN ss[i] /\ ss[i][k] = [stage |-> i, name |-> AsksOf(j[i])[k].name, ask |-> AsksOf(j[i])[k].ask]
    BY <1>2, <1>3
  <2>. QED
    BY <2>1
<1>8. ASSUME NEW i \in 1 .. n, NEW name, NEW ask, AskedBy(j[i], name, ask)
      PROVE  AskedAs(j, i, name, ask)
  <2>1. AskedIn(AsksOf(j[i]), name, ask)
    BY <1>1, <1>8, StageAsks
  <2>2. PICK m \in DOMAIN AsksOf(j[i]) : AsksOf(j[i])[m].name = name
    BY <2>1 DEF AskedIn
  <2>3. \E k \in DOMAIN qs : qs[k].stage = i /\ qs[k].name = name
    <3>1. m \in DOMAIN ss[i] /\ ss[i][m].stage = i /\ ss[i][m].name = name
      BY <1>7, <2>2
    <3>2. \E k \in DOMAIN qs : qs[k] = ss[i][m]
      BY <1>3, <1>5, <3>1
    <3>. QED
      BY <3>1, <3>2
  <2>4. ASSUME NEW k \in DOMAIN qs, qs[k].stage = i, qs[k].name = name PROVE qs[k].ask = ask
    <3>1. PICK h \in 1 .. n : \E x \in DOMAIN ss[h] : qs[k] = ss[h][x]
      BY <1>3, <1>5
    <3>2. PICK x \in DOMAIN AsksOf(j[h]) : qs[k] = ss[h][x]
      BY <1>2, <1>3, <3>1
    <3>3. h = i /\ AsksOf(j[i])[x].name = name /\ qs[k].ask = AsksOf(j[i])[x].ask
      BY <1>7, <2>4, <3>2
    <3>. QED
      BY <2>1, <3>2, <3>3 DEF AskedIn
  <2>. QED
    BY <2>3, <2>4 DEF AskedAs, qs
<1>. QED
  BY <1>1, <1>6, <1>8 DEF qs

-----------------------------------------------------------------------------
(* The call *)

CallShape ==
  /\ judged \in Judgments /\ asks = CallAsks(judged)
  /\ \A i \in DOMAIN judged : Askable(judged[i])
  /\ \E S : verdicts \in Seq(S)
  /\ \E S : outs \in Seq(S)
  /\ Len(verdicts) <= Len(asks) /\ Len(outs) <= Len(judged)
  /\ phase \in {"asking", "composing", "done", "failed"}
\* A choice lists each of its labels once.
Listed(v) == v.type = "choice" =>
  /\ v.order \in Seq(DOMAIN v.probabilities) /\ Range(v.order) = DOMAIN v.probabilities
  /\ IsInjective(v.order)
\* What was heard fits the question in its place.
Fits(v, ask) == ValidFor(v, ask) /\ Listed(v)
HeardFits == \A k \in DOMAIN verdicts : Fits(verdicts[k], asks[k].ask)
\* Nothing is composed before everything was heard.
HeardFirst ==
  (phase \in {"composing", "done"} \/ outs # <<>>) => Len(verdicts) = Len(asks)
\* An output is what its stage composes, and passes its own validation.
OutsComposed ==
  \A i \in DOMAIN outs : outs[i] = Composed(i, judged[i]) /\ Actionable(outs[i])
\* A call fails over an answer, or over an output that contradicts itself.
FailedOver ==
  phase = "failed" /\ Len(verdicts) = Len(asks) =>
    /\ Len(outs) < Len(judged)
    /\ ~ Actionable(Composed(Len(outs) + 1, judged[Len(outs) + 1]))

CallInv == CallShape /\ HeardFits /\ HeardFirst /\ OutsComposed /\ FailedOver

\* A list with one more entry.
LEMMA OneMore ==
  ASSUME NEW s, \E S : s \in Seq(S), NEW e, NEW t, t = Append(s, e)
  PROVE  /\ \E S : t \in Seq(S)
         /\ Len(s) \in Nat /\ DOMAIN s = 1 .. Len(s)
         /\ Len(t) = Len(s) + 1 /\ DOMAIN t = 1 .. Len(s) + 1
         /\ \A k \in 1 .. Len(s) : t[k] = s[k]
         /\ t[Len(s) + 1] = e
<1>. PICK S : s \in Seq(S)
  OBVIOUS
<1>1. s \in Seq(S \cup {e}) /\ e \in S \cup {e}
  OBVIOUS
<1>. QED
  BY <1>1, AppendProperties, LenProperties

\* The lengths of the stages and of their questions.
LEMMA CallLengths ==
  ASSUME judged \in Judgments, asks = CallAsks(judged)
  PROVE  /\ Len(asks) \in Nat /\ DOMAIN asks = 1 .. Len(asks)
         /\ Len(judged) \in Nat /\ DOMAIN judged = 1 .. Len(judged)
<1>1. judged \in Seq(Specs)
  BY JudgmentsAssumption
<1>. QED
  BY <1>1, CallAsksAll, LenProperties

\* An answer that fits its question lists its labels.
LEMMA HeardIsListed ==
  ASSUME judged \in Judgments, asks = CallAsks(judged), NEW k \in DOMAIN asks,
         NEW a \in Answers(asks[k].name, asks[k].ask)
  PROVE  Listed(Fill(Translate(a, asks[k].ask), asks[k].ask))
<1>. DEFINE ask == asks[k].ask
            t == Translate(a, ask)
            v == Fill(t, ask)
<1>1. CASE a.type = "choice"
  <2>1. t = a
    BY <1>1 DEF Translate
  <2>2. v = a
    BY <1>1, <2>1 DEF Fill
  <2>3. Listed(a)
    BY ListingAssumption DEF Listed
  <2>. QED
    BY <2>2, <2>3
<1>2. CASE a.type # "choice"
  <2>1. t.type # "choice"
    BY <1>2 DEF Translate, Unsupported
  <2>2. v.type # "choice"
    <3>. HIDE DEF t, ask
    <3>1. CASE t.type = "score" /\ ask.type = "score"
      <4>. DEFINE ps == [l \in DOMAIN t.probabilities \cup 0 .. ask.levels - 1 |->
                           IF l \in DOMAIN t.probabilities THEN t.probabilities[l] ELSE 0]
      <4>1. v = [t EXCEPT !.probabilities = ps]
        BY <3>1 DEF Fill
      <4>. HIDE DEF v, ps
      <4>2. v.type = t.type
        BY <4>1
      <4>. QED
        BY <2>1, <4>2
    <3>2. CASE ~ (t.type = "score" /\ ask.type = "score")
      BY <2>1, <3>2 DEF Fill
    <3>. QED
      BY <3>1, <3>2
  <2>3. Listed(v)
    <3>. HIDE DEF v
    <3>. QED
      BY <2>2 DEF Listed
  <2>. QED
    BY <2>3
<1>. QED
  BY <1>1, <1>2

LEMMA CallInit == Init => CallInv
<1>. SUFFICES ASSUME Init PROVE CallInv
  OBVIOUS
<1>1. <<>> \in Seq({}) /\ Len(<<>>) = 0 /\ DOMAIN <<>> = {}
  OBVIOUS
<1>2. /\ judged \in Judgments /\ asks = CallAsks(judged) /\ \A i \in DOMAIN judged : Askable(judged[i])
      /\ verdicts = <<>> /\ outs = <<>> /\ phase = "asking"
  BY DEF Init
<1>3. Len(asks) \in Nat /\ Len(judged) \in Nat
  BY <1>2, CallLengths
<1>. QED
  BY <1>1, <1>2, <1>3 DEF CallInv, CallShape, HeardFits, HeardFirst, OutsComposed, FailedOver

\* The outputs speak of the judgment, the questions and the answers alone.
LEMMA SameReading ==
  ASSUME UNCHANGED <<judged, asks, verdicts>>
  PROVE  \A i : Composed(i, judged[i])' = Composed(i, judged[i])
BY DEF Composed, ClassifyOut, GateOut, CheckOut, CheckResult, ScoreOut, Drivers, RankOut, Rated,
       ExplainOut, LeadLength, SeverityLevel, Rounded, Included, Need

LEMMA CallStep ==
  ASSUME CallInv, [Next]_vars
  PROVE  CallInv'
<1>0. Len(asks) \in Nat /\ Len(judged) \in Nat /\ Len(verdicts) \in Nat /\ Len(outs) \in Nat
  BY CallLengths, LenProperties DEF CallInv, CallShape
<1>1. CASE Hear
  <2>1. /\ UNCHANGED <<judged, asks, outs>> /\ phase = "asking" /\ Len(verdicts) < Len(asks)
        /\ \/ phase' = phase /\ \E v : verdicts' = Append(verdicts, v)
                                      /\ Fits(v, asks[Len(verdicts) + 1].ask)
           \/ phase' = "failed" /\ verdicts' = verdicts
    <3>. DEFINE k == Len(verdicts) + 1
                q == asks[k]
                Heard(a) == Fill(Translate(a, q.ask), q.ask)
    <3>1. /\ UNCHANGED <<judged, asks, outs>> /\ phase = "asking" /\ Len(verdicts) < Len(asks)
          /\ \E a \in Answers(q.name, q.ask) :
               IF ValidFor(Heard(a), q.ask)
               THEN verdicts' = Append(verdicts, Heard(a)) /\ UNCHANGED phase
               ELSE phase' = "failed" /\ UNCHANGED verdicts
      BY <1>1 DEF Hear
    <3>2. k \in DOMAIN asks /\ judged \in Judgments /\ asks = CallAsks(judged)
      BY <1>0, <3>1, CallLengths DEF CallInv, CallShape
    <3>3. \A a \in Answers(q.name, q.ask) : Listed(Heard(a))
      BY <3>2, HeardIsListed
    <3>. HIDE DEF Heard
    <3>. QED
      BY <3>1, <3>3 DEF Fits
  <2>2. outs = <<>>
    BY <2>1, <1>0 DEF CallInv, HeardFirst
  <2>3. CASE phase' = "failed" /\ verdicts' = verdicts
    BY <1>0, <2>1, <2>2, <2>3 DEF CallInv, CallShape, HeardFits, HeardFirst, OutsComposed, FailedOver
  <2>4. CASE phase' = phase /\ \E v : verdicts' = Append(verdicts, v)
                                      /\ Fits(v, asks[Len(verdicts) + 1].ask)
    <3>. PICK v : verdicts' = Append(verdicts, v) /\ Fits(v, asks[Len(verdicts) + 1].ask)
      BY <2>4
    <3>1. /\ \E S : verdicts' \in Seq(S)
          /\ Len(verdicts') = Len(verdicts) + 1 /\ DOMAIN verdicts = 1 .. Len(verdicts)
          /\ DOMAIN verdicts' = 1 .. Len(verdicts) + 1
          /\ \A k \in 1 .. Len(verdicts) : verdicts'[k] = verdicts[k]
          /\ verdicts'[Len(verdicts) + 1] = v
      <4>1. \E S : verdicts \in Seq(S)
        BY DEF CallInv, CallShape
      <4>. QED
        BY <4>1, OneMore
    <3>2. CallShape'
      <4>1. \E S : outs' \in Seq(S)
        BY <2>1 DEF CallInv, CallShape
      <4>2. asks' = asks /\ outs' = outs /\ judged' = judged /\ phase' = phase
        BY <2>1, <2>4
      <4>3. Len(verdicts') <= Len(asks)
        <5>1. Len(verdicts) < Len(asks)
          BY <2>1
        <5>2. Len(verdicts') = Len(verdicts) + 1
          BY <3>1
        <5>. QED
          BY <1>0, <5>1, <5>2
      <4>. QED
        BY <3>1, <4>1, <4>2, <4>3 DEF CallInv, CallShape
    <3>3. HeardFits'
      <4>. SUFFICES ASSUME NEW k \in 1 .. Len(verdicts) + 1
                    PROVE  Fits(verdicts'[k], asks[k].ask)
        BY <2>1, <3>1 DEF HeardFits
      <4>1. CASE k \in 1 .. Len(verdicts)
        BY <3>1, <4>1 DEF CallInv, HeardFits
      <4>2. CASE k = Len(verdicts) + 1
        BY <3>1, <4>2
      <4>. QED
        BY <1>0, <4>1, <4>2
    <3>. QED
      BY <2>1, <2>2, <2>4, <3>2, <3>3 DEF CallInv, HeardFirst, OutsComposed, FailedOver
  <2>. QED
    BY <2>1, <2>3, <2>4
<1>2. CASE Compose
  <2>. DEFINE i == Len(outs) + 1
  <2>. DEFINE out == Composed(i, judged[i])
  <2>1. /\ UNCHANGED <<judged, asks, verdicts>> /\ phase = "composing" /\ Len(outs) < Len(judged)
        /\ \/ outs' = Append(outs, out) /\ Actionable(out) /\ phase' = phase
           \/ ~ Actionable(out) /\ phase' = "failed" /\ outs' = outs
    BY <1>2 DEF Compose
  <2>2. \A n : Composed(n, judged[n])' = Composed(n, judged[n])
    BY <2>1, SameReading
  <2>3. HeardFits'
    BY <2>1 DEF CallInv, HeardFits
  <2>4. CASE ~ Actionable(out) /\ phase' = "failed" /\ outs' = outs
    <3>1. FailedOver'
      <4>1. Composed(i, judged[i])' = Composed(i, judged[i])
        BY <2>1, <2>4, SameReading
      <4>2. i' = i
        BY <2>4
      <4>. QED
        BY <2>1, <2>4, <4>1, <4>2 DEF FailedOver, Actionable
    <3>2. OutsComposed'
      BY <2>2, <2>4 DEF CallInv, OutsComposed
    <3>. QED
      BY <2>1, <2>3, <2>4, <3>1, <3>2 DEF CallInv, CallShape, HeardFirst
  <2>5. CASE outs' = Append(outs, out) /\ Actionable(out) /\ phase' = phase
    <3>1. /\ \E S : outs' \in Seq(S)
          /\ Len(outs') = Len(outs) + 1 /\ DOMAIN outs = 1 .. Len(outs)
          /\ DOMAIN outs' = 1 .. Len(outs) + 1
          /\ \A k \in 1 .. Len(outs) : outs'[k] = outs[k]
          /\ outs'[i] = out
      <4>1. \E S : outs \in Seq(S)
        BY DEF CallInv, CallShape
      <4>. HIDE DEF out
      <4>. QED
        BY <2>5, <4>1, OneMore
    <3>2. OutsComposed'
      <4>. SUFFICES ASSUME NEW k \in 1 .. Len(outs) + 1
                    PROVE  outs'[k] = Composed(k, judged[k]) /\ Actionable(outs'[k])
        BY <2>2, <3>1 DEF OutsComposed, Actionable
      <4>1. CASE k \in 1 .. Len(outs)
        BY <3>1, <4>1 DEF CallInv, OutsComposed
      <4>2. CASE k = Len(outs) + 1
        BY <2>5, <3>1, <4>2
      <4>. QED
        BY <1>0, <4>1, <4>2
    <3>3. CallShape'
      BY <1>0, <2>1, <3>1 DEF CallInv, CallShape
    <3>. QED
      BY <2>1, <2>3, <2>5, <3>2, <3>3 DEF CallInv, HeardFirst, FailedOver
  <2>. QED
    BY <2>1, <2>4, <2>5
<1>3. CASE Unanswered
  BY <1>0, <1>3, SameReading DEF Unanswered, CallInv, CallShape, HeardFits, HeardFirst, OutsComposed, FailedOver
<1>4. CASE Answered
  BY <1>4, SameReading DEF Answered, CallInv, CallShape, HeardFits, HeardFirst, OutsComposed, FailedOver
<1>5. CASE Return
  BY <1>5, SameReading DEF Return, CallInv, CallShape, HeardFits, HeardFirst, OutsComposed, FailedOver
<1>6. CASE UNCHANGED vars
  <2>1. Composed(Len(outs) + 1, judged[Len(outs) + 1])' = Composed(Len(outs) + 1, judged[Len(outs) + 1])
    BY <1>6, SameReading DEF vars
  <2>. QED
    BY <1>6, <2>1, SameReading DEF vars, CallInv, CallShape, HeardFits, HeardFirst, OutsComposed, FailedOver, Actionable
<1>. QED
  BY <1>1, <1>2, <1>3, <1>4, <1>5, <1>6 DEF Next

LEMMA CallKept == Spec => []CallInv
<1>1. Init => CallInv
  BY CallInit
<1>2. CallInv /\ [Next]_vars => CallInv'
  BY CallStep
<1>. QED
  BY <1>1, <1>2, PTL DEF Spec

\* Once all is heard, what a stage reads under a name is an answer to the question
\* it put under it.
LEMMA NeedFits ==
  ASSUME CallInv, Len(verdicts) = Len(asks), NEW i \in DOMAIN judged,
         NEW name, NEW ask, AskedBy(judged[i], name, ask)
  PROVE  Fits(Need(i, name), ask)
<1>. DEFINE k == CHOOSE k \in DOMAIN asks : asks[k].stage = i /\ asks[k].name = name
<1>0. /\ judged \in Seq(Specs) /\ asks = CallAsks(judged)
      /\ DOMAIN asks = 1 .. Len(asks) /\ DOMAIN verdicts = 1 .. Len(verdicts)
  BY JudgmentsAssumption, CallLengths, LenProperties DEF CallInv, CallShape
<1>1. AskedAs(judged, i, name, ask)
  BY <1>0, CallAsksAll
<1>2. k \in DOMAIN asks /\ asks[k].stage = i /\ asks[k].name = name
  BY <1>0, <1>1 DEF AskedAs
<1>3. asks[k].ask = ask
  BY <1>0, <1>1, <1>2 DEF AskedAs
<1>4. Need(i, name) = verdicts[k]
  BY DEF Need
<1>. HIDE DEF k
<1>. QED
  BY <1>0, <1>2, <1>3, <1>4 DEF CallInv, HeardFits

\* A stage's output is of the stage's kind.
LEMMA KindKept ==
  ASSUME NEW i, NEW s \in Specs
  PROVE  Composed(i, s).kind = s.kind
<1>1. s.kind \in {"classify", "gate", "check", "score", "rank", "explain"}
  BY DEF Specs, ClassifySpec, GateSpec, CheckSpec, ScoreSpec, RankSpec, ExplainSpec
<1>. QED
  BY <1>1 DEF Composed, ClassifyOut, GateOut, CheckOut, ScoreOut, RankOut, ExplainOut

LEMMA StageSpec ==
  ASSUME CallInv, NEW i \in 1 .. Len(judged)
  PROVE  i \in DOMAIN judged /\ judged[i] \in Specs
BY JudgmentsAssumption, LenProperties DEF CallInv, CallShape

\* A valid answer on a rubric is a share of it.
LEMMA FractionInUnit ==
  ASSUME NEW v, NEW levels \in Nat, Fits(v, Rubric(levels))
  PROVE  Fraction(v) \in 0 .. Unit
<1>1. ScoreFits(v, Rubric(levels))
  BY DEF Fits, ValidFor, Rubric
<1>2. v.levels \in Nat /\ v.levels >= 2 /\ v.score \in 0 .. Unit * (v.levels - 1)
  BY <1>1 DEF ScoreFits, Rubric, InRange
<1>. DEFINE n == v.levels - 1
<1>3. n \in Nat \ {0} /\ v.score \in Nat /\ v.score <= Unit * n
  BY <1>2, UnitAssumption
<1>. HIDE DEF n
<1>4. v.score \div n \in 0 .. Unit
  BY <1>3, ShareOfRubric, UnitAssumption
<1>. QED
  BY <1>2, <1>4 DEF Fraction, n

\* Wherever the recorded f32 of a judged check reads on the other side of the
\* threshold than its outcome, the decision is flagged (check.rs, policy.rs).
THEOREM CrossingsAreReviewed == Spec => []NearThresholdIsReviewed
<1>1. ASSUME CallInv
      PROVE  NearThresholdIsReviewed
  <2>. SUFFICES ASSUME NEW i \in DOMAIN outs, NEW j \in DOMAIN outs,
                       outs[j].kind = "check", NEW k \in DOMAIN outs[j].checks,
                       outs[j].checks[k].ok # (outs[j].checks[k].p >= Threshold)
                PROVE  Undecided(outs[j].checks[k])
    BY DEF NearThresholdIsReviewed, Flagged
  <2>1. j \in 1 .. Len(judged) /\ Len(verdicts) = Len(asks)
    <3>1. Len(outs) \in Nat /\ DOMAIN outs = 1 .. Len(outs) /\ outs # <<>>
      BY <1>1, LenProperties DEF CallInv, CallShape
    <3>2. Len(judged) \in Nat
      BY <1>1, JudgmentsAssumption, LenProperties DEF CallInv, CallShape
    <3>. QED
      BY <1>1, <3>1, <3>2 DEF CallInv, CallShape, HeardFirst
  <2>2. outs[j] = Composed(j, judged[j]) /\ judged[j].kind = "check"
    BY <1>1, <2>1, StageSpec, KindKept DEF CallInv, OutsComposed
  <2>3. outs[j].checks = [n \in DOMAIN judged[j].items |-> CheckResult(j, judged[j].items[n])]
    BY <2>2 DEF Composed, CheckOut
  <2>. DEFINE item == judged[j].items[k]
  <2>4. k \in DOMAIN judged[j].items /\ outs[j].checks[k] = CheckResult(j, item)
    BY <2>3
  <2>5. ASSUME item.rule = "none"
        PROVE  Need(j, <<item.name>>).p \in 0 .. Unit
    <3>1. AskedBy(judged[j], <<item.name>>, Noul) /\ j \in DOMAIN judged
      BY <1>1, <2>1, <2>2, <2>4, <2>5, StageSpec DEF AskedBy
    <3>2. ValidFor(Need(j, <<item.name>>), Noul)
      BY <1>1, <2>1, <3>1, NeedFits DEF Fits
    <3>. QED
      BY <3>2 DEF ValidFor, Noul, InRange
  <2>. HIDE DEF item
  <2>. QED
    BY <2>4, <2>5, CrossingIsUndecided
<1>. QED
  BY <1>1, CallKept, PTL

\* A call that was answered in full is refused only over a reduce whose size is
\* nothing or everything to within the cast (gate.rs).
THEOREM RefusalsAreAtTheEdge == Spec => []RefusedOnlyAtTheEdge
<1>1. ASSUME CallInv
      PROVE  RefusedOnlyAtTheEdge
  <2>. SUFFICES ASSUME phase = "failed", Len(verdicts) = Len(asks)
                PROVE  LET i == Len(outs) + 1
                           size == Fraction(Need(i, <<"size_factor">>))
                       IN  /\ judged[i].kind = "gate"
                           /\ Need(i, <<"action">>).label = "reduce"
                           /\ size <= Grain \/ size >= Unit - Grain
    BY DEF RefusedOnlyAtTheEdge
  <2>. DEFINE i == Len(outs) + 1
  <2>. DEFINE action == Need(i, <<"action">>)
  <2>. DEFINE size == Need(i, <<"size_factor">>)
  <2>1. i \in 1 .. Len(judged) /\ ~ Actionable(Composed(i, judged[i]))
    <3>1. Len(outs) \in Nat /\ Len(judged) \in Nat
      BY <1>1, JudgmentsAssumption, LenProperties DEF CallInv, CallShape
    <3>. QED
      BY <1>1, <3>1 DEF CallInv, FailedOver
  <2>2. judged[i].kind = "gate" /\ i \in DOMAIN judged
    BY <1>1, <2>1, StageSpec, KindKept DEF Actionable
  <2>3. ValidFor(action, Choice(Actions)) /\ ValidFor(size, Rubric(judged[i].levels))
    <3>1. /\ AskedBy(judged[i], <<"action">>, Choice(Actions))
          /\ AskedBy(judged[i], <<"size_factor">>, Rubric(judged[i].levels))
      BY <1>1, <2>2 DEF AskedBy
    <3>. QED
      BY <1>1, <2>2, <3>1, NeedFits DEF Fits
  <2>4. ~ Consistent(action.label, SizeFor(action.label, Fraction(size)))
    BY <2>1, <2>2 DEF Actionable, Composed, GateOut
  <2>5. \E k \in 1 .. 4 : action.label = Actions[k]
    <3>1. Contains(Actions, action.label)
      BY <2>3 DEF ValidFor, Choice, ChoiceFits
    <3>2. Len(Actions) = 4
      BY DEF Actions
    <3>. QED
      BY <3>1, <3>2 DEF Contains
  <2>6. Fraction(size) \in 0 .. Unit
    <3>1. AskedBy(judged[i], <<"size_factor">>, Rubric(judged[i].levels))
      BY <2>2 DEF AskedBy
    <3>2. judged[i].levels \in Nat
      BY <1>1, <2>1, <2>2, StageSpec
      DEF Specs, ClassifySpec, GateSpec, CheckSpec, ScoreSpec, RankSpec, ExplainSpec
    <3>3. Fits(size, Rubric(judged[i].levels))
      BY <1>1, <2>2, <3>1, NeedFits
    <3>. HIDE DEF size
    <3>. QED
      BY <3>2, <3>3, FractionInUnit
  <2>. HIDE DEF action, size
  <2>7. action.label = "reduce" /\ (Fraction(size) <= Grain \/ Fraction(size) >= Unit - Grain)
    BY <2>4, <2>5, <2>6, EdgeOfReduce
  <2>. QED
    BY <2>2, <2>7 DEF action, size
<1>. QED
  BY <1>1, CallKept, PTL

-----------------------------------------------------------------------------
(* Sorting *)

\* Descending lists the places of the keys, each once: a larger key comes first, and
\* equal ones in the order of their places.
LEMMA DescendingLists ==
  ASSUME NEW n \in Nat, NEW keys, DOMAIN keys = 1 .. n, \A i \in 1 .. n : keys[i] \in Int
  PROVE  /\ DOMAIN Descending(keys) = 1 .. n
         /\ \A m \in 1 .. n : Descending(keys)[m] \in 1 .. n
         /\ \A i \in 1 .. n : \E m \in 1 .. n : Descending(keys)[m] = i
         /\ \A m, k \in 1 .. n : m < k =>
              /\ Descending(keys)[m] # Descending(keys)[k]
              /\ Precedes(keys, Descending(keys)[m], Descending(keys)[k])
<1>. DEFINE D == 1 .. n
            R(i) == {j \in D : Precedes(keys, j, i)}
            r == [i \in D |-> Cardinality(R(i))]
            order == Descending(keys)
<1>1. \A i, j, k \in D :
        /\ Precedes(keys, i, i)
        /\ Precedes(keys, i, j) \/ Precedes(keys, j, i)
        /\ Precedes(keys, i, j) /\ Precedes(keys, j, i) => i = j
        /\ Precedes(keys, i, j) /\ Precedes(keys, j, k) => Precedes(keys, i, k)
  BY DEF Precedes
<1>2. IsFiniteSet(D) /\ Cardinality(D) = n
  BY FS_Interval
<1>. HIDE DEF D
<1>3. \A i \in D : /\ i \in R(i) /\ IsFiniteSet(R(i))
                   /\ Cardinality(R(i)) \in Nat /\ Cardinality(R(i)) <= n /\ Cardinality(R(i)) # 0
  <2>. SUFFICES ASSUME NEW i \in D
                PROVE  /\ i \in R(i) /\ IsFiniteSet(R(i))
                       /\ Cardinality(R(i)) \in Nat /\ Cardinality(R(i)) <= n /\ Cardinality(R(i)) # 0
    OBVIOUS
  <2>1. i \in R(i) /\ R(i) \in SUBSET D
    BY <1>1
  <2>. HIDE DEF R
  <2>. QED
    BY <1>2, <2>1, FS_Subset, FS_CardinalityType, FS_EmptySet
<1>4. \A i, k \in D : Precedes(keys, i, k) => Cardinality(R(i)) <= Cardinality(R(k))
                                           /\ (i # k => Cardinality(R(i)) # Cardinality(R(k)))
  <2>. SUFFICES ASSUME NEW i \in D, NEW k \in D, Precedes(keys, i, k)
                PROVE  /\ Cardinality(R(i)) <= Cardinality(R(k))
                       /\ i # k => Cardinality(R(i)) # Cardinality(R(k))
    OBVIOUS
  <2>1. R(i) \in SUBSET R(k)
    BY <1>1
  <2>2. i # k => k \notin R(i)
    BY <1>1
  <2>3. k \in R(k) /\ IsFiniteSet(R(k))
    BY <1>3
  <2>. HIDE DEF R
  <2>4. i # k => R(i) # R(k)
    BY <2>2, <2>3
  <2>. QED
    BY <2>1, <2>3, <2>4, FS_Subset
<1>5. \A i, k \in D : Cardinality(R(i)) = Cardinality(R(k)) => i = k
  <2>. HIDE DEF R
  <2>. QED
    BY <1>1, <1>4
<1>6. D = 1 .. n
  BY DEF D
<1>7. r \in Surjection(D, D)
  <2>1. \A i \in D : r[i] \in D /\ r[i] = Cardinality(R(i))
    <3>. HIDE DEF R
    <3>. QED
      BY <1>3, <1>6
  <2>2. r \in [D -> D]
    <3>. HIDE DEF R
    <3>. QED
      BY <2>1
  <2>3. r \in Injection(D, D)
    <3>. HIDE DEF R
    <3>1. IsInjective(r)
      <4>1. DOMAIN r = D
        OBVIOUS
      <4>. HIDE DEF r
      <4>. QED
        BY <1>5, <2>1, <4>1 DEF IsInjective
    <3>. HIDE DEF r
    <3>. QED
      BY <2>2, <3>1 DEF Injection
  <2>. HIDE DEF r
  <2>. QED
    BY <1>2, <2>3, FS_Injection
<1>8. \A m \in D : \E i \in D : Cardinality(R(i)) = m
  <2>1. \A m \in D : \E i \in D : r[i] = m
    <3>. HIDE DEF r
    <3>. QED
      BY <1>7 DEF Surjection
  <2>. QED
    BY <2>1
<1>9. DOMAIN order = D /\ \A m \in D : order[m] = CHOOSE i \in D : Cardinality(R(i)) = m
  BY <1>6 DEF Descending
<1>10. \A m \in D : order[m] \in D /\ Cardinality(R(order[m])) = m
  <2>. HIDE DEF R, order
  <2>. QED
    BY <1>8, <1>9
<1>11. \A i \in D : \E m \in D : order[m] = i
  <2>. HIDE DEF R, order
  <2>. SUFFICES ASSUME NEW i \in D PROVE \E m \in D : order[m] = i
    OBVIOUS
  <2>1. Cardinality(R(i)) \in D
    BY <1>3, <1>6
  <2>. QED
    BY <1>5, <1>10, <2>1
<1>12. ASSUME NEW m \in D, NEW k \in D, m < k
       PROVE  order[m] # order[k] /\ Precedes(keys, order[m], order[k])
  <2>1. /\ order[m] \in D /\ order[k] \in D
        /\ Cardinality(R(order[m])) = m /\ Cardinality(R(order[k])) = k
    <3>. HIDE DEF R, order
    <3>. QED
      BY <1>10
  <2>2. m \in Int /\ k \in Int
    BY <1>6
  <2>. HIDE DEF R, order
  <2>3. ~ Precedes(keys, order[k], order[m])
    <3>. DEFINE a == order[m]
                b == order[k]
    <3>1. a \in D /\ b \in D /\ Cardinality(R(a)) = m /\ Cardinality(R(b)) = k
      BY <2>1
    <3>. HIDE DEF a, b
    <3>2. Precedes(keys, b, a) => Cardinality(R(b)) <= Cardinality(R(a))
      BY <1>4, <3>1
    <3>3. ~ Precedes(keys, b, a)
      BY <1>12, <2>2, <3>1, <3>2
    <3>. QED
      BY <3>3 DEF a, b
  <2>4. order[m] # order[k]
    BY <1>1, <2>1, <2>3
  <2>. QED
    BY <1>1, <2>1, <2>3, <2>4
<1>. QED
  <2>. HIDE DEF R, order
  <2>1. order = Descending(keys)
    BY DEF order
  <2>. QED
    BY <1>6, <1>9, <1>10, <1>11, <1>12, <2>1

\* A sorted list is the list in another order.
LEMMA SortedLists ==
  ASSUME NEW n \in Nat, NEW seq, DOMAIN seq = 1 .. n,
         NEW keys, DOMAIN keys = 1 .. n, \A i \in 1 .. n : keys[i] \in Int
  PROVE  /\ DOMAIN SortedBy(seq, keys) = 1 .. n
         /\ \A m \in 1 .. n : SortedBy(seq, keys)[m] = seq[Descending(keys)[m]]
<1>1. SortedBy(seq, keys) = [i \in 1 .. n |-> seq[Descending(keys)[i]]]
  BY DEF SortedBy
<1>2. DOMAIN SortedBy(seq, keys) = 1 .. n
  BY <1>1
<1>3. \A m \in 1 .. n : SortedBy(seq, keys)[m] = seq[Descending(keys)[m]]
  BY <1>1
<1>. QED
  BY <1>2, <1>3

\* What is composed was heard, and belongs to its stage.
LEMMA OutsHeard ==
  ASSUME CallInv, NEW i \in DOMAIN outs
  PROVE  Len(verdicts) = Len(asks) /\ i \in 1 .. Len(judged)
<1>1. Len(outs) \in Nat /\ DOMAIN outs = 1 .. Len(outs) /\ outs # <<>>
  BY LenProperties DEF CallInv, CallShape
<1>2. Len(judged) \in Nat
  BY JudgmentsAssumption, LenProperties DEF CallInv, CallShape
<1>. QED
  BY <1>1, <1>2 DEF CallInv, CallShape, HeardFirst

\* The label a valid choice names is in the evidence kept beside it, and nothing there
\* outweighs it by more than the tolerance and the cast of two weights.
LEMMA LabelWeighs ==
  ASSUME NEW S, NEW options \in Seq(S), NEW v, Fits(v, Choice(options))
  PROVE  /\ \E k \in DOMAIN Weights(v) :
              Weights(v)[k] = [label |-> v.label, p |-> Single[v.probabilities[v.label]]]
         /\ \A k \in DOMAIN Weights(v) :
              Weights(v)[k].p <= Single[v.probabilities[v.label]] + SumTolerance + 2 * Grain
<1>. DEFINE ps == v.probabilities
            order == v.order
            n == Len(order)
            w == [i \in DOMAIN order |-> [label |-> order[i], p |-> Single[ps[order[i]]]]]
            keys == [i \in DOMAIN w |-> w[i].p]
<1>1. v.type = "choice" /\ ChoiceFits(v, Choice(options))
  BY DEF Fits, ValidFor, Choice
<1>2. /\ \E i \in 1 .. Len(options) : options[i] = v.label
      /\ DOMAIN ps = Range(options)
      /\ \A k \in DOMAIN ps : ps[k] \in 0 .. Unit
      /\ \A k \in DOMAIN ps : ps[k] <= ps[v.label] + SumTolerance
  BY <1>1 DEF ChoiceFits, Choice, Contains, IsDistribution, InRange
<1>3. order \in Seq(DOMAIN ps) /\ Range(order) = DOMAIN ps
  BY <1>1 DEF Fits, Listed
<1>4. n \in Nat /\ DOMAIN order = 1 .. n /\ \A i \in 1 .. n : order[i] \in DOMAIN ps
  BY <1>3, LenProperties, ElementOfSeq
<1>5. v.label \in DOMAIN ps
  BY <1>2, LenProperties DEF Range
<1>6. \A k \in DOMAIN ps : Single[ps[k]] \in 0 .. Unit
                          /\ Single[ps[k]] - ps[k] <= Grain /\ ps[k] - Single[ps[k]] <= Grain
  BY <1>2, SingleAssumption
<1>7. /\ DOMAIN w = 1 .. n /\ DOMAIN keys = 1 .. n
      /\ \A i \in 1 .. n : /\ w[i] = [label |-> order[i], p |-> Single[ps[order[i]]]]
                           /\ keys[i] \in Int
  <2>1. DOMAIN w = 1 .. n /\ DOMAIN keys = 1 .. n
    BY <1>4
  <2>2. \A i \in 1 .. n : w[i] = [label |-> order[i], p |-> Single[ps[order[i]]]]
    BY <1>4
  <2>3. \A i \in 1 .. n : keys[i] = Single[ps[order[i]]]
    BY <1>4
  <2>. HIDE DEF w, keys
  <2>. QED
    BY <1>4, <1>6, <2>1, <2>2, <2>3
<1>8. Weights(v) = SortedBy(w, keys)
  BY DEF Weights, ByWeight
<1>. HIDE DEF w, keys, n, order
<1>9. /\ DOMAIN Weights(v) = 1 .. n
      /\ \A i \in 1 .. n : \E m \in 1 .. n : Weights(v)[m] = w[i]
      /\ \A m \in 1 .. n : \E i \in 1 .. n : Weights(v)[m] = w[i]
  <2>0. \A i \in 1 .. n : keys[i] \in Int
    BY <1>7
  <2>1. /\ \A m \in 1 .. n : Descending(keys)[m] \in 1 .. n
        /\ \A i \in 1 .. n : \E m \in 1 .. n : Descending(keys)[m] = i
    BY <1>4, <1>7, <2>0, DescendingLists
  <2>2. /\ DOMAIN SortedBy(w, keys) = 1 .. n
        /\ \A m \in 1 .. n : SortedBy(w, keys)[m] = w[Descending(keys)[m]]
    BY <1>4, <1>7, <2>0, SortedLists
  <2>3. ASSUME NEW i \in 1 .. n PROVE \E m \in 1 .. n : Weights(v)[m] = w[i]
    <3>1. PICK m \in 1 .. n : Descending(keys)[m] = i
      BY <2>1
    <3>2. Weights(v)[m] = w[i]
      BY <1>8, <2>2, <3>1
    <3>. QED
      BY <3>2
  <2>4. ASSUME NEW m \in 1 .. n PROVE \E i \in 1 .. n : Weights(v)[m] = w[i]
    <3>1. Weights(v)[m] = w[Descending(keys)[m]]
      BY <1>8, <2>2
    <3>. QED
      BY <2>1, <3>1
  <2>. QED
    BY <1>8, <2>2, <2>3, <2>4
<1>10. \E i \in 1 .. n : order[i] = v.label
  BY <1>3, <1>4, <1>5 DEF Range
<1>11. \E k \in DOMAIN Weights(v) : Weights(v)[k] = [label |-> v.label, p |-> Single[ps[v.label]]]
  <2>1. PICK i \in 1 .. n : order[i] = v.label
    BY <1>10
  <2>2. w[i] = [label |-> v.label, p |-> Single[ps[v.label]]]
    BY <1>7, <2>1
  <2>3. PICK k \in 1 .. n : Weights(v)[k] = w[i]
    BY <1>9
  <2>. QED
    BY <1>9, <2>2, <2>3
<1>12. ASSUME NEW k \in DOMAIN Weights(v)
       PROVE  Weights(v)[k].p <= Single[ps[v.label]] + SumTolerance + 2 * Grain
  <2>1. PICK i \in 1 .. n : Weights(v)[k] = w[i]
    BY <1>9
  <2>. DEFINE a == ps[order[i]]
              b == ps[v.label]
  <2>2. Weights(v)[k].p = Single[a]
    BY <1>7, <2>1
  <2>3. /\ a \in Int /\ b \in Int /\ a <= b + SumTolerance
        /\ Single[a] \in Int /\ Single[b] \in Int
        /\ Single[a] - a <= Grain /\ b - Single[b] <= Grain
    BY <1>2, <1>4, <1>5, <1>6
  <2>. HIDE DEF a, b
  <2>4. Single[a] <= Single[b] + SumTolerance + 2 * Grain
    BY <2>3, UnitAssumption
  <2>. QED
    BY <2>2, <2>4 DEF b
<1>. QED
  BY <1>11, <1>12

\* Wherever a label is an output, it is in the evidence beside it and not outweighed
\* there beyond the tolerance and the casts (mod.rs, evidence_from; ask.rs,
\* validate_for).
THEOREM LabelsAreNearTop == Spec => []LabelNearTop
<1>1. ASSUME CallInv
      PROVE  LabelNearTop
  <2>. SUFFICES ASSUME NEW i \in DOMAIN outs, outs[i].kind \in {"classify", "gate", "explain"}
                PROVE  /\ \E k \in DOMAIN outs[i].distribution :
                            outs[i].distribution[k] = [label |-> outs[i].label, p |-> outs[i].own]
                       /\ \A k \in DOMAIN outs[i].distribution :
                            outs[i].distribution[k].p <= outs[i].own + SumTolerance + 2 * Grain
    BY DEF LabelNearTop, Labelled
  <2>. DEFINE s == judged[i]
  <2>1. i \in 1 .. Len(judged) /\ Len(verdicts) = Len(asks) /\ i \in DOMAIN judged /\ s \in Specs
    BY <1>1, OutsHeard, StageSpec
  <2>2. outs[i] = Composed(i, s) /\ s.kind = outs[i].kind
    BY <1>1, <2>1, KindKept DEF CallInv, OutsComposed
  <2>3. \E v, S, options :
          /\ options \in Seq(S) /\ Fits(v, Choice(options))
          /\ outs[i].label = v.label /\ outs[i].own = Single[v.probabilities[v.label]]
          /\ outs[i].distribution = Weights(v)
    <3>1. CASE s.kind = "classify"
      <4>1. AskedBy(s, <<"label">>, Choice(s.labels)) /\ s.labels \in Seq(STRING)
        BY <2>1, <3>1 DEF AskedBy, Specs, ClassifySpec, GateSpec, CheckSpec, ScoreSpec, RankSpec, ExplainSpec
      <4>2. Fits(Need(i, <<"label">>), Choice(s.labels))
        BY <1>1, <2>1, <4>1, NeedFits
      <4>3. outs[i] = ClassifyOut(i, s)
        BY <2>2, <3>1 DEF Composed
      <4>. QED
        BY <4>1, <4>2, <4>3 DEF ClassifyOut
    <3>2. CASE s.kind = "gate"
      <4>1. AskedBy(s, <<"action">>, Choice(Actions)) /\ Actions \in Seq({"execute", "reduce", "hold", "escalate"})
        <5>1. AskedBy(s, <<"action">>, Choice(Actions))
          BY <3>2 DEF AskedBy
        <5>2. Actions \in Seq({"execute", "reduce", "hold", "escalate"})
          BY DEF Actions
        <5>. QED
          BY <5>1, <5>2
      <4>2. Fits(Need(i, <<"action">>), Choice(Actions))
        BY <1>1, <2>1, <4>1, NeedFits
      <4>3. outs[i] = GateOut(i, s)
        BY <2>2, <3>2 DEF Composed
      <4>. QED
        BY <4>1, <4>2, <4>3 DEF GateOut
    <3>3. CASE s.kind = "explain"
      <4>1. AskedBy(s, <<"framing">>, Choice(s.framings)) /\ s.framings \in Seq(STRING)
        BY <2>1, <3>3 DEF AskedBy, Specs, ClassifySpec, GateSpec, CheckSpec, ScoreSpec, RankSpec, ExplainSpec
      <4>2. Fits(Need(i, <<"framing">>), Choice(s.framings))
        BY <1>1, <2>1, <4>1, NeedFits
      <4>3. outs[i] = ExplainOut(i, s)
        BY <2>2, <3>3 DEF Composed
      <4>. QED
        BY <4>1, <4>2, <4>3 DEF ExplainOut
    <3>. QED
      BY <2>2, <3>1, <3>2, <3>3
  <2>. QED
    BY <2>3, LabelWeighs
<1>. QED
  BY <1>1, CallKept, PTL

\* The candidates with their ratings, and a ranking of them: the larger rating first
\* and equal ones in the order of the offer.
IsOffer(w, c, fraction, n) ==
  /\ DOMAIN c = 1 .. n /\ DOMAIN fraction = 1 .. n /\ DOMAIN w = 1 .. n
  /\ \A k \in 1 .. n : /\ w[k] = [id |-> c[k], fraction |-> fraction[k]]
                       /\ fraction[k] \in 0 .. Unit
IsRanking(rated, c, fraction, n) ==
  /\ DOMAIN rated = 1 .. n
  /\ \A k \in 1 .. n : \E d \in 1 .. n : rated[k] = [id |-> c[d], fraction |-> fraction[d]]
  /\ \A d \in 1 .. n : \E k \in 1 .. n : rated[k].id = c[d]
  /\ \A k, m \in 1 .. n : k < m =>
       \E d, e \in 1 .. n : /\ rated[k] = [id |-> c[d], fraction |-> fraction[d]]
                            /\ rated[m] = [id |-> c[e], fraction |-> fraction[e]]
                            /\ fraction[d] > fraction[e] \/ (fraction[d] = fraction[e] /\ d < e)

LEMMA RankedInOrder ==
  ASSUME NEW n \in Nat, NEW w, NEW c, NEW fraction, IsOffer(w, c, fraction, n)
  PROVE  IsRanking(SortedBy(w, fraction), c, fraction, n)
<1>. DEFINE rated == SortedBy(w, fraction)
<1>0. /\ DOMAIN c = 1 .. n /\ DOMAIN fraction = 1 .. n /\ DOMAIN w = 1 .. n
      /\ \A k \in 1 .. n : w[k] = [id |-> c[k], fraction |-> fraction[k]]
  BY DEF IsOffer
<1>. DEFINE D == Descending(fraction)
<1>1. \A k \in 1 .. n : fraction[k] \in Int
  BY DEF IsOffer
<1>2. /\ \A m \in 1 .. n : D[m] \in 1 .. n
      /\ \A i \in 1 .. n : \E m \in 1 .. n : D[m] = i
      /\ \A m, k \in 1 .. n : m < k => D[m] # D[k] /\ Precedes(fraction, D[m], D[k])
  BY <1>0, <1>1, DescendingLists
<1>4. DOMAIN rated = 1 .. n /\ \A m \in 1 .. n : rated[m] = w[D[m]]
  <2>. HIDE DEF D
  <2>1. DOMAIN SortedBy(w, fraction) = 1 .. n /\ \A m \in 1 .. n : SortedBy(w, fraction)[m] = w[Descending(fraction)[m]]
    BY <1>0, <1>1, SortedLists
  <2>. QED
    BY <2>1 DEF D
<1>. HIDE DEF D, rated
<1>5. \A m \in 1 .. n : rated[m] = [id |-> c[D[m]], fraction |-> fraction[D[m]]]
  BY <1>0, <1>2, <1>4
<1>6. \A d \in 1 .. n : \E k \in 1 .. n : rated[k].id = c[d]
  <2>. SUFFICES ASSUME NEW d \in 1 .. n PROVE \E k \in 1 .. n : rated[k].id = c[d]
    OBVIOUS
  <2>1. PICK k \in 1 .. n : D[k] = d
    BY <1>2
  <2>2. rated[k] = [id |-> c[D[k]], fraction |-> fraction[D[k]]]
    BY <1>5
  <2>3. rated[k].id = c[D[k]]
    BY <2>2
  <2>. QED
    BY <2>1, <2>3
<1>7. ASSUME NEW k \in 1 .. n, NEW m \in 1 .. n, k < m
      PROVE  \E d, e \in 1 .. n : /\ rated[k] = [id |-> c[d], fraction |-> fraction[d]]
                                  /\ rated[m] = [id |-> c[e], fraction |-> fraction[e]]
                                  /\ fraction[d] > fraction[e] \/ (fraction[d] = fraction[e] /\ d < e)
  <2>1. D[k] \in 1 .. n /\ D[m] \in 1 .. n /\ D[k] # D[m] /\ Precedes(fraction, D[k], D[m])
    BY <1>2, <1>7
  <2>2. fraction[D[k]] > fraction[D[m]] \/ (fraction[D[k]] = fraction[D[m]] /\ D[k] < D[m])
    BY <2>1 DEF Precedes
  <2>. QED
    BY <1>5, <2>1, <2>2
<1>8. \A k \in 1 .. n : \E d \in 1 .. n : rated[k] = [id |-> c[d], fraction |-> fraction[d]]
  BY <1>2, <1>5
<1>. QED
  BY <1>4, <1>6, <1>7, <1>8 DEF IsRanking, rated

\* A ranking follows the ratings, and equal ratings the order of the offer (rank.rs).
THEOREM RankingsFollow == Spec => []RankFollowsRatings
<1>1. ASSUME CallInv
      PROVE  RankFollowsRatings
  <2>. SUFFICES ASSUME NEW i \in DOMAIN outs, outs[i].kind = "rank"
                PROVE  LET offered == judged[i].candidates
                           ordered == outs[i].ordered
                           Rating(c) == Fraction(Need(i, <<"fit", c>>))
                           Place(c) == CHOOSE k \in DOMAIN offered : offered[k] = c
                       IN  /\ {ordered[k].id : k \in DOMAIN ordered} = Range(offered)
                           /\ \A k, m \in DOMAIN ordered : k < m =>
                                /\ ordered[k].fit >= ordered[m].fit
                                /\ Rating(ordered[k].id) >= Rating(ordered[m].id)
                                /\ Rating(ordered[k].id) = Rating(ordered[m].id) =>
                                     Place(ordered[k].id) < Place(ordered[m].id)
    BY DEF RankFollowsRatings
  <2>. DEFINE s == judged[i]
              offered == s.candidates
              n == Len(offered)
              ordered == outs[i].ordered
              Rating(c) == Fraction(Need(i, <<"fit", c>>))
              Place(c) == CHOOSE k \in DOMAIN offered : offered[k] = c
              fraction == [k \in 1 .. n |-> Rating(offered[k])]
              rated == Rated(i, s)
  <2>1. i \in 1 .. Len(judged) /\ Len(verdicts) = Len(asks) /\ i \in DOMAIN judged /\ s \in Specs
    BY <1>1, OutsHeard, StageSpec
  <2>2. outs[i] = Composed(i, s) /\ s.kind = "rank" /\ Askable(s)
    BY <1>1, <2>1, KindKept DEF CallInv, CallShape, OutsComposed
  <2>3. offered \in Seq(STRING) /\ s.levels \in Nat /\ IsInjective(offered)
    BY <2>1, <2>2 DEF Askable, Specs, ClassifySpec, GateSpec, CheckSpec, ScoreSpec, RankSpec, ExplainSpec
  <2>4. n \in Nat /\ DOMAIN offered = 1 .. n
    BY <2>3, LenProperties
  <2>5. \A k \in 1 .. n : Rating(offered[k]) \in 0 .. Unit
    <3>. SUFFICES ASSUME NEW k \in 1 .. n PROVE Rating(offered[k]) \in 0 .. Unit
      OBVIOUS
    <3>1. AskedBy(s, <<"fit", offered[k]>>, Rubric(s.levels))
      BY <2>2, <2>4 DEF AskedBy
    <3>2. Fits(Need(i, <<"fit", offered[k]>>), Rubric(s.levels))
      BY <1>1, <2>1, <3>1, NeedFits
    <3>. QED
      BY <2>3, <3>2, FractionInUnit
  <2>6. /\ DOMAIN fraction = 1 .. n
        /\ \A k \in 1 .. n : fraction[k] = Rating(offered[k]) /\ fraction[k] \in 0 .. Unit
    BY <2>5
  <2>. DEFINE w == [k \in 1 .. n |-> [id |-> offered[k], fraction |-> fraction[k]]]
  <2>7. /\ rated = SortedBy(w, fraction)
        /\ DOMAIN w = 1 .. n /\ \A k \in 1 .. n : w[k] = [id |-> offered[k], fraction |-> fraction[k]]
    <3>1. rated = SortedBy(w, fraction)
      BY <2>4 DEF Rated
    <3>. HIDE DEF rated, fraction, offered, n
    <3>. QED
      BY <3>1
  <2>8. ordered = [k \in DOMAIN rated |-> [id |-> rated[k].id, fit |-> Single[rated[k].fraction]]]
    BY <2>2 DEF Composed, RankOut
  <2>. HIDE DEF n, offered, ordered, Rating, fraction, rated, s, w
  <2>9. /\ DOMAIN rated = 1 .. n
        /\ \A k \in 1 .. n : \E d \in 1 .. n : rated[k] = [id |-> offered[d], fraction |-> fraction[d]]
        /\ \A d \in 1 .. n : \E k \in 1 .. n : rated[k].id = offered[d]
        /\ \A k, m \in 1 .. n : k < m =>
              \E d, e \in 1 .. n :
                 /\ rated[k] = [id |-> offered[d], fraction |-> fraction[d]]
                 /\ rated[m] = [id |-> offered[e], fraction |-> fraction[e]]
                 /\ fraction[d] > fraction[e] \/ (fraction[d] = fraction[e] /\ d < e)
    <3>1. IsOffer(w, offered, fraction, n)
      BY <2>4, <2>6, <2>7 DEF IsOffer
    <3>2. IsRanking(rated, offered, fraction, n)
      BY <2>4, <2>7, <3>1, RankedInOrder
    <3>. QED
      BY <3>2 DEF IsRanking
  <2>10. /\ DOMAIN ordered = 1 .. n
         /\ \A k \in 1 .. n : ordered[k].id = rated[k].id /\ ordered[k].fit = Single[rated[k].fraction]
    BY <2>8, <2>9
  <2>11. {ordered[k].id : k \in DOMAIN ordered} = Range(offered)
    <3>1. ASSUME NEW k \in 1 .. n PROVE \E d \in 1 .. n : ordered[k].id = offered[d]
      <4>1. PICK d \in 1 .. n : rated[k] = [id |-> offered[d], fraction |-> fraction[d]]
        BY <2>9
      <4>2. rated[k].id = offered[d]
        BY <4>1
      <4>. QED
        BY <2>10, <4>2
    <3>2. \A d \in 1 .. n : \E k \in 1 .. n : ordered[k].id = offered[d]
      <4>1. \A d \in 1 .. n : \E k \in 1 .. n : rated[k].id = offered[d]
        BY <2>9
      <4>2. \A k \in 1 .. n : ordered[k].id = rated[k].id
        BY <2>10
      <4>. QED
        BY <4>1, <4>2
    <3>. QED
      <4>1. DOMAIN ordered = 1 .. n /\ Range(offered) = {offered[d] : d \in 1 .. n}
        BY <2>4, <2>10 DEF Range
      <4>2. {ordered[k].id : k \in 1 .. n} \subseteq {offered[d] : d \in 1 .. n}
        BY <3>1
      <4>3. {offered[d] : d \in 1 .. n} \subseteq {ordered[k].id : k \in 1 .. n}
        BY <3>2
      <4>. QED
        BY <4>1, <4>2, <4>3
  <2>12. \A d \in 1 .. n : Place(offered[d]) = d
    BY <2>3, <2>4 DEF IsInjective
  <2>13. ASSUME NEW k \in 1 .. n, NEW m \in 1 .. n, k < m
         PROVE  /\ ordered[k].fit >= ordered[m].fit
                /\ Rating(ordered[k].id) >= Rating(ordered[m].id)
                /\ Rating(ordered[k].id) = Rating(ordered[m].id) =>
                     Place(ordered[k].id) < Place(ordered[m].id)
    <3>1. PICK d \in 1 .. n, e \in 1 .. n :
                 /\ rated[k] = [id |-> offered[d], fraction |-> fraction[d]]
                 /\ rated[m] = [id |-> offered[e], fraction |-> fraction[e]]
                 /\ fraction[d] > fraction[e] \/ (fraction[d] = fraction[e] /\ d < e)
      BY <2>9, <2>13
    <3>2. /\ ordered[k].id = offered[d] /\ ordered[m].id = offered[e]
          /\ ordered[k].fit = Single[fraction[d]] /\ ordered[m].fit = Single[fraction[e]]
      BY <2>10, <3>1
    <3>3. /\ fraction[d] \in 0 .. Unit /\ fraction[e] \in 0 .. Unit
          /\ Rating(ordered[k].id) = fraction[d] /\ Rating(ordered[m].id) = fraction[e]
      BY <2>6, <3>2
    <3>4. Place(ordered[k].id) = d /\ Place(ordered[m].id) = e
      BY <2>12, <3>2
    <3>5. Single[fraction[d]] >= Single[fraction[e]]
      <4>1. fraction[e] <= fraction[d]
        BY <3>1, <3>3
      <4>2. Single[fraction[e]] <= Single[fraction[d]]
        BY <3>3, <4>1, SingleAssumption
      <4>3. Single[fraction[e]] \in Int /\ Single[fraction[d]] \in Int
        BY <3>3, SingleAssumption
      <4>. QED
        BY <4>2, <4>3
    <3>. HIDE DEF Place
    <3>. QED
      BY <3>1, <3>2, <3>3, <3>4, <3>5
  <2>. QED
    BY <2>10, <2>11, <2>13 DEF ordered, offered, s, Rating
<1>. QED
  BY <1>1, CallKept, PTL

\* The drivers that are reported are the strongest that hold, as many as there is
\* room for.
LEMMA StrongestAffirmed ==
  ASSUME NEW S, NEW w \in Seq(S), \A k \in DOMAIN w : w[k].p \in Int,
         \A k, m \in DOMAIN w : k < m => w[m].p <= w[k].p
  PROVE  LET H == {k \in DOMAIN w : w[k].p >= Threshold} IN
         /\ Len(Affirmed(w)) = Min({MaxDrivers, Cardinality(H)})
         /\ \A k \in DOMAIN Affirmed(w) : Affirmed(w)[k].p >= Threshold
         /\ \A x \in Range(w) \ Range(Affirmed(w)) :
              \A k \in DOMAIN Affirmed(w) : x.p <= Affirmed(w)[k].p
<1>. DEFINE H == {k \in DOMAIN w : w[k].p >= Threshold}
            c == Cardinality(H)
            h == At(w, H)
            most == Min({MaxDrivers, c})
            a == Affirmed(w)
<1>1. H \in SUBSET (DOMAIN w) /\ \A k \in DOMAIN w : k \in H <=> w[k].p >= Threshold
  OBVIOUS
<1>2. a = SubSeq(h, 1, Min({MaxDrivers, Len(h)}))
  BY DEF Affirmed
<1>. HIDE DEF H
<1>3. /\ h \in Seq(S) /\ Len(h) = c /\ c \in Nat /\ DOMAIN h = 1 .. c
      /\ \A m \in 1 .. c : Nth(H, m) \in H /\ h[m] = w[Nth(H, m)]
      /\ \A m, k \in 1 .. c : m < k => Nth(H, m) < Nth(H, k)
      /\ \A i \in H : \E m \in 1 .. c : Nth(H, m) = i
  BY <1>1, AtLists
<1>. HIDE DEF a, h, c
<1>4. most \in 0 .. c
  <2>1. \A x, y \in Int : Min({x, y}) = IF x <= y THEN x ELSE y
    <3>. SUFFICES ASSUME NEW x \in Int, NEW y \in Int PROVE Min({x, y}) = IF x <= y THEN x ELSE y
      OBVIOUS
    <3>. DEFINE m == IF x <= y THEN x ELSE y
    <3>1. m \in {x, y} /\ \A z \in {x, y} : m <= z
      OBVIOUS
    <3>2. \A l \in {x, y} : (\A z \in {x, y} : l <= z) => l = m
      OBVIOUS
    <3>. HIDE DEF m
    <3>. QED
      BY <3>1, <3>2 DEF Min
  <2>2. most = IF MaxDrivers <= c THEN MaxDrivers ELSE c
    BY <1>3, <2>1, LimitsAssumption
  <2>. HIDE DEF most
  <2>. QED
    BY <1>3, <2>2, LimitsAssumption
<1>5. a = SubSeq(h, 1, most)
  BY <1>2, <1>3
<1>. HIDE DEF most
<1>6. /\ Len(a) = most /\ DOMAIN a = 1 .. most
      /\ \A k \in 1 .. most : a[k] = h[k]
  BY <1>3, <1>4, <1>5
<1>7. \A k \in 1 .. most : /\ k \in 1 .. c /\ Nth(H, k) \in H /\ Nth(H, k) \in DOMAIN w
                           /\ a[k] = w[Nth(H, k)] /\ w[Nth(H, k)].p >= Threshold
  BY <1>1, <1>3, <1>4, <1>6
<1>8. ASSUME NEW x \in Range(w) \ Range(a), NEW k \in 1 .. most
      PROVE  x.p <= a[k].p
  <2>1. PICK m \in DOMAIN w : x = w[m]
    BY DEF Range
  <2>2. CASE m \notin H
    <3>1. ~ (w[m].p >= Threshold) /\ w[m].p \in Int /\ w[Nth(H, k)].p \in Int
      BY <1>1, <1>7, <2>2
    <3>2. Threshold \in Int
      BY ThresholdAssumption
    <3>. QED
      BY <1>7, <2>1, <3>1, <3>2
  <2>3. CASE m \in H
    <3>1. PICK r \in 1 .. c : Nth(H, r) = m
      BY <1>3, <2>3
    <3>2. r \notin 1 .. most
      <4>1. r \in 1 .. most => a[r] = x /\ r \in DOMAIN a
        BY <1>6, <1>7, <2>1, <3>1
      <4>. QED
        BY <4>1 DEF Range
    <3>3. k < r
      BY <1>3, <1>4, <3>2
    <3>4. Nth(H, k) < m /\ Nth(H, k) \in DOMAIN w
      BY <1>3, <1>7, <3>1, <3>3
    <3>5. w[m].p <= w[Nth(H, k)].p
      BY <2>1, <3>4
    <3>. QED
      BY <1>7, <2>1, <3>5
  <2>. QED
    BY <2>2, <2>3
<1>. QED
  BY <1>6, <1>7, <1>8 DEF a, H, c, most

\* A weighted sum over a finite set of numbers is a number.
AddTo(sum, x) == x + sum
Adds == INSTANCE FoldRules WITH op <- AddTo

LEMMA ExpectedIsInt ==
  ASSUME NEW n \in Nat, NEW ps, DOMAIN ps = 0 .. n, \A k \in 0 .. n : ps[k] \in Int
  PROVE  Expected(ps) \in Int
<1>. DEFINE D == 0 .. n
            seq == [l \in D |-> l * ps[l]]
            c == [s \in SUBSET D |-> CHOOSE x \in s : TRUE]
            Iter(g) == g = [s \in SUBSET D |->
                             IF s = {} THEN 0
                             ELSE (CHOOSE x \in s : TRUE) * ps[CHOOSE x \in s : TRUE]
                                  + g[s \ {CHOOSE x \in s : TRUE}]]
            it == CHOOSE g : Iter(g)
<1>1. IsFiniteSet(D) /\ Adds!IsFiniteSet(D)
  BY FS_Interval, Adds!FS_Interval
<1>2. \A l \in D : seq[l] \in Int
  OBVIOUS
<1>3. \A s \in SUBSET D : s # {} => c[s] = (CHOOSE x \in s : TRUE) /\ c[s] \in s /\ (CHOOSE x \in s : TRUE) \in s
  OBVIOUS
<1>4. PICK g : Adds!IsIter(g, 0, seq, D, c)
  <2>. HIDE DEF D, seq, c
  <2>. QED
    BY <1>1, <1>3, Adds!IterExists
<1>5. Iter(g)
  <2>. DEFINE h == [s \in SUBSET D |-> IF s = {} THEN 0 ELSE AddTo(g[s \ {c[s]}], seq[c[s]])]
  <2>1. g = h
    BY <1>4 DEF Adds!IsIter
  <2>2. \A s \in SUBSET D : s # {} =>
          AddTo(g[s \ {c[s]}], seq[c[s]]) = (CHOOSE x \in s : TRUE) * ps[CHOOSE x \in s : TRUE]
                                  + g[s \ {CHOOSE x \in s : TRUE}]
    BY <1>3 DEF AddTo
  <2>. HIDE DEF c, seq, D
  <2>. QED
    BY <2>1, <2>2
<1>6. Iter(it)
  <2>. HIDE DEF Iter
  <2>. QED
    BY <1>5
<1>7. Expected(ps) = it[D]
  BY DEF Expected, MapThenSumSet, MapThenFoldSet
<1>. HIDE DEF it
<1>. DEFINE T == {k \in Nat : \A s \in SUBSET D : Cardinality(s) = k => it[s] \in Int}
<1>8. \A s \in SUBSET D : IsFiniteSet(s) /\ Cardinality(s) \in Nat /\ (Cardinality(s) = 0 => s = {})
  BY <1>1, FS_Subset, FS_CardinalityType, FS_EmptySet
<1>9. 0 \in T
  BY <1>6, <1>8
<1>10. ASSUME NEW k \in Nat, k \in T PROVE k + 1 \in T
  <2>. SUFFICES ASSUME NEW s \in SUBSET D, Cardinality(s) = k + 1 PROVE it[s] \in Int
    OBVIOUS
  <2>. DEFINE x == CHOOSE x \in s : TRUE
  <2>1. s # {}
    <3>1. Cardinality({}) = 0
      BY FS_EmptySet
    <3>2. s = {} => k + 1 = 0
      BY <3>1
    <3>3. k + 1 # 0
      OBVIOUS
    <3>. QED
      BY <3>2, <3>3
  <2>2. x \in s /\ x \in Int /\ ps[x] \in Int
    <3>1. x \in s
      BY <2>1
    <3>. HIDE DEF x
    <3>2. x \in 0 .. n
      BY <3>1
    <3>. QED
      BY <3>1, <3>2
  <2>3. s \ {x} \in SUBSET D /\ Cardinality(s \ {x}) = k
    <3>. HIDE DEF x
    <3>1. Cardinality(s \ {x}) = Cardinality(s) - 1
      BY <1>8, <2>2, FS_RemoveElement
    <3>2. Cardinality(s \ {x}) = (k + 1) - 1
      BY <3>1
    <3>3. (k + 1) - 1 = k
      OBVIOUS
    <3>. QED
      BY <3>2, <3>3
  <2>4. it[s \ {x}] \in Int
    BY <1>10, <2>3
  <2>5. it[s] = x * ps[x] + it[s \ {x}]
    BY <1>6, <2>1
  <2>. HIDE DEF x
  <2>. QED
    BY <2>2, <2>4, <2>5
<1>11. Cardinality(D) \in T
  <2>. HIDE DEF T, D
  <2>. QED
    BY <1>1, <1>8, <1>9, <1>10, Adds!NatSetInduction
<1>. QED
  BY <1>7, <1>11

-----------------------------------------------------------------------------
(* The score *)

\* A score read in percent, by way of its share of the rubric, is its mean to within
\* the tolerance and the two roundings.
LEMMA ScaledMean ==
  ASSUME NEW u \in Nat \ {0}, NEW steps \in Nat \ {0}, NEW score \in Nat, NEW mean \in Int,
         NEW t \in Nat, Within(score, mean, t)
  PROVE  Within(2 * ((200 * (score \div steps) + u) \div (2 * u)) * u * steps, 200 * mean,
                200 * (t + steps) + u * steps)
<1>. DEFINE f == score \div steps
            p == (200 * f + u) \div (2 * u)
<1>1. f \in Int /\ steps * f <= score /\ score <= steps * f + steps
  BY Z3
<1>. HIDE DEF f
<1>2. p \in Int /\ (2 * u) * p <= 200 * f + u /\ 200 * f + u <= (2 * u) * p + 2 * u
  <2>. DEFINE a == 200 * f + u
              b == 2 * u
  <2>1. a \in Int /\ b \in Nat \ {0}
    BY <1>1
  <2>. HIDE DEF a, b
  <2>2. a \div b \in Int /\ b * (a \div b) <= a /\ a <= b * (a \div b) + b
    BY <2>1, Z3
  <2>. QED
    BY <2>2 DEF a, b
<1>. HIDE DEF p
<1>. DEFINE q == u * p
            x == steps * f
            y == steps * q
            z == steps * u
<1>3. q \in Int /\ 2 * q <= 200 * f + u /\ 200 * f - u <= 2 * q
  <2>1. q \in Int /\ (2 * u) * p = 2 * q
    BY <1>2, Z3
  <2>. HIDE DEF q
  <2>. QED
    BY <1>1, <1>2, <2>1
<1>4. /\ x \in Int /\ y \in Int /\ z \in Int
      /\ 2 * y <= 200 * x + z /\ 200 * x - z <= 2 * y
  <2>. HIDE DEF q
  <2>1. x \in Int /\ y \in Int /\ z \in Int
    BY <1>1, <1>3, Z3
  <2>2. \A a, b \in Int : a <= b => steps * a <= steps * b
    BY Z3
  <2>3. steps * (2 * q) <= steps * (200 * f + u) /\ steps * (200 * f - u) <= steps * (2 * q)
    BY <1>1, <1>3, <2>2
  <2>4. /\ steps * (2 * q) = 2 * y /\ steps * (200 * f + u) = 200 * x + z
        /\ steps * (200 * f - u) = 200 * x - z
    BY <1>1, <1>3, Z3
  <2>. QED
    BY <2>1, <2>3, <2>4
<1>5. 2 * p * u * steps = 2 * y /\ u * steps = z
  BY <1>2, Z3
<1>6. x <= score /\ score <= x + steps /\ score - mean <= t /\ mean - score <= t
  BY <1>1 DEF Within
<1>. HIDE DEF q, x, y, z
<1>7. Within(2 * y, 200 * mean, 200 * (t + steps) + z)
  BY <1>4, <1>6 DEF Within
<1>. QED
  BY <1>5, <1>7 DEF p, f

\* The weights of the drivers a score asked about, the largest first.
LEMMA DriversFall ==
  ASSUME CallInv, Len(verdicts) = Len(asks), NEW i \in DOMAIN judged,
         judged[i] \in Specs, judged[i].kind = "score"
  PROVE  LET w == Drivers(i, judged[i]) IN
         /\ w \in Seq({w[k] : k \in DOMAIN w}) /\ \A k \in DOMAIN w : w[k].p \in Int
         /\ \A k, m \in DOMAIN w : k < m => w[m].p <= w[k].p
<1>. DEFINE s == judged[i]
            n == Len(s.drivers)
            p == [k \in 1 .. n |-> Need(i, <<"driver", s.drivers[k]>>).p]
            e == [k \in 1 .. n |-> [label |-> s.drivers[k], p |-> Single[p[k]]]]
            keys == [k \in 1 .. n |-> e[k].p]
            w == Drivers(i, s)
<1>1. s.drivers \in Seq(STRING) /\ n \in Nat /\ DOMAIN s.drivers = 1 .. n
  <2>1. s.drivers \in Seq(STRING)
    BY DEF Specs, ClassifySpec, GateSpec, CheckSpec, ScoreSpec, RankSpec, ExplainSpec
  <2>. QED
    BY <2>1, LenProperties
<1>2. \A k \in 1 .. n : p[k] \in 0 .. Unit
  <2>. SUFFICES ASSUME NEW k \in 1 .. n PROVE p[k] \in 0 .. Unit
    OBVIOUS
  <2>1. AskedBy(s, <<"driver", s.drivers[k]>>, Noul)
    BY <1>1 DEF AskedBy
  <2>2. ValidFor(Need(i, <<"driver", s.drivers[k]>>), Noul)
    BY <2>1, NeedFits DEF Fits
  <2>. QED
    BY <2>2 DEF ValidFor, Noul, InRange
<1>3. w = SortedBy(e, keys)
  BY <1>1 DEF Drivers, ByWeight
<1>4. DOMAIN e = 1 .. n /\ DOMAIN keys = 1 .. n /\ \A k \in 1 .. n : e[k].p = keys[k]
  OBVIOUS
<1>5. \A k \in 1 .. n : keys[k] \in Int
  <2>1. \A k \in 1 .. n : keys[k] = Single[p[k]]
    OBVIOUS
  <2>. HIDE DEF keys, p
  <2>. QED
    BY <1>2, <2>1, SingleAssumption
<1>. HIDE DEF e, keys, p, n, s, w
<1>. DEFINE d == Descending(keys)
<1>6. /\ \A m \in 1 .. n : d[m] \in 1 .. n
      /\ \A m, k \in 1 .. n : m < k => d[m] # d[k] /\ Precedes(keys, d[m], d[k])
  BY <1>1, <1>4, <1>5, DescendingLists
<1>7. DOMAIN w = 1 .. n /\ \A m \in 1 .. n : w[m] = e[d[m]]
  BY <1>1, <1>3, <1>4, <1>5, SortedLists
<1>. HIDE DEF d
<1>8. \A m \in 1 .. n : w[m].p = keys[d[m]] /\ d[m] \in 1 .. n /\ keys[d[m]] \in Int
  BY <1>4, <1>5, <1>6, <1>7
<1>9. ASSUME NEW k \in 1 .. n, NEW m \in 1 .. n, k < m PROVE w[m].p <= w[k].p
  <2>1. Precedes(keys, d[k], d[m])
    BY <1>6, <1>9
  <2>2. keys[d[m]] <= keys[d[k]]
    BY <1>8, <2>1 DEF Precedes
  <2>. QED
    BY <1>8, <2>2
<1>10. w \in Seq({w[k] : k \in DOMAIN w})
  <2>1. w = [m \in 1 .. n |-> e[d[m]]]
    BY <1>3, <1>4 DEF SortedBy, d
  <2>. DEFINE R == {w[k] : k \in DOMAIN w}
  <2>2. \A m \in 1 .. n : e[d[m]] \in R
    BY <1>7
  <2>. HIDE DEF R
  <2>3. w \in [1 .. n -> R]
    BY <2>1, <2>2
  <2>4. w \in Seq(R)
    BY <1>1, <2>3
  <2>. QED
    BY <2>4 DEF R
<1>. QED
  BY <1>7, <1>8, <1>9, <1>10 DEF w, s

\* A score is the mean of its distribution to within the tolerance and the rounding,
\* and its drivers are the strongest that hold (score.rs).
THEOREM ScoresAreFaithful == Spec => []ScoreFaithful
<1>1. ASSUME CallInv
      PROVE  ScoreFaithful
  <2>. SUFFICES ASSUME NEW i \in DOMAIN outs, outs[i].kind = "score"
                PROVE  LET out == outs[i]
                           steps == judged[i].bands - 1
                           mean == Expected(Need(i, <<"level">>).probabilities)
                           holding == {k \in DOMAIN out.distribution : out.distribution[k].p >= Threshold}
                       IN  /\ Within(2 * out.score * Unit * steps, 200 * mean,
                                     200 * (ScoreTolerance + steps) + Unit * steps)
                           /\ Len(out.drivers) = Min({MaxDrivers, Cardinality(holding)})
                           /\ \A k \in DOMAIN out.drivers : out.drivers[k].p >= Threshold
                           /\ \A w \in Range(out.distribution) \ Range(out.drivers) :
                                \A k \in DOMAIN out.drivers : w.p <= out.drivers[k].p
    BY DEF ScoreFaithful
  <2>. DEFINE s == judged[i]
              v == Need(i, <<"level">>)
              out == outs[i]
              w == Drivers(i, s)
  <2>1. i \in 1 .. Len(judged) /\ Len(verdicts) = Len(asks) /\ i \in DOMAIN judged /\ s \in Specs
    BY <1>1, OutsHeard, StageSpec
  <2>2. outs[i] = Composed(i, s) /\ s.kind = "score"
    BY <1>1, <2>1, KindKept DEF CallInv, OutsComposed
  <2>3. /\ out.score = Percent(Fraction(v)) /\ out.drivers = Affirmed(w)
        /\ out.distribution = w
    BY <2>2 DEF Composed, ScoreOut
  <2>4. s.bands \in Nat
    BY <2>1, <2>2 DEF Specs, ClassifySpec, GateSpec, CheckSpec, ScoreSpec, RankSpec, ExplainSpec
  <2>5. ScoreFits(v, Rubric(s.bands))
    <3>1. AskedBy(s, <<"level">>, Rubric(s.bands))
      BY <2>2 DEF AskedBy
    <3>2. Fits(v, Rubric(s.bands))
      BY <1>1, <2>1, <3>1, NeedFits
    <3>. QED
      BY <3>2 DEF Fits, ValidFor, Rubric
  <2>. DEFINE steps == s.bands - 1
              mean == Expected(v.probabilities)
  <2>6. /\ v.levels = s.bands /\ steps \in Nat \ {0} /\ v.score \in 0 .. Unit * steps
        /\ DOMAIN v.probabilities = 0 .. steps
        /\ \A k \in 0 .. steps : v.probabilities[k] \in Int
        /\ Within(v.score, mean, ScoreTolerance)
    BY <2>4, <2>5 DEF ScoreFits, Rubric, InRange, IsDistribution
  <2>7. w \in Seq({w[k] : k \in DOMAIN w}) /\ (\A k \in DOMAIN w : w[k].p \in Int)
        /\ \A k, m \in DOMAIN w : k < m => w[m].p <= w[k].p
    BY <1>1, <2>1, <2>2, DriversFall
  <2>. HIDE DEF s, v, out, w
  <2>8. Within(2 * out.score * Unit * steps, 200 * mean, 200 * (ScoreTolerance + steps) + Unit * steps)
    <3>1. mean \in Int
      <4>. HIDE DEF steps
      <4>. QED
        BY <2>6, ExpectedIsInt
    <3>. HIDE DEF mean
    <3>2. Fraction(v) = v.score \div steps
      BY <2>4, <2>6 DEF Fraction
    <3>3. v.score \in Nat
      BY <2>6
    <3>. HIDE DEF steps
    <3>4. Within(2 * ((200 * (v.score \div steps) + Unit) \div (2 * Unit)) * Unit * steps, 200 * mean,
                 200 * (ScoreTolerance + steps) + Unit * steps)
      BY <2>6, <3>1, <3>3, UnitAssumption, ScaledMean
    <3>. QED
      BY <2>3, <3>2, <3>4 DEF Percent
  <2>9. LET H == {k \in DOMAIN w : w[k].p >= Threshold} IN
         /\ Len(Affirmed(w)) = Min({MaxDrivers, Cardinality(H)})
         /\ \A k \in DOMAIN Affirmed(w) : Affirmed(w)[k].p >= Threshold
         /\ \A x \in Range(w) \ Range(Affirmed(w)) :
              \A k \in DOMAIN Affirmed(w) : x.p <= Affirmed(w)[k].p
    BY <2>7, StrongestAffirmed
  <2>. HIDE DEF mean, steps
  <2>. QED
    BY <2>3, <2>8, <2>9 DEF mean, steps, s, v, out
<1>. QED
  BY <1>1, CallKept, PTL

-----------------------------------------------------------------------------
(* The summary of an explanation *)

Measuring == INSTANCE FoldRules WITH op <- Lengthen
Keeping   == INSTANCE FoldRules WITH op <- KeepOne

Chars(parts) == FoldLeft(Lengthen, 0, parts)

LEMMA CharsAre ==
  /\ Chars(<<>>) = 0
  /\ \A S : \A parts \in Seq(S), x \in S : Chars(Append(parts, x)) = Chars(parts) + x.len
<1>1. \A parts : Chars(parts) = Measuring!Left(0, parts)
  BY DEF Chars, Measuring!Left, FoldLeft, Measuring!FoldLeft, MapThenFoldSet,
         Measuring!MapThenFoldSet, Max, Measuring!Max
<1>2. ASSUME NEW S, NEW parts \in Seq(S), NEW x \in S
      PROVE  Measuring!Left(0, Append(parts, x)) = Measuring!Left(0, parts) + x.len
  BY Measuring!LeftAppend DEF Lengthen
<1>. QED
  BY <1>1, <1>2, Measuring!LeftEmpty

\* At no place there is nothing, and one place beyond the others is one entry more.
LEMMA AtGrows ==
  /\ \A s : At(s, {}) = <<>>
  /\ \A n \in Nat : \A I \in SUBSET (1 .. n) : \A s :
       At(s, I \cup {n + 1}) = Append(At(s, I), s[n + 1])
<1>1. \A s, I : At(s, I) = Adding!At(s, I)
  BY NthIsNth DEF At, Adding!At
<1>2. ASSUME NEW n \in Nat, NEW I \in SUBSET (1 .. n), NEW s
      PROVE  At(s, I \cup {n + 1}) = Append(At(s, I), s[n + 1])
  BY <1>1, <1>2, Adding!AtOneMore
<1>. QED
  BY <1>1, <1>2, Adding!AtEmpty

\* Every fact counts its characters, and a fact more is a character more or more.
LEMMA CharsGrow ==
  ASSUME NEW S, \A f \in S : f.len \in Nat, NEW a \in Seq(S), NEW n \in Nat, n <= Len(a),
         NEW I \in SUBSET (1 .. n), NEW J \in SUBSET (1 .. n), I \subseteq J
  PROVE  Chars(At(a, I)) \in Nat /\ Chars(At(a, J)) \in Nat /\ Chars(At(a, I)) <= Chars(At(a, J))
<1>. DEFINE P(m) == \A K, L \in SUBSET (1 .. m) : K \subseteq L =>
                      /\ Chars(At(a, K)) \in Nat /\ Chars(At(a, L)) \in Nat
                      /\ Chars(At(a, K)) <= Chars(At(a, L))
            T == {m \in Nat : m <= Len(a) => P(m)}
<1>1. 0 \in T
  <2>1. \A K \in SUBSET (1 .. 0) : Chars(At(a, K)) = 0
    <3>1. 1 .. 0 = {}
      OBVIOUS
    <3>. QED
      BY <3>1, AtGrows, CharsAre
  <2>. QED
    BY <2>1
<1>2. ASSUME NEW m \in Nat, m \in T PROVE m + 1 \in T
  <2>. SUFFICES ASSUME m + 1 <= Len(a), NEW K \in SUBSET (1 .. m + 1), NEW L \in SUBSET (1 .. m + 1),
                       K \subseteq L
                PROVE  /\ Chars(At(a, K)) \in Nat /\ Chars(At(a, L)) \in Nat
                       /\ Chars(At(a, K)) <= Chars(At(a, L))
    OBVIOUS
  <2>1. m + 1 \in DOMAIN a /\ a[m + 1] \in S /\ a[m + 1].len \in Nat /\ m <= Len(a)
    <3>1. Len(a) \in Nat /\ DOMAIN a = 1 .. Len(a)
      BY LenProperties
    <3>2. m + 1 \in DOMAIN a /\ m <= Len(a)
      BY <3>1
    <3>. QED
      BY <3>2, ElementOfSeq
  <2>2. P(m)
    BY <1>2, <2>1
  <2>3. ASSUME NEW M \in SUBSET (1 .. m + 1)
        PROVE  /\ M \cap (1 .. m) \in SUBSET (1 .. m)
               /\ m + 1 \notin M => Chars(At(a, M)) = Chars(At(a, M \cap (1 .. m)))
               /\ m + 1 \in M => Chars(At(a, M)) = Chars(At(a, M \cap (1 .. m))) + a[m + 1].len
    <3>. DEFINE N == M \cap (1 .. m)
    <3>1. N \in SUBSET (1 .. m) /\ (m + 1 \notin M => M = N) /\ (m + 1 \in M => M = N \cup {m + 1})
      <4>1. 1 .. m + 1 = (1 .. m) \cup {m + 1}
        OBVIOUS
      <4>. QED
        BY <4>1
    <3>. HIDE DEF N
    <3>2. At(a, N) \in Seq(S)
      <4>1. N \in SUBSET (DOMAIN a)
        <5>1. Len(a) \in Nat /\ DOMAIN a = 1 .. Len(a)
          BY LenProperties
        <5>. QED
          BY <2>1, <3>1, <5>1
      <4>. QED
        BY <4>1, AtLists
    <3>3. Chars(Append(At(a, N), a[m + 1])) = Chars(At(a, N)) + a[m + 1].len
      BY <2>1, <3>2, CharsAre
    <3>4. At(a, N \cup {m + 1}) = Append(At(a, N), a[m + 1])
      BY <3>1, AtGrows
    <3>5. m + 1 \in M => Chars(At(a, M)) = Chars(At(a, N)) + a[m + 1].len
      BY <3>1, <3>3, <3>4
    <3>. QED
      BY <3>1, <3>5 DEF N
  <2>. DEFINE k == Chars(At(a, K \cap (1 .. m)))
              l == Chars(At(a, L \cap (1 .. m)))
  <2>4. k \in Nat /\ l \in Nat /\ k <= l
    <3>1. K \cap (1 .. m) \in SUBSET (1 .. m) /\ L \cap (1 .. m) \in SUBSET (1 .. m)
          /\ K \cap (1 .. m) \subseteq L \cap (1 .. m)
      OBVIOUS
    <3>. QED
      BY <2>2, <3>1
  <2>5. /\ m + 1 \notin K => Chars(At(a, K)) = k
        /\ m + 1 \in K => Chars(At(a, K)) = k + a[m + 1].len
        /\ m + 1 \notin L => Chars(At(a, L)) = l
        /\ m + 1 \in L => Chars(At(a, L)) = l + a[m + 1].len
    BY <2>3
  <2>. HIDE DEF k, l, P
  <2>. QED
    BY <2>1, <2>4, <2>5
<1>3. n \in T
  <2>. HIDE DEF T
  <2>. QED
    BY <1>1, <1>2, Adding!NatSetInduction
<1>. QED
  BY <1>3

\* More facts make a longer summary: what a full stop may save, joining costs.
LEMMA LengthGrows ==
  ASSUME NEW S, \A f \in S : f.len \in Nat, NEW a \in Seq(S), NEW lead \in Int,
         NEW I \in SUBSET (DOMAIN a), NEW J \in SUBSET (DOMAIN a), I # {}, I \subseteq J
  PROVE  Length(lead, At(a, I)) <= Length(lead, At(a, J)) /\ Length(lead, At(a, J)) \in Int
<1>. DEFINE Ends(parts) == IF parts[Len(parts)].stops THEN 0 ELSE 1
            Joins(c) == IF c < 2 THEN 0 ELSE 2 * (c - 2) + 6
<1>1. \A parts : Len(parts) \in Nat /\ Len(parts) # 0 =>
        Length(lead, parts) = lead + 1 + (Chars(parts) + Joins(Len(parts)) + Ends(parts))
  <2>. SUFFICES ASSUME NEW parts, Len(parts) \in Nat, Len(parts) # 0
                PROVE  Length(lead, parts) = lead + 1 + (Chars(parts) + Joins(Len(parts)) + Ends(parts))
    OBVIOUS
  <2>1. parts # <<>>
    <3>1. Len(<<>>) = 0
      OBVIOUS
    <3>. QED
      BY <3>1
  <2>2. Sentence(parts) = Chars(parts) + Joins(Len(parts)) + Ends(parts)
    BY DEF Sentence, Chars
  <2>. QED
    BY <2>1, <2>2 DEF Length
<1>2. Len(a) \in Nat /\ DOMAIN a = 1 .. Len(a)
  BY LenProperties
<1>3. /\ Chars(At(a, I)) \in Nat /\ Chars(At(a, J)) \in Nat
      /\ Chars(At(a, I)) <= Chars(At(a, J))
  BY <1>2, CharsGrow
<1>4. \A M \in SUBSET (DOMAIN a) : IsFiniteSet(M) /\ (M # {} => Cardinality(M) # 0)
  <2>1. IsFiniteSet(DOMAIN a)
    BY <1>2, FS_Interval
  <2>. SUFFICES ASSUME NEW M \in SUBSET (DOMAIN a)
                PROVE  IsFiniteSet(M) /\ (M # {} => Cardinality(M) # 0)
    OBVIOUS
  <2>2. IsFiniteSet(M)
    BY <2>1, FS_Subset
  <2>. QED
    BY <2>2, FS_EmptySet
<1>5. /\ Len(At(a, I)) = Cardinality(I) /\ Cardinality(I) \in Nat /\ Cardinality(I) # 0
      /\ Len(At(a, J)) = Cardinality(J) /\ Cardinality(J) \in Nat /\ Cardinality(J) # 0
  BY <1>4, AtLists
<1>6. Cardinality(I) <= Cardinality(J) /\ (I # J => Cardinality(I) # Cardinality(J))
  BY <1>4, FS_Subset
<1>7. Ends(At(a, I)) \in 0 .. 1 /\ Ends(At(a, J)) \in 0 .. 1
  OBVIOUS
<1>. HIDE DEF Ends
<1>8. \A c \in Nat : Joins(c) \in Nat
  OBVIOUS
<1>9. \A c, d \in Nat : c < d /\ c # 0 => Joins(c) + 1 <= Joins(d)
  OBVIOUS
<1>. HIDE DEF Joins
<1>10. CASE I = J
  <2>1. Length(lead, At(a, J)) = lead + 1 + (Chars(At(a, J)) + Joins(Cardinality(J)) + Ends(At(a, J)))
    BY <1>1, <1>5
  <2>2. Length(lead, At(a, J)) \in Int
    <3>1. Joins(Cardinality(J)) \in Int
      BY <1>5, <1>8
    <3>. QED
      BY <1>3, <1>7, <2>1, <3>1
  <2>. QED
    BY <1>10, <2>2
<1>11. CASE I # J
  <2>1. Joins(Cardinality(I)) + 1 <= Joins(Cardinality(J))
    BY <1>5, <1>6, <1>9, <1>11
  <2>2. Joins(Cardinality(I)) \in Nat /\ Joins(Cardinality(J)) \in Nat
    BY <1>5, <1>8
  <2>3. /\ Length(lead, At(a, I)) = lead + 1 + (Chars(At(a, I)) + Joins(Cardinality(I)) + Ends(At(a, I)))
        /\ Length(lead, At(a, J)) = lead + 1 + (Chars(At(a, J)) + Joins(Cardinality(J)) + Ends(At(a, J)))
    BY <1>1, <1>5
  <2>. QED
    BY <1>3, <1>7, <2>1, <2>2, <2>3
<1>. QED
  BY <1>10, <1>11

\* The facts kept are some of those offered, in their order; with one or more the
\* summary fits, and a fact left out did not fit beside those kept before it.
KeptFrom(kept, lead, a, K, n) ==
  /\ K \in SUBSET (1 .. n) /\ kept = At(a, K)
  /\ K # {} => Length(lead, kept) <= MaxSummary
  /\ \A m \in (1 .. n) \ K : ~ (Length(lead, At(a, (K \cap (1 .. m - 1)) \cup {m})) <= MaxSummary)

LEMMA KeptFacts ==
  ASSUME NEW S, NEW a \in Seq(S), NEW lead
  PROVE  \E K : KeptFrom(KeepFacts(lead, a), lead, a, K, Len(a))
<1>. DEFINE F == {parts \in Seq(S) : Length(lead, parts) <= MaxSummary}
            base == Keeping!Beside(lead, <<>>)
<1>1. ASSUME NEW kept \in Seq(S), NEW x \in S
      PROVE  KeepOne(Keeping!Beside(lead, kept), x) =
               Keeping!Beside(lead, IF Append(kept, x) \in F THEN Append(kept, x) ELSE kept)
  <2>1. Append(kept, x) \in Seq(S)
    OBVIOUS
  <2>. QED
    BY <2>1 DEF KeepOne, Keeping!Beside
<1>. HIDE DEF F, base
<1>2. PICK K, kept : /\ Keeping!Left(base, a) = Keeping!Beside(lead, kept)
                     /\ Keeping!KeepsAt(F, kept, a, K, Len(a))
  BY <1>1, Keeping!LeftKeeps DEF base
<1>3. KeepFacts(lead, a) = kept
  BY <1>2 DEF KeepFacts, base, Keeping!Beside, Keeping!Left, FoldLeft, Keeping!FoldLeft,
     MapThenFoldSet, Keeping!MapThenFoldSet, Max, Keeping!Max
<1>4. \A s, I : Keeping!At(s, I) = At(s, I)
  <2>1. \A I : Cardinality(I) = Keeping!Cardinality(I)
    BY Zenon DEF Cardinality, Keeping!Cardinality, IsFiniteSet, Keeping!IsFiniteSet
  <2>2. \A I, n : Nth(I, n) = Keeping!Nth(I, n)
    BY <2>1 DEF Nth, Keeping!Nth
  <2>. QED
    BY <2>1, <2>2 DEF At, Keeping!At
<1>5. K \in SUBSET (1 .. Len(a)) /\ DOMAIN a = 1 .. Len(a) /\ Len(a) \in Nat
  BY <1>2, LenProperties DEF Keeping!KeepsAt
<1>6. \A I \in SUBSET (DOMAIN a) : At(a, I) \in Seq(S)
  BY AtLists
<1>7. ASSUME NEW m \in (1 .. Len(a)) \ K
      PROVE  ~ (Length(lead, At(a, (K \cap (1 .. m - 1)) \cup {m})) <= MaxSummary)
  <2>1. At(a, (K \cap (1 .. m - 1)) \cup {m}) \notin F
    BY <1>2, <1>4 DEF Keeping!KeepsAt
  <2>2. (K \cap (1 .. m - 1)) \cup {m} \in SUBSET (DOMAIN a)
    BY <1>5
  <2>. QED
    BY <1>6, <2>1, <2>2 DEF F
<1>8. K # {} => Length(lead, kept) <= MaxSummary
  BY <1>2 DEF Keeping!KeepsAt, F
<1>9. kept = At(a, K)
  BY <1>2, <1>4 DEF Keeping!KeepsAt
<1>. QED
  BY <1>3, <1>5, <1>7, <1>8, <1>9 DEF KeptFrom

\* A share of a rubric of n steps rounds to one of its levels.
LEMMA RoundedLevel ==
  ASSUME NEW u \in Nat \ {0}, NEW f \in 0 .. u, NEW n \in Nat
  PROVE  (2 * f * n + u) \div (2 * u) \in 0 .. n
<1>. DEFINE a == 2 * f * n + u
            b == 2 * u
            q == a \div b
<1>1. a \in Nat /\ b \in Nat \ {0} /\ a <= b * n + u
  <2>1. f * n \in Nat /\ u * n \in Nat /\ f * n <= u * n
    BY Z3
  <2>2. 2 * f * n = 2 * (f * n) /\ b * n = 2 * (u * n)
    BY Z3
  <2>. QED
    BY <2>1, <2>2
<1>2. u < b
  OBVIOUS
<1>. HIDE DEF a, b
<1>3. q \in Nat /\ b * q <= a
  BY <1>1, Z3
<1>. HIDE DEF q
<1>4. ~ (n + 1 <= q)
  <2>. SUFFICES ASSUME n + 1 <= q PROVE FALSE
    OBVIOUS
  <2>1. b * (n + 1) <= b * q
    BY <1>1, <1>3, Z3
  <2>2. b * (n + 1) = b * n + b /\ b * n \in Int /\ b * q \in Int
    BY <1>1, <1>3, Z3
  <2>. QED
    BY <1>1, <1>2, <1>3, <2>1, <2>2
<1>5. q \in 0 .. n
  BY <1>3, <1>4
<1>. QED
  BY <1>5 DEF a, b, q

\* The lead of an explanation is one of those offered, with one of the words.
LEMMA LeadIsNat ==
  ASSUME CallInv, Len(verdicts) = Len(asks), NEW i \in DOMAIN judged, judged[i] \in Specs,
         judged[i].kind = "explain"
  PROVE  LeadLength(i, judged[i]) \in Nat
<1>. DEFINE s == judged[i]
            v == Need(i, <<"framing">>)
            r == Need(i, <<"severity">>)
            chosen == CHOOSE k \in DOMAIN s.framings : s.framings[k] = v.label
            n == s.severity - 1
<1>1. /\ s.framings \in Seq(STRING) /\ s.severity \in Nat
      /\ s.leads \in Seq(Nat) /\ s.words \in Seq(Nat)
      /\ Len(s.leads) = Len(s.framings) /\ Len(s.words) = s.severity
  BY DEF Specs, ClassifySpec, GateSpec, CheckSpec, ScoreSpec, RankSpec, ExplainSpec
<1>2. Fits(v, Choice(s.framings)) /\ Fits(r, Rubric(s.severity))
  <2>1. AskedBy(s, <<"framing">>, Choice(s.framings)) /\ AskedBy(s, <<"severity">>, Rubric(s.severity))
    BY DEF AskedBy
  <2>. QED
    BY <2>1, NeedFits
<1>3. s.leads[chosen] \in Nat
  <2>1. Contains(s.framings, v.label)
    BY <1>2 DEF Fits, ValidFor, Choice, ChoiceFits
  <2>2. \E k \in DOMAIN s.framings : s.framings[k] = v.label
    BY <1>1, <2>1, LenProperties DEF Contains
  <2>3. chosen \in DOMAIN s.framings
    BY <2>2
  <2>4. DOMAIN s.framings = DOMAIN s.leads
    BY <1>1, LenProperties
  <2>. HIDE DEF chosen, s
  <2>. QED
    BY <1>1, <2>3, <2>4, ElementOfSeq
<1>4. Fraction(r) \in 0 .. Unit /\ n \in Nat
  <2>1. r.levels = s.severity /\ r.levels >= 2
    BY <1>2 DEF Fits, ValidFor, Rubric, ScoreFits
  <2>. QED
    BY <1>1, <1>2, <2>1, FractionInUnit
<1>5. SeverityLevel(i, s) \in 0 .. n
  <2>. DEFINE f == Fraction(r)
  <2>1. SeverityLevel(i, s) = (2 * f * n + Unit) \div (2 * Unit)
    BY DEF SeverityLevel, Rounded
  <2>. HIDE DEF f, n
  <2>2. f \in 0 .. Unit
    BY <1>4 DEF f
  <2>. QED
    BY <1>4, <2>1, <2>2, RoundedLevel, UnitAssumption
<1>6. s.words[SeverityLevel(i, s) + 1] \in Nat
  <2>1. SeverityLevel(i, s) + 1 \in 1 .. s.severity
    BY <1>1, <1>4, <1>5
  <2>2. DOMAIN s.words = 1 .. s.severity
    BY <1>1, LenProperties
  <2>. HIDE DEF s
  <2>. QED
    BY <1>1, <2>1, <2>2, ElementOfSeq
<1>7. LeadLength(i, s) = s.leads[chosen] + s.words[SeverityLevel(i, s) + 1]
  BY DEF LeadLength
<1>. QED
  BY <1>3, <1>6, <1>7

\* A summary with a fact fits without being cut, and a fact that was affirmed and left
\* out would not have fitted beside those that were kept (explain.rs).
THEOREM SummariesAreFull == Spec => []SummaryIsFull
<1>1. ASSUME CallInv
      PROVE  SummaryIsFull
  <2>. SUFFICES ASSUME NEW i \in DOMAIN outs, outs[i].kind = "explain"
                PROVE  LET kept == outs[i].kept
                           lead == LeadLength(i, judged[i])
                           affirmed == Included(i, judged[i])
                           Beside(f) == At(affirmed, {n \in DOMAIN affirmed :
                                                affirmed[n] = f \/ Contains(kept, affirmed[n])})
                       IN  /\ kept # <<>> => Length(lead, kept) <= MaxSummary
                           /\ \A f \in Range(affirmed) \ Range(kept) :
                                Length(lead, Beside(f)) > MaxSummary
    BY DEF SummaryIsFull
  <2>. DEFINE s == judged[i]
              lead == LeadLength(i, s)
              a == Included(i, s)
              kept == outs[i].kept
              Among(f) == {n \in DOMAIN a : a[n] = f \/ Contains(kept, a[n])}
  <2>1. i \in 1 .. Len(judged) /\ Len(verdicts) = Len(asks) /\ i \in DOMAIN judged /\ s \in Specs
    BY <1>1, OutsHeard, StageSpec
  <2>2. outs[i] = Composed(i, s) /\ s.kind = "explain"
    BY <1>1, <2>1, KindKept DEF CallInv, OutsComposed
  <2>3. kept = KeepFacts(lead, a)
    BY <2>2 DEF Composed, ExplainOut
  <2>4. a \in Seq(FactSpec)
    <3>1. s.facts \in Seq(FactSpec)
      BY <2>1, <2>2 DEF Specs, ClassifySpec, GateSpec, CheckSpec, ScoreSpec, RankSpec, ExplainSpec
    <3>2. {n \in DOMAIN s.facts : Need(i, <<"fact", s.facts[n].name>>).p >= Threshold}
            \in SUBSET (DOMAIN s.facts)
      OBVIOUS
    <3>. QED
      BY <3>1, <3>2, AtLists DEF Included
  <2>5. lead \in Int
    BY <1>1, <2>1, <2>2, LeadIsNat
  <2>6. \A f \in FactSpec : f.len \in Nat
    BY DEF FactSpec
  <2>. HIDE DEF s, lead, a, kept
  <2>7. PICK K : KeptFrom(kept, lead, a, K, Len(a))
    BY <2>3, <2>4, KeptFacts
  <2>8. Len(a) \in Nat /\ DOMAIN a = 1 .. Len(a) /\ K \in SUBSET (DOMAIN a) /\ kept = At(a, K)
    BY <2>4, <2>7, LenProperties DEF KeptFrom
  <2>9. /\ Len(kept) = Cardinality(K) /\ DOMAIN kept = 1 .. Len(kept)
        /\ \A k \in K : \E m \in 1 .. Len(kept) : kept[m] = a[k]
    BY <2>4, <2>8, AtLists
  <2>10. kept # <<>> => Length(lead, kept) <= MaxSummary
    <3>1. K = {} => kept = <<>>
      BY <2>8, AtGrows
    <3>. QED
      BY <2>7, <3>1 DEF KeptFrom
  <2>11. ASSUME NEW f \in Range(a) \ Range(kept)
         PROVE  Length(lead, At(a, Among(f))) > MaxSummary
    <3>1. PICK m \in DOMAIN a : a[m] = f
      BY DEF Range
    <3>2. m \notin K
      BY <2>9, <3>1 DEF Range
    <3>. DEFINE I == (K \cap (1 .. m - 1)) \cup {m}
                J == Among(f)
    <3>3. ~ (Length(lead, At(a, I)) <= MaxSummary)
      BY <2>7, <2>8, <3>2 DEF KeptFrom
    <3>4. I \in SUBSET (DOMAIN a) /\ J \in SUBSET (DOMAIN a) /\ I # {} /\ I \subseteq J
      <4>1. \A k \in K : Contains(kept, a[k])
        BY <2>9 DEF Contains
      <4>. QED
        BY <2>8, <3>1, <4>1
    <3>. HIDE DEF I, J
    <3>5. /\ Length(lead, At(a, I)) <= Length(lead, At(a, J)) /\ Length(lead, At(a, J)) \in Int
          /\ Length(lead, At(a, I)) \in Int
      <4>1. /\ Length(lead, At(a, I)) <= Length(lead, At(a, J))
            /\ Length(lead, At(a, J)) \in Int
        BY <2>4, <2>5, <2>6, <3>4, LengthGrows
      <4>2. Length(lead, At(a, I)) \in Int
        BY <2>4, <2>5, <2>6, <3>4, LengthGrows
      <4>. QED
        BY <4>1, <4>2
    <3>6. Length(lead, At(a, J)) > MaxSummary
      BY <3>3, <3>5, MaxSummaryAssumption
    <3>. QED
      BY <3>6 DEF J
  <2>. QED
    BY <2>10, <2>11 DEF s, lead, a, kept
<1>. QED
  BY <1>1, CallKept, PTL

-----------------------------------------------------------------------------
(* The types *)

\* The variables of a call keep to their types: every answer heard fits its question,
\* and every output is its stage's and passes its validation.
THEOREM TypeCorrect == Spec => []TypeOK
<1>1. ASSUME CallInv
      PROVE  TypeOK
  <2>1. \A i \in DOMAIN outs : outs[i].kind = judged[i].kind
    <3>. SUFFICES ASSUME NEW i \in DOMAIN outs PROVE outs[i].kind = judged[i].kind
      OBVIOUS
    <3>1. i \in 1 .. Len(judged)
      <4>1. Len(outs) \in Nat /\ DOMAIN outs = 1 .. Len(outs) /\ Len(judged) \in Nat
        BY <1>1, JudgmentsAssumption, LenProperties DEF CallInv, CallShape
      <4>. QED
        BY <1>1, <4>1 DEF CallInv, CallShape
    <3>. QED
      BY <1>1, <3>1, StageSpec, KindKept DEF CallInv, OutsComposed
  <2>. QED
    BY <1>1, <2>1 DEF CallInv, CallShape, HeardFits, Fits, HeardFirst, OutsComposed, TypeOK
<1>. QED
  BY <1>1, CallKept, PTL
=============================================================================
