------------------------------ MODULE Verdicts ------------------------------
(***************************************************************************)
(* Questions, answers and their validation: crates/jev-core/src/ask.rs,     *)
(* the translation of live.rs and the helpers of primitives/mod.rs.         *)
(*                                                                         *)
(* A probability, a confidence and a fraction of a rubric are integers, with*)
(* Unit for 1.0; a position on a rubric has Unit between two levels.  An    *)
(* f64 is any integer; an f32 only the ones Single maps to, so that between *)
(* two neighbouring f32 there are f64 which round to either.                *)
(***************************************************************************)
EXTENDS Integers, Sequences, SequencesExt, FiniteSetsExt

CONSTANTS
  Unit,             \* 1.0
  Single,           \* the cast from f64 to f32
  Grain,            \* how far the cast may move a value, at most
  SumTolerance,     \* SUM_TOLERANCE
  ScoreTolerance    \* SCORE_TOLERANCE

ASSUME UnitAssumption ==
  /\ Unit \in Nat \ {0} /\ Grain \in Nat
  /\ SumTolerance \in Nat /\ ScoreTolerance \in Nat

ASSUME SingleAssumption ==
  /\ Single \in [0 .. Unit -> 0 .. Unit]
  /\ Single[0] = 0 /\ Single[Unit] = Unit
  /\ \A v, w \in 0 .. Unit : v <= w => Single[v] <= Single[w]
  /\ \A v \in 0 .. Unit : Single[v] - v <= Grain /\ v - Single[v] <= Grain

-----------------------------------------------------------------------------
(***************************************************************************)
(* Questions                                                               *)
(***************************************************************************)

Noul            == [type |-> "noul"]
Choice(options) == [type |-> "choice", options |-> options]   \* labels, in offer order
Rubric(levels)  == [type |-> "score", levels |-> levels]      \* how many levels

\* Asks::with: an IndexMap keeps the place of a name it has and replaces the question.
With(asks, name, ask) ==
  IF \E i \in DOMAIN asks : asks[i].name = name
  THEN [i \in DOMAIN asks |-> IF asks[i].name = name THEN [asks[i] EXCEPT !.ask = ask] ELSE asks[i]]
  ELSE Append(asks, [name |-> name, ask |-> ask])

WithOne(asks, q) == With(asks, q.name, q.ask)
WithAll(asks, more) == FoldLeft(WithOne, asks, more)

-----------------------------------------------------------------------------
(***************************************************************************)
(* Answers                                                                 *)
(***************************************************************************)

Unsupported == [type |-> "unsupported"]

\* verdict_from: the number of levels is the rubric's that was sent, or the answer's
\* own legend's when something else was asked; an answer of a type the code does not
\* know is an error.
Translate(answer, ask) ==
  CASE answer.type = "score" ->
         [type |-> "score", score |-> answer.score,
          levels |-> IF ask.type = "score" THEN ask.levels ELSE answer.legend,
          probabilities |-> answer.probabilities, confidence |-> answer.confidence]
    [] answer.type \in {"noul", "choice"} -> answer
    [] OTHER -> Unsupported

\* Verdict::fill_missing_levels
Fill(v, ask) ==
  IF v.type = "score" /\ ask.type = "score"
  THEN [v EXCEPT !.probabilities =
          [l \in DOMAIN @ \cup 0 .. ask.levels - 1 |-> IF l \in DOMAIN @ THEN @[l] ELSE 0]]
  ELSE v

InRange(value, most) == value \in 0 .. most

Mass(probabilities) == MapThenSumSet(LAMBDA k : probabilities[k], DOMAIN probabilities)
Expected(probabilities) ==
  MapThenSumSet(LAMBDA l : l * probabilities[l], DOMAIN probabilities)

Within(a, b, tolerance) == a - b <= tolerance /\ b - a <= tolerance

IsDistribution(probabilities) ==
  /\ \A k \in DOMAIN probabilities : InRange(probabilities[k], Unit)
  /\ Within(Mass(probabilities), Unit, SumTolerance)

\* Mutant of ChoiceFits: the answer is believed about which label is the likeliest.
ChoiceFitsBelieved(v, ask) ==
  /\ Contains(ask.options, v.label)
  /\ InRange(v.confidence, Unit)
  /\ IsInjective(ask.options) /\ DOMAIN v.probabilities = Range(ask.options)
  /\ IsDistribution(v.probabilities)

ChoiceFits(v, ask) ==
  /\ Contains(ask.options, v.label)
  /\ InRange(v.confidence, Unit)
  /\ IsInjective(ask.options) /\ DOMAIN v.probabilities = Range(ask.options)
  /\ IsDistribution(v.probabilities)
  /\ \A k \in DOMAIN v.probabilities :
       v.probabilities[k] <= v.probabilities[v.label] + SumTolerance

ScoreFits(v, ask) ==
  /\ InRange(v.confidence, Unit)
  /\ v.levels = ask.levels /\ v.levels >= 2
  /\ DOMAIN v.probabilities = 0 .. v.levels - 1
  /\ InRange(v.score, Unit * (v.levels - 1))
  /\ IsDistribution(v.probabilities)
  /\ Within(v.score, Expected(v.probabilities), ScoreTolerance)

\* Verdict::validate_for; whatever is wrong, the call is an error.
ValidFor(v, ask) ==
  /\ v.type = ask.type
  /\ v.type = "noul"   => InRange(v.p, Unit)
  /\ v.type = "choice" => ChoiceFits(v, ask)
  /\ v.type = "score"  => ScoreFits(v, ask)

-----------------------------------------------------------------------------
(***************************************************************************)
(* Reading an answer                                                       *)
(***************************************************************************)

\* Verdict::score_fraction
Fraction(v) == IF v.levels > 1 THEN v.score \div (v.levels - 1) ELSE 0

\* Place j comes no later than place i: its key is larger, or equal and not after it.
Precedes(keys, j, i) == keys[j] > keys[i] \/ (keys[j] = keys[i] /\ j <= i)

\* The indices of the keys, the largest first and equal keys in their order: the n-th
\* is the one that n of them come no later than.
Descending(keys) ==
  [n \in DOMAIN keys |->
     CHOOSE i \in DOMAIN keys : Cardinality({j \in DOMAIN keys : Precedes(keys, j, i)}) = n]

\* A stable sort, the largest key first.
SortedBy(seq, keys) == LET order == Descending(keys) IN [i \in DOMAIN seq |-> seq[order[i]]]

ByWeight(weights) == SortedBy(weights, [i \in DOMAIN weights |-> weights[i].p])

\* evidence_from: every weight as an f32, the largest first; equal weights stay in
\* the order the answer listed them in.
Weights(v) ==
  ByWeight([i \in DOMAIN v.order |-> [label |-> v.order[i], p |-> Single[v.probabilities[v.order[i]]]]])

-----------------------------------------------------------------------------
(***************************************************************************)
(* A gate's verdict: action and size                                       *)
(***************************************************************************)

Actions == <<"execute", "reduce", "hold", "escalate">>   \* Action::ALL
Acts(action) == action \in {"execute", "reduce"}

\* Mutant of SizeFor: an execute is put on at the size answered beside it.
SizeAnswered(action, fraction) == IF Acts(action) THEN Single[fraction] ELSE 0

\* Only a reduced action reads the size that was asked for beside it.
SizeFor(action, fraction) ==
  CASE action = "execute" -> Unit
    [] action = "reduce"  -> Single[fraction]
    [] OTHER              -> 0

\* GateOut::validate
Consistent(action, size) ==
  /\ Acts(action) <=> size > 0
  /\ action = "execute" => size = Unit
  /\ action = "reduce"  => size < Unit

\* The level of a rubric that a fraction rounds to.
Rounded(fraction, levels) == (2 * fraction * (levels - 1) + Unit) \div (2 * Unit)

Percent(fraction) == (200 * fraction + Unit) \div (2 * Unit)      \* rounded
=============================================================================
