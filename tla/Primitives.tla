----------------------------- MODULE Primitives -----------------------------
(***************************************************************************)
(* One judgment, from the stages a domain asks for to their typed outputs:  *)
(* what each primitive of crates/jev-core/src/primitives asks, Jev::call's  *)
(* reading of the reply, what the primitive composes from it and refuses,   *)
(* and the review policy of policy.rs over the outputs.                     *)
(*                                                                         *)
(* The reply is drawn answer by answer, as the loop of Jev::call comes to   *)
(* each question; the stages are then composed in the order they were added.*)
(***************************************************************************)
EXTENDS Verdicts, Places, Prose

CONSTANTS
  Judgments,       \* sequences of stage specs a domain may put in one call
  Answers(_, _),   \* the answers a backend may give to the question of a name
  Threshold,       \* probability at or above which a check, driver or fact holds
  MinConfidence,   \* ReviewPolicy.min_classify_confidence
  BandLow, BandHigh,  \* ReviewPolicy.undecided_check_band
  MaxDrivers       \* MAX_DRIVERS

-----------------------------------------------------------------------------
(***************************************************************************)
(* The specs of the stages; labels and names are strings, a rubric is known *)
(* by how many levels it has, prose by its length                          *)
(***************************************************************************)

ClassifySpec == [kind : {"classify"}, labels : Seq(STRING)]
GateSpec     == [kind : {"gate"}, levels : Nat]
CheckItem    == [name : STRING, rule : {"none", "holds", "fails"}]
CheckSpec    == [kind : {"check"}, items : Seq(CheckItem)]
ScoreSpec    == [kind : {"score"}, bands : Nat, drivers : Seq(STRING)]
RankSpec     == [kind : {"rank"}, candidates : Seq(STRING), levels : Nat]
\* Every framing has its lead, and every level of the severity its word.
ExplainSpec  ==
  {s \in [kind : {"explain"}, framings : Seq(STRING), severity : Nat,
          leads : Seq(Nat), words : Seq(Nat), facts : Seq(FactSpec)] :
     Len(s.leads) = Len(s.framings) /\ Len(s.words) = s.severity}

Specs == ClassifySpec \cup GateSpec \cup CheckSpec \cup ScoreSpec \cup RankSpec \cup ExplainSpec

ASSUME JudgmentsAssumption == Judgments \subseteq Seq(Specs)

ASSUME ThresholdAssumption ==
  /\ Threshold \in 0 .. Unit /\ MinConfidence \in 0 .. Unit
  /\ BandLow \in 0 .. Unit /\ BandHigh \in 0 .. Unit
  /\ BandLow + Grain < Threshold /\ Threshold + Grain < BandHigh

ASSUME LimitsAssumption == MaxDrivers \in Nat

VARIABLES
  judged,    \* the stages of this call
  asks,      \* its questions, in order: <<stage, name>> and the question
  verdicts,  \* the valid verdicts so far, one for each question in turn
  outs,      \* the outputs composed so far
  phase      \* "asking", "composing", "done" or "failed"

vars == <<judged, asks, verdicts, outs, phase>>

-----------------------------------------------------------------------------
(***************************************************************************)
(* What each primitive asks, and the specs it refuses                      *)
(***************************************************************************)

Ask(name, ask) == <<[name |-> name, ask |-> ask]>>
AskEach(names, ask) == [i \in DOMAIN names |-> [name |-> names[i], ask |-> ask]]

ClassifyAsks(s) == Ask(<<"label">>, Choice(s.labels))
GateAsks(s)     == Ask(<<"action">>, Choice(Actions)) \o Ask(<<"size_factor">>, Rubric(s.levels))
JudgedItems(s)  == At(s.items, {n \in DOMAIN s.items : s.items[n].rule = "none"})
CheckAsks(s)    == WithAll(<<>>, AskEach([i \in DOMAIN JudgedItems(s) |-> <<JudgedItems(s)[i].name>>], Noul))
ScoreAsks(s)    == WithAll(Ask(<<"level">>, Rubric(s.bands)),
                           AskEach([i \in DOMAIN s.drivers |-> <<"driver", s.drivers[i]>>], Noul))
RankAsks(s)     == WithAll(<<>>, AskEach([i \in DOMAIN s.candidates |-> <<"fit", s.candidates[i]>>],
                                         Rubric(s.levels)))
ExplainAsks(s)  == WithAll(Ask(<<"framing">>, Choice(s.framings)) \o Ask(<<"severity">>, Rubric(s.severity)),
                           AskEach([i \in DOMAIN s.facts |-> <<"fact", s.facts[i].name>>], Noul))

AsksOf(s) ==
  CASE s.kind = "classify" -> ClassifyAsks(s)
    [] s.kind = "gate"     -> GateAsks(s)
    [] s.kind = "check"    -> CheckAsks(s)
    [] s.kind = "score"    -> ScoreAsks(s)
    [] s.kind = "rank"     -> RankAsks(s)
    [] s.kind = "explain"  -> ExplainAsks(s)

\* A spec that is refused is JevError::InvalidCall, before anything is asked.
Askable(s) ==
  /\ s.kind = "classify" => Len(s.labels) >= 2
  /\ s.kind = "gate"     => s.levels >= 2
  /\ s.kind = "check"    => JudgedItems(s) # <<>>
  /\ s.kind = "score"    => s.bands >= 2
  /\ s.kind = "rank"     => Len(s.candidates) >= 2 /\ s.levels >= 2 /\ IsInjective(s.candidates)
  /\ s.kind = "explain"  => Len(s.framings) >= 2 /\ s.severity >= 2

\* The questions of a call, each under its stage.
CallAsks(stages) ==
  FlattenSeq([i \in DOMAIN stages |->
    LET qs == AsksOf(stages[i]) IN
      [k \in DOMAIN qs |-> [stage |-> i, name |-> qs[k].name, ask |-> qs[k].ask]]])

\* A choice lists the weight of each label once: the answer's IndexMap.
ASSUME ListingAssumption ==
  \A j \in Judgments : \A k \in DOMAIN CallAsks(j) :
    \A a \in Answers(CallAsks(j)[k].name, CallAsks(j)[k].ask) : a.type = "choice" =>
      /\ a.order \in Seq(DOMAIN a.probabilities) /\ Range(a.order) = DOMAIN a.probabilities
      /\ IsInjective(a.order)

-----------------------------------------------------------------------------
(***************************************************************************)
(* What each primitive composes                                            *)
(***************************************************************************)

\* need: the verdict under a name of stage i.
Need(i, name) ==
  verdicts[CHOOSE k \in DOMAIN asks : asks[k].stage = i /\ asks[k].name = name]

ClassifyOut(i, s) ==
  LET v == Need(i, <<"label">>) IN
    [kind |-> "classify", label |-> v.label, own |-> Single[v.probabilities[v.label]],
     confidence |-> Single[v.confidence], distribution |-> Weights(v)]

GateOut(i, s) ==
  LET v == Need(i, <<"action">>) IN
    [kind |-> "gate", label |-> v.label, own |-> Single[v.probabilities[v.label]],
     size |-> SizeFor(v.label, Fraction(Need(i, <<"size_factor">>))), distribution |-> Weights(v)]

\* A rule keeps the outcome the domain gave it; a judged claim is held against the
\* threshold before it is cast.
CheckResult(i, item) ==
  IF item.rule # "none"
  THEN [name |-> item.name, ok |-> item.rule = "holds", source |-> "rule",
        p |-> IF item.rule = "holds" THEN Unit ELSE 0]
  ELSE [name |-> item.name, ok |-> Need(i, <<item.name>>).p >= Threshold, source |-> "jev",
        p |-> Single[Need(i, <<item.name>>).p]]

CheckOut(i, s) ==
  [kind |-> "check", checks |-> [k \in DOMAIN s.items |-> CheckResult(i, s.items[k])]]

Drivers(i, s) ==
  ByWeight([k \in DOMAIN s.drivers |->
              [label |-> s.drivers[k], p |-> Single[Need(i, <<"driver", s.drivers[k]>>).p]]])

\* Mutant of Affirmed: the first three drivers are taken and then the ones that hold.
AffirmedFirst(weights) ==
  At(weights, {k \in 1 .. Min({MaxDrivers, Len(weights)}) : weights[k].p > Threshold})

Affirmed(weights) ==
  LET holding == At(weights, {k \in DOMAIN weights : weights[k].p >= Threshold}) IN
    SubSeq(holding, 1, Min({MaxDrivers, Len(holding)}))

ScoreOut(i, s) ==
  [kind |-> "score", score |-> Percent(Fraction(Need(i, <<"level">>))),
   drivers |-> Affirmed(Drivers(i, s)), distribution |-> Drivers(i, s)]

\* Mutant of Rated: sorted by the confidence of the rating.
RatedBySureness(i, s) ==
  LET rating == [k \in DOMAIN s.candidates |-> Need(i, <<"fit", s.candidates[k]>>)]
  IN  SortedBy([k \in DOMAIN rating |-> [id |-> s.candidates[k], fraction |-> Fraction(rating[k])]],
               [k \in DOMAIN rating |-> rating[k].confidence])

Rated(i, s) ==
  LET fraction == [k \in DOMAIN s.candidates |-> Fraction(Need(i, <<"fit", s.candidates[k]>>))]
  IN  SortedBy([k \in DOMAIN fraction |-> [id |-> s.candidates[k], fraction |-> fraction[k]]], fraction)

RankOut(i, s) ==
  [kind |-> "rank",
   ordered |-> LET rated == Rated(i, s) IN
     [k \in DOMAIN rated |-> [id |-> rated[k].id, fit |-> Single[rated[k].fraction]]]]

\* The word for the level the severity rounds to.
SeverityLevel(i, s) == Rounded(Fraction(Need(i, <<"severity">>)), s.severity)

\* The lead of the framing that was chosen, and the sentence with the severity.
LeadLength(i, s) ==
  LET chosen == CHOOSE k \in DOMAIN s.framings : s.framings[k] = Need(i, <<"framing">>).label
  IN  s.leads[chosen] + s.words[SeverityLevel(i, s) + 1]

Included(i, s) ==
  At(s.facts, {n \in DOMAIN s.facts : Need(i, <<"fact", s.facts[n].name>>).p >= Threshold})

ExplainOut(i, s) ==
  LET v == Need(i, <<"framing">>)
      kept == KeepFacts(LeadLength(i, s), Included(i, s))
  IN  [kind |-> "explain", label |-> v.label, own |-> Single[v.probabilities[v.label]],
       level |-> SeverityLevel(i, s), kept |-> kept,
       length |-> Min({MaxSummary, Length(LeadLength(i, s), kept)}), distribution |-> Weights(v)]

Composed(i, s) ==
  CASE s.kind = "classify" -> ClassifyOut(i, s)
    [] s.kind = "gate"     -> GateOut(i, s)
    [] s.kind = "check"    -> CheckOut(i, s)
    [] s.kind = "score"    -> ScoreOut(i, s)
    [] s.kind = "rank"     -> RankOut(i, s)
    [] s.kind = "explain"  -> ExplainOut(i, s)

\* GateOut::validate; the other outputs are in their bounds once their answers are.
Actionable(out) == out.kind = "gate" => Consistent(out.label, out.size)

-----------------------------------------------------------------------------
(***************************************************************************)
(* The call                                                                *)
(***************************************************************************)

\* Every stage's spec is asked before the call goes out.
Init ==
  /\ judged \in {j \in Judgments : \A i \in DOMAIN j : Askable(j[i])}
  /\ asks = CallAsks(judged)
  /\ verdicts = <<>>
  /\ outs = <<>>
  /\ phase = "asking"

\* An answer is translated, filled and validated; one that does not fit its
\* question is an error of the call, and nothing is composed.
Hear ==
  /\ phase = "asking"
  /\ Len(verdicts) < Len(asks)
  /\ LET q == asks[Len(verdicts) + 1] IN
       \E a \in Answers(q.name, q.ask) :
         LET v == Fill(Translate(a, q.ask), q.ask) IN
           IF ValidFor(v, q.ask)
           THEN verdicts' = Append(verdicts, v) /\ UNCHANGED phase
           ELSE phase' = "failed" /\ UNCHANGED verdicts
  /\ UNCHANGED <<judged, asks, outs>>

\* The backend fails, or its reply leaves a question out.
Unanswered ==
  /\ phase = "asking"
  /\ Len(verdicts) < Len(asks)
  /\ phase' = "failed"
  /\ UNCHANGED <<judged, asks, verdicts, outs>>

Answered ==
  /\ phase = "asking"
  /\ Len(verdicts) = Len(asks)
  /\ phase' = "composing"
  /\ UNCHANGED <<judged, asks, verdicts, outs>>

\* Compose the next stage; an output its validation refuses fails the call.
Compose ==
  /\ phase = "composing"
  /\ Len(outs) < Len(judged)
  /\ LET out == Composed(Len(outs) + 1, judged[Len(outs) + 1]) IN
       IF Actionable(out)
       THEN outs' = Append(outs, out) /\ UNCHANGED phase
       ELSE phase' = "failed" /\ UNCHANGED outs
  /\ UNCHANGED <<judged, asks, verdicts>>

Return ==
  /\ phase = "composing"
  /\ Len(outs) = Len(judged)
  /\ phase' = "done"
  /\ UNCHANGED <<judged, asks, verdicts, outs>>

Next == Hear \/ Unanswered \/ Answered \/ Compose \/ Return

Spec == Init /\ [][Next]_vars

-----------------------------------------------------------------------------
(***************************************************************************)
(* The review policy                                                       *)
(***************************************************************************)

\* Mutant of Undecided: only a check that fails is looked at.
UndecidedFailing(c) == c.source = "jev" /\ c.p > BandLow /\ c.p < Threshold

\* CheckOut::undecided
Undecided(c) == c.source = "jev" /\ c.p > BandLow /\ c.p < BandHigh

\* ReviewPolicy::review
Flagged(classify, check) ==
  \/ classify.confidence < MinConfidence
  \/ \E k \in DOMAIN check.checks : Undecided(check.checks[k])

-----------------------------------------------------------------------------
(***************************************************************************)
(* Properties                                                              *)
(***************************************************************************)

TypeOK ==
  /\ judged \in Judgments
  /\ asks = CallAsks(judged)
  /\ Len(verdicts) <= Len(asks)
  /\ \A k \in DOMAIN verdicts : ValidFor(verdicts[k], asks[k].ask)
  /\ Len(outs) <= Len(judged)
  /\ \A i \in DOMAIN outs : outs[i].kind = judged[i].kind /\ Actionable(outs[i])
  /\ phase \in {"asking", "composing", "done", "failed"}
  /\ phase \in {"composing", "done"} => Len(verdicts) = Len(asks)

Labelled == {i \in DOMAIN outs : outs[i].kind \in {"classify", "gate", "explain"}}

\* A call whose every answer is valid fails for one reason only: a reduce whose size
\* is nothing or everything once it is cast to an f32 (primitives/gate.rs:139-168).
\* An execute or a hold is never refused for the size answered beside it.
RefusedOnlyAtTheEdge ==
  phase = "failed" /\ Len(verdicts) = Len(asks) =>
    LET i == Len(outs) + 1
        size == Fraction(Need(i, <<"size_factor">>))
    IN  /\ judged[i].kind = "gate"
        /\ Need(i, <<"action">>).label = "reduce"
        /\ size <= Grain \/ size >= Unit - Grain

\* A label need not be the likeliest of its distribution, and it need not come first
\* there; but nothing in the evidence kept beside it outweighs it by more than the
\* tolerance of the answer and the cast of two weights, and it is there itself.
LabelNearTop ==
  \A i \in Labelled :
    LET out == outs[i] IN
      /\ \E k \in DOMAIN out.distribution :
           out.distribution[k] = [label |-> out.label, p |-> out.own]
      /\ \A k \in DOMAIN out.distribution :
           out.distribution[k].p <= out.own + SumTolerance + 2 * Grain

\* Where the recorded f32 of a judged check reads on the other side of the threshold
\* than its outcome, which was taken from the f64, the decision is flagged for
\* review (check.rs:243, policy.rs:34-50).
NearThresholdIsReviewed ==
  \A i, j \in DOMAIN outs : outs[i].kind = "classify" /\ outs[j].kind = "check" =>
    \A k \in DOMAIN outs[j].checks :
      LET c == outs[j].checks[k] IN
        c.ok # (c.p >= Threshold) => Flagged(outs[i], outs[j])

\* A ranking is the candidates offered, each once, by their rating; equal ratings
\* keep the order of the offer, so the margin of the winner is never negative
\* (rank.rs:218-240).
RankFollowsRatings ==
  \A i \in {i \in DOMAIN outs : outs[i].kind = "rank"} :
    LET offered == judged[i].candidates
        ordered == outs[i].ordered
        Rating(c) == Fraction(Need(i, <<"fit", c>>))
        Place(c) == CHOOSE k \in DOMAIN offered : offered[k] = c
    IN  /\ {ordered[k].id : k \in DOMAIN ordered} = Range(offered)
        /\ \A k, m \in DOMAIN ordered : k < m =>
             /\ ordered[k].fit >= ordered[m].fit
             /\ Rating(ordered[k].id) >= Rating(ordered[m].id)
             /\ Rating(ordered[k].id) = Rating(ordered[m].id) =>
                  Place(ordered[k].id) < Place(ordered[m].id)

\* A score is the mean of its distribution to within the tolerance and the rounding,
\* and its drivers are the strongest that hold, as many as there is room for
\* (score.rs:144-162).
ScoreFaithful ==
  \A i \in {i \in DOMAIN outs : outs[i].kind = "score"} :
    LET out == outs[i]
        steps == judged[i].bands - 1
        mean == Expected(Need(i, <<"level">>).probabilities)
        holding == {k \in DOMAIN out.distribution : out.distribution[k].p >= Threshold}
    IN  /\ Within(2 * out.score * Unit * steps, 200 * mean,
                  200 * (ScoreTolerance + steps) + Unit * steps)
        /\ Len(out.drivers) = Min({MaxDrivers, Cardinality(holding)})
        /\ \A k \in DOMAIN out.drivers : out.drivers[k].p >= Threshold
        /\ \A w \in Range(out.distribution) \ Range(out.drivers) :
             \A k \in DOMAIN out.drivers : w.p <= out.drivers[k].p

\* A summary with a fact fits without being cut, and a fact that was affirmed and
\* left out would not have fitted beside the ones that were kept (explain.rs:310-326).
SummaryIsFull ==
  \A i \in {i \in DOMAIN outs : outs[i].kind = "explain"} :
    LET kept == outs[i].kept
        lead == LeadLength(i, judged[i])
        affirmed == Included(i, judged[i])
        Beside(f) == At(affirmed, {n \in DOMAIN affirmed :
                                     affirmed[n] = f \/ Contains(kept, affirmed[n])})
    IN  /\ kept # <<>> => Length(lead, kept) <= MaxSummary
        /\ \A f \in Range(affirmed) \ Range(kept) :
             Length(lead, Beside(f)) > MaxSummary
=============================================================================
