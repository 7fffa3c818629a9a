----------------------------- MODULE MockRules ------------------------------
(***************************************************************************)
(* The rules of the offline backend, crates/jev-core/src/mock.rs: an answer *)
(* to each question the desks ask, from the observable features and, for    *)
(* the gate, the typed outputs of the stages before it.                     *)
(*                                                                         *)
(* Features are a function from the names a state has; a name it lacks      *)
(* reads as the default of the rule.  Fractions are in thousandths.         *)
(***************************************************************************)
EXTENDS Verdicts

ASSUME ThousandthsAssumption == Unit = 1000

Feature(f, name, default) == IF name \in DOMAIN f THEN f[name] ELSE default

LesserOf(a, b) == IF a <= b THEN a ELSE b
GreaterOf(a, b) == IF a <= b THEN b ELSE a
Clamp(v, low, high) == LesserOf(GreaterOf(v, low), high)
Size(v) == IF v < 0 THEN - v ELSE v

-----------------------------------------------------------------------------
(***************************************************************************)
(* Derived observations                                                    *)
(***************************************************************************)

EventImminentHours == 3
TrendingStrength   == 620
ExposureDoubling   == 2000
ExposureShareCap   == 350
IdDeviationSigma   == 2000
NoEvent == 99     \* hours_to_event, where there is none

StopTight(f) == ~ Feature(f, "stop_clears_noise", TRUE)
EventImminent(f) == Feature(f, "hours_to_event", NoEvent) \in 0 .. EventImminentHours
EventPinsTightStop(f) == EventImminent(f) /\ StopTight(f)
ReadsTrending(f) == Feature(f, "trend_strength", 0) >= TrendingStrength
ExposureDoubles(f) ==
  /\ Feature(f, "exposure_multiple", 1000) >= ExposureDoubling
  /\ Feature(f, "post_trade_exposure_share", 0) > ExposureShareCap

\* Mutant of ReservePressure: an obligation alone is no pressure.
ReservePressureNotice(f) == Feature(f, "grid_notice_overlaps_discharge", FALSE)

ReservePressure(f) ==
  \/ Feature(f, "afrr_window_active", FALSE)
  \/ Feature(f, "grid_notice_overlaps_discharge", FALSE)
DipsBelowReserve(f) == Feature(f, "reserve_breached", FALSE)

\* Mutant of DeviationImplausible: only a price above the curve deviates.
DeviationHigh(f) == Feature(f, "id_deviation_sigmas", 0) > IdDeviationSigma

DeviationImplausible(f) == Size(Feature(f, "id_deviation_sigmas", 0)) > IdDeviationSigma
CyclesNearBudget(f) == ~ Feature(f, "cycles_within_budget", TRUE)

AnyCheckFails(f) ==
  \/ StopTight(f) \/ ReadsTrending(f) \/ ExposureDoubles(f)
  \/ DipsBelowReserve(f) \/ DeviationImplausible(f) \/ CyclesNearBudget(f)

-----------------------------------------------------------------------------
(***************************************************************************)
(* Yes or no                                                               *)
(***************************************************************************)

ImminentEvent(h) ==
  CASE h < 0 -> 50
    [] h \in 0 .. EventImminentHours -> 940
    [] h \in EventImminentHours + 1 .. 12 -> 450
    [] OTHER -> 70

HighImpact(kind) ==
  CASE kind \in {"CPI", "NFP", "FOMC"} -> 900
    [] kind = "ECB"  -> 780
    [] kind = "none" -> 60
    [] OTHER -> 400

\* Which facts matter is a function of the audience.
ExplainFact(fact, f) ==
  LET audience == f["audience"]
      Happened(count, yes) == IF f[count] > 0 THEN yes ELSE 60
      To(trader, compliance, ops) ==
        CASE audience = "trader" -> trader [] audience = "compliance" -> compliance [] OTHER -> ops
  IN  CASE fact = "pnl_effect"        -> To(950, 280, 200)
        [] fact = "gate_distribution" -> To(550, 930, 500)
        [] fact = "checks_ran"        -> To(180, 960, 180)
        [] fact = "audit_location"    -> To(120, 940, 600)
        [] fact = "escalations"       -> Happened("escalation_count", To(500, 880, 950))
        [] fact = "interventions"     -> Happened("intervention_count", To(900, 600, 820))

Likely(holds, yes, no) == IF holds THEN yes ELSE no

\* noul, for the names the two desks use; the rules the domains evaluate themselves
\* never reach a backend.
NoulRule(key, f) ==
  LET deviation == Size(Feature(f, "id_deviation_sigmas", 400)) IN
    CASE key = "signal_valid_in_regime" -> Likely(ReadsTrending(f), 110, 880)
      [] key = "correlated_exposure_ok" -> Likely(ExposureDoubles(f), 140, 900)
      [] key = "imminent_event"         -> ImminentEvent(Feature(f, "hours_to_event", NoEvent))
      [] key = "high_impact_event"      -> HighImpact(Feature(f, "next_event_kind", "none"))
      [] key = "tight_stop"             -> Likely(StopTight(f), 870, 120)
      [] key = "trend_pressure"         -> Clamp((6 * Feature(f, "trend_strength", 300)) \div 5, 30, 950)
      [] key = "crowded_book"           -> Likely(ExposureDoubles(f), 860, 170)
      [] key = "margin_plausible"       -> IF DeviationImplausible(f) THEN 120
                                           ELSE Clamp(950 - deviation \div 5, 500, 950)
      [] key = "reserve_at_risk"        -> IF DipsBelowReserve(f) THEN 930
                                           ELSE Likely(ReservePressure(f), 420, 60)
      [] key = "price_dislocation"      -> Clamp(deviation \div 3, 40, 960)
      [] key = "cycles_nearly_spent"    -> Likely(CyclesNearBudget(f), 910, 130)
      [] key = "grid_constraint"        -> Likely(Feature(f, "grid_notice_overlaps_discharge", FALSE), 890, 80)
      [] key = "negative_price_hours"   -> Likely(Feature(f, "negative_price_hours", 0) >= 1, 850, 100)
      [] OTHER                          -> ExplainFact(key, f)

-----------------------------------------------------------------------------
(***************************************************************************)
(* The gate                                                                *)
(***************************************************************************)

Caution(d) ==
  CASE d.action = "escalate" -> 3 [] d.action = "hold" -> 2 [] d.action = "reduce" -> 1
    [] OTHER -> 0

\* The most cautious rule wins, and of equally cautious ones the smallest size.
AtLeastAsCautious(d, e) ==
  Caution(d) > Caution(e) \/ (Caution(d) = Caution(e) /\ d.size <= e.size)

Verdict(action, size) == [action |-> action, size |-> size]
Execute    == Verdict("execute", 1000)
Hold       == Verdict("hold", 0)
Escalate   == Verdict("escalate", 0)
Reduce(to) == Verdict("reduce", to)

Failed(priors, check) == check \in DOMAIN priors.checks /\ ~ priors.checks[check].ok

RiskVerdict(risk) ==
  CASE risk \in 80 .. 100 -> Hold
    [] risk \in 68 .. 79  -> Reduce(500)
    [] risk \in 55 .. 67  -> Reduce(750)
    [] OTHER -> Execute

\* Each rule, with whether it applies.
Rules(f, priors) ==
  {<<Execute, TRUE>>,
   <<Escalate, Failed(priors, "margin_plausible")>>,
   <<Hold, EventPinsTightStop(f)>>,
   <<Hold, Failed(priors, "reserve_ok")>>,
   <<Hold, priors.label = "stressed">>,
   <<Reduce(500), priors.label = "volatile" /\ CyclesNearBudget(f)>>,
   <<Reduce(250), Failed(priors, "signal_valid_in_regime")>>,
   <<Reduce(500), Failed(priors, "stop_sane")>>,
   <<Reduce(500), Failed(priors, "correlated_exposure_ok")>>,
   <<Reduce(500), Failed(priors, "cycle_budget_ok")>>,
   <<RiskVerdict(priors.risk), TRUE>>}

Applicable(f, priors) == {r[1] : r \in {q \in Rules(f, priors) : q[2]}}

Decide(f, priors) ==
  CHOOSE d \in Applicable(f, priors) : \A e \in Applicable(f, priors) : AtLeastAsCautious(d, e)

RunnerUp(action) ==
  CASE action \in {"execute", "hold"} -> "reduce" [] OTHER -> "hold"

GateWeight(action, f, priors) ==
  LET decided == Decide(f, priors).action IN
    IF action = decided THEN 1000 ELSE IF action = RunnerUp(decided) THEN 550 ELSE 100

-----------------------------------------------------------------------------
(***************************************************************************)
(* Regimes, fits, framings and scores                                      *)
(***************************************************************************)

RegimeWeight(label, f) ==
  LET vol    == Feature(f, "volatility_percentile", 500)
      spread == Feature(f, "spread_percentile", 500)
      trend  == Feature(f, "trend_strength", 300)
      stress == Feature(f, "stress_indicator", 0)
      hours  == Feature(f, "hours_to_event", NoEvent)
  IN  CASE label = "normal"   -> Clamp(1200 - vol - stress, 50, 1000)
        [] label = "volatile" -> Clamp((14 * vol - 5 * stress) \div 10, 50, 1000)
        [] label = "illiquid" -> Clamp((3 * spread) \div 2, 50, 1000)
        [] label = "stressed" -> Clamp((8 * stress) \div 5, 30, 1000)
        [] label = "ranging"  -> Clamp(1100 - trend - (2 * vol) \div 5, 50, 1000)
        [] label = "trending" -> Clamp((3 * trend) \div 2, 50, 1000)
        [] label = "event_driven" ->
             IF hours \in 0 .. 2 * EventImminentHours THEN 1000
             ELSE IF hours <= 12 THEN 350 ELSE 70

\* Mutant of FramingWeight: an escalation does not displace the interventions.
FramingWeightLoud(label, f) ==
  LET changed == f["intervention_count"] > 0 IN
    CASE label = "quiet"      -> IF changed THEN 100 ELSE 1000
      [] label = "intervened" -> IF changed THEN 1000 ELSE 120
      [] label = "escalated"  -> IF f["escalation_count"] > 0 THEN 1000 ELSE 50

FramingWeight(label, f) ==
  LET changed == f["intervention_count"] > 0
      raised  == f["escalation_count"] > 0
  IN  CASE label = "quiet"      -> IF changed THEN 100 ELSE 1000
        [] label = "intervened" -> IF ~ changed THEN 120 ELSE IF raised THEN 600 ELSE 1000
        [] label = "escalated"  -> IF raised THEN 1000 ELSE 50

RankFit(kind, f) ==
  CASE kind = "reserve_heavy" -> IF ReservePressure(f) THEN 1000 ELSE 280
    [] kind = "balanced"      -> IF ReservePressure(f) THEN 500 ELSE 1000
    [] kind = "aggressive"    -> IF ReservePressure(f) THEN 120
                                 ELSE IF DeviationImplausible(f) THEN 300 ELSE 720

\* The largest of whichever pressures are present.
RiskFraction(f) ==
  LET hours == Feature(f, "hours_to_event", NoEvent)
      Pressure(present, risk) == IF present THEN {risk} ELSE {}
  IN  Max({80}
        \cup Pressure(EventImminent(f),
               IF Feature(f, "next_event_kind", "none") \in {"CPI", "NFP", "FOMC"} THEN 920 ELSE 680)
        \cup Pressure(~ EventImminent(f) /\ hours <= 12, 400)
        \cup Pressure(ReadsTrending(f), 600)
        \cup Pressure(ExposureDoubles(f), 620)
        \cup Pressure(DipsBelowReserve(f), 880)
        \cup Pressure(~ DipsBelowReserve(f) /\ ReservePressure(f), 450)
        \cup Pressure(DeviationImplausible(f), 800)
        \cup Pressure(CyclesNearBudget(f), 580)
        \cup Pressure(AnyCheckFails(f), 550))

SeverityFraction(f) ==
  IF f["escalation_count"] > 0 THEN 1000
  ELSE Clamp((2200 * f["intervention_count"]) \div GreaterOf(f["decision_count"], 1), 0, 800)

-----------------------------------------------------------------------------
(***************************************************************************)
(* Shaping                                                                 *)
(***************************************************************************)

\* The first of the heaviest.
Heaviest(labels, weight) ==
  labels[CHOOSE i \in DOMAIN labels :
           /\ \A j \in DOMAIN labels : weight[labels[j]] <= weight[labels[i]]
           /\ \A j \in 1 .. i - 1 : weight[labels[j]] < weight[labels[i]]]

\* Mutant of Distribution: the weights are not normalised.
DistributionRaw(labels, weight) ==
  [type |-> "choice", label |-> Heaviest(labels, weight), confidence |-> 0, order |-> labels,
   probabilities |-> weight]

\* Normalised, with a confidence from how far clear the winner is.
Distribution(labels, weight) ==
  LET total  == MapThenSumSet(LAMBDA l : weight[l], Range(labels))
      label  == Heaviest(labels, weight)
      runner == Max({weight[l] : l \in Range(labels) \ {label}})
  IN  [type |-> "choice", label |-> label, order |-> labels,
       probabilities |-> [l \in Range(labels) |-> (weight[l] * Unit) \div total],
       confidence |-> ((weight[label] - runner) * Unit) \div weight[label]]

\* All the mass on the two levels around a fraction of the rubric.
ScoreDistribution(levels, fraction) ==
  LET exact == fraction * (levels - 1)
      lower == exact \div Unit
      upper == LesserOf(lower + 1, levels - 1)
      part  == exact - lower * Unit
      Mass1(l) == IF lower = upper THEN IF l = lower THEN Unit ELSE 0
                  ELSE IF l = lower THEN Unit - part ELSE IF l = upper THEN part ELSE 0
  IN  [type |-> "score", levels |-> levels, probabilities |-> [l \in 0 .. levels - 1 |-> Mass1(l)],
       score |-> lower * Mass1(lower) + (IF lower = upper THEN 0 ELSE upper * Mass1(upper)),
       confidence |-> GreaterOf(Mass1(lower), Mass1(upper))]

NoulAnswer(key, f) == [type |-> "noul", p |-> NoulRule(key, f)]
=============================================================================
