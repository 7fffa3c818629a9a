------------------------------ MODULE MockDesk ------------------------------
(***************************************************************************)
(* A desk judged by the offline backend: the features of one decision or    *)
(* one day (features.rs of crates/fx and crates/battery), the stages of     *)
(* judgment.rs in their order with the answers MockRules gives them, the    *)
(* replays of cli/src/replay.rs and server/src/run.rs which judge the same  *)
(* candidate in a second world, and the summary of report/src/explain.rs.   *)
(***************************************************************************)
EXTENDS MockRules, Places, Prose

CONSTANTS
  FxWorlds,       \* a candidate, its calendar and its book
  BatteryWorlds,  \* a day, its obligation, its notices and its three schedules
  Sessions,       \* what a finished session counts, and the length of what its caller words
  Threshold       \* probability at or above which a check or a fact holds

\* 0.5 in the code; any that tells the yes of a check's or a fact's rule from its no.
ASSUME ThresholdAssumption == Threshold \in 141 .. 500
\* The tolerance of a sum is more than a thousandth a label, the cast finer than a size.
ASSUME GrainAssumption == SumTolerance >= 4 /\ Grain < 250

\* generate_calendar prints each release at a morning or midday hour and sorts them.
ASSUME FxWorldAssumption ==
  /\ FxWorlds \subseteq
       [desk : {"fx"}, at : Nat, legs : SUBSET STRING, clear : BOOLEAN,
        calendar : Seq([at : Nat, kind : STRING, currency : STRING]),
        trend : Int, vol : Int, multiple : Int, share : Int]
  /\ \A w \in FxWorlds : \A i, j \in DOMAIN w.calendar :
       /\ w.calendar[i].at % 24 \in 8 .. 14
       /\ i < j => w.calendar[i].at <= w.calendar[j].at

Kinds == <<"aggressive", "balanced", "reserve_heavy">>   \* ScheduleKind::ALL

\* The solver keeps the reserve-heavy schedule above the floor (ReserveHeavyHolds).
ASSUME BatteryWorldAssumption ==
  /\ BatteryWorlds \subseteq
       [desk : {"battery"}, afrr : BOOLEAN, notes : SUBSET (Nat \X Nat),
        block : [Range(Kinds) -> {<<>>} \cup (Nat \X Nat)],
        dips : SUBSET Range(Kinds), spent : SUBSET Range(Kinds),
        vol : Int, spread : Int, deviation : Int, negative : Int]
  /\ \A w \in BatteryWorlds : "reserve_heavy" \notin w.dips

\* A decision is counted once, as an intervention if it was one, as an escalation if that.
ASSUME SessionAssumption ==
  /\ Sessions \subseteq
       [desk : {"summary"}, audience : {"trader", "compliance", "ops"},
        decisions : Nat, interventions : Nat, escalations : Nat, calls : Nat, failed : Nat,
        subject : Nat, headlines : Nat \X Nat]
  /\ \A s \in Sessions : s.escalations <= s.interventions /\ s.interventions <= s.decisions

\* The subjects the callers name have 33 characters at most.
ASSUME RoomAssumption == MaxSummary >= 200 /\ \A s \in Sessions : s.subject <= 60

VARIABLES
  world,     \* the world judged, or the session summed up
  label,     \* the regime
  chosen,    \* battery: the schedule that came first
  features,  \* what the stage after this one is shown
  checks,    \* the named checks
  risk,      \* 0 .. 100
  gates,     \* the gates of the worlds judged so far, each with what it was shown
  summary,   \* its framing, the length up to its facts, the facts included and those told
  phase      \* the stage due, "done", or "failed" where a call was an error

vars == <<world, label, chosen, features, checks, risk, gates, summary, phase>>

-----------------------------------------------------------------------------
(***************************************************************************)
(* Features                                                                *)
(***************************************************************************)

\* next_event_for: the first release at or after the candidate touching a leg.
NextEvent(w) ==
  SelectInSeq(w.calendar, LAMBDA e : e.at >= w.at /\ e.currency \in w.legs)

FxFeatures(w) ==
  LET i == NextEvent(w) IN
    IF i = 0
    THEN [stop_clears_noise |-> w.clear, trend_strength |-> w.trend,
          volatility_percentile |-> w.vol, exposure_multiple |-> w.multiple,
          post_trade_exposure_share |-> w.share]
    ELSE [stop_clears_noise |-> w.clear, trend_strength |-> w.trend,
          volatility_percentile |-> w.vol, exposure_multiple |-> w.multiple,
          post_trade_exposure_share |-> w.share,
          hours_to_event |-> w.calendar[i].at - w.at, next_event_kind |-> w.calendar[i].kind]

\* GridNote::overlaps; a schedule that does not discharge overlaps nothing.
Overlaps(note, block) == block # <<>> /\ note[1] <= block[2] /\ block[1] <= note[2]

\* The schedule-level fields describe the schedule of that kind.
BatteryFeatures(w, kind) ==
  LET overlaps == \E note \in w.notes : Overlaps(note, w.block[kind])
      deviation == LesserOf(Size(w.deviation), 3000) \div 3
  IN  [volatility_percentile |-> w.vol, spread_percentile |-> w.spread,
       stress_indicator |->
         Clamp((4 * w.vol + 3 * deviation + (IF overlaps THEN 3 * Unit ELSE 0)) \div 10, 0, Unit),
       negative_price_hours |-> w.negative, afrr_window_active |-> w.afrr,
       grid_notice_overlaps_discharge |-> overlaps, id_deviation_sigmas |-> w.deviation,
       reserve_breached |-> w.afrr /\ kind \in w.dips,
       cycles_within_budget |-> kind \notin w.spent]

\* digest
DigestFeatures(w) ==
  [audience |-> w.audience, decision_count |-> w.decisions,
   intervention_count |-> w.interventions, escalation_count |-> w.escalations]

\* A count below ten to the tenth, printed.
Digits(n) == 1 + Cardinality({k \in 1 .. 9 : 10 ^ k <= n})

\* spec, in characters: the lead of a framing with its full stop, and the phrases.
Lead(framing, w) ==
  CASE framing = "quiet"      -> 73
    [] framing = "intervened" -> 66 + Digits(w.interventions) + Digits(w.decisions)
    [] framing = "escalated"  -> 69 + Digits(w.escalations)

Phrase(fact, w) ==
  CASE fact = "pnl_effect"        -> w.headlines[1]
    [] fact = "gate_distribution" -> 28 + Digits(w.interventions) + Digits(w.decisions)
    [] fact = "checks_ran"        -> 48 + Digits(w.failed)
    [] fact = "audit_location"    -> 39 + Digits(w.calls)
    [] fact = "escalations"       -> 45 + Digits(w.escalations)
    [] fact = "interventions"     -> w.headlines[2]

SeverityWords == <<25, 30, 25, 27>>   \* " The session was routine." and so on

-----------------------------------------------------------------------------
(***************************************************************************)
(* The stages: what is asked of the backend and what is made of the answers *)
(***************************************************************************)

FxRegimes  == <<"ranging", "trending", "event_driven">>
Regimes    == <<"normal", "volatile", "illiquid", "stressed">>
Framings   == <<"quiet", "intervened", "escalated">>
Facts      == <<"pnl_effect", "gate_distribution", "checks_ran", "audit_location",
                "escalations", "interventions">>
FxDrivers  == <<"imminent_event", "high_impact_event", "tight_stop", "trend_pressure", "crowded_book">>
Drivers    == <<"reserve_at_risk", "price_dislocation", "cycles_nearly_spent", "grid_constraint",
                "negative_price_hours">>
FitLevels  == 4
RiskLevels == 5
SizeLevels == 5
SeverityLevels == 4

RegimeAnswer(labels, f) == Distribution(labels, [l \in Range(labels) |-> RegimeWeight(l, f)])
RegimeStands(labels, f) == ValidFor(RegimeAnswer(labels, f), Choice(labels))

FitAnswer(kind, f) == ScoreDistribution(FitLevels, RankFit(kind, f))
FitsStand(f) == \A k \in Range(Kinds) : ValidFor(FitAnswer(k, f), Rubric(FitLevels))

RiskAnswer(f) == ScoreDistribution(RiskLevels, RiskFraction(f))
RiskStands(drivers, f) ==
  /\ ValidFor(RiskAnswer(f), Rubric(RiskLevels))
  /\ \A d \in Range(drivers) : ValidFor(NoulAnswer(d, f), Noul)

Judged(key, f) == [ok |-> NoulRule(key, f) >= Threshold, p |-> NoulRule(key, f)]
Ruled(holds)   == [ok |-> holds, p |-> Likely(holds, Unit, 0)]

FxChecks(f) ==
  [stop_sane |-> Ruled(f.stop_clears_noise),
   signal_valid_in_regime |-> Judged("signal_valid_in_regime", f),
   correlated_exposure_ok |-> Judged("correlated_exposure_ok", f)]

BatteryChecks(f) ==
  [reserve_ok |-> Ruled(~ f.reserve_breached),
   margin_plausible |-> Judged("margin_plausible", f),
   cycle_budget_ok |-> Ruled(f.cycles_within_budget)]

ChecksStand(cs) == \A c \in DOMAIN cs : InRange(cs[c].p, Unit)

ActionAnswer(f, priors) == Distribution(Actions, [a \in Range(Actions) |-> GateWeight(a, f, priors)])
SizeAnswer(f, priors)   == ScoreDistribution(SizeLevels, Decide(f, priors).size)

GateOut(f, priors) ==
  LET action == ActionAnswer(f, priors).label
  IN  [action |-> action, size |-> SizeFor(action, Fraction(SizeAnswer(f, priors)))]

GateStands(f, priors) ==
  /\ ValidFor(ActionAnswer(f, priors), Choice(Actions))
  /\ ValidFor(SizeAnswer(f, priors), Rubric(SizeLevels))
  /\ Consistent(GateOut(f, priors).action, GateOut(f, priors).size)

-----------------------------------------------------------------------------
(***************************************************************************)
(* The run of one decision                                                 *)
(***************************************************************************)

Init ==
  /\ world \in FxWorlds \cup BatteryWorlds \cup Sessions
  /\ features = CASE world.desk = "fx"      -> FxFeatures(world)
                  [] world.desk = "battery" -> BatteryFeatures(world, "balanced")
                  [] OTHER                  -> DigestFeatures(world)
  /\ label = "none" /\ chosen = "none" /\ checks = <<>> /\ risk = 0
  /\ gates = <<>> /\ summary = [framing |-> "none", lead |-> 0, included |-> {}, told |-> {}]
  /\ phase = IF world.desk = "battery" THEN "read" ELSE IF world.desk = "fx" THEN "assess" ELSE "explain"

\* A call whose answers do not all stand is an error, and the run ends with it.
OrFail(stands, next) == phase' = IF stands THEN next ELSE "failed"

\* battery, "read": the regime and the ranking, over the balanced schedule's features;
\* the features are then rebuilt for the winner, the regime is not.
ReadDay ==
  /\ phase = "read"
  /\ label' = RegimeAnswer(Regimes, features).label
  /\ chosen' = Heaviest(Kinds, [k \in Range(Kinds) |-> Fraction(FitAnswer(k, features))])
  /\ features' = BatteryFeatures(world, chosen')
  /\ OrFail(RegimeStands(Regimes, features) /\ FitsStand(features), "assess")
  /\ UNCHANGED <<world, checks, risk, gates, summary>>

\* fx, "assess": the regime, the checks and the risk in one call.
AssessFx ==
  /\ phase = "assess" /\ world.desk = "fx"
  /\ label' = RegimeAnswer(FxRegimes, features).label
  /\ checks' = FxChecks(features)
  /\ risk' = Percent(Fraction(RiskAnswer(features)))
  /\ OrFail(RegimeStands(FxRegimes, features) /\ ChecksStand(checks') /\ RiskStands(FxDrivers, features),
            "gate")
  /\ UNCHANGED <<world, chosen, features, gates, summary>>

\* battery, "assess": the checks and the risk of the schedule that won.
AssessBattery ==
  /\ phase = "assess" /\ world.desk = "battery"
  /\ checks' = BatteryChecks(features)
  /\ risk' = Percent(Fraction(RiskAnswer(features)))
  /\ OrFail(ChecksStand(checks') /\ RiskStands(Drivers, features), "gate")
  /\ UNCHANGED <<world, label, chosen, features, gates, summary>>

Priors == [label |-> label, checks |-> checks, risk |-> risk]

Gate ==
  /\ phase = "gate"
  /\ LET out == GateOut(features, Priors) IN
       gates' = Append(gates, [action |-> out.action, size |-> out.size, label |-> label,
                               chosen |-> chosen, checks |-> checks, risk |-> risk,
                               features |-> features])
  /\ OrFail(GateStands(features, Priors), IF gates = <<>> THEN "replay" ELSE "done")
  /\ UNCHANGED <<world, label, chosen, features, checks, risk, summary>>

\* Mutant of WithoutEvents: the release at the candidate's own hour.
WithoutEventsAt(w) ==
  [w EXCEPT !.calendar = At(w.calendar, {i \in DOMAIN w.calendar : w.calendar[i].at # w.at})]

\* without_events_on: every release of the candidate's day.
WithoutEvents(w) ==
  [w EXCEPT !.calendar = At(w.calendar, {i \in DOMAIN w.calendar :
                                           w.calendar[i].at \div 24 # w.at \div 24})]

\* replay_decision offers a candidate only on a day with a CPI.
ReplayFx ==
  /\ phase = "replay" /\ world.desk = "fx"
  /\ \E i \in DOMAIN world.calendar :
       world.calendar[i].kind = "CPI" /\ world.calendar[i].at \div 24 = world.at \div 24
  /\ world' = WithoutEvents(world)
  /\ features' = FxFeatures(world')
  /\ phase' = "assess"
  /\ UNCHANGED <<label, chosen, checks, risk, gates, summary>>

\* with_grid_notice: on a day without one, over the hours the chosen schedule discharges.
ReplayBattery ==
  /\ phase = "replay" /\ world.desk = "battery"
  /\ world.notes = {} /\ world.block[chosen] # <<>>
  /\ world' = [world EXCEPT !.notes = {world.block[chosen]}]
  /\ features' = BatteryFeatures(world', "balanced")
  /\ phase' = "read"
  /\ UNCHANGED <<label, chosen, checks, risk, gates, summary>>

\* The facts of these names, in the order of the spec; no phrase ends its sentence.
Worded(names, w) ==
  At([i \in DOMAIN Facts |-> [name |-> Facts[i], len |-> Phrase(Facts[i], w), stops |-> FALSE]],
     {i \in DOMAIN Facts : Facts[i] \in names})

\* compose: the subject, a dash, the lead and the sentence of the severity, and then of the
\* facts at or above the threshold those that there is room for.
Composed(w, framing, severity, included) ==
  LET lead == w.subject + 3 + Lead(framing, w)
                + SeverityWords[Rounded(Fraction(severity), SeverityLevels) + 1]
      kept == KeepFacts(lead, Worded(included, w))
  IN  [framing |-> framing, lead |-> lead, included |-> included,
       told |-> {kept[n].name : n \in DOMAIN kept}]

\* for_audience
Explain ==
  /\ phase = "explain"
  /\ LET framing == Distribution(Framings, [l \in Range(Framings) |-> FramingWeight(l, features)])
         severity == ScoreDistribution(SeverityLevels, SeverityFraction(features))
     IN  /\ summary' = Composed(world, framing.label, severity,
                                {k \in Range(Facts) : NoulRule(k, features) >= Threshold})
         /\ OrFail(/\ ValidFor(framing, Choice(Framings))
                   /\ ValidFor(severity, Rubric(SeverityLevels))
                   /\ \A k \in Range(Facts) : ValidFor(NoulAnswer(k, features), Noul), "done")
  /\ UNCHANGED <<world, label, chosen, features, checks, risk, gates>>

Next == ReadDay \/ AssessFx \/ AssessBattery \/ Gate \/ ReplayFx \/ ReplayBattery \/ Explain

Spec == Init /\ [][Next]_vars

-----------------------------------------------------------------------------
(***************************************************************************)
(* Properties                                                              *)
(***************************************************************************)

\* Whatever the market, every answer of the offline backend passes the validation the
\* library applies to any backend, and the action and the size of a gate, asked as two
\* questions, never contradict each other (mock.rs:403-413, gate.rs:139-168).
AnswersStand == phase # "failed"

\* A decision with a failed check never goes on as the solver sized it, whichever
\* check it is: the checks, the risk and the gate read one set of conditions
\* (mock.rs:211-224).  A price far from its curve in either direction goes to a human.
GateHeedsChecks ==
  \A i \in DOMAIN gates :
    LET g == gates[i] IN
      /\ (\E c \in DOMAIN g.checks : ~ g.checks[c].ok) => g.action # "execute" /\ g.risk >= 55
      /\ Size(Feature(g.features, "id_deviation_sigmas", 0)) > 2000 => g.action = "escalate"

\* Judged with and without the releases of its day, a candidate is never treated with
\* less caution for having one; and where the filter of replay_decision finds a release
\* within three hours and a tight stop, the release is the deciding factor: with it the
\* candidate is held, without it something goes on (mock.rs:425-435, fx/lib.rs:319-364).
EventDecidesReplay ==
  world.desk = "fx" /\ Len(gates) = 2 =>
    /\ AtLeastAsCautious(gates[1], gates[2])
    /\ Feature(gates[1].features, "hours_to_event", NoEvent) <= 3 /\ ~ gates[1].features.stop_clears_noise =>
         gates[1].action = "hold" /\ Acts(gates[2].action)

\* The schedule that the ranking puts first never breaches the reserve: with an
\* obligation it is the one that keeps the reserve, and only an obligation can be
\* breached.  A notice laid over the balanced schedule's hours moves the ranking.
ChosenKeepsReserve ==
  /\ chosen # "none" => ~ (world.afrr /\ chosen \in world.dips)
  /\ \A i \in DOMAIN gates :
       gates[i].chosen = "balanced" => ~ gates[i].features.grid_notice_overlaps_discharge

\* Whoever reads the summary, its lead says that a decision went to a human where one did
\* and only there, and is read whole (mock.rs:374-382, 563-580).  The fact that says how
\* many is chosen in the same sessions, told in no other, and left out of one of them only
\* where it would not fit beside what is told before it (explain.rs:297-326).
SummaryTellsEscalations ==
  world.desk = "summary" /\ phase = "done" =>
    /\ world.escalations > 0 <=> summary.framing = "escalated"
    /\ world.interventions = 0 <=> summary.framing = "quiet"
    /\ Length(summary.lead, Worded(summary.told, world)) <= MaxSummary
    /\ world.escalations > 0 <=> "escalations" \in summary.included
    /\ summary.told \subseteq summary.included
    /\ "escalations" \in summary.included \ summary.told =>
         LET beside == (summary.told \ {"interventions"}) \cup {"escalations"} IN
           ~ (Length(summary.lead, Worded(beside, world)) <= MaxSummary)
=============================================================================
