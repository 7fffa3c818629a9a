--------------------------- MODULE BatterySession ---------------------------
(***************************************************************************)
(* One battery session (crates/battery/src): each day the solver plans      *)
(* three schedules, the pipeline ranks them and weighs the winner in three  *)
(* calls, and the day is run twice, once as the balanced schedule whole and *)
(* once as the gate allows.                                                 *)
(*                                                                         *)
(* Stored energy is a node of the solver's grid.  A size is a number of     *)
(* quarters, so the energy of a run is counted in quarters of a node.       *)
(* Efficiency is EffNum / EffDen; money is counted in units in which the    *)
(* cash, wear and left-over energy of a plan are whole.                     *)
(***************************************************************************)
EXTENDS Integers, Sequences, FiniteSets, SequencesExt, FiniteSetsExt

CONSTANTS
  Hours,            \* hours of a day (24)
  Capacity,         \* capacity_mwh, in nodes
  Power,            \* power_mw for an hour, in nodes
  EffNum, EffDen,   \* one_way_efficiency
  Wear,             \* degradation per node of throughput, for a weight of 5
  MinNode, MaxNode, \* soc_min, soc_max
  StartNode,        \* soc_start
  Reserve,          \* AfrrWindow::reserve_soc
  CapacityPrice,    \* reserve_mw * capacity_price
  Low, High, Weight,\* ScheduleKind::band and degradation_weight, in fifths
  Worlds,           \* bound: the worlds, each the day-ahead curves of its days
  Windows,          \* bound: the reserve windows
  Sizes,            \* bound: the sizes a reduce may choose
  Lookback          \* LOOKBACK_DAYS

ScheduleKinds == {"aggressive", "balanced", "reserve_heavy"}
Nodes == 0 .. Capacity
Day == 0 .. Hours - 1
NoWindow == [from |-> 1, to |-> 0]
Full == 4

ASSUME GridAssumption ==
  /\ Hours \in Nat \ {0} /\ Capacity \in Nat /\ Power \in Nat
  /\ EffNum \in Nat \ {0} /\ EffDen \in Nat \ {0} /\ EffNum <= EffDen /\ Wear \in Nat
  /\ CapacityPrice \in Int /\ Lookback \in Nat \ {0}
ASSUME BandAssumption ==
  /\ {MinNode, MaxNode, StartNode, Reserve} \subseteq Nodes
  /\ Low \in [ScheduleKinds -> Nodes] /\ High \in [ScheduleKinds -> Nodes]
  /\ Weight \in [ScheduleKinds -> Nat]
\* BatterySpec opens a day inside every band and at or above the reserve.
ASSUME StartAssumption ==
  /\ MinNode <= StartNode /\ StartNode <= MaxNode /\ Reserve <= StartNode
  /\ \A k \in ScheduleKinds : Low[k] <= StartNode /\ StartNode <= High[k]
ASSUME WindowAssumption ==
  \A w \in Windows : w = NoWindow \/ (w.from <= w.to /\ {w.from, w.to} \subseteq Day)
\* Each day has its curve of hourly prices.
ASSUME WorldAssumption == \A wd \in Worlds : wd \in Seq([Day -> Int])
ASSUME SizeAssumption == Sizes \subseteq 1 .. Full - 1

VARIABLES
  world,       \* the day-ahead curves, day by day
  stage,       \* where the day's judgment is
  day,         \* days judged
  curve,       \* day_ahead_for(day)
  window,      \* afrr_on(day)
  plans,       \* candidates(): the three schedules' soc_mwh
  described,   \* features.under_consideration
  dips,        \* features.schedule_dips_below_reserve_soc
  chosen,      \* judgment.chosen
  history,     \* dispersions of the days before this one
  volatility,  \* features.volatility_percentile
  action,      \* judgment.gate.action
  solverOnly,  \* DayRecord.solver_only
  gated        \* DayRecord.gated

vars == <<world, stage, day, curve, window, plans, described, dips, chosen, history,
          volatility, action, solverOnly, gated>>

LowerOf(i, j) == IF i < j THEN i ELSE j
HigherOf(i, j) == IF i < j THEN j ELSE i

-----------------------------------------------------------------------------
(***************************************************************************)
(* solver.rs                                                               *)
(***************************************************************************)

Covers(w, h) == w.from <= h /\ h <= w.to
WindowHours(w) == w.to - w.from + 1
HonoursReserve(kind) == kind = "reserve_heavy"

Ceiling(kind) == LowerOf(High[kind], MaxNode)
StandingFloor(kind) == HigherOf(Low[kind], MinNode)
\* Mutant of FloorAt: the floor is lifted when the last covered hour begins to end.
FloorAtInside(kind, w, h) ==
  IF HonoursReserve(kind) /\ w # NoWindow /\ Covers(w, h)
  THEN HigherOf(StandingFloor(kind), LowerOf(Reserve, Ceiling(kind)))
  ELSE StandingFloor(kind)

\* The reserve must be in place when the window opens and still be there when its
\* last hour ends.
FloorAt(kind, w, h) ==
  IF HonoursReserve(kind) /\ w # NoWindow /\ (Covers(w, h) \/ h = w.to + 1)
  THEN HigherOf(StandingFloor(kind), LowerOf(Reserve, Ceiling(kind)))
  ELSE StandingFloor(kind)

InBand(kind, w, h, node) == FloorAt(kind, w, h) <= node /\ node <= Ceiling(kind)

MaxChargeSteps == (Power * EffNum) \div EffDen
MaxDischargeSteps == (Power * EffDen) \div EffNum
Deltas == - MaxDischargeSteps .. MaxChargeSteps

Abs(i) == IF i < 0 THEN - i ELSE i
DaySum(f) == MapThenSumSet(LAMBDA h : f[h], Day)
Total(prices) == DaySum(prices)

\* Cash and wear of one hour, times EffNum * EffDen * Hours * 5.
Cash(delta, price) ==
  IF delta > 0 THEN - (delta * EffDen * EffDen * price) * Hours * 5
               ELSE - (delta * EffNum * EffNum * price) * Hours * 5
WearOf(kind, delta) == Abs(delta) * Wear * Weight[kind] * EffNum * EffDen * Hours
\* Energy left over is worth the mean price, at the efficiency of selling it.
LeftOver(prices, node) == node * EffNum * EffNum * Total(prices) * 5

\* The moves from a node that the power limits allow to the nodes of the next row,
\* and what the rest of the day makes with each.
Moves(kind, price, ahead, node) ==
  {[node |-> node, delta |-> s.node - node,
    worth |-> Cash(s.node - node, price) - WearOf(kind, s.node - node) + s.worth] :
   s \in {s \in ahead : s.node - node \in Deltas}}

\* A move is kept over those that make less, or that come later in the solver's order.
Precedes(m, n) == n.worth < m.worth \/ (n.worth = m.worth /\ m.delta <= n.delta)
Best(moves) == CHOOSE m \in moves : \A n \in moves : Precedes(m, n)

\* One row of the table the solver fills backwards: for each node from which the
\* rest of the day is possible, the best it makes from that hour on and the move
\* that makes it.
Row(kind, price, w, h, ahead) ==
  {Best(Moves(kind, price, ahead, node)) :
     node \in {node \in Nodes :
                 InBand(kind, w, h, node) /\ Moves(kind, price, ahead, node) # {}}}

\* Mutant of LastRow: energy left at the end of the day is worth nothing.
LastRowWorthless(kind, prices, w) ==
  {[node |-> node, delta |-> 0, worth |-> 0] :
     node \in {node \in Nodes : InBand(kind, w, Hours, node)}}

LastRow(kind, prices, w) ==
  {[node |-> node, delta |-> 0, worth |-> LeftOver(prices, node)] :
     node \in {node \in Nodes : InBand(kind, w, Hours, node)}}

\* value and action, hour by hour.
Table(kind, prices, w) ==
  LET rows[h \in 0 .. Hours] ==
        IF h = Hours THEN LastRow(kind, prices, w)
        ELSE Row(kind, prices[h], w, h, rows[h + 1])
  IN  rows

\* Where a row leads from a node: where it knows no way the plan stands still.
Led(row, node) ==
  IF \E m \in row : m.node = node THEN node + (CHOOSE m \in row : m.node = node).delta
  ELSE node

\* The policy walked forward from the start, pulled into the band.
Solve(kind, prices, w) ==
  LET rows == Table(kind, prices, w)
      soc[h \in 0 .. Hours] ==
        IF h = 0 THEN LowerOf(HigherOf(StartNode, FloorAt(kind, w, 0)), Ceiling(kind))
        ELSE Led(rows[h - 1], soc[h - 1])
  IN  soc

\* Mutant of DipsBelow: the end of the last covered hour is not looked at.
DipsBelowInside(soc, w, floor) == \E h \in w.from .. w.to : soc[h] < floor

DipsBelow(soc, w, floor) ==
  \/ \E h \in w.from .. w.to : soc[h] < floor
  \/ soc[w.to + 1] < floor

-----------------------------------------------------------------------------
(***************************************************************************)
(* engine.rs                                                               *)
(***************************************************************************)

CountBreaches(soc, w) ==
  IF w = NoWindow THEN 0
  ELSE Cardinality({h \in w.from .. w.to + 1 : soc[h] < Full * Reserve})

\* Mutant of Scaled: the levels are scaled, and not the movements.
ScaledLevels(plan, size) == [h \in 0 .. Hours |-> size * plan[h]]

\* Running a plan smaller moves every quarter node by the same share.
Scaled(plan, size) == [h \in 0 .. Hours |-> Full * plan[0] + size * (plan[h] - plan[0])]

Execute(plan, w, size) ==
  LET soc == Scaled(plan, size)
      breaches == CountBreaches(soc, w)
  IN  [size |-> size, soc |-> soc, breaches |-> breaches,
       paid |-> IF w # NoWindow /\ breaches = 0 THEN CapacityPrice * WindowHours(w) ELSE 0]

StoodDown(plan) ==
  [size |-> 0, soc |-> Scaled(plan, 0), breaches |-> 0, paid |-> 0]

ReserveHeld(execution) == execution.breaches = 0

-----------------------------------------------------------------------------
(***************************************************************************)
(* features.rs, judgment.rs and lib.rs                                     *)
(***************************************************************************)

\* Ordered as the day's standard deviation is.
Dispersion(prices) ==
  Hours * DaySum([h \in Day |-> prices[h] * prices[h]]) - Total(prices) * Total(prices)

\* Mutant of Percentile: a single day of history passes for enough.
PercentileOfOne(value, past) ==
  IF Len(past) < 1 THEN <<1, 2>>
  ELSE <<Cardinality({i \in DOMAIN past : past[i] < value}), Len(past) - 1>>

\* A fraction <<below, of>>.
Percentile(value, past) ==
  IF Len(past) < 2 THEN <<1, 2>>
  ELSE <<Cardinality({i \in DOMAIN past : past[i] < value}), Len(past) - 1>>

Dips(plan, w) == w # NoWindow /\ DipsBelow(plan, w, Reserve)

NoRun == [size |-> 0, soc |-> [h \in 0 .. Hours |-> 0], breaches |-> 0, paid |-> 0]
NoPlans == [k \in ScheduleKinds |-> [h \in 0 .. Hours |-> 0]]

Init ==
  /\ world \in Worlds /\ stage = "dawn" /\ day = 0
  /\ curve = [h \in Day |-> 0] /\ window = NoWindow
  /\ plans = NoPlans /\ described = "balanced" /\ dips = FALSE /\ chosen = "balanced"
  /\ history = <<>> /\ volatility = <<1, 2>>
  /\ action = "hold" /\ solverOnly = NoRun /\ gated = NoRun

\* candidates() and build_input: the features describe the balanced schedule.
Dawn(w) ==
  /\ stage = "dawn" /\ day < Len(world)
  /\ curve' = world[day + 1] /\ window' = w
  /\ plans' = [k \in ScheduleKinds |-> Solve(k, curve', w)]
  /\ described' = "balanced" /\ dips' = Dips(plans'["balanced"], w)
  /\ volatility' = Percentile(Dispersion(curve'), history)
  /\ stage' = "read"
  /\ UNCHANGED <<world, day, chosen, history, action, solverOnly, gated>>

\* The batch of regime and ranking; the features are rebuilt for the winner.
Read(kind) ==
  /\ stage = "read"
  /\ chosen' = kind
  /\ described' = kind /\ dips' = Dips(plans[kind], window)
  /\ stage' = "assess"
  /\ UNCHANGED <<world, day, curve, window, plans, history, volatility, action, solverOnly, gated>>

\* The batch of checks and risk.
Assess ==
  /\ stage = "assess"
  /\ stage' = "gate"
  /\ UNCHANGED <<world, day, curve, window, plans, described, dips, chosen, history,
                 volatility, action, solverOnly, gated>>

\* Sizes that GateOut::validate lets each action carry.
SizeOf(a) ==
  CASE a = "execute" -> {Full}
    [] a = "reduce" -> Sizes
    [] OTHER -> {0}
Acts(a) == a \in {"execute", "reduce"}

\* The gate, and with it both runs of the day; its dispersion joins the history
\* the next days look back on.
Gate(a, size) ==
  /\ stage = "gate"
  /\ action' = a
  /\ solverOnly' = Execute(plans["balanced"], window, Full)
  /\ gated' = IF Acts(a) THEN Execute(plans[chosen], window, size) ELSE StoodDown(plans[chosen])
  /\ history' = LET past == Append(history, Dispersion(curve))
                IN  SubSeq(past, HigherOf(1, Len(past) - Lookback + 1), Len(past))
  /\ day' = day + 1
  /\ stage' = "dawn"
  /\ UNCHANGED <<world, curve, window, plans, described, dips, chosen, volatility>>

\* Any of the day's three calls fails: run_session returns the error and the
\* session is lost.
CallFails ==
  /\ stage \in {"read", "assess", "gate"}
  /\ stage' = "failed"
  /\ UNCHANGED <<world, day, curve, window, plans, described, dips, chosen, history,
                 volatility, action, solverOnly, gated>>

Next ==
  \/ \E w \in Windows : Dawn(w)
  \/ \E kind \in ScheduleKinds : Read(kind)
  \/ Assess
  \/ \E a \in {"execute", "reduce", "hold", "escalate"} : \E size \in SizeOf(a) : Gate(a, size)
  \/ CallFails

Spec == Init /\ [][Next]_vars

-----------------------------------------------------------------------------
(***************************************************************************)
(* Properties                                                              *)
(***************************************************************************)

Executions == [size : 0 .. Full, soc : [0 .. Hours -> Int], breaches : 0 .. Hours + 1,
               paid : Int]

\* Every variable holds a value of its kind.
TypeOK ==
  /\ stage \in {"dawn", "read", "assess", "gate", "failed"}
  /\ world \in Worlds /\ day \in 0 .. Len(world) /\ curve \in [Day -> Int] /\ window \in Windows \cup {NoWindow}
  /\ plans \in [ScheduleKinds -> [0 .. Hours -> Nodes]]
  /\ {described, chosen} \subseteq ScheduleKinds /\ dips \in BOOLEAN
  /\ history \in Seq(Int) /\ Len(history) <= Lookback
  /\ volatility \in Nat \X (Nat \ {0})
  /\ action \in {"execute", "reduce", "hold", "escalate"}
  /\ solverOnly \in Executions /\ gated \in Executions

\* Every walk of the day that keeps to the power limits and, hour by hour, to the
\* variant's band, the reserve floor included.
Walks(kind, w) ==
  LET upTo[h \in 0 .. Hours] ==
        IF h = 0 THEN {[i \in {0} |-> StartNode]}
        ELSE {s \in {[i \in 0 .. h |-> IF i = h THEN n ELSE t[i]] : t \in upTo[h - 1], n \in Nodes} :
                InBand(kind, w, h, s[h]) /\ s[h] - s[h - 1] \in Deltas}
  IN  upTo[Hours]

\* What a walk makes.
Worth(kind, prices, s) ==
  LET from[h \in 0 .. Hours] ==
        IF h = Hours THEN LeftOver(prices, s[h])
        ELSE Cash(s[h + 1] - s[h], prices[h]) - WearOf(kind, s[h + 1] - s[h]) + from[h + 1]
  IN  from[0]

\* The solver's table finds, for each variant, a plan that its limits allow and
\* that no other allowed plan betters.
PlanIsBest ==
  stage = "read" =>
    \A kind \in ScheduleKinds :
      /\ plans[kind] \in Walks(kind, window)
      /\ \A s \in Walks(kind, window) : Worth(kind, curve, s) <= Worth(kind, curve, plans[kind])

\* "A schedule run smaller is always at least as feasible as the schedule run
\* whole" (engine.rs): the gated run stays in the band of the schedule chosen and
\* misses the reserve in no hour in which the whole schedule would not, so that with
\* the balanced schedule the gated desk never misses it more often than the other.
SmallerIsAsFeasible ==
  (stage = "dawn" /\ day > 0) =>
    /\ \A h \in 0 .. Hours :
         /\ Full * FloorAt(chosen, window, h) <= gated.soc[h]
         /\ gated.soc[h] <= Full * Ceiling(chosen)
         /\ gated.soc[h] < Full * Reserve => plans[chosen][h] < Reserve
    /\ chosen = "balanced" => gated.breaches <= solverOnly.breaches

\* The reserve-heavy schedule keeps its promise at every size: whenever it is run
\* on a day with a window the reserve is held in full and paid.
ReserveHeavyHolds ==
  (stage = "dawn" /\ day > 0 /\ chosen = "reserve_heavy" /\ Acts(action)
     /\ window # NoWindow) =>
    ReserveHeld(gated) /\ gated.paid = CapacityPrice * WindowHours(window)

\* What the reserve check was told is what happens: the features weighed after the
\* ranking are those of the schedule that then runs, and they report a dip exactly
\* when running it whole breaches the reserve.
RuleForesees ==
  (stage = "dawn" /\ day > 0) =>
    /\ described = chosen
    /\ dips <=> ~ ReserveHeld(Execute(plans[chosen], window, Full))
    /\ action = "execute" => (dips <=> ~ ReserveHeld(gated))
=============================================================================
