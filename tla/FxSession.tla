----------------------------- MODULE FxSession -----------------------------
(***************************************************************************)
(* One forex session (crates/fx/src/lib.rs run_session, engine.rs): the     *)
(* candidates of every pair in time order, each judged in two calls against *)
(* the book as it stands, filled once for the book that ignores the gate    *)
(* and once for the book that obeys it.                                     *)
(*                                                                         *)
(* A stamp is a bar index.  A bar is what a candidate sees of it: whether   *)
(* its range reaches the stop and the target, and the move its close makes  *)
(* from the entry.  A size is a number of quarters of the solver's size.    *)
(***************************************************************************)
EXTENDS Integers, Sequences, SequencesExt, FiniteSetsExt, Places

CONSTANTS
  Pairs,          \* Pair::ALL, by position
  Base, Quote,    \* the currencies of each pair
  Starting,       \* FxWorld.book: units held per currency at the start
  Signals,        \* bound: what the strategy can signal
  LastBar,           \* index of the last bar
  MaxHold,        \* StrategyParams::max_holding_bars
  Moves,          \* bound: the moves a close can make
  StopMove, TargetMove,
  Sizes,          \* bound: the sizes a reduce may choose
  MaxDecisions    \* bound: candidates judged

ASSUME TimeAssumption == LastBar \in Nat /\ MaxHold \in Nat \ {0}
ASSUME LimitAssumption == MaxDecisions \in Nat
ASSUME SizeAssumption == Sizes \subseteq 1 .. 3
ASSUME MoveAssumption ==
  Moves \subseteq Int /\ StopMove \in Int /\ TargetMove \in Int /\ 0 \in Moves
ASSUME PairAssumption == Pairs \subseteq Nat

VARIABLES
  stage,       \* where the loop over the queue is
  candidate,   \* the candidate under judgment
  open,        \* RunningBook.open
  seen,        \* the exposures build_input read for it
  decisions,   \* the session's DecisionRecords so far
  tape,        \* the bars the last fills walked, until the next candidate (history)
  audit        \* the audit log of the run

vars == <<stage, candidate, open, seen, decisions, tape, audit>>

Full == 4
Currencies == {Base[p] : p \in Pairs} \cup {Quote[p] : p \in Pairs}
ASSUME BookAssumption == Starting \in [Currencies -> Int]
Candidates == [pair : Pairs, at : 0 .. LastBar, side : {"long", "short"}]

\* The strategy signals a pair at most once a bar.
ASSUME SignalAssumption ==
  /\ Signals \subseteq Candidates
  /\ \A c, d \in Signals : c.pair = d.pair /\ c.at = d.at => c = d

NoCandidate == [pair |-> 0, at |-> -1, side |-> "long"]

Bars == [stop : BOOLEAN, target : BOOLEAN, close : Moves]
Exits == {"target", "stop", "timeout", "end_of_data"}
Fills == [size : 1 .. Full, exited : 0 .. LastBar, exit : Exits,
          move : Moves \cup {StopMove, TargetMove}]
NoFill == [size |-> 0, exited |-> 0, exit |-> "none", move |-> 0]

Actions == {"execute", "reduce", "hold", "escalate"}

Decisions == [candidate : Candidates, action : Actions, ungated : Fills, gated : Fills \cup {NoFill}]
Positions == [currency : Currencies, units : 1 .. Full, exit : 0 .. LastBar]
Calls     == [decision : 0 .. MaxDecisions, call : {"assess", "gate"}]

TypeOK ==
  /\ stage \in {"next", "assess", "gate", "done", "failed"}
  /\ candidate \in Candidates \cup {NoCandidate}
  /\ open \in Seq(Positions)
  /\ seen \in [Currencies -> Int]
  /\ decisions \in Seq(Decisions)
  /\ \A i \in DOMAIN tape : i \in 1 .. LastBar /\ tape[i] \in Bars
  /\ audit \in Seq(Calls)

-----------------------------------------------------------------------------
(***************************************************************************)
(* engine.rs: fills                                                        *)
(***************************************************************************)

LowerOf(i, j) == IF i < j THEN i ELSE j

Deadline(c) == LowerOf(c.at + MaxHold, LastBar)

\* The bars the loop comes to: those after the signal, the last of them due.
Turns(c, bars) ==
  [k \in 1 .. Deadline(c) - c.at |->
     [i |-> c.at + k, bar |-> bars[c.at + k], due |-> c.at + k = Deadline(c)]]

\* Mutant of AtBar: the target is looked at first.
AtBarHopeful(walk, turn) ==
  LET Close(exit, move) == [open |-> FALSE, exit |-> exit, move |-> move, exited |-> turn.i]
  IN  IF ~ walk.open THEN walk
      ELSE IF turn.bar.target THEN Close("target", TargetMove)
      ELSE IF turn.bar.stop THEN Close("stop", StopMove)
      ELSE IF turn.due
           THEN Close(IF turn.i = LastBar THEN "end_of_data" ELSE "timeout", turn.bar.close)
      ELSE walk

\* One turn of simulate's loop over the bars; after the break nothing moves.
\* The stop is looked at first.
AtBar(walk, turn) ==
  LET Close(exit, move) == [open |-> FALSE, exit |-> exit, move |-> move, exited |-> turn.i]
  IN  IF ~ walk.open THEN walk
      ELSE IF turn.bar.stop THEN Close("stop", StopMove)
      ELSE IF turn.bar.target THEN Close("target", TargetMove)
      ELSE IF turn.due
           THEN Close(IF turn.i = LastBar THEN "end_of_data" ELSE "timeout", turn.bar.close)
      ELSE walk

\* What the loop starts from: a signal on the last bar has no bar to walk, and
\* closes where it was entered.
Entered == [open |-> TRUE, exit |-> "end_of_data", move |-> 0, exited |-> LastBar]

Simulate(c, bars, size) ==
  LET walked == FoldLeft(AtBar, Entered, Turns(c, bars))
  IN  IF size = 0 THEN NoFill
      ELSE [size |-> size, exited |-> walked.exited, exit |-> walked.exit,
            move |-> walked.move]

Pnl(fill) == fill.move * fill.size

\* Mutant of Tally: the fall is measured from the flat start alone.
TallyFromFlat(book, fill) ==
  LET cumulative == book.pnl + Pnl(fill)
  IN  [book EXCEPT !.trades = @ + 1, !.pnl = cumulative,
                   !.drawdown = IF - cumulative > @ THEN - cumulative ELSE @]

\* One turn of summarise's loop.
Tally(book, fill) ==
  LET cumulative == book.pnl + Pnl(fill)
      peak == IF cumulative > book.peak THEN cumulative ELSE book.peak
  IN  [trades |-> book.trades + 1,
       wins |-> book.wins + (IF Pnl(fill) > 0 THEN 1 ELSE 0),
       losses |-> book.losses + (IF Pnl(fill) < 0 THEN 1 ELSE 0),
       pnl |-> cumulative,
       peak |-> peak,
       drawdown |-> IF peak - cumulative > book.drawdown
                    THEN peak - cumulative ELSE book.drawdown]

Summarise(fills) ==
  FoldLeft(Tally, [trades |-> 0, wins |-> 0, losses |-> 0, pnl |-> 0, peak |-> 0,
                   drawdown |-> 0], fills)

Filled(column) == At(column, {i \in DOMAIN column : column[i] # NoFill})
GatedFills == Filled([i \in DOMAIN decisions |-> decisions[i].gated])

-----------------------------------------------------------------------------
(***************************************************************************)
(* lib.rs: the running book and the session                                *)
(***************************************************************************)

\* features.rs added_currency: a long adds the base, a short the quote.
Added(c) == IF c.side = "long" THEN Base[c.pair] ELSE Quote[c.pair]

\* Mutant of Expire: a position closed at this very bar is still held.
ExpireLate(positions, now) == At(positions, {k \in DOMAIN positions : positions[k].exit >= now})

Expire(positions, now) == At(positions, {k \in DOMAIN positions : positions[k].exit > now})

\* Every open position adds its units to its currency.
Add(sum, units) == sum + units
Exposures(positions) ==
  [cur \in Currencies |->
     FoldLeft(Add, Starting[cur],
              [k \in DOMAIN positions |->
                 IF positions[k].currency = cur THEN positions[k].units ELSE 0])]

Init ==
  /\ stage = "next"
  /\ candidate = NoCandidate
  /\ open = <<>>
  /\ seen = Starting
  /\ decisions = <<>>
  /\ tape = <<>>
  /\ audit = <<>>

\* queue.sort_by_key(|(pair, c)| (c.t.index(), *pair)), one signal per bar.
After(c, d) == c.at > d.at \/ (c.at = d.at /\ c.pair > d.pair)

\* The next candidate of the queue: the book drops what has closed and the
\* input is built from what is left.
Take(c) ==
  /\ stage = "next"
  /\ Len(decisions) < MaxDecisions
  /\ After(c, candidate)
  /\ candidate' = c
  /\ open' = Expire(open, c.at)
  /\ seen' = Exposures(open')
  /\ stage' = "assess"
  /\ tape' = <<>>
  /\ UNCHANGED <<decisions, audit>>

\* Mutant of Record: the decisions are numbered from one.
RecordFromOne(call) == audit' = Append(audit, [decision |-> Len(decisions) + 1, call |-> call])

\* A call answered: its record carries the decision's id, fx:<index>.
Record(call) == audit' = Append(audit, [decision |-> Len(decisions), call |-> call])

\* The batch of regime, checks and risk.
Assess ==
  /\ stage = "assess"
  /\ Record("assess")
  /\ stage' = "gate"
  /\ UNCHANGED <<candidate, open, seen, decisions, tape>>

\* Sizes that GateOut::validate lets each action carry.
SizeOf(action) ==
  CASE action = "execute" -> {Full}
    [] action = "reduce" -> Sizes
    [] OTHER -> {0}

\* The gate, and with it both fills; the gated one goes on the book.
Gate(action, size, bars) ==
  /\ stage = "gate"
  /\ Record("gate")
  /\ LET ungated == Simulate(candidate, bars, Full)
         gated == Simulate(candidate, bars, size)
     IN  /\ decisions' = Append(decisions, [candidate |-> candidate, action |-> action,
                                            ungated |-> ungated, gated |-> gated])
         /\ open' = IF gated = NoFill THEN open
                    ELSE Append(open, [currency |-> Added(candidate),
                                       units |-> gated.size, exit |-> gated.exited])
  /\ tape' = bars
  /\ stage' = "next"
  /\ UNCHANGED <<candidate, seen>>

\* Either call fails: run_session returns the error and the session is lost.
CallFails ==
  /\ stage \in {"assess", "gate"}
  /\ stage' = "failed"
  /\ UNCHANGED <<candidate, open, seen, decisions, tape, audit>>

\* The queue is exhausted.
Finish ==
  /\ stage = "next"
  /\ stage' = "done"
  /\ UNCHANGED <<candidate, open, seen, decisions, tape, audit>>

Next ==
  \/ \E c \in Signals : Take(c)
  \/ Assess
  \/ stage = "gate" /\ \E action \in Actions : \E size \in SizeOf(action) :
       \E bars \in [candidate.at + 1 .. Deadline(candidate) -> Bars] :
         Gate(action, size, bars)
  \/ CallFails
  \/ Finish

Spec == Init /\ [][Next]_vars

-----------------------------------------------------------------------------
(***************************************************************************)
(* Properties                                                              *)
(***************************************************************************)

\* What the gated fills of some decisions were put on for.
TotalSize(ds, some) == MapThenSumSet(LAMBDA i : ds[i].gated.size, some)

\* The exposures a judgment sees are the starting book plus exactly the gated
\* fills that are still open at the candidate's bar, each at the size the gate
\* left it: nothing the gate stopped, nothing closed at or before that bar.
JudgedBook ==
  stage \in {"assess", "gate"} =>
    \A cur \in Currencies :
      LET held == {i \in DOMAIN decisions :
                     /\ decisions[i].gated # NoFill
                     /\ decisions[i].gated.exited > candidate.at
                     /\ Added(decisions[i].candidate) = cur}
      IN  seen[cur] = Starting[cur] + TotalSize(decisions, held)

\* A fill ends at the first bar that reaches the stop or the target, at the stop
\* if it reaches both, and otherwise at the holding limit or the end of the data;
\* the gated fill differs from the ungated one in its size alone.
FillsFair ==
  (stage = "next" /\ decisions # <<>>) =>
    LET d == decisions[Len(decisions)]
        touched == {i \in DOMAIN tape : tape[i].stop \/ tape[i].target}
        first == Min(touched)
    IN  /\ touched # {} =>
             /\ d.ungated.exited = first
             /\ d.ungated.exit = IF tape[first].stop THEN "stop" ELSE "target"
        /\ touched = {} =>
             /\ d.ungated.exited = Deadline(d.candidate)
             /\ d.ungated.exit = IF Deadline(d.candidate) = LastBar
                                 THEN "end_of_data" ELSE "timeout"
        /\ d.gated # NoFill => [d.gated EXCEPT !.size = Full] = d.ungated

\* The drawdown of a book is the worst fall of its cumulative profit from any
\* earlier level, the flat start among them.
DrawdownIsWorstFall ==
  LET Level(k) == Summarise(SubSeq(GatedFills, 1, k)).pnl
      falls == {Level(w[1]) - Level(w[2]) : w \in
                  {w \in (0 .. Len(GatedFills)) \X (0 .. Len(GatedFills)) : w[1] <= w[2]}}
  IN  Summarise(GatedFills).drawdown = Max(falls)

\* The audit log joins to the decisions: whatever became of the session, the log is
\* the two calls of its first decision, of its second, and so on, each under its
\* decision's id, and past the decisions made there is at most the first call of the
\* one that was under judgment.
AuditJoins ==
  /\ \A k \in DOMAIN audit :
       audit[k] = [decision |-> (k - 1) \div 2,
                   call |-> IF k % 2 = 1 THEN "assess" ELSE "gate"]
  /\ LET beyond == Len(audit) - 2 * Len(decisions) IN
       CASE stage = "gate"   -> beyond = 1
         [] stage = "failed" -> beyond \in {0, 1}
         [] OTHER            -> beyond = 0
=============================================================================
