------------------------------ MODULE DeskRun -------------------------------
(***************************************************************************)
(* What one run of a desk calls, logs, reports and claims: execute of       *)
(* crates/server/src/run.rs and the commands of crates/cli/src/main.rs with *)
(* replay.rs, over the audit logs (audit.rs, report/src/lib.rs).            *)
(*                                                                         *)
(* Both hosts run the same sessions, reports and replays.  The command line *)
(* opens one log on disk for each part and writes a report as soon as it is *)
(* rendered; the server keeps one log in memory for the run and hands the   *)
(* reports over with the finished run.  A run is its script: the steps it   *)
(* still has to take.  Any of them may be its last.                         *)
(***************************************************************************)
EXTENDS Integers, Sequences, SequencesExt, FiniteSets, Places

CONSTANTS
  Hosts,         \* subset of {"cli", "server"}
  MaxRuns,       \* runs one after the other, over the same directory
  MaxDecisions,  \* candidates of a forex session
  MaxDays        \* days of a battery session

ASSUME HostsAssumption == Hosts \subseteq {"cli", "server"}
ASSUME BoundsAssumption == MaxRuns \in Nat /\ MaxDecisions \in Nat /\ MaxDays \in Nat

Desks == {"fx", "battery"}
LogNames == Desks \cup {"all", "run"}   \* out/<domain>/decisions.jsonl; the server's own

VARIABLES
  host,     \* who runs
  run,      \* how many runs were started
  sized,    \* desk -> how many decisions this run's session has
  script,   \* the steps left
  open,     \* the log the handle writes to
  logs,     \* name -> the run that opened it and the calls in it
  drafts,   \* desk -> the report being made
  reports,  \* desk -> the report last written or handed over
  claims    \* the calls the last compliance summary speaks of, and the run it closed

vars == <<host, run, sized, script, open, logs, drafts, reports, claims>>

-----------------------------------------------------------------------------
(***************************************************************************)
(* Steps                                                                   *)
(***************************************************************************)

Connect(log)          == [op |-> "connect", log |-> log]
Call(decision, stage) == [op |-> "call", decision |-> decision, stage |-> stage]
Count(desk)           == [op |-> "count", desk |-> desk]
Render(desk)          == [op |-> "render", desk |-> desk]
Publish(desks)        == [op |-> "publish", desks |-> desks]
Comply                == [op |-> "comply"]

NoDecision == <<>>
Explain    == Call(NoDecision, "explain")   \* a summary judges no one decision

Stages(desk) == IF desk = "fx" THEN <<"assess", "gate">> ELSE <<"read", "assess", "gate">>

\* judge: every stage of one decision, under its id.
Judge(desk, id) == [i \in 1 .. Len(Stages(desk)) |-> Call(<<desk>> \o id, Stages(desk)[i])]

Session(desk, n) == FlattenSeq([i \in 1 .. n |-> Judge(desk, <<i>>)])

\* Mutant of Replay: the worlds judged again carry the id of the session's decision.
ReplaySameId(desk, worlds) == FlattenSeq([i \in 1 .. worlds |-> Judge(desk, <<1>>)])

\* The changed worlds of a replay carry ids of their own.
Replay(desk, worlds) ==
  FlattenSeq([i \in 1 .. worlds |-> Judge(desk, <<"replay", i>>)])

\* render: the calls are counted, one summary is asked for each of two audiences.
Report(desk) == <<Count(desk), Explain, Explain, Render(desk)>>

DeskScript(h, desk, n, worlds) ==
  (IF h = "cli" THEN <<Connect(desk)>> ELSE <<>>)
  \o Session(desk, n) \o Report(desk)
  \o (IF h = "cli" THEN <<Publish({desk})>> ELSE <<>>)
  \o Replay(desk, worlds)

Closing(h) == (IF h = "cli" THEN <<Connect("all")>> ELSE <<>>) \o <<Explain, Comply>>

\* execute, and the commands fx, battery and all.
Script(h, desks, n, worlds) ==
  (IF h = "server" THEN <<Connect("run")>> ELSE <<>>)
  \o (IF "fx" \in desks THEN DeskScript(h, "fx", n["fx"], worlds["fx"]) ELSE <<>>)
  \o (IF "battery" \in desks THEN DeskScript(h, "battery", n["battery"], worlds["battery"]) ELSE <<>>)
  \o (IF desks = Desks THEN Closing(h) ELSE <<>>)
  \o (IF h = "server" THEN <<Publish(desks)>> ELSE <<>>)

-----------------------------------------------------------------------------
(***************************************************************************)
(* The run                                                                 *)
(***************************************************************************)

NoReport == [run |-> 0]
NoLog    == [run |-> 0, calls |-> <<>>]
NoClaim  == [run |-> 0]

Init ==
  /\ host \in Hosts
  /\ run = 0
  /\ sized = [d \in Desks |-> 0]
  /\ script = <<>>
  /\ open = "run"
  /\ logs = [name \in LogNames |-> NoLog]
  /\ drafts = [d \in Desks |-> NoReport]
  /\ reports = [d \in Desks |-> NoReport]
  /\ claims = NoClaim

\* A replay needs a candidate on a CPI day, or a day without a grid note; the battery's
\* second world needs a schedule that discharges.
Start ==
  /\ script = <<>> /\ run < MaxRuns
  /\ run' = run + 1
  /\ \E desks \in {{"fx"}, {"battery"}, Desks}, n \in 0 .. MaxDecisions, m \in 0 .. MaxDays :
       \E fx \in {0, 2}, battery \in 0 .. 2 :
         /\ n = 0 => fx = 0
         /\ m = 0 => battery = 0
         /\ sized' = [d \in Desks |-> IF d = "fx" THEN n ELSE m]
         /\ script' = Script(host, desks, sized', [d \in Desks |-> IF d = "fx" THEN fx ELSE battery])
         \* a count is about a desk that runs
         /\ "fx" \notin desks => n = 0
         /\ "battery" \notin desks => m = 0
  /\ drafts' = [d \in Desks |-> NoReport]
  /\ UNCHANGED <<host, open, logs, reports, claims>>

Due(op) == script # <<>> /\ Head(script).op = op
Advance == script' = Tail(script)

\* Mutant of Opened: the log of an earlier run is kept, and appended to.
OpenedKept(log) == [run |-> run, calls |-> logs[log].calls]

\* Audit::to_file empties the file; Audit::new starts empty.
Opened(log) == [run |-> run, calls |-> <<>>]

OpenLog ==
  /\ Due("connect")
  /\ open' = Head(script).log
  /\ logs' = [logs EXCEPT ![Head(script).log] = Opened(Head(script).log)]
  /\ Advance
  /\ UNCHANGED <<host, run, sized, drafts, reports, claims>>

\* The call is answered, composed and recorded.
MakeCall ==
  /\ Due("call")
  /\ logs' = [logs EXCEPT ![open].calls =
                Append(@, [run |-> run, decision |-> Head(script).decision, stage |-> Head(script).stage])]
  /\ Advance
  /\ UNCHANGED <<host, run, sized, open, drafts, reports, claims>>

\* Mutant of Counted: four calls a decision, as the compliance summary has it.
CountedByStages(desk) == 4 * sized[desk]

\* Counts.jev_calls of a desk's report
Counted(desk) == Len(logs[open].calls)

CountCalls ==
  /\ Due("count")
  /\ drafts' = [drafts EXCEPT ![Head(script).desk] = [run |-> run, calls |-> Counted(Head(script).desk)]]
  /\ Advance
  /\ UNCHANGED <<host, run, sized, open, logs, reports, claims>>

\* How many decisions the ledger splits the cost over: the ids in the log.
Decided(calls) == {calls[i].decision : i \in DOMAIN calls} \ {NoDecision}

RenderReport ==
  /\ Due("render")
  /\ drafts' = [drafts EXCEPT ![Head(script).desk] =
                  [run |-> run, calls |-> @.calls, size |-> sized[Head(script).desk],
                   total |-> Len(logs[open].calls), decisions |-> Cardinality(Decided(logs[open].calls))]]
  /\ Advance
  /\ UNCHANGED <<host, run, sized, open, logs, reports, claims>>

\* DomainReport::write; on the server, the finished run.
PublishReports ==
  /\ Due("publish")
  /\ reports' = [d \in Desks |-> IF d \in Head(script).desks THEN drafts[d] ELSE reports[d]]
  /\ Advance
  /\ UNCHANGED <<host, run, sized, open, logs, drafts, claims>>

\* compliance_summary, once answered: four calls a candidate and five a day, whatever
\* was made.
SayForCompliance ==
  /\ Due("comply")
  /\ claims' = [run |-> run, calls |-> 4 * sized["fx"] + 5 * sized["battery"]]
  /\ Advance
  /\ UNCHANGED <<host, run, sized, open, logs, drafts, reports>>

\* The step is an error, or the process is stopped before it: nothing after it runs.
\* A log that was opened stays empty or cut short.
Stop ==
  /\ script # <<>>
  /\ script' = <<>>
  /\ \/ UNCHANGED <<open, logs>>
     \/ Due("connect") /\ open' = Head(script).log
        /\ logs' = [logs EXCEPT ![open'] = Opened(open')]
  /\ UNCHANGED <<host, run, sized, drafts, reports, claims>>

Next ==
  \/ Start \/ OpenLog \/ MakeCall \/ CountCalls \/ RenderReport
  \/ PublishReports \/ SayForCompliance \/ Stop

Spec == Init /\ [][Next]_vars

-----------------------------------------------------------------------------
(***************************************************************************)
(* Properties                                                              *)
(***************************************************************************)

LogOf(desk) == logs[IF host = "cli" THEN desk ELSE "run"]
StagesOf(calls, decision) ==
  LET of == At(calls, {i \in DOMAIN calls : calls[i].decision = decision})
  IN  [i \in DOMAIN of |-> of[i].stage]

\* The decision is the join key (README 247-251): at every moment the calls of one id
\* are the stages of one judgment, in their order and cut short at most for the last
\* one; and behind a report whose log still stands, each decision of the session has
\* all of them, although one log may hold two desks, their replays and the summaries.
DecisionsJoin ==
  /\ \A name \in LogNames : \A id \in Decided(logs[name].calls) :
       IsPrefix(StagesOf(logs[name].calls, id), Stages(id[1]))
  /\ \A d \in Desks : reports[d].run > 0 /\ reports[d].run = LogOf(d).run =>
       \A i \in 1 .. reports[d].size : StagesOf(LogOf(d).calls, <<d, i>>) = Stages(d)

\* A log holds the calls of the run that opened it and no other, and no report is
\* younger than the log beside it: after a run that failed the older report may
\* stand beside the newer log, never the other way round.
LogsAreCurrent ==
  /\ \A name \in LogNames : \A i \in DOMAIN logs[name].calls :
       logs[name].calls[i].run = logs[name].run
  /\ \A d \in Desks : reports[d].run <= LogOf(d).run

\* A report speaks of as many calls as were made before its summaries, all of them in
\* the log beside it; a desk alone in its log spent them on its own decisions and
\* nothing else, so the cost of a decision it prints is its own.
ReportsCountTheirCalls ==
  \A d \in Desks : reports[d].run > 0 =>
    LET r == reports[d] IN
      /\ r.total = r.calls + 2
      /\ r.run = LogOf(d).run => r.total <= Len(LogOf(d).calls)
      /\ host = "cli" => r.calls = Len(Stages(d)) * r.size /\ r.decisions = r.size

-----------------------------------------------------------------------------
(***************************************************************************)
(* What the compliance summary says and the logs do not bear out.          *)
(***************************************************************************)

\* "all {} typed calls are in decisions.jsonl" (report/src/explain.rs:133), said by the
\* summary of both desks of the calls it counts (run.rs:206, main.rs:171).
AllCallsAreLogged ==
  claims.run = run /\ run > 0 =>
    claims.calls <= IF host = "cli"
                    THEN Len(logs["fx"].calls) + Len(logs["battery"].calls) + Len(logs["all"].calls)
                    ELSE Len(logs["run"].calls)
=============================================================================
