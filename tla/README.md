# A verification of jev-demo

jev-demo is a Rust workspace with a web UI.  Two desks, forex and battery,
each put a candidate decision to a language model through typed primitives
(classify, check, rank, score, gate, explain), keep every call on an audit log,
and run each decision twice: as the solver alone would, and as the gate allows.
An HTTP server runs a desk in the background and answers the UI, which polls.

This directory models the parts of it whose correctness depends on order,
interleaving, failure or arithmetic at a boundary.  TLC checks the models on
small instances; TLAPS proves theorems about seven of them for every value of
their constants.  Paths below are relative to the repository.

    tlc -workers 2 -config RunStoreAnswers.cfg MCRunStore     one run
    tlapm RunStoreProofs.tla                                  the proofs of one module

## 1. Inventory

| Component | Source (`crates/...`) | State | Operations | Talks to |
|---|---|---|---|---|
| Run store and run handlers | `server/src/{store,routes,lib,dto}.rs` | counter, deque of run handles behind a mutex, state of each run behind its own | `create` with eviction, `get`, `list`, `remove`, `complete`, `fail`; the handlers of the router | spawns a task for each run; the UI polls it |
| Judgment pipeline | `jev-core/src/{pipeline,jev}.rs` | priors, open batch, slots, outputs to claim | `batch`, `add`, `send`, `take`, `reset`, `Jev::call` | awaits the backend, pushes to the audit log |
| Audit log and cost ledger | `jev-core/src/{audit,cost,client}.rs` | records behind a mutex, an optional file | `push`, `records_for`, `CostLedger::of` | shared by all handles of a run |
| Forex session | `fx/src/{lib,engine,features,judgment}.rs` | running book, queue of candidates, decision records | `run_session`, `judge`, `simulate`, `summarise` | two pipeline calls a candidate |
| Forex strategy | `fx/src/strategy.rs` | none | `generate` | gives the session its candidates |
| Battery solver, engine and session | `battery/src/{solver,engine,lib,judgment,features}.rs` | schedules, day records, price history | `solve`, `execute`, `stood_down`, `judge_day_as`, `run_session` | three pipeline calls a day |
| Primitives and verdict validation | `jev-core/src/{ask,policy}.rs`, `jev-core/src/primitives/` | none | `asks` and `compose` of six primitives, `validate_for`, the review policy | called by `Batch::send` |
| Mock backend | `jev-core/src/mock.rs` | none | a rule for each question the desks ask | answers the calls offline |
| Live backend | `jev-core/src/live.rs` | an HTTP client | translates answers to verdicts | an external service |
| Desk run | `server/src/run.rs`, `report/src/{lib,explain}.rs` | the audit log and reports of a run | sessions, reports, replays, the compliance summary | all of the above |
| Projections and reports | `server/src/project.rs`, `report/src/` | none | counts and tables of finished records | read the log |
| Synthetic worlds | `synth/src/` | a seeded generator | curves, windows, bars, calendar | read by the sessions |
| Command line | `cli/src/` | the output directory | `fx`, `battery`, `all`, `replay` | sessions, replays, reports |
| Web UI | `ui/src/{App.tsx,hooks,components}` | selection, last run and list fetched, banner | two polling hooks, launcher, select, forget | the HTTP API |

What is hard in it:

* **Interleaving.**  Handlers run on several workers; `create` takes its number
  before the store lock, holds that lock while it locks each run to find one
  that has finished, and runs finish in between.  `get_run` takes a run's lock
  twice, then the audit lock.  The spawned task races the 202 answer.
* **Partial failure.**  `connect` may fail after the run was registered.  A stage
  in the middle of a batch may fail to compose after the stages before it became
  priors.  The audit file may not be writable after the answer was composed.  A
  failed call loses its session but not the calls made before it.
* **Ordering.**  The page's GETs come back in any order, and the state each reply
  writes also decides whether the page asks again.
* **Stale state.**  Handles outlive deletion and eviction; the running book must
  forget what has closed; the features of the balanced schedule must be rebuilt
  when the ranking chooses another; a run that stops leaves its logs and the reports
  of an older one in one directory.
* **Boundaries.**  The reserve is checked at the end of the last covered hour as
  well; a signal may fall on the last bar; the percentile divides by one less
  than the history's length; an answer is judged as an `f64` and kept as an `f32`;
  the rules of the mock and of the desks share thresholds written down twice.
* **Liveness.**  A client polls until its run is not `running`; a task that never
  settles it leaves the client polling for ever.

What makes each part correct: the store loses no live run and answers truthfully
whatever interleaves (RunStore); the state of each call holds every earlier
output and nothing else, and what is handed out is on the log (Pipeline); the
ledger partitions the log; a candidate is judged against the book as it is
(FxSession); the solver's plan is the best its limits allow, remains feasible at
any size, and the check weighs what then runs (BatterySession); an output says
what the answers say, to their tolerance (Primitives); no rule of the gate is
outvoted towards risk (MockRules, MockDesk); calls join to decisions over all that
one log may hold (DeskRun); the page shows the run selected and comes to rest
(RunPolling).

`PROJECT.json` lists each hazard at its line with the properties that watch it.

## 2. Modules

    RunLifecycle  what the store promises
        ^ implemented by
    RunStore        server: store, handlers, tasks        RunStoreProofs
    RunPolling      ui: hooks, launcher, list             HostProofs
    DeskRun         server, cli: a run of both desks      HostProofs
    Pipeline        jev-core: pipeline, audit, ledger     PipelineProofs
    FxSession       fx: session, book, fills              FxSessionProofs
    BatterySession  battery: solver, engine, session      BatteryProofs
    Verdicts        jev-core: questions, answers, validation
    Prose           jev-core: the text of a summary, by its length
        ^ both extended by
    Primitives      jev-core: six primitives, policy      PrimitivesProofs
    MockRules       jev-core: the offline backend
        ^ extended, with Prose, by
    MockDesk        both desks judged by it               MockDeskProofs

    Places          the entries of a sequence at a set of its places
    FoldRules       laws of the folds, for the proofs

All but `RunLifecycle`, `Verdicts`, `Prose`, `MockRules` and `Places`, which are checked through the
modules that use them, and `FoldRules`, which has theorems only, have an `MC` module, which gives the constants of the module
it extends finite values.
Definitions whose comment begins "Mutant of" are not part of a model: each is a
plausible mistake in the definition that follows it, and the properties are
known to notice it (`PROJECT.json`, "mutants").

### RunStore

A client is a connection with one request in flight; its handler is a program
counter `pc[c]` with the locals it holds (`target`, `view`, `ledger`, `snap`,
`rows`).  One action is what a handler does between two lock acquisitions, since
another worker may run in any gap.  A run is its number.

| Code | Actions |
|---|---|
| `RunStore::create` | `TakeNumber` (before the lock), `Push` (lock, push), `ScanPast` / `Evict` (one run's lock each), `Unlock` |
| `start_run` | the above, then `Connect` or `ConnectFails`, `Spawn`, `Accept` (the 202 body) |
| `get_run` | `Find`, `ReadSummary`, `ReadOutcome`, `ReadLedger`, `Answer` |
| `fx_decision`, `battery_day`, `report` | `Find`, `ReadFinished`, `ReadLedger`, `Answer` |
| `list_runs` | `List` (clone the handles), `ListNext` (one summary), `Answer` |
| `delete_run` | `Delete` |
| the spawned task | `JudgeCall`, `Complete`, `Fail` |

The store mutex is free when no handler is at `"evict"`.  A run's own mutex is
only ever held within one action.  `deleted` and `doneAtLock` are history
variables: they are read by properties only.

### RunLifecycle

The same store without locks, deque or handlers: a run is registered, records
calls, settles once, and is dropped only if it has settled or a client removed
it.  `RunStore` implements it under the mapping `Life`: a run is `"unknown"` until
its push, then its status; `held` is the set of runs in the deque.

### Pipeline

Several pipelines over one `Jev` handle.  `Open`, `Add`, `Drop` and `Send` build a
batch up to the await; `CallFails`, `ComposeFails`, `RecordFails` and `Settle` are
the ways the answer may go, with exactly the state each leaves behind; `Take`
claims an output; `Reset` forgets the priors.  What follows the await is one step:
it touches only the pipeline, which is borrowed, and the audit mutex, once.  An
output is known by its batch and its place.  `claimed` is the places whose `Option`
`take` has emptied.  `Take` reads a slot's index and type only, as the code does; the
batch a slot came from, like `since` and `handed`, is there for the properties.
The ledger is a fold over the log, as in `CostLedger::of`.

### FxSession

`Take` is the head of the loop over the sorted queue (expire, build the input),
`Assess` and `Gate` the two calls; `Gate` also makes both fills and enters the gated
one on the book, as the code does with no await between.  A bar is whether its
range reaches the stop and the target, and the move of its close, chosen when the
fill is made; the strategy's prices are not modelled.  `Simulate` and `Summarise` are
the loops of `engine.rs` as folds; what the code filters is `At` a set of places
(`Places`), because `SelectSeq` has no definition the prover knows.

### BatterySession

`Dawn` builds the day (three schedules, features of the balanced one), `Read` is
the batch of regime and ranking with the rebuilt features, `Assess` the checks, `Gate`
the gate with both executions.  `Table` is the solver's table, a fold of `Row` from
the last hour backwards, ties broken as its loop breaks them; `Solve` walks it.
Stored energy is a node of the grid; an execution at a fraction counts quarters
of a node.  Money is scaled to whole numbers, so a comparison of worth is exact where the
code compares `f64`.  A behaviour picks one of `Worlds`, a sequence of curves, one a day;
the days share `history`, from which `Percentile` ranks the day's dispersion.

### Verdicts, Prose and Primitives

A probability is a whole number of parts of `Unit`.  `Single` is the cast to `f32`, a
monotone function within `Grain` of its argument, so that what an `f64` and its `f32` say of a
threshold may differ.  `ValidFor` is `Verdict::validate_for`: range, labels, sum, score against
mean, and confidence.  `Primitives` is one call of `Jev::judge` over several stages: `CallAsks` collects
the questions of specs that `Askable` admits,
`Hear` validates one answer at a time, `Compose` makes one output at a time, and each
may fail.  The backend is any set of `Answers`, valid or not.  `Prose` has a text as its length in
characters: a fact is a length and whether it ends its sentence, and `KeepFacts` is the loop that drops each fact
that would take a summary past `MAX_SUMMARY`.

### MockRules and MockDesk

`MockRules` states `mock.rs`'s rules in thousandths: a probability for each yes/no question, a
weight for each label, a fraction for each rubric, and the gate's `Rules`, a set of verdicts each
with the condition it applies under, of which `Decide` takes the most cautious.  `MockDesk` is
what the desks put to it: `FxFeatures` and `BatteryFeatures` compute the features from a
world (releases, legs, windows, notes, percentiles), and `ReadDay`, `AssessFx`, `AssessBattery` and
`Gate` are the stages of one decision with the priors each sees.  `ReplayFx` and `ReplayBattery` then
judge the decision again in the second world of the code's replay: without the
releases of the day, or with a grid note laid over the hours the chosen schedule
discharges.  `Explain` asks for the summary of a session: the framing, the severity and the facts at or above the threshold
(`included`), of which `Composed` tells those that there is room for (`told`), with the lengths of the desks' own
wording (`Lead`, `Phrase`) around the counts and the headlines of the caller.

### DeskRun

A run is its `script`, the sequence of steps `execute` or a command still has to take:
open a log, make a call, count the calls, render a report, publish, close with
the compliance summary.  `Stop` ends it before any step, as an error or a kill does.
The command line opens a log on disk for each part (`to_file` truncates) and
writes each report when it is rendered; the server keeps one log in memory and hands
over both reports with the finished run.  Logs and reports outlive a run of the
command line, so that the next one finds them.

### RunPolling

`wire` is the bag of GETs that are out.  `Answer` fixes what a reply says, `Deliver` runs the hook
that awaited it, and any two may be in any order; `Lose` turns a request into an error.
`Tick` and `ListTick` are the two intervals, with the guards the effects have: the last
view says `running`, the last list has a run that is.  `Post` ... `Started` and `Forget` ... `Forgotten`
are a request and what its answer does to the page.  The store is reduced to the life of each run.
Its specification is `PageSpec`, as `HostProofs` extends this module together with `DeskRun`.

## 3. Runs

| Run | Instance | Question |
|---|---|---|
| `RunStoreEviction` | 2 clients, capacity 1, 3 runs, no calls | What does eviction take, in which order, and when may the store stay over capacity? |
| `RunStoreAnswers` | 2 clients, capacity 1, 2 runs, 1 call | Are answers true while runs record, finish, and are deleted or evicted between a handler's reads?  Do all tasks settle their run and all POSTs leave the locked loop?  Is the store a `RunLifecycle`?  Is `IInv` an invariant? |
| `Pipeline` | 3 pipelines (two decisions and one without), 2 batches of up to 2 stages, 2 slots | What is in the state of a recorded call, whatever failed before it?  Is what a caller is handed on the log, and handed once?  Does the ledger partition the log? |
| `FxSessionTrades` | 3 candidates of 5 signals, 4 bars | Which book is a candidate judged against; are fills and drawdown right; does the log join to the decisions? |
| `Battery` | 1 day of 4 hours, every curve over 3 prices, 4 windows; and 4 worlds of 3 days | Is the plan the best allowed; does it stay feasible at every size; does the reserve-heavy plan keep the reserve; do the features weighed describe what runs? |
| `Primitives` | 5 calls that ask every primitive (and 2 specs refused before), answers at and beyond each tolerance | What is refused, what do the outputs say of the answers, what is sent to review? |
| `MockDesk` | worlds on both sides of each threshold of the rules | Do the offline answers stand; does the gate heed the checks; does the replay show what decided? |
| `DeskRun` | both hosts, 2 runs, up to 2 candidates and 2 days | Whose calls are in which log beside which report, wherever a run stops? |
| `RunPolling` | 2 runs, 2 requests out, 1 lost | Does the page show the run selected, and does it come to rest? |
| `RunStore_RunningHasJob` | as `RunStoreAnswers`; violated | A run without a task stays `running`. |
| `DeskRun_AllCallsAreLogged` | as `DeskRun`; violated | The compliance summary counts calls that no log holds. |
| `RunPolling_ListPolledWhileJudging` | 3 requests out, none lost; violated | A late list reply ends the polling. |

**Store.**  `NoLiveRunLost`: a registered run leaves the store unfinished only when a
client deleted it.  `EvictionOrder`: nothing older that had finished when the lock was
taken is passed over.  `OverflowJustified`: a create that leaves the store over capacity
has evicted all that had finished when it took the lock (a run that finishes behind
the scan is not seen, and the code does not promise it).  `FinalAnswers`: a summary or
result that says a run is over counts every call it will ever make.
`ResultMatchesStatus`: across the two locks of `get_run`, a done summary comes with a
result and a failed one without; a running one may come with either.
`FinishedIsFinal`, `ImplementsLifecycle`: as above.  `JobsFinish`, `StartsAnswered`: the two
things that must happen.  `IInv` is the invariant of section 4, with `TypeOK`, `ListedOnce` (no
run is in the deque twice, none returns once deleted) and `OneEvictor` (one `create` at a time is
inside the locked region) among its conjuncts.

**Pipeline.**  `StagesSeeEarlier`: the state of a recorded call holds the outputs of all
earlier recorded calls of its pipeline since the last reset, whole and in order,
and nothing foreign; outputs of a batch that answered but was not recorded may
be among them, which is what the code does.  `HandedIsAudited`, `HandedOnce`: what `take` gives
is an output of a call on the log, and gives it once, whatever slots the caller kept.
`LedgerPartitions`: each call is counted under one decision, or under none if it names none.

**Forex.**  `JudgedBook`: exposures are the starting book plus the gated fills still
open, at the size the gate left.  `FillsFair`: first touch decides, the stop before
the target, else the holding limit or the end of the data; the gated fill differs
in size only.  `DrawdownIsWorstFall`: the running computation against the definition
over all pairs of levels.  `AuditJoins`: each decision has its two calls in order, a
failed one at most its first.

**Battery.**  `PlanIsBest`: the table against an enumeration of every allowed walk.
`SmallerIsAsFeasible`: a reduced plan stays in its band, and misses the reserve in no
hour the whole plan would not.  `ReserveHeavyHolds`: at every size, held and paid.
`RuleForesees`: the features weighed describe the schedule that runs, and report a dip
exactly when running it whole breaches.

**Primitives.**  `RefusedOnlyAtTheEdge`: when every answer is valid, a call fails only on a
reduce whose size is nothing or everything once cast.  `LabelNearTop`: nothing in the
evidence outweighs the label by more than the tolerance and the casts.
`NearThresholdIsReviewed`: a check whose recorded `f32` reads on the other side of the threshold
than its outcome, which came from the `f64`, is flagged for review.  `RankFollowsRatings`: a
permutation of the candidates, by rating, ties in their order.  `ScoreFaithful`: the mean to its tolerance,
the strongest drivers that hold.  `SummaryIsFull`: a summary with facts fits uncut, and a fact left
out would not have fitted.

**Offline backend.**  `AnswersStand`: every answer passes validation, and action and size, asked
as two questions, agree.  `GateHeedsChecks`: a failed check never goes on at full size.
`EventDecidesReplay`: a release within three hours and a tight stop hold the candidate, and without
the release something goes on; a release never makes a decision bolder.  `ChosenKeepsReserve`: the
schedule ranked first never breaches a reserve that is owed.  `SummaryTellsEscalations`: for every
audience, the lead says that a decision went to a human where one did and only there, and is read whole; the fact
that says how many is chosen in the same sessions, and left out only where it would not fit beside what is told before it.

**Desk run.**  `DecisionsJoin`: the calls under one id are the stages of one judgment, in order, and
behind a report whose log stands they are all there.  `LogsAreCurrent`: a log holds one run's calls,
and no report is younger than its log.  `ReportsCountTheirCalls`: a report counts the calls before
its summaries; a desk alone in its log prints the cost of its own decisions.

**Page.**  `ViewIsOfSelection`: in whatever order replies come, the run shown is the one
selected.  `RunSettles`: a run left open ends up shown finished for good, or a banner is up.
`ListSettles`: no run stays `running` in the list for ever.

### Bounds

Every bound is a constant marked `bound` in its module, or a set its `MC` module names.

* *Store.*  With capacity 1, the second create already scans and evicts, and the third
  finds a store left over capacity by the second; two clients are the fewest that race in
  `create`, and a client can be anywhere in a read while the other evicts or deletes what it
  reads.  One call lets a run record between two reads of it and after them.
* *Pipeline.*  Two batches are one that failed or was recorded and one that sees what it left; two
  stages give a composing failure something before it; two slots over two batches include
  two of one index, claimed from either.  All stages have one name, so that two of a kind
  ask a question twice and two of different kinds do not.
* *Forex.*  Three candidates and a holding limit of two bars put an exit before, at, and after a
  later candidate; two signals share a bar and one falls on the last.
* *Battery.*  Four hours with windows at the start, the middle and the end of what the generator
  can give, and three prices, one negative, make the plan charge, hold and discharge; the constants
  of the grid keep the order of `BatterySpec`'s (bands nest, the reserve lies between the highest floor
  and the start, an hour discharges more than it charges).  Three days are the fewest for the
  percentile to use a history of two; their four worlds rise, fall and mix in dispersion.
* *Primitives.*  `Unit` is 300 and an `f32` a multiple of 3, so the values next to each threshold
  round across it; every tolerance (0.01 is 3, 0.05 is 15) is met and just missed.  Three labels, three
  candidates, four drivers and three facts are one more than what the code keeps of each, or
  enough for an order.
* *Mock desk.*  Each threshold of a rule is met and just missed in some world; releases fall
  before, at, within three and after three hours of a candidate, on its day and the next; notes
  and discharges overlap or not for each schedule.  Sessions count none, a few and up to three digits of
  everything; a caller's subject and headlines have the lengths of each of the three summaries the hosts
  ask for, and the limit is the code's 300, so that the escalations fact fits in some sessions and not in others.
* *Desk run.*  Two runs put an older report or log beside a newer one; two decisions and two
  days show an order among them; a replay makes up to two more worlds.
* *Page.*  Two requests out are the fewest that come back reordered, and two runs the fewest
  whose replies are confused.

`CHECK_DEADLOCK FALSE`: the bounds end every behaviour, a session or call is over after its last
step or its first failure, and a server or a page with no requests rests.

### Fairness

`RunStoreAnswers`: weak fairness of each handler past its first step: tokio polls a ready task
again, and a step of a handler waits only for the store mutex, which the locked loop gives up
after finitely many steps.  Weak fairness suffices for `Push`, as the mutex can be taken
from a waiting `create` only finitely often before the counter's bound is reached; in the unbounded
program the same relies on the fairness of the mutex.  Weak fairness of each task, on the
assumption that the backend answers every call or fails, as the mock does; for the live
backend that is up to the service and its client, since nothing in the workspace sets
the per-call timeout `live.rs` offers (`live.rs:59`).  Requests are not fair: no client needs to ask.

`RunPolling`: weak fairness of `Answer`, `Deliver` and `Started` (a request that is not lost is answered
and its reply is handled), and of `Finish`, which is `JobsFinish` of the store.  That last one
does not hold of a run without a task (`RunStore_RunningHasJob`): a page that shows such a
run polls it for ever.  `Tick` and `ListTick` are strongly fair, because `MaxFlight` closes their guard now and then;
the browser's interval has no such guard and would need weak fairness only.  What the reader does is not fair.

The other runs check safety and assume no fairness.

### What disagrees with its description

The violated runs are recorded under "findings":

* `start_run` registers the run, then calls `connect`.  If that fails (`routes.rs:111`)
  the client gets an error while the run is listed as `running` for good, cannot be
  evicted and counts against the capacity.  `dto.rs:88` says that calls rise
  while a run is running.
* `compliance_summary` (`run.rs:206`) and `run_all` (`main.rs:171`) give the summary four calls a candidate and
  five a day; the desks make two and three.  The summary says "all {} typed calls are in
  decisions.jsonl" (`explain.rs:133`) of a number that no log reaches.
* `refresh` writes whichever list reply comes last (`useApi.ts:49`).  An older one that shows nothing
  running ends the interval, and a run this page started is neither listed nor polled for, where
  `useApi.ts:40` says the list is refreshed "while anything is still judging".

Seen while modelling and not given runs:

* *Server.*  The 202 body may already say `done` or `failed` (`routes.rs:95` says `running`); a result may
  accompany a `running` summary (`dto.rs:104`); the deque may hold a later number before an earlier one
  (`store.rs:93`, "newest last"); a store may rest above its capacity until the next create
  (`store.rs:102`); a graceful shutdown awaits connections and not the spawned tasks (`main.rs:94`);
  a replay that fails discards the finished session and its report (`run.rs:110`), which the command
  line has written by then; `report.md` of a run of both desks counts both desks' calls, so it is not
  "byte for byte" what the CLI writes (`client.ts:117`).
* *Pipeline.*  A slot is an index and a type (`pipeline.rs:276`), so one of another batch claims what
  lies at its index when the types agree; `tests/pipeline.rs:290` says it is refused.  A batch
  that was answered but failed to compose or be written is on no log (`audit.rs:1`).
* *Primitives.*  The reason of a classification prints the first probability of the distribution as the
  label's own (`classify.rs:124`), which differs when the label is not the likeliest.
* *Battery.*  `percentile` (`features.rs:173`) divides the count of smaller past values by one less than their
  number, though the value is not among them: the most dispersed day of a short history gets
  2.0, where the comment says `0..=1`.  The regime is read from the balanced schedule's features and kept when the
  ranking chooses another (`judgment.rs`).  `count_breaches` counts one hour more than the window
  has (`engine.rs:131`); a day stood down reports its reserve held (`engine.rs:121`).
* *Reports.*  The summary for compliance that closes a run never has the sentence that counts the escalations: behind its
  subject, its lead and the three facts always chosen for compliance before it there is no room for it within 300 characters
  (`explain.rs:318`), so the summary tells of them by its lead alone, while the log has the fact affirmed.
* *Forex and reports.*  `without_events_on` drops the day's informative headlines too, where its comment says
  only the calendar changes (`fx/src/lib.rs:315`).  "Held or sized down" counts every intervention, a schedule that was only exchanged
  included (`explain.rs:123`).
* *Page.*  A `DELETE`'s answer closes whichever run is open by then; a banner stays up when
  another run is selected, until its reply (`useApi.ts:92`).

## 4. Proofs

Each theorem holds for every value of its module's constants, on the assumptions named
there, and on nothing else: no theorem about a specification has a hypothesis of its own.  TLC evaluates the
assumptions for the constants of each run.  They are types and bounds (`CapacityAssumption`,
`BoundsAssumption`, `TimeAssumption`, `LimitsAssumption`, ...) but for these, which the code sees to:

* `StartAssumption`, `GridAssumption`, `BandAssumption` of `BatterySession`: `BatterySpec` opens a day inside every
  band and at or above the reserve (`solver.rs`, `synth`).
* `SignalAssumption` of `FxSession`: no two signals of a pair at one bar; a pair's generator makes one a bar.
* `ThresholdAssumption` of `Primitives`: the review band is wider than the threshold by more than the cast
  moves a value; `SingleAssumption` of `Verdicts`: the cast is monotone and moves it by `Grain` at most.
* `ListingAssumption` of `Primitives`: an answer's distribution lists each of its labels once, as a map with
  its keys does.
* `RoomAssumption` of `MockDesk`: a subject has 60 characters at most (the longest of the hosts has 33) and a summary
  has room for 200, so that a lead is never cut.
* `FxWorldAssumption` of `MockDesk`: a calendar is sorted and its releases print between eight and two
  (`generate_calendar`: 8, 12 or 14 hours), so that one of another day is not imminent.
* `BatteryWorldAssumption`: the reserve-heavy schedule does not dip (its floor is the reserve, `ReserveHeavyIsPaid`).
  `SessionAssumption`: escalations are among the interventions, and these among the decisions.
* `ThresholdAssumption`: any threshold that tells the yes of each rule from its no, the code's 0.5 among them;
  `GrainAssumption`: the tolerance of a sum exceeds what rounding four shares loses.

| Module | Theorem | States |
|---|---|---|
| `RunStoreProofs` | `Inductive` | `Safety => []IInv` |
| | `TypeCorrect` | `TypeOK` always |
| | `LiveRunsKept` | `NoLiveRunLost` always |
| | `DequeSound` | `ListedOnce` and `OneEvictor` always |
| | `AnswersFinal` | `FinalAnswers` always |
| | `AnswersMatch` | `ResultMatchesStatus` always |
| | `FinishedFrozen` | the action property `FinishedIsFinal` |
| | `OldestGoesFirst` | the action property `EvictionOrder` |
| | `OverflowIsLive` | the action property `OverflowJustified` |
| | `Implements` | every behaviour of the store is one of `RunLifecycle` |
| `PipelineProofs` | `HandedOutOnce` | `HandedOnce` always |
| | `TypeCorrect` | `TypeInv` always: `TypeOK`, and the shape of an open batch |
| | `HandedOnRecord` | `HandedIsAudited` always |
| | `EarlierSeen` | `StagesSeeEarlier` always |
| | `LedgerIsSplit` | `LedgerPartitions` always |
| `FxSessionProofs` | `LogJoins` | `AuditJoins` always |
| | `TypeCorrect` | `TypeOK` always |
| | `FillsAreFair` | `FillsFair` always |
| | `DrawdownsAreWorst` | `DrawdownIsWorstFall` always |
| | `BooksAreJudged` | `JudgedBook` always |
| `BatteryProofs` | `SolverIsBest` | the plan of `Solve` keeps to the limits, and none that does makes more |
| | `SmallerStaysFeasible` | a share of a schedule stays in its band, and is short of the reserve only where the whole is |
| | `SmallerBreachesNoMore` | so it breaches in no more hours |
| | `SmallerIsAsFeasibleHolds` | `SmallerIsAsFeasible` always |
| | `ReserveHeavyIsPaid` | `ReserveHeavyHolds` always |
| | `DipForeseesBreach` | `RuleForesees` always |
| | `PlansAreBest` | `PlanIsBest` always |
| | `SessionTypes` | `TypeOK` always |
| `PrimitivesProofs` | `CrossingsAreReviewed` | `NearThresholdIsReviewed` always |
| | `RefusalsAreAtTheEdge` | `RefusedOnlyAtTheEdge` always |
| | `LabelsAreNearTop` | `LabelNearTop` always |
| | `RankingsFollow` | `RankFollowsRatings` always |
| | `ScoresAreFaithful` | `ScoreFaithful` always |
| | `SummariesAreFull` | `SummaryIsFull` always |
| | `TypeCorrect` | `TypeOK` always |
| `HostProofs` | `ScriptIsText` | every script a run may start with is in good order (`Text`) |
| | `ScriptInvariant` | `ScriptInv` always: how far in its script a run is, and what its steps have left |
| | `DecisionsStayJoined` | `DecisionsJoin` always |
| | `LogsStayCurrent` | `LogsAreCurrent` always |
| | `ReportsCount` | `ReportsCountTheirCalls` always |
| | `ViewFollowsSelection` | `ViewIsOfSelection` always |
| `MockDeskProofs` | `DecideIsMostCautious` | the gate's verdict is a rule that applies, and none that applies is more cautious |
| | `DecisionIsConsistent` | its action and size agree |
| | `FailedChecksCount` | what each failed check does to it |
| | `RunInvariant` | `RunInv` always: what each stage of a run is shown, and which gates it has passed |
| | `AnswersAlwaysStand` | `AnswersStand` always |
| | `GatesHeedChecks` | `GateHeedsChecks` always |
| | `EventsDecideReplays` | `EventDecidesReplay` always |
| | `ChosenAlwaysKeepsReserve` | `ChosenKeepsReserve` always |
| | `SummariesTellEscalations` | `SummaryTellsEscalations` always |
| `FoldRules` | `LeftAppend` | a fold over one entry more applies its operator once more |
| | `AtConcat` | the entries at a set of places, of a sequence with another put after it |
| | `FlattenOneMore` | flattening one sequence more puts its entries at the end |
| | `LeftKeeps` | what a fold keeps that appends an entry only where the result fits |

**Store.**  None of the properties is inductive alone.  A second push of one run would break
`ListedOnce`, so a run being started must belong to one handler and be in nobody else's
sight until its push (`StartShape`); that the number taken is fresh needs the counter to
separate the runs that exist from those that do not (`CounterShape`).  `NoLiveRunLost` rests on
the scanned run being finished, which `Evict` reads and no step undoes.  What a handler
read must still be true steps later, while the run goes on: that holds for a
summary that says the run is over, because a finished run has no task and so no
more calls (`ReadShape`, with `HandlerShape` saying which handlers hold what).  `IInv` is the
conjunction of these with `TypeOK`, `ListedOnce`, `OneEvictor`, `NoLiveRunLost` and
`ScanShape`: what lies behind an eviction's scan had not finished when the lock was taken,
from which the two action properties of eviction follow.

The proof of a step goes conjunct by conjunct (`TypeStep`, `CounterStep`, `StartStep`,
`DequeStep`, `ReadStep`, `ScanStep`), within each by action; steps that touch none of the state a
conjunct reads are disposed of together (`Quiet`).  Lemmas give what the library's
`RemoveAt` and `Reverse` do to a sequence.  `Implements` maps the first state to the first state of
`RunLifecycle`, and each action to one of its steps (`Push` to `Register`, `Evict` to `MakeRoom`, `Delete` to
`Forget`, the task's to `Record` and `Settle`) or to none.

**Pipeline.**  `HandedOutOnce` needs that a batch's outputs lie at their own index
(`PlacedResults`) and that every place handed out is claimed and of its slot's type (`HandedClaimed`): with
`HandedOnce` they make the inductive `SlotInv`.  `HandedOnRecord` carries that what a caller has taken, or
may take, is on the record of its batch (`HandedRecorded`, `ResultsRecorded`) and that a batch has at most one
record, made when it ends (`OneRecord`), and uses `TypeInv` for the shape of what is composed.

`EarlierSeen` is proved in two parts.  That the state of a recorded call holds each earlier output of
its pipeline, and nothing of its own batch, of a later one, of another pipeline's record or of before the
reset, is `PriorsInv`, which says where these come from: the priors hold what was recorded since the
reset (`PriorsHold`) and are of ended batches of their own pipeline (`PriorsOwn`), the state of a call that is
out is the priors as they still are (`StateIsPriors`, which is what borrowing the pipeline across the await
gives), and no open batch is in any state on the log (`OpenIsUnseen`).  That they are whole and in order
is `OrderInv`: what the log says of a pipeline (a selection, flattened) is what is found in the priors
when the entries of batches that are on no log are passed over.  `LedgerIsSplit` reads the ledger's fold off the
log one record at a time (`LedgerInv`): a record adds to the row of its decision, or makes one at the end.

**Forex.**  `AuditJoins` is inductive once log and decisions are known to be sequences (`Lists`); the work is
in the two steps that append to them, for which `Grows` says what an appended entry leaves in place.
`FillsFair` is of `Simulate`: until a bar ends the trade the loop carries it open, and from
then on it carries the fill unchanged.  The drawdown's fold carries the sum so far, the highest level
and the worst fall, which are what they are called at each step.  `JudgedBook` sums the decisions
that entered and have not closed; the code keeps a list that is appended to and filtered.  `BookInv` says the list is
the entries of `decisions` at some set of places (`Holds`), those entered whose exit the last `expire` did not
reach; sums over a set of places are independent of their order (`IterAnyLast`), and the queue is sorted, so that
what one `expire` dropped no later one would keep.

**Battery.**  `SolverIsBest` reads the table off its fold, from the last hour backwards: an entry of a row is the most
that any walk of the remaining hours makes from that node, if there is a walk, and the walk by the table
makes that much.  The engine then needs less: a share of a movement lies between standing still and the whole of it, and the start of
the day is inside every band (`StartAssumption`), so an hour of the gated
run is between the start and the plan, both of which the band allows (`SmallerStaysFeasible`).  For the
reserve-heavy schedule the floor is the reserve through the window and at the end of its last hour, so it
is short in none of the hours the engine counts; and the features look at the same hours, so a
dip is a breach.  `DayInv` carries to the end of the day that the plans are the solver's (`PlansSolved`), that the
features weighed are the chosen schedule's and that the runs are of the plans it was judged on.

**Primitives.**  A value on one side of the threshold whose cast is on the other lies within `Grain` of it, and
the review band is wider than that.  `CallInv` carries that each answer heard fits the question in its place and
each output is what its stage composes from them; the questions of a call are a fold that keeps the first of
each name, so a stage finds its own question under the name it asks it by.  The rest are
theorems about `Compose`: the insertion sort of a ranking is a permutation that
keeps the order of equals; the mean of a distribution whose sum is within tolerance is
within tolerance of the score; a driver left out is outweighed by as many as are kept; the fold over facts fits each it keeps and no
fact it left out would have fitted (`LeftKeeps`).

**Folds.**  `FoldRules` has a parameter for the operator of a fold: an instance of it with that operator gives its
laws as facts to cite.  The library states induction over numbers with an operator
parameter, which no installed prover can instantiate; `NatSetInduction` states it of a set, from the
library's well-founded induction, and each law is an induction over a set of lengths.  What a fold goes
through is a function of its steps (`FoldLeft`, `MapThenFoldSet` and `FlattenSeq` are defined by one), from which its value
for one entry more follows.  `At` is defined by counting places, so that its laws are those of counting.

**Desk run.**  What a log holds follows from no step alone: a report's count is right because the session before it
in the script is whole and the log it counts was opened right before that.  So the proof is of the script first.
`ScriptIsText` shows, for either host, any choice of desks and any number of decisions and worlds, that it is in
good order: the stages of a decision stand side by side (`Chained`); no step but the question of a summary is taken
twice, so that no log is opened and no id judged twice (`Once`); a count has the whole session of its desk
before it, on the command line with nothing but the opening of its log before that, and two summaries and the
report behind it (`Reported`, `Rendered`); and what is published was rendered (`Backed`).  Each of these is shown of a session (an induction over
its decisions, `Judgments`) and is kept when parts with different steps are put one after the other (`PartJoin`).

`ScriptInv` then says of a run under way that what is left of its script is some text without its first `k` steps, and what
those `k` steps have led to (`After`): the open log is the one opened last and its calls are the steps since (`OpenGood`,
`Follows`); a report that was begun is of this run, and the summaries made since lie between its count and the length of its
log (`DraftGood`); and where a report of this run stands, its log was opened by this run.  The last is what a new opening needs: it empties the
log of an earlier run's report only, of which no more is claimed.  Of every log and every report, of this run or before, it says
what the properties need (`RecordsGood`), so that it holds when a run is cut short and the next one starts.  There is a lemma for each
step (`OpenLogKeeps` ... `StartKeeps`).  `DecisionsJoin` speaks of the calls with one id, selected from a log: side by side and never
twice, they are an interval of it that starts with the first stage (`PlacesOf`), and a selection at an interval is
read off it (`AtInterval`).

**Page.**  `ViewIsOfSelection` is inductive: a selection that changes clears the view (`OpenClears`), and a
reply is written only if it is for the selection (`ReplyIsWanted`).

**Mock.**  The rules come to six verdicts, which their caution orders totally; any set of them
with `Execute` in it has a most cautious one, so `Decide`'s choice exists and is at least as cautious as each
rule that applies.  An answer is made of weights: the shares of three or four of them, each rounded down, lose
less than a thousandth apiece, so a distribution sums to one within tolerance and its heaviest label is the
likeliest (`ChoicesStand`); the masses of a score lie on two neighbouring levels and their mean is the position
they were made from (`ScoreStands`).  Both hold for any market whose observations have their types (`Observed`),
which is what the desks' features are.  `RunInv` says that a run has not failed and what its gates are: those of
the forex desk are a function of the world (`FxGate`), those of the battery are heeded checks of the schedule
chosen.  That a release only adds caution then compares two worlds: the one without the day's releases has its next release
no sooner and more than eight hours off (`EventComesSooner`), hence no larger a risk, hence a rule for each of its own
that is as cautious (`ReleasesDecide`), and the sizes keep that order through the cast (`SizeKeepsOrder`).
A summary's subject, lead and severity come to fewer characters than its limit whatever the counts (`LeadHasRoom`), and
what is told is what `LeftKeeps` says the fold keeps of the facts included, read for the place of the escalations fact (`WordedKept`).

TLC checks `IInv`, and the properties the other theorems state, before they are proved.

Only model-checked: liveness and the fairness it rests on (the prover has no rule for `ENABLED`).  Every invariant and
every safety action property of the passing runs is a theorem.  No module uses `RECURSIVE`.

## 5. Not modelled

* *Forex strategy*: signals, averages and stops are floating-point functions of the bars; `FxSession` takes
  any set of signals, and `MockDesk` any features they may come to.
* *Synthetic worlds*: seeded floating-point generators; the models take their products as
  bounded sets, and the asset's constants as assumptions.
* *Live backend*: an external service behind an HTTP client.  Its failures and answers are those of `Primitives`
  (`Unanswered`, `Translate`), `Pipeline` and the tasks of `RunStore`.
* *Projections and reports*: tables and views are formatting of finished records; `DeskRun` has what they count.
* Parts of the components above: the read-only audit endpoints, `health`, `config`,
  `prompts`, request validation (they change nothing); rates and prices of the
  ledger; intraday prices and totals of the battery; scorecards; the mock's hash for names no desk asks and
  its token counts; the wording of instructions and reasons, JSON schemas; the page's detail panels.
* Process exit: nothing of a run outlives the server's process.

## 6. Plan

The order was that of importance: the store first, since everything a user sees passes it and it
is the concurrent part; then the pipeline, whose promise about priors and log is the
repository's central claim; the two desks; then what they are made of (`Verdicts`, `Primitives`,
`MockRules`, `MockDesk`) and what is made of them (`DeskRun`, `RunPolling`).  Next:

1. `RunPolling` over `RunStore` itself in place of its summary, with the page as one of the clients.
2. The scorecards and the energy margin of the battery, once intraday prices are abstracted.
