------------------------------ MODULE RunStore ------------------------------
(***************************************************************************)
(* The run store of the HTTP server (crates/server/src/store.rs) with the  *)
(* handlers of routes.rs that use it and the tasks they spawn.             *)
(*                                                                         *)
(* A run is named by the number RunStore::create takes from the counter.   *)
(* A client is one HTTP connection: it has one request in flight at a time *)
(* and its handler runs on any worker thread, so every lock acquisition of *)
(* a handler is a step of its own.  `runs` is the VecDeque behind the      *)
(* store mutex; the mutex is held over several steps only by the eviction  *)
(* loop of create, which locks each run's own state while it scans.        *)
(***************************************************************************)
EXTENDS Naturals, Sequences, SequencesExt

CONSTANTS
  Clients,    \* HTTP connections
  Capacity,   \* ServerConfig::run_capacity
  MaxRuns,    \* bound: runs created in a behaviour
  MaxCalls    \* bound: calls a run's task records

ASSUME CapacityAssumption == Capacity \in Nat
ASSUME BoundsAssumption == MaxRuns \in Nat /\ MaxCalls \in Nat

VARIABLES
  counter,      \* RunStore.counter: the number the next run takes
  runs,         \* RunStore.runs: the deque, oldest push first
  status,       \* RunHandle.state of each run, "absent" before it is created
  audit,        \* how many calls the run's audit log holds
  job,          \* the task judging the run
  deleted,      \* runs a client removed (history)
  doneAtLock,   \* runs finished when the evicting create took the lock (history)
  pc,           \* where each client's handler is
  target,       \* the run whose handle it holds, 0 for none
  scan,         \* position of the eviction scan
  view,         \* the summary read for the answer under way
  ledger,       \* calls in the cost ledger of the result, or NoResult
  snap,         \* the handles a list request cloned
  rows          \* the summaries it has read so far

store == <<counter, runs, deleted, doneAtLock>>
life  == <<status, audit, job>>
reply == <<view, ledger, snap, rows>>
vars  == <<store, life, pc, target, scan, reply>>

Run      == 1 .. MaxRuns
Kept     == IF Capacity = 0 THEN 1 ELSE Capacity     \* capacity.max(1)
Finished(s) == s \in {"done", "failed"}
NoResult == MaxCalls + 1

Status  == {"absent", "running", "done", "failed"}
Summary == [run : Run, status : Status, calls : 0 .. MaxCalls]
NoView  == [run |-> 0, status |-> "absent", calls |-> 0]

\* RunHandle::summary: the status and the length of the audit log, read under
\* the run's own lock.
SummaryOf(r) == [run |-> r, status |-> status[r], calls |-> audit[r]]

Starting == {"create", "evict", "connect", "spawn"}
PC == Starting \cup {"idle", "started", "accepted", "found", "summed", "priced",
                     "viewed", "listing", "listed"}

Listed    == {runs[i] : i \in DOMAIN runs}
StoreFree == \A c \in Clients : pc[c] # "evict"

TypeOK ==
  /\ counter \in 1 .. MaxRuns + 1
  /\ runs \in Seq(Run)
  /\ status \in [Run -> Status]
  /\ audit \in [Run -> 0 .. MaxCalls]
  /\ job \in [Run -> {"none", "judging", "ended"}]
  /\ deleted \subseteq Run
  /\ doneAtLock \subseteq Run
  /\ pc \in [Clients -> PC]
  /\ target \in [Clients -> Run \cup {0}]
  /\ scan \in [Clients -> Nat]
  /\ view \in [Clients -> Summary \cup {NoView}]
  /\ ledger \in [Clients -> 0 .. NoResult]
  /\ snap \in [Clients -> Seq(Run)]
  /\ rows \in [Clients -> Seq(Summary)]

Init ==
  /\ counter = 1
  /\ runs = <<>>
  /\ status = [r \in Run |-> "absent"]
  /\ audit = [r \in Run |-> 0]
  /\ job = [r \in Run |-> "none"]
  /\ deleted = {}
  /\ doneAtLock = {}
  /\ pc = [c \in Clients |-> "idle"]
  /\ target = [c \in Clients |-> 0]
  /\ scan = [c \in Clients |-> 0]
  /\ view = [c \in Clients |-> NoView]
  /\ ledger = [c \in Clients |-> NoResult]
  /\ snap = [c \in Clients |-> <<>>]
  /\ rows = [c \in Clients |-> <<>>]

Goto(c, from, to) == pc[c] = from /\ pc' = [pc EXCEPT ![c] = to]

-----------------------------------------------------------------------------
(***************************************************************************)
(* POST /api/runs                                                          *)
(***************************************************************************)

\* Mutant of TakeNumber: the number is read and never advanced.
TakeNumberAgain(c) ==
  /\ Goto(c, "idle", "create")
  /\ counter <= MaxRuns
  /\ target' = [target EXCEPT ![c] = counter]
  /\ status' = [status EXCEPT ![counter] = "running"]
  /\ UNCHANGED <<store, audit, job, scan, reply>>

\* create, up to the lock: the number is taken before the mutex is.
TakeNumber(c) ==
  /\ Goto(c, "idle", "create")
  /\ counter <= MaxRuns
  /\ counter' = counter + 1
  /\ target' = [target EXCEPT ![c] = counter]
  /\ status' = [status EXCEPT ![counter] = "running"]
  /\ UNCHANGED <<runs, deleted, doneAtLock, audit, job, scan, reply>>

\* Lock the deque and push the handle; the lock stays held.
Push(c) ==
  /\ StoreFree
  /\ Goto(c, "create", "evict")
  /\ runs' = Append(runs, target[c])
  /\ scan' = [scan EXCEPT ![c] = 1]
  /\ doneAtLock' = {r \in Run : Finished(status[r])}
  /\ UNCHANGED <<counter, deleted, life, target, reply>>

OverCapacity == Len(runs) > Kept

\* One step of `runs.iter().position(|r| r.finished())`: not finished.
ScanPast(c) ==
  /\ pc[c] = "evict"
  /\ OverCapacity
  /\ scan[c] <= Len(runs)
  /\ status[runs[scan[c]]] = "running"
  /\ scan' = [scan EXCEPT ![c] = @ + 1]
  /\ UNCHANGED <<store, life, pc, target, reply>>

\* Mutant of Evict: the oldest run goes, finished or not.
EvictOldest(c) ==
  /\ pc[c] = "evict"
  /\ OverCapacity
  /\ runs' = Tail(runs)
  /\ scan' = [scan EXCEPT ![c] = 1]
  /\ UNCHANGED <<counter, deleted, doneAtLock, life, pc, target, reply>>

\* Mutant of Evict: the deque is searched from its newest end.
EvictNewest(c) ==
  /\ pc[c] = "evict"
  /\ OverCapacity
  /\ \E i \in DOMAIN runs :
       /\ Finished(status[runs[i]])
       /\ \A j \in i + 1 .. Len(runs) : ~ Finished(status[runs[j]])
       /\ runs' = RemoveAt(runs, i)
  /\ scan' = [scan EXCEPT ![c] = 1]
  /\ UNCHANGED <<counter, deleted, doneAtLock, life, pc, target, reply>>

\* ... finished: remove it and go round the while loop.
Evict(c) ==
  /\ pc[c] = "evict"
  /\ OverCapacity
  /\ scan[c] <= Len(runs)
  /\ Finished(status[runs[scan[c]]])
  /\ runs' = RemoveAt(runs, scan[c])
  /\ scan' = [scan EXCEPT ![c] = 1]
  /\ UNCHANGED <<counter, deleted, doneAtLock, life, pc, target, reply>>

\* Mutant of Unlock: the loop is left after any number of turns.
UnlockEarly(c) ==
  /\ Goto(c, "evict", "connect")
  /\ scan' = [scan EXCEPT ![c] = 0]
  /\ UNCHANGED <<store, life, target, reply>>

\* Mutant of Unlock: the loop goes on until the store is within capacity.
UnlockWithin(c) ==
  /\ ~ OverCapacity
  /\ UnlockEarly(c)

\* The loop ends: within capacity, or nothing left that has finished.
Unlock(c) ==
  /\ ~ OverCapacity \/ scan[c] > Len(runs)
  /\ Goto(c, "evict", "connect")
  /\ scan' = [scan EXCEPT ![c] = 0]
  /\ UNCHANGED <<store, life, target, reply>>

\* connect(spec.mock, audit) gives a handle to judge with ...
Connect(c) ==
  /\ Goto(c, "connect", "spawn")
  /\ UNCHANGED <<store, life, target, scan, reply>>

\* ... or, for a live run, an error: the handler returns it through `?`.
ConnectFails(c) ==
  /\ Goto(c, "connect", "idle")
  /\ target' = [target EXCEPT ![c] = 0]
  /\ UNCHANGED <<store, life, scan, reply>>

Spawn(c) ==
  /\ Goto(c, "spawn", "started")
  /\ job' = [job EXCEPT ![target[c]] = "judging"]
  /\ UNCHANGED <<store, status, audit, target, scan, reply>>

\* The 202 body is built after the task was spawned.
Accept(c) ==
  /\ Goto(c, "started", "accepted")
  /\ view' = [view EXCEPT ![c] = SummaryOf(target[c])]
  /\ UNCHANGED <<store, life, target, scan, ledger, snap, rows>>

-----------------------------------------------------------------------------
(***************************************************************************)
(* GET and DELETE /api/runs/{id}, GET /api/runs                            *)
(***************************************************************************)

\* find: clone the handle out of the deque.  A miss answers 404.
Find(c, r) ==
  /\ StoreFree
  /\ r \in Listed
  /\ Goto(c, "idle", "found")
  /\ target' = [target EXCEPT ![c] = r]
  /\ UNCHANGED <<store, life, scan, reply>>

\* get_run reads the summary first ...
ReadSummary(c) ==
  /\ Goto(c, "found", "summed")
  /\ view' = [view EXCEPT ![c] = SummaryOf(target[c])]
  /\ UNCHANGED <<store, life, target, scan, ledger, snap, rows>>

\* Mutant of ReadOutcome: a run that has failed passes for one with an outcome.
ReadAnyOutcome(c) ==
  /\ pc[c] = "summed"
  /\ pc' = [pc EXCEPT ![c] =
              IF Finished(status[target[c]]) THEN "priced" ELSE "viewed"]
  /\ UNCHANGED <<store, life, target, scan, reply>>

\* ... then the outcome, under the lock again.
ReadOutcome(c) ==
  /\ pc[c] = "summed"
  /\ pc' = [pc EXCEPT ![c] =
              IF status[target[c]] = "done" THEN "priced" ELSE "viewed"]
  /\ UNCHANGED <<store, life, target, scan, reply>>

\* With an outcome, the cost ledger is totalled over the audit log.
ReadLedger(c) ==
  /\ Goto(c, "priced", "viewed")
  /\ ledger' = [ledger EXCEPT ![c] = audit[target[c]]]
  /\ UNCHANGED <<store, life, target, scan, view, snap, rows>>

\* fx_decision, battery_day and report need the outcome and no summary: they
\* answer 404 until the run is done.
ReadFinished(c) ==
  /\ pc[c] = "found"
  /\ IF status[target[c]] = "done"
     THEN pc' = [pc EXCEPT ![c] = "priced"] /\ UNCHANGED target
     ELSE pc' = [pc EXCEPT ![c] = "idle"] /\ target' = [target EXCEPT ![c] = 0]
  /\ UNCHANGED <<store, life, scan, reply>>

\* delete_run: the handle is dropped from the deque, whatever the run's state.
Delete(c, r) ==
  /\ StoreFree
  /\ pc[c] = "idle"
  /\ \E i \in DOMAIN runs :
       /\ runs[i] = r
       /\ \A j \in 1 .. i - 1 : runs[j] # r
       /\ runs' = RemoveAt(runs, i)
  /\ deleted' = deleted \cup {r}
  /\ UNCHANGED <<counter, doneAtLock, life, pc, target, scan, reply>>

\* list_runs: clone the handles, newest first, and release the store lock ...
List(c) ==
  /\ StoreFree
  /\ runs # <<>>
  /\ Goto(c, "idle", "listing")
  /\ snap' = [snap EXCEPT ![c] = Reverse(runs)]
  /\ UNCHANGED <<store, life, target, scan, view, ledger, rows>>

\* ... then summarise them one at a time.
ListNext(c) ==
  /\ pc[c] = "listing"
  /\ LET row == SummaryOf(snap[c][Len(rows[c]) + 1])
     IN  /\ rows' = [rows EXCEPT ![c] = Append(@, row)]
         /\ pc' = [pc EXCEPT ![c] =
                     IF Len(rows[c]) + 1 = Len(snap[c]) THEN "listed" ELSE @]
  /\ UNCHANGED <<store, life, target, scan, view, ledger, snap>>

\* The response is written and the handler's locals are dropped.
Answer(c) ==
  /\ pc[c] \in {"accepted", "viewed", "listed"}
  /\ pc' = [pc EXCEPT ![c] = "idle"]
  /\ target' = [target EXCEPT ![c] = 0]
  /\ view' = [view EXCEPT ![c] = NoView]
  /\ ledger' = [ledger EXCEPT ![c] = NoResult]
  /\ snap' = [snap EXCEPT ![c] = <<>>]
  /\ rows' = [rows EXCEPT ![c] = <<>>]
  /\ UNCHANGED <<store, life, scan>>

-----------------------------------------------------------------------------
(***************************************************************************)
(* The spawned task: run::execute, then complete or fail.                  *)
(***************************************************************************)

\* Mutant of JudgeCall: a call still in flight is recorded after the run settled.
JudgeCallLate(r) ==
  /\ job[r] \in {"judging", "ended"}
  /\ audit[r] < MaxCalls
  /\ audit' = [audit EXCEPT ![r] = @ + 1]
  /\ UNCHANGED <<store, status, job, pc, target, scan, reply>>

JudgeCall(r) ==
  /\ job[r] = "judging"
  /\ audit[r] < MaxCalls
  /\ audit' = [audit EXCEPT ![r] = @ + 1]
  /\ UNCHANGED <<store, status, job, pc, target, scan, reply>>

Finish(r, s) ==
  /\ job[r] = "judging"
  /\ status' = [status EXCEPT ![r] = s]
  /\ job' = [job EXCEPT ![r] = "ended"]
  /\ UNCHANGED <<store, audit, pc, target, scan, reply>>

\* Mutant of Fail: the error is logged and the run is left as it is.
FailSilently(r) ==
  /\ job[r] = "judging"
  /\ job' = [job EXCEPT ![r] = "ended"]
  /\ UNCHANGED <<store, status, audit, pc, target, scan, reply>>

Complete(r) == Finish(r, "done")
Fail(r)     == Finish(r, "failed")

-----------------------------------------------------------------------------
Start(c) ==
  \/ Push(c) \/ ScanPast(c) \/ Evict(c) \/ Unlock(c)
  \/ Connect(c) \/ ConnectFails(c) \/ Spawn(c) \/ Accept(c)

Read(c) ==
  \/ ReadSummary(c) \/ ReadOutcome(c) \/ ReadLedger(c) \/ ReadFinished(c)
  \/ ListNext(c) \/ Answer(c)

Request(c) ==
  \/ TakeNumber(c)
  \/ List(c)
  \/ \E r \in Run : Find(c, r) \/ Delete(c, r)

Job(r) == JudgeCall(r) \/ Complete(r) \/ Fail(r)

Next ==
  \/ \E c \in Clients : Request(c) \/ Start(c) \/ Read(c)
  \/ \E r \in Run : Job(r)

Safety == Init /\ [][Next]_vars

(***************************************************************************)
(* The runtime polls every task and every handler that is ready; requests  *)
(* themselves arrive or not.  Job(r) is fair on the assumption that the    *)
(* backend answers each call, as the mock does.                            *)
(***************************************************************************)
Fairness ==
  /\ \A c \in Clients : WF_vars(Start(c) \/ Read(c))
  /\ \A r \in Run : WF_vars(Job(r))

Spec == Safety /\ Fairness

-----------------------------------------------------------------------------
(***************************************************************************)
(* Properties                                                              *)
(***************************************************************************)

Registered == {r \in Run : r < counter /\ ~ \E c \in Clients :
                               pc[c] = "create" /\ target[c] = r}

\* Eviction and deletion are the only ways out of the store, and eviction
\* spares every run that has not finished: a run that was registered and is
\* gone has finished, unless a client asked for its removal.
NoLiveRunLost ==
  \A r \in Registered \ (Listed \cup deleted) : Finished(status[r])

\* Two create calls never give one handle two places: the deque holds each run
\* once, so a removal by id leaves nothing of it behind.
ListedOnce ==
  /\ \A i, j \in DOMAIN runs : runs[i] = runs[j] => i = j
  /\ Listed \cap deleted = {}

\* At most one create is inside the locked region of the deque.
OneEvictor ==
  \A c, d \in Clients : pc[c] = "evict" /\ pc[d] = "evict" => c = d

\* A summary or a result that says a run is over is complete: the calls it
\* counts, and those its cost ledger totals, are all the run will ever make.
FinalAnswers ==
  \A c \in Clients :
    /\ Finished(view[c].status) =>
         /\ view[c].calls = audit[view[c].run]
         /\ job[view[c].run] = "ended"
    /\ ledger[c] # NoResult =>
         /\ ledger[c] = audit[target[c]]
         /\ status[target[c]] = "done"
    /\ \A i \in DOMAIN rows[c] :
         Finished(rows[c][i].status) =>
           /\ rows[c][i].calls = audit[rows[c][i].run]
           /\ job[rows[c][i].run] = "ended"

\* get_run may pair a running summary with a result (the run finished between
\* its two reads), but never a failed summary with one, and never a done
\* summary without one.
ResultMatchesStatus ==
  \A c \in Clients : pc[c] = "viewed" =>
    /\ view[c].status = "done" => ledger[c] # NoResult
    /\ view[c].status = "failed" => ledger[c] = NoResult

\* Once a run has finished, its state and its audit log never change again,
\* even when it was deleted or evicted while a client still holds its handle.
FinishedIsFinal ==
  [][\A r \in Run : Finished(status[r]) =>
        status'[r] = status[r] /\ audit'[r] = audit[r]]_vars

\* Eviction takes the oldest finished run: no run ahead of it in the deque had
\* finished when the create took the lock.
EvictionOrder ==
  [][\A i \in DOMAIN runs :
       runs[i] \notin Listed' \cup deleted'
         => \A j \in 1 .. i - 1 : runs[j] \notin doneAtLock]_vars

\* A create that leaves the store over capacity has evicted every run that had
\* finished when it took the lock.
OverflowJustified ==
  [][\A c \in Clients : pc[c] = "evict" /\ pc'[c] # "evict" /\ OverCapacity
       => Listed \cap doneAtLock = {}]_vars

\* Every task that was spawned leaves its run finished, whichever way
\* execute returned.
JobsFinish ==
  \A r \in Run : job[r] = "judging" ~> Finished(status[r])

\* The eviction loop terminates and the store lock is released: every POST is
\* answered, with the accepted run or with connect's error.
StartsAnswered ==
  \A c \in Clients : pc[c] \in Starting ~> pc[c] \in {"accepted", "idle"}

\* The store implements the lifecycle a client relies on: a run exists for it
\* from the push on, and every lock, scan and reply step changes nothing in it.
Life == INSTANCE RunLifecycle WITH
  Run     <- Run,
  state   <- [r \in Run |-> IF r \in Registered THEN status[r] ELSE "unknown"],
  calls   <- audit,
  held    <- Listed,
  removed <- deleted

ImplementsLifecycle == Life!Spec

-----------------------------------------------------------------------------
(***************************************************************************)
(* The inductive invariant behind the proofs of RunStoreProofs.            *)
(***************************************************************************)

Holding == Starting \cup {"started", "accepted", "found", "summed", "priced"}

\* A handler that is past `find` or `create` holds an existing run, and a list
\* request still has a handle to summarise.
HandlerShape ==
  \A c \in Clients :
    /\ pc[c] \in Holding => target[c] \in Run
    /\ pc[c] = "evict" => scan[c] >= 1
    /\ pc[c] = "listing" => Len(rows[c]) < Len(snap[c])
    /\ pc[c] \notin {"listing", "listed"} => rows[c] = <<>>

\* The counter separates the runs that exist from those that do not.
CounterShape ==
  \A r \in Run :
    /\ status[r] = "absent" <=> r >= counter
    /\ status[r] = "absent" => r \notin Listed \cup deleted
    /\ job[r] = "judging" => status[r] = "running"
    /\ job[r] = "ended" <=> Finished(status[r])

\* A run being started belongs to one handler and has no task yet; until the
\* push it is in nobody else's sight.
StartShape ==
  \A c \in Clients : pc[c] \in Starting =>
    /\ target[c] < counter
    /\ job[target[c]] = "none"
    /\ pc[c] = "create" => target[c] \notin Listed \cup deleted
    /\ \A d \in Clients \ {c} : pc[d] \in Starting => target[d] # target[c]

\* A summary that says its run is over agrees with the run.
TrueSummary(v) ==
  Finished(v.status) =>
    /\ v.run \in Run
    /\ status[v.run] = v.status
    /\ v.calls = audit[v.run]
    /\ job[v.run] = "ended"

\* What a handler has read so far agrees with the runs it read.
ReadShape ==
  \A c \in Clients :
    /\ TrueSummary(view[c])
    /\ \A i \in DOMAIN rows[c] : TrueSummary(rows[c][i])
    /\ pc[c] \in {"idle", "found"} \cup Starting => view[c] = NoView
    /\ pc[c] = "summed" => view[c].run = target[c]
    /\ pc[c] = "priced" => /\ status[target[c]] = "done"
                           /\ view[c].status # "failed"
    /\ ledger[c] # NoResult => /\ pc[c] = "viewed"
                               /\ target[c] \in Run
                               /\ ledger[c] = audit[target[c]]
                               /\ status[target[c]] = "done"
    /\ pc[c] = "viewed" =>
         /\ view[c].status = "done" => ledger[c] # NoResult
         /\ view[c].status = "failed" => ledger[c] = NoResult

\* The scan goes forward from the oldest run and passes over running ones only, and
\* no run stops being finished: what lies behind the scan had not finished when the
\* lock was taken.
ScanShape ==
  /\ \A r \in doneAtLock : Finished(status[r])
  /\ \A c \in Clients : pc[c] = "evict" =>
       \A i \in DOMAIN runs : i < scan[c] => runs[i] \notin doneAtLock

\* The facts the safety properties follow from, inductive together.
IInv ==
  /\ TypeOK
  /\ HandlerShape
  /\ CounterShape
  /\ StartShape
  /\ ReadShape
  /\ ListedOnce
  /\ OneEvictor
  /\ NoLiveRunLost
  /\ ScanShape

-----------------------------------------------------------------------------
(***************************************************************************)
(* What a comment says of the store and the code does not keep.            *)
(***************************************************************************)

\* "Typed calls made so far. Rises while a run is `running`." (dto.rs:88): a
\* running run that is past its start has a task judging it.
RunningHasJob ==
  \A r \in Listed : status[r] = "running" =>
    job[r] = "judging" \/ \E c \in Clients : pc[c] \in Starting /\ target[c] = r
=============================================================================
