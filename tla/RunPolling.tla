----------------------------- MODULE RunPolling -----------------------------
(***************************************************************************)
(* The page of ui/ against the run store: the run list and the opened run  *)
(* are both read by polling (hooks/useApi.ts), a run is started by         *)
(* RunLauncher and forgotten by RunList, and App ties the three together.  *)
(*                                                                         *)
(* Replies come back in any order: `wire` is the bag of the GET requests   *)
(* that are out, waiting at the server or already answered.  A reply       *)
(* carries what the server held when it answered, restricted to the run    *)
(* asked about.  The store is reduced to the life of each run; RunStore    *)
(* models it in full.  MaxFlight bounds the requests out at once and       *)
(* MaxFaults the requests the network loses.                               *)
(***************************************************************************)
EXTENDS Naturals, FiniteSets, Bags

CONSTANTS Runs, None, AllRuns, MaxFlight, MaxFaults

VARIABLES server,    \* run -> where it is in its life
          selected,  \* App's selected run, or None
          view,      \* useRun's run: whose it is and its status, or NoView
          error,     \* useRun's error banner is up
          list,      \* useRunList's runs: run -> status, for the runs listed
          wire,      \* the GET requests out
          posting,   \* the run whose POST is unanswered, or None
          forgetting,\* the runs whose DELETE is unanswered
          faults     \* requests lost so far

pageVars == <<server, selected, view, error, list, wire, posting, forgetting, faults>>

States == {"unborn", "running", "finished", "gone"}
Shown == {"running", "finished"}
NoView == [run |-> None, status |-> "none"]
Snapshots == UNION {[held -> Shown] : held \in SUBSET Runs}
Requests == [about : Runs \cup {AllRuns},
             state : {"waiting", "answered", "failed"},
             seen  : Snapshots]

-----------------------------------------------------------------------------
(* A GET of /runs or of /runs/{id} *)

Nothing == [r \in {} |-> "running"]
Ask(about) == SetToBag({[about |-> about, state |-> "waiting", seen |-> Nothing]})

\* What the store answers: the runs it holds, of those asked about.
Holds(about) ==
    [r \in {r \in Runs : server[r] \in Shown /\ about \in {r, AllRuns}} |-> server[r]]

Room(n) == BagCardinality(wire) + n <= MaxFlight

\* useRun when the selection changes: the view is cleared and the run loaded;
\* with nothing selected the banner goes too.  Selecting the selected run
\* again changes no state and loads nothing.
Open(r, other) ==
    /\ selected' = r
    /\ IF r = selected
         THEN wire' = wire (+) other /\ UNCHANGED <<view, error>>
         ELSE /\ view' = NoView
              /\ error' = (error /\ r # None)
              /\ wire' = IF r = None THEN wire (+) other
                                     ELSE wire (+) other (+) Ask(r)

PageInit ==
    /\ server = [r \in Runs |-> "unborn"]
    /\ selected = None
    /\ view = NoView
    /\ error = FALSE
    /\ list = Nothing
    /\ wire = Ask(AllRuns)
    /\ posting = None
    /\ forgetting = {}
    /\ faults = 0

-----------------------------------------------------------------------------
(* What the reader of the page does *)

\* RunLauncher.submit: the button is disabled while a POST is out.
Post(r) ==
    /\ posting = None
    /\ server[r] = "unborn"
    /\ server' = [server EXCEPT ![r] = "running"]
    /\ posting' = r
    /\ UNCHANGED <<selected, view, error, list, wire, forgetting, faults>>

\* The POST answers: App opens the run and refreshes the list.
Started ==
    /\ posting # None
    /\ Room(2)
    /\ Open(posting, Ask(AllRuns))
    /\ posting' = None
    /\ UNCHANGED <<server, list, forgetting, faults>>

\* The answer is lost: the launcher shows it, nothing is opened or refreshed.
PostFails ==
    /\ posting # None
    /\ faults < MaxFaults
    /\ faults' = faults + 1
    /\ posting' = None
    /\ UNCHANGED <<server, selected, view, error, list, wire, forgetting>>

Select(r) ==
    /\ r \in DOMAIN list
    /\ Room(1)
    /\ Open(r, EmptyBag)
    /\ UNCHANGED <<server, list, posting, forgetting, faults>>

\* RunList.forget: a run may be forgotten while it is judging.
Forget(r) ==
    /\ r \in DOMAIN list
    /\ r \notin forgetting
    /\ server' = [server EXCEPT ![r] = "gone"]
    /\ forgetting' = forgetting \cup {r}
    /\ UNCHANGED <<selected, view, error, list, wire, posting, faults>>

\* Answered, with success or not: whatever is open by now is closed.
Forgotten(r) ==
    /\ r \in forgetting
    /\ Room(1)
    /\ Open(None, Ask(AllRuns))
    /\ forgetting' = forgetting \ {r}
    /\ UNCHANGED <<server, list, posting, faults>>

-----------------------------------------------------------------------------
(* The server *)

Finish(r) ==
    /\ server[r] = "running"
    /\ server' = [server EXCEPT ![r] = "finished"]
    /\ UNCHANGED <<selected, view, error, list, wire, posting, forgetting, faults>>

Evict(r) ==
    /\ server[r] = "finished"
    /\ server' = [server EXCEPT ![r] = "gone"]
    /\ UNCHANGED <<selected, view, error, list, wire, posting, forgetting, faults>>

Become(request, reply) == wire' = (wire (-) SetToBag({request})) (+) SetToBag({reply})

Answer(about) ==
    \E q \in BagToSet(wire) :
        /\ q.about = about
        /\ q.state = "waiting"
        /\ LET held == Holds(q.about) IN
             Become(q, [q EXCEPT
                !.state = IF q.about = AllRuns \/ q.about \in DOMAIN held
                            THEN "answered" ELSE "failed",      \* a 404
                !.seen = held])
        /\ UNCHANGED <<server, selected, view, error, list, posting, forgetting, faults>>

Lose ==
    \E q \in BagToSet(wire) :
        /\ q.state = "waiting"
        /\ faults < MaxFaults
        /\ faults' = faults + 1
        /\ Become(q, [q EXCEPT !.state = "failed"])
        /\ UNCHANGED <<server, selected, view, error, list, posting, forgetting>>

-----------------------------------------------------------------------------
(* The hooks *)

\* useRunList's reply: whichever comes last is the list, a failure leaves it.
ListReply(q) ==
    /\ list' = IF q.state = "answered" THEN q.seen ELSE list
    /\ UNCHANGED <<view, error>>

\* The plausible bug: the reply is not held against the selection.
WantedAlways(id) == TRUE

Wanted(id) == id = selected

\* useRun's reply: a run that is no longer wanted is dropped.
RunReply(q) ==
    /\ IF Wanted(q.about)
         THEN /\ view' = IF q.state = "answered"
                           THEN [run |-> q.about, status |-> q.seen[q.about]]
                           ELSE view
              /\ error' = (q.state = "failed")
         ELSE UNCHANGED <<view, error>>
    /\ UNCHANGED list

Deliver(about) ==
    \E q \in BagToSet(wire) :
        /\ q.about = about
        /\ q.state # "waiting"
        /\ wire' = wire (-) SetToBag({q})
        /\ IF q.about = AllRuns THEN ListReply(q) ELSE RunReply(q)
        /\ UNCHANGED <<server, selected, posting, forgetting, faults>>

\* The plausible bug: the poll ends with the first reply.
PollingUntilSeen == selected # None /\ view.status = "none"

\* useRun polls while the run it last saw was running.
Polling == view.status = "running"

Tick ==
    /\ Polling
    /\ Room(1)
    /\ wire' = wire (+) Ask(selected)
    /\ UNCHANGED <<server, selected, view, error, list, posting, forgetting, faults>>

\* The plausible bug: only the opened run keeps the list polling.
AnyRunningOpen == selected \in DOMAIN list /\ list[selected] = "running"

\* useRunList polls while any run of the list it last saw was running.
AnyRunning == \E r \in DOMAIN list : list[r] = "running"

ListTick ==
    /\ AnyRunning
    /\ Room(1)
    /\ wire' = wire (+) Ask(AllRuns)
    /\ UNCHANGED <<server, selected, view, error, list, posting, forgetting, faults>>

PageNext ==
    \/ \E r \in Runs : Post(r) \/ Select(r) \/ Forget(r) \/ Forgotten(r)
                       \/ Finish(r) \/ Evict(r)
    \/ Started \/ PostFails
    \/ \E about \in Runs \cup {AllRuns} : Answer(about) \/ Deliver(about)
    \/ Lose \/ Tick \/ ListTick

\* The server answers, the browser delivers, the timers fire, a run's task ends
\* (RunStore!JobsFinish).  Strong for the timers only because MaxFlight, which
\* the code does not have, may close and open their guard.
Fairness ==
    /\ \A about \in Runs \cup {AllRuns} : WF_pageVars(Answer(about)) /\ WF_pageVars(Deliver(about))
    /\ SF_pageVars(Tick)
    /\ SF_pageVars(ListTick)
    /\ WF_pageVars(Started)
    /\ \A r \in Runs : WF_pageVars(Finish(r))

PageSpec == PageInit /\ [][PageNext]_pageVars /\ Fairness

-----------------------------------------------------------------------------
(* Properties *)

\* The variables hold what they are meant to, and at most one POST is out.
TypeOK ==
    /\ server \in [Runs -> States]
    /\ selected \in Runs \cup {None}
    /\ view \in {NoView} \cup [run : Runs, status : Shown]
    /\ error \in BOOLEAN
    /\ list \in Snapshots
    /\ IsABag(wire) /\ BagToSet(wire) \subseteq Requests
    /\ posting \in Runs \cup {None}
    /\ forgetting \subseteq Runs
    /\ faults \in 0..MaxFaults

\* Whatever order the replies of successive selections come back in, the run
\* shown is the one selected ("keeps the poll from writing a stale run over a
\* newer selection", useApi.ts:75).
ViewIsOfSelection == view.run \in {None, selected}

\* A run left open comes to rest on the page: once it is finished, it ends up
\* shown finished for good, or a banner says why it is not -- though replies
\* out of order may show it running again in between, and a first reply that
\* is lost stops the polling before it starts.
RunSettles ==
    \A r \in Runs :
        <>[](selected = r /\ server[r] = "finished")
            => <>[](view = [run |-> r, status |-> "finished"] \/ error)

\* No run spins in the list for ever: whatever is lost, deleted, evicted or
\* overtaken, the polling goes on until the list shows nothing running.
ListSettles == \A r \in Runs : []<>~(r \in DOMAIN list /\ list[r] = "running")

\* "The run list, refreshed on demand and while anything is still judging"
\* (useApi.ts:40): a run this page started and the server still judges is in
\* the list that keeps the polling going, unless a refresh is on its way.
ListPolledWhileJudging ==
    \A r \in Runs \ {posting} :
        server[r] = "running"
            => AnyRunning \/ \E q \in BagToSet(wire) : q.about = AllRuns

=============================================================================
