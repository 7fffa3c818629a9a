---------------------------- MODULE RunLifecycle ----------------------------
(***************************************************************************)
(* What the run store promises a client, with the locks, the deque and the *)
(* handlers left out: a run is registered once, judges for a while, settles *)
(* once and for all as done or failed, and is forgotten only when a client *)
(* asks for it or, to make room, after it has settled.                     *)
(***************************************************************************)
EXTENDS Naturals

CONSTANTS Run, MaxCalls

VARIABLES
  state,     \* "unknown" until registered, then "running", "done" or "failed"
  calls,     \* how many calls the run has recorded
  held,      \* the runs a client can look up
  removed    \* the runs a client asked to forget

lifeVars == <<state, calls, held, removed>>

Settled(r) == state[r] \in {"done", "failed"}

Init ==
  /\ state = [r \in Run |-> "unknown"]
  /\ calls = [r \in Run |-> 0]
  /\ held = {}
  /\ removed = {}

Register(r) ==
  /\ state[r] = "unknown"
  /\ state' = [state EXCEPT ![r] = "running"]
  /\ held' = held \cup {r}
  /\ UNCHANGED <<calls, removed>>

Record(r) ==
  /\ state[r] = "running"
  /\ calls' = [calls EXCEPT ![r] = @ + 1]
  /\ UNCHANGED <<state, held, removed>>

Settle(r) ==
  /\ state[r] = "running"
  /\ \E s \in {"done", "failed"} : state' = [state EXCEPT ![r] = s]
  /\ UNCHANGED <<calls, held, removed>>

MakeRoom(r) ==
  /\ r \in held
  /\ Settled(r)
  /\ held' = held \ {r}
  /\ UNCHANGED <<state, calls, removed>>

Forget(r) ==
  /\ r \in held
  /\ held' = held \ {r}
  /\ removed' = removed \cup {r}
  /\ UNCHANGED <<state, calls>>

Next == \E r \in Run :
  Register(r) \/ Record(r) \/ Settle(r) \/ MakeRoom(r) \/ Forget(r)

Spec == Init /\ [][Next]_lifeVars
=============================================================================
