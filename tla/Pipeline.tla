------------------------------ MODULE Pipeline ------------------------------
(***************************************************************************)
(* The judgment pipeline (crates/jev-core/src/pipeline.rs) over the handle  *)
(* of jev.rs, with the audit log of audit.rs and the cost ledger of cost.rs.*)
(*                                                                         *)
(* A pipeline belongs to one decision and gathers the outputs of its        *)
(* stages as priors.  The caller opens a batch, adds stages, and sends it:  *)
(* one call to the backend, which may fail or answer badly.  Several        *)
(* pipelines share one handle, so their calls interleave at the await; what *)
(* follows the await touches only the pipeline and, once, the audit mutex,  *)
(* and is one step.                                                        *)
(*                                                                         *)
(* A batch is known by its number; an output by its batch and its place.    *)
(***************************************************************************)
EXTENDS Naturals, Sequences, SequencesExt, FiniteSets, Places

CONSTANTS
  Pipelines,     \* the pipelines sharing one Jev handle
  DecisionOf,    \* the decision each was told it is judging, or Untagged
  Untagged,      \* Jev.decision = None
  StageNames,    \* names a caller gives its stages
  Kinds,         \* the stage types: a primitive and its output type
  AsksOf,        \* the names of the questions a stage of each kind asks
  MaxBatches,    \* bound: batches opened in a behaviour
  MaxStages,     \* bound: stages a caller adds to one batch
  MaxSlots,      \* bound: slots a caller keeps; it drops the others
  MaxTokens      \* bound: tokens one call is counted to use

ASSUME DecisionAssumption == DOMAIN DecisionOf = Pipelines
ASSUME BoundsAssumption ==
  MaxBatches \in Nat /\ MaxStages \in Nat /\ MaxSlots \in Nat /\ MaxTokens \in Nat

VARIABLES
  opened,     \* how many batches have been opened
  phase,      \* where each pipeline's batch is
  current,    \* the number of its batch
  items,      \* the stages added to it
  state,      \* the priors serialised into the call's state
  priors,     \* Pipeline.priors
  since,      \* the first batch number after the last reset (history)
  audit,      \* Audit.records
  results,    \* the BatchOut of each batch that was sent, empty until then
  claimed,    \* the places in it that hold no output any more
  slots,      \* the slots the caller holds
  handed      \* what take returned: <<slot, output>> (history)

batching == <<opened, phase, current, items, state>>
claims   == <<slots, claimed, handed>>
vars     == <<batching, priors, since, audit, results, claims>>

Batches == 1 .. MaxBatches
Stages  == [stage : StageNames, kind : Kinds]
Outputs == [batch : Batches, index : 1 .. MaxStages, stage : StageNames, kind : Kinds]
Slots   == [batch : Batches, index : 1 .. MaxStages, kind : Kinds]
Tokens  == 0 .. MaxTokens     \* what a call used; a missing count is 0

Records == [pipeline : Pipelines, batch : Batches, prior : Seq(Outputs),
            output : Seq(Outputs), since : 1 .. MaxBatches + 1, tokens : Tokens]

TypeOK ==
  /\ opened \in 0 .. MaxBatches
  /\ phase \in [Pipelines -> {"idle", "adding", "asked"}]
  /\ current \in [Pipelines -> 0 .. MaxBatches]
  /\ items \in [Pipelines -> Seq(Stages)]
  /\ state \in [Pipelines -> Seq(Outputs)]
  /\ priors \in [Pipelines -> Seq(Outputs)]
  /\ since \in [Pipelines -> 1 .. MaxBatches + 1]
  /\ audit \in Seq(Records)
  /\ results \in [Batches -> Seq(Outputs)]
  /\ claimed \subseteq Batches \X (1 .. MaxStages)
  /\ slots \subseteq Slots
  /\ handed \subseteq Slots \X Outputs

Init ==
  /\ opened = 0
  /\ phase = [p \in Pipelines |-> "idle"]
  /\ current = [p \in Pipelines |-> 0]
  /\ items = [p \in Pipelines |-> <<>>]
  /\ state = [p \in Pipelines |-> <<>>]
  /\ priors = [p \in Pipelines |-> <<>>]
  /\ since = [p \in Pipelines |-> 1]
  /\ audit = <<>>
  /\ results = [b \in Batches |-> <<>>]
  /\ claimed = {}
  /\ slots = {}
  /\ handed = {}

-----------------------------------------------------------------------------
(***************************************************************************)
(* Building a batch                                                        *)
(***************************************************************************)

\* Pipeline::batch borrows the pipeline: one batch of it at a time.
Open(p) ==
  /\ phase[p] = "idle"
  /\ opened < MaxBatches
  /\ opened' = opened + 1
  /\ phase' = [phase EXCEPT ![p] = "adding"]
  /\ current' = [current EXCEPT ![p] = opened + 1]
  /\ UNCHANGED <<items, state, priors, since, audit, results, claims>>

\* Batch::add hands the caller a slot holding no more than an index and a
\* type, which the caller keeps or drops.
Add(p, s) ==
  /\ phase[p] = "adding"
  /\ Len(items[p]) < MaxStages
  /\ items' = [items EXCEPT ![p] = Append(@, s)]
  /\ slots' =
       IF Cardinality(slots) = MaxSlots THEN slots
       ELSE slots \cup
              {[batch |-> current[p], index |-> Len(items[p]) + 1, kind |-> s.kind]}
  /\ UNCHANGED <<opened, phase, current, state, priors, since, audit, results,
                 claimed, handed>>

\* Asks of a batch of one keep their names; otherwise `<stage>.<ask>`.
FullNames(stages, i) ==
  IF Len(stages) = 1
  THEN AsksOf[stages[i].kind]
  ELSE {stages[i].stage} \X AsksOf[stages[i].kind]

AsksTwice(stages) ==
  \E i, j \in DOMAIN stages : i < j /\ FullNames(stages, i) \cap FullNames(stages, j) # {}

AsksNothing(stages) == \A i \in DOMAIN stages : FullNames(stages, i) = {}

\* The batch is over and its pipeline is free again.
Close(p) ==
  /\ phase' = [phase EXCEPT ![p] = "idle"]
  /\ current' = [current EXCEPT ![p] = 0]
  /\ items' = [items EXCEPT ![p] = <<>>]
  /\ state' = [state EXCEPT ![p] = <<>>]

\* The batch is dropped unsent: a stage's spec did not validate, or send refused a
\* batch that has no stage, asks a name twice or asks nothing.  The error is
\* JevError::InvalidCall, before anything is put to the backend.
Drop(p) ==
  /\ phase[p] = "adding"
  /\ Close(p)
  /\ UNCHANGED <<opened, priors, since, audit, results, claims>>

\* Mutant of Send: the input goes out without the priors.
SendBare(p) ==
  /\ phase[p] = "adding"
  /\ items[p] # <<>> /\ ~ AsksTwice(items[p]) /\ ~ AsksNothing(items[p])
  /\ phase' = [phase EXCEPT ![p] = "asked"]
  /\ UNCHANGED <<opened, current, items, state, priors, since, audit, results, claims>>

\* The state of the call carries the priors as they stand; the call is put to
\* the backend and awaited.
Send(p) ==
  /\ phase[p] = "adding"
  /\ items[p] # <<>> /\ ~ AsksTwice(items[p]) /\ ~ AsksNothing(items[p])
  /\ phase' = [phase EXCEPT ![p] = "asked"]
  /\ state' = [state EXCEPT ![p] = priors[p]]
  /\ UNCHANGED <<opened, current, items, priors, since, audit, results, claims>>

-----------------------------------------------------------------------------
(***************************************************************************)
(* The answer                                                              *)
(***************************************************************************)

\* The composed outputs of the first n stages of p's batch.
Composed(p, n) ==
  [i \in 1 .. n |-> [batch |-> current[p], index |-> i,
                     stage |-> items[p][i].stage, kind |-> items[p][i].kind]]

\* The backend fails, leaves an ask unanswered or gives a verdict that does not
\* pass validate_for: call returns the error.
CallFails(p) ==
  /\ phase[p] = "asked"
  /\ Close(p)
  /\ UNCHANGED <<opened, priors, since, audit, results, claims>>

\* Every verdict passes but composing stage n + 1 fails.  The stages before it
\* are among the priors already; the call is never recorded.
ComposeFails(p, n) ==
  /\ phase[p] = "asked"
  /\ n < Len(items[p])
  /\ priors' = [priors EXCEPT ![p] = @ \o Composed(p, n)]
  /\ Close(p)
  /\ UNCHANGED <<opened, since, audit, results, claims>>

\* Mutant of RecordFails: the write error is swallowed and the outputs returned.
RecordFailsSilently(p) ==
  /\ phase[p] = "asked"
  /\ LET out == Composed(p, Len(items[p])) IN
       /\ priors' = [priors EXCEPT ![p] = @ \o out]
       /\ results' = [results EXCEPT ![current[p]] = out]
  /\ Close(p)
  /\ UNCHANGED <<opened, since, audit, claims>>

\* Every stage composes, but the audit's file cannot be written: push returns
\* the error before it keeps the record.
RecordFails(p) ==
  /\ phase[p] = "asked"
  /\ priors' = [priors EXCEPT ![p] = @ \o Composed(p, Len(items[p]))]
  /\ Close(p)
  /\ UNCHANGED <<opened, since, audit, results, claims>>

\* Every stage composes, the priors are extended, one record is kept for the
\* call, and the caller gets the outputs to claim.
Settle(p, tokens) ==
  /\ phase[p] = "asked"
  /\ LET out == Composed(p, Len(items[p])) IN
       /\ priors' = [priors EXCEPT ![p] = @ \o out]
       /\ audit' = Append(audit,
            [pipeline |-> p, batch |-> current[p], prior |-> state[p], output |-> out,
             since |-> since[p], tokens |-> tokens])
       /\ results' = [results EXCEPT ![current[p]] = out]
  /\ Close(p)
  /\ UNCHANGED <<opened, since, claims>>

\* Mutant of Take: the output is cloned and left in its place.
TakeCopy(slot, b) ==
  /\ slot \in slots
  /\ results[b] # <<>>
  /\ slots' = slots \ {slot}
  /\ handed' = handed \cup
       {<<slot, results[b][i]>> : i \in {j \in {slot.index} \cap DOMAIN results[b] :
            results[b][j].kind = slot.kind}}
  /\ UNCHANGED <<batching, priors, since, audit, results, claimed>>

\* BatchOut::take consumes the slot and whatever is at its index, and then looks
\* at the type.
Take(slot, b) ==
  /\ slot \in slots
  /\ results[b] # <<>>
  /\ slots' = slots \ {slot}
  /\ claimed' = claimed \cup {<<b, i>> : i \in {slot.index} \cap DOMAIN results[b]}
  /\ handed' = handed \cup
       {<<slot, results[b][i]>> : i \in {j \in {slot.index} \cap DOMAIN results[b] :
            <<b, j>> \notin claimed /\ results[b][j].kind = slot.kind}}
  /\ UNCHANGED <<batching, priors, since, audit, results>>

\* Pipeline::reset, which the borrow of an open batch excludes.
Reset(p) ==
  /\ phase[p] = "idle"
  /\ priors' = [priors EXCEPT ![p] = <<>>]
  /\ since' = [since EXCEPT ![p] = opened + 1]
  /\ UNCHANGED <<batching, audit, results, claims>>

-----------------------------------------------------------------------------
Step(p) ==
  \/ Open(p) \/ Drop(p) \/ Send(p)
  \/ \E s \in Stages : Add(p, s)
  \/ CallFails(p) \/ RecordFails(p)
  \/ \E n \in 0 .. MaxStages : ComposeFails(p, n)
  \/ \E t \in Tokens : Settle(p, t)
  \/ Reset(p)

Next ==
  \/ \E p \in Pipelines : Step(p)
  \/ \E slot \in slots, b \in Batches : Take(slot, b)

Spec == Init /\ [][Next]_vars

-----------------------------------------------------------------------------
(***************************************************************************)
(* The cost ledger                                                         *)
(***************************************************************************)

NoCost == [calls |-> 0, tokens |-> 0]
Charge(e, r) == [calls |-> e.calls + 1, tokens |-> e.tokens + r.tokens]
Tag(r) == DecisionOf[r.pipeline]

\* CostEstimate::of
Estimate(records) == FoldLeft(Charge, NoCost, records)

\* Mutant of Post: a call outside any decision never reaches the total.
PostTagged(l, r) ==
  IF Tag(r) = Untagged
  THEN [l EXCEPT !.untagged = Charge(@, r)]
  ELSE [l EXCEPT !.total = Charge(@, r),
                 !.order = IF Contains(@, Tag(r)) THEN @ ELSE Append(@, Tag(r)),
                 !.share[Tag(r)] = Charge(@, r)]

\* One turn of the loop of CostLedger::of; `order` is the IndexMap's.
Post(l, r) ==
  LET all == [l EXCEPT !.total = Charge(@, r)]
  IN  IF Tag(r) = Untagged
      THEN [all EXCEPT !.untagged = Charge(@, r)]
      ELSE [all EXCEPT !.order = IF Contains(@, Tag(r)) THEN @ ELSE Append(@, Tag(r)),
                       !.share[Tag(r)] = Charge(@, r)]

Decisions == {DecisionOf[p] : p \in Pipelines} \ {Untagged}

\* CostLedger::of
LedgerOf(records) ==
  FoldLeft(Post,
           [total |-> NoCost, untagged |-> NoCost, order |-> <<>>,
            share |-> [d \in Decisions |-> NoCost]],
           records)

\* Audit::records_for
RecordsFor(tag) == At(audit, {k \in DOMAIN audit : Tag(audit[k]) = tag})

-----------------------------------------------------------------------------
(***************************************************************************)
(* Properties                                                              *)
(***************************************************************************)

\* "a later stage's state provably contains every earlier stage's typed output"
\* (pipeline.rs:67): the priors of a recorded call hold the outputs of every
\* call its pipeline recorded since its last reset, whole and in order; nothing
\* of another pipeline, of its own batch or from before the reset is among them.
StagesSeeEarlier ==
  \A k \in DOMAIN audit :
    LET r == audit[k]
        before == {j \in 1 .. k - 1 : audit[j].pipeline = r.pipeline /\ audit[j].batch >= r.since}
        outputs == [j \in DOMAIN audit |-> audit[j].output]
        recorded == {audit[j].batch : j \in DOMAIN audit}
    IN  /\ At(r.prior, {i \in DOMAIN r.prior : r.prior[i].batch \in recorded})
             = FlattenSeq(At(outputs, before))
        /\ \A i \in DOMAIN r.prior : r.prior[i].batch \in r.since .. r.batch - 1

\* Whatever a caller gets out of a batch is on the record: the audit holds that
\* output, once, in the record of the call that was asked for it.
HandedIsAudited ==
  \A h \in handed : \E k \in DOMAIN audit :
    /\ audit[k].batch = h[2].batch
    /\ h[2].index \in DOMAIN audit[k].output
    /\ audit[k].output[h[2].index] = h[2]
    /\ \A j \in DOMAIN audit \ {k} : audit[j].batch # h[2].batch

\* An output is handed out at most once, and to a slot of its type.
HandedOnce ==
  \A g, h \in handed : /\ g[1].kind = g[2].kind
                       /\ g[2] = h[2] => g = h

\* The ledger splits the run's cost without losing or repeating a call: each
\* decision's share is the estimate of the records tagged with it, the rest is
\* untagged, and together they are the total; decisions come in the order they
\* were first judged.
LedgerPartitions ==
  LET l == LedgerOf(audit)
      Ahead(d, k) == Tag(audit[k]) = d /\ \A j \in 1 .. k - 1 : Tag(audit[j]) # d
  IN  /\ l.total = Estimate(audit)
      /\ l.untagged = Estimate(RecordsFor(Untagged))
      /\ \A d \in Decisions : l.share[d] = Estimate(RecordsFor(d))
      /\ \A i, j \in DOMAIN l.order : i < j =>
           \E k, m \in DOMAIN audit :
             k < m /\ Ahead(l.order[i], k) /\ Ahead(l.order[j], m)
      /\ Range(l.order) = {Tag(audit[k]) : k \in DOMAIN audit} \ {Untagged}
=============================================================================
