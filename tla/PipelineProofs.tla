--------------------------- MODULE PipelineProofs ---------------------------
(***************************************************************************)
(* What the judgment pipeline promises, for any number of pipelines,       *)
(* batches, stages and slots: what a caller gets out of its batches is on   *)
(* the record and handed out once; a stage sees what its pipeline's earlier *)
(* calls gave, and nothing else; and the ledger adds up.                   *)
(***************************************************************************)
EXTENDS Pipeline, SequenceTheorems, TLAPS

-----------------------------------------------------------------------------
(* Slots *)

\* The outputs a caller may claim are known by their batch and place.
PlacedResults ==
  /\ results = [b \in Batches |-> results[b]]
  /\ \A b \in Batches : \A i \in DOMAIN results[b] :
       results[b][i].batch = b /\ results[b][i].index = i

\* What was handed out is no longer in its place, and is of its slot's type.
HandedClaimed ==
  \A h \in handed : /\ <<h[2].batch, h[2].index>> \in claimed
                    /\ h[1].kind = h[2].kind

SlotInv == PlacedResults /\ HandedClaimed /\ HandedOnce

LEMMA InitSlots == Init => SlotInv
BY DEF Init, SlotInv, PlacedResults, HandedClaimed, HandedOnce

LEMMA TakeKeepsSlots ==
  ASSUME SlotInv, NEW slot \in slots, NEW b \in Batches, Take(slot, b)
  PROVE  SlotInv'
<1>. DEFINE given == {<<slot, results[b][i]>> : i \in {j \in {slot.index} \cap DOMAIN results[b] :
                        <<b, j>> \notin claimed /\ results[b][j].kind = slot.kind}}
<1>1. /\ results' = results
      /\ claimed \subseteq claimed'
      /\ handed' = handed \cup given
  BY DEF Take, batching
<1>2. \A h \in given : /\ <<h[2].batch, h[2].index>> \in claimed'
                       /\ <<h[2].batch, h[2].index>> \notin claimed
                       /\ h[1].kind = h[2].kind
  <2>. SUFFICES ASSUME NEW j \in {slot.index} \cap DOMAIN results[b],
                       <<b, j>> \notin claimed, results[b][j].kind = slot.kind
                PROVE  LET h == <<slot, results[b][j]>> IN
                         /\ <<h[2].batch, h[2].index>> \in claimed'
                         /\ <<h[2].batch, h[2].index>> \notin claimed
                         /\ h[1].kind = h[2].kind
    OBVIOUS
  <2>1. results[b][j].batch = b /\ results[b][j].index = j
    BY DEF SlotInv, PlacedResults
  <2>2. <<b, j>> \in claimed'
    BY DEF Take
  <2>. QED
    BY <2>1, <2>2
<1>3. \A g, h \in given : g = h
  OBVIOUS
<1>4. PlacedResults'
  BY <1>1 DEF SlotInv, PlacedResults
<1>5. HandedClaimed'
  BY <1>1, <1>2 DEF SlotInv, HandedClaimed
<1>6. HandedOnce'
  <2>. SUFFICES ASSUME NEW g \in handed', NEW h \in handed'
                PROVE  g[1].kind = g[2].kind /\ (g[2] = h[2] => g = h)
    BY DEF HandedOnce
  <2>1. g[1].kind = g[2].kind
    BY <1>5 DEF HandedClaimed
  <2>2. ASSUME g[2] = h[2] PROVE g = h
    BY <1>1, <1>2, <1>3, <2>2 DEF SlotInv, HandedClaimed, HandedOnce
  <2>. QED
    BY <2>1, <2>2
<1>. QED
  BY <1>4, <1>5, <1>6 DEF SlotInv

LEMMA SettleKeepsSlots ==
  ASSUME SlotInv, NEW p \in Pipelines, NEW t \in Tokens, Settle(p, t)
  PROVE  SlotInv'
<1>. DEFINE out == Composed(p, Len(items[p]))
<1>1. results' = [results EXCEPT ![current[p]] = out] /\ UNCHANGED <<claimed, handed>>
  BY DEF Settle, claims
<1>2. \A i \in DOMAIN out : out[i].batch = current[p] /\ out[i].index = i
  BY DEF Composed
<1>3. PlacedResults'
  BY <1>1, <1>2 DEF SlotInv, PlacedResults
<1>. QED
  BY <1>1, <1>3 DEF SlotInv, HandedClaimed, HandedOnce

LEMMA OthersKeepSlots ==
  ASSUME SlotInv, UNCHANGED <<results, claimed, handed>>
  PROVE  SlotInv'
BY DEF SlotInv, PlacedResults, HandedClaimed, HandedOnce

\* The invariant behind HandedOutOnce.
LEMMA SlotsSound == Spec => []SlotInv
<1>1. SlotInv /\ [Next]_vars => SlotInv'
  <2>. SUFFICES ASSUME SlotInv, [Next]_vars PROVE SlotInv'
    OBVIOUS
  <2>1. CASE \E slot \in slots, b \in Batches : Take(slot, b)
    BY <2>1, TakeKeepsSlots
  <2>2. CASE \E p \in Pipelines : \E t \in Tokens : Settle(p, t)
    BY <2>2, SettleKeepsSlots
  <2>3. CASE \E p \in Pipelines : Open(p) \/ Drop(p) \/ Send(p) \/ CallFails(p) \/ RecordFails(p)
    BY <2>3, OthersKeepSlots DEF Open, Drop, Send, CallFails, RecordFails, claims
  <2>4. CASE \E p \in Pipelines : \/ \E s \in Stages : Add(p, s)
                                  \/ \E n \in 0 .. MaxStages : ComposeFails(p, n)
                                  \/ Reset(p)
    BY <2>4, OthersKeepSlots DEF Add, ComposeFails, Reset, claims
  <2>5. CASE UNCHANGED vars
    BY <2>5, OthersKeepSlots DEF vars, claims
  <2>. QED
    BY <2>1, <2>2, <2>3, <2>4, <2>5 DEF Next, Step
<1>. QED
  BY InitSlots, <1>1, PTL DEF Spec

\* However slots are kept, mixed up between batches and claimed, no output is
\* handed out twice, and each goes to a slot of its type (BatchOut::take).
THEOREM HandedOutOnce == Spec => []HandedOnce
<1>1. SlotInv => HandedOnce
  BY DEF SlotInv
<1>. QED
  BY SlotsSound, <1>1, PTL

-----------------------------------------------------------------------------
(* Types *)

\* A pipeline's open batch is one that was opened, its own, and no longer than
\* the bound.
BatchShape ==
  /\ \A p \in Pipelines : phase[p] # "idle" => current[p] \in 1 .. opened
  /\ \A p \in Pipelines : Len(items[p]) <= MaxStages
  /\ \A p, q \in Pipelines :
       phase[p] # "idle" /\ phase[q] # "idle" /\ current[p] = current[q] => p = q

TypeInv == TypeOK /\ BatchShape

LEMMA InitType == Init => TypeInv
<1>. SUFFICES ASSUME Init PROVE TypeInv
  OBVIOUS
<1>1. /\ \A S : <<>> \in Seq(S)
      /\ Len(<<>>) = 0
      /\ MaxBatches \in Nat /\ MaxStages \in Nat
  BY BoundsAssumption
<1>2. TypeOK
  BY <1>1 DEF Init, TypeOK, Batches
<1>3. BatchShape
  BY <1>1 DEF Init, BatchShape
<1>. QED
  BY <1>2, <1>3 DEF TypeInv

\* What a pipeline's batch composes is a sequence of outputs.
LEMMA ComposedType ==
  ASSUME TypeInv, NEW p \in Pipelines, phase[p] # "idle", NEW n \in 0 .. Len(items[p])
  PROVE  Composed(p, n) \in Seq(Outputs)
<1>1. current[p] \in Batches
  BY DEF TypeInv, TypeOK, BatchShape, Batches
<1>2. /\ items[p] \in Seq(Stages) /\ Len(items[p]) <= MaxStages /\ MaxStages \in Nat
  BY BoundsAssumption DEF TypeInv, TypeOK, BatchShape
<1>3. ASSUME NEW i \in 1 .. n
      PROVE  [batch |-> current[p], index |-> i,
              stage |-> items[p][i].stage, kind |-> items[p][i].kind] \in Outputs
  <2>1. i \in 1 .. MaxStages /\ items[p][i] \in Stages
    BY <1>2, <1>3, ElementOfSeq
  <2>. QED
    BY <1>1, <2>1 DEF Outputs, Stages
<1>4. n \in Nat
  BY <1>2, LenProperties
<1>. QED
  BY <1>3, <1>4 DEF Composed

\* A batch that ends leaves the shape of the others.
LEMMA CloseKeepsShape ==
  ASSUME TypeInv, NEW p \in Pipelines, Close(p), UNCHANGED opened
  PROVE  /\ BatchShape'
         /\ phase' \in [Pipelines -> {"idle", "adding", "asked"}]
         /\ current' \in [Pipelines -> 0 .. MaxBatches]
         /\ items' \in [Pipelines -> Seq(Stages)]
         /\ state' \in [Pipelines -> Seq(Outputs)]
<1>1. /\ \A S : <<>> \in Seq(S)
      /\ Len(<<>>) = 0
      /\ 0 \in 0 .. MaxBatches /\ MaxStages \in Nat
  BY BoundsAssumption
<1>2. BatchShape'
  BY <1>1 DEF Close, TypeInv, TypeOK, BatchShape
<1>. QED
  BY <1>1, <1>2 DEF Close, TypeInv, TypeOK

LEMMA OpenType ==
  ASSUME TypeInv, NEW p \in Pipelines, Open(p) PROVE TypeInv'
<1>1. opened \in 0 .. MaxBatches /\ MaxBatches \in Nat /\ opened' = opened + 1 /\ opened < MaxBatches
  BY BoundsAssumption DEF TypeInv, TypeOK, Open
<1>2. \A q \in Pipelines : current[q] \in Nat
  BY <1>1 DEF TypeInv, TypeOK
<1>3. TypeOK'
  BY <1>1 DEF TypeInv, TypeOK, Open, claims
<1>4. BatchShape'
  <2>1. \A q \in Pipelines : phase[q] # "idle" => current[q] # opened + 1
    BY <1>1, <1>2 DEF TypeInv, BatchShape
  <2>. QED
    BY <1>1, <1>2, <2>1 DEF TypeInv, TypeOK, BatchShape, Open
<1>. QED
  BY <1>3, <1>4 DEF TypeInv

LEMMA AddType ==
  ASSUME TypeInv, NEW p \in Pipelines, NEW s \in Stages, Add(p, s) PROVE TypeInv'
<1>1. /\ items[p] \in Seq(Stages) /\ Len(items[p]) \in Nat /\ Len(items[p]) < MaxStages
      /\ MaxStages \in Nat /\ current[p] \in Batches
  BY BoundsAssumption, LenProperties DEF TypeInv, TypeOK, BatchShape, Add, Batches
<1>2. /\ Append(items[p], s) \in Seq(Stages)
      /\ Len(Append(items[p], s)) = Len(items[p]) + 1
  BY <1>1, AppendProperties
<1>3. [batch |-> current[p], index |-> Len(items[p]) + 1, kind |-> s.kind] \in Slots
  BY <1>1 DEF Slots, Stages
<1>4. slots' \subseteq Slots
  BY <1>3 DEF Add, TypeInv, TypeOK
<1>5. TypeOK'
  BY <1>2, <1>4 DEF TypeInv, TypeOK, Add
<1>6. BatchShape'
  BY <1>1, <1>2 DEF TypeInv, TypeOK, BatchShape, Add
<1>. QED
  BY <1>5, <1>6 DEF TypeInv

LEMMA SendType ==
  ASSUME TypeInv, NEW p \in Pipelines, Send(p) PROVE TypeInv'
<1>1. TypeOK'
  BY DEF TypeInv, TypeOK, Send, claims
<1>2. BatchShape'
  BY DEF TypeInv, TypeOK, BatchShape, Send
<1>. QED
  BY <1>1, <1>2 DEF TypeInv

LEMMA FailureType ==
  ASSUME TypeInv, NEW p \in Pipelines, Drop(p) \/ CallFails(p) PROVE TypeInv'
<1>1. Close(p) /\ UNCHANGED <<opened, priors, since, audit, results, claims>>
  BY DEF Drop, CallFails
<1>. QED
  BY <1>1, CloseKeepsShape DEF TypeInv, TypeOK, claims

LEMMA ComposingType ==
  ASSUME TypeInv, NEW p \in Pipelines,
         RecordFails(p) \/ \E n \in 0 .. MaxStages : ComposeFails(p, n)
  PROVE  TypeInv'
<1>1. PICK n \in 0 .. Len(items[p]) : priors' = [priors EXCEPT ![p] = @ \o Composed(p, n)]
  <2>1. Len(items[p]) \in Nat
    BY LenProperties DEF TypeInv, TypeOK
  <2>2. CASE RecordFails(p)
    <3>1. Len(items[p]) \in 0 .. Len(items[p])
      BY <2>1
    <3>2. priors' = [priors EXCEPT ![p] = @ \o Composed(p, Len(items[p]))]
      BY <2>2 DEF RecordFails
    <3>. QED
      BY <3>1, <3>2
  <2>3. CASE \E n \in 0 .. MaxStages : ComposeFails(p, n)
    <3>. PICK n \in 0 .. MaxStages : ComposeFails(p, n)
      BY <2>3
    <3>1. n \in 0 .. Len(items[p])
      BY <2>1, BoundsAssumption DEF ComposeFails
    <3>. QED
      BY <3>1 DEF ComposeFails
  <2>. QED
    BY <2>2, <2>3
<1>2. /\ phase[p] # "idle" /\ Close(p)
      /\ UNCHANGED <<opened, since, audit, results, claims>>
  BY DEF RecordFails, ComposeFails
<1>3. priors[p] \o Composed(p, n) \in Seq(Outputs)
  BY <1>2, ComposedType, ConcatProperties DEF TypeInv, TypeOK
<1>4. priors' \in [Pipelines -> Seq(Outputs)]
  BY <1>1, <1>3 DEF TypeInv, TypeOK
<1>. QED
  BY <1>2, <1>4, CloseKeepsShape DEF TypeInv, TypeOK, claims

\* What Settle keeps is a record.
LEMMA SettledRecord ==
  ASSUME TypeInv, NEW p \in Pipelines, NEW t \in Tokens, Settle(p, t)
  PROVE  [pipeline |-> p, batch |-> current[p], prior |-> state[p],
          output |-> Composed(p, Len(items[p])), since |-> since[p], tokens |-> t] \in Records
<1>1. Composed(p, Len(items[p])) \in Seq(Outputs)
  <2>1. Len(items[p]) \in Nat
    BY LenProperties DEF TypeInv, TypeOK
  <2>. QED
    BY <2>1, ComposedType DEF Settle
<1>. QED
  BY <1>1 DEF Settle, Records, TypeInv, TypeOK, BatchShape, Batches

LEMMA SettleType ==
  ASSUME TypeInv, NEW p \in Pipelines, NEW t \in Tokens, Settle(p, t) PROVE TypeInv'
<1>. DEFINE out == Composed(p, Len(items[p]))
            record == [pipeline |-> p, batch |-> current[p], prior |-> state[p],
                       output |-> out, since |-> since[p], tokens |-> t]
<1>1. out \in Seq(Outputs)
  <2>1. Len(items[p]) \in Nat
    BY LenProperties DEF TypeInv, TypeOK
  <2>. QED
    BY <2>1, ComposedType DEF Settle
<1>2. /\ priors' = [priors EXCEPT ![p] = @ \o out]
      /\ audit' = Append(audit, record)
      /\ results' = [results EXCEPT ![current[p]] = out]
      /\ Close(p) /\ UNCHANGED <<opened, since, claims>>
  BY DEF Settle
<1>3. record \in Records
  BY SettledRecord
<1>4. audit' \in Seq(Records)
  BY <1>2, <1>3, AppendProperties DEF TypeInv, TypeOK
<1>5. priors' \in [Pipelines -> Seq(Outputs)]
  <2>1. priors[p] \o out \in Seq(Outputs)
    BY <1>1, ConcatProperties DEF TypeInv, TypeOK
  <2>. QED
    BY <1>2, <2>1 DEF TypeInv, TypeOK
<1>6. results' \in [Batches -> Seq(Outputs)]
  BY <1>1, <1>2 DEF TypeInv, TypeOK
<1>. QED
  BY <1>2, <1>4, <1>5, <1>6, CloseKeepsShape DEF TypeInv, TypeOK, claims

LEMMA TakeType ==
  ASSUME TypeInv, NEW slot \in slots, NEW b \in Batches, Take(slot, b) PROVE TypeInv'
<1>1. ASSUME NEW i \in {slot.index} \cap DOMAIN results[b]
      PROVE  <<b, i>> \in Batches \X (1 .. MaxStages) /\ <<slot, results[b][i]>> \in Slots \X Outputs
  BY <1>1, ElementOfSeq, LenProperties DEF TypeInv, TypeOK, Slots
<1>2. /\ slots' \subseteq Slots
      /\ claimed' \subseteq Batches \X (1 .. MaxStages)
      /\ handed' \subseteq Slots \X Outputs
  BY <1>1 DEF Take, TypeInv, TypeOK
<1>. QED
  BY <1>2 DEF Take, TypeInv, TypeOK, BatchShape, batching

LEMMA ResetType ==
  ASSUME TypeInv, NEW p \in Pipelines, Reset(p) PROVE TypeInv'
<1>1. /\ priors' \in [Pipelines -> Seq(Outputs)]
      /\ since' \in [Pipelines -> 1 .. MaxBatches + 1]
  <2>1. opened + 1 \in 1 .. MaxBatches + 1 /\ <<>> \in Seq(Outputs)
    BY BoundsAssumption DEF TypeInv, TypeOK
  <2>. QED
    BY <2>1 DEF Reset, TypeInv, TypeOK
<1>. QED
  BY <1>1 DEF Reset, TypeInv, TypeOK, BatchShape, batching, claims

\* Every variable keeps to its type, and every pipeline's open batch is its own.
THEOREM TypeCorrect == Spec => []TypeInv
<1>1. TypeInv /\ [Next]_vars => TypeInv'
  <2>. SUFFICES ASSUME TypeInv, [Next]_vars PROVE TypeInv'
    OBVIOUS
  <2>1. CASE \E slot \in slots, b \in Batches : Take(slot, b)
    BY <2>1, TakeType
  <2>2. ASSUME NEW p \in Pipelines, Step(p) PROVE TypeInv'
    BY <2>2, OpenType, AddType, SendType, FailureType, ComposingType, SettleType, ResetType
       DEF Step
  <2>3. CASE UNCHANGED vars
    BY <2>3 DEF vars, batching, claims, TypeInv, TypeOK, BatchShape
  <2>. QED
    BY <2>1, <2>2, <2>3 DEF Next
<1>. QED
  BY InitType, <1>1, PTL DEF Spec

-----------------------------------------------------------------------------
(* The record *)

\* Each call has one record, made when its batch ended; what a caller may claim
\* of a batch is what that record holds.
OneRecord ==
  /\ \A k \in DOMAIN audit : audit[k].batch \in 1 .. opened
  /\ \A p \in Pipelines : phase[p] # "idle" =>
       \A k \in DOMAIN audit : audit[k].batch # current[p]
  /\ \A j, k \in DOMAIN audit : audit[j].batch = audit[k].batch => j = k

ResultsRecorded ==
  \A b \in Batches : \A i \in DOMAIN results[b] : \E k \in DOMAIN audit :
    /\ audit[k].batch = b
    /\ i \in DOMAIN audit[k].output /\ audit[k].output[i] = results[b][i]

HandedRecorded ==
  \A h \in handed : \E k \in DOMAIN audit :
    /\ audit[k].batch = h[2].batch
    /\ h[2].index \in DOMAIN audit[k].output /\ audit[k].output[h[2].index] = h[2]

RecordInv == OneRecord /\ ResultsRecorded /\ HandedRecorded

LEMMA RecordInvImplies == RecordInv => HandedIsAudited
BY DEF RecordInv, OneRecord, HandedRecorded, HandedIsAudited

LEMMA InitRecord == Init => RecordInv
BY DEF Init, RecordInv, OneRecord, ResultsRecorded, HandedRecorded

\* A step that adds no record, result or claim, and opens no batch.
LEMMA QuietKeepsRecord ==
  ASSUME RecordInv, UNCHANGED <<opened, audit, results, handed>>,
         \A p \in Pipelines : phase'[p] # "idle" => phase[p] # "idle" /\ current'[p] = current[p]
  PROVE  RecordInv'
BY DEF RecordInv, OneRecord, ResultsRecorded, HandedRecorded

\* The other pipelines' batches stay open when one ends.
LEMMA CloseKeepsOthers ==
  ASSUME TypeInv, NEW p \in Pipelines, Close(p)
  PROVE  \A q \in Pipelines : phase'[q] # "idle" =>
           q # p /\ phase[q] # "idle" /\ current'[q] = current[q]
BY DEF Close, TypeInv, TypeOK

LEMMA OpenKeepsRecord ==
  ASSUME TypeInv, RecordInv, NEW p \in Pipelines, Open(p) PROVE RecordInv'
<1>1. /\ opened' = opened + 1 /\ opened \in Nat
      /\ UNCHANGED <<audit, results, handed>>
  BY BoundsAssumption DEF Open, claims, TypeInv, TypeOK
<1>2. \A q \in Pipelines : phase'[q] # "idle" =>
        \/ current'[q] = opened + 1
        \/ phase[q] # "idle" /\ current'[q] = current[q]
  BY DEF Open, TypeInv, TypeOK
<1>3. OneRecord'
  <2>1. \A k \in DOMAIN audit : audit[k].batch \in 1 .. opened'
    BY <1>1 DEF RecordInv, OneRecord
  <2>2. \A k \in DOMAIN audit : audit[k].batch # opened + 1
    BY <1>1 DEF RecordInv, OneRecord
  <2>. QED
    BY <1>1, <1>2, <2>1, <2>2 DEF RecordInv, OneRecord
<1>. QED
  BY <1>1, <1>3 DEF RecordInv, ResultsRecorded, HandedRecorded

LEMMA SettleKeepsRecord ==
  ASSUME TypeInv, RecordInv, NEW p \in Pipelines, NEW t \in Tokens, Settle(p, t)
  PROVE  RecordInv'
<1>. DEFINE out == Composed(p, Len(items[p]))
            record == [pipeline |-> p, batch |-> current[p], prior |-> state[p],
                       output |-> out, since |-> since[p], tokens |-> t]
            last == Len(audit) + 1
<1>1. /\ audit' = Append(audit, record)
      /\ results' = [results EXCEPT ![current[p]] = out]
      /\ Close(p) /\ UNCHANGED <<opened, handed>>
  BY DEF Settle, claims
<1>2. /\ DOMAIN audit = 1 .. Len(audit) /\ Len(audit) \in Nat
      /\ DOMAIN audit' = 1 .. last
      /\ \A k \in DOMAIN audit : audit'[k] = audit[k]
      /\ audit'[last] = record
  <2>1. audit \in Seq(Records)
    BY DEF TypeInv, TypeOK
  <2>2. audit \in Seq(Records \cup {record})
    BY <2>1
  <2>. QED
    BY <1>1, <2>2, AppendProperties, LenProperties
<1>3. phase[p] # "idle" /\ current[p] \in 1 .. opened
  BY DEF Settle, TypeInv, BatchShape
<1>4. OneRecord'
  <2>1. \A k \in DOMAIN audit' : audit'[k].batch \in 1 .. opened'
    BY <1>1, <1>2, <1>3 DEF RecordInv, OneRecord
  <2>2. \A q \in Pipelines : phase'[q] # "idle" =>
          \A k \in DOMAIN audit' : audit'[k].batch # current'[q]
    <3>. SUFFICES ASSUME NEW q \in Pipelines, phase'[q] # "idle", NEW k \in DOMAIN audit'
                  PROVE  audit'[k].batch # current'[q]
      OBVIOUS
    <3>1. q # p /\ phase[q] # "idle" /\ current'[q] = current[q]
      BY <1>1, CloseKeepsOthers
    <3>2. CASE k \in DOMAIN audit
      BY <1>2, <3>1, <3>2 DEF RecordInv, OneRecord
    <3>3. CASE k = last
      BY <1>2, <1>3, <3>1, <3>3 DEF TypeInv, BatchShape
    <3>. QED
      BY <1>2, <3>2, <3>3
  <2>3. \A j, k \in DOMAIN audit' : audit'[j].batch = audit'[k].batch => j = k
    <3>1. \A k \in DOMAIN audit : audit'[k].batch # record.batch
      BY <1>2, <1>3 DEF RecordInv, OneRecord
    <3>. QED
      BY <1>2, <3>1 DEF RecordInv, OneRecord
  <2>. QED
    BY <2>1, <2>2, <2>3 DEF OneRecord
<1>5. ResultsRecorded'
  <2>. SUFFICES ASSUME NEW b \in Batches, NEW i \in DOMAIN results'[b]
                PROVE  \E k \in DOMAIN audit' :
                         /\ audit'[k].batch = b
                         /\ i \in DOMAIN audit'[k].output /\ audit'[k].output[i] = results'[b][i]
    BY DEF ResultsRecorded
  <2>1. CASE b = current[p]
    <3>1. results'[b] = out
      BY <1>1, <2>1 DEF TypeInv, TypeOK
    <3>. QED
      BY <1>2, <2>1, <3>1
  <2>2. CASE b # current[p]
    <3>1. results'[b] = results[b]
      BY <1>1, <2>2 DEF TypeInv, TypeOK
    <3>. QED
      BY <1>2, <3>1 DEF RecordInv, ResultsRecorded
  <2>. QED
    BY <2>1, <2>2
<1>6. HandedRecorded'
  BY <1>1, <1>2 DEF RecordInv, HandedRecorded
<1>. QED
  BY <1>4, <1>5, <1>6 DEF RecordInv

LEMMA TakeKeepsRecord ==
  ASSUME TypeInv, SlotInv, RecordInv, NEW slot \in slots, NEW b \in Batches, Take(slot, b)
  PROVE  RecordInv'
<1>1. UNCHANGED <<opened, phase, current, audit, results>>
  BY DEF Take, batching
<1>2. \A h \in handed' \ handed : \E i \in DOMAIN results[b] : h[2] = results[b][i]
  <2>1. \A h \in handed' \ handed : \E i \in DOMAIN results[b] : h = <<slot, results[b][i]>>
    BY DEF Take
  <2>. QED
    BY <2>1
<1>3. \A i \in DOMAIN results[b] : results[b][i].batch = b /\ results[b][i].index = i
  BY DEF SlotInv, PlacedResults
<1>4. HandedRecorded'
  <2>. SUFFICES ASSUME NEW h \in handed'
                PROVE  \E k \in DOMAIN audit :
                         /\ audit[k].batch = h[2].batch
                         /\ h[2].index \in DOMAIN audit[k].output
                         /\ audit[k].output[h[2].index] = h[2]
    BY <1>1 DEF HandedRecorded
  <2>1. CASE h \in handed
    BY <2>1 DEF RecordInv, HandedRecorded
  <2>2. CASE h \notin handed
    <3>. PICK i \in DOMAIN results[b] : h[2] = results[b][i]
      BY <1>2, <2>2
    <3>1. h[2].batch = b /\ h[2].index = i
      BY <1>3
    <3>. QED
      BY <3>1 DEF RecordInv, ResultsRecorded
  <2>. QED
    BY <2>1, <2>2
<1>. QED
  BY <1>1, <1>4 DEF RecordInv, OneRecord, ResultsRecorded

LEMMA RecordsKept == Spec => []RecordInv
<1>1. TypeInv /\ SlotInv /\ RecordInv /\ [Next]_vars => RecordInv'
  <2>. SUFFICES ASSUME TypeInv, SlotInv, RecordInv, [Next]_vars PROVE RecordInv'
    OBVIOUS
  <2>1. CASE \E slot \in slots, b \in Batches : Take(slot, b)
    BY <2>1, TakeKeepsRecord
  <2>2. ASSUME NEW p \in Pipelines, Step(p) PROVE RecordInv'
    <3>1. CASE Open(p)
      BY <3>1, OpenKeepsRecord
    <3>2. CASE \E t \in Tokens : Settle(p, t)
      BY <3>2, SettleKeepsRecord
    <3>3. CASE Drop(p) \/ CallFails(p) \/ RecordFails(p) \/ \E n \in 0 .. MaxStages : ComposeFails(p, n)
      <4>1. Close(p) /\ UNCHANGED <<opened, audit, results, handed>>
        BY <3>3 DEF Drop, CallFails, RecordFails, ComposeFails, claims
      <4>. QED
        BY <4>1, CloseKeepsOthers, QuietKeepsRecord
    <3>4. CASE Send(p)
      <4>1. /\ UNCHANGED <<opened, audit, results, handed, current>>
            /\ \A q \in Pipelines : phase'[q] # "idle" => phase[q] # "idle"
        BY <3>4 DEF Send, claims, TypeInv, TypeOK
      <4>. QED
        BY <4>1, QuietKeepsRecord
    <3>5. CASE \E s \in Stages : Add(p, s)
      <4>1. UNCHANGED <<opened, audit, results, handed, current, phase>>
        BY <3>5 DEF Add
      <4>. QED
        BY <4>1, QuietKeepsRecord
    <3>6. CASE Reset(p)
      <4>1. UNCHANGED <<opened, audit, results, handed, current, phase>>
        BY <3>6 DEF Reset, batching, claims
      <4>. QED
        BY <4>1, QuietKeepsRecord
    <3>. QED
      BY <2>2, <3>1, <3>2, <3>3, <3>4, <3>5, <3>6 DEF Step
  <2>3. CASE UNCHANGED vars
    <3>1. UNCHANGED <<opened, audit, results, handed, current, phase>>
      BY <2>3 DEF vars, batching, claims
    <3>. QED
      BY <3>1, QuietKeepsRecord
  <2>. QED
    BY <2>1, <2>2, <2>3 DEF Next
<1>2. Spec => []SlotInv
  BY SlotsSound
<1>. QED
  BY InitRecord, TypeCorrect, <1>1, <1>2, PTL DEF Spec

\* Whatever a caller gets out of a batch is on the record, once: a batch whose
\* record could not be kept hands out nothing (Batch::send, Audit::push).
THEOREM HandedOnRecord == Spec => []HandedIsAudited
BY RecordsKept, RecordInvImplies, PTL

-----------------------------------------------------------------------------
(* Whose priors *)

\* Nothing in the state of a recorded call is of its own batch, of a later one or from before the reset,
\* and what is on record at all was recorded by the same pipeline.
NothingForeign ==
  \A k \in DOMAIN audit : \A i \in DOMAIN audit[k].prior :
    /\ audit[k].prior[i].batch \in audit[k].since .. audit[k].batch - 1
    /\ \A j \in DOMAIN audit :
         audit[j].batch = audit[k].prior[i].batch => audit[j].pipeline = audit[k].pipeline

\* The priors of a pipeline are from batches opened since its reset, all ended,
\* none of them another pipeline's.
PriorsOwn ==
  \A p \in Pipelines : \A i \in DOMAIN priors[p] :
    /\ priors[p][i].batch \in since[p] .. opened
    /\ phase[p] # "idle" => priors[p][i].batch < current[p]
    /\ \A q \in Pipelines : phase[q] # "idle" => priors[p][i].batch # current[q]
    /\ \A j \in DOMAIN audit : audit[j].batch = priors[p][i].batch => audit[j].pipeline = p

\* A call that is out was sent with the priors as they still are.
StateIsPriors ==
  \A p \in Pipelines : phase[p] = "asked" => state[p] = priors[p]

\* No batch that is open is in the state of a recorded call.
OpenIsUnseen ==
  \A k \in DOMAIN audit : \A i \in DOMAIN audit[k].prior : \A q \in Pipelines :
    phase[q] # "idle" => audit[k].prior[i].batch # current[q]

\* A reset is of no batch to come.
SinceOpened ==
  \A p \in Pipelines :
    since[p] <= opened + 1 /\ (phase[p] # "idle" => since[p] <= current[p])

\* Together they are inductive.
PriorsInv ==
  SinceOpened /\ PriorsOwn /\ StateIsPriors /\ OpenIsUnseen /\ NothingForeign

\* No pipeline starts with priors.
LEMMA InitPriors == Init => PriorsInv
<1>. SUFFICES ASSUME Init PROVE PriorsInv
  OBVIOUS
<1>1. /\ audit = <<>> /\ DOMAIN audit = {} /\ opened = 0
      /\ \A p \in Pipelines : /\ priors[p] = <<>> /\ DOMAIN priors[p] = {}
                             /\ phase[p] = "idle" /\ since[p] = 1
  BY DEF Init
<1>. QED
  BY <1>1 DEF PriorsInv, SinceOpened, PriorsOwn, StateIsPriors, OpenIsUnseen,
              NothingForeign

-----------------------------------------------------------------------------
(* Steps that leave priors and log alone *)

\* A step that opens no batch and leaves log and priors alone.
LEMMA QuietKeepsPriors ==
  ASSUME PriorsInv, UNCHANGED <<opened, since, priors, audit>>,
         \A p \in Pipelines : phase'[p] # "idle" => phase[p] # "idle" /\ current'[p] = current[p],
         \A p \in Pipelines : phase'[p] = "asked" => state'[p] = priors[p]
  PROVE  PriorsInv'
<1>1. SinceOpened' /\ PriorsOwn' /\ OpenIsUnseen'
  BY DEF PriorsInv, SinceOpened, PriorsOwn, OpenIsUnseen
<1>2. NothingForeign'
  BY DEF PriorsInv, NothingForeign
<1>3. StateIsPriors'
  BY DEF StateIsPriors
<1>. QED
  BY <1>1, <1>2, <1>3 DEF PriorsInv

\* A new batch is nobody's prior yet.
LEMMA OpenKeepsPriors ==
  ASSUME TypeInv, RecordInv, PriorsInv, NEW p \in Pipelines, Open(p) PROVE PriorsInv'
<1>1. /\ opened' = opened + 1 /\ opened \in Nat
      /\ UNCHANGED <<since, priors, audit, state>>
  BY BoundsAssumption DEF Open, TypeInv, TypeOK
<1>2. \A q \in Pipelines :
        /\ phase'[q] # "idle" => \/ current'[q] = opened + 1
                                 \/ phase[q] # "idle" /\ current'[q] = current[q]
        /\ phase'[q] = "asked" => phase[q] = "asked"
  BY DEF Open, TypeInv, TypeOK
<1>3. \A q \in Pipelines : since[q] \in Nat
  BY BoundsAssumption DEF TypeInv, TypeOK
<1>4. SinceOpened'
  BY <1>1, <1>2, <1>3 DEF PriorsInv, SinceOpened
<1>5. PriorsOwn'
  BY <1>1, <1>2, <1>3 DEF PriorsInv, PriorsOwn
<1>6. OpenIsUnseen'
  <2>1. \A k \in DOMAIN audit : audit[k].batch \in 1 .. opened /\ audit[k].since \in Nat
    <3>1. \A k \in DOMAIN audit : audit[k] \in Records
      BY ElementOfSeq, LenProperties DEF TypeInv, TypeOK
    <3>. QED
      BY <3>1, BoundsAssumption DEF RecordInv, OneRecord, Records
  <2>2. \A k \in DOMAIN audit : \A i \in DOMAIN audit[k].prior :
          audit[k].prior[i].batch # opened + 1
    BY <1>1, <2>1 DEF PriorsInv, NothingForeign
  <2>. QED
    BY <1>1, <1>2, <2>2 DEF PriorsInv, OpenIsUnseen
<1>7. NothingForeign'
  BY <1>1 DEF PriorsInv, NothingForeign
<1>8. StateIsPriors'
  BY <1>1, <1>2 DEF PriorsInv, StateIsPriors
<1>. QED
  BY <1>4, <1>5, <1>6, <1>7, <1>8 DEF PriorsInv

\* A reset empties the priors of one pipeline.
LEMMA ResetKeepsPriors ==
  ASSUME TypeInv, RecordInv, PriorsInv, NEW p \in Pipelines, Reset(p) PROVE PriorsInv'
<1>1. /\ priors' = [priors EXCEPT ![p] = <<>>]
      /\ since' = [since EXCEPT ![p] = opened + 1]
      /\ phase[p] = "idle"
      /\ UNCHANGED <<opened, phase, current, state, audit>>
  BY DEF Reset, batching
<1>2. \A q \in Pipelines :
        /\ q = p => priors'[q] = <<>> /\ DOMAIN priors'[q] = {} /\ since'[q] = opened + 1
        /\ q # p => priors'[q] = priors[q] /\ since'[q] = since[q]
  <2>1. DOMAIN <<>> = {}
    OBVIOUS
  <2>. QED
    BY <1>1, <2>1 DEF TypeInv, TypeOK
<1>3. opened \in Nat
  BY BoundsAssumption DEF TypeInv, TypeOK
<1>4. SinceOpened' /\ PriorsOwn' /\ StateIsPriors'
  BY <1>1, <1>2, <1>3 DEF PriorsInv, SinceOpened, PriorsOwn, StateIsPriors
<1>5. OpenIsUnseen' /\ NothingForeign'
  BY <1>1 DEF PriorsInv, OpenIsUnseen, NothingForeign
<1>. QED
  BY <1>4, <1>5 DEF PriorsInv

-----------------------------------------------------------------------------
(* Steps that extend the priors *)

\* The batch of p ends, and the outputs of its first n stages are priors.
Extends(p, n) ==
  /\ phase[p] = "asked"
  /\ priors' = [priors EXCEPT ![p] = @ \o Composed(p, n)]
  /\ Close(p)
  /\ UNCHANGED <<opened, since>>

\* What was there stays there, in its place; what is new is of the batch that ended.
LEMMA ExtendedPriors ==
  ASSUME TypeInv, NEW p \in Pipelines, NEW n \in 0 .. Len(items[p]), Extends(p, n)
  PROVE  \A q \in Pipelines : \A i \in DOMAIN priors'[q] :
           \/ i \in DOMAIN priors[q] /\ priors'[q][i] = priors[q][i]
           \/ q = p /\ priors'[q][i].batch = current[p]
<1>. DEFINE out == Composed(p, n)
<1>1. out \in Seq(Outputs) /\ priors[p] \in Seq(Outputs)
  BY ComposedType DEF Extends, TypeInv, TypeOK
<1>2. /\ priors'[p] = priors[p] \o out
      /\ \A q \in Pipelines \ {p} : priors'[q] = priors[q]
  BY DEF Extends, TypeInv, TypeOK
<1>3. \A i \in DOMAIN out : out[i].batch = current[p]
  BY DEF Composed
<1>4. \A i \in DOMAIN priors'[p] :
        \/ i \in DOMAIN priors[p] /\ priors'[p][i] = priors[p][i]
        \/ priors'[p][i].batch = current[p]
  <2>1. /\ Len(priors[p]) \in Nat /\ Len(out) \in Nat
        /\ DOMAIN priors[p] = 1 .. Len(priors[p]) /\ DOMAIN out = 1 .. Len(out)
        /\ DOMAIN priors'[p] = 1 .. Len(priors[p]) + Len(out)
        /\ \A i \in 1 .. Len(priors[p]) + Len(out) :
             priors'[p][i] = IF i <= Len(priors[p]) THEN priors[p][i] ELSE out[i - Len(priors[p])]
    BY <1>1, <1>2, ConcatProperties, LenProperties
  <2>2. ASSUME NEW i \in DOMAIN priors'[p], i > Len(priors[p])
        PROVE  priors'[p][i].batch = current[p]
    <3>1. i - Len(priors[p]) \in DOMAIN out /\ priors'[p][i] = out[i - Len(priors[p])]
      BY <2>1, <2>2
    <3>. QED
      BY <1>3, <3>1
  <2>. QED
    BY <2>1, <2>2
<1>. QED
  BY <1>2, <1>4

\* The priors remain the pipeline's own, as far as the log reached before.
LEMMA ExtendedOwn ==
  ASSUME TypeInv, RecordInv, PriorsInv, NEW p \in Pipelines, NEW n \in 0 .. Len(items[p]),
         Extends(p, n)
  PROVE  /\ SinceOpened'
         /\ StateIsPriors'
         /\ \A q \in Pipelines : \A i \in DOMAIN priors'[q] :
              /\ priors'[q][i].batch \in since[q] .. opened
              /\ phase'[q] # "idle" => priors'[q][i].batch < current'[q]
              /\ \A r \in Pipelines : phase'[r] # "idle" => priors'[q][i].batch # current'[r]
              /\ \A j \in DOMAIN audit :
                   audit[j].batch = priors'[q][i].batch => audit[j].pipeline = q
<1>1. /\ phase[p] = "asked" /\ Close(p) /\ UNCHANGED <<opened, since>>
      /\ \A q \in Pipelines \ {p} : priors'[q] = priors[q] /\ state'[q] = state[q]
                                     /\ phase'[q] = phase[q]
      /\ phase'[p] = "idle"
  BY DEF Extends, Close, TypeInv, TypeOK
<1>2. \A q \in Pipelines : phase'[q] # "idle" =>
        q # p /\ phase[q] # "idle" /\ current'[q] = current[q]
  BY <1>1, CloseKeepsOthers
<1>3. SinceOpened'
  BY <1>1, <1>2 DEF PriorsInv, SinceOpened
<1>4. StateIsPriors'
  BY <1>1 DEF PriorsInv, StateIsPriors
<1>5. ASSUME NEW q \in Pipelines, NEW i \in DOMAIN priors'[q]
      PROVE  /\ priors'[q][i].batch \in since[q] .. opened
             /\ phase'[q] # "idle" => priors'[q][i].batch < current'[q]
             /\ \A r \in Pipelines : phase'[r] # "idle" => priors'[q][i].batch # current'[r]
             /\ \A j \in DOMAIN audit :
                  audit[j].batch = priors'[q][i].batch => audit[j].pipeline = q
  <2>1. CASE i \in DOMAIN priors[q] /\ priors'[q][i] = priors[q][i]
    BY <1>2, <2>1 DEF PriorsInv, PriorsOwn
  <2>2. CASE q = p /\ priors'[q][i].batch = current[p]
    <3>1. current[p] \in since[p] .. opened
      BY <1>1, BoundsAssumption DEF PriorsInv, SinceOpened, TypeInv, TypeOK, BatchShape
    <3>2. \A r \in Pipelines : phase'[r] # "idle" => current'[r] # current[p]
      BY <1>1, <1>2 DEF TypeInv, BatchShape
    <3>3. \A j \in DOMAIN audit : audit[j].batch # current[p]
      BY <1>1 DEF RecordInv, OneRecord
    <3>. QED
      BY <1>1, <2>2, <3>1, <3>2, <3>3
  <2>. QED
    BY <2>1, <2>2, ExtendedPriors
<1>. QED
  BY <1>3, <1>4, <1>5

\* A call that fails late has composed some of its stages, which are priors then.
LEMMA FailureExtends ==
  ASSUME TypeInv, NEW p \in Pipelines,
         RecordFails(p) \/ \E n \in 0 .. MaxStages : ComposeFails(p, n)
  PROVE  UNCHANGED audit /\ \E n \in 0 .. Len(items[p]) : Extends(p, n)
<1>1. Len(items[p]) \in Nat
  BY LenProperties DEF TypeInv, TypeOK
<1>2. CASE RecordFails(p)
  <2>1. Extends(p, Len(items[p]))
    BY <1>2 DEF RecordFails, Extends
  <2>. QED
    BY <1>1, <1>2, <2>1 DEF RecordFails
<1>3. CASE \E n \in 0 .. MaxStages : ComposeFails(p, n)
  <2>. PICK n \in 0 .. MaxStages : ComposeFails(p, n)
    BY <1>3
  <2>1. n \in 0 .. Len(items[p]) /\ Extends(p, n)
    BY <1>1, BoundsAssumption DEF ComposeFails, Extends
  <2>. QED
    BY <2>1 DEF ComposeFails
<1>. QED
  BY <1>2, <1>3

\* Outputs that no record was kept of.
LEMMA UnrecordedKeepsPriors ==
  ASSUME TypeInv, RecordInv, PriorsInv, NEW p \in Pipelines, NEW n \in 0 .. Len(items[p]),
         Extends(p, n), UNCHANGED audit
  PROVE  PriorsInv'
<1>1. SinceOpened' /\ StateIsPriors' /\ PriorsOwn'
  BY ExtendedOwn DEF PriorsOwn, Extends
<1>2. OpenIsUnseen'
  BY CloseKeepsOthers DEF PriorsInv, OpenIsUnseen, Extends
<1>3. NothingForeign'
  BY DEF PriorsInv, NothingForeign
<1>. QED
  BY <1>1, <1>2, <1>3 DEF PriorsInv

\* Outputs on record: their call was sent with the priors before them.
LEMMA SettleKeepsPriors ==
  ASSUME TypeInv, RecordInv, PriorsInv, NEW p \in Pipelines, NEW t \in Tokens, Settle(p, t)
  PROVE  PriorsInv'
<1>. DEFINE out == Composed(p, Len(items[p]))
            record == [pipeline |-> p, batch |-> current[p], prior |-> state[p],
                       output |-> out, since |-> since[p], tokens |-> t]
            last == Len(audit) + 1
<1>1. /\ audit' = Append(audit, record)
      /\ Extends(p, Len(items[p]))
      /\ Len(items[p]) \in 0 .. Len(items[p])
  <2>1. Len(items[p]) \in Nat
    BY LenProperties DEF TypeInv, TypeOK
  <2>. QED
    BY <2>1 DEF Settle, Extends
<1>2. /\ DOMAIN audit = 1 .. Len(audit) /\ Len(audit) \in Nat
      /\ DOMAIN audit' = 1 .. last
      /\ \A k \in DOMAIN audit : k < last /\ audit'[k] = audit[k] /\ audit[k] \in Records
      /\ audit'[last] = record
  <2>1. audit \in Seq(Records)
    BY DEF TypeInv, TypeOK
  <2>2. audit \in Seq(Records \cup {record})
    BY <2>1
  <2>. QED
    BY <1>1, <2>1, <2>2, AppendProperties, LenProperties, ElementOfSeq
<1>3. /\ phase[p] = "asked" /\ Close(p) /\ UNCHANGED <<opened, since>>
      /\ state[p] = priors[p]
  BY <1>1 DEF Extends, PriorsInv, StateIsPriors
<1>4. \A q \in Pipelines : phase'[q] # "idle" =>
        q # p /\ phase[q] # "idle" /\ current'[q] = current[q]
  BY <1>3, CloseKeepsOthers
<1>. HIDE DEF out
<1>5. PriorsOwn'
  <2>. SUFFICES ASSUME NEW q \in Pipelines, NEW i \in DOMAIN priors'[q], NEW j \in DOMAIN audit',
                       audit'[j].batch = priors'[q][i].batch
                PROVE  audit'[j].pipeline = q
    BY <1>1, <1>3, ExtendedOwn DEF PriorsOwn
  <2>1. CASE j \in DOMAIN audit
    BY <1>1, <1>2, <2>1, ExtendedOwn
  <2>2. CASE j = last
    <3>1. priors'[q][i].batch = current[p]
      BY <1>2, <2>2
    <3>2. q # p => priors'[q] = priors[q]
      BY <1>1 DEF Extends, TypeInv, TypeOK
    <3>3. q # p => priors[q][i].batch # current[p]
      BY <1>3, <3>2 DEF PriorsInv, PriorsOwn
    <3>. QED
      BY <1>2, <2>2, <3>1, <3>2, <3>3
  <2>. QED
    BY <1>2, <2>1, <2>2
<1>6. OpenIsUnseen'
  <2>1. \A i \in DOMAIN record.prior : \A q \in Pipelines :
          phase[q] # "idle" => record.prior[i].batch # current[q]
    BY <1>3 DEF PriorsInv, PriorsOwn
  <2>. QED
    BY <1>2, <1>4, <2>1 DEF PriorsInv, OpenIsUnseen
<1>7. NothingForeign'
  <2>. SUFFICES ASSUME NEW k \in DOMAIN audit', NEW i \in DOMAIN audit'[k].prior
                PROVE  /\ audit'[k].prior[i].batch \in audit'[k].since .. audit'[k].batch - 1
                       /\ \A j \in DOMAIN audit' :
                            audit'[j].batch = audit'[k].prior[i].batch
                              => audit'[j].pipeline = audit'[k].pipeline
    BY DEF NothingForeign
  <2>1. CASE k \in DOMAIN audit
    <3>1. audit[k].prior[i].batch # current[p]
      BY <1>2, <1>3, <2>1 DEF PriorsInv, OpenIsUnseen
    <3>. QED
      BY <1>2, <2>1, <3>1 DEF PriorsInv, NothingForeign
  <2>2. CASE k = last
    <3>1. /\ priors[p][i].batch \in since[p] .. opened /\ priors[p][i].batch < current[p]
          /\ \A j \in DOMAIN audit : audit[j].batch = priors[p][i].batch => audit[j].pipeline = p
      BY <1>2, <1>3, <2>2 DEF PriorsInv, PriorsOwn
    <3>2. since[p] \in Nat /\ opened \in Nat /\ current[p] \in Nat
      BY BoundsAssumption DEF TypeInv, TypeOK
    <3>. QED
      BY <1>2, <1>3, <2>2, <3>1, <3>2
  <2>. QED
    BY <1>2, <2>1, <2>2
<1>8. SinceOpened' /\ StateIsPriors'
  BY <1>1, ExtendedOwn
<1>. QED
  BY <1>5, <1>6, <1>7, <1>8 DEF PriorsInv

-----------------------------------------------------------------------------
(* The theorem *)

\* Each step keeps the priors apart.
LEMMA PriorsStep ==
  ASSUME TypeInv, RecordInv, PriorsInv, [Next]_vars PROVE PriorsInv'
<1>1. CASE \/ UNCHANGED vars
           \/ \E slot \in slots, b \in Batches : Take(slot, b)
  <2>1. UNCHANGED <<opened, since, priors, audit, phase, current, state>>
    BY <1>1 DEF vars, Take, batching
  <2>. QED
    BY <2>1, QuietKeepsPriors DEF PriorsInv, StateIsPriors
<1>2. ASSUME NEW p \in Pipelines, Step(p) PROVE PriorsInv'
  <2>1. CASE Open(p)
    BY <2>1, OpenKeepsPriors
  <2>2. CASE Reset(p)
    BY <2>2, ResetKeepsPriors
  <2>3. CASE \E t \in Tokens : Settle(p, t)
    BY <2>3, SettleKeepsPriors
  <2>4. CASE RecordFails(p) \/ \E n \in 0 .. MaxStages : ComposeFails(p, n)
    BY <2>4, FailureExtends, UnrecordedKeepsPriors
  <2>5. CASE Drop(p) \/ CallFails(p)
    <3>1. Close(p) /\ UNCHANGED <<opened, since, priors, audit>>
      BY <2>5 DEF Drop, CallFails
    <3>2. \A q \in Pipelines : phase'[q] = "asked" => phase[q] = "asked" /\ state'[q] = state[q]
      BY <3>1 DEF Close, TypeInv, TypeOK
    <3>. QED
      BY <3>1, <3>2, CloseKeepsOthers, QuietKeepsPriors DEF PriorsInv, StateIsPriors
  <2>6. CASE Send(p)
    <3>1. /\ UNCHANGED <<opened, since, priors, audit, current>>
          /\ phase[p] # "idle" /\ state'[p] = priors[p]
          /\ \A q \in Pipelines \ {p} : phase'[q] = phase[q] /\ state'[q] = state[q]
      BY <2>6 DEF Send, TypeInv, TypeOK
    <3>. QED
      BY <3>1, QuietKeepsPriors DEF PriorsInv, StateIsPriors
  <2>7. CASE \E s \in Stages : Add(p, s)
    <3>1. UNCHANGED <<opened, since, priors, audit, phase, current, state>>
      BY <2>7 DEF Add
    <3>. QED
      BY <3>1, QuietKeepsPriors DEF PriorsInv, StateIsPriors
  <2>. QED
    BY <1>2, <2>1, <2>2, <2>3, <2>4, <2>5, <2>6, <2>7 DEF Step
<1>. QED
  BY <1>1, <1>2 DEF Next

\* Every reachable state keeps the pipelines' priors apart.
LEMMA PriorsOwned == Spec => []PriorsInv
BY InitPriors, PriorsStep, TypeCorrect, RecordsKept, PTL DEF Spec

-----------------------------------------------------------------------------
(* Laws of the folds *)

\* The laws of the ledger's two folds.
Posts   == INSTANCE FoldRules WITH op <- Post
Charges == INSTANCE FoldRules WITH op <- Charge

\* FoldLeft of the community modules is the fold that FoldRules states its laws of.
LEMMA LeftIsFold ==
  /\ \A base, s : FoldLeft(Post, base, s) = Posts!Left(base, s)
  /\ \A base, s : FoldLeft(Charge, base, s) = Charges!Left(base, s)
BY DEF FoldLeft, MapThenFoldSet, Max, Posts!Left, Posts!FoldLeft, Posts!MapThenFoldSet, Posts!Max,
       Charges!Left, Charges!FoldLeft, Charges!MapThenFoldSet, Charges!Max

\* Neither At nor FlattenSeq depends on the operator of an instance.
LEMMA AtIsAt == \A s, I : At(s, I) = Charges!At(s, I)
BY Zenon DEF At, Nth, Cardinality, Charges!At, Charges!Nth, Charges!Cardinality, IsFiniteSet, Charges!IsFiniteSet

\* FlattenSeq is the one that FoldRules speaks of.
LEMMA FlattenIsFlatten == \A ss : FlattenSeq(ss) = Charges!FlattenSeq(ss)
BY DEF FlattenSeq, Charges!FlattenSeq

-----------------------------------------------------------------------------
(* What a log tells a state *)

\* The outputs that the records of a log hold.
Outs(log) == [j \in DOMAIN log |-> log[j].output]

\* The places in prior of what has a record in the log.
OnRecord(prior, log) == {i \in DOMAIN prior : prior[i].batch \in {log[j].batch : j \in DOMAIN log}}

\* The first n records' places that are p's, from batch b on.
Earlier(log, p, b, n) == {j \in 1 .. n : log[j].pipeline = p /\ log[j].batch >= b}

\* What of a sequence of outputs has a record in the log; what the first n records of the
\* log tell a pipeline that was reset before batch b.
Known(prior, log) == At(prior, OnRecord(prior, log))
Told(log, p, b, n) == FlattenSeq(At(Outs(log), Earlier(log, p, b, n)))

\* One record more tells its pipeline its outputs, and nothing else to anyone.
LEMMA ToldGrows ==
  ASSUME NEW log \in Seq(Records), NEW r \in Records, NEW p, NEW b
  PROVE  /\ \A k \in 0 .. Len(log) : Told(Append(log, r), p, b, k) = Told(log, p, b, k)
         /\ Told(Append(log, r), p, b, Len(log) + 1) =
              IF r.pipeline = p /\ r.batch >= b THEN Told(log, p, b, Len(log)) \o r.output
              ELSE Told(log, p, b, Len(log))
<1>. DEFINE n == Len(log)
            more == Append(log, r)
<1>1. /\ n \in Nat /\ DOMAIN log = 1 .. n /\ DOMAIN more = 1 .. n + 1
      /\ \A k \in 1 .. n : log[k] \in Records /\ more[k] = log[k]
      /\ more[n + 1] = r
  BY AppendProperties, LenProperties, ElementOfSeq
<1>2. /\ \A k \in 1 .. n : Outs(more)[k] = Outs(log)[k] /\ Outs(log)[k] \in Seq(Outputs)
      /\ Outs(more)[n + 1] = r.output /\ r.output \in Seq(Outputs)
  BY <1>1 DEF Outs, Records
<1>. HIDE DEF more, n
<1>3. ASSUME NEW k \in 0 .. n
      PROVE  /\ Earlier(more, p, b, k) = Earlier(log, p, b, k)
             /\ Earlier(log, p, b, k) \in SUBSET (1 .. n)
  BY <1>1 DEF Earlier
<1>4. ASSUME NEW k \in 0 .. n
      PROVE  At(Outs(more), Earlier(more, p, b, k)) = At(Outs(log), Earlier(log, p, b, k))
  <2>. DEFINE I == Earlier(log, p, b, k)
  <2>1. I \in SUBSET (1 .. n) /\ \A i \in I : Outs(more)[i] = Outs(log)[i]
    BY <1>2, <1>3
  <2>. HIDE DEF I
  <2>2. At(Outs(more), I) = At(Outs(log), I)
    BY <1>1, <2>1, AtIsAt, Charges!AtAgrees
  <2>. QED
    BY <1>3, <2>2 DEF I
<1>5. \A k \in 0 .. n : Told(more, p, b, k) = Told(log, p, b, k)
  BY <1>4 DEF Told
<1>6. Earlier(more, p, b, n + 1) = IF r.pipeline = p /\ r.batch >= b
                                   THEN Earlier(more, p, b, n) \cup {n + 1}
                                   ELSE Earlier(more, p, b, n)
  <2>1. \A j \in 1 .. n + 1 : j \in 1 .. n \/ j = n + 1
    BY <1>1
  <2>2. n + 1 \in 1 .. n + 1 /\ n + 1 \notin 1 .. n /\ 1 .. n \subseteq 1 .. n + 1
    BY <1>1
  <2>. QED
    BY <1>1, <2>1, <2>2 DEF Earlier
<1>7. n \in 0 .. n
  BY <1>1
<1>8. CASE r.pipeline = p /\ r.batch >= b
  <2>. DEFINE I == Earlier(more, p, b, n)
  <2>1. I \in SUBSET (1 .. n) /\ \A i \in I : Outs(more)[i] \in Seq(Outputs)
    BY <1>2, <1>3, <1>7
  <2>. HIDE DEF I
  <2>2. At(Outs(more), I \cup {n + 1}) = Append(At(Outs(more), I), r.output)
    BY <1>1, <1>2, <2>1, AtIsAt, Charges!AtOneMore
  <2>3. At(Outs(more), I) \in Seq(Seq(Outputs))
    BY <1>1, <2>1, AtIsAt, Charges!AtType
  <2>4. FlattenSeq(Append(At(Outs(more), I), r.output)) = FlattenSeq(At(Outs(more), I)) \o r.output
    BY <1>2, <2>3, FlattenIsFlatten, Charges!FlattenOneMore
  <2>5. Told(more, p, b, n + 1) = Told(more, p, b, n) \o r.output
    BY <1>6, <1>8, <2>2, <2>4 DEF Told, I
  <2>. QED
    BY <1>5, <1>7, <1>8, <2>5 DEF n, more
<1>9. CASE ~ (r.pipeline = p /\ r.batch >= b)
  <2>1. Told(more, p, b, n + 1) = Told(more, p, b, n)
    BY <1>6, <1>9 DEF Told
  <2>. QED
    BY <1>5, <1>7, <1>9, <2>1 DEF n, more
<1>. QED
  BY <1>8, <1>9

\* One record more, one batch more is on record.
LEMMA BatchesGrow ==
  ASSUME NEW log \in Seq(Records), NEW r \in Records
  PROVE  {Append(log, r)[j].batch : j \in DOMAIN Append(log, r)} =
           {log[j].batch : j \in DOMAIN log} \cup {r.batch}
<1>. DEFINE more == Append(log, r)
            n == Len(log)
<1>1. /\ n \in Nat /\ DOMAIN log = 1 .. n /\ DOMAIN more = 1 .. n + 1
      /\ \A k \in 1 .. n : more[k] = log[k]
      /\ more[n + 1] = r
  BY AppendProperties, LenProperties
<1>. HIDE DEF more, n
<1>2. DOMAIN more = DOMAIN log \cup {n + 1}
  BY <1>1
<1>3. {more[j].batch : j \in DOMAIN more} = {log[j].batch : j \in DOMAIN log} \cup {r.batch}
  BY <1>1, <1>2
<1>. QED
  BY <1>3 DEF more

\* A record of a batch that a sequence of outputs has nothing of tells nothing of it.
LEMMA KnownUnseen ==
  ASSUME NEW log \in Seq(Records), NEW r \in Records, NEW prior,
         \A i \in DOMAIN prior : prior[i].batch # r.batch
  PROVE  Known(prior, Append(log, r)) = Known(prior, log)
<1>1. {Append(log, r)[j].batch : j \in DOMAIN Append(log, r)} =
        {log[j].batch : j \in DOMAIN log} \cup {r.batch}
  BY BatchesGrow
<1>. QED
  BY <1>1 DEF Known, OnRecord

\* What a batch adds to the priors is known if the batch is on record, all of it, and is not
\* known otherwise.
LEMMA KnownGrows ==
  ASSUME NEW log \in Seq(Records), NEW s \in Seq(Outputs), NEW out \in Seq(Outputs), NEW c,
         \A i \in DOMAIN out : out[i].batch = c
  PROVE  /\ c \notin {log[j].batch : j \in DOMAIN log} => Known(s \o out, log) = Known(s, log)
         /\ c \in {log[j].batch : j \in DOMAIN log} => Known(s \o out, log) = Known(s, log) \o out
<1>. DEFINE n == Len(s)
            m == Len(out)
            st == s \o out
            I == OnRecord(s, log)
            B == {log[j].batch : j \in DOMAIN log}
<1>1. /\ n \in Nat /\ m \in Nat /\ DOMAIN s = 1 .. n /\ DOMAIN out = 1 .. m
      /\ DOMAIN st = 1 .. n + m
      /\ \A k \in 1 .. n : st[k] = s[k]
      /\ \A k \in 1 .. m : st[n + k] = out[k]
  BY ConcatProperties, LenProperties
<1>2. \A k \in 1 .. n + m : k \in 1 .. n \/ \E j \in 1 .. m : k = n + j
  <2>. SUFFICES ASSUME NEW k \in 1 .. n + m, k \notin 1 .. n PROVE \E j \in 1 .. m : k = n + j
    OBVIOUS
  <2>1. k - n \in 1 .. m /\ k = n + (k - n)
    BY <1>1
  <2>. QED
    BY <2>1
<1>3. \A j \in 1 .. m : n + j \in 1 .. n + m /\ st[n + j].batch = c
  BY <1>1
<1>4. 1 .. n \subseteq 1 .. n + m
  BY <1>1
<1>5. I \in SUBSET (DOMAIN s) /\ I \in SUBSET (1 .. n)
  BY <1>1 DEF OnRecord
<1>. HIDE DEF n, m, st
<1>6. /\ OnRecord(st, log) = {i \in 1 .. n + m : st[i].batch \in B}
      /\ I = {i \in 1 .. n : s[i].batch \in B}
  BY <1>1 DEF OnRecord
<1>7. {n + j : j \in DOMAIN out} = {n + j : j \in 1 .. m}
  BY <1>1
<1>8. ASSUME c \notin {log[j].batch : j \in DOMAIN log} PROVE Known(st, log) = Known(s, log)
  <2>1. OnRecord(st, log) = I
    <3>1. \A i \in 1 .. n + m : st[i].batch \in B <=> i \in 1 .. n /\ s[i].batch \in B
      <4>1. c \notin B
        BY <1>8
      <4>. HIDE DEF B
      <4>. QED
        BY <1>1, <1>2, <1>3, <4>1
    <3>. HIDE DEF B, I
    <3>. QED
      BY <1>4, <1>6, <3>1
  <2>2. \A i \in I : st[i] = s[i]
    BY <1>1, <1>5
  <2>3. At(st, I) = At(s, I)
    <3>. HIDE DEF I
    <3>. QED
      BY <1>1, <1>5, <2>2, AtIsAt, Charges!AtAgrees
  <2>. QED
    BY <2>1, <2>3 DEF Known
<1>9. ASSUME c \in {log[j].batch : j \in DOMAIN log} PROVE Known(st, log) = Known(s, log) \o out
  <2>1. OnRecord(st, log) = I \cup {n + j : j \in DOMAIN out}
    <3>1. c \in B
      BY <1>9
    <3>. HIDE DEF B, I
    <3>2. \A i \in 1 .. n + m : st[i].batch \in B <=> i \in I \/ \E j \in 1 .. m : i = n + j
      BY <1>1, <1>2, <1>3, <1>6, <3>1
    <3>3. \A i \in I : i \in 1 .. n + m
      BY <1>4, <1>6
    <3>4. OnRecord(st, log) = I \cup {n + j : j \in 1 .. m}
      BY <1>3, <1>6, <3>2, <3>3
    <3>. QED
      BY <1>7, <3>4
  <2>2. At(st, I \cup {n + j : j \in DOMAIN out}) = At(s, I) \o out
    <3>. HIDE DEF I
    <3>. QED
      BY <1>5, AtIsAt, Charges!AtConcat DEF n, st
  <2>. QED
    BY <2>1, <2>2 DEF Known
<1>. QED
  BY <1>8, <1>9 DEF st

-----------------------------------------------------------------------------
(* The ledger *)

\* The ledger of no records.
Blank == [total |-> NoCost, untagged |-> NoCost, order |-> <<>>,
          share |-> [d \in Decisions |-> NoCost]]

\* CostLedger::of and CostEstimate::of of an empty log.
LEMMA NothingPosted == LedgerOf(<<>>) = Blank /\ Estimate(<<>>) = NoCost
BY LeftIsFold, Posts!LeftEmpty, Charges!LeftEmpty DEF LedgerOf, Estimate, Blank

\* A record at the end of the log is posted last.
LEMMA OnePosted ==
  ASSUME NEW S, NEW records \in Seq(S), NEW r \in S
  PROVE  /\ LedgerOf(Append(records, r)) = Post(LedgerOf(records), r)
         /\ Estimate(Append(records, r)) = Charge(Estimate(records), r)
<1>1. \A base : Posts!Left(base, Append(records, r)) = Post(Posts!Left(base, records), r)
  BY Posts!LeftAppend
<1>2. \A base : Charges!Left(base, Append(records, r)) = Charge(Charges!Left(base, records), r)
  BY Charges!LeftAppend
<1>. QED
  BY LeftIsFold, <1>1, <1>2 DEF LedgerOf, Estimate

\* What a ledger holds.
Costs   == [calls : Nat, tokens : Nat]
Ledgers == [total : Costs, untagged : Costs, order : Seq(Decisions),
            share : [Decisions -> Costs]]

\* The ledger has its type and adds up.
LedgerInv == LedgerOf(audit) \in Ledgers /\ LedgerPartitions

\* One record more is on file for its tag only.
LEMMA OneFiled ==
  ASSUME NEW record, audit \in Seq(Records), record \in Records, audit' = Append(audit, record),
         NEW tag
  PROVE  /\ RecordsFor(tag) \in Seq(Records)
         /\ RecordsFor(tag)' = IF Tag(record) = tag THEN Append(RecordsFor(tag), record)
                               ELSE RecordsFor(tag)
<1>. DEFINE n == Len(audit)
            I == {k \in DOMAIN audit : Tag(audit[k]) = tag}
<1>1. /\ n \in Nat /\ DOMAIN audit = 1 .. n /\ DOMAIN audit' = 1 .. n + 1
      /\ \A k \in 1 .. n : audit[k] \in Records /\ audit'[k] = audit[k]
      /\ audit'[n + 1] = record
  BY AppendProperties, LenProperties, ElementOfSeq
<1>2. I \in SUBSET (1 .. n) /\ \A k \in I : audit[k] \in Records
  BY <1>1
<1>3. RecordsFor(tag) = At(audit, I)
  BY DEF RecordsFor
<1>4. {k \in DOMAIN audit' : Tag(audit'[k]) = tag} = IF Tag(record) = tag THEN I \cup {n + 1} ELSE I
  <2>1. DOMAIN audit' = DOMAIN audit \cup {n + 1} /\ n + 1 \notin DOMAIN audit
    BY <1>1
  <2>. QED
    BY <1>1, <2>1
<1>5. RecordsFor(tag)' = At(audit', {k \in DOMAIN audit' : Tag(audit'[k]) = tag})
  BY DEF RecordsFor, Tag
<1>. HIDE DEF n, I
<1>6. At(audit, I) \in Seq(Records)
  BY <1>1, <1>2, AtIsAt, Charges!AtType
<1>7. At(audit', I) = At(audit, I)
  <2>1. \A k \in I : audit[k] = audit'[k]
    BY <1>1, <1>2
  <2>. QED
    BY <1>1, <1>2, <2>1, AtIsAt, Charges!AtAgrees
<1>8. At(audit', I \cup {n + 1}) = Append(At(audit', I), record)
  BY <1>1, <1>2, AtIsAt, Charges!AtOneMore
<1>. QED
  BY <1>3, <1>4, <1>5, <1>6, <1>7, <1>8

\* The ledger of the empty log adds up.
LEMMA InitLedger == Init => LedgerInv
<1>. SUFFICES ASSUME Init PROVE LedgerInv
  OBVIOUS
<1>1. audit = <<>> /\ DOMAIN audit = {}
  BY DEF Init
<1>2. LedgerOf(audit) = Blank /\ Estimate(audit) = NoCost
  BY <1>1, NothingPosted
<1>3. \A tag : Estimate(RecordsFor(tag)) = NoCost
  BY <1>1, NothingPosted, AtIsAt, Charges!AtEmpty DEF RecordsFor
<1>4. NoCost \in Costs /\ <<>> \in Seq(Decisions) /\ DOMAIN <<>> = {}
  BY DEF NoCost, Costs
<1>5. LedgerOf(audit) \in Ledgers
  BY <1>2, <1>4 DEF Blank, Ledgers
<1>6. LedgerPartitions
  BY <1>1, <1>2, <1>3, <1>4 DEF LedgerPartitions, Blank, Range
<1>. QED
  BY <1>5, <1>6 DEF LedgerInv

\* One call more is in the total and in one share; a decision judged for the first time comes
\* last in the order, after all the decisions that have a record already.
LEMMA PostKeepsLedger ==
  ASSUME NEW record, audit \in Seq(Records), record \in Records, audit' = Append(audit, record),
         LedgerInv
  PROVE  LedgerInv'
<1>. DEFINE l == LedgerOf(audit)
            m == LedgerOf(audit)'
            n == Len(audit)
            tag == Tag(record)
<1>1. /\ n \in Nat /\ DOMAIN audit = 1 .. n /\ DOMAIN audit' = 1 .. n + 1
      /\ \A k \in 1 .. n : audit[k] \in Records /\ audit'[k] = audit[k]
      /\ audit'[n + 1] = record
  BY AppendProperties, LenProperties, ElementOfSeq
<1>2. m = Post(l, record) /\ Estimate(audit)' = Charge(Estimate(audit), record)
  <2>1. /\ LedgerOf(audit') = Post(LedgerOf(audit), record)
        /\ Estimate(audit') = Charge(Estimate(audit), record)
    BY OnePosted
  <2>. QED
    BY <2>1
<1>3. \A d : Estimate(RecordsFor(d))' = IF tag = d THEN Charge(Estimate(RecordsFor(d)), record)
                                         ELSE Estimate(RecordsFor(d))
  <2>. SUFFICES ASSUME NEW d
                PROVE  Estimate(RecordsFor(d)') = IF tag = d THEN Charge(Estimate(RecordsFor(d)), record)
                                                   ELSE Estimate(RecordsFor(d))
    OBVIOUS
  <2>. QED
    BY OneFiled, OnePosted
<1>4. \A c \in Costs : Charge(c, record) \in Costs
  BY BoundsAssumption DEF Charge, Costs, Records, Tokens
<1>5. tag = Untagged \/ tag \in Decisions
  BY DEF Tag, Decisions, Records
<1>6. l \in Ledgers /\ LedgerPartitions
  BY DEF LedgerInv
<1>. HIDE DEF l, m, tag
<1>7. l.order \in Seq(Decisions) /\ Len(l.order) \in Nat /\ DOMAIN l.order = 1 .. Len(l.order)
  BY <1>6, LenProperties DEF Ledgers
<1>8. Contains(l.order, tag) <=> tag \in Range(l.order)
  BY <1>7 DEF Contains, Range
<1>. DEFINE First(d, k) == Tag(audit[k]) = d /\ \A j \in 1 .. k - 1 : Tag(audit[j]) # d
            FirstNow(d, k) == Tag(audit'[k]) = d /\ \A j \in 1 .. k - 1 : Tag(audit'[j]) # d
            Shares == \A d \in Decisions : l.share[d] = Estimate(RecordsFor(d))
<1>9. \A d : \A k \in 1 .. n : First(d, k) => FirstNow(d, k)
  BY <1>1
<1>10. {Tag(audit'[k]) : k \in DOMAIN audit'} = {Tag(audit[k]) : k \in DOMAIN audit} \cup {tag}
  <2>1. DOMAIN audit' = DOMAIN audit \cup {n + 1}
    BY <1>1
  <2>2. \A k \in DOMAIN audit : Tag(audit'[k]) = Tag(audit[k])
    BY <1>1
  <2>. QED
    BY <1>1, <2>1, <2>2 DEF tag
<1>11. /\ l.total = Estimate(audit) /\ l.untagged = Estimate(RecordsFor(Untagged)) /\ Shares
       /\ \A i, j \in DOMAIN l.order : i < j =>
            \E k, e \in DOMAIN audit : k < e /\ First(l.order[i], k) /\ First(l.order[j], e)
       /\ Range(l.order) = {Tag(audit[k]) : k \in DOMAIN audit} \ {Untagged}
  BY <1>6 DEF LedgerPartitions, l
<1>12. m \in Ledgers
  <2>1. CASE tag = Untagged
    <3>1. m = [l EXCEPT !.total = Charge(@, record), !.untagged = Charge(@, record)]
      BY <1>2, <1>6, <2>1 DEF Post, tag, Ledgers
    <3>. QED
      BY <1>4, <1>6, <3>1 DEF Ledgers
  <2>2. CASE tag \in Decisions /\ tag # Untagged
    <3>1. m = [l EXCEPT !.total = Charge(@, record),
                        !.order = IF Contains(@, tag) THEN @ ELSE Append(@, tag),
                        !.share[tag] = Charge(@, record)]
      BY <1>2, <1>6, <2>2 DEF Post, tag, Ledgers
    <3>2. Append(l.order, tag) \in Seq(Decisions)
      BY <1>7, <2>2, AppendProperties
    <3>. QED
      BY <1>4, <1>6, <2>2, <3>1, <3>2 DEF Ledgers
  <2>. QED
    BY <1>5, <2>1, <2>2
<1>13. /\ m.total = Estimate(audit)'
       /\ m.untagged = Estimate(RecordsFor(Untagged))'
       /\ \A d \in Decisions : m.share[d] = Estimate(RecordsFor(d))'
       /\ m.order = IF tag = Untagged \/ Contains(l.order, tag) THEN l.order ELSE Append(l.order, tag)
  <2>1. CASE tag = Untagged
    <3>1. m = [l EXCEPT !.total = Charge(@, record), !.untagged = Charge(@, record)]
      BY <1>2, <1>6, <2>1 DEF Post, tag, Ledgers
    <3>2. \A d \in Decisions : d # Untagged
      BY DEF Decisions
    <3>. QED
      BY <1>2, <1>3, <1>6, <1>11, <2>1, <3>1, <3>2 DEF Ledgers
  <2>2. CASE tag \in Decisions /\ tag # Untagged
    <3>1. m = [l EXCEPT !.total = Charge(@, record),
                        !.order = IF Contains(@, tag) THEN @ ELSE Append(@, tag),
                        !.share[tag] = Charge(@, record)]
      BY <1>2, <1>6, <2>2 DEF Post, tag, Ledgers
    <3>. QED
      BY <1>2, <1>3, <1>6, <1>11, <2>2, <3>1 DEF Ledgers
  <2>. QED
    BY <1>5, <2>1, <2>2
<1>14. CASE tag = Untagged \/ Contains(l.order, tag)
  <2>1. Range(m.order) = {Tag(audit'[k]) : k \in DOMAIN audit'} \ {Untagged}
    BY <1>8, <1>10, <1>11, <1>13, <1>14
  <2>2. \A i, j \in DOMAIN m.order : i < j =>
          \E k, e \in DOMAIN audit' : k < e /\ FirstNow(m.order[i], k) /\ FirstNow(m.order[j], e)
    <3>. SUFFICES ASSUME NEW i \in DOMAIN l.order, NEW j \in DOMAIN l.order, i < j
                  PROVE  \E k, e \in DOMAIN audit' :
                           k < e /\ FirstNow(l.order[i], k) /\ FirstNow(l.order[j], e)
      BY <1>13, <1>14
    <3>1. PICK k, e \in DOMAIN audit : k < e /\ First(l.order[i], k) /\ First(l.order[j], e)
      BY <1>11
    <3>2. k \in DOMAIN audit' /\ e \in DOMAIN audit'
      BY <1>1
    <3>3. FirstNow(l.order[i], k) /\ FirstNow(l.order[j], e)
      <4>. HIDE DEF First, FirstNow
      <4>. QED
        BY <1>1, <1>9, <3>1
    <3>. QED
      BY <3>1, <3>2, <3>3
  <2>3. LedgerPartitions'
    BY <1>13, <2>1, <2>2 DEF LedgerPartitions, m
  <2>. QED
    BY <1>12, <2>3 DEF LedgerInv, m
<1>15. CASE tag # Untagged /\ ~ Contains(l.order, tag)
  <2>1. m.order = Append(l.order, tag) /\ tag \in Decisions
    BY <1>5, <1>13, <1>15
  <2>2. /\ DOMAIN m.order = 1 .. Len(l.order) + 1
        /\ \A i \in 1 .. Len(l.order) : m.order[i] = l.order[i]
        /\ m.order[Len(l.order) + 1] = tag
    BY <1>7, <2>1, AppendProperties
  <2>3. Range(m.order) = {Tag(audit'[k]) : k \in DOMAIN audit'} \ {Untagged}
    <3>1. DOMAIN m.order = DOMAIN l.order \cup {Len(l.order) + 1}
      BY <1>7, <2>2
    <3>2. Range(m.order) = Range(l.order) \cup {tag}
      BY <1>7, <2>2, <3>1 DEF Range
    <3>. QED
      BY <1>10, <1>11, <1>15, <3>2
  <2>4. FirstNow(tag, n + 1)
    <3>1. \A k \in 1 .. n : Tag(audit[k]) # tag
      BY <1>1, <1>8, <1>11, <1>15
    <3>. QED
      BY <1>1, <3>1 DEF tag
  <2>5. ASSUME NEW i \in DOMAIN l.order PROVE \E k \in DOMAIN audit : First(l.order[i], k)
    <3>1. l.order[i] \in {Tag(audit[k]) : k \in DOMAIN audit}
      BY <1>11 DEF Range
    <3>. DEFINE s == {k \in 1 .. n : Tag(audit[k]) = l.order[i]}
                k == Charges!Min(s)
    <3>2. s \in SUBSET (1 .. n) /\ s # {}
      BY <1>1, <3>1
    <3>3. k \in s /\ \A j \in s : k <= j
      <4>. HIDE DEF s
      <4>. QED
        BY <1>1, <3>2, Charges!Extremes
    <3>. HIDE DEF k
    <3>. QED
      BY <1>1, <3>3
  <2>6. \A i, j \in DOMAIN m.order : i < j =>
          \E k, e \in DOMAIN audit' : k < e /\ FirstNow(m.order[i], k) /\ FirstNow(m.order[j], e)
    <3>. SUFFICES ASSUME NEW i \in DOMAIN m.order, NEW j \in DOMAIN m.order, i < j
                  PROVE  \E k, e \in DOMAIN audit' :
                           k < e /\ FirstNow(m.order[i], k) /\ FirstNow(m.order[j], e)
      OBVIOUS
    <3>1. i \in DOMAIN l.order /\ m.order[i] = l.order[i]
      BY <1>7, <2>2
    <3>2. CASE j \in DOMAIN l.order
      <4>1. PICK k, e \in DOMAIN audit : k < e /\ First(l.order[i], k) /\ First(l.order[j], e)
        BY <1>11, <3>1, <3>2
      <4>2. FirstNow(l.order[i], k) /\ FirstNow(l.order[j], e)
        <5>. HIDE DEF First, FirstNow
        <5>. QED
          BY <1>1, <1>9, <4>1
      <4>3. m.order[j] = l.order[j]
        BY <1>7, <2>2, <3>2
      <4>4. k \in DOMAIN audit' /\ e \in DOMAIN audit' /\ k < e
        BY <1>1, <4>1
      <4>. HIDE DEF FirstNow
      <4>. QED
        BY <3>1, <4>2, <4>3, <4>4
    <3>3. CASE j = Len(l.order) + 1
      <4>1. PICK k \in DOMAIN audit : First(l.order[i], k)
        BY <2>5, <3>1
      <4>2. FirstNow(l.order[i], k)
        <5>. HIDE DEF First, FirstNow
        <5>. QED
          BY <1>1, <1>9, <4>1
      <4>3. k \in DOMAIN audit' /\ n + 1 \in DOMAIN audit' /\ k < n + 1
        BY <1>1
      <4>. HIDE DEF FirstNow
      <4>. QED
        BY <2>2, <2>4, <3>1, <3>3, <4>2, <4>3
    <3>4. j \in DOMAIN l.order \/ j = Len(l.order) + 1
      BY <1>7, <2>2
    <3>. QED
      BY <3>2, <3>3, <3>4
  <2>7. LedgerPartitions'
    BY <1>13, <2>3, <2>6 DEF LedgerPartitions, m
  <2>. QED
    BY <1>12, <2>7 DEF LedgerInv, m
<1>. QED
  BY <1>14, <1>15

\* No step but a call's end adds to the log.
LEMMA OnlySettleRecords ==
  ASSUME [Next]_vars
  PROVE  UNCHANGED audit \/ \E p \in Pipelines : \E t \in Tokens : Settle(p, t)
<1>1. ASSUME NEW p \in Pipelines, Step(p)
      PROVE  UNCHANGED audit \/ \E t \in Tokens : Settle(p, t)
  BY <1>1 DEF Step, Open, Drop, Send, Add, CallFails, RecordFails, ComposeFails, Reset, batching
<1>2. CASE UNCHANGED vars
  BY <1>2 DEF vars
<1>3. CASE \E slot \in slots, b \in Batches : Take(slot, b)
  BY <1>3 DEF Take
<1>. QED
  BY <1>1, <1>2, <1>3 DEF Next

\* CostLedger::of over the log of any run: the shares of the decisions and the untagged rest
\* are the estimates of their own records, the total is the estimate of all, and the decisions
\* come in the order they were first judged.
THEOREM LedgerIsSplit == Spec => []LedgerPartitions
<1>1. TypeInv /\ TypeInv' /\ LedgerInv /\ [Next]_vars => LedgerInv'
  <2>. SUFFICES ASSUME TypeInv, TypeInv', LedgerInv, [Next]_vars PROVE LedgerInv'
    OBVIOUS
  <2>1. CASE \E p \in Pipelines : \E t \in Tokens : Settle(p, t)
    <3>. PICK p \in Pipelines, t \in Tokens : Settle(p, t)
      BY <2>1
    <3>. DEFINE record == [pipeline |-> p, batch |-> current[p], prior |-> state[p],
                           output |-> Composed(p, Len(items[p])), since |-> since[p],
                           tokens |-> t]
    <3>1. audit \in Seq(Records) /\ audit' = Append(audit, record)
      BY DEF Settle, TypeInv, TypeOK
    <3>2. record \in Records
      BY SettledRecord
    <3>. HIDE DEF record
    <3>. QED
      BY <3>1, <3>2, PostKeepsLedger
  <2>2. CASE UNCHANGED audit
    BY <2>2 DEF LedgerInv, LedgerPartitions, RecordsFor
  <2>. QED
    BY <2>1, <2>2, OnlySettleRecords
<1>2. LedgerInv => LedgerPartitions
  BY DEF LedgerInv
<1>. QED
  BY InitLedger, <1>1, <1>2, TypeCorrect, PTL DEF Spec

-----------------------------------------------------------------------------
(* What a stage sees *)

\* The priors that are on record are what the log tells the pipeline, in the log's order;
\* the state of a recorded call is what the log before it told.
PriorsInOrder ==
  \A p \in Pipelines : Known(priors[p], audit) = Told(audit, p, since[p], Len(audit))

StatesInOrder ==
  \A k \in DOMAIN audit :
    Known(audit[k].prior, audit) = Told(audit, audit[k].pipeline, audit[k].since, k - 1)

OrderInv == PriorsInOrder /\ StatesInOrder

\* Nothing is known, and nothing is told of the batches to come.
LEMMA NothingTold ==
  ASSUME NEW log \in Seq(Records), NEW p, NEW b,
         \A j \in DOMAIN log : ~ (log[j].batch >= b)
  PROVE  Known(<<>>, log) = <<>> /\ Told(log, p, b, Len(log)) = <<>>
<1>1. DOMAIN log = 1 .. Len(log)
  BY LenProperties
<1>2. Earlier(log, p, b, Len(log)) = {}
  BY <1>1 DEF Earlier
<1>3. OnRecord(<<>>, log) = {}
  BY DEF OnRecord
<1>. QED
  BY <1>2, <1>3, AtIsAt, Charges!AtEmpty, FlattenIsFlatten, Charges!FlattenNone DEF Known, Told

LEMMA InitOrder == Init => OrderInv
<1>. SUFFICES ASSUME Init PROVE OrderInv
  OBVIOUS
<1>1. audit = <<>> /\ DOMAIN audit = {} /\ \A p \in Pipelines : priors[p] = <<>>
  BY DEF Init
<1>2. audit \in Seq(Records)
  BY <1>1
<1>. QED
  BY <1>1, <1>2, NothingTold DEF OrderInv, PriorsInOrder, StatesInOrder

\* A step that neither records nor touches the priors.
LEMMA QuietKeepsOrder ==
  ASSUME OrderInv, UNCHANGED <<since, priors, audit>> PROVE OrderInv'
BY DEF OrderInv, PriorsInOrder, StatesInOrder

\* A pipeline that was reset has been told nothing since.
LEMMA ResetKeepsOrder ==
  ASSUME TypeInv, RecordInv, OrderInv, NEW p \in Pipelines, Reset(p) PROVE OrderInv'
<1>1. /\ UNCHANGED audit
      /\ priors'[p] = <<>> /\ since'[p] = opened + 1
      /\ \A q \in Pipelines \ {p} : priors'[q] = priors[q] /\ since'[q] = since[q]
  BY DEF Reset, TypeInv, TypeOK
<1>2. audit \in Seq(Records) /\ \A j \in DOMAIN audit : ~ (audit[j].batch >= opened + 1)
  <2>1. opened \in Nat
    BY BoundsAssumption DEF TypeInv, TypeOK
  <2>. QED
    BY <2>1 DEF TypeInv, TypeOK, RecordInv, OneRecord
<1>3. Known(<<>>, audit) = Told(audit, p, opened + 1, Len(audit))
  BY <1>2, NothingTold
<1>. QED
  BY <1>1, <1>3 DEF OrderInv, PriorsInOrder, StatesInOrder

\* Outputs that are on no record tell nothing.
LEMMA UnrecordedKeepsOrder ==
  ASSUME TypeInv, RecordInv, OrderInv, NEW p \in Pipelines, NEW n \in 0 .. Len(items[p]),
         Extends(p, n), UNCHANGED audit
  PROVE  OrderInv'
<1>. DEFINE out == Composed(p, n)
<1>1. /\ out \in Seq(Outputs) /\ priors[p] \in Seq(Outputs) /\ audit \in Seq(Records)
      /\ \A i \in DOMAIN out : out[i].batch = current[p]
  BY ComposedType DEF Extends, TypeInv, TypeOK, Composed
<1>2. /\ priors'[p] = priors[p] \o out
      /\ \A q \in Pipelines \ {p} : priors'[q] = priors[q]
      /\ UNCHANGED since
  BY DEF Extends, TypeInv, TypeOK
<1>3. current[p] \notin {audit[j].batch : j \in DOMAIN audit}
  BY DEF Extends, RecordInv, OneRecord
<1>. HIDE DEF out
<1>4. Known(priors[p] \o out, audit) = Known(priors[p], audit)
  BY <1>1, <1>3, KnownGrows
<1>. QED
  BY <1>2, <1>4 DEF OrderInv, PriorsInOrder, StatesInOrder

\* The call of a recorded batch was told what its pipeline knew, and tells it its outputs.
LEMMA SettleKeepsOrder ==
  ASSUME TypeInv, RecordInv, PriorsInv, OrderInv, NEW p \in Pipelines, NEW t \in Tokens,
         Settle(p, t)
  PROVE  OrderInv'
<1>. DEFINE out == Composed(p, Len(items[p]))
            record == [pipeline |-> p, batch |-> current[p], prior |-> state[p],
                       output |-> out, since |-> since[p], tokens |-> t]
            more == Append(audit, record)
            n == Len(audit)
<1>1. /\ audit' = more
      /\ phase[p] = "asked"
      /\ priors' = [priors EXCEPT ![p] = @ \o out]
      /\ UNCHANGED since
  BY DEF Settle
<1>2. /\ audit \in Seq(Records) /\ record \in Records
      /\ out \in Seq(Outputs)
      /\ \A i \in DOMAIN out : out[i].batch = current[p]
      /\ \A q \in Pipelines : priors[q] \in Seq(Outputs) /\ since[q] \in Nat
      /\ current[p] \in Nat
  <2>1. Len(items[p]) \in 0 .. Len(items[p])
    BY LenProperties DEF TypeInv, TypeOK
  <2>2. out \in Seq(Outputs)
    BY <1>1, <2>1, ComposedType
  <2>. QED
    BY <2>2, SettledRecord, BoundsAssumption DEF TypeInv, TypeOK, Composed
<1>3. /\ record.pipeline = p /\ record.batch = current[p] /\ record.prior = priors[p]
      /\ record.since = since[p] /\ record.output = out
  BY <1>1 DEF PriorsInv, StateIsPriors
<1>4. /\ n \in Nat /\ DOMAIN audit = 1 .. n /\ DOMAIN more = 1 .. n + 1 /\ Len(more) = n + 1
      /\ \A k \in 1 .. n : more[k] = audit[k]
      /\ more[n + 1] = record
  BY <1>2, AppendProperties, LenProperties
<1>5. /\ priors'[p] = priors[p] \o out
      /\ \A q \in Pipelines \ {p} : priors'[q] = priors[q]
  BY <1>1 DEF TypeInv, TypeOK
<1>6. since[p] <= current[p]
  BY <1>1 DEF PriorsInv, SinceOpened
<1>7. \A q \in Pipelines : \A i \in DOMAIN priors[q] : priors[q][i].batch # current[p]
  BY <1>1 DEF PriorsInv, PriorsOwn
<1>. HIDE DEF out, record, more, n
<1>8. \A q \in Pipelines : Known(priors[q], more) = Known(priors[q], audit)
  BY <1>2, <1>3, <1>7, KnownUnseen DEF more
<1>9. \A q \in Pipelines : /\ Known(priors[q], audit) = Told(audit, q, since[q], n)
  BY DEF OrderInv, PriorsInOrder, n
<1>10. \A q, b : \A k \in 0 .. n : Told(more, q, b, k) = Told(audit, q, b, k)
  BY <1>2, ToldGrows DEF more, n
<1>11. PriorsInOrder'
  <2>1. Known(priors[p] \o out, more) = Known(priors[p], more) \o out
    <3>1. current[p] \in {more[j].batch : j \in DOMAIN more}
      BY <1>3, <1>4
    <3>2. more \in Seq(Records)
      BY <1>2, AppendProperties DEF more
    <3>. QED
      BY <1>2, <3>1, <3>2, KnownGrows
  <2>2. Told(more, p, since[p], n + 1) = Told(audit, p, since[p], n) \o out
    <3>1. record.pipeline = p /\ record.batch >= since[p]
      BY <1>2, <1>3, <1>6
    <3>. QED
      BY <1>2, <1>3, <3>1, ToldGrows DEF more, n
  <2>3. ASSUME NEW q \in Pipelines, q # p
        PROVE  Told(more, q, since[q], n + 1) = Told(audit, q, since[q], n)
    <3>1. record.pipeline # q
      BY <1>3, <2>3
    <3>. QED
      BY <1>2, <3>1, ToldGrows DEF more, n
  <2>4. \A q \in Pipelines : Known(priors'[q], more) = Told(more, q, since[q], n + 1)
    BY <1>5, <1>8, <1>9, <2>1, <2>2, <2>3
  <2>. QED
    BY <1>1, <1>4, <2>4 DEF PriorsInOrder
<1>12. StatesInOrder'
  <2>1. ASSUME NEW k \in 1 .. n
        PROVE  Known(audit[k].prior, more) =
                 Told(more, audit[k].pipeline, audit[k].since, k - 1)
    <3>1. \A i \in DOMAIN audit[k].prior : audit[k].prior[i].batch # record.batch
      BY <1>1, <1>3, <1>4 DEF PriorsInv, OpenIsUnseen
    <3>2. Known(audit[k].prior, more) = Known(audit[k].prior, audit)
      BY <1>2, <3>1, KnownUnseen DEF more
    <3>3. k - 1 \in 0 .. n
      BY <1>4
    <3>. QED
      BY <1>4, <1>10, <3>2, <3>3 DEF OrderInv, StatesInOrder
  <2>2. Known(record.prior, more) = Told(more, record.pipeline, record.since, n + 1 - 1)
    <3>1. n + 1 - 1 = n /\ n \in 0 .. n
      BY <1>4
    <3>. QED
      BY <1>3, <1>8, <1>9, <1>10, <3>1
  <2>3. ASSUME NEW k \in 1 .. n + 1
        PROVE  Known(more[k].prior, more) = Told(more, more[k].pipeline, more[k].since, k - 1)
    <3>1. CASE k \in 1 .. n
      BY <1>4, <2>1, <3>1
    <3>2. CASE k = n + 1
      BY <1>4, <2>2, <3>2
    <3>. QED
      BY <1>4, <3>1, <3>2
  <2>. QED
    BY <1>1, <1>4, <2>3 DEF StatesInOrder
<1>. QED
  BY <1>11, <1>12 DEF OrderInv

\* Each step that changes the priors either records what it adds, or leaves no record of it.
LEMMA OrderStep ==
  ASSUME TypeInv, RecordInv, PriorsInv, OrderInv, [Next]_vars PROVE OrderInv'
<1>1. CASE \/ UNCHANGED vars
           \/ \E slot \in slots, b \in Batches : Take(slot, b)
  <2>1. UNCHANGED <<since, priors, audit>>
    BY <1>1 DEF vars, Take
  <2>. QED
    BY <2>1, QuietKeepsOrder
<1>2. ASSUME NEW p \in Pipelines, Step(p) PROVE OrderInv'
  <2>1. CASE Reset(p)
    BY <2>1, ResetKeepsOrder
  <2>2. CASE \E t \in Tokens : Settle(p, t)
    BY <2>2, SettleKeepsOrder
  <2>3. CASE RecordFails(p) \/ \E n \in 0 .. MaxStages : ComposeFails(p, n)
    BY <2>3, FailureExtends, UnrecordedKeepsOrder
  <2>4. CASE Open(p) \/ Drop(p) \/ CallFails(p) \/ Send(p) \/ \E s \in Stages : Add(p, s)
    <3>1. UNCHANGED <<since, priors, audit>>
      BY <2>4 DEF Open, Drop, CallFails, Send, Add
    <3>. QED
      BY <3>1, QuietKeepsOrder
  <2>. QED
    BY <1>2, <2>1, <2>2, <2>3, <2>4 DEF Step
<1>. QED
  BY <1>1, <1>2 DEF Next

\* "A later stage's state provably contains every earlier stage's typed output"
\* (Pipeline::batch, Batch::send, Pipeline::reset): for any number of pipelines and batches,
\* what is on record in a call's state is what its pipeline's earlier recorded calls gave,
\* whole and in order, whatever else failed between them.
THEOREM EarlierSeen == Spec => []StagesSeeEarlier
<1>1. OrderInv /\ PriorsInv => StagesSeeEarlier
  <2>. SUFFICES ASSUME OrderInv, PriorsInv, NEW k \in DOMAIN audit
                PROVE  /\ Known(audit[k].prior, audit)
                            = Told(audit, audit[k].pipeline, audit[k].since, k - 1)
                       /\ \A i \in DOMAIN audit[k].prior :
                            audit[k].prior[i].batch \in audit[k].since .. audit[k].batch - 1
    BY Zenon DEF StagesSeeEarlier, Known, Told, OnRecord, Outs, Earlier
  <2>. QED
    BY DEF OrderInv, StatesInOrder, PriorsInv, NothingForeign
<1>2. OrderInv /\ [Next]_vars /\ TypeInv /\ RecordInv /\ PriorsInv => OrderInv'
  BY OrderStep
<1>. QED
  BY <1>1, <1>2, InitOrder, TypeCorrect, RecordsKept, PriorsOwned, PTL DEF Spec
=============================================================================
