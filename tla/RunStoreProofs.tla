--------------------------- MODULE RunStoreProofs ---------------------------
(***************************************************************************)
(* Proofs about the run store, for every number of clients, every capacity *)
(* and every bound on runs and calls.                                      *)
(***************************************************************************)
EXTENDS RunStore, SequenceTheorems, TLAPS

\* Dropping one element of a sequence keeps the others in order.
LEMMA RemoveAtFacts ==
  ASSUME NEW S, NEW s \in Seq(S), NEW i \in 1 .. Len(s)
  PROVE  /\ RemoveAt(s, i) \in Seq(S)
         /\ Len(RemoveAt(s, i)) = Len(s) - 1
         /\ \A j \in 1 .. Len(s) - 1 :
              RemoveAt(s, i)[j] = IF j < i THEN s[j] ELSE s[j + 1]
<1> DEFINE a == SubSeq(s, 1, i - 1)
           b == SubSeq(s, i + 1, Len(s))
<1>1. /\ a \in Seq(S)
      /\ Len(a) = i - 1
      /\ \A j \in 1 .. i - 1 : a[j] = s[j]
  <2>1. \A j \in 1 .. i - 1 : s[j] \in S
    BY ElementOfSeq
  <2>2. /\ SubSeq(s, 1, i - 1) \in Seq(S)
        /\ Len(SubSeq(s, 1, i - 1)) = IF 1 <= i - 1 THEN (i - 1) - 1 + 1 ELSE 0
        /\ \A j \in 1 .. (i - 1) - 1 + 1 : SubSeq(s, 1, i - 1)[j] = s[1 + j - 1]
    BY <2>1, SubSeqProperties
  <2> QED  BY <2>2
<1>2. /\ b \in Seq(S)
      /\ Len(b) = Len(s) - i
      /\ \A j \in 1 .. Len(s) - i : b[j] = s[i + j]
  <2>1. \A j \in i + 1 .. Len(s) : s[j] \in S
    BY ElementOfSeq
  <2>2. Len(s) \in Nat
    OBVIOUS
  <2>3. /\ SubSeq(s, i + 1, Len(s)) \in Seq(S)
        /\ Len(SubSeq(s, i + 1, Len(s))) =
             IF i + 1 <= Len(s) THEN Len(s) - (i + 1) + 1 ELSE 0
        /\ \A j \in 1 .. Len(s) - (i + 1) + 1 :
             SubSeq(s, i + 1, Len(s))[j] = s[(i + 1) + j - 1]
    BY <2>1, <2>2, SubSeqProperties
  <2> QED  BY <2>2, <2>3
<1>3. /\ a \o b \in Seq(S)
      /\ Len(a \o b) = Len(a) + Len(b)
      /\ \A j \in 1 .. Len(a) + Len(b) :
           (a \o b)[j] = IF j <= Len(a) THEN a[j] ELSE b[j - Len(a)]
  BY <1>1, <1>2, ConcatProperties
<1>4. RemoveAt(s, i) = a \o b
  BY DEF RemoveAt
<1> HIDE DEF a, b
<1>5. /\ RemoveAt(s, i) \in Seq(S)
      /\ Len(RemoveAt(s, i)) = Len(s) - 1
  <2>1. Len(s) \in Nat /\ i \in Int
    OBVIOUS
  <2>2. Len(a) + Len(b) = Len(s) - 1
    BY <2>1, <1>1, <1>2
  <2> QED  BY <2>2, <1>3, <1>4
<1>6. ASSUME NEW j \in 1 .. Len(s) - 1
      PROVE  RemoveAt(s, i)[j] = IF j < i THEN s[j] ELSE s[j + 1]
  <2>1. (a \o b)[j] = IF j <= i - 1 THEN a[j] ELSE b[j - (i - 1)]
    BY <1>1, <1>2, <1>3
  <2>2. CASE j < i
    BY <2>1, <2>2, <1>1, <1>4
  <2>3. CASE j >= i
    <3>1. j - (i - 1) \in 1 .. Len(s) - i
      BY <2>3
    <3>2. b[j - (i - 1)] = s[i + (j - (i - 1))]
      BY <3>1, <1>2
    <3>3. i + (j - (i - 1)) = j + 1
      OBVIOUS
    <3>4. ~ (j <= i - 1) /\ ~ (j < i)
      BY <2>3
    <3>5. (a \o b)[j] = s[j + 1]
      BY <2>1, <3>2, <3>3, <3>4
    <3> QED  BY <3>4, <3>5, <1>4
  <2> QED  BY <2>2, <2>3
<1> QED  BY <1>5, <1>6

\* Dropping an element of a sequence without repetitions drops it altogether.
LEMMA RemoveAtRange ==
  ASSUME NEW S, NEW s \in Seq(S), NEW i \in 1 .. Len(s),
         \A j, k \in DOMAIN s : s[j] = s[k] => j = k,
         NEW t, t = RemoveAt(s, i)
  PROVE  /\ {t[j] : j \in DOMAIN t} = {s[j] : j \in DOMAIN s} \ {s[i]}
         /\ \A j, k \in DOMAIN t : t[j] = t[k] => j = k
<1> DEFINE old(j) == IF j < i THEN j ELSE j + 1
<1>1. /\ DOMAIN s = 1 .. Len(s)
      /\ DOMAIN t = 1 .. Len(s) - 1
      /\ Len(s) \in Nat
  BY RemoveAtFacts
<1>2. \A j \in DOMAIN t : t[j] = s[old(j)] /\ old(j) \in DOMAIN s \ {i}
  <2>1. \A j \in 1 .. Len(s) - 1 : t[j] = IF j < i THEN s[j] ELSE s[j + 1]
    BY RemoveAtFacts
  <2>2. \A j \in DOMAIN t : old(j) \in DOMAIN s \ {i}
    BY <1>1
  <2> QED  BY <1>1, <2>1, <2>2
<1>3. \A j \in DOMAIN s \ {i} : \E k \in DOMAIN t : old(k) = j
  <2> TAKE j \in DOMAIN s \ {i}
  <2>1. CASE j < i
    BY <2>1, <1>1
  <2>2. CASE j > i
    <3>1. j - 1 \in DOMAIN t /\ old(j - 1) = j
      BY <2>2, <1>1
    <3> QED  BY <3>1
  <2> QED  BY <2>1, <2>2, <1>1
<1>4. \A j, k \in DOMAIN t : old(j) = old(k) => j = k
  BY <1>1
<1> HIDE DEF old
<1> QED  BY <1>1, <1>2, <1>3, <1>4

\* Reversing a sequence keeps its elements and its length.
LEMMA ReverseFacts ==
  ASSUME NEW S, NEW s \in Seq(S)
  PROVE  Reverse(s) \in Seq(S) /\ Len(Reverse(s)) = Len(s)
  BY DEF Reverse

\* The constants are typed as the assumptions say.
LEMMA ConstantFacts ==
  /\ Kept \in Nat \ {0}
  /\ NoResult \in Nat
  /\ NoResult \notin 0 .. MaxCalls
  BY CapacityAssumption, BoundsAssumption DEF Kept, NoResult

\* A summary of an existing run is a summary.
LEMMA SummaryFacts ==
  TypeOK => \A r \in Run : SummaryOf(r) \in Summary
  BY DEF TypeOK, SummaryOf, Summary, Status

-----------------------------------------------------------------------------
\* Every action keeps the types and the shape of the handlers, the latter
\* being what makes the former inductive.
LEMMA TypeStep ==
  TypeOK /\ HandlerShape /\ [Next]_vars => TypeOK' /\ HandlerShape'
<1> SUFFICES ASSUME TypeOK, HandlerShape, [Next]_vars
             PROVE  TypeOK' /\ HandlerShape'
  OBVIOUS
<1> USE ConstantFacts, BoundsAssumption, SummaryFacts
    DEF TypeOK, HandlerShape, PC, Starting, Holding, Status,
        store, life, reply, Goto
<1>1. ASSUME NEW c \in Clients, TakeNumber(c) PROVE TypeOK' /\ HandlerShape'
  <2>1. counter \in Run /\ counter + 1 \in 1 .. MaxRuns + 1
    BY <1>1 DEF TakeNumber, Run
  <2>2. TypeOK'
    BY <1>1, <2>1 DEF TakeNumber
  <2>3. HandlerShape'
    BY <1>1, <2>1 DEF TakeNumber
  <2> QED  BY <2>2, <2>3
<1>2. ASSUME NEW c \in Clients, Push(c) PROVE TypeOK' /\ HandlerShape'
  BY <1>2 DEF Push
<1>3. ASSUME NEW c \in Clients, ScanPast(c) PROVE TypeOK' /\ HandlerShape'
  <2>1. TypeOK'
    BY <1>3 DEF ScanPast
  <2>2. HandlerShape'
    BY <1>3 DEF ScanPast
  <2> QED  BY <2>1, <2>2
<1>4. ASSUME NEW c \in Clients, Evict(c) PROVE TypeOK' /\ HandlerShape'
  <2>1. scan[c] \in 1 .. Len(runs)
    BY <1>4 DEF Evict
  <2>2. RemoveAt(runs, scan[c]) \in Seq(Run)
    BY <2>1, RemoveAtFacts
  <2> QED  BY <1>4, <2>2 DEF Evict
<1>5. ASSUME NEW c \in Clients, Unlock(c) PROVE TypeOK' /\ HandlerShape'
  BY <1>5 DEF Unlock
<1>6. ASSUME NEW c \in Clients, Connect(c) PROVE TypeOK' /\ HandlerShape'
  BY <1>6 DEF Connect
<1>7. ASSUME NEW c \in Clients, ConnectFails(c) PROVE TypeOK' /\ HandlerShape'
  BY <1>7 DEF ConnectFails
<1>8. ASSUME NEW c \in Clients, Spawn(c) PROVE TypeOK' /\ HandlerShape'
  BY <1>8 DEF Spawn
<1>9. ASSUME NEW c \in Clients, Accept(c) PROVE TypeOK' /\ HandlerShape'
  BY <1>9 DEF Accept
<1>10. ASSUME NEW c \in Clients, NEW r \in Run, Find(c, r)
       PROVE TypeOK' /\ HandlerShape'
  BY <1>10 DEF Find
<1>11. ASSUME NEW c \in Clients, ReadSummary(c) PROVE TypeOK' /\ HandlerShape'
  BY <1>11 DEF ReadSummary
<1>12. ASSUME NEW c \in Clients, ReadOutcome(c) PROVE TypeOK' /\ HandlerShape'
  BY <1>12 DEF ReadOutcome
<1>13. ASSUME NEW c \in Clients, ReadLedger(c) PROVE TypeOK' /\ HandlerShape'
  BY <1>13 DEF ReadLedger, NoResult
<1>14. ASSUME NEW c \in Clients, ReadFinished(c) PROVE TypeOK' /\ HandlerShape'
  BY <1>14 DEF ReadFinished
<1>15. ASSUME NEW c \in Clients, NEW r \in Run, Delete(c, r)
       PROVE TypeOK' /\ HandlerShape'
  <2>1. \A i \in DOMAIN runs : RemoveAt(runs, i) \in Seq(Run)
    BY RemoveAtFacts
  <2> QED  BY <1>15, <2>1 DEF Delete
<1>16. ASSUME NEW c \in Clients, List(c) PROVE TypeOK' /\ HandlerShape'
  <2>1. Reverse(runs) \in Seq(Run) /\ Len(Reverse(runs)) = Len(runs)
    BY ReverseFacts
  <2>2. Len(Reverse(runs)) > 0
    BY <2>1, <1>16, EmptySeq DEF List
  <2> QED  BY <1>16, <2>1, <2>2 DEF List
<1>17. ASSUME NEW c \in Clients, ListNext(c) PROVE TypeOK' /\ HandlerShape'
  BY <1>17 DEF ListNext
<1>18. ASSUME NEW c \in Clients, Answer(c) PROVE TypeOK' /\ HandlerShape'
  BY <1>18 DEF Answer
<1>19. ASSUME NEW r \in Run, JudgeCall(r) PROVE TypeOK' /\ HandlerShape'
  BY <1>19 DEF JudgeCall
<1>20. ASSUME NEW r \in Run, NEW s \in {"done", "failed"}, Finish(r, s)
       PROVE TypeOK' /\ HandlerShape'
  BY <1>20 DEF Finish
<1>21. CASE UNCHANGED vars
  BY <1>21 DEF vars
<1> QED
  BY <1>1, <1>2, <1>3, <1>4, <1>5, <1>6, <1>7, <1>8, <1>9, <1>10, <1>11, <1>12,
     <1>13, <1>14, <1>15, <1>16, <1>17, <1>18, <1>19, <1>20, <1>21
     DEF Next, Request, Start, Read, Job, Complete, Fail

-----------------------------------------------------------------------------
\* What each way of changing the deque does to the set of runs it holds.
LEMMA PushListed ==
  ASSUME TypeOK, HandlerShape, NEW c \in Clients, Push(c)
  PROVE  /\ Listed' = Listed \cup {target[c]}
         /\ target[c] \in Run
<1>1. runs \in Seq(Run) /\ target[c] \in Run /\ runs' = Append(runs, target[c])
  BY DEF TypeOK, HandlerShape, Holding, Starting, Push, Goto
<1>2. /\ DOMAIN runs' = DOMAIN runs \cup {Len(runs) + 1}
      /\ \A i \in DOMAIN runs : runs'[i] = runs[i]
      /\ runs'[Len(runs) + 1] = target[c]
  BY <1>1
<1> QED  BY <1>1, <1>2 DEF Listed

LEMMA DropListed ==
  ASSUME TypeOK, ListedOnce, NEW i \in DOMAIN runs, runs' = RemoveAt(runs, i)
  PROVE  /\ Listed' = Listed \ {runs[i]}
         /\ \A j, k \in DOMAIN runs' : runs'[j] = runs'[k] => j = k
<1>1. runs \in Seq(Run) /\ i \in 1 .. Len(runs)
  BY DEF TypeOK
<1> QED  BY <1>1, RemoveAtRange DEF Listed, ListedOnce

\* Eviction drops the run under the scan, which has finished.
LEMMA EvictListed ==
  ASSUME TypeOK, HandlerShape, ListedOnce, NEW c \in Clients, Evict(c)
  PROVE  /\ scan[c] \in DOMAIN runs
         /\ runs[scan[c]] \in Run
         /\ Finished(status[runs[scan[c]]])
         /\ Listed' = Listed \ {runs[scan[c]]}
         /\ \A j, k \in DOMAIN runs' : runs'[j] = runs'[k] => j = k
<1>1. scan[c] \in 1 .. Len(runs) /\ runs \in Seq(Run)
  BY DEF TypeOK, HandlerShape, Evict
<1>2. scan[c] \in DOMAIN runs /\ runs[scan[c]] \in Run
  BY <1>1, ElementOfSeq
<1>3. Finished(status[runs[scan[c]]]) /\ runs' = RemoveAt(runs, scan[c])
  BY DEF Evict
<1> QED  BY <1>2, <1>3, DropListed

\* Listed runs are runs, and a step that leaves the deque alone leaves them.
LEMMA ListedFacts ==
  /\ TypeOK => Listed \subseteq Run
  /\ runs' = runs => Listed' = Listed
  BY ElementOfSeq DEF TypeOK, Listed

-----------------------------------------------------------------------------
\* The counter and the tasks: a run exists from its number on, has at most one
\* task in its life, and is finished exactly when that task has ended.
LEMMA CounterStep ==
  TypeOK /\ HandlerShape /\ CounterShape /\ StartShape /\ ListedOnce /\ [Next]_vars
    => CounterShape'
<1> SUFFICES ASSUME TypeOK, HandlerShape, CounterShape, StartShape, ListedOnce,
                    [Next]_vars
             PROVE  CounterShape'
  OBVIOUS
<1>t. /\ counter \in Nat /\ Run \subseteq Nat
      /\ pc \in [Clients -> PC] /\ target \in [Clients -> Run \cup {0}]
      /\ status \in [Run -> Status]
      /\ job \in [Run -> {"none", "judging", "ended"}]
  BY BoundsAssumption DEF TypeOK, Run
<1> USE <1>t, ListedFacts DEF CounterShape, Starting, Holding, Status, Finished,
        store, life, reply, Goto
<1>1. ASSUME NEW c \in Clients, TakeNumber(c) PROVE CounterShape'
  <2>1. /\ counter' = counter + 1
        /\ status' = [status EXCEPT ![counter] = "running"]
        /\ UNCHANGED <<job, deleted, Listed>>
    BY <1>1 DEF TakeNumber
  <2>2. ASSUME NEW r \in Run PROVE CounterShape!(r)'
    <3>1. CASE r = counter
      BY <2>1, <3>1
    <3>2. CASE r # counter
      BY <2>1, <3>2
    <3> QED  BY <3>1, <3>2
  <2> QED  BY <2>2
<1>2. ASSUME NEW c \in Clients, Push(c) PROVE CounterShape'
  <2>1. target[c] < counter /\ target[c] \in Run /\ Listed' = Listed \cup {target[c]}
    BY <1>2, PushListed DEF Push, StartShape
  <2>2. UNCHANGED <<counter, status, job, deleted>>
    BY <1>2 DEF Push
  <2> QED  BY <2>1, <2>2
<1>3. ASSUME NEW c \in Clients, Evict(c) PROVE CounterShape'
  <2>1. Listed' \subseteq Listed
    BY <1>3, EvictListed
  <2> QED  BY <1>3, <2>1 DEF Evict
<1>4. ASSUME NEW c \in Clients, NEW r \in Run, Delete(c, r) PROVE CounterShape'
  <2>1. Listed' \subseteq Listed /\ r \in Listed
    BY <1>4, DropListed DEF Delete, Listed
  <2> QED  BY <1>4, <2>1 DEF Delete
<1>5. ASSUME NEW c \in Clients, Spawn(c) PROVE CounterShape'
  <2>1. /\ target[c] \in Run
        /\ target[c] < counter
        /\ job[target[c]] = "none"
    BY <1>5 DEF Spawn, StartShape, HandlerShape
  <2>2. /\ UNCHANGED <<counter, status, deleted, Listed>>
        /\ job' = [job EXCEPT ![target[c]] = "judging"]
    BY <1>5 DEF Spawn
  <2>3. status[target[c]] = "running"
    <3>1. status[target[c]] \in Status
      BY <2>1
    <3>2. ~ (target[c] >= counter)
      <4> HIDE DEF CounterShape
      <4>1. \A m, n \in Nat : m < n => ~ (m >= n)
        OBVIOUS
      <4>2. target[c] \in Nat
        BY <2>1
      <4> QED  BY <2>1, <4>1, <4>2
    <3>3. status[target[c]] # "absent"
      BY <2>1, <3>2
    <3>4. ~ Finished(status[target[c]])
      BY <2>1
    <3> QED  BY <3>1, <3>3, <3>4
  <2> QED  BY <2>1, <2>2, <2>3
<1>6. ASSUME NEW r \in Run, NEW s \in {"done", "failed"}, Finish(r, s)
      PROVE  CounterShape'
  BY <1>6 DEF Finish
<1>7. ASSUME NEW c \in Clients,
             \/ ScanPast(c) \/ Unlock(c) \/ Connect(c) \/ ConnectFails(c)
             \/ Accept(c) \/ Read(c) \/ List(c) \/ \E r \in Run : Find(c, r)
      PROVE  CounterShape'
  <2>1. UNCHANGED <<counter, runs, deleted, status, job>>
    BY <1>7 DEF ScanPast, Unlock, Connect, ConnectFails, Accept, Read, List, Find,
          ReadSummary, ReadOutcome, ReadLedger, ReadFinished, ListNext, Answer
  <2>2. UNCHANGED Listed
    BY <2>1
  <2> QED  BY <2>1, <2>2
<1>8. ASSUME NEW r \in Run, JudgeCall(r) PROVE CounterShape'
  BY <1>8 DEF JudgeCall
<1>9. CASE UNCHANGED vars
  BY <1>9 DEF vars
<1> QED
  BY <1>1, <1>2, <1>3, <1>4, <1>5, <1>6, <1>7, <1>8, <1>9
     DEF Next, Request, Start, Job, Complete, Fail

\* A run being started belongs to one handler.
LEMMA StartStep ==
  TypeOK /\ HandlerShape /\ CounterShape /\ StartShape /\ ListedOnce /\ [Next]_vars
    => StartShape'
<1> SUFFICES ASSUME TypeOK, HandlerShape, CounterShape, StartShape, ListedOnce,
                    [Next]_vars
             PROVE  StartShape'
  OBVIOUS
<1>t. /\ counter \in Nat /\ Run \subseteq Nat
      /\ pc \in [Clients -> PC] /\ target \in [Clients -> Run \cup {0}]
      /\ job \in [Run -> {"none", "judging", "ended"}]
      /\ \A c \in Clients : pc[c] \in Starting => target[c] \in Run
  BY BoundsAssumption DEF TypeOK, Run, HandlerShape, Holding
<1> USE <1>t, ListedFacts DEF StartShape, Starting, store, life, reply, Goto
<1>1. ASSUME NEW c \in Clients, TakeNumber(c) PROVE StartShape'
  <2>1. counter \in Run
    BY <1>1 DEF TakeNumber, Run, TypeOK
  <2>2. status[counter] = "absent"
    BY <2>1 DEF CounterShape
  <2>3. job[counter] = "none" /\ counter \notin Listed \cup deleted
    BY <2>1, <2>2 DEF CounterShape, Finished
  <2>4. /\ counter' = counter + 1
        /\ target' = [target EXCEPT ![c] = counter]
        /\ pc[c] = "idle" /\ pc' = [pc EXCEPT ![c] = "create"]
        /\ UNCHANGED <<job, deleted, Listed>>
    BY <1>1 DEF TakeNumber
  <2>5. \A d \in Clients \ {c} : pc'[d] = pc[d] /\ target'[d] = target[d]
    BY <2>4
  <2>6. /\ target'[c] = counter /\ job'[counter] = "none"
        /\ counter \notin Listed' \cup deleted'
    BY <2>3, <2>4
  <2>7. \A d \in Clients \ {c} : pc[d] \in Starting => target[d] < counter
    OBVIOUS
  <2>8. ASSUME NEW d \in Clients, pc'[d] \in Starting
        PROVE  /\ target'[d] < counter'
               /\ job'[target'[d]] = "none"
               /\ pc'[d] = "create" => target'[d] \notin Listed' \cup deleted'
    <3>1. CASE d = c
      <4>1. counter < counter + 1
        OBVIOUS
      <4> QED  BY <2>4, <2>6, <3>1, <4>1
    <3>2. CASE d # c
      <4>1. /\ pc[d] \in Starting /\ pc'[d] = pc[d] /\ target'[d] = target[d]
            /\ target[d] \in Nat
        BY <2>5, <2>8, <3>2
      <4>2. target[d] < counter + 1
        BY <2>7, <3>2, <4>1
      <4> QED  BY <2>4, <4>1, <4>2
    <3> QED  BY <3>1, <3>2
  <2>9. ASSUME NEW d \in Clients, pc'[d] \in Starting,
               NEW e \in Clients \ {d}, pc'[e] \in Starting
        PROVE  target'[e] # target'[d]
    BY <2>1, <2>5, <2>6, <2>7, <2>9
  <2> QED  BY <2>8, <2>9
<1>2. ASSUME NEW c \in Clients, Push(c) PROVE StartShape'
  <2>1. /\ UNCHANGED <<counter, job, deleted, target>>
        /\ pc[c] = "create" /\ pc' = [pc EXCEPT ![c] = "evict"]
        /\ Listed' = Listed \cup {target[c]}
    BY <1>2, PushListed DEF Push
  <2> QED  BY <2>1
<1>3. ASSUME NEW c \in Clients, Evict(c) PROVE StartShape'
  <2>1. Listed' \subseteq Listed
    BY <1>3, EvictListed
  <2> QED  BY <1>3, <2>1 DEF Evict
<1>4. ASSUME NEW c \in Clients, NEW r \in Run, Delete(c, r) PROVE StartShape'
  <2>1. Listed' \subseteq Listed /\ r \in Listed
    BY <1>4, DropListed DEF Delete, Listed
  <2> QED  BY <1>4, <2>1 DEF Delete
<1>5. ASSUME NEW c \in Clients, Spawn(c) PROVE StartShape'
  BY <1>5 DEF Spawn, HandlerShape
<1>6. ASSUME NEW c \in Clients, NEW r \in Run, Find(c, r) PROVE StartShape'
  BY <1>6 DEF Find
<1>7. ASSUME NEW c \in Clients,
             ScanPast(c) \/ Unlock(c) \/ Connect(c) \/ ConnectFails(c) \/ Accept(c)
      PROVE  StartShape'
  <2>1. UNCHANGED <<counter, job, deleted, Listed>>
    BY <1>7 DEF ScanPast, Unlock, Connect, ConnectFails, Accept
  <2>2. \A d \in Clients :
          /\ pc'[d] \in Starting => pc[d] \in Starting /\ target'[d] = target[d]
          /\ pc'[d] = "create" => pc[d] = "create"
    BY <1>7 DEF ScanPast, Unlock, Connect, ConnectFails, Accept
  <2> QED  BY <2>1, <2>2
<1>8. ASSUME NEW c \in Clients, Read(c) \/ List(c) PROVE StartShape'
  <2>1. UNCHANGED <<counter, job, deleted, Listed>>
    BY <1>8 DEF Read, List, ReadSummary, ReadOutcome, ReadLedger, ReadFinished,
          ListNext, Answer
  <2>2. \A d \in Clients :
          pc'[d] \in Starting => pc'[d] = pc[d] /\ target'[d] = target[d]
    BY <1>8 DEF Read, List, ReadSummary, ReadOutcome, ReadLedger, ReadFinished,
          ListNext, Answer
  <2> QED  BY <2>1, <2>2
<1>9. ASSUME NEW r \in Run, Job(r) PROVE StartShape'
  <2>1. UNCHANGED <<counter, deleted, Listed, pc, target>>
    BY <1>9 DEF Job, JudgeCall, Complete, Fail, Finish
  <2>2. job[r] = "judging" /\ \A q \in Run \ {r} : job'[q] = job[q]
    BY <1>9 DEF Job, JudgeCall, Complete, Fail, Finish
  <2> QED  BY <2>1, <2>2
<1>10. CASE UNCHANGED vars
  BY <1>10 DEF vars
<1> QED
  BY <1>1, <1>2, <1>3, <1>4, <1>5, <1>6, <1>7, <1>8, <1>9, <1>10
     DEF Next, Request, Start

-----------------------------------------------------------------------------
\* The actions that leave the deque, the counter and the statuses alone.
Quiet(c) ==
  \/ ScanPast(c) \/ Unlock(c) \/ Connect(c) \/ ConnectFails(c) \/ Spawn(c)
  \/ Accept(c) \/ Read(c) \/ List(c) \/ \E r \in Run : Find(c, r)

\* They neither enter nor leave the part of a handler that holds an
\* unregistered run, nor do they enter the locked region.
LEMMA QuietFacts ==
  ASSUME TypeOK, NEW c \in Clients, Quiet(c)
  PROVE  /\ UNCHANGED <<counter, runs, status, deleted>>
         /\ UNCHANGED Listed
         /\ \A d \in Clients :
              /\ pc'[d] = "evict" => pc[d] = "evict"
              /\ pc'[d] = "create" <=> pc[d] = "create"
              /\ pc[d] = "create" => target'[d] = target[d]
<1> USE DEF Quiet, ScanPast, Unlock, Connect, ConnectFails, Spawn, Accept, Read, List,
          Find, ReadSummary, ReadOutcome, ReadLedger, ReadFinished, ListNext, Answer,
          store, life, reply, Goto
<1>t. pc \in [Clients -> PC] /\ target \in [Clients -> Run \cup {0}]
  BY DEF TypeOK
<1>1. UNCHANGED <<counter, runs, status, deleted>>
  OBVIOUS
<1>2. UNCHANGED Listed
  BY <1>1, ListedFacts
<1>3. ASSUME NEW d \in Clients
      PROVE  /\ pc'[d] = "evict" => pc[d] = "evict"
             /\ pc'[d] = "create" <=> pc[d] = "create"
             /\ pc[d] = "create" => target'[d] = target[d]
  BY <1>t
<1> QED  BY <1>1, <1>2, <1>3

\* The deque holds each run once, one create at a time works on it, and a run
\* leaves it finished or on request.
LEMMA DequeStep ==
  TypeOK /\ HandlerShape /\ CounterShape /\ StartShape
    /\ ListedOnce /\ OneEvictor /\ NoLiveRunLost /\ [Next]_vars
    => ListedOnce' /\ OneEvictor' /\ NoLiveRunLost'
<1> SUFFICES ASSUME TypeOK, HandlerShape, CounterShape, StartShape,
                    ListedOnce, OneEvictor, NoLiveRunLost, [Next]_vars
             PROVE  ListedOnce' /\ OneEvictor' /\ NoLiveRunLost'
  OBVIOUS
<1>t. /\ counter \in Nat /\ Run \subseteq Nat
      /\ pc \in [Clients -> PC] /\ target \in [Clients -> Run \cup {0}]
      /\ status \in [Run -> Status]
  BY BoundsAssumption DEF TypeOK, Run
<1> USE <1>t
<1>1. ASSUME NEW c \in Clients, TakeNumber(c)
      PROVE  ListedOnce' /\ OneEvictor' /\ NoLiveRunLost'
  <2>1. /\ counter' = counter + 1 /\ counter \in Run
        /\ target' = [target EXCEPT ![c] = counter]
        /\ pc[c] = "idle" /\ pc' = [pc EXCEPT ![c] = "create"]
        /\ status' = [status EXCEPT ![counter] = "running"]
        /\ UNCHANGED <<runs, deleted>> /\ UNCHANGED Listed
    BY <1>1, ListedFacts DEF TakeNumber, Goto, Run, TypeOK
  <2>2. \A d \in Clients \ {c} : pc'[d] = pc[d] /\ target'[d] = target[d]
    BY <2>1
  <2>3. pc'[c] = "create" /\ target'[c] = counter
    BY <2>1
  <2>4. ASSUME NEW r \in Registered' PROVE r \in Registered /\ r # counter
    <3>1. r # counter
      BY <2>3 DEF Registered
    <3>2. r < counter
      BY <2>1, <3>1 DEF Registered
    <3> QED  BY <2>1, <2>2, <3>1, <3>2 DEF Registered
  <2>5. NoLiveRunLost'
    BY <2>1, <2>4 DEF NoLiveRunLost, Registered
  <2>6. ListedOnce' /\ OneEvictor'
    BY <2>1, <2>2 DEF ListedOnce, OneEvictor
  <2> QED  BY <2>5, <2>6
<1>2. ASSUME NEW c \in Clients, Push(c)
      PROVE  ListedOnce' /\ OneEvictor' /\ NoLiveRunLost'
  <2>1. /\ UNCHANGED <<counter, status, deleted, target>>
        /\ pc[c] = "create" /\ pc' = [pc EXCEPT ![c] = "evict"]
        /\ Listed' = Listed \cup {target[c]} /\ target[c] \in Run
        /\ target[c] \notin Listed \cup deleted
    BY <1>2, PushListed DEF Push, Goto, life, StartShape, Starting
  <2>2. \A i, j \in DOMAIN runs' : runs'[i] = runs'[j] => i = j
    <3>1. /\ DOMAIN runs' = DOMAIN runs \cup {Len(runs) + 1}
          /\ \A i \in DOMAIN runs : runs'[i] = runs[i]
          /\ runs'[Len(runs) + 1] = target[c]
      BY <1>2 DEF Push, TypeOK
    <3> QED  BY <2>1, <3>1 DEF ListedOnce, Listed
  <2>3. ListedOnce'
    BY <2>1, <2>2 DEF ListedOnce
  <2>4. OneEvictor'
    BY <1>2, <2>1 DEF Push, StoreFree, OneEvictor
  <2>5. ASSUME NEW r \in Registered' PROVE r \in Registered \cup {target[c]}
    BY <2>1 DEF Registered
  <2>6. NoLiveRunLost'
    BY <2>1, <2>5 DEF NoLiveRunLost
  <2> QED  BY <2>3, <2>4, <2>6
<1>3. ASSUME NEW c \in Clients, Evict(c)
      PROVE  ListedOnce' /\ OneEvictor' /\ NoLiveRunLost'
  <2>1. UNCHANGED <<counter, status, deleted, target, pc>>
    BY <1>3 DEF Evict, life
  <2>2. Registered' = Registered
    BY <2>1 DEF Registered
  <2> QED  BY <1>3, <2>1, <2>2, EvictListed DEF ListedOnce, OneEvictor, NoLiveRunLost
<1>4. ASSUME NEW c \in Clients, NEW r \in Run, Delete(c, r)
      PROVE  ListedOnce' /\ OneEvictor' /\ NoLiveRunLost'
  <2>1. UNCHANGED <<counter, status, target, pc>> /\ deleted' = deleted \cup {r}
    BY <1>4 DEF Delete, life
  <2>2. Registered' = Registered
    BY <2>1 DEF Registered
  <2>3. PICK i \in DOMAIN runs : runs[i] = r /\ runs' = RemoveAt(runs, i)
    BY <1>4 DEF Delete
  <2>4. /\ Listed' = Listed \ {r}
        /\ \A j, k \in DOMAIN runs' : runs'[j] = runs'[k] => j = k
    BY <2>3, DropListed
  <2> QED  BY <2>1, <2>2, <2>4 DEF ListedOnce, OneEvictor, NoLiveRunLost
<1>5. ASSUME NEW r \in Run, NEW s \in {"done", "failed"}, Finish(r, s)
      PROVE  ListedOnce' /\ OneEvictor' /\ NoLiveRunLost'
  <2>1. /\ UNCHANGED <<counter, runs, deleted, target, pc>> /\ UNCHANGED Listed
        /\ status' = [status EXCEPT ![r] = s]
    BY <1>5, ListedFacts DEF Finish, store
  <2>2. Registered' = Registered
    BY <2>1 DEF Registered
  <2> QED  BY <2>1, <2>2 DEF ListedOnce, OneEvictor, NoLiveRunLost, Finished, Registered
<1>6. ASSUME NEW c \in Clients, Quiet(c)
      PROVE  ListedOnce' /\ OneEvictor' /\ NoLiveRunLost'
  <2>1. Registered' = Registered
    BY <1>6, QuietFacts DEF Registered
  <2> QED  BY <1>6, <2>1, QuietFacts DEF ListedOnce, OneEvictor, NoLiveRunLost
<1>7. ASSUME UNCHANGED <<counter, runs, status, deleted, target, pc>>
      PROVE  ListedOnce' /\ OneEvictor' /\ NoLiveRunLost'
  <2>1. UNCHANGED Listed /\ UNCHANGED Registered
    BY <1>7, ListedFacts DEF Registered
  <2> QED  BY <1>7, <2>1 DEF ListedOnce, OneEvictor, NoLiveRunLost
<1>8. ASSUME NEW r \in Run, JudgeCall(r)
      PROVE  UNCHANGED <<counter, runs, status, deleted, target, pc>>
  BY <1>8 DEF JudgeCall, store
<1>9. CASE UNCHANGED vars
  BY <1>7, <1>9 DEF vars, store, life
<1> QED
  BY <1>1, <1>2, <1>3, <1>4, <1>5, <1>6, <1>7, <1>8, <1>9
     DEF Next, Request, Start, Job, Complete, Fail, Quiet

-----------------------------------------------------------------------------
\* A run that has finished is left alone by every step.
LEMMA FinishedStays ==
  ASSUME TypeOK, HandlerShape, CounterShape, StartShape, [Next]_vars,
         NEW r \in Run, Finished(status[r])
  PROVE  /\ status'[r] = status[r]
         /\ audit'[r] = audit[r]
         /\ job[r] = "ended" /\ job'[r] = "ended"
<1>t. /\ counter \in Nat /\ Run \subseteq Nat
      /\ job \in [Run -> {"none", "judging", "ended"}]
      /\ status \in [Run -> Status] /\ audit \in [Run -> 0 .. MaxCalls]
  BY BoundsAssumption DEF TypeOK, Run
<1>e. job[r] = "ended"
  BY DEF CounterShape
<1> USE <1>t, <1>e
<1>1. ASSUME NEW c \in Clients, TakeNumber(c)
      PROVE  status'[r] = status[r] /\ audit'[r] = audit[r] /\ job'[r] = "ended"
  <2>1. counter \in Run
    BY <1>1 DEF TakeNumber, Run, TypeOK
  <2>2. status[counter] = "absent"
    BY <2>1 DEF CounterShape
  <2> QED  BY <1>1, <2>2 DEF TakeNumber, Finished
<1>2. ASSUME NEW c \in Clients, Spawn(c)
      PROVE  status'[r] = status[r] /\ audit'[r] = audit[r] /\ job'[r] = "ended"
  <2>1. job[target[c]] = "none"
    BY <1>2 DEF Spawn, Goto, StartShape, Starting
  <2> QED  BY <1>2, <2>1 DEF Spawn
<1>3. ASSUME NEW q \in Run, Job(q)
      PROVE  status'[r] = status[r] /\ audit'[r] = audit[r] /\ job'[r] = "ended"
  BY <1>3 DEF Job, JudgeCall, Complete, Fail, Finish
<1>4. ASSUME NEW c \in Clients,
             \/ Push(c) \/ ScanPast(c) \/ Evict(c) \/ Unlock(c) \/ Connect(c)
             \/ ConnectFails(c) \/ Accept(c) \/ Read(c) \/ List(c)
             \/ \E q \in Run : Find(c, q) \/ Delete(c, q)
      PROVE  status'[r] = status[r] /\ audit'[r] = audit[r] /\ job'[r] = "ended"
  BY <1>4 DEF Push, ScanPast, Evict, Unlock, Connect, ConnectFails, Accept, Read, List,
       Find, Delete, ReadSummary, ReadOutcome, ReadLedger, ReadFinished, ListNext,
       Answer, life
<1>5. CASE UNCHANGED vars
  BY <1>5 DEF vars, life
<1> QED
  BY <1>1, <1>2, <1>3, <1>4, <1>5 DEF Next, Request, Start

\* A true summary stays true.
LEMMA SummaryStays ==
  ASSUME TypeOK, HandlerShape, CounterShape, StartShape, [Next]_vars,
         NEW v, TrueSummary(v)
  PROVE  TrueSummary(v)'
<1>1. CASE Finished(v.status)
  <2>1. v.run \in Run /\ status[v.run] = v.status
    BY <1>1 DEF TrueSummary
  <2>2. Finished(status[v.run])
    BY <1>1, <2>1
  <2> QED  BY <2>1, <2>2, FinishedStays DEF TrueSummary
<1>2. CASE ~ Finished(v.status)
  BY <1>2 DEF TrueSummary
<1> QED  BY <1>1, <1>2

\* The summary of an existing run is true when it is read.
LEMMA SummaryTrue ==
  ASSUME TypeOK, CounterShape, NEW r \in Run
  PROVE  TrueSummary(SummaryOf(r))
  BY DEF TrueSummary, SummaryOf, CounterShape

\* ReadShape, one client at a time.
ReadShapeOf(c) ==
  /\ TrueSummary(view[c])
  /\ \A i \in DOMAIN rows[c] : TrueSummary(rows[c][i])
  /\ pc[c] \in {"idle", "found"} \cup Starting => view[c] = NoView
  /\ pc[c] = "summed" => view[c].run = target[c]
  /\ pc[c] = "priced" => status[target[c]] = "done" /\ view[c].status # "failed"
  /\ ledger[c] # NoResult => /\ pc[c] = "viewed"
                             /\ target[c] \in Run
                             /\ ledger[c] = audit[target[c]]
                             /\ status[target[c]] = "done"
  /\ pc[c] = "viewed" =>
       /\ view[c].status = "done" => ledger[c] # NoResult
       /\ view[c].status = "failed" => ledger[c] = NoResult

\* A step that leaves a client's handler alone leaves what it has read true.
LEMMA OthersRead ==
  ASSUME TypeOK, HandlerShape, CounterShape, StartShape, [Next]_vars,
         NEW d \in Clients, ReadShapeOf(d),
         pc'[d] = pc[d], target'[d] = target[d], view'[d] = view[d],
         ledger'[d] = ledger[d], rows'[d] = rows[d]
  PROVE  ReadShapeOf(d)'
<1>1. TrueSummary(view[d])' /\ \A i \in DOMAIN rows'[d] : TrueSummary(rows[d][i])'
  BY SummaryStays DEF ReadShapeOf
<1>2. ASSUME NEW r \in Run, status[r] = "done"
      PROVE  status'[r] = "done" /\ audit'[r] = audit[r]
  BY <1>2, FinishedStays DEF Finished
<1>3. pc[d] = "priced" => target[d] \in Run
  BY DEF HandlerShape, Holding
<1>4. NoResult' = NoResult /\ NoView' = NoView
  BY DEF NoResult, NoView
<1> QED  BY <1>1, <1>2, <1>3, <1>4 DEF ReadShapeOf

\* The locals of one client's handler that ReadShape speaks of.
Own(d) == <<pc[d], target[d], view[d], ledger[d], rows[d]>>

\* What handlers have read stays in agreement with the runs they read.
LEMMA ReadStep ==
  TypeOK /\ HandlerShape /\ CounterShape /\ StartShape /\ ReadShape /\ [Next]_vars
    => ReadShape'
<1> SUFFICES ASSUME TypeOK, HandlerShape, CounterShape, StartShape, ReadShape,
                    [Next]_vars
             PROVE  ReadShape'
  OBVIOUS
<1>t. /\ pc \in [Clients -> PC] /\ target \in [Clients -> Run \cup {0}]
      /\ view \in [Clients -> Summary \cup {NoView}]
      /\ ledger \in [Clients -> 0 .. NoResult]
      /\ rows \in [Clients -> Seq(Summary)]
      /\ status \in [Run -> Status] /\ audit \in [Run -> 0 .. MaxCalls]
  BY DEF TypeOK
<1>a. \A d \in Clients : ReadShapeOf(d)
  BY DEF ReadShape, ReadShapeOf
<1>b. (\A d \in Clients : ReadShapeOf(d)') => ReadShape'
  BY DEF ReadShape, ReadShapeOf
<1>c. \A d \in Clients : Own(d)' = Own(d) => ReadShapeOf(d)'
  BY <1>a, OthersRead DEF Own
<1>d. ASSUME NEW c \in Clients, \A d \in Clients \ {c} : Own(d)' = Own(d),
             ReadShapeOf(c)'
      PROVE  ReadShape'
  BY <1>b, <1>c, <1>d
<1> DEFINE StillTrue(v) == Finished(v.status) =>
             /\ v.run \in Run
             /\ status'[v.run] = v.status
             /\ v.calls = audit'[v.run]
             /\ job'[v.run] = "ended"
<1>e. \A v : TrueSummary(v) => StillTrue(v)
  BY SummaryStays DEF TrueSummary
<1>f. \A r \in Run : StillTrue(SummaryOf(r)) /\ SummaryOf(r).run = r
  BY <1>e, SummaryTrue DEF SummaryOf
<1>g. \A c \in Clients : StillTrue(view[c]) /\ \A i \in DOMAIN rows[c] : StillTrue(rows[c][i])
  BY <1>e DEF ReadShape
<1>h. StillTrue(NoView)
  BY DEF NoView, Finished
<1>i. \A r \in Run : status[r] = "done" => status'[r] = "done" /\ audit'[r] = audit[r]
  BY FinishedStays DEF Finished
<1>j. /\ NoResult' = NoResult /\ NoView' = NoView
      /\ \A n \in 0 .. MaxCalls : n # NoResult
  BY ConstantFacts DEF NoResult, NoView
<1>k. ASSUME NEW c \in Clients
      PROVE  TrueSummary(view[c])' <=> StillTrue(view'[c])
  BY DEF TrueSummary
<1>l. ASSUME NEW c \in Clients
      PROVE  (\A i \in DOMAIN rows[c] : TrueSummary(rows[c][i]))'
               <=> \A i \in DOMAIN rows'[c] : StillTrue(rows'[c][i])
  BY DEF TrueSummary
<1> HIDE DEF StillTrue
<1> USE <1>t DEF Goto, store, life, reply
<1>1. ASSUME NEW c \in Clients, TakeNumber(c) PROVE ReadShape'
  <2>1. /\ pc[c] = "idle" /\ pc' = [pc EXCEPT ![c] = "create"]
        /\ target' = [target EXCEPT ![c] = counter]
        /\ UNCHANGED <<view, ledger, rows>>
    BY <1>1 DEF TakeNumber
  <2>2. ReadShapeOf(c)'
    BY <2>1, <1>a, <1>g, <1>j, <1>k, <1>l DEF ReadShapeOf
  <2> QED  BY <2>1, <2>2, <1>d DEF Own
<1>2. ASSUME NEW c \in Clients,
             \/ Push(c) \/ ScanPast(c) \/ Evict(c) \/ Unlock(c) \/ Connect(c)
             \/ ConnectFails(c) \/ Spawn(c) \/ \E r \in Run : Find(c, r)
      PROVE  ReadShape'
  <2>1. /\ pc[c] \in {"idle"} \cup Starting
        /\ pc'[c] \in {"started", "idle", "found"} \cup Starting
        /\ UNCHANGED <<view, ledger, rows>>
        /\ \A d \in Clients \ {c} : pc'[d] = pc[d] /\ target'[d] = target[d]
    BY <1>2 DEF Push, ScanPast, Evict, Unlock, Connect, ConnectFails, Spawn, Find, Starting
  <2>2. ReadShapeOf(c)'
    BY <2>1, <1>a, <1>g, <1>j, <1>k, <1>l DEF ReadShapeOf, Starting
  <2> QED  BY <2>1, <2>2, <1>d DEF Own
<1>3. ASSUME NEW c \in Clients, Accept(c) \/ ReadSummary(c) PROVE ReadShape'
  <2>1. /\ pc[c] \in {"started", "found"} /\ target[c] \in Run
        /\ pc' = [pc EXCEPT ![c] = IF pc[c] = "started" THEN "accepted" ELSE "summed"]
        /\ view' = [view EXCEPT ![c] = SummaryOf(target[c])]
        /\ UNCHANGED <<target, ledger, rows>>
    BY <1>3 DEF Accept, ReadSummary, HandlerShape, Holding
  <2>2. ReadShapeOf(c)'
    BY <2>1, <1>a, <1>f, <1>g, <1>j, <1>k, <1>l DEF ReadShapeOf, Starting
  <2> QED  BY <2>1, <2>2, <1>d DEF Own
<1>4. ASSUME NEW c \in Clients, ReadOutcome(c) PROVE ReadShape'
  <2>1. /\ pc[c] = "summed" /\ target[c] \in Run
        /\ pc' = [pc EXCEPT ![c] =
                    IF status[target[c]] = "done" THEN "priced" ELSE "viewed"]
        /\ UNCHANGED <<target, view, ledger, rows>>
    BY <1>4 DEF ReadOutcome, HandlerShape, Holding
  <2>2. view[c].run = target[c] /\ ledger[c] = NoResult /\ TrueSummary(view[c])
    BY <2>1, <1>a DEF ReadShapeOf
  <2>3. Finished(view[c].status) => status[target[c]] = view[c].status
    BY <2>2 DEF TrueSummary
  <2>4. ReadShapeOf(c)'
    <3>1. CASE status[target[c]] = "done"
      BY <2>1, <2>2, <2>3, <3>1, <1>g, <1>i, <1>j, <1>k, <1>l
         DEF ReadShapeOf, Starting, Finished
    <3>2. CASE status[target[c]] # "done"
      BY <2>1, <2>2, <2>3, <3>2, <1>g, <1>i, <1>j, <1>k, <1>l
         DEF ReadShapeOf, Starting, Finished
    <3> QED  BY <3>1, <3>2
  <2> QED  BY <2>1, <2>4, <1>d DEF Own
<1>5. ASSUME NEW c \in Clients, ReadLedger(c) PROVE ReadShape'
  <2>1. /\ pc[c] = "priced" /\ target[c] \in Run
        /\ pc' = [pc EXCEPT ![c] = "viewed"]
        /\ ledger' = [ledger EXCEPT ![c] = audit[target[c]]]
        /\ UNCHANGED <<target, view, rows>>
    BY <1>5 DEF ReadLedger, HandlerShape, Holding
  <2>2. ReadShapeOf(c)'
    BY <2>1, <1>a, <1>g, <1>i, <1>j, <1>k, <1>l DEF ReadShapeOf, Starting
  <2> QED  BY <2>1, <2>2, <1>d DEF Own
<1>6. ASSUME NEW c \in Clients, ReadFinished(c) PROVE ReadShape'
  <2>1. /\ pc[c] = "found" /\ target[c] \in Run
        /\ IF status[target[c]] = "done"
           THEN pc' = [pc EXCEPT ![c] = "priced"] /\ UNCHANGED target
           ELSE pc' = [pc EXCEPT ![c] = "idle"] /\ target' = [target EXCEPT ![c] = 0]
        /\ UNCHANGED <<view, ledger, rows>>
    BY <1>6 DEF ReadFinished, HandlerShape, Holding
  <2>2. view[c] = NoView /\ NoView.status = "absent"
    BY <2>1, <1>a DEF ReadShapeOf, NoView
  <2>3. ReadShapeOf(c)'
    BY <2>1, <2>2, <1>a, <1>g, <1>i, <1>j, <1>k, <1>l DEF ReadShapeOf, Starting
  <2> QED  BY <2>1, <2>3, <1>d DEF Own
<1>7. ASSUME NEW c \in Clients, List(c) PROVE ReadShape'
  <2>1. /\ pc[c] = "idle" /\ pc' = [pc EXCEPT ![c] = "listing"]
        /\ UNCHANGED <<target, view, ledger, rows>>
    BY <1>7 DEF List
  <2>2. ReadShapeOf(c)'
    BY <2>1, <1>a, <1>g, <1>j, <1>k, <1>l DEF ReadShapeOf, Starting
  <2> QED  BY <2>1, <2>2, <1>d DEF Own
<1>8. ASSUME NEW c \in Clients, ListNext(c) PROVE ReadShape'
  <2>1. snap[c] \in Seq(Run) /\ Len(rows[c]) + 1 \in 1 .. Len(snap[c])
    BY <1>8 DEF ListNext, HandlerShape, TypeOK
  <2>2. PICK r \in Run : r = snap[c][Len(rows[c]) + 1]
    BY <2>1, ElementOfSeq
  <2>3. /\ pc[c] = "listing" /\ pc'[c] \in {"listing", "listed"}
        /\ \A d \in Clients \ {c} : pc'[d] = pc[d]
        /\ rows' = [rows EXCEPT ![c] = Append(@, SummaryOf(r))]
        /\ UNCHANGED <<target, view, ledger>>
    BY <1>8, <2>2 DEF ListNext
  <2>4. \A i \in DOMAIN rows'[c] : StillTrue(rows'[c][i])
    <3>1. /\ DOMAIN rows'[c] = DOMAIN rows[c] \cup {Len(rows[c]) + 1}
          /\ \A i \in DOMAIN rows[c] : rows'[c][i] = rows[c][i]
          /\ rows'[c][Len(rows[c]) + 1] = SummaryOf(r)
      BY <2>3, SummaryFacts
    <3> QED  BY <3>1, <1>f, <1>g
  <2>5. ReadShapeOf(c)'
    BY <2>3, <2>4, <1>a, <1>g, <1>j, <1>k, <1>l DEF ReadShapeOf, Starting
  <2> QED  BY <2>3, <2>5, <1>d DEF Own
<1>9. ASSUME NEW c \in Clients, Answer(c) PROVE ReadShape'
  <2>1. /\ pc' = [pc EXCEPT ![c] = "idle"]
        /\ target' = [target EXCEPT ![c] = 0]
        /\ view' = [view EXCEPT ![c] = NoView]
        /\ ledger' = [ledger EXCEPT ![c] = NoResult]
        /\ rows' = [rows EXCEPT ![c] = <<>>]
    BY <1>9 DEF Answer
  <2>2. ReadShapeOf(c)'
    BY <2>1, <1>h, <1>j, <1>k, <1>l DEF ReadShapeOf, Starting
  <2> QED  BY <2>1, <2>2, <1>d DEF Own
<1>10. ASSUME UNCHANGED <<pc, target, view, ledger, rows>> PROVE ReadShape'
  BY <1>10, <1>b, <1>c DEF Own
<1>11. ASSUME \/ \E c \in Clients, r \in Run : Delete(c, r)
              \/ \E r \in Run : Job(r)
              \/ UNCHANGED vars
       PROVE  ReadShape'
  BY <1>11, <1>10 DEF Delete, Job, JudgeCall, Complete, Fail, Finish, vars
<1> QED
  BY <1>1, <1>2, <1>3, <1>4, <1>5, <1>6, <1>7, <1>8, <1>9, <1>11
     DEF Next, Request, Start, Read

-----------------------------------------------------------------------------
\* The scan of an eviction leaves behind it only runs that were running when the
\* lock was taken.
LEMMA ScanStep ==
  TypeOK /\ HandlerShape /\ CounterShape /\ StartShape
    /\ ListedOnce /\ OneEvictor /\ ScanShape /\ [Next]_vars
    => ScanShape'
<1> SUFFICES ASSUME TypeOK, HandlerShape, CounterShape, StartShape,
                    ListedOnce, OneEvictor, ScanShape, [Next]_vars
             PROVE  ScanShape'
  OBVIOUS
<1>t. /\ runs \in Seq(Run) /\ pc \in [Clients -> PC] /\ scan \in [Clients -> Nat]
      /\ doneAtLock \subseteq Run /\ status \in [Run -> Status]
  BY DEF TypeOK
<1> USE <1>t
<1>f. \A r \in Run : Finished(status[r]) => Finished(status'[r])
  BY FinishedStays
<1>1. ASSUME NEW c \in Clients, Push(c)
      PROVE  ScanShape'
  <2>1. /\ UNCHANGED status
        /\ doneAtLock' = {r \in Run : Finished(status[r])}
        /\ pc' = [pc EXCEPT ![c] = "evict"] /\ scan' = [scan EXCEPT ![c] = 1]
        /\ \A d \in Clients : pc[d] # "evict"
    BY <1>1 DEF Push, life, Goto, StoreFree
  <2>2. runs' \in Seq(Run)
    <3>1. target[c] \in Run /\ runs' = Append(runs, target[c])
      BY <1>1, PushListed DEF Push
    <3> QED  BY <3>1
  <2>3. \A d \in Clients : pc'[d] = "evict" => scan'[d] = 1
    BY <2>1
  <2> QED  BY <2>1, <2>2, <2>3 DEF ScanShape
<1>2. ASSUME NEW c \in Clients, ScanPast(c)
      PROVE  ScanShape'
  <2>1. /\ UNCHANGED <<runs, doneAtLock, status, pc>>
        /\ scan' = [scan EXCEPT ![c] = @ + 1]
        /\ scan[c] \in Nat
        /\ status[runs[scan[c]]] = "running"
    BY <1>2 DEF ScanPast, store, life
  <2>2. runs[scan[c]] \notin doneAtLock
    BY <2>1 DEF ScanShape, Finished
  <2>3. pc[c] = "evict"
    BY <1>2 DEF ScanPast
  <2>4. ASSUME NEW d \in Clients, pc[d] = "evict", NEW i \in DOMAIN runs, i < scan'[d]
        PROVE  runs[i] \notin doneAtLock
    <3>1. d = c
      BY <2>3, <2>4 DEF OneEvictor
    <3>2. i < scan[c] \/ i = scan[c]
      BY <2>1, <2>4, <3>1
    <3> QED  BY <2>2, <2>3, <3>2 DEF ScanShape
  <2> QED  BY <2>1, <2>4 DEF ScanShape
<1>3. ASSUME NEW c \in Clients, Evict(c)
      PROVE  ScanShape'
  <2>1. /\ UNCHANGED <<doneAtLock, status, pc>> /\ pc[c] = "evict"
        /\ scan' = [scan EXCEPT ![c] = 1] /\ runs' = RemoveAt(runs, scan[c])
    BY <1>3 DEF Evict, life
  <2>2. runs' \in Seq(Run)
    <3>1. scan[c] \in 1 .. Len(runs)
      BY <1>3, EvictListed
    <3> QED  BY <2>1, <3>1, RemoveAtFacts
  <2>3. \A d \in Clients : pc'[d] = "evict" => scan'[d] = 1
    BY <2>1 DEF OneEvictor
  <2> QED  BY <2>1, <2>2, <2>3 DEF ScanShape
<1>4. ASSUME NEW c \in Clients, NEW r \in Run, Delete(c, r)
      PROVE  ScanShape'
  <2>1. UNCHANGED <<doneAtLock, status, pc>> /\ \A d \in Clients : pc[d] # "evict"
    BY <1>4 DEF Delete, life, StoreFree
  <2> QED  BY <2>1 DEF ScanShape
<1>5. ASSUME UNCHANGED <<runs, doneAtLock>>,
             \A d \in Clients : pc'[d] = "evict" => pc[d] = "evict" /\ scan'[d] = scan[d]
      PROVE  ScanShape'
  BY <1>5, <1>f DEF ScanShape
<1>6. ASSUME NEW c \in Clients, Request(c) \/ Start(c) \/ Read(c),
             ~ Push(c), ~ ScanPast(c), ~ Evict(c), ~ \E r \in Run : Delete(c, r)
      PROVE  ScanShape'
  <2>1. UNCHANGED <<runs, doneAtLock>>
    BY <1>6 DEF Request, Start, Read, TakeNumber, List, Find, Unlock, Connect, ConnectFails,
         Spawn, Accept, ReadSummary, ReadOutcome, ReadLedger, ReadFinished, ListNext,
         Answer, store
  <2>2. \A d \in Clients : pc'[d] = "evict" => pc[d] = "evict" /\ scan'[d] = scan[d]
    BY <1>6 DEF Request, Start, Read, TakeNumber, List, Find, Unlock, Connect, ConnectFails,
         Spawn, Accept, ReadSummary, ReadOutcome, ReadLedger, ReadFinished, ListNext,
         Answer, Goto
  <2> QED  BY <1>5, <2>1, <2>2
<1>7. ASSUME NEW r \in Run, Job(r)
      PROVE  ScanShape'
  <2>1. UNCHANGED <<runs, doneAtLock, pc, scan>>
    BY <1>7 DEF Job, JudgeCall, Complete, Fail, Finish, store
  <2> QED  BY <1>5, <2>1
<1>8. CASE UNCHANGED vars
  <2>1. UNCHANGED <<runs, doneAtLock, pc, scan>>
    BY <1>8 DEF vars, store
  <2> QED  BY <1>5, <2>1
<1> QED  BY <1>1, <1>2, <1>3, <1>4, <1>6, <1>7, <1>8 DEF Next

-----------------------------------------------------------------------------
\* Nothing is stored, held or read before the first request.
LEMMA InitIInv == Init => IInv
<1> SUFFICES ASSUME Init PROVE IInv
  OBVIOUS
<1> USE BoundsAssumption DEF Init
<1>0. Listed = {} /\ DOMAIN runs = {} /\ \A c \in Clients : DOMAIN rows[c] = {}
  BY DEF Listed
<1>1. TypeOK
  BY DEF TypeOK, Run, Status, PC, NoResult
<1>2. HandlerShape
  BY DEF HandlerShape, Holding, Starting
<1>3. CounterShape
  BY <1>0 DEF CounterShape, Run, Finished
<1>4. StartShape
  BY DEF StartShape, Starting
<1>5. ReadShape
  BY <1>0 DEF ReadShape, TrueSummary, NoView, Finished
<1>6. ListedOnce /\ OneEvictor /\ NoLiveRunLost
  BY <1>0 DEF ListedOnce, OneEvictor, NoLiveRunLost, Registered, Run
<1>7. ScanShape
  BY <1>0 DEF ScanShape
<1> QED  BY <1>1, <1>2, <1>3, <1>4, <1>5, <1>6, <1>7 DEF IInv

\* The conjuncts of IInv are inductive together.
LEMMA IInvStep == IInv /\ [Next]_vars => IInv'
  BY TypeStep, CounterStep, StartStep, ReadStep, DequeStep, ScanStep DEF IInv

\* What the answers say follows from it.
LEMMA IInvAnswers == IInv => FinalAnswers /\ ResultMatchesStatus
<1> SUFFICES ASSUME IInv PROVE FinalAnswers /\ ResultMatchesStatus
  OBVIOUS
<1>1. FinalAnswers
  BY DEF IInv, ReadShape, TrueSummary, FinalAnswers
<1>2. ResultMatchesStatus
  BY DEF IInv, ReadShape, ResultMatchesStatus
<1> QED  BY <1>1, <1>2

\* The inductive invariant holds throughout, whatever the interleaving of the
\* handlers, the eviction loops and the tasks.
THEOREM Inductive == Safety => []IInv
<1>1. Init => IInv
  BY InitIInv
<1>2. IInv /\ [Next]_vars => IInv'
  BY IInvStep
<1> QED  BY <1>1, <1>2, PTL DEF Safety

\* Every variable keeps its type.
THEOREM TypeCorrect == Safety => []TypeOK
<1>1. IInv => TypeOK
  BY DEF IInv
<1> QED  BY <1>1, Inductive, PTL

\* Eviction never drops a run that has not finished: a registered run leaves the
\* store finished or because a client deleted it.
THEOREM LiveRunsKept == Safety => []NoLiveRunLost
<1>1. IInv => NoLiveRunLost
  BY DEF IInv
<1> QED  BY <1>1, Inductive, PTL

\* The deque never holds a run twice, nor one that was deleted, and one create
\* at a time works on it.
THEOREM DequeSound == Safety => [](ListedOnce /\ OneEvictor)
<1>1. IInv => ListedOnce /\ OneEvictor
  BY DEF IInv
<1> QED  BY <1>1, Inductive, PTL

\* No handler answers a finished status with a call count or a cost ledger that
\* the run will still change.
THEOREM AnswersFinal == Safety => []FinalAnswers
<1>1. IInv => FinalAnswers
  BY IInvAnswers
<1> QED  BY <1>1, Inductive, PTL

\* get_run's two reads never pair a done summary with no result, or a failed one
\* with a result.
THEOREM AnswersMatch == Safety => []ResultMatchesStatus
<1>1. IInv => ResultMatchesStatus
  BY IInvAnswers
<1> QED  BY <1>1, Inductive, PTL

\* A finished run is never changed again, whoever still holds its handle.
THEOREM FinishedFrozen == Safety => FinishedIsFinal
<1>1. IInv /\ [Next]_vars =>
        [\A r \in Run : Finished(status[r]) =>
           status'[r] = status[r] /\ audit'[r] = audit[r]]_vars
  BY FinishedStays DEF IInv
<1> QED  BY <1>1, Inductive, PTL DEF FinishedIsFinal, Safety

\* Which runs a step takes out of the deque: the one under an eviction's scan, or
\* one a client deleted.
LEMMA WhatLeaves ==
  ASSUME IInv, [Next]_vars, NEW i \in DOMAIN runs, runs[i] \notin Listed' \cup deleted'
  PROVE  \E c \in Clients : pc[c] = "evict" /\ i = scan[c]
<1> USE DEF IInv
<1>1. runs[i] \in Listed
  BY DEF Listed
<1>2. ASSUME NEW c \in Clients, Evict(c)
      PROVE  \E d \in Clients : pc[d] = "evict" /\ i = scan[d]
  <2>1. scan[c] \in DOMAIN runs /\ Listed' = Listed \ {runs[scan[c]]} /\ pc[c] = "evict"
    BY <1>2, EvictListed DEF Evict
  <2> QED  BY <1>1, <2>1 DEF ListedOnce
<1>3. ASSUME NEW c \in Clients, NEW r \in Run, Delete(c, r)
      PROVE  FALSE
  <2>1. deleted' = deleted \cup {r}
    BY <1>3 DEF Delete
  <2>2. PICK k \in DOMAIN runs : runs[k] = r /\ runs' = RemoveAt(runs, k)
    BY <1>3 DEF Delete
  <2>3. Listed' = Listed \ {r}
    BY <2>2, DropListed
  <2> QED  BY <1>1, <2>1, <2>3
<1>4. ASSUME NEW c \in Clients, Push(c)
      PROVE  FALSE
  BY <1>1, <1>4, PushListed
<1>5. ASSUME UNCHANGED runs
      PROVE  FALSE
  BY <1>1, <1>5, ListedFacts
<1>6. ASSUME NEW c \in Clients, Quiet(c)
      PROVE  UNCHANGED runs
  BY <1>6, QuietFacts
<1>7. ASSUME NEW c \in Clients, TakeNumber(c)
      PROVE  UNCHANGED runs
  BY <1>7 DEF TakeNumber
<1>8. ASSUME NEW r \in Run, Job(r)
      PROVE  UNCHANGED runs
  BY <1>8 DEF Job, JudgeCall, Complete, Fail, Finish, store
<1>9. CASE UNCHANGED vars
  BY <1>5, <1>9 DEF vars, store
<1> QED
  BY <1>2, <1>3, <1>4, <1>5, <1>6, <1>7, <1>8, <1>9 DEF Next, Request, Start, Quiet

\* Eviction passes over no older run that had finished when the create took the lock.
THEOREM OldestGoesFirst == Safety => EvictionOrder
<1>1. IInv /\ [Next]_vars =>
        [\A i \in DOMAIN runs :
           runs[i] \notin Listed' \cup deleted'
             => \A j \in 1 .. i - 1 : runs[j] \notin doneAtLock]_vars
  <2> SUFFICES ASSUME IInv, [Next]_vars, NEW i \in DOMAIN runs,
                      runs[i] \notin Listed' \cup deleted', NEW j \in 1 .. i - 1
               PROVE  runs[j] \notin doneAtLock
    OBVIOUS
  <2>1. PICK c \in Clients : pc[c] = "evict" /\ i = scan[c]
    BY WhatLeaves
  <2>2. j \in DOMAIN runs /\ j < scan[c]
    BY <2>1 DEF IInv, TypeOK
  <2> QED  BY <2>1, <2>2 DEF IInv, ScanShape
<1> QED  BY <1>1, Inductive, PTL DEF EvictionOrder, Safety

\* A create leaves the store over capacity only when nothing in it had finished
\* when it took the lock.
THEOREM OverflowIsLive == Safety => OverflowJustified
<1>1. IInv /\ [Next]_vars =>
        [\A c \in Clients : pc[c] = "evict" /\ pc'[c] # "evict" /\ OverCapacity
           => Listed \cap doneAtLock = {}]_vars
  <2> SUFFICES ASSUME IInv, [Next]_vars, NEW c \in Clients,
                      pc[c] = "evict", pc'[c] # "evict", OverCapacity
               PROVE  Listed \cap doneAtLock = {}
    OBVIOUS
  <2>t. pc \in [Clients -> PC] /\ scan \in [Clients -> Nat] /\ runs \in Seq(Run)
    BY DEF IInv, TypeOK
  <2>1. Unlock(c)
    <3>1. ASSUME NEW d \in Clients, Request(d) \/ Start(d) \/ Read(d), ~ Unlock(d)
          PROVE  pc'[c] = pc[c]
      BY <2>t, <3>1 DEF Request, Start, Read, TakeNumber, List, Find, Delete, Push, ScanPast,
           Evict, Connect, ConnectFails, Spawn, Accept, ReadSummary, ReadOutcome,
           ReadLedger, ReadFinished, ListNext, Answer, Goto
    <3>2. ASSUME NEW d \in Clients, Unlock(d)
          PROVE  d = c
      BY <2>t, <3>2 DEF Unlock, Goto
    <3>3. ASSUME NEW r \in Run, Job(r)
          PROVE  pc' = pc
      BY <3>3 DEF Job, JudgeCall, Complete, Fail, Finish
    <3>4. CASE UNCHANGED vars
      BY <3>4 DEF vars
    <3> QED  BY <3>1, <3>2, <3>3, <3>4 DEF Next
  <2>2. scan[c] > Len(runs)
    BY <2>1 DEF Unlock
  <2>3. \A i \in DOMAIN runs : runs[i] \notin doneAtLock
    BY <2>t, <2>2 DEF IInv, ScanShape
  <2> QED  BY <2>3 DEF Listed
<1> QED  BY <1>1, Inductive, PTL DEF OverflowJustified, Safety

-----------------------------------------------------------------------------
(***************************************************************************)
(* The store implements RunLifecycle: each action is one lifecycle action   *)
(* or leaves what a client can rely on unchanged.                          *)
(***************************************************************************)

\* The lifecycle's `state` under the refinement mapping.
Known == [r \in Run |-> IF r \in Registered THEN status[r] ELSE "unknown"]

\* A listed run and a run being judged are registered; a registered run's status
\* is not "absent".
LEMMA KnownFacts ==
  ASSUME IInv
  PROVE  /\ Listed \subseteq Registered
         /\ \A r \in Run : job[r] = "judging" => r \in Registered
         /\ Registered \subseteq Run
<1>t. /\ counter \in Nat /\ Run \subseteq Nat /\ Listed \subseteq Run
      /\ \A r \in Run : ~ (r >= counter) => r < counter
  BY BoundsAssumption, ListedFacts DEF IInv, TypeOK, Run
<1>1. \A r \in Listed : r < counter
  BY <1>t DEF IInv, CounterShape
<1>2. \A r \in Run : job[r] = "judging" => r < counter
  BY <1>t DEF IInv, CounterShape
<1> QED  BY <1>t, <1>1, <1>2 DEF Registered, IInv, StartShape, Starting

\* Pushing a handle registers its run.
LEMMA PushRegisters ==
  ASSUME IInv, NEW c \in Clients, Push(c), NEW q \in Run, q = target[c]
  PROVE  Life!Register(q)
<1>1. /\ UNCHANGED <<counter, status, audit, deleted, target>>
      /\ pc[c] = "create" /\ pc' = [pc EXCEPT ![c] = "evict"]
      /\ target[c] \in Run /\ target[c] < counter /\ job[target[c]] = "none"
      /\ Listed' = Listed \cup {target[c]}
  BY PushListed DEF Push, Goto, life, IInv, StartShape, Starting
<1>2. status[target[c]] = "running"
  <2>1. counter \in Nat /\ target[c] \in Nat /\ ~ (target[c] >= counter)
    BY <1>1, BoundsAssumption DEF IInv, TypeOK, Run
  <2>2. status[target[c]] # "absent" /\ ~ Finished(status[target[c]])
    BY <1>1, <2>1 DEF IInv, CounterShape
  <2>3. status[target[c]] \in Status
    BY <1>1 DEF IInv, TypeOK
  <2> QED  BY <2>2, <2>3 DEF Status, Finished
<1>3. Registered' = Registered \cup {target[c]} /\ target[c] \notin Registered
  <2>1. pc \in [Clients -> PC]
    BY DEF IInv, TypeOK
  <2>2. \A d \in Clients \ {c} : pc'[d] = pc[d]
    BY <1>1, <2>1
  <2>3. pc'[c] = "evict"
    BY <1>1, <2>1
  <2>4. \A d \in Clients \ {c} : pc[d] = "create" => target[d] # target[c]
    BY <1>1 DEF IInv, StartShape, Starting
  <2> QED  BY <1>1, <2>2, <2>3, <2>4 DEF Registered
<1>4. Known[target[c]] = "unknown" /\ Known' = [Known EXCEPT ![target[c]] = "running"]
  BY <1>1, <1>2, <1>3 DEF Known
<1> QED  BY <1>1, <1>4 DEF Life!Register, Known

\* The mapping does not move when neither the registered runs nor their
\* statuses do.
LEMMA KnownStays ==
  ASSUME Registered' = Registered,
         \A r \in Registered : status'[r] = status[r]
  PROVE  Known' = Known
  BY DEF Known

\* Every step of the store is a lifecycle step or leaves the lifecycle alone.
LEMMA LifeStep == IInv /\ [Next]_vars => [Life!Next]_(Life!lifeVars)
<1> SUFFICES ASSUME IInv, [Next]_vars PROVE Life!Next \/ UNCHANGED Life!lifeVars
  OBVIOUS
<1>t. /\ TypeOK /\ HandlerShape /\ ListedOnce
      /\ counter \in Nat /\ Run \subseteq Nat
      /\ pc \in [Clients -> PC] /\ target \in [Clients -> Run \cup {0}]
      /\ status \in [Run -> Status] /\ audit \in [Run -> 0 .. MaxCalls]
  BY BoundsAssumption DEF IInv, TypeOK, Run
<1>s. ASSUME UNCHANGED <<Known, audit, Listed, deleted>>
      PROVE  UNCHANGED Life!lifeVars
  BY <1>s DEF Life!lifeVars, Known
<1>1. ASSUME NEW c \in Clients, TakeNumber(c) PROVE UNCHANGED Life!lifeVars
  <2>1. /\ counter' = counter + 1 /\ counter \in Run
        /\ target' = [target EXCEPT ![c] = counter]
        /\ pc[c] = "idle" /\ pc' = [pc EXCEPT ![c] = "create"]
        /\ status' = [status EXCEPT ![counter] = "running"]
        /\ UNCHANGED <<runs, audit, deleted>> /\ UNCHANGED Listed
    BY <1>1, <1>t, ListedFacts DEF TakeNumber, Goto, Run, TypeOK
  <2>2. /\ \A d \in Clients \ {c} : pc'[d] = pc[d] /\ target'[d] = target[d]
        /\ pc'[c] = "create" /\ target'[c] = counter
    BY <2>1, <1>t
  <2>3. ASSUME NEW r \in Run PROVE r \in Registered' <=> r \in Registered
    <3>1. CASE r = counter
      BY <2>1, <2>2, <3>1, <1>t DEF Registered
    <3>2. CASE r # counter
      <4>1. r < counter' <=> r < counter
        BY <2>1, <3>2, <1>t
      <4> QED  BY <2>1, <2>2, <3>2, <4>1 DEF Registered
    <3> QED  BY <3>1, <3>2
  <2>4. Registered' = Registered /\ counter \notin Registered
    <3>1. Registered \subseteq Run /\ Registered' \subseteq Run
      BY DEF Registered
    <3>2. ~ (counter < counter)
      BY <1>t
    <3>3. counter \notin Registered
      BY <3>2 DEF Registered
    <3> QED  BY <2>3, <3>1, <3>3
  <2>5. \A r \in Registered : status'[r] = status[r]
    BY <2>1, <2>4, <1>t
  <2> QED  BY <2>1, <2>4, <2>5, <1>s, KnownStays
<1>2. ASSUME NEW c \in Clients, Push(c) PROVE Life!Next
  <2>1. PICK q \in Run : q = target[c]
    BY <1>2, <1>t, PushListed
  <2>2. Life!Register(q)
    BY <1>2, <2>1, PushRegisters
  <2> QED  BY <2>2 DEF Life!Next
<1>3. ASSUME NEW c \in Clients, Evict(c) PROVE Life!Next
  <2> DEFINE q == runs[scan[c]]
  <2>1. q \in Run /\ q \in Listed /\ Finished(status[q]) /\ Listed' = Listed \ {q}
    BY <1>3, <1>t, EvictListed DEF Listed
  <2>2. UNCHANGED <<counter, status, audit, deleted, pc, target>>
    BY <1>3 DEF Evict, life
  <2>3. Known[q] = status[q] /\ Known' = Known
    BY <2>1, <2>2, KnownFacts DEF Known, Registered
  <2>4. Life!MakeRoom(q)
    BY <2>1, <2>2, <2>3 DEF Life!MakeRoom, Life!Settled, Known, Finished
  <2> QED  BY <2>1, <2>4 DEF Life!Next
<1>4. ASSUME NEW c \in Clients, NEW r \in Run, Delete(c, r) PROVE Life!Next
  <2>1. PICK i \in DOMAIN runs : runs[i] = r /\ runs' = RemoveAt(runs, i)
    BY <1>4 DEF Delete
  <2>2. r \in Listed /\ Listed' = Listed \ {r}
    BY <2>1, <1>t, DropListed DEF Listed
  <2>3. UNCHANGED <<counter, status, audit, pc, target>> /\ deleted' = deleted \cup {r}
    BY <1>4 DEF Delete, life
  <2>4. Known' = Known
    BY <2>3 DEF Known, Registered
  <2>5. Life!Forget(r)
    BY <2>2, <2>3, <2>4 DEF Life!Forget, Known
  <2> QED  BY <2>5 DEF Life!Next
<1>5. ASSUME NEW r \in Run, JudgeCall(r) PROVE Life!Next
  <2>1. /\ UNCHANGED <<counter, runs, status, deleted, pc, target>> /\ UNCHANGED Listed
        /\ audit' = [audit EXCEPT ![r] = @ + 1]
        /\ job[r] = "judging"
    BY <1>5, ListedFacts DEF JudgeCall, store
  <2>2. r \in Registered /\ status[r] = "running"
    BY <2>1, KnownFacts DEF IInv, CounterShape
  <2>3. Known[r] = "running" /\ Known' = Known
    BY <2>1, <2>2 DEF Known, Registered
  <2>4. Life!Record(r)
    BY <2>1, <2>3 DEF Life!Record, Known
  <2> QED  BY <2>4 DEF Life!Next
<1>6. ASSUME NEW r \in Run, NEW s \in {"done", "failed"}, Finish(r, s) PROVE Life!Next
  <2>1. /\ UNCHANGED <<counter, runs, audit, deleted, pc, target>> /\ UNCHANGED Listed
        /\ status' = [status EXCEPT ![r] = s]
        /\ job[r] = "judging"
    BY <1>6, ListedFacts DEF Finish, store
  <2>2. r \in Registered /\ status[r] = "running"
    BY <2>1, KnownFacts DEF IInv, CounterShape
  <2>3. Registered' = Registered
    BY <2>1 DEF Registered
  <2>4. Known[r] = "running" /\ Known' = [Known EXCEPT ![r] = s]
    BY <2>1, <2>2, <2>3, <1>t, KnownFacts DEF Known
  <2>5. Life!Settle(r)
    BY <2>1, <2>4 DEF Life!Settle, Known
  <2> QED  BY <2>5 DEF Life!Next
<1>7. ASSUME NEW c \in Clients, Quiet(c) PROVE UNCHANGED Life!lifeVars
  <2>1. UNCHANGED audit
    BY <1>7 DEF Quiet, ScanPast, Unlock, Connect, ConnectFails, Spawn, Accept, Read,
         List, Find, ReadSummary, ReadOutcome, ReadLedger, ReadFinished, ListNext,
         Answer, life
  <2>2. Registered' = Registered /\ UNCHANGED <<status, deleted>> /\ UNCHANGED Listed
    BY <1>7, <1>t, QuietFacts DEF Registered
  <2> QED  BY <2>1, <2>2, <1>s, KnownStays
<1>8. CASE UNCHANGED vars
  <2>1. UNCHANGED <<counter, status, audit, deleted, pc, target>> /\ UNCHANGED Listed
    BY <1>8, ListedFacts DEF vars, store, life
  <2>2. UNCHANGED Known
    BY <2>1 DEF Known, Registered
  <2> QED  BY <2>1, <2>2, <1>s
<1> QED
  BY <1>1, <1>2, <1>3, <1>4, <1>5, <1>6, <1>7, <1>8
     DEF Next, Request, Start, Job, Complete, Fail, Quiet

\* The store, its locks and its handlers implement the lifecycle.
THEOREM Implements == Safety => ImplementsLifecycle
<1>1. Init => Life!Init
  <2> SUFFICES ASSUME Init PROVE Life!Init
    OBVIOUS
  <2>1. Listed = {} /\ Registered = {}
    BY BoundsAssumption DEF Init, Listed, Registered, Run
  <2> QED  BY <2>1 DEF Init, Life!Init
<1>2. IInv /\ [Next]_vars => [Life!Next]_(Life!lifeVars)
  BY LifeStep
<1> QED  BY <1>1, <1>2, Inductive, PTL DEF Safety, ImplementsLifecycle, Life!Spec
=============================================================================
