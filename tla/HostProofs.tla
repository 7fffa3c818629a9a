----------------------------- MODULE HostProofs -----------------------------
(***************************************************************************)
(* What a run of a desk leaves behind and what the page shows of it, for   *)
(* any number of runs, of candidates and days, and of requests out.        *)
(*                                                                         *)
(* The desk run is proved from the text of the run: its whole script is    *)
(* shown to be in good order, and the invariant says how far in it the run *)
(* is and what the logs, the drafts and the reports owe to the steps       *)
(* behind.                                                                 *)
(***************************************************************************)
EXTENDS DeskRun, RunPolling, FiniteSetTheorems, SequenceTheorems, TLAPS

Laws == INSTANCE FoldRules WITH op <- At

-----------------------------------------------------------------------------
(* The steps of a script *)

\* The ids of one desk's decisions, its replays included.
Ids(d) == {<<d, i>> : i \in Nat} \cup {<<d, "replay", i>> : i \in Nat}

StageNames == {"read", "assess", "gate", "explain"}

\* The steps a script is made of.
Calls == [op : {"call"}, decision : {NoDecision} \cup Ids("fx") \cup Ids("battery"),
          stage : StageNames]
Step == [op : {"connect"}, log : LogNames] \cup Calls \cup {Comply}
        \cup [op : {"count", "render"}, desk : Desks] \cup [op : {"publish"}, desks : SUBSET Desks]

\* Neither At nor FlattenSeq depends on the operator of the instance.
LEMMA SameFolds ==
  /\ \A s, I : At(s, I) = Laws!At(s, I)
  /\ \A ss : FlattenSeq(ss) = Laws!FlattenSeq(ss)
<1>1. \A s, I : At(s, I) = Laws!At(s, I)
  BY Zenon DEF At, Nth, Cardinality, Laws!At, Laws!Nth, Laws!Cardinality, IsFiniteSet, Laws!IsFiniteSet
<1>2. \A ss : FlattenSeq(ss) = Laws!FlattenSeq(ss)
  BY DEF FlattenSeq, Laws!FlattenSeq
<1>. QED
  BY <1>1, <1>2

\* Two tuples of an id and the tuple they make.
LEMMA IdParts ==
  ASSUME NEW d, NEW i
  PROVE  /\ <<d>> \o <<i>> = <<d, i>>
         /\ <<d>> \o <<"replay", i>> = <<d, "replay", i>>
         /\ <<d, i>>[1] = d /\ <<d, "replay", i>>[1] = d
         /\ <<d, i>>[2] = i /\ <<d, "replay", i>>[3] = i
         /\ <<d, i>> # NoDecision /\ <<d, "replay", i>> # NoDecision
         /\ \A e, k : <<d, i>> # <<e, "replay", k>>
<1>. DEFINE S == {d, "replay", i}
<1>0. d \in S /\ i \in S /\ "replay" \in S
  OBVIOUS
<1>. HIDE DEF S
<1>1. <<d>> \o <<i>> = <<d, i>>
  <2>. DEFINE u == <<d>>
              v == <<i>>
              w == <<d, i>>
  <2>1. u \in Seq(S) /\ v \in Seq(S) /\ w \in Seq(S) /\ Len(u) = 1 /\ Len(v) = 1 /\ Len(w) = 2
        /\ u[1] = d /\ v[1] = i /\ w[1] = d /\ w[2] = i
    BY <1>0
  <2>. HIDE DEF u, v, w
  <2>2. u \o v \in Seq(S) /\ Len(u \o v) = 2 /\ (u \o v)[1] = d /\ (u \o v)[2] = i
    BY <2>1, ConcatProperties
  <2>3. u \o v = w
    BY <2>1, <2>2, SeqEqual
  <2>. QED
    BY <2>3 DEF u, v, w
<1>2. <<d>> \o <<"replay", i>> = <<d, "replay", i>>
  <2>. DEFINE u == <<d>>
              v == <<"replay", i>>
              w == <<d, "replay", i>>
  <2>1. u \in Seq(S) /\ v \in Seq(S) /\ w \in Seq(S) /\ Len(u) = 1 /\ Len(v) = 2 /\ Len(w) = 3
        /\ u[1] = d /\ v[1] = "replay" /\ v[2] = i /\ w[1] = d /\ w[2] = "replay" /\ w[3] = i
    BY <1>0
  <2>. HIDE DEF u, v, w
  <2>2. u \o v \in Seq(S) /\ Len(u \o v) = 3
        /\ (u \o v)[1] = d /\ (u \o v)[2] = "replay" /\ (u \o v)[3] = i
    <3>1. /\ u \o v \in Seq(S) /\ Len(u \o v) = Len(u) + Len(v)
          /\ \A k \in 1 .. Len(u) + Len(v) : (u \o v)[k] = IF k <= Len(u) THEN u[k] ELSE v[k - Len(u)]
      <4>1. u \in Seq(S) /\ v \in Seq(S)
        BY <2>1
      <4>. QED
        BY <4>1, ConcatProperties
    <3>2. 2 - 1 = 1 /\ 3 - 1 = 2 /\ 1 + 2 = 3 /\ 2 \in 1 .. 3 /\ 3 \in 1 .. 3
      OBVIOUS
    <3>. QED
      BY <2>1, <3>1, <3>2
  <2>3. u \o v = w
    BY <2>1, <2>2, SeqEqual
  <2>. QED
    BY <2>3 DEF u, v, w
<1>3. /\ <<d, i>>[1] = d /\ <<d, "replay", i>>[1] = d
      /\ <<d, i>>[2] = i /\ <<d, "replay", i>>[3] = i
  OBVIOUS
<1>4. Len(<<>>) = 0 /\ Len(<<d, i>>) = 2 /\ \A e, k : Len(<<e, "replay", k>>) = 3
  OBVIOUS
<1>5. <<d, i>> # NoDecision /\ <<d, "replay", i>> # NoDecision
  BY <1>4 DEF NoDecision
<1>6. \A e, k : <<d, i>> # <<e, "replay", k>>
  BY <1>4
<1>. QED
  BY <1>1, <1>2, <1>3, <1>5, <1>6

\* An id says which desk it is of, and is not the id of a summary.
LEMMA DeskOf ==
  ASSUME NEW d, NEW id \in Ids(d)
  PROVE  id[1] = d /\ id # NoDecision
<1>1. CASE \E i \in Nat : id = <<d, i>>
  <2>. PICK i \in Nat : id = <<d, i>>
    BY <1>1
  <2>1. <<d, i>>[1] = d /\ <<d, i>> # NoDecision
    BY IdParts
  <2>. QED
    BY <2>1
<1>2. CASE \E i \in Nat : id = <<d, "replay", i>>
  <2>. PICK i \in Nat : id = <<d, "replay", i>>
    BY <1>2
  <2>1. <<d, "replay", i>>[1] = d /\ <<d, "replay", i>> # NoDecision
    BY IdParts
  <2>. QED
    BY <2>1
<1>. QED
  BY <1>1, <1>2 DEF Ids

\* The stages of a judgment, each of them once.
LEMMA StagesAre ==
  /\ Stages("fx") = <<"assess", "gate">> /\ Len(Stages("fx")) = 2
  /\ Stages("battery") = <<"read", "assess", "gate">> /\ Len(Stages("battery")) = 3
  /\ \A d \in Desks : /\ Stages(d) \in Seq({"read", "assess", "gate"})
                      /\ Len(Stages(d)) \in {2, 3} /\ DOMAIN Stages(d) = 1 .. Len(Stages(d))
                      /\ \A i, j \in DOMAIN Stages(d) : Stages(d)[i] = Stages(d)[j] => i = j
BY DEF Stages, Desks

-----------------------------------------------------------------------------
(* Judgments, one after the other *)

\* c is a with b after it, place by place.
Joined(c, a, b) ==
  /\ Len(a) \in Nat /\ Len(b) \in Nat /\ Len(c) = Len(a) + Len(b)
  /\ DOMAIN a = 1 .. Len(a) /\ DOMAIN b = 1 .. Len(b) /\ DOMAIN c = 1 .. Len(c)
  /\ \A i \in 1 .. Len(a) : c[i] = a[i]
  /\ \A i \in 1 .. Len(b) : c[Len(a) + i] = b[i]
  /\ \A i \in Len(a) + 1 .. Len(c) : i - Len(a) \in 1 .. Len(b) /\ c[i] = b[i - Len(a)]

\* What the concatenation of two sequences is, place by place.
LEMMA Joins ==
  ASSUME NEW S, NEW a \in Seq(S), NEW b \in Seq(S)
  PROVE  a \o b \in Seq(S) /\ Joined(a \o b, a, b)
<1>. DEFINE c == a \o b
<1>1. /\ Len(a) \in Nat /\ Len(b) \in Nat
      /\ DOMAIN a = 1 .. Len(a) /\ DOMAIN b = 1 .. Len(b)
  BY LenProperties
<1>2. /\ c \in Seq(S) /\ Len(c) = Len(a) + Len(b)
      /\ \A i \in 1 .. Len(a) + Len(b) : c[i] = IF i <= Len(a) THEN a[i] ELSE b[i - Len(a)]
  BY ConcatProperties
<1>3. DOMAIN c = 1 .. Len(c)
  <2>. HIDE DEF c
  <2>. QED
    BY <1>2, LenProperties
<1>. HIDE DEF c
<1>4. \A i \in 1 .. Len(b) : c[Len(a) + i] = b[i]
  <2>. TAKE i \in 1 .. Len(b)
  <2>1. Len(a) + i \in 1 .. Len(a) + Len(b) /\ ~ (Len(a) + i <= Len(a)) /\ (Len(a) + i) - Len(a) = i
    BY <1>1
  <2>. QED
    BY <1>2, <2>1
<1>5. \A i \in 1 .. Len(a) : c[i] = a[i]
  BY <1>1, <1>2
<1>6. \A i \in Len(a) + 1 .. Len(c) : i - Len(a) \in 1 .. Len(b) /\ c[i] = b[i - Len(a)]
  BY <1>1, <1>2
<1>. QED
  BY <1>1, <1>2, <1>3, <1>4, <1>5, <1>6 DEF Joined, c

\* s is the calls of n judgments of a desk, one after the other.
JudgedBy(l, s, d, dec, n) ==
  /\ s \in Seq(Step) /\ n \in Nat /\ Len(s) = l * n
  /\ \A i \in 1 .. n : \A j \in 1 .. l :
       l * (i - 1) + j \in 1 .. Len(s) /\ s[l * (i - 1) + j] = Call(dec[i], Stages(d)[j])
  /\ \A p \in 1 .. Len(s) : \E i \in 1 .. n, j \in 1 .. l : p = l * (i - 1) + j

Judged(s, d, dec, n) == JudgedBy(Len(Stages(d)), s, d, dec, n)

\* A call for a stage of a decision is a step.
LEMMA CallIsStep ==
  ASSUME NEW d \in Desks, NEW id \in Ids(d), NEW j \in 1 .. Len(Stages(d))
  PROVE  Call(id, Stages(d)[j]) \in Step
<1>1. Stages(d)[j] \in {"read", "assess", "gate"}
  BY StagesAre
<1>. QED
  BY <1>1 DEF Call, Step, Calls, StageNames, Desks

\* One judgment more is judged.
LEMMA JudgedMore ==
  ASSUME NEW d \in Desks, NEW n \in Nat, NEW dec, dec[n + 1] \in Ids(d),
         NEW s, Judged(s, d, dec, n), NEW x \in Seq(Step), Len(x) = Len(Stages(d)),
         \A j \in 1 .. Len(Stages(d)) : x[j] = Call(dec[n + 1], Stages(d)[j])
  PROVE  Judged(s \o x, d, dec, n + 1)
<1>. DEFINE c == s \o x
            L == Len(Stages(d))
<1>1. c \in Seq(Step) /\ Joined(c, s, x)
  BY Joins DEF Judged, JudgedBy
<1>2. L \in {2, 3}
  BY StagesAre
<1>. HIDE DEF c
<1>3. ASSUME NEW l \in {2, 3}, L = l PROVE Judged(c, d, dec, n + 1)
  <2>0. JudgedBy(l, s, d, dec, n)
    BY <1>3 DEF Judged
  <2>1. Len(s) = l * n /\ Len(x) = l /\ Len(c) = l * (n + 1) /\ L = l
    BY <1>1, <1>3, <2>0 DEF Joined, JudgedBy
  <2>2. \A i \in 1 .. n : \A j \in 1 .. l :
           l * (i - 1) + j \in 1 .. l * n /\ c[l * (i - 1) + j] = Call(dec[i], Stages(d)[j])
    <3>1. \A i \in 1 .. n : \A j \in 1 .. l :
           l * (i - 1) + j \in 1 .. l * n /\ s[l * (i - 1) + j] = Call(dec[i], Stages(d)[j])
      BY <2>0, <2>1 DEF JudgedBy
    <3>2. \A p \in 1 .. l * n : c[p] = s[p]
      BY <1>1, <2>1 DEF Joined
    <3>. QED
      BY <3>1, <3>2
  <2>3. \A j \in 1 .. l : c[l * n + j] = Call(dec[n + 1], Stages(d)[j])
    BY <1>1, <2>1 DEF Joined
  <2>. DEFINE P(i, j) == l * (i - 1) + j \in 1 .. Len(c) /\ c[l * (i - 1) + j] = Call(dec[i], Stages(d)[j])
  <2>4. ASSUME NEW i \in 1 .. n + 1, NEW j \in 1 .. l PROVE P(i, j)
    <3>1. CASE i = n + 1
      <4>1. l * (i - 1) + j = l * n + j /\ l * n + j \in 1 .. l * (n + 1)
        BY <3>1
      <4>. QED
        BY <2>1, <2>3, <3>1, <4>1
    <3>2. CASE i # n + 1
      <4>1. i \in 1 .. n
        BY <3>2
      <4>2. l * (i - 1) + j \in 1 .. l * n /\ c[l * (i - 1) + j] = Call(dec[i], Stages(d)[j])
        BY <2>2, <4>1
      <4>3. 1 .. l * n \subseteq 1 .. l * (n + 1)
        OBVIOUS
      <4>. QED
        BY <2>1, <4>2, <4>3
    <3>. QED
      BY <3>1, <3>2
  <2>5. ASSUME NEW p \in 1 .. Len(c) PROVE \E i \in 1 .. n + 1, j \in 1 .. l : p = l * (i - 1) + j
    <3>1. CASE p <= l * n
      <4>1. p \in 1 .. Len(s) /\ 1 .. n \subseteq 1 .. n + 1
        BY <2>1, <3>1
      <4>. QED
        BY <2>0, <4>1 DEF JudgedBy
    <3>2. CASE p > l * n
      <4>1. p - l * n \in 1 .. l /\ n + 1 \in 1 .. n + 1 /\ p = l * ((n + 1) - 1) + (p - l * n)
        BY <2>1, <3>2
      <4>. QED
        BY <4>1
    <3>. QED
      BY <2>1, <3>1, <3>2
  <2>6. n + 1 \in Nat
    OBVIOUS
  <2>7. JudgedBy(l, c, d, dec, n + 1)
    BY <1>1, <2>1, <2>4, <2>5, <2>6 DEF JudgedBy
  <2>. QED
    BY <1>3, <2>7 DEF Judged
<1>. QED
  BY <1>2, <1>3 DEF c

\* What a session and a replay are: a judgment for each of their worlds.
LEMMA Judgments ==
  ASSUME NEW d \in Desks, NEW n \in Nat, NEW ids, NEW dec,
         \A i \in 1 .. n : dec[i] = <<d>> \o ids[i] /\ dec[i] \in Ids(d)
  PROVE  Judged(FlattenSeq([i \in 1 .. n |-> Judge(d, ids[i])]), d, dec, n)
<1>. DEFINE L == Len(Stages(d))
            J(i) == Judge(d, ids[i])
            ss(k) == [i \in 1 .. k |-> J(i)]
            T == {k \in Nat : k <= n => Judged(FlattenSeq(ss(k)), d, dec, k)}
<1>1. \A i \in 1 .. n : /\ J(i) \in Seq(Step) /\ Len(J(i)) = L
                        /\ \A j \in 1 .. L : J(i)[j] = Call(dec[i], Stages(d)[j])
  <2>. TAKE i \in 1 .. n
  <2>1. L \in Nat
    BY StagesAre
  <2>. DEFINE e(j) == Call(<<d>> \o ids[i], Stages(d)[j])
  <2>2. \A j \in 1 .. L : e(j) = Call(dec[i], Stages(d)[j]) /\ e(j) \in Step
    BY CallIsStep
  <2>3. J(i) = [j \in 1 .. L |-> e(j)]
    BY DEF Judge
  <2>. HIDE DEF e, L, J
  <2>4. J(i) \in Seq(Step)
    BY <2>1, <2>2, <2>3, IsASeq
  <2>5. Len(J(i)) = L
    BY <2>1, <2>3
  <2>. QED
    BY <2>2, <2>3, <2>4, <2>5
<1>. HIDE DEF J
<1>2. 0 \in T
  <2>1. ss(0) = <<>>
    OBVIOUS
  <2>2. FlattenSeq(ss(0)) = <<>>
    BY <2>1, SameFolds, Laws!FlattenNone
  <2>3. Judged(<<>>, d, dec, 0)
    <3>1. L \in {2, 3} /\ <<>> \in Seq(Step) /\ Len(<<>>) = 0 /\ 1 .. 0 = {}
      BY StagesAre
    <3>. QED
      BY <3>1 DEF Judged, JudgedBy
  <2>. QED
    BY <2>2, <2>3
<1>3. ASSUME NEW k \in Nat, k \in T PROVE k + 1 \in T
  <2>. SUFFICES ASSUME k + 1 <= n PROVE Judged(FlattenSeq(ss(k + 1)), d, dec, k + 1)
    OBVIOUS
  <2>1. k + 1 \in 1 .. n /\ k <= n
    OBVIOUS
  <2>2. ss(k) \in Seq(Seq(Step)) /\ Len(ss(k)) = k
    <3>1. \A i \in 1 .. k : J(i) \in Seq(Step)
      BY <1>1
    <3>. QED
      BY <3>1, IsASeq
  <2>3. ss(k + 1) = Append(ss(k), J(k + 1))
    <3>. DEFINE u == ss(k + 1)
                v == Append(ss(k), J(k + 1))
                S == Seq(Step)
    <3>1. \A i \in 1 .. k + 1 : J(i) \in S
      BY <1>1
    <3>2. u \in Seq(S) /\ Len(u) = k + 1
      <4>. HIDE DEF S
      <4>. QED
        BY <3>1, IsASeq
    <3>3. /\ v \in Seq(S) /\ Len(v) = k + 1
          /\ \A i \in 1 .. k : v[i] = J(i)
          /\ v[k + 1] = J(k + 1)
      <4>. HIDE DEF S
      <4>1. ss(k) \in Seq(S) /\ J(k + 1) \in S
        BY <2>2, <3>1 DEF S
      <4>2. \A i \in 1 .. k : ss(k)[i] = J(i)
        OBVIOUS
      <4>. HIDE DEF ss, v
      <4>3. /\ v \in Seq(S) /\ Len(v) = Len(ss(k)) + 1
            /\ \A i \in 1 .. Len(ss(k)) : v[i] = ss(k)[i]
            /\ v[Len(ss(k)) + 1] = J(k + 1)
        BY <4>1, AppendProperties DEF v
      <4>. QED
        BY <2>2, <4>2, <4>3
    <3>4. \A i \in 1 .. k + 1 : u[i] = J(i)
      OBVIOUS
    <3>. HIDE DEF u, v, S
    <3>5. \A i \in 1 .. Len(u) : u[i] = v[i]
      BY <3>2, <3>3, <3>4
    <3>6. u = v
      BY <3>2, <3>3, <3>5, SeqEqual
    <3>. QED
      BY <3>6 DEF u, v
  <2>4. FlattenSeq(ss(k + 1)) = FlattenSeq(ss(k)) \o J(k + 1)
    <3>. HIDE DEF ss
    <3>1. J(k + 1) \in Seq(Step)
      BY <1>1, <2>1
    <3>2. Laws!FlattenSeq(Append(ss(k), J(k + 1))) = Laws!FlattenSeq(ss(k)) \o J(k + 1)
      BY <2>2, <3>1, Laws!FlattenOneMore
    <3>. QED
      BY <2>3, <3>2, SameFolds
  <2>. HIDE DEF ss
  <2>5. Judged(FlattenSeq(ss(k)), d, dec, k)
    BY <1>3, <2>1
  <2>. QED
    BY <1>1, <2>1, <2>4, <2>5, JudgedMore
<1>4. n \in T
  <2>. HIDE DEF T
  <2>. QED
    BY <1>2, <1>3, Laws!NatSetInduction
<1>. QED
  BY <1>4 DEF J

\* The steps' fields.
LEMMA Fields ==
  /\ \A x : Connect(x).op = "connect" /\ Connect(x).log = x
  /\ \A x, y : Call(x, y).op = "call" /\ Call(x, y).decision = x /\ Call(x, y).stage = y
  /\ \A x : Count(x).op = "count" /\ Count(x).desk = x
  /\ \A x : Render(x).op = "render" /\ Render(x).desk = x
  /\ \A x : Publish(x).op = "publish" /\ Publish(x).desks = x
  /\ Comply.op = "comply"
  /\ Explain.op = "call" /\ Explain.decision = NoDecision /\ Explain = Call(NoDecision, "explain")
BY DEF Connect, Call, Count, Render, Publish, Comply, Explain

\* What the builders of steps make are steps.
LEMMA StepForms ==
  /\ Explain \in Step /\ Comply \in Step
  /\ \A log \in LogNames : Connect(log) \in Step
  /\ \A d \in Desks : Count(d) \in Step /\ Render(d) \in Step
  /\ \A ds \in SUBSET Desks : Publish(ds) \in Step
BY DEF Step, Calls, StageNames, Explain, Comply, Connect, Count, Render, Publish, Call

-----------------------------------------------------------------------------
(* What is true of a script *)

\* The stages of a decision stand in their order, side by side.
Linked(t, i, d, id, s) ==
  \E j \in 1 .. Len(Stages(d)) :
    /\ s = Stages(d)[j]
    /\ j > 1 => i > 1 /\ t[i - 1] = Call(id, Stages(d)[j - 1])
Chained(t) ==
  \A i \in DOMAIN t : \A d \in Desks : \A id \in Ids(d) : \A s \in StageNames :
    t[i] = Call(id, s) => Linked(t, i, d, id, s)

\* No step but the question of a summary is taken twice.
Once(t) == \A i, j \in DOMAIN t : t[i] = t[j] /\ t[i] # Explain => i = j

\* The session of n decisions stands alone between c and q.
Behind(t, d, n, c, q) ==
  /\ q - c - 1 = Len(Stages(d)) * n
  /\ \A i \in c + 1 .. q - 1 : t[i].op = "call" /\ \E m \in 1 .. n : t[i].decision = <<d, m>>
  /\ \A m \in 1 .. n : \A j \in 1 .. Len(Stages(d)) :
       \E i \in c + 1 .. q - 1 : t[i] = Call(<<d, m>>, Stages(d)[j])

\* A count comes right behind its session -- on the command line right behind the
\* opening of a log -- and right before two summaries and the report.
Reported(t, h, size) ==
  \A q \in DOMAIN t : \A d \in Desks : t[q] = Count(d) =>
    /\ q + 3 \in DOMAIN t /\ t[q + 1] = Explain /\ t[q + 2] = Explain /\ t[q + 3] = Render(d)
    /\ \E c \in 0 .. q - 1 : /\ h = "cli" => c \in DOMAIN t /\ t[c] = Connect(d)
                             /\ Behind(t, d, size[d], c, q)

Rendered(t) ==
  \A r \in DOMAIN t : \A d \in Desks : t[r] = Render(d) => r > 3 /\ t[r - 3] = Count(d)

\* What b publishes was rendered before, in it or in a.
Backed(a, b) ==
  \A p \in DOMAIN b : \A ds \in SUBSET Desks : b[p] = Publish(ds) =>
    \A d \in ds : \/ \E r \in DOMAIN a : a[r] = Render(d)
                  \/ \E r \in 1 .. p - 1 : b[r] = Render(d)

\* A part of a script, whose own steps are those of O.
Part(t, O, h, size) ==
  /\ O \subseteq Step /\ Explain \notin O /\ t \in Seq(O \cup {Explain})
  /\ Chained(t) /\ Once(t) /\ Reported(t, h, size) /\ Rendered(t)

-----------------------------------------------------------------------------
(* Two parts, one after the other *)

\* The stages stand in their order in the whole as they did in the parts.
LEMMA ChainedJoin ==
  ASSUME NEW c, NEW a, NEW b, Joined(c, a, b), Chained(a), Chained(b)
  PROVE  Chained(c)
<1>. SUFFICES ASSUME NEW i \in DOMAIN c, NEW d \in Desks, NEW id \in Ids(d), NEW s \in StageNames, c[i] = Call(id, s)
              PROVE  Linked(c, i, d, id, s)
  BY DEF Chained
<1>1. CASE i \in DOMAIN a
  <2>1. c[i] = a[i] /\ (i > 1 => i - 1 \in DOMAIN a /\ c[i - 1] = a[i - 1])
    BY <1>1 DEF Joined
  <2>2. Linked(a, i, d, id, s)
    BY <1>1, <2>1 DEF Chained
  <2>. QED
    BY <2>1, <2>2 DEF Linked
<1>2. CASE i \notin DOMAIN a
  <2>. DEFINE k == i - Len(a)
  <2>1. /\ k \in DOMAIN b /\ c[i] = b[k] /\ i \in Int /\ k \in Int
        /\ k > 1 => i > 1 /\ c[i - 1] = b[k - 1]
    BY <1>2 DEF Joined
  <2>. HIDE DEF k
  <2>2. Linked(b, k, d, id, s)
    BY <2>1 DEF Chained
  <2>. QED
    BY <2>1, <2>2 DEF Linked
<1>. QED
  BY <1>1, <1>2

\* Two parts with different steps make a whole that takes none twice.
LEMMA OnceJoin ==
  ASSUME NEW c, NEW a, NEW b, Joined(c, a, b), Once(a), Once(b),
         \A i \in DOMAIN a : \A j \in DOMAIN b : a[i] = b[j] => a[i] = Explain
  PROVE  Once(c)
<1>. SUFFICES ASSUME NEW i \in DOMAIN c, NEW j \in DOMAIN c, c[i] = c[j], c[i] # Explain
              PROVE  i = j
  BY DEF Once
<1>1. \A k \in DOMAIN c : \/ k \in DOMAIN a /\ c[k] = a[k]
                          \/ k - Len(a) \in DOMAIN b /\ c[k] = b[k - Len(a)] /\ k \in Int
  BY DEF Joined
<1>2. CASE i \in DOMAIN a /\ c[i] = a[i]
  BY <1>1, <1>2 DEF Once
<1>3. CASE i - Len(a) \in DOMAIN b /\ c[i] = b[i - Len(a)] /\ i \in Int
  <2>1. CASE j \in DOMAIN a /\ c[j] = a[j]
    BY <1>3, <2>1
  <2>2. CASE j - Len(a) \in DOMAIN b /\ c[j] = b[j - Len(a)] /\ j \in Int
    <3>1. b[i - Len(a)] = b[j - Len(a)] /\ b[i - Len(a)] # Explain
      BY <1>3, <2>2
    <3>2. i - Len(a) = j - Len(a)
      BY <1>3, <2>2, <3>1 DEF Once
    <3>3. Len(a) \in Int
      BY DEF Joined
    <3>. QED
      BY <1>3, <2>2, <3>2, <3>3
  <2>. QED
    BY <1>1, <2>1, <2>2
<1>. QED
  BY <1>1, <1>2, <1>3

\* A report is rendered behind its count in the whole as it was in the part.
LEMMA RenderedJoin ==
  ASSUME NEW c, NEW a, NEW b, Joined(c, a, b), Rendered(a), Rendered(b)
  PROVE  Rendered(c)
<1>. SUFFICES ASSUME NEW r \in DOMAIN c, NEW d \in Desks, c[r] = Render(d)
              PROVE  r > 3 /\ c[r - 3] = Count(d)
  BY DEF Rendered
<1>1. CASE r \in DOMAIN a
  <2>1. c[r] = a[r]
    BY <1>1 DEF Joined
  <2>2. r > 3 /\ a[r - 3] = Count(d)
    BY <1>1, <2>1 DEF Rendered
  <2>. QED
    BY <1>1, <2>2 DEF Joined
<1>2. CASE r \notin DOMAIN a
  <2>. DEFINE k == r - Len(a)
  <2>1. k \in DOMAIN b /\ c[r] = b[k] /\ (k > 3 => r > 3 /\ c[r - 3] = b[k - 3])
    BY <1>2 DEF Joined
  <2>. HIDE DEF k
  <2>2. k > 3 /\ b[k - 3] = Count(d)
    BY <2>1 DEF Rendered
  <2>. QED
    BY <2>1, <2>2
<1>. QED
  BY <1>1, <1>2

\* What the second part publishes may have been rendered in the first.
LEMMA BackedJoin ==
  ASSUME NEW e, NEW c, NEW a, NEW b, Joined(c, a, b), Backed(e, a), Backed(a, b)
  PROVE  Backed(e, c)
<1>. SUFFICES ASSUME NEW p \in DOMAIN c, NEW ds \in SUBSET Desks, c[p] = Publish(ds), NEW d \in ds
              PROVE  \/ \E r \in DOMAIN e : e[r] = Render(d)
                     \/ \E r \in 1 .. p - 1 : c[r] = Render(d)
  BY DEF Backed
<1>1. CASE p \in DOMAIN a
  <2>1. c[p] = a[p] /\ \A r \in 1 .. p - 1 : c[r] = a[r]
    BY <1>1 DEF Joined
  <2>. QED
    BY <1>1, <2>1 DEF Backed
<1>2. CASE p \notin DOMAIN a
  <2>. DEFINE k == p - Len(a)
  <2>1. /\ k \in DOMAIN b /\ c[p] = b[k] /\ p \in Int /\ k \in Int
        /\ \A r \in DOMAIN a : r \in 1 .. p - 1 /\ c[r] = a[r]
        /\ \A r \in 1 .. k - 1 : Len(a) + r \in 1 .. p - 1 /\ c[Len(a) + r] = b[r]
    <3>1. /\ Len(a) \in Nat /\ Len(b) \in Nat /\ DOMAIN a = 1 .. Len(a) /\ DOMAIN b = 1 .. Len(b)
          /\ p \in 1 .. Len(c) /\ Len(c) = Len(a) + Len(b)
          /\ \A i \in 1 .. Len(a) : c[i] = a[i]
          /\ \A i \in 1 .. Len(b) : c[Len(a) + i] = b[i]
      BY DEF Joined
    <3>2. p \in Len(a) + 1 .. Len(c)
      BY <1>2, <3>1
    <3>3. k \in 1 .. Len(b) /\ c[p] = b[k]
      BY <3>2 DEF Joined
    <3>4. \A r \in 1 .. Len(a) : r \in 1 .. p - 1
      BY <3>1, <3>2
    <3>5. \A r \in 1 .. k - 1 : r \in 1 .. Len(b) /\ Len(a) + r \in 1 .. p - 1
      BY <3>1, <3>2, <3>3
    <3>. HIDE DEF k
    <3>. QED
      BY <3>1, <3>2, <3>3, <3>4, <3>5
  <2>. HIDE DEF k
  <2>2. (\E r \in DOMAIN a : a[r] = Render(d)) \/ (\E r \in 1 .. k - 1 : b[r] = Render(d))
    BY <2>1 DEF Backed
  <2>. QED
    BY <2>1, <2>2
<1>. QED
  BY <1>1, <1>2

\* A count stands as it did when another part comes before or behind it.
LEMMA ReportedJoin ==
  ASSUME NEW h, NEW size, NEW c, NEW a, NEW b, Joined(c, a, b), Reported(a, h, size), Reported(b, h, size)
  PROVE  Reported(c, h, size)
<1>. DEFINE Goal(t, q, d, k) ==
       /\ q + 3 \in DOMAIN t /\ t[q + 1] = Explain /\ t[q + 2] = Explain /\ t[q + 3] = Render(d)
       /\ k \in 0 .. q - 1 /\ (h = "cli" => k \in DOMAIN t /\ t[k] = Connect(d))
       /\ Behind(t, d, size[d], k, q)
<1>. SUFFICES ASSUME NEW q \in DOMAIN c, NEW d \in Desks, c[q] = Count(d)
              PROVE  \E k \in 0 .. q - 1 : Goal(c, q, d, k)
  BY DEF Reported
<1>1. CASE q \in DOMAIN a
  <2>1. c[q] = a[q] /\ \A i \in 1 .. Len(a) : i \in DOMAIN c /\ c[i] = a[i]
    BY <1>1 DEF Joined
  <2>2. PICK k \in 0 .. q - 1 : Goal(a, q, d, k)
    BY <1>1, <2>1 DEF Reported
  <2>3. q \in Int /\ k \in Int /\ DOMAIN a = 1 .. Len(a) /\ Len(a) \in Nat /\ DOMAIN c = 1 .. Len(c)
    BY <1>1 DEF Joined
  <2>4. Behind(c, d, size[d], k, q)
    <3>1. \A i \in k + 1 .. q - 1 : c[i] = a[i]
      BY <1>1, <2>1, <2>3
    <3>. QED
      BY <2>2, <3>1 DEF Behind
  <2>5. Goal(c, q, d, k)
    BY <2>1, <2>2, <2>3, <2>4
  <2>. QED
    BY <2>5
<1>2. CASE q \notin DOMAIN a
  <2>. DEFINE p == q - Len(a)
  <2>1. /\ p \in DOMAIN b /\ c[q] = b[p] /\ p \in Int /\ q \in Int /\ q = Len(a) + p
        /\ DOMAIN a = 1 .. Len(a) /\ Len(a) \in Nat /\ DOMAIN c = 1 .. Len(c)
        /\ DOMAIN b = 1 .. Len(b) /\ Len(b) \in Nat /\ Len(c) = Len(a) + Len(b)
    BY <1>2 DEF Joined
  <2>. HIDE DEF p
  <2>2. PICK k \in 0 .. p - 1 : Goal(b, p, d, k)
    BY <2>1 DEF Reported
  <2>. DEFINE m == Len(a) + k
  <2>3. m \in 0 .. q - 1 /\ m \in Int /\ q - m - 1 = p - k - 1
    BY <2>1
  <2>4. \A i \in k + 1 .. p - 1 : Len(a) + i \in m + 1 .. q - 1 /\ c[Len(a) + i] = b[i]
    BY <2>1 DEF Joined
  <2>5. \A i \in m + 1 .. q - 1 : i - Len(a) \in k + 1 .. p - 1 /\ c[i] = b[i - Len(a)]
    BY <2>1 DEF Joined
  <2>6. Behind(c, d, size[d], m, q)
    <3>1. \A i \in m + 1 .. q - 1 : c[i].op = "call" /\ \E n \in 1 .. size[d] : c[i].decision = <<d, n>>
      BY <2>2, <2>5 DEF Behind
    <3>2. \A n \in 1 .. size[d] : \A j \in 1 .. Len(Stages(d)) :
            \E i \in m + 1 .. q - 1 : c[i] = Call(<<d, n>>, Stages(d)[j])
      <4>. TAKE n \in 1 .. size[d]
      <4>. TAKE j \in 1 .. Len(Stages(d))
      <4>1. PICK i \in k + 1 .. p - 1 : b[i] = Call(<<d, n>>, Stages(d)[j])
        BY <2>2 DEF Behind
      <4>. HIDE DEF m
      <4>. QED
        BY <2>4, <4>1
    <3>. HIDE DEF m
    <3>. QED
      BY <2>2, <2>3, <3>1, <3>2 DEF Behind
  <2>7. q + 3 \in DOMAIN c /\ c[q + 1] = Explain /\ c[q + 2] = Explain /\ c[q + 3] = Render(d)
    <3>1. p + 1 \in 1 .. Len(b) /\ p + 2 \in 1 .. Len(b) /\ p + 3 \in 1 .. Len(b)
      BY <2>1, <2>2
    <3>2. c[Len(a) + (p + 1)] = b[p + 1] /\ c[Len(a) + (p + 2)] = b[p + 2] /\ c[Len(a) + (p + 3)] = b[p + 3]
      BY <3>1 DEF Joined
    <3>3. Len(a) + (p + 1) = q + 1 /\ Len(a) + (p + 2) = q + 2 /\ Len(a) + (p + 3) = q + 3
      BY <2>1
    <3>4. Len(a) + (p + 3) \in 1 .. Len(a) + Len(b)
      BY <2>1, <3>1
    <3>. QED
      BY <2>1, <2>2, <3>2, <3>3, <3>4
  <2>8. h = "cli" => m \in DOMAIN c /\ c[m] = Connect(d)
    <3>. SUFFICES ASSUME h = "cli" PROVE m \in DOMAIN c /\ c[m] = Connect(d)
      OBVIOUS
    <3>1. k \in 1 .. Len(b) /\ b[k] = Connect(d)
      BY <2>1, <2>2
    <3>. QED
      BY <2>1, <3>1 DEF Joined
  <2>. HIDE DEF m
  <2>9. Goal(c, q, d, m)
    BY <2>3, <2>6, <2>7, <2>8
  <2>. QED
    BY <2>3, <2>9
<1>. QED
  BY <1>1, <1>2

\* Two parts with steps of their own are a part.
LEMMA PartJoin ==
  ASSUME NEW h, NEW size, NEW a, NEW A, Part(a, A, h, size), NEW b, NEW B, Part(b, B, h, size),
         A \cap B = {}
  PROVE  Part(a \o b, A \cup B, h, size) /\ Joined(a \o b, a, b)
<1>. DEFINE S == A \cup B \cup {Explain}
            c == a \o b
<1>1. a \in Seq(S) /\ b \in Seq(S)
  <2>1. a \in Seq(A \cup {Explain}) /\ b \in Seq(B \cup {Explain})
    BY DEF Part
  <2>2. A \cup {Explain} \subseteq S /\ B \cup {Explain} \subseteq S
    OBVIOUS
  <2>. HIDE DEF S
  <2>. QED
    BY <2>1, <2>2, SeqMonotonic
<1>2. c \in Seq(S) /\ Joined(c, a, b)
  <2>. HIDE DEF S
  <2>. QED
    BY <1>1, Joins
<1>3. Once(c)
  <2>1. /\ \A i \in DOMAIN a : a[i] \in A \cup {Explain}
        /\ \A i \in DOMAIN b : b[i] \in B \cup {Explain}
    <3>1. /\ a \in Seq(A \cup {Explain}) /\ b \in Seq(B \cup {Explain})
          /\ DOMAIN a = 1 .. Len(a) /\ DOMAIN b = 1 .. Len(b)
      BY <1>2 DEF Part, Joined
    <3>. QED
      BY <3>1, ElementOfSeq
  <2>2. \A i \in DOMAIN a : \A j \in DOMAIN b : a[i] = b[j] => a[i] = Explain
    BY <2>1
  <2>. HIDE DEF c
  <2>. QED
    BY <1>2, <2>2, OnceJoin DEF Part
<1>. HIDE DEF c
<1>4. Chained(c) /\ Rendered(c) /\ Reported(c, h, size)
  BY <1>2, ChainedJoin, RenderedJoin, ReportedJoin DEF Part
<1>. QED
  BY <1>2, <1>3, <1>4 DEF Part, c

\* A part may be allowed more steps than it takes.
LEMMA PartMore ==
  ASSUME NEW h, NEW size, NEW t, NEW O, Part(t, O, h, size), NEW Q, O \subseteq Q, Q \subseteq Step, Explain \notin Q
  PROVE  Part(t, Q, h, size)
<1>1. t \in Seq(O \cup {Explain}) /\ O \cup {Explain} \subseteq Q \cup {Explain}
  BY DEF Part
<1>2. t \in Seq(Q \cup {Explain})
  BY <1>1, SeqMonotonic
<1>. QED
  BY <1>2 DEF Part

\* No step at all is a part.
LEMMA PartEmpty == ASSUME NEW h, NEW size PROVE Part(<<>>, {}, h, size) /\ Backed(<<>>, <<>>)
<1>1. DOMAIN <<>> = {} /\ <<>> \in Seq({} \cup {Explain})
  OBVIOUS
<1>. QED
  BY <1>1 DEF Part, Chained, Once, Reported, Rendered, Backed

\* A single step that neither calls, counts nor renders is a part.
LEMMA PartSingle ==
  ASSUME NEW h, NEW size, NEW x \in Step, x.op \notin {"call", "count", "render"}
  PROVE  Part(<<x>>, {x}, h, size)
<1>. DEFINE t == <<x>>
<1>1. DOMAIN t = {1} /\ t[1] = x /\ t \in Seq({x} \cup {Explain})
  OBVIOUS
<1>2. x # Explain /\ (\A id, s : x # Call(id, s)) /\ (\A d : x # Count(d) /\ x # Render(d))
  BY Fields
<1>. HIDE DEF t
<1>3. Chained(t) /\ Once(t) /\ Reported(t, h, size) /\ Rendered(t)
  BY <1>1, <1>2 DEF Chained, Once, Reported, Rendered
<1>. QED
  BY <1>1, <1>2, <1>3 DEF Part, t

\* Calls for the decisions of D.
CallsFor(D) == {x \in Calls : x.decision \in D}

\* Judgments of different decisions are a part of a script.
LEMMA JudgedPart ==
  ASSUME NEW h, NEW size, NEW d \in Desks, NEW D, D \subseteq Ids(d), NEW n \in Nat,
         NEW dec, \A i \in 1 .. n : dec[i] \in D,
         \A i, k \in 1 .. n : dec[i] = dec[k] => i = k, NEW s, Judged(s, d, dec, n)
  PROVE  /\ Part(s, CallsFor(D), h, size)
         /\ \A p \in DOMAIN s : s[p].op = "call" /\ \E i \in 1 .. n : s[p].decision = dec[i]
<1>. DEFINE L == Len(Stages(d))
<1>1. /\ s \in Seq(Step) /\ Len(s) = L * n
      /\ \A i \in 1 .. n : \A j \in 1 .. L : L * (i - 1) + j \in 1 .. Len(s) /\ s[L * (i - 1) + j] = Call(dec[i], Stages(d)[j])
      /\ \A p \in 1 .. Len(s) : \E i \in 1 .. n, j \in 1 .. L : p = L * (i - 1) + j
  BY DEF Judged, JudgedBy
<1>2. DOMAIN s = 1 .. Len(s) /\ L \in {2, 3}
  BY <1>1, LenProperties, StagesAre
<1>. HIDE DEF L
<1>3. \A p \in DOMAIN s : \E i \in 1 .. n, j \in 1 .. L : p = L * (i - 1) + j /\ s[p] = Call(dec[i], Stages(d)[j])
  <2>. TAKE p \in DOMAIN s
  <2>. PICK i \in 1 .. n, j \in 1 .. L : p = L * (i - 1) + j
    BY <1>1, <1>2
  <2>. QED
    BY <1>1
<1>4. ASSUME NEW p \in DOMAIN s
      PROVE  s[p] \in CallsFor(D) /\ s[p].op = "call" /\ \E i \in 1 .. n : s[p].decision = dec[i]
  <2>. PICK i \in 1 .. n, j \in 1 .. L : s[p] = Call(dec[i], Stages(d)[j])
    BY <1>3
  <2>1. Stages(d)[j] \in {"read", "assess", "gate"} /\ dec[i] \in D /\ dec[i] \in Ids("fx") \cup Ids("battery")
    BY StagesAre DEF L, Desks
  <2>. QED
    BY <2>1 DEF CallsFor, Calls, StageNames, Call
<1>5. s \in Seq(CallsFor(D) \cup {Explain})
  <2>1. \A p \in 1 .. Len(s) : s[p] \in CallsFor(D) \cup {Explain}
    BY <1>2, <1>4
  <2>2. Len(s) \in Nat /\ s = [p \in 1 .. Len(s) |-> s[p]]
    BY <1>1, LenProperties
  <2>. DEFINE e(p) == s[p]
  <2>3. [p \in 1 .. Len(s) |-> e(p)] \in Seq(CallsFor(D) \cup {Explain})
    <3>1. \A p \in 1 .. Len(s) : e(p) \in CallsFor(D) \cup {Explain}
      BY <2>1
    <3>. HIDE DEF e
    <3>. QED
      BY <2>2, <3>1, IsASeq
  <2>. QED
    BY <2>2, <2>3
<1>6. CallsFor(D) \subseteq Step /\ Explain \notin CallsFor(D)
  <2>1. Explain.decision = NoDecision /\ \A id \in D : id # NoDecision
    BY Fields, DeskOf
  <2>. QED
    BY <2>1 DEF CallsFor, Step
<1>7. Reported(s, h, size) /\ Rendered(s)
  <2>1. \A p \in DOMAIN s : \A e : s[p] # Count(e) /\ s[p] # Render(e)
    BY <1>4, Fields
  <2>. QED
    BY <2>1 DEF Reported, Rendered
<1>8. Once(s)
  <2>. SUFFICES ASSUME NEW p \in DOMAIN s, NEW q \in DOMAIN s, s[p] = s[q] PROVE p = q
    BY DEF Once
  <2>. PICK i \in 1 .. n, j \in 1 .. L : p = L * (i - 1) + j /\ s[p] = Call(dec[i], Stages(d)[j])
    BY <1>3
  <2>. PICK k \in 1 .. n, m \in 1 .. L : q = L * (k - 1) + m /\ s[q] = Call(dec[k], Stages(d)[m])
    BY <1>3
  <2>1. dec[i] = dec[k] /\ Stages(d)[j] = Stages(d)[m]
    BY Fields
  <2>2. i = k /\ j = m
    BY <2>1, StagesAre DEF L
  <2>. QED
    BY <2>2
<1>9. Chained(s)
  <2>. SUFFICES ASSUME NEW p \in DOMAIN s, NEW e \in Desks, NEW id \in Ids(e), NEW st \in StageNames, s[p] = Call(id, st)
                PROVE  Linked(s, p, e, id, st)
    BY DEF Chained
  <2>. PICK i \in 1 .. n, j \in 1 .. L : p = L * (i - 1) + j /\ s[p] = Call(dec[i], Stages(d)[j])
    BY <1>3
  <2>1. id = dec[i] /\ st = Stages(d)[j]
    BY Fields
  <2>2. e = d
    BY <2>1, DeskOf
  <2>3. j > 1 => p > 1 /\ s[p - 1] = Call(id, Stages(d)[j - 1])
    <3>. SUFFICES ASSUME j > 1 PROVE p > 1 /\ s[p - 1] = Call(id, Stages(d)[j - 1])
      OBVIOUS
    <3>. DEFINE m == j - 1
    <3>1. m \in 1 .. L /\ p - 1 = L * (i - 1) + m
      BY <1>2
    <3>. HIDE DEF m
    <3>2. p - 1 \in 1 .. Len(s) /\ s[p - 1] = Call(dec[i], Stages(d)[m])
      BY <1>1, <3>1
    <3>. QED
      BY <1>2, <2>1, <3>2 DEF m
  <2>. QED
    BY <2>1, <2>2, <2>3 DEF Linked, L
<1>. QED
  BY <1>4, <1>5, <1>6, <1>7, <1>8, <1>9 DEF Part

-----------------------------------------------------------------------------
(* The script of a desk *)

SessionIds(d) == {<<d, i>> : i \in Nat}
ReplayIds(d)  == {<<d, "replay", i>> : i \in Nat}

\* A session is a part, of calls for its own decisions only.
LEMMA SessionPart ==
  ASSUME NEW h, NEW size, NEW d \in Desks, NEW n \in Nat
  PROVE  /\ Part(Session(d, n), CallsFor(SessionIds(d)), h, size)
         /\ Judged(Session(d, n), d, [i \in 1 .. n |-> <<d, i>>], n)
         /\ \A p \in DOMAIN Session(d, n) :
              Session(d, n)[p].op = "call" /\ \E i \in 1 .. n : Session(d, n)[p].decision = <<d, i>>
<1>. DEFINE dec == [i \in 1 .. n |-> <<d, i>>]
            ids == [i \in 1 .. n |-> <<i>>]
            s == FlattenSeq([i \in 1 .. n |-> Judge(d, ids[i])])
<1>1. Session(d, n) = s
  <2>1. [i \in 1 .. n |-> Judge(d, ids[i])] = [i \in 1 .. n |-> Judge(d, <<i>>)]
    OBVIOUS
  <2>. QED
    BY <2>1 DEF Session
<1>2. \A i \in 1 .. n : dec[i] = <<d, i>> /\ dec[i] \in SessionIds(d) /\ ids[i] = <<i>>
  BY DEF SessionIds
<1>3. SessionIds(d) \subseteq Ids(d)
  BY DEF SessionIds, Ids
<1>4. \A i, k \in 1 .. n : dec[i] = dec[k] => i = k
  <2>. TAKE i, k \in 1 .. n
  <2>1. dec[i][2] = i /\ dec[k][2] = k
    BY <1>2, IdParts
  <2>. QED
    BY <2>1
<1>. HIDE DEF dec, ids
<1>5. \A i \in 1 .. n : dec[i] = <<d>> \o ids[i] /\ dec[i] \in Ids(d)
  <2>. TAKE i \in 1 .. n
  <2>1. <<d>> \o <<i>> = <<d, i>>
    BY IdParts
  <2>. QED
    BY <1>2, <1>3, <2>1
<1>6. Judged(s, d, dec, n)
  BY <1>5, Judgments
<1>. HIDE DEF s
<1>7. /\ Part(s, CallsFor(SessionIds(d)), h, size)
      /\ \A p \in DOMAIN s : s[p].op = "call" /\ \E i \in 1 .. n : s[p].decision = dec[i]
  <2>1. \A i \in 1 .. n : dec[i] \in SessionIds(d)
    BY <1>2
  <2>. QED
    BY <1>3, <1>4, <1>6, <2>1, JudgedPart
<1>. QED
  BY <1>1, <1>2, <1>6, <1>7 DEF dec

\* A replay is a part, of calls for the changed worlds only.
LEMMA ReplayPart ==
  ASSUME NEW h, NEW size, NEW d \in Desks, NEW n \in Nat
  PROVE  /\ Part(Replay(d, n), CallsFor(ReplayIds(d)), h, size)
         /\ \A p \in DOMAIN Replay(d, n) : Replay(d, n)[p].op = "call"
<1>. DEFINE dec == [i \in 1 .. n |-> <<d, "replay", i>>]
            ids == [i \in 1 .. n |-> <<"replay", i>>]
            s == FlattenSeq([i \in 1 .. n |-> Judge(d, ids[i])])
<1>1. Replay(d, n) = s
  <2>1. [i \in 1 .. n |-> Judge(d, ids[i])] = [i \in 1 .. n |-> Judge(d, <<"replay", i>>)]
    OBVIOUS
  <2>. QED
    BY <2>1 DEF Replay
<1>2. \A i \in 1 .. n : dec[i] = <<d, "replay", i>> /\ dec[i] \in ReplayIds(d) /\ ids[i] = <<"replay", i>>
  BY DEF ReplayIds
<1>3. ReplayIds(d) \subseteq Ids(d)
  BY DEF ReplayIds, Ids
<1>4. \A i, k \in 1 .. n : dec[i] = dec[k] => i = k
  <2>. TAKE i, k \in 1 .. n
  <2>1. dec[i][3] = i /\ dec[k][3] = k
    BY <1>2, IdParts
  <2>. QED
    BY <2>1
<1>. HIDE DEF dec, ids
<1>5. \A i \in 1 .. n : dec[i] = <<d>> \o ids[i] /\ dec[i] \in Ids(d)
  <2>. TAKE i \in 1 .. n
  <2>1. <<d>> \o <<"replay", i>> = <<d, "replay", i>>
    BY IdParts
  <2>. QED
    BY <1>2, <1>3, <2>1
<1>6. Judged(s, d, dec, n)
  BY <1>5, Judgments
<1>. HIDE DEF s
<1>7. /\ Part(s, CallsFor(ReplayIds(d)), h, size)
      /\ \A p \in DOMAIN s : s[p].op = "call" /\ \E i \in 1 .. n : s[p].decision = dec[i]
  BY <1>2, <1>3, <1>4, <1>6, JudgedPart
<1>. QED
  BY <1>1, <1>7

\* A report behind a session, behind the opening of a log on the command line.
LEMMA ReportedDesk ==
  ASSUME NEW h, NEW d \in Desks, NEW size, size[d] \in Nat,
         NEW a, Len(a) = IF h = "cli" THEN 1 ELSE 0,
         \A i \in DOMAIN a : a[i] = Connect(d),
         NEW u, Joined(u, a, Session(d, size[d])), NEW y, Joined(y, u, Report(d))
  PROVE  Reported(y, h, size)
<1>. DEFINE n == size[d]
            s == Session(d, n)
            r == Report(d)
            L == Len(Stages(d))
            dec == [i \in 1 .. n |-> <<d, i>>]
            m == Len(a)
            b == Len(u)
<1>1. /\ Judged(s, d, dec, n)
      /\ \A p \in DOMAIN s : s[p].op = "call" /\ \E i \in 1 .. n : s[p].decision = <<d, i>>
  BY SessionPart
<1>2. /\ Len(s) = L * n
      /\ \A i \in 1 .. n : \A j \in 1 .. L : \E p \in 1 .. Len(s) : s[p] = Call(<<d, i>>, Stages(d)[j])
  <2>1. /\ Len(s) = L * n
        /\ \A i \in 1 .. n : \A j \in 1 .. L : L * (i - 1) + j \in 1 .. Len(s) /\ s[L * (i - 1) + j] = Call(dec[i], Stages(d)[j])
    <3>. HIDE DEF dec, s
    <3>. QED
      BY <1>1 DEF Judged, JudgedBy
  <2>. HIDE DEF s, L
  <2>. QED
    BY <2>1
<1>3. Len(r) = 4 /\ r[1] = Count(d) /\ r[2] = Explain /\ r[3] = Explain /\ r[4] = Render(d)
  BY DEF Report
<1>. HIDE DEF r, s, dec
<1>4. /\ m \in {0, 1} /\ (h = "cli" => m = 1) /\ DOMAIN a = 1 .. m
      /\ Len(s) \in Nat /\ DOMAIN s = 1 .. Len(s) /\ b = m + Len(s)
      /\ DOMAIN u = 1 .. b /\ Len(y) = b + 4 /\ DOMAIN y = 1 .. b + 4
  BY <1>3 DEF Joined, s, r
<1>5. /\ \A i \in 1 .. m : y[i] = a[i]
      /\ \A i \in m + 1 .. b : i - m \in 1 .. Len(s) /\ y[i] = s[i - m]
      /\ \A p \in 1 .. Len(s) : m + p \in m + 1 .. b /\ y[m + p] = s[p]
  <2>1. \A i \in 1 .. b : y[i] = u[i]
    BY DEF Joined
  <2>2. /\ \A i \in 1 .. m : u[i] = a[i]
        /\ \A i \in m + 1 .. b : i - m \in 1 .. Len(s) /\ u[i] = s[i - m]
        /\ \A p \in 1 .. Len(s) : u[m + p] = s[p]
    BY DEF Joined, s
  <2>. HIDE DEF m, b
  <2>. QED
    BY <1>4, <2>1, <2>2
<1>6. y[b + 1] = Count(d) /\ y[b + 2] = Explain /\ y[b + 3] = Explain /\ y[b + 4] = Render(d)
  BY <1>3, <1>4 DEF Joined, r
<1>. HIDE DEF m, b
<1>7. ASSUME NEW q \in DOMAIN y, NEW e \in Desks, y[q] = Count(e)
      PROVE  q = b + 1 /\ e = d
  <2>1. q \in 1 .. m \/ q \in m + 1 .. b \/ q \in {b + 1, b + 2, b + 3, b + 4}
    <3>1. m \in Int /\ b \in Int /\ q \in Int /\ m <= b /\ 1 <= q /\ q <= b + 4
      BY <1>4
    <3>. QED
      BY <3>1
  <2>2. y[q].op = "count" /\ y[q].desk = e
    BY <1>7, Fields
  <2>3. q \notin 1 .. m
    <3>. SUFFICES ASSUME q \in 1 .. m PROVE FALSE
      OBVIOUS
    <3>1. y[q] = Connect(d)
      BY <1>4, <1>5
    <3>. QED
      BY <2>2, <3>1, Fields
  <2>4. q \notin m + 1 .. b
    <3>. SUFFICES ASSUME q \in m + 1 .. b PROVE FALSE
      OBVIOUS
    <3>1. y[q].op = "call"
      BY <1>1, <1>4, <1>5
    <3>. QED
      BY <2>2, <3>1
  <2>. QED
    BY <1>6, <2>1, <2>2, <2>3, <2>4, Fields
<1>. SUFFICES ASSUME NEW q \in DOMAIN y, NEW e \in Desks, y[q] = Count(e)
              PROVE  /\ q + 3 \in DOMAIN y /\ y[q + 1] = Explain /\ y[q + 2] = Explain /\ y[q + 3] = Render(e)
                     /\ \E c \in 0 .. q - 1 : /\ h = "cli" => c \in DOMAIN y /\ y[c] = Connect(e)
                                              /\ Behind(y, e, size[e], c, q)
  BY DEF Reported
<1>8. q = b + 1 /\ e = d
  BY <1>7
<1>9. q + 3 \in DOMAIN y /\ y[q + 1] = Explain /\ y[q + 2] = Explain /\ y[q + 3] = Render(e)
  BY <1>4, <1>6, <1>8
<1>10. m \in 0 .. q - 1 /\ (h = "cli" => m \in DOMAIN y /\ y[m] = Connect(e))
  <2>1. h = "cli" => m \in 1 .. m /\ y[m] = a[m] /\ a[m] = Connect(d)
    BY <1>4, <1>5
  <2>. QED
    BY <1>4, <1>8, <2>1
<1>11. Behind(y, e, size[e], m, q)
  <2>1. q - m - 1 = L * n /\ m + 1 .. q - 1 = m + 1 .. b
    <3>. HIDE DEF L, n
    <3>. QED
      BY <1>2, <1>4, <1>8
  <2>2. \A i \in m + 1 .. b : y[i].op = "call" /\ \E k \in 1 .. n : y[i].decision = <<d, k>>
    <3>. TAKE i \in m + 1 .. b
    <3>1. i - m \in DOMAIN s /\ y[i] = s[i - m]
      BY <1>4, <1>5
    <3>. HIDE DEF n
    <3>. QED
      BY Zenon, <1>1, <3>1
  <2>3. \A k \in 1 .. n : \A j \in 1 .. L : \E i \in m + 1 .. b : y[i] = Call(<<d, k>>, Stages(d)[j])
    <3>. TAKE k \in 1 .. n
    <3>. TAKE j \in 1 .. L
    <3>1. PICK p \in 1 .. Len(s) : s[p] = Call(<<d, k>>, Stages(d)[j])
      BY <1>2
    <3>. QED
      BY <1>5, <3>1
  <2>. DEFINE J == m + 1 .. b
  <2>. HIDE DEF J, L, n
  <2>4. m + 1 .. q - 1 = J /\ size[e] = n /\ Len(Stages(e)) = L
    BY <1>8, <2>1 DEF J, L, n
  <2>5. /\ \A i \in J : y[i].op = "call" /\ \E k \in 1 .. n : y[i].decision = <<e, k>>
        /\ \A k \in 1 .. n : \A j \in 1 .. L : \E i \in J : y[i] = Call(<<e, k>>, Stages(e)[j])
    BY Zenon, <1>8, <2>2, <2>3 DEF J
  <2>. QED
    BY Zenon, <2>1, <2>4, <2>5 DEF Behind
<1>. QED
  BY <1>9, <1>10, <1>11

\* The steps of a desk's own.
Own(h, d) ==
  CallsFor(Ids(d)) \cup {Count(d), Render(d)} \cup (IF h = "cli" THEN {Connect(d), Publish({d})} ELSE {})

\* A script begins with the opening of a log.
Begins(t) == 1 \in DOMAIN t /\ t[1].op = "connect"

\* The whole begins as its first part that has a step does.
LEMMA BeginsJoin ==
  ASSUME NEW c, NEW a, NEW b, Joined(c, a, b)
  PROVE  /\ Begins(a) => Begins(c)
         /\ Len(a) = 0 /\ Begins(b) => Begins(c)
<1>1. CASE Begins(a)
  <2>1. 1 \in 1 .. Len(a) /\ c[1] = a[1] /\ 1 \in DOMAIN c
    BY <1>1 DEF Begins, Joined
  <2>. QED
    BY <1>1, <2>1 DEF Begins
<1>2. CASE Len(a) = 0 /\ Begins(b)
  <2>1. 1 \in 1 .. Len(b) /\ c[0 + 1] = b[1] /\ 1 \in DOMAIN c
    BY <1>2 DEF Begins, Joined
  <2>. QED
    BY <1>2, <2>1 DEF Begins
<1>. QED
  BY <1>1, <1>2

\* The script of a desk is a part that publishes nothing it has not rendered.
LEMMA DeskPart ==
  ASSUME NEW h, NEW d \in Desks, NEW size, size[d] \in Nat, NEW w \in Nat
  PROVE  /\ Part(DeskScript(h, d, size[d], w), Own(h, d), h, size)
         /\ Backed(<<>>, DeskScript(h, d, size[d], w))
         /\ \E r \in DOMAIN DeskScript(h, d, size[d], w) : DeskScript(h, d, size[d], w)[r] = Render(d)
         /\ h = "cli" => Begins(DeskScript(h, d, size[d], w))
<1>. DEFINE n == size[d]
            a == IF h = "cli" THEN <<Connect(d)>> ELSE <<>>
            s == Session(d, n)
            u == a \o s
            r == Report(d)
            y == u \o r
            p == IF h = "cli" THEN <<Publish({d})>> ELSE <<>>
            z == y \o p
            x == Replay(d, w)
            t == z \o x
            A == IF h = "cli" THEN {Connect(d)} ELSE {}
            P == IF h = "cli" THEN {Publish({d})} ELSE {}
            R == {Count(d), Render(d)}
            S == CallsFor(SessionIds(d))
            X == CallsFor(ReplayIds(d))
<1>1. DeskScript(h, d, size[d], w) = t
  BY DEF DeskScript
<1>2. Connect(d) \in Step /\ Publish({d}) \in Step
  BY StepForms DEF Desks, LogNames
<1>3. Part(a, A, h, size) /\ Len(a) = (IF h = "cli" THEN 1 ELSE 0) /\ \A i \in DOMAIN a : a[i] = Connect(d)
  BY <1>2, PartSingle, PartEmpty, Fields
<1>4. Part(p, P, h, size) /\ \A i \in DOMAIN p : i = 1 /\ p[i] = Publish({d})
  <2>1. CASE h = "cli"
    <3>1. Publish({d}).op \notin {"call", "count", "render"}
      BY Fields
    <3>2. Part(<<Publish({d})>>, {Publish({d})}, h, size)
      BY <1>2, <3>1, PartSingle
    <3>. QED
      BY <2>1, <3>2
  <2>2. CASE h # "cli"
    BY <2>2, PartEmpty
  <2>. QED
    BY <2>1, <2>2
<1>5. Part(s, S, h, size) /\ \A i \in DOMAIN s : s[i].op = "call"
  BY SessionPart
<1>6. Part(x, X, h, size) /\ \A i \in DOMAIN x : x[i].op = "call"
  BY ReplayPart
<1>7. r \in Seq(R \cup {Explain}) /\ Len(r) = 4 /\ DOMAIN r = 1 .. 4
      /\ r[1] = Count(d) /\ r[2] = Explain /\ r[3] = Explain /\ r[4] = Render(d)
  BY DEF Report
<1>8. \A k \in Desks : \A id : id \in Ids(k) => id # NoDecision
  BY DeskOf
<1>. HIDE DEF r, s, x, a, p
<1>9. Chained(r) /\ Once(r) /\ Rendered(r) /\ Backed(y, r) /\ Backed(u, r)
  <2>1. Chained(r)
    <3>1. \A i \in DOMAIN r : \A id, st : r[i] = Call(id, st) => id = NoDecision
      BY <1>7, Fields
    <3>. QED
      BY <1>8, <3>1 DEF Chained
  <2>2. Once(r)
    <3>1. Count(d) # Render(d) /\ Count(d) # Explain /\ Render(d) # Explain
      BY Fields
    <3>. QED
      BY <1>7, <3>1 DEF Once
  <2>3. Rendered(r)
    <3>1. \A i \in DOMAIN r : \A e : r[i] = Render(e) => i = 4 /\ e = d
      BY <1>7, Fields
    <3>. QED
      BY <1>7, <3>1 DEF Rendered
  <2>4. \A i \in DOMAIN r : \A ds : r[i] # Publish(ds)
    BY <1>7, Fields
  <2>. HIDE DEF y, u
  <2>. QED
    BY <2>1, <2>2, <2>3, <2>4 DEF Backed
<1>10. /\ A \subseteq Own(h, d) /\ P \subseteq Own(h, d) /\ R \subseteq Own(h, d)
       /\ S \subseteq Own(h, d) /\ X \subseteq Own(h, d)
       /\ Own(h, d) \subseteq Step /\ Explain \notin Own(h, d)
  <2>1. CallsFor(Ids(d)) \subseteq Step /\ Explain \notin CallsFor(Ids(d))
    BY <1>8, Fields DEF CallsFor, Step
  <2>2. S \subseteq CallsFor(Ids(d)) /\ X \subseteq CallsFor(Ids(d))
    BY DEF CallsFor, SessionIds, ReplayIds, Ids
  <2>. QED
    BY <1>2, <2>1, <2>2, StepForms, Fields DEF Own
<1>11. S \cap X = {} /\ A \cap S = {} /\ (A \cup S) \cap R = {} /\ (A \cup S \cup R) \cap P = {}
       /\ (A \cup S \cup R \cup P) \cap X = {}
  <2>1. \A i, k : <<d, i>> # <<d, "replay", k>>
    BY IdParts
  <2>2. SessionIds(d) \cap ReplayIds(d) = {}
    BY <2>1 DEF SessionIds, ReplayIds
  <2>3. S \cap X = {} /\ \A c \in S \cup X : c.op = "call"
    BY <2>2 DEF CallsFor, Calls
  <2>4. /\ \A c \in A : c.op = "connect"
        /\ \A c \in P : c.op = "publish"
        /\ \A c \in R : c.op = "count" \/ c.op = "render"
    BY Fields
  <2>. HIDE DEF A, P, R, S, X
  <2>. QED
    BY <2>3, <2>4
<1>12. Part(u, A \cup S, h, size) /\ Joined(u, a, s)
  <2>. HIDE DEF A, S
  <2>. QED
    BY <1>3, <1>5, <1>11, PartJoin
<1>13. Part(y, A \cup S \cup R, h, size) /\ Joined(y, u, r)
  <2>. DEFINE Q == A \cup S \cup R \cup {Explain}
              B == A \cup S
  <2>1. u \in Seq(Q) /\ r \in Seq(Q)
    <3>1. u \in Seq(B \cup {Explain}) /\ B \cup {Explain} \subseteq Q /\ R \cup {Explain} \subseteq Q
      BY <1>12 DEF Part
    <3>. HIDE DEF Q, B, u, R
    <3>. QED
      BY <1>7, <3>1, SeqMonotonic
  <2>2. y \in Seq(Q) /\ Joined(y, u, r)
    <3>. HIDE DEF Q, u
    <3>. QED
      BY <2>1, Joins
  <2>3. Once(y)
    <3>1. \A i \in DOMAIN u : u[i] \in B \cup {Explain}
      <4>1. u \in Seq(B \cup {Explain}) /\ DOMAIN u = 1 .. Len(u)
        BY <1>12, <2>2 DEF Part, Joined
      <4>. HIDE DEF u, B
      <4>. QED
        BY <4>1, ElementOfSeq
    <3>2. \A i \in DOMAIN r : r[i] \in R \cup {Explain}
      BY <1>7
    <3>3. \A i \in DOMAIN u : \A j \in DOMAIN r : u[i] = r[j] => u[i] = Explain
      <4>. HIDE DEF u, R, A, S
      <4>. QED
        BY <1>11, <3>1, <3>2
    <3>. HIDE DEF u, y
    <3>. QED
      BY <1>9, <1>12, <2>2, <3>3, OnceJoin DEF Part
  <2>4. Reported(y, h, size)
    <3>. HIDE DEF u, y, a
    <3>. QED
      BY <1>3, <1>12, <2>2, ReportedDesk DEF s, r
  <2>5. Chained(y) /\ Rendered(y)
    <3>. HIDE DEF u, y
    <3>. QED
      BY <1>9, <1>12, <2>2, ChainedJoin, RenderedJoin DEF Part
  <2>6. A \cup S \cup R \subseteq Step /\ Explain \notin A \cup S \cup R
    BY <1>10
  <2>. HIDE DEF u, y, A, S, R
  <2>. QED
    BY <2>2, <2>3, <2>4, <2>5, <2>6 DEF Part, Q
<1>14. Part(z, A \cup S \cup R \cup P, h, size) /\ Joined(z, y, p)
  <2>. HIDE DEF A, S, R, P, y
  <2>. QED
    BY <1>4, <1>11, <1>13, PartJoin
<1>15. Part(t, A \cup S \cup R \cup P \cup X, h, size) /\ Joined(t, z, x)
  <2>. HIDE DEF A, S, R, P, X, z
  <2>. QED
    BY <1>6, <1>11, <1>14, PartJoin
<1>16. Part(t, Own(h, d), h, size)
  <2>. HIDE DEF A, S, R, P, X, t
  <2>1. A \cup S \cup R \cup P \cup X \subseteq Own(h, d)
    BY <1>10
  <2>. DEFINE O == A \cup S \cup R \cup P \cup X
  <2>. HIDE DEF O
  <2>2. Part(t, O, h, size) /\ O \subseteq Own(h, d)
    BY <1>15, <2>1 DEF O
  <2>. QED
    BY <1>10, <2>2, PartMore
<1>17. \E k \in DOMAIN y : y[k] = Render(d)
  <2>1. Len(u) + 4 \in DOMAIN y /\ y[Len(u) + 4] = Render(d)
    <3>. HIDE DEF u, y
    <3>. QED
      BY <1>7, <1>13 DEF Joined
  <2>. QED
    BY <2>1
<1>18. Backed(<<>>, t)
  <2>1. Backed(<<>>, a) /\ Backed(a, s) /\ Backed(y, p) /\ Backed(z, x)
    <3>1. /\ \A i \in DOMAIN a : \A ds : a[i] # Publish(ds)
          /\ \A i \in DOMAIN s : \A ds : s[i] # Publish(ds)
          /\ \A i \in DOMAIN x : \A ds : x[i] # Publish(ds)
      BY <1>3, <1>5, <1>6, Fields
    <3>2. \A i \in DOMAIN p : \A ds : p[i] = Publish(ds) => ds = {d}
      BY <1>4, Fields
    <3>. HIDE DEF y, z
    <3>. QED
      BY <1>17, <3>1, <3>2 DEF Backed
  <2>2. Backed(<<>>, u)
    <3>. HIDE DEF u
    <3>. QED
      BY <1>12, <2>1, BackedJoin
  <2>3. Backed(<<>>, y)
    <3>. HIDE DEF u, y
    <3>. QED
      BY <1>9, <1>13, <2>2, BackedJoin
  <2>4. Backed(<<>>, z)
    <3>. HIDE DEF y, z
    <3>. QED
      BY <1>14, <2>1, <2>3, BackedJoin
  <2>. HIDE DEF z, t
  <2>. QED
    BY <1>15, <2>1, <2>4, BackedJoin
<1>19. \E k \in DOMAIN t : t[k] = Render(d)
  <2>1. \E k \in DOMAIN z : z[k] = Render(d)
    <3>. HIDE DEF y, z
    <3>. QED
      BY <1>14, <1>17 DEF Joined
  <2>. HIDE DEF z, t
  <2>. QED
    BY <1>15, <2>1 DEF Joined
<1>20. h = "cli" => Begins(t)
  <2>. SUFFICES ASSUME h = "cli" PROVE Begins(t)
    OBVIOUS
  <2>1. Begins(a)
    <3>1. DOMAIN a = 1 .. Len(a)
      BY <1>12 DEF Joined
    <3>2. 1 \in DOMAIN a
      BY <1>3, <3>1
    <3>. QED
      BY <1>3, <3>2, Fields DEF Begins
  <2>2. Begins(u)
    <3>. HIDE DEF u
    <3>. QED
      BY <1>12, <2>1, BeginsJoin
  <2>3. Begins(y)
    <3>. HIDE DEF u, y
    <3>. QED
      BY <1>13, <2>2, BeginsJoin
  <2>4. Begins(z)
    <3>. HIDE DEF y, z
    <3>. QED
      BY <1>14, <2>3, BeginsJoin
  <2>. HIDE DEF z, t
  <2>. QED
    BY <1>15, <2>4, BeginsJoin
<1>. HIDE DEF t
<1>. QED
  BY <1>1, <1>16, <1>18, <1>19, <1>20

-----------------------------------------------------------------------------
(* The text of a run *)

\* The whole script of a run.
Text(t, h, size) ==
  /\ t \in Seq(Step) /\ Begins(t)
  /\ Chained(t) /\ Once(t) /\ Reported(t, h, size) /\ Rendered(t) /\ Backed(<<>>, t)
  /\ h = "server" => t[1] = Connect("run") /\ \A i \in DOMAIN t : t[i].op = "connect" => i = 1

\* The closing summary is a part that publishes nothing.
LEMMA ClosingPart ==
  ASSUME NEW h, NEW size
  PROVE  /\ Part(Closing(h), {Comply} \cup (IF h = "cli" THEN {Connect("all")} ELSE {}), h, size)
         /\ \A e : Backed(e, Closing(h))
<1>. DEFINE a == IF h = "cli" THEN <<Connect("all")>> ELSE <<>>
            A == IF h = "cli" THEN {Connect("all")} ELSE {}
            b == <<Explain, Comply>>
<1>1. Closing(h) = a \o b
  BY DEF Closing
<1>2. Part(a, A, h, size) /\ \A i \in DOMAIN a : a[i] = Connect("all")
  <2>1. CASE h = "cli"
    <3>1. Connect("all").op \notin {"call", "count", "render"} /\ Connect("all") \in Step
      BY Fields, StepForms DEF LogNames
    <3>2. Part(<<Connect("all")>>, {Connect("all")}, h, size)
      BY <3>1, PartSingle
    <3>. QED
      BY <2>1, <3>2
  <2>2. CASE h # "cli"
    BY <2>2, PartEmpty
  <2>. QED
    BY <2>1, <2>2
<1>3. DOMAIN b = {1, 2} /\ b[1] = Explain /\ b[2] = Comply /\ b \in Seq({Comply} \cup {Explain})
  OBVIOUS
<1>4. Explain # Comply
  BY Fields
<1>. HIDE DEF b
<1>5. Part(b, {Comply}, h, size)
  <2>1. \A d \in Desks : \A id \in Ids(d) : \A s : Explain # Call(id, s)
    BY Fields, DeskOf
  <2>2. (\A id, s : Comply # Call(id, s)) /\ (\A d : Comply # Count(d) /\ Comply # Render(d))
        /\ (\A d : Explain # Count(d) /\ Explain # Render(d))
    BY Fields
  <2>3. Chained(b)
    BY <1>3, <2>1, <2>2 DEF Chained
  <2>4. Once(b)
    BY <1>3, <1>4 DEF Once
  <2>5. Reported(b, h, size) /\ Rendered(b)
    BY <1>3, <2>2 DEF Reported, Rendered
  <2>. QED
    BY <1>3, <1>4, <2>3, <2>4, <2>5, StepForms DEF Part
<1>6. A \cap {Comply} = {}
  BY Fields
<1>7. Part(a \o b, A \cup {Comply}, h, size) /\ Joined(a \o b, a, b)
  <2>. HIDE DEF a, A
  <2>. QED
    BY <1>2, <1>5, <1>6, PartJoin
<1>8. A \cup {Comply} = {Comply} \cup A
  OBVIOUS
<1>9. \A e : Backed(e, Closing(h))
  <2>1. (\A i \in DOMAIN a : \A ds : a[i] # Publish(ds)) /\ (\A i \in DOMAIN b : \A ds : b[i] # Publish(ds))
    BY <1>2, <1>3, Fields
  <2>2. Backed(a, b) /\ \A e : Backed(e, a)
    BY <2>1 DEF Backed
  <2>. HIDE DEF a
  <2>. QED
    BY <1>1, <1>7, <2>2, BackedJoin
<1>. QED
  BY <1>1, <1>7, <1>8, <1>9

\* What a script has of a desk.
IfRuns(h, d, size, w, desks) == IF d \in desks THEN DeskScript(h, d, size[d], w[d]) ELSE <<>>

\* It is a part, whether the desk runs or not.
LEMMA DeskOrNot ==
  ASSUME NEW h, NEW d \in Desks, NEW size \in [Desks -> Nat], NEW w \in [Desks -> Nat], NEW desks,
         NEW t, t = IfRuns(h, d, size, w, desks)
  PROVE  /\ Part(t, Own(h, d), h, size) /\ Backed(<<>>, t)
         /\ d \in desks => \E r \in DOMAIN t : t[r] = Render(d)
         /\ d \in desks /\ h = "cli" => Begins(t)
         /\ d \notin desks => t = <<>>
<1>. DEFINE s == DeskScript(h, d, size[d], w[d])
<1>1. /\ Part(s, Own(h, d), h, size) /\ Backed(<<>>, s)
      /\ \E r \in DOMAIN s : s[r] = Render(d)
      /\ h = "cli" => Begins(s)
  BY DeskPart
<1>2. t = IF d \in desks THEN s ELSE <<>>
  BY DEF IfRuns
<1>. HIDE DEF s
<1>3. CASE d \in desks
  BY <1>1, <1>2, <1>3
<1>4. CASE d \notin desks
  <2>1. Part(<<>>, {}, h, size) /\ Backed(<<>>, <<>>)
    BY PartEmpty
  <2>2. Own(h, d) \subseteq Step /\ Explain \notin Own(h, d)
    BY <1>1 DEF Part
  <2>3. Part(<<>>, Own(h, d), h, size)
    BY <2>1, <2>2, PartMore
  <2>. QED
    BY <1>2, <1>4, <2>1, <2>3
<1>. QED
  BY <1>3, <1>4

\* What stands in a part stands in the whole.
LEMMA KeptByJoin ==
  ASSUME NEW c, NEW a, NEW b, Joined(c, a, b), NEW x,
         (\E r \in DOMAIN a : a[r] = x) \/ (\E r \in DOMAIN b : b[r] = x)
  PROVE  \E r \in DOMAIN c : c[r] = x
<1>1. CASE \E r \in DOMAIN a : a[r] = x
  BY <1>1 DEF Joined
<1>2. CASE \E r \in DOMAIN b : b[r] = x
  <2>. PICK r \in DOMAIN b : b[r] = x
    BY <1>2
  <2>1. Len(a) + r \in DOMAIN c /\ c[Len(a) + r] = x
    BY DEF Joined
  <2>. QED
    BY <2>1
<1>. QED
  BY <1>1, <1>2

\* What is backed on its own is backed behind anything.
LEMMA BackedMore ==
  ASSUME NEW e, NEW t, Backed(<<>>, t) PROVE Backed(e, t)
<1>1. DOMAIN <<>> = {}
  OBVIOUS
<1>. QED
  BY <1>1 DEF Backed

\* Every script that a run may start with is such a text.
LEMMA ScriptIsText ==
  ASSUME NEW h \in {"cli", "server"}, NEW desks \in {{"fx"}, {"battery"}, Desks},
         NEW size \in [Desks -> Nat], NEW w \in [Desks -> Nat]
  PROVE  Text(Script(h, desks, size, w), h, size)
<1>. DEFINE a == IF h = "server" THEN <<Connect("run")>> ELSE <<>>
            f == IF "fx" \in desks THEN DeskScript(h, "fx", size["fx"], w["fx"]) ELSE <<>>
            b == IF "battery" \in desks THEN DeskScript(h, "battery", size["battery"], w["battery"]) ELSE <<>>
            c == IF desks = Desks THEN Closing(h) ELSE <<>>
            p == IF h = "server" THEN <<Publish(desks)>> ELSE <<>>
            u == a \o f
            v == u \o b
            x == v \o c
            t == x \o p
            A == IF h = "server" THEN {Connect("run")} ELSE {}
            F == Own(h, "fx")
            B == Own(h, "battery")
            C == {Comply} \cup (IF h = "cli" THEN {Connect("all")} ELSE {})
            P == IF h = "server" THEN {Publish(desks)} ELSE {}
<1>1. Script(h, desks, size, w) = t
  BY DEF Script
<1>2. /\ size["fx"] \in Nat /\ size["battery"] \in Nat /\ w["fx"] \in Nat /\ w["battery"] \in Nat
      /\ "fx" \in Desks /\ "battery" \in Desks /\ desks \in SUBSET Desks /\ ("fx" \in desks \/ "battery" \in desks)
      /\ Desks = {"fx", "battery"}
  BY DEF Desks
<1>3. Connect("run") \in Step /\ Publish(desks) \in Step /\ Connect("all") \in Step /\ Comply \in Step
  BY <1>2, StepForms DEF LogNames
<1>4. /\ Part(a, A, h, size) /\ Backed(<<>>, a) /\ \A i \in DOMAIN a : i = 1 /\ a[i] = Connect("run")
      /\ h = "server" => Begins(a) /\ Len(a) = 1
      /\ h = "cli" => a = <<>>
  <2>1. CASE h = "server"
    <3>1. Connect("run").op \notin {"call", "count", "render"} /\ \A ds : Connect("run") # Publish(ds)
      BY Fields
    <3>2. Part(<<Connect("run")>>, {Connect("run")}, h, size)
      BY <1>3, <3>1, PartSingle
    <3>. QED
      BY <2>1, <3>1, <3>2, Fields DEF Begins, Backed
  <2>2. CASE h = "cli"
    BY <2>2, PartEmpty
  <2>. QED
    BY <2>1, <2>2
<1>5. Part(p, P, h, size) /\ \A i \in DOMAIN p : i = 1 /\ p[i] = Publish(desks) /\ h = "server"
  <2>1. CASE h = "server"
    <3>1. Publish(desks).op \notin {"call", "count", "render"}
      BY Fields
    <3>2. Part(<<Publish(desks)>>, {Publish(desks)}, h, size)
      BY <1>3, <3>1, PartSingle
    <3>. QED
      BY <2>1, <3>2
  <2>2. CASE h = "cli"
    BY <2>2, PartEmpty
  <2>. QED
    BY <2>1, <2>2
<1>6. /\ Part(f, F, h, size) /\ Backed(<<>>, f)
      /\ "fx" \in desks => \E r \in DOMAIN f : f[r] = Render("fx")
      /\ "fx" \in desks /\ h = "cli" => Begins(f)
      /\ "fx" \notin desks => f = <<>>
  <2>1. f = IfRuns(h, "fx", size, w, desks)
    BY DEF IfRuns
  <2>. HIDE DEF f
  <2>. QED
    BY <1>2, <2>1, DeskOrNot
<1>7. /\ Part(b, B, h, size) /\ Backed(<<>>, b)
      /\ "battery" \in desks => \E r \in DOMAIN b : b[r] = Render("battery")
      /\ "battery" \in desks /\ h = "cli" => Begins(b)
      /\ "battery" \notin desks => b = <<>>
  <2>1. b = IfRuns(h, "battery", size, w, desks)
    BY DEF IfRuns
  <2>. HIDE DEF b
  <2>. QED
    BY <1>2, <2>1, DeskOrNot
<1>8. C \subseteq Step /\ Explain \notin C
  BY <1>3, Fields
<1>9. Part(c, C, h, size) /\ Backed(v, c)
  <2>1. CASE desks = Desks
    <3>. HIDE DEF v
    <3>. QED
      BY <2>1, ClosingPart
  <2>2. CASE desks # Desks
    <3>1. Part(<<>>, {}, h, size) /\ Backed(v, <<>>)
      <4>1. DOMAIN <<>> = {}
        OBVIOUS
      <4>. HIDE DEF v
      <4>. QED
        BY <4>1, PartEmpty DEF Backed
    <3>2. Part(<<>>, C, h, size)
      <4>. HIDE DEF C
      <4>. QED
        BY <1>8, <3>1, PartMore
    <3>. QED
      BY <2>2, <3>1, <3>2
  <2>. QED
    BY <2>1, <2>2
<1>10. A \cap F = {} /\ (A \cup F) \cap B = {} /\ (A \cup F \cup B) \cap C = {} /\ (A \cup F \cup B \cup C) \cap P = {}
  <2>1. \A d \in Desks : \A y \in Own(h, d) :
          \/ y.op = "call" /\ y.decision \in Ids(d)
          \/ y.op \in {"count", "render"} /\ y.desk = d
          \/ h = "cli" /\ (y = Connect(d) \/ y = Publish({d}))
    BY Fields DEF Own, CallsFor, Calls
  <2>2. \A id : ~ (id \in Ids("fx") /\ id \in Ids("battery"))
    BY DeskOf
  <2>3. \A y \in F : y \notin B
    <3>. SUFFICES ASSUME NEW y, y \in F, y \in B PROVE FALSE
      OBVIOUS
    <3>1. \/ y.op = "call" /\ y.decision \in Ids("fx")
          \/ y.op \in {"count", "render"} /\ y.desk = "fx"
          \/ h = "cli" /\ (y = Connect("fx") \/ y = Publish({"fx"}))
      BY <1>2, <2>1
    <3>2. \/ y.op = "call" /\ y.decision \in Ids("battery")
          \/ y.op \in {"count", "render"} /\ y.desk = "battery"
          \/ h = "cli" /\ (y = Connect("battery") \/ y = Publish({"battery"}))
      BY <1>2, <2>1
    <3>3. "fx" # "battery" /\ {"fx"} # {"battery"}
      OBVIOUS
    <3>. QED
      BY <2>2, <3>1, <3>2, <3>3, Fields
  <2>4. \A y \in F \cup B : y.op \in {"call", "count", "render"} \/ (h = "cli" /\ (y.op = "publish" \/ y = Connect("fx") \/ y = Connect("battery")))
    BY <1>2, <2>1, Fields
  <2>5. /\ \A y \in A : h = "server" /\ y.op = "connect"
        /\ \A y \in P : h = "server" /\ y.op = "publish"
        /\ \A y \in C : y.op = "comply" \/ (h = "cli" /\ y = Connect("all"))
    BY Fields
  <2>6. Connect("all") # Connect("fx") /\ Connect("all") # Connect("battery") /\ Connect("all").op = "connect"
    BY Fields
  <2>. HIDE DEF A, F, B, C, P
  <2>7. A \cap F = {} /\ A \cap B = {} /\ F \cap P = {} /\ B \cap P = {} /\ A \cap P = {} /\ C \cap P = {} /\ A \cap C = {}
    BY <2>4, <2>5, Fields
  <2>8. F \cap C = {} /\ B \cap C = {}
    BY <2>4, <2>5, <2>6, Fields
  <2>. QED
    BY <2>3, <2>7, <2>8
<1>11. Part(u, A \cup F, h, size) /\ Joined(u, a, f)
  <2>. HIDE DEF a, f, A, F
  <2>. QED
    BY <1>4, <1>6, <1>10, PartJoin
<1>12. Part(v, A \cup F \cup B, h, size) /\ Joined(v, u, b)
  <2>. HIDE DEF u, b, A, F, B
  <2>. QED
    BY <1>7, <1>10, <1>11, PartJoin
<1>13. Part(x, A \cup F \cup B \cup C, h, size) /\ Joined(x, v, c)
  <2>. HIDE DEF v, c, A, F, B, C
  <2>. QED
    BY <1>9, <1>10, <1>12, PartJoin
<1>14. Part(t, A \cup F \cup B \cup C \cup P, h, size) /\ Joined(t, x, p)
  <2>. HIDE DEF x, p, A, F, B, C, P
  <2>. QED
    BY <1>5, <1>10, <1>13, PartJoin
<1>15. \A d \in desks : \E r \in DOMAIN x : x[r] = Render(d)
  <2>1. "fx" \in desks => \E r \in DOMAIN u : u[r] = Render("fx")
    <3>. HIDE DEF a, f, u
    <3>. QED
      BY <1>6, <1>11, KeptByJoin
  <2>2. \A d \in desks : \E r \in DOMAIN v : v[r] = Render(d)
    <3>. HIDE DEF u, v, b
    <3>1. "fx" \in desks => \E r \in DOMAIN v : v[r] = Render("fx")
      BY <1>12, <2>1, KeptByJoin
    <3>2. "battery" \in desks => \E r \in DOMAIN v : v[r] = Render("battery")
      BY <1>7, <1>12, KeptByJoin
    <3>. QED
      BY <1>2, <3>1, <3>2
  <2>. HIDE DEF v, x
  <2>. QED
    BY <1>13, <2>2 DEF Joined
<1>16. Backed(<<>>, t)
  <2>1. Backed(x, p)
    <3>1. \A i \in DOMAIN p : \A ds : p[i] = Publish(ds) => ds = desks
      BY <1>5, Fields
    <3>. HIDE DEF x, p
    <3>. QED
      BY <1>15, <3>1 DEF Backed
  <2>. HIDE DEF a, f, b, c, p
  <2>2. Backed(<<>>, u)
    <3>. HIDE DEF u
    <3>. QED
      BY <1>4, <1>6, <1>11, BackedMore, BackedJoin
  <2>3. Backed(<<>>, v)
    <3>. HIDE DEF u, v
    <3>. QED
      BY <1>7, <1>12, <2>2, BackedMore, BackedJoin
  <2>4. Backed(<<>>, x)
    <3>. HIDE DEF v, x
    <3>. QED
      BY <1>9, <1>13, <2>3, BackedJoin
  <2>. HIDE DEF x, t
  <2>. QED
    BY <1>14, <2>1, <2>4, BackedJoin
<1>17. Begins(t) /\ (h = "server" => t[1] = Connect("run"))
  <2>1. h = "server" => 1 \in DOMAIN a /\ a[1] = Connect("run")
    BY <1>4 DEF Begins
  <2>2. (h = "server" \/ "fx" \in desks => Begins(u)) /\ (h = "server" => u[1] = Connect("run"))
    <3>1. h = "server" => Begins(a) /\ 1 \in 1 .. Len(a)
      BY <1>4
    <3>2. h = "cli" => Len(a) = 0
      BY <1>4
    <3>. HIDE DEF a, f, u
    <3>. QED
      BY <1>6, <1>11, <2>1, <3>1, <3>2, BeginsJoin DEF Joined
  <2>3. Begins(v) /\ (h = "server" => v[1] = Connect("run"))
    <3>1. h = "cli" /\ "fx" \notin desks => Len(u) = 0
      <4>1. h = "cli" => Len(a) = 0
        BY <1>4
      <4>2. "fx" \notin desks => Len(f) = 0
        BY <1>6
      <4>. HIDE DEF u, a, f
      <4>. QED
        BY <1>11, <4>1, <4>2 DEF Joined
    <3>. HIDE DEF u, v, b
    <3>2. Begins(v)
      BY <1>2, <1>7, <1>12, <2>2, <3>1, BeginsJoin
    <3>3. h = "server" => v[1] = u[1]
      BY <1>12, <2>2 DEF Begins, Joined
    <3>. QED
      BY <2>2, <3>2, <3>3
  <2>4. Begins(x) /\ (h = "server" => x[1] = Connect("run"))
    <3>. HIDE DEF v, x, c
    <3>. QED
      BY <1>13, <2>3, BeginsJoin DEF Begins, Joined
  <2>. HIDE DEF x, t, p
  <2>. QED
    BY <1>14, <2>4, BeginsJoin DEF Begins, Joined
<1>18. h = "server" => \A i \in DOMAIN t : t[i].op = "connect" => i = 1
  <2>. SUFFICES ASSUME h = "server", NEW i \in DOMAIN t, t[i].op = "connect" PROVE i = 1
    OBVIOUS
  <2>1. t[i] = Connect("run")
    <3>1. t \in Seq((A \cup F \cup B \cup C \cup P) \cup {Explain}) /\ DOMAIN t = 1 .. Len(t)
      <4>. HIDE DEF t, x, p, A, F, B, C, P
      <4>1. DOMAIN t = 1 .. Len(t)
        BY <1>14 DEF Joined
      <4>. QED
        BY <1>14, <4>1 DEF Part
    <3>2. t[i] \in (A \cup F \cup B \cup C \cup P) \cup {Explain}
      <4>. HIDE DEF t, A, F, B, C, P
      <4>. QED
        BY <3>1, ElementOfSeq
    <3>3. /\ \A y \in F \cup B : y.op # "connect"
          /\ \A y \in C \cup P \cup {Explain} : y.op # "connect"
      <4>1. h # "cli"
        OBVIOUS
      <4>. QED
        BY <4>1, Fields DEF Own, CallsFor, Calls
    <3>4. \A y \in A : y = Connect("run")
      OBVIOUS
    <3>. HIDE DEF t, A, F, B, C, P
    <3>. QED
      BY <3>2, <3>3, <3>4
  <2>2. Once(t) /\ 1 \in DOMAIN t /\ t[1] = Connect("run") /\ Connect("run") # Explain
    <3>1. Connect("run") # Explain
      BY Fields
    <3>. HIDE DEF t
    <3>. QED
      BY <1>14, <1>17, <3>1 DEF Part, Begins
  <2>. HIDE DEF t
  <2>. QED
    BY <2>1, <2>2 DEF Once
<1>19. t \in Seq(Step)
  <2>. DEFINE O == A \cup F \cup B \cup C \cup P
  <2>1. t \in Seq(O \cup {Explain}) /\ O \cup {Explain} \subseteq Step
    <3>. HIDE DEF t, A, F, B, C, P
    <3>. QED
      BY <1>14, StepForms DEF Part
  <2>. HIDE DEF t, O
  <2>. QED
    BY <2>1, SeqMonotonic
<1>. HIDE DEF t
<1>. QED
  BY <1>1, <1>14, <1>16, <1>17, <1>18, <1>19 DEF Part, Text

-----------------------------------------------------------------------------
(* The invariant of the desk run *)

\* What a run may start with.
Scripts(h, size) ==
  {Script(h, desks, size, w) : desks \in {{"fx"}, {"battery"}, Desks}, w \in [Desks -> 0 .. 2]}

Entries == [run : Nat, decision : {NoDecision} \cup Ids("fx") \cup Ids("battery"), stage : StageNames]

\* The steps that the calls of a log were.
Asked(calls) == [p \in DOMAIN calls |-> Call(calls[p].decision, calls[p].stage)]

\* A log is of one run, and as ordered as a script.
LogGood(log) ==
  /\ \A p \in DOMAIN log.calls : log.calls[p].run = log.run
  /\ Chained(Asked(log.calls)) /\ Once(Asked(log.calls))

\* Every stage of n decisions of a desk was called.
Complete(calls, d, n) ==
  \A m \in 1 .. n : \A j \in 1 .. Len(Stages(d)) :
    \E p \in DOMAIN calls : Asked(calls)[p] = Call(<<d, m>>, Stages(d)[j])

\* What is true of a rendered report and the log beside it.
ReportGood(h, r, d, log) ==
  /\ r.run \in Nat /\ r.calls \in Nat /\ r.size \in Nat /\ r.total = r.calls + 2
  /\ r.run <= log.run
  /\ r.run = log.run => r.total <= Len(log.calls) /\ Complete(log.calls, d, r.size)
  /\ h = "cli" => r.calls = Len(Stages(d)) * r.size /\ r.decisions = r.size

\* The log that desk d writes to.
LogName(h, d) == IF h = "cli" THEN d ELSE "run"

\* The log opened at step c of t holds the calls of the steps behind it, up to step k.
Follows(calls, t, c, k) ==
  /\ \A p \in DOMAIN calls : \E i \in c + 1 .. k : t[i] = Asked(calls)[p]
  /\ \A i \in c + 1 .. k : t[i].op = "call" => \E p \in DOMAIN calls : Asked(calls)[p] = t[i]
  /\ k > c /\ t[k].op = "call" => Len(calls) > 0 /\ Asked(calls)[Len(calls)] = t[k]
  /\ (\A i \in c + 1 .. k : t[i].op = "call") => Len(calls) = k - c

\* Of k steps of t, c is the last to open a log.
LastOpened(t, c, k) == c \in 1 .. k /\ t[c].op = "connect" /\ \A i \in c + 1 .. k : t[i].op # "connect"

\* The log written to is the one opened last, and holds the calls made since.
OpenGood(t, k) ==
  k > 0 => \E c \in 1 .. k : /\ LastOpened(t, c, k) /\ t[c] = Connect(open) /\ logs[open].run = run
                             /\ Follows(logs[open].calls, t, c, k)

\* The report of d that was begun q steps from the start, after k steps.
DraftGood(k, q, d) ==
  /\ drafts[d].run = run /\ LogOf(d).run = run /\ drafts[d].calls \in Nat
  /\ k <= q + 2 => open = LogName(host, d) /\ drafts[d].calls + (k - q) = Len(LogOf(d).calls)
  /\ host = "cli" => drafts[d].calls = Len(Stages(d)) * sized[d]
  /\ k >= q + 3 => ReportGood(host, drafts[d], d, LogOf(d))

\* What k steps of t have led to.
After(t, k) ==
  /\ OpenGood(t, k)
  /\ \A d \in Desks : \A q \in 1 .. k : t[q] = Count(d) => DraftGood(k, q, d)
  /\ \A d \in Desks : reports[d].run = run => \E c \in 1 .. k : t[c] = Connect(LogName(host, d))

RunTypes ==
  /\ host \in {"cli", "server"} /\ run \in Nat /\ sized \in [Desks -> Nat] /\ open \in LogNames
  /\ logs \in [LogNames -> [run : Nat, calls : Seq(Entries)]]
  /\ DOMAIN drafts = Desks /\ DOMAIN reports = Desks

\* Every log, and every report with the log beside it.
RecordsGood ==
  /\ \A name \in LogNames : logs[name].run <= run /\ LogGood(logs[name])
  /\ \A d \in Desks : /\ reports[d].run \in Nat /\ reports[d].run <= LogOf(d).run
                      /\ reports[d].run > 0 => ReportGood(host, reports[d], d, LogOf(d))

\* The steps left are those of t behind the first k.
Left(t, k) == k \in 0 .. Len(t) - 1 /\ script = [i \in 1 .. Len(t) - k |-> t[k + i]]

ScriptInv ==
  /\ RunTypes /\ RecordsGood
  /\ script # <<>> => \E t \in Scripts(host, sized) : \E k \in 0 .. Len(t) - 1 : Left(t, k) /\ After(t, k)

-----------------------------------------------------------------------------
(* What the invariant uses of a text *)

\* Whatever a run starts with is a text.
LEMMA ScriptsAreTexts ==
  ASSUME NEW h \in {"cli", "server"}, NEW size \in [Desks -> Nat], NEW t \in Scripts(h, size)
  PROVE  Text(t, h, size)
<1>. PICK desks \in {{"fx"}, {"battery"}, Desks}, w \in [Desks -> 0 .. 2] : t = Script(h, desks, size, w)
  BY DEF Scripts
<1>1. w \in [Desks -> Nat]
  OBVIOUS
<1>. QED
  BY <1>1, ScriptIsText

\* A text is a sequence of steps, the first of which opens a log.
LEMMA TextFacts ==
  ASSUME NEW h, NEW size, NEW t, Text(t, h, size)
  PROVE  /\ Len(t) \in Nat /\ Len(t) > 0 /\ DOMAIN t = 1 .. Len(t) /\ t[1].op = "connect"
         /\ \A i \in 1 .. Len(t) : t[i] \in Step
<1>1. t \in Seq(Step) /\ Begins(t)
  BY DEF Text
<1>2. Len(t) \in Nat /\ DOMAIN t = 1 .. Len(t) /\ \A i \in 1 .. Len(t) : t[i] \in Step
  BY <1>1, LenProperties, ElementOfSeq
<1>. QED
  BY <1>1, <1>2 DEF Begins

\* A step is what its op says.
LEMMA StepIs ==
  ASSUME NEW x \in Step
  PROVE  /\ x.op = "connect" => x.log \in LogNames /\ x = Connect(x.log)
         /\ x.op = "call" => x \in Calls /\ x = Call(x.decision, x.stage)
         /\ x.op = "count" => x.desk \in Desks /\ x = Count(x.desk)
         /\ x.op = "render" => x.desk \in Desks /\ x = Render(x.desk)
         /\ x.op = "publish" => x.desks \in SUBSET Desks /\ x = Publish(x.desks)
BY DEF Step, Calls, Connect, Call, Count, Render, Publish, Comply

\* In the text of a run no step but the question of a summary comes twice.
LEMMA OnlyOnce ==
  ASSUME NEW h, NEW size, NEW t, Text(t, h, size), NEW i \in 1 .. Len(t), NEW j \in 1 .. Len(t),
         t[i] = t[j], t[i] # Explain
  PROVE  i = j
BY TextFacts DEF Text, Once

\* The log of desk d is opened at step c of t, and its session follows up to the count at q.
SessionLogged(t, h, size, d, c, q) ==
  /\ t[c] = Connect(LogName(h, d)) /\ \A i \in c + 1 .. q + 3 : t[i].op # "connect"
  /\ \A m \in 1 .. size[d] : \A j \in 1 .. Len(Stages(d)) :
       \E i \in c + 1 .. q - 1 : t[i] = Call(<<d, m>>, Stages(d)[j])
  /\ h = "cli" => /\ q - c - 1 = Len(Stages(d)) * size[d]
                  /\ \A i \in c + 1 .. q - 1 :
                       t[i].op = "call" /\ \E m \in 1 .. size[d] : t[i].decision = <<d, m>>

\* Before a count, the log of the desk is opened, and the session is in it.
LEMMA CountIsLogged ==
  ASSUME NEW h \in {"cli", "server"}, NEW size \in [Desks -> Nat], NEW t, Text(t, h, size),
         NEW q \in 1 .. Len(t), NEW d \in Desks, t[q] = Count(d)
  PROVE  /\ q + 3 \in 1 .. Len(t) /\ t[q + 1] = Explain /\ t[q + 2] = Explain /\ t[q + 3] = Render(d)
         /\ \E c \in 1 .. q - 1 : SessionLogged(t, h, size, d, c, q)
<1>1. DOMAIN t = 1 .. Len(t) /\ Len(t) \in Nat /\ Reported(t, h, size)
  BY TextFacts DEF Text
<1>2. q + 3 \in 1 .. Len(t) /\ t[q + 1] = Explain /\ t[q + 2] = Explain /\ t[q + 3] = Render(d)
  BY <1>1 DEF Reported
<1>3. PICK c \in 0 .. q - 1 : /\ h = "cli" => c \in DOMAIN t /\ t[c] = Connect(d)
                              /\ Behind(t, d, size[d], c, q)
  BY <1>1 DEF Reported
<1>4. t[q].op # "connect" /\ t[q + 1].op # "connect" /\ t[q + 2].op # "connect" /\ t[q + 3].op # "connect"
  BY <1>2, Fields
<1>5. CASE h = "cli"
  <2>1. c \in 1 .. q - 1 /\ t[c] = Connect(LogName(h, d))
    BY <1>1, <1>3, <1>5 DEF LogName
  <2>2. \A i \in c + 1 .. q - 1 : t[i].op = "call" /\ \E m \in 1 .. size[d] : t[i].decision = <<d, m>>
    BY <1>3 DEF Behind
  <2>3. \A i \in c + 1 .. q + 3 : t[i].op # "connect"
    <3>. TAKE i \in c + 1 .. q + 3
    <3>1. i \in c + 1 .. q - 1 \/ i = q \/ i = q + 1 \/ i = q + 2 \/ i = q + 3
      OBVIOUS
    <3>. QED
      BY <1>4, <2>2, <3>1
  <2>. QED
    BY <1>2, <1>3, <2>1, <2>2, <2>3 DEF Behind, SessionLogged
<1>6. CASE h = "server"
  <2>1. t[1] = Connect("run") /\ \A i \in 1 .. Len(t) : t[i].op = "connect" => i = 1
    BY <1>1, <1>6 DEF Text
  <2>2. q # 1
    BY <2>1, Fields
  <2>3. 1 \in 1 .. q - 1 /\ t[1] = Connect(LogName(h, d)) /\ \A i \in 1 + 1 .. q + 3 : t[i].op # "connect"
    BY <1>2, <1>6, <2>1, <2>2 DEF LogName
  <2>4. ASSUME NEW m \in 1 .. size[d], NEW j \in 1 .. Len(Stages(d))
        PROVE  \E i \in 1 + 1 .. q - 1 : t[i] = Call(<<d, m>>, Stages(d)[j])
    <3>1. PICK i \in c + 1 .. q - 1 : t[i] = Call(<<d, m>>, Stages(d)[j])
      BY <1>3 DEF Behind
    <3>2. i # 1
      BY <2>1, <3>1, Fields
    <3>. QED
      BY <3>1, <3>2
  <2>5. h # "cli"
    BY <1>6
  <2>. QED
    BY <1>2, <2>3, <2>4, <2>5 DEF SessionLogged
<1>. QED
  BY <1>5, <1>6

\* A step that neither asks for a summary nor renders comes before a report is begun
\* or after it is rendered.
LEMMA NotInReport ==
  ASSUME NEW h \in {"cli", "server"}, NEW size \in [Desks -> Nat], NEW t, Text(t, h, size),
         NEW k \in Nat, k + 1 \in 1 .. Len(t), t[k + 1] # Explain,
         NEW d \in Desks, t[k + 1] # Render(d), NEW q \in 1 .. k, t[q] = Count(d)
  PROVE  k >= q + 3
<1>1. q \in 1 .. Len(t) /\ Len(t) \in Nat
  BY TextFacts
<1>2. t[q + 1] = Explain /\ t[q + 2] = Explain /\ t[q + 3] = Render(d)
  BY <1>1, CountIsLogged
<1>3. k + 1 # q + 1 /\ k + 1 # q + 2 /\ k + 1 # q + 3
  BY <1>2
<1>. QED
  BY <1>3

-----------------------------------------------------------------------------
(* The log and the text *)

\* One call more.
LEMMA AskedMore ==
  ASSUME NEW calls \in Seq(Entries), NEW e \in Entries
  PROVE  /\ Append(calls, e) \in Seq(Entries) /\ Len(calls) \in Nat
         /\ Len(Append(calls, e)) = Len(calls) + 1
         /\ DOMAIN calls = 1 .. Len(calls) /\ DOMAIN Append(calls, e) = 1 .. Len(calls) + 1
         /\ DOMAIN Asked(calls) = 1 .. Len(calls)
         /\ DOMAIN Asked(Append(calls, e)) = 1 .. Len(calls) + 1
         /\ \A p \in 1 .. Len(calls) : /\ Append(calls, e)[p] = calls[p]
                                       /\ Asked(Append(calls, e))[p] = Asked(calls)[p]
         /\ Append(calls, e)[Len(calls) + 1] = e
         /\ Asked(Append(calls, e))[Len(calls) + 1] = Call(e.decision, e.stage)
<1>. DEFINE more == Append(calls, e)
            n == Len(calls)
<1>1. /\ more \in Seq(Entries) /\ Len(more) = n + 1
      /\ \A p \in 1 .. n : more[p] = calls[p]
      /\ more[n + 1] = e
  BY AppendProperties
<1>2. n \in Nat /\ DOMAIN calls = 1 .. n
  BY LenProperties
<1>. HIDE DEF more
<1>3. DOMAIN more = 1 .. n + 1
  BY <1>1, LenProperties
<1>. HIDE DEF n
<1>4. \A p \in 1 .. n : p \in 1 .. n + 1
  BY <1>2
<1>5. n + 1 \in 1 .. n + 1
  BY <1>2
<1>6. DOMAIN Asked(more) = 1 .. n + 1 /\ DOMAIN Asked(calls) = 1 .. n
  BY <1>2, <1>3 DEF Asked
<1>7. \A p \in 1 .. n : Asked(more)[p] = Asked(calls)[p]
  BY <1>1, <1>2, <1>3, <1>4 DEF Asked
<1>8. Asked(more)[n + 1] = Call(e.decision, e.stage)
  BY <1>1, <1>3, <1>5 DEF Asked
<1>. QED
  BY <1>1, <1>2, <1>3, <1>6, <1>7, <1>8 DEF more, n

\* An empty log is good.
LEMMA EmptyLog ==
  ASSUME NEW log, log.calls = <<>>
  PROVE  LogGood(log)
<1>1. DOMAIN log.calls = {} /\ DOMAIN Asked(log.calls) = {}
  BY DEF Asked
<1>. QED
  BY <1>1 DEF LogGood, Chained, Once

\* What was true of a report stays true when its log grows or gives way to a later run's.
LEMMA ReportKept ==
  ASSUME NEW h, NEW r, NEW d, NEW log, ReportGood(h, r, d, log), NEW next,
         log.run \in Nat, next.run \in Nat,
         \/ /\ next.run = log.run /\ Len(log.calls) \in Nat /\ Len(next.calls) \in Nat
            /\ Len(log.calls) <= Len(next.calls)
            /\ \A p \in DOMAIN log.calls : p \in DOMAIN next.calls /\ Asked(next.calls)[p] = Asked(log.calls)[p]
         \/ r.run < next.run
  PROVE  ReportGood(h, r, d, next)
<1>1. CASE r.run < next.run
  BY <1>1 DEF ReportGood
<1>2. CASE /\ next.run = log.run /\ Len(log.calls) \in Nat /\ Len(next.calls) \in Nat
           /\ Len(log.calls) <= Len(next.calls)
           /\ \A p \in DOMAIN log.calls : p \in DOMAIN next.calls /\ Asked(next.calls)[p] = Asked(log.calls)[p]
  <2>1. \A n : Complete(log.calls, d, n) => Complete(next.calls, d, n)
    <3>. TAKE n
    <3>. SUFFICES ASSUME Complete(log.calls, d, n), NEW m \in 1 .. n, NEW j \in 1 .. Len(Stages(d))
                  PROVE  \E p \in DOMAIN next.calls : Asked(next.calls)[p] = Call(<<d, m>>, Stages(d)[j])
      BY DEF Complete
    <3>1. PICK p \in DOMAIN log.calls : Asked(log.calls)[p] = Call(<<d, m>>, Stages(d)[j])
      BY DEF Complete
    <3>. QED
      BY <1>2, <3>1
  <2>2. r.run = log.run => r.total <= Len(next.calls)
    BY <1>2 DEF ReportGood
  <2>. QED
    BY <1>2, <2>1, <2>2 DEF ReportGood
<1>. QED
  BY <1>1, <1>2

\* The call that is the next step of the text keeps the log as ordered as the text.
LEMMA LogKept ==
  ASSUME NEW h, NEW size, NEW t, Text(t, h, size), NEW k \in Nat, k + 1 \in 1 .. Len(t), t[k + 1].op = "call",
         NEW c \in 1 .. k, LastOpened(t, c, k),
         NEW log, log.calls \in Seq(Entries), LogGood(log), Follows(log.calls, t, c, k),
         NEW e \in Entries, e.run = log.run, Call(e.decision, e.stage) = t[k + 1],
         NEW next, next.run = log.run, next.calls = Append(log.calls, e)
  PROVE  LogGood(next) /\ LastOpened(t, c, k + 1) /\ Follows(next.calls, t, c, k + 1)
<1>. DEFINE n == Len(log.calls)
            a == Asked(log.calls)
            b == Asked(next.calls)
            x == t[k + 1]
<1>1. /\ n \in Nat /\ Len(next.calls) = n + 1 /\ DOMAIN log.calls = 1 .. n /\ DOMAIN next.calls = 1 .. n + 1
      /\ DOMAIN a = 1 .. n /\ DOMAIN b = 1 .. n + 1
      /\ \A p \in 1 .. n : next.calls[p] = log.calls[p] /\ b[p] = a[p]
      /\ next.calls[n + 1] = e /\ b[n + 1] = x
  BY AskedMore
<1>2. DOMAIN t = 1 .. Len(t) /\ Len(t) \in Nat /\ Chained(t) /\ Once(t) /\ c \in Int
  BY TextFacts DEF Text
<1>3. LastOpened(t, c, k + 1)
  BY DEF LastOpened
<1>. HIDE DEF n, a, b, x
<1>4. /\ \A p \in 1 .. n : \E i \in c + 1 .. k : t[i] = a[p]
      /\ \A i \in c + 1 .. k : t[i].op = "call" => \E p \in 1 .. n : a[p] = t[i]
      /\ k > c /\ t[k].op = "call" => n > 0 /\ a[n] = t[k]
      /\ (\A i \in c + 1 .. k : t[i].op = "call") => n = k - c
  BY <1>1 DEF Follows, n, a
<1>5. \A p \in DOMAIN next.calls : next.calls[p].run = next.run
  BY <1>1 DEF LogGood
<1>6. Once(b)
  <2>. SUFFICES ASSUME NEW p \in 1 .. n + 1, NEW q \in 1 .. n + 1, b[p] = b[q], b[p] # Explain PROVE p = q
    BY <1>1 DEF Once
  <2>1. \A m \in 1 .. n : a[m] # Explain => a[m] # x
    <3>. SUFFICES ASSUME NEW m \in 1 .. n, a[m] # Explain, a[m] = x PROVE FALSE
      OBVIOUS
    <3>1. PICK i \in c + 1 .. k : t[i] = a[m]
      BY <1>4
    <3>2. i \in DOMAIN t /\ k + 1 \in DOMAIN t /\ i # k + 1
      BY <1>2
    <3>. QED
      BY <1>2, <3>1, <3>2 DEF Once, x
  <2>2. CASE p \in 1 .. n /\ q \in 1 .. n
    BY <1>1, <2>2 DEF LogGood, Once, a
  <2>3. CASE p = n + 1 \/ q = n + 1
    <3>1. \A m \in 1 .. n + 1 : m = n + 1 \/ m \in 1 .. n
      BY <1>1
    <3>. QED
      BY <1>1, <2>1, <2>3, <3>1
  <2>. QED
    BY <1>1, <2>2, <2>3
<1>7. Chained(b)
  <2>. SUFFICES ASSUME NEW p \in 1 .. n + 1, NEW d \in Desks, NEW id \in Ids(d), NEW s \in StageNames, b[p] = Call(id, s)
                PROVE  Linked(b, p, d, id, s)
    BY <1>1 DEF Chained
  <2>1. CASE p \in 1 .. n
    <3>1. a[p] = Call(id, s) /\ p \in DOMAIN a
      BY <1>1, <2>1
    <3>2. Linked(a, p, d, id, s)
      BY <3>1 DEF LogGood, Chained, a
    <3>3. p > 1 => b[p - 1] = a[p - 1]
      BY <1>1, <2>1
    <3>. QED
      BY <3>2, <3>3 DEF Linked
  <2>2. CASE p = n + 1
    <3>1. t[k + 1] = Call(id, s) /\ k + 1 \in DOMAIN t
      BY <1>1, <1>2, <2>2 DEF x
    <3>2. Linked(t, k + 1, d, id, s)
      BY <1>2, <3>1 DEF Chained
    <3>3. PICK j \in 1 .. Len(Stages(d)) :
                 s = Stages(d)[j] /\ (j > 1 => k + 1 > 1 /\ t[(k + 1) - 1] = Call(id, Stages(d)[j - 1]))
      BY <3>2 DEF Linked
    <3>4. j > 1 => p > 1 /\ b[p - 1] = Call(id, Stages(d)[j - 1])
      <4>. SUFFICES ASSUME j > 1 PROVE p > 1 /\ b[p - 1] = Call(id, Stages(d)[j - 1])
        OBVIOUS
      <4>1. t[k] = Call(id, Stages(d)[j - 1])
        BY <3>3
      <4>2. t[k].op = "call" /\ t[c].op # "call"
        BY <4>1, Fields DEF LastOpened
      <4>3. k > c
        BY <4>2
      <4>4. n > 0 /\ a[n] = t[k]
        BY <1>4, <4>2, <4>3
      <4>. QED
        BY <1>1, <2>2, <4>1, <4>4
    <3>. QED
      BY <3>3, <3>4 DEF Linked
  <2>3. p \in 1 .. n \/ p = n + 1
    BY <1>1
  <2>. QED
    BY <2>1, <2>2, <2>3
<1>8. Follows(next.calls, t, c, k + 1)
  <2>1. \A p \in 1 .. n + 1 : \E i \in c + 1 .. k + 1 : t[i] = b[p]
    <3>. TAKE p \in 1 .. n + 1
    <3>1. CASE p \in 1 .. n
      <4>1. PICK i \in c + 1 .. k : t[i] = a[p]
        BY <1>4, <3>1
      <4>. QED
        BY <1>1, <3>1, <4>1
    <3>2. CASE p = n + 1
      <4>1. k + 1 \in c + 1 .. k + 1 /\ t[k + 1] = b[p]
        BY <1>1, <1>2, <3>2 DEF x
      <4>. QED
        BY <4>1
    <3>. QED
      BY <1>1, <3>1, <3>2
  <2>2. \A i \in c + 1 .. k + 1 : t[i].op = "call" => \E p \in 1 .. n + 1 : b[p] = t[i]
    <3>. SUFFICES ASSUME NEW i \in c + 1 .. k + 1, t[i].op = "call" PROVE \E p \in 1 .. n + 1 : b[p] = t[i]
      OBVIOUS
    <3>1. CASE i = k + 1
      BY <1>1, <3>1 DEF x
    <3>2. CASE i # k + 1
      <4>1. i \in c + 1 .. k
        BY <3>2
      <4>2. PICK p \in 1 .. n : a[p] = t[i]
        BY <1>4, <4>1
      <4>. QED
        BY <1>1, <4>2
    <3>. QED
      BY <3>1, <3>2
  <2>3. n + 1 > 0 /\ b[n + 1] = t[k + 1]
    BY <1>1 DEF x
  <2>4. (\A i \in c + 1 .. k + 1 : t[i].op = "call") => n + 1 = (k + 1) - c
    <3>. SUFFICES ASSUME \A i \in c + 1 .. k + 1 : t[i].op = "call" PROVE n + 1 = (k + 1) - c
      OBVIOUS
    <3>1. \A i \in c + 1 .. k : t[i].op = "call"
      OBVIOUS
    <3>2. n = k - c
      BY <1>4, <3>1
    <3>. QED
      BY <1>1, <1>2, <3>2
  <2>. QED
    BY <1>1, <2>1, <2>2, <2>3, <2>4 DEF Follows, b
<1>. QED
  BY <1>3, <1>5, <1>6, <1>7, <1>8 DEF LogGood, b

\* A step that makes no call and opens no log leaves the log behind the text.
LEMMA FollowsOn ==
  ASSUME NEW t, NEW k \in Nat, t[k + 1].op # "call", t[k + 1].op # "connect", NEW c \in 1 .. k,
         LastOpened(t, c, k), NEW calls, Follows(calls, t, c, k)
  PROVE  LastOpened(t, c, k + 1) /\ Follows(calls, t, c, k + 1)
<1>1. k + 1 \in c + 1 .. k + 1 /\ c + 1 .. k + 1 = (c + 1 .. k) \cup {k + 1}
  OBVIOUS
<1>2. LastOpened(t, c, k + 1)
  BY <1>1 DEF LastOpened
<1>3. ~ (\A i \in c + 1 .. k + 1 : t[i].op = "call")
  BY <1>1
<1>4. \A i \in c + 1 .. k + 1 : t[i].op = "call" => i \in c + 1 .. k
  BY <1>1
<1>. QED
  BY <1>1, <1>2, <1>3, <1>4 DEF Follows

-----------------------------------------------------------------------------
(* The steps of a run *)

\* The first of the steps left, and the others.
LEMMA NextStep ==
  ASSUME NEW t \in Seq(Step), NEW k \in 0 .. Len(t) - 1, NEW s, s = [i \in 1 .. Len(t) - k |-> t[k + i]]
  PROVE  /\ s # <<>> /\ Head(s) = t[k + 1]
         /\ Tail(s) = [i \in 1 .. Len(t) - (k + 1) |-> t[(k + 1) + i]]
         /\ k + 1 = Len(t) => Tail(s) = <<>>
<1>. DEFINE n == Len(t) - k
            r == [i \in 1 .. n - 1 |-> t[(k + 1) + i]]
<1>1. Len(t) \in Nat /\ n \in Nat /\ n > 0 /\ n - 1 = Len(t) - (k + 1) /\ n - 1 \in Nat
  BY LenProperties
<1>2. \A i \in 1 .. n : t[k + i] \in Step
  <2>1. \A i \in 1 .. n : k + i \in 1 .. Len(t)
    BY <1>1
  <2>. QED
    BY <2>1, ElementOfSeq
<1>3. \A i \in 1 .. n - 1 : t[(k + 1) + i] \in Step /\ (k + 1) + i = k + (i + 1) /\ i + 1 \in 1 .. n
  <2>1. \A i \in 1 .. n - 1 : (k + 1) + i \in 1 .. Len(t)
    BY <1>1
  <2>. QED
    BY <1>1, <2>1, ElementOfSeq
<1>4. s \in Seq(Step) /\ Len(s) = n
  <2>. DEFINE e(i) == t[k + i]
  <2>. HIDE DEF n
  <2>1. s = [i \in 1 .. n |-> e(i)]
    BY DEF n
  <2>2. \A i \in 1 .. n : e(i) \in Step
    BY <1>2
  <2>. HIDE DEF e
  <2>3. s \in Seq(Step)
    BY <1>1, <2>1, <2>2, IsASeq
  <2>. QED
    BY <1>1, <2>1, <2>3
<1>5. r \in Seq(Step) /\ Len(r) = n - 1
  <2>. DEFINE e(i) == t[(k + 1) + i]
              m == n - 1
  <2>1. m \in Nat /\ r = [i \in 1 .. m |-> e(i)]
    BY <1>1
  <2>2. \A i \in 1 .. m : e(i) \in Step
    BY <1>3
  <2>. HIDE DEF e, m, r
  <2>3. r \in Seq(Step)
    BY <2>1, <2>2, IsASeq
  <2>4. Len(r) = m
    BY <2>1
  <2>. QED
    BY <2>3, <2>4 DEF m
<1>6. s # <<>>
  <2>1. Len(s) # 0
    <3>. HIDE DEF n
    <3>. QED
      BY <1>1, <1>4
  <2>. QED
    BY <2>1, EmptySeq
<1>7. Head(s) = s[1] /\ s[1] = t[k + 1]
  <2>1. 1 \in 1 .. Len(t) - k
    BY <1>1
  <2>2. s[1] = t[k + 1]
    BY <2>1
  <2>3. Head(s) = s[1]
    BY <1>4, <1>6
  <2>. QED
    BY <2>2, <2>3
<1>8. /\ Tail(s) \in Seq(Step) /\ Len(Tail(s)) = n - 1
      /\ \A i \in 1 .. n - 1 : Tail(s)[i] = s[i + 1]
  <2>1. /\ Tail(s) \in Seq(Step) /\ Len(Tail(s)) = Len(s) - 1
        /\ \A i \in 1 .. Len(Tail(s)) : Tail(s)[i] = s[i + 1]
    BY <1>4, <1>6, HeadTailProperties
  <2>. HIDE DEF n
  <2>. QED
    BY <1>4, <2>1
<1>9. \A i \in 1 .. n - 1 : Tail(s)[i] = r[i]
  <2>. TAKE i \in 1 .. n - 1
  <2>1. s[i + 1] = t[k + (i + 1)] /\ r[i] = t[(k + 1) + i]
    BY <1>3
  <2>. QED
    BY <1>3, <1>8, <2>1
<1>. HIDE DEF r, n
<1>10. Tail(s) = r
  BY <1>5, <1>8, <1>9, SeqEqual
<1>11. k + 1 = Len(t) => Tail(s) = <<>>
  <2>1. k + 1 = Len(t) => Len(Tail(s)) = 0
    BY <1>1, <1>8
  <2>. QED
    BY <1>8, <2>1, EmptySeq
<1>. QED
  BY <1>1, <1>6, <1>7, <1>10, <1>11 DEF r

\* Opening a log keeps every log, and every report of another run's log or another log.
LEMMA OpenedKeeps ==
  ASSUME RunTypes, RecordsGood, NEW l \in LogNames, open' = l, logs' = [logs EXCEPT ![l] = Opened(l)],
         UNCHANGED <<host, run, sized, drafts, reports>>,
         \A d \in Desks : LogName(host, d) = l => reports[d].run # run
  PROVE  RunTypes' /\ RecordsGood'
<1>1. <<>> \in Seq(Entries)
  OBVIOUS
<1>2. RunTypes'
  BY <1>1 DEF RunTypes, Opened
<1>3. logs'[l] = [run |-> run, calls |-> <<>>] /\ \A name \in LogNames : name # l => logs'[name] = logs[name]
  BY DEF RunTypes, Opened
<1>4. logs'[l].run = run /\ logs'[l].calls = <<>>
  BY <1>3
<1>5. \A name \in LogNames : logs'[name].run <= run /\ LogGood(logs'[name])
  <2>1. LogGood(logs'[l]) /\ run <= run
    BY <1>4, EmptyLog DEF RunTypes
  <2>. QED
    BY <1>3, <1>4, <2>1 DEF RecordsGood
<1>6. \A d \in Desks : /\ LogName(host, d) \in LogNames /\ LogOf(d) = logs[LogName(host, d)]
                       /\ LogOf(d)' = logs'[LogName(host, d)]
  BY DEF LogOf, LogName, LogNames
<1>7. ASSUME NEW d \in Desks
      PROVE  /\ reports[d].run \in Nat /\ reports[d].run <= LogOf(d)'.run
             /\ reports[d].run > 0 => ReportGood(host, reports[d], d, LogOf(d)')
  <2>1. CASE LogName(host, d) # l
    BY <1>3, <1>6, <2>1 DEF RecordsGood
  <2>2. CASE LogName(host, d) = l
    <3>1. LogOf(d)' = logs'[l] /\ LogOf(d) = logs[l]
      BY <1>6, <2>2
    <3>2. reports[d].run \in Nat /\ reports[d].run <= logs[l].run /\ logs[l].run <= run /\ logs[l].run \in Nat /\ run \in Nat
      BY <3>1 DEF RecordsGood, RunTypes
    <3>3. reports[d].run < run
      BY <2>2, <3>2
    <3>4. reports[d].run > 0 => ReportGood(host, reports[d], d, logs[l])
      BY <3>1 DEF RecordsGood
    <3>5. reports[d].run > 0 => ReportGood(host, reports[d], d, logs'[l])
      BY <1>4, <3>2, <3>3, <3>4, ReportKept
    <3>. QED
      BY <1>4, <3>1, <3>2, <3>3, <3>5
  <2>. QED
    BY <2>1, <2>2
<1>8. RecordsGood'
  BY <1>5, <1>7 DEF RecordsGood
<1>. QED
  BY <1>2, <1>8

\* What the lemma of each step starts from: k steps of a text are taken.
Underway(t, k) ==
  /\ RunTypes /\ RecordsGood /\ Text(t, host, sized) /\ k \in Nat /\ k + 1 \in 1 .. Len(t)
  /\ After(t, k) /\ Head(script) = t[k + 1]

\* What the lemmas of the steps read off most: types, the log of a desk, and that no
\* step but the question of a summary was taken before.
LEMMA UnderwayFacts ==
  ASSUME NEW t, NEW k, Underway(t, k)
  PROVE  /\ host \in {"cli", "server"} /\ run \in Nat /\ sized \in [Desks -> Nat] /\ k \in Nat
         /\ Len(t) \in Nat /\ t[k + 1] \in Step /\ Head(script) = t[k + 1]
         /\ \A d \in Desks : LogName(host, d) \in LogNames /\ LogOf(d) = logs[LogName(host, d)]
         /\ \A i \in 1 .. k : i \in 1 .. Len(t) /\ i \in 1 .. k + 1 /\ i # k + 1
         /\ \A i \in 1 .. k : t[i] = t[k + 1] => t[k + 1] = Explain
<1>1. /\ host \in {"cli", "server"} /\ run \in Nat /\ sized \in [Desks -> Nat] /\ k \in Nat
      /\ Text(t, host, sized) /\ k + 1 \in 1 .. Len(t) /\ Head(script) = t[k + 1]
  BY DEF Underway, RunTypes
<1>2. Len(t) \in Nat /\ t[k + 1] \in Step
  BY <1>1, TextFacts
<1>3. \A d \in Desks : LogName(host, d) \in LogNames /\ LogOf(d) = logs[LogName(host, d)]
  BY DEF LogOf, LogName, LogNames
<1>4. \A i \in 1 .. k : i \in 1 .. Len(t) /\ i \in 1 .. k + 1 /\ i # k + 1
  BY <1>1, <1>2
<1>5. \A i \in 1 .. k : t[i] = t[k + 1] => t[k + 1] = Explain
  BY <1>1, <1>4, OnlyOnce
<1>. QED
  BY <1>1, <1>2, <1>3, <1>4, <1>5

\* The log a report stands beside was opened in the run before the report was begun.
LEMMA DraftsLog ==
  ASSUME NEW t, NEW k, Underway(t, k), NEW d \in Desks, NEW q \in 1 .. k, t[q] = Count(d)
  PROVE  \E c \in 1 .. k : t[c] = Connect(LogName(host, d))
<1>1. q \in 1 .. Len(t) /\ k \in Nat
  BY UnderwayFacts
<1>2. PICK c \in 1 .. q - 1 : t[c] = Connect(LogName(host, d))
  <2>1. host \in {"cli", "server"} /\ sized \in [Desks -> Nat] /\ Text(t, host, sized)
    BY DEF Underway, RunTypes
  <2>2. \E c \in 1 .. q - 1 : SessionLogged(t, host, sized, d, c, q)
    BY <1>1, <2>1, CountIsLogged
  <2>. QED
    BY <2>2 DEF SessionLogged
<1>. QED
  BY <1>1, <1>2

\* OpenLog: no report of this run stands beside the log it empties, for no log is opened
\* twice.
LEMMA OpenLogKeeps ==
  ASSUME NEW t, NEW k, Underway(t, k), OpenLog
  PROVE  RunTypes' /\ RecordsGood' /\ After(t, k + 1)'
<1>. DEFINE l == t[k + 1].log
<1>1. /\ t[k + 1] = Connect(l) /\ l \in LogNames /\ open' = l /\ logs' = [logs EXCEPT ![l] = Opened(l)]
      /\ UNCHANGED <<host, run, sized, drafts, reports>>
  BY UnderwayFacts, StepIs DEF OpenLog, Due
<1>. HIDE DEF l
<1>2. t[k + 1].op = "connect" /\ t[k + 1] # Explain /\ \A d : t[k + 1] # Count(d) /\ t[k + 1] # Render(d)
  BY <1>1, Fields
<1>3. \A d \in Desks : LogName(host, d) = l => ~ (\E c \in 1 .. k : t[c] = Connect(LogName(host, d)))
  BY <1>1, <1>2, UnderwayFacts
<1>4. RunTypes' /\ RecordsGood'
  <2>1. \A d \in Desks : LogName(host, d) = l => reports[d].run # run
    BY <1>3 DEF Underway, After
  <2>. QED
    BY <1>1, <2>1, OpenedKeeps DEF Underway
<1>5. logs'[l].run = run /\ logs'[l].calls = <<>> /\ \A name \in LogNames : name # l => logs'[name] = logs[name]
  BY <1>1 DEF Opened, Underway, RunTypes
<1>6. OpenGood(t, k + 1)'
  <2>1. k + 1 \in 1 .. k + 1 /\ (k + 1) + 1 .. k + 1 = {} /\ k \in Int
    BY UnderwayFacts
  <2>2. LastOpened(t, k + 1, k + 1)
    BY <1>2, <2>1 DEF LastOpened
  <2>3. Follows(logs'[l].calls, t, k + 1, k + 1)
    <3>1. DOMAIN logs'[l].calls = {} /\ Len(logs'[l].calls) = 0
      BY <1>5
    <3>. QED
      BY <2>1, <3>1 DEF Follows
  <2>. QED
    BY <1>1, <1>5, <2>1, <2>2, <2>3 DEF OpenGood
<1>7. ASSUME NEW d \in Desks, NEW q \in 1 .. k + 1, t[q] = Count(d)
      PROVE  DraftGood(k + 1, q, d)'
  <2>1. q \in 1 .. k /\ k \in Nat
    BY <1>2, <1>7, UnderwayFacts
  <2>2. DraftGood(k, q, d)
    BY <1>7, <2>1 DEF Underway, After
  <2>3. k >= q + 3
    BY <1>2, <1>7, <2>1, NotInReport DEF Underway, RunTypes
  <2>4. LogName(host, d) # l
    BY <1>3, <1>7, <2>1, DraftsLog
  <2>5. LogOf(d)' = LogOf(d)
    <3>1. LogOf(d)' = logs'[LogName(host, d)]
      BY <1>1 DEF LogOf, LogName
    <3>. QED
      BY <1>5, <2>4, <3>1, UnderwayFacts
  <2>. QED
    BY <1>1, <2>1, <2>2, <2>3, <2>5 DEF DraftGood
<1>8. \A d \in Desks : reports[d].run = run => \E c \in 1 .. k + 1 : t[c] = Connect(LogName(host, d))
  BY UnderwayFacts DEF Underway, After
<1>. QED
  BY <1>1, <1>4, <1>6, <1>7, <1>8 DEF After

\* MakeCall: the log grows by the step of the text.
LEMMA MakeCallKeeps ==
  ASSUME NEW t, NEW k, Underway(t, k), MakeCall
  PROVE  RunTypes' /\ RecordsGood' /\ After(t, k + 1)'
<1>. DEFINE x == t[k + 1]
            e == [run |-> run, decision |-> x.decision, stage |-> x.stage]
            more == Append(logs[open].calls, e)
<1>1. /\ x.op = "call" /\ logs' = [logs EXCEPT ![open].calls = more]
      /\ UNCHANGED <<host, run, sized, open, drafts, reports>>
  BY UnderwayFacts DEF MakeCall, Due
<1>2. x \in Calls /\ x = Call(x.decision, x.stage) /\ x.op # "connect" /\ \A d : x # Count(d) /\ x # Render(d)
  BY <1>1, UnderwayFacts, StepIs, Fields
<1>. HIDE DEF x
<1>3. e \in Entries /\ e.run = run /\ Call(e.decision, e.stage) = x
  BY <1>2, UnderwayFacts DEF Entries, Calls
<1>. HIDE DEF e
<1>4. /\ open \in LogNames /\ logs[open].calls \in Seq(Entries) /\ logs[open].run \in Nat /\ LogGood(logs[open])
      /\ \A name \in LogNames : logs[name].run \in Nat /\ logs[name].calls \in Seq(Entries)
  BY DEF Underway, RunTypes, RecordsGood
<1>5. more \in Seq(Entries)
  BY <1>3, <1>4, AskedMore
<1>. HIDE DEF more
<1>6. RunTypes'
  BY <1>1, <1>5 DEF Underway, RunTypes
<1>7. /\ logs'[open].run = logs[open].run /\ logs'[open].calls = more
      /\ \A name \in LogNames : name # open => logs'[name] = logs[name]
  BY <1>1 DEF Underway, RunTypes
<1>8. k > 0 /\ k \in Nat
  <2>1. k = 0 => k + 1 = 1
    OBVIOUS
  <2>2. t[1].op = "connect"
    BY TextFacts DEF Underway
  <2>. QED
    BY <1>2, <2>1, <2>2, UnderwayFacts DEF x
<1>9. PICK c \in 1 .. k : /\ LastOpened(t, c, k) /\ t[c] = Connect(open) /\ logs[open].run = run
                          /\ Follows(logs[open].calls, t, c, k)
  BY <1>8 DEF Underway, After, OpenGood
<1>10. LogGood(logs'[open]) /\ LastOpened(t, c, k + 1) /\ Follows(logs'[open].calls, t, c, k + 1)
  <2>1. Text(t, host, sized) /\ k + 1 \in 1 .. Len(t) /\ t[k + 1].op = "call" /\ Call(e.decision, e.stage) = t[k + 1]
    BY <1>1, <1>3 DEF Underway, x
  <2>2. e.run = logs[open].run /\ logs'[open].calls = Append(logs[open].calls, e)
    BY <1>3, <1>7, <1>9 DEF more
  <2>. QED
    BY <1>3, <1>4, <1>7, <1>8, <1>9, <2>1, <2>2, LogKept
<1>11. OpenGood(t, k + 1)'
  <2>1. c \in 1 .. k + 1
    BY <1>8
  <2>. QED
    BY <1>1, <1>7, <1>9, <1>10, <2>1 DEF OpenGood
<1>12. /\ Len(logs[open].calls) \in Nat /\ Len(more) = Len(logs[open].calls) + 1
       /\ \A p \in DOMAIN logs[open].calls : p \in DOMAIN more /\ Asked(more)[p] = Asked(logs[open].calls)[p]
  <2>. DEFINE s == logs[open].calls
              l == Append(s, e)
  <2>1. s \in Seq(Entries) /\ e \in Entries
    BY <1>3, <1>4
  <2>. HIDE DEF s
  <2>2. /\ Len(s) \in Nat /\ Len(l) = Len(s) + 1 /\ DOMAIN s = 1 .. Len(s) /\ DOMAIN l = 1 .. Len(s) + 1
        /\ \A p \in 1 .. Len(s) : Asked(l)[p] = Asked(s)[p]
    BY Zenon, <2>1, AskedMore
  <2>3. more = l
    BY DEF more, s
  <2>. HIDE DEF l
  <2>4. \A p \in DOMAIN s : p \in DOMAIN l /\ Asked(l)[p] = Asked(s)[p]
    BY <2>2
  <2>. QED
    BY Zenon, <2>2, <2>3, <2>4 DEF s
<1>13. \A d \in Desks : LogOf(d)' = logs'[LogName(host, d)]
  BY <1>1 DEF LogOf, LogName
<1>14. ASSUME NEW d \in Desks
       PROVE  /\ LogOf(d)'.run = LogOf(d).run
              /\ \A r : ReportGood(host, r, d, LogOf(d)) => ReportGood(host, r, d, LogOf(d)')
              /\ LogName(host, d) = open => Len(LogOf(d)'.calls) = Len(LogOf(d).calls) + 1 /\ Len(LogOf(d).calls) \in Nat
  <2>1. CASE LogName(host, d) = open
    <3>1. LogOf(d)' = logs'[open] /\ LogOf(d) = logs[open]
      BY <1>13, <2>1, UnderwayFacts
    <3>2. Len(logs'[open].calls) \in Nat /\ Len(logs[open].calls) <= Len(logs'[open].calls)
      BY <1>7, <1>12
    <3>3. \A r : ReportGood(host, r, d, logs[open]) => ReportGood(host, r, d, logs'[open])
      BY <1>4, <1>7, <1>12, <3>2, ReportKept
    <3>. QED
      BY <1>7, <1>12, <3>1, <3>3
  <2>2. CASE LogName(host, d) # open
    BY <1>7, <1>13, <2>2, UnderwayFacts
  <2>. QED
    BY <2>1, <2>2
<1>15. RecordsGood'
  <2>1. \A name \in LogNames : logs'[name].run <= run /\ LogGood(logs'[name])
    BY <1>7, <1>10 DEF Underway, RecordsGood
  <2>2. \A d \in Desks : /\ reports[d].run \in Nat /\ reports[d].run <= LogOf(d)'.run
                         /\ reports[d].run > 0 => ReportGood(host, reports[d], d, LogOf(d)')
    BY <1>14 DEF Underway, RecordsGood
  <2>. QED
    BY <1>1, <2>1, <2>2 DEF RecordsGood
<1>16. ASSUME NEW d \in Desks, NEW q \in 1 .. k + 1, t[q] = Count(d)
       PROVE  DraftGood(k + 1, q, d)'
  <2>1. q \in 1 .. k
    BY <1>2, <1>8, <1>16 DEF x
  <2>2. DraftGood(k, q, d)
    BY <1>16, <2>1 DEF Underway, After
  <2>3. k + 1 # q + 3
    <3>1. q \in 1 .. Len(t) /\ host \in {"cli", "server"} /\ sized \in [Desks -> Nat] /\ Text(t, host, sized)
      BY <2>1, UnderwayFacts DEF Underway
    <3>2. t[q + 3] = Render(d)
      BY <1>16, <3>1, CountIsLogged
    <3>. QED
      BY <1>2, <3>2 DEF x
  <2>4. CASE k >= q + 3
    BY <1>1, <1>8, <1>14, <2>1, <2>2, <2>4 DEF DraftGood
  <2>5. CASE k + 1 <= q + 2
    <3>1. open = LogName(host, d) /\ drafts[d].calls + (k - q) = Len(LogOf(d).calls) /\ drafts[d].calls \in Nat
      BY <1>8, <2>1, <2>2, <2>5 DEF DraftGood
    <3>2. Len(LogOf(d)'.calls) = Len(LogOf(d).calls) + 1
      BY <1>14, <3>1
    <3>3. drafts[d].calls + ((k + 1) - q) = Len(LogOf(d)'.calls)
      BY <1>8, <2>1, <3>1, <3>2
    <3>. QED
      BY <1>1, <1>8, <1>14, <2>1, <2>2, <2>5, <3>1, <3>3 DEF DraftGood
  <2>. QED
    BY <1>8, <2>1, <2>3, <2>4, <2>5
<1>17. \A d \in Desks : reports[d].run = run => \E i \in 1 .. k + 1 : t[i] = Connect(LogName(host, d))
  BY UnderwayFacts DEF Underway, After
<1>. QED
  BY <1>1, <1>6, <1>11, <1>15, <1>16, <1>17 DEF After

\* A step that writes to no log, and leaves the reports of the other desks alone.
LEMMA QuietStep ==
  ASSUME NEW t, NEW k, Underway(t, k), t[k + 1].op \notin {"call", "connect"},
         UNCHANGED <<host, run, sized, open, logs>>
  PROVE  /\ OpenGood(t, k + 1)'
         /\ \A d \in Desks : LogOf(d)' = LogOf(d)
         /\ \A d \in Desks : t[k + 1] # Render(d) =>
              \A q \in 1 .. k : t[q] = Count(d) /\ drafts'[d] = drafts[d] => DraftGood(k + 1, q, d)'
         /\ \A d \in Desks : (\E c \in 1 .. k : t[c] = Connect(LogName(host, d)))
                             => \E c \in 1 .. k + 1 : t[c] = Connect(LogName(host, d))
<1>1. k > 0 /\ k \in Nat
  <2>1. k = 0 => k + 1 = 1
    OBVIOUS
  <2>2. t[1].op = "connect"
    BY TextFacts DEF Underway
  <2>. QED
    BY <2>1, <2>2, UnderwayFacts
<1>2. OpenGood(t, k + 1)'
  <2>1. PICK c \in 1 .. k : /\ LastOpened(t, c, k) /\ t[c] = Connect(open) /\ logs[open].run = run
                            /\ Follows(logs[open].calls, t, c, k)
    BY <1>1 DEF Underway, After, OpenGood
  <2>2. LastOpened(t, c, k + 1) /\ Follows(logs[open].calls, t, c, k + 1) /\ c \in 1 .. k + 1
    BY <1>1, <2>1, FollowsOn
  <2>. QED
    BY <2>1, <2>2 DEF OpenGood
<1>3. \A d \in Desks : LogOf(d)' = LogOf(d)
  BY DEF LogOf
<1>4. ASSUME NEW d \in Desks, t[k + 1] # Render(d), NEW q \in 1 .. k, t[q] = Count(d), drafts'[d] = drafts[d]
      PROVE  DraftGood(k + 1, q, d)'
  <2>1. t[k + 1] # Explain
    BY Fields
  <2>2. k >= q + 3
    BY <1>1, <1>4, <2>1, NotInReport DEF Underway, RunTypes
  <2>3. DraftGood(k, q, d)
    BY <1>4 DEF Underway, After
  <2>. QED
    BY <1>1, <1>3, <1>4, <2>2, <2>3 DEF DraftGood
<1>. QED
  BY <1>1, <1>2, <1>3, <1>4

\* The log that desk d writes to, when its report is begun, is the open one.
LEMMA CountsOpenLog ==
  ASSUME NEW t, NEW k, Underway(t, k), NEW q \in k - 2 .. k + 1, q > 0, NEW d \in Desks, t[q] = Count(d)
  PROVE  \E c \in 1 .. k : /\ SessionLogged(t, host, sized, d, c, q) /\ LastOpened(t, c, k)
                           /\ open = LogName(host, d) /\ logs[open].run = run
                           /\ Follows(logs[open].calls, t, c, k)
<1>1. q \in 1 .. Len(t) /\ k \in Nat /\ host \in {"cli", "server"} /\ sized \in [Desks -> Nat] /\ Text(t, host, sized)
  BY UnderwayFacts DEF Underway
<1>2. PICK a \in 1 .. q - 1 : SessionLogged(t, host, sized, d, a, q)
  BY <1>1, CountIsLogged
<1>3. a \in 1 .. k /\ k > 0
  BY <1>1
<1>4. PICK c \in 1 .. k : /\ LastOpened(t, c, k) /\ t[c] = Connect(open) /\ logs[open].run = run
                          /\ Follows(logs[open].calls, t, c, k)
  BY <1>3 DEF Underway, After, OpenGood
<1>5. t[a] = Connect(LogName(host, d)) /\ \A i \in a + 1 .. q + 3 : t[i].op # "connect"
  BY <1>2 DEF SessionLogged
<1>6. a = c
  <2>1. ~ (a \in c + 1 .. k)
    BY <1>4, <1>5, Fields DEF LastOpened
  <2>2. ~ (c \in a + 1 .. q + 3)
    BY <1>4, <1>5, Fields
  <2>. QED
    BY <1>1, <1>3, <2>1, <2>2
<1>7. open = LogName(host, d)
  BY <1>4, <1>5, <1>6, Fields
<1>. QED
  BY <1>2, <1>4, <1>6, <1>7

\* Steps that touch neither a log nor a report keep what is true of both.
LEMMA RecordsSame ==
  ASSUME RunTypes, RecordsGood, UNCHANGED <<host, run, sized, open, logs, reports>>, DOMAIN drafts' = Desks
  PROVE  RunTypes' /\ RecordsGood'
<1>1. RunTypes'
  BY DEF RunTypes
<1>2. RecordsGood'
  BY DEF RecordsGood, LogOf
<1>. QED
  BY <1>1, <1>2

\* CountCalls: the log of the desk is the open one, and on the command line its session
\* is all that is in it.
LEMMA CountCallsKeeps ==
  ASSUME NEW t, NEW k, Underway(t, k), CountCalls
  PROVE  RunTypes' /\ RecordsGood' /\ After(t, k + 1)'
<1>. DEFINE x == t[k + 1]
            e == x.desk
            r == [run |-> run, calls |-> Len(logs[open].calls)]
<1>1. /\ x.op = "count" /\ drafts' = [drafts EXCEPT ![e] = r]
      /\ UNCHANGED <<host, run, sized, open, logs, reports>>
  BY UnderwayFacts DEF CountCalls, Due, Counted
<1>2. e \in Desks /\ x = Count(e) /\ x.op \notin {"call", "connect"} /\ x # Explain /\ \A d : x # Render(d)
  BY <1>1, UnderwayFacts, StepIs, Fields
<1>3. DOMAIN drafts = Desks
  BY DEF Underway, RunTypes
<1>. HIDE DEF x, e, r
<1>4. DOMAIN drafts' = Desks /\ drafts'[e] = r /\ \A d \in Desks : d # e => drafts'[d] = drafts[d]
  BY <1>1, <1>2, <1>3
<1>5. RunTypes' /\ RecordsGood'
  BY <1>1, <1>4, RecordsSame DEF Underway
<1>6. /\ OpenGood(t, k + 1)'
      /\ \A d \in Desks : LogOf(d)' = LogOf(d)
      /\ \A d \in Desks : \A q \in 1 .. k : t[q] = Count(d) /\ drafts'[d] = drafts[d] => DraftGood(k + 1, q, d)'
      /\ \A d \in Desks : (\E c \in 1 .. k : t[c] = Connect(LogName(host, d)))
                          => \E c \in 1 .. k + 1 : t[c] = Connect(LogName(host, d))
  BY <1>1, <1>2, QuietStep DEF x
<1>7. ASSUME NEW d \in Desks, NEW q \in 1 .. k + 1, t[q] = Count(d)
      PROVE  DraftGood(k + 1, q, d)'
  <2>0. k \in Nat /\ sized \in [Desks -> Nat]
    BY UnderwayFacts
  <2>1. CASE q # k + 1
    <3>1. q \in 1 .. k
      BY <2>0, <2>1
    <3>2. d # e
      <4>1. t[q] # x
        BY <1>2, <3>1, UnderwayFacts DEF x
      <4>. QED
        BY <1>2, <1>7, <4>1
    <3>. QED
      BY <1>4, <1>6, <1>7, <3>1, <3>2
  <2>2. CASE q = k + 1
    <3>1. d = e
      BY <1>2, <1>7, <2>2, Fields DEF x
    <3>2. PICK c \in 1 .. k : /\ SessionLogged(t, host, sized, d, c, q) /\ LastOpened(t, c, k)
                              /\ open = LogName(host, d) /\ logs[open].run = run
                              /\ Follows(logs[open].calls, t, c, k)
      <4>1. q \in k - 2 .. k + 1 /\ q > 0
        BY <2>0, <2>2
      <4>. QED
        BY <1>7, <4>1, CountsOpenLog
    <3>3. LogOf(d) = logs[open]
      BY <3>2, UnderwayFacts
    <3>4. Len(logs[open].calls) \in Nat
      <4>1. logs[open].calls \in Seq(Entries)
        BY DEF Underway, RunTypes
      <4>. QED
        BY <4>1, LenProperties
    <3>5. host = "cli" => Len(logs[open].calls) = Len(Stages(d)) * sized[d]
      <4>. SUFFICES ASSUME host = "cli" PROVE Len(logs[open].calls) = Len(Stages(d)) * sized[d]
        OBVIOUS
      <4>1. q - c - 1 = Len(Stages(d)) * sized[d] /\ \A i \in c + 1 .. q - 1 : t[i].op = "call"
        BY <3>2 DEF SessionLogged
      <4>2. \A i \in c + 1 .. k : t[i].op = "call"
        BY <2>0, <2>2, <4>1
      <4>3. Len(logs[open].calls) = k - c
        BY <3>2, <4>2 DEF Follows
      <4>4. q - c - 1 = k - c
        BY <2>0, <2>2
      <4>. QED
        BY <4>1, <4>3, <4>4
    <3>6. drafts'[d].run = run /\ drafts'[d].calls = Len(logs[open].calls)
      BY <1>4, <3>1 DEF r
    <3>7. ~ (k + 1 >= q + 3) /\ drafts'[d].calls + ((k + 1) - q) = Len(logs[open].calls)
      BY <2>0, <2>2, <3>4, <3>6
    <3>. QED
      BY <1>1, <1>6, <3>2, <3>3, <3>4, <3>5, <3>6, <3>7 DEF DraftGood
  <2>. QED
    BY <2>1, <2>2
<1>8. \A d \in Desks : reports[d].run = run => \E i \in 1 .. k + 1 : t[i] = Connect(LogName(host, d))
  BY <1>6 DEF Underway, After
<1>. QED
  BY <1>1, <1>5, <1>6, <1>7, <1>8 DEF After

\* On the command line a log holds the decisions of its session and no other when the
\* report is rendered.
LEMMA DecidedAre ==
  ASSUME NEW t, NEW size \in [Desks -> Nat], NEW d \in Desks, NEW c, NEW q \in Nat, c \in 1 .. q - 1,
         SessionLogged(t, "cli", size, d, c, q), t[q] = Count(d), t[q + 1] = Explain, t[q + 2] = Explain,
         NEW calls \in Seq(Entries), Follows(calls, t, c, q + 2)
  PROVE  Cardinality(Decided(calls)) = size[d]
<1>. DEFINE n == size[d]
            D == Decided(calls)
<1>1. n \in Nat /\ 1 \in 1 .. Len(Stages(d))
  <2>1. Len(Stages(d)) \in {2, 3}
    BY StagesAre
  <2>2. 1 \in 1 .. Len(Stages(d))
    <3>1. \A l \in {2, 3} : 1 \in 1 .. l
      OBVIOUS
    <3>. QED
      BY Zenon, <2>1, <3>1
  <2>3. n \in Nat
    OBVIOUS
  <2>. HIDE DEF n
  <2>. QED
    BY <2>2, <2>3
<1>2. \A p \in DOMAIN calls : /\ Asked(calls)[p] = Call(calls[p].decision, calls[p].stage)
                              /\ Asked(calls)[p].op = "call" /\ Asked(calls)[p].decision = calls[p].decision
  BY Fields DEF Asked
<1>3. ASSUME NEW p \in DOMAIN calls, calls[p].decision # NoDecision
      PROVE  \E m \in 1 .. n : calls[p].decision = <<d, m>>
  <2>1. PICK i \in c + 1 .. q + 2 : t[i] = Asked(calls)[p]
    BY DEF Follows
  <2>2. t[i].op = "call" /\ t[i].decision # NoDecision
    BY <1>2, <1>3, <2>1
  <2>3. i # q /\ i # q + 1 /\ i # q + 2
    BY <2>2, Fields
  <2>4. i \in c + 1 .. q - 1
    BY <2>3
  <2>5. \E m \in 1 .. n : t[i].decision = <<d, m>>
    BY <2>4 DEF SessionLogged
  <2>. QED
    BY <1>2, <2>1, <2>5
<1>4. ASSUME NEW m \in 1 .. n PROVE <<d, m>> \in D
  <2>1. PICK i \in c + 1 .. q - 1 : t[i] = Call(<<d, m>>, Stages(d)[1])
    BY <1>1 DEF SessionLogged
  <2>2. i \in c + 1 .. q + 2 /\ t[i].op = "call" /\ t[i].decision = <<d, m>>
    BY <2>1, Fields
  <2>3. PICK p \in DOMAIN calls : Asked(calls)[p] = t[i]
    BY <2>2 DEF Follows
  <2>4. calls[p].decision = <<d, m>> /\ <<d, m>> # NoDecision
    BY <1>2, <2>2, <2>3, IdParts
  <2>. QED
    BY <2>4 DEF Decided
<1>5. D = {<<d, m>> : m \in 1 .. n}
  BY <1>3, <1>4 DEF Decided
<1>. DEFINE f == [m \in 1 .. n |-> <<d, m>>]
<1>6. f \in Bijection(1 .. n, D)
  <2>1. \A m, k \in 1 .. n : f[m] = f[k] => m = k
    <3>. TAKE m, k \in 1 .. n
    <3>1. f[m] = <<d, m>> /\ f[k] = <<d, k>> /\ <<d, m>>[2] = m /\ <<d, k>>[2] = k
      BY IdParts
    <3>. QED
      BY <3>1
  <2>2. f \in [1 .. n -> D] /\ \A y \in D : \E m \in 1 .. n : f[m] = y
    BY <1>5
  <2>. HIDE DEF f, D, n
  <2>. QED
    BY <2>1, <2>2 DEF Bijection, Injection, Surjection, IsInjective
<1>. HIDE DEF f, D, n
<1>7. ExistsBijection(1 .. n, D)
  BY <1>6 DEF ExistsBijection
<1>8. IsFiniteSet(1 .. n) /\ Cardinality(1 .. n) = n
  <2>1. 1 \in Int /\ n \in Int
    BY <1>1
  <2>2. IsFiniteSet(1 .. n) /\ Cardinality(1 .. n) = IF 1 > n THEN 0 ELSE n - 1 + 1
    BY <2>1, FS_Interval
  <2>. QED
    BY <1>1, <2>2
<1>9. Cardinality(D) = Cardinality(1 .. n)
  BY <1>7, <1>8, FS_Bijection
<1>. QED
  BY <1>8, <1>9 DEF D, n

\* RenderReport: two summaries were asked for since the count, and every decision of the
\* session is in the log.
LEMMA RenderReportKeeps ==
  ASSUME NEW t, NEW k, Underway(t, k), RenderReport
  PROVE  RunTypes' /\ RecordsGood' /\ After(t, k + 1)'
<1>. DEFINE x == t[k + 1]
            e == x.desk
            log == logs[open]
            q == k - 2
            r == [run |-> run, calls |-> drafts[e].calls, size |-> sized[e],
                  total |-> Len(log.calls), decisions |-> Cardinality(Decided(log.calls))]
<1>0. DOMAIN drafts = Desks /\ k \in Nat /\ sized \in [Desks -> Nat] /\ host \in {"cli", "server"} /\ run \in Nat
  BY UnderwayFacts DEF Underway, RunTypes
<1>1. /\ x.op = "render" /\ UNCHANGED <<host, run, sized, open, logs, reports>>
      /\ drafts' = [drafts EXCEPT ![e] =
           [run |-> run, calls |-> @.calls, size |-> sized[e],
            total |-> Len(logs[open].calls), decisions |-> Cardinality(Decided(logs[open].calls))]]
  BY UnderwayFacts DEF RenderReport, Due
<1>2. e \in Desks /\ x = Render(e) /\ x.op \notin {"call", "connect"} /\ x # Explain /\ \A d : x # Count(d)
  BY <1>1, UnderwayFacts, StepIs, Fields
<1>3. DOMAIN drafts' = Desks /\ drafts'[e] = r /\ \A d \in Desks : d # e => drafts'[d] = drafts[d]
  <2>. HIDE DEF e
  <2>. QED
    BY <1>0, <1>1, <1>2
<1>. HIDE DEF x, e, r, q
<1>5. RunTypes' /\ RecordsGood'
  BY <1>1, <1>3, RecordsSame DEF Underway
<1>6. /\ OpenGood(t, k + 1)'
      /\ \A d \in Desks : LogOf(d)' = LogOf(d)
      /\ \A d \in Desks : d # e => \A p \in 1 .. k : t[p] = Count(d) => DraftGood(k + 1, p, d)'
      /\ \A d \in Desks : (\E c \in 1 .. k : t[c] = Connect(LogName(host, d)))
                          => \E c \in 1 .. k + 1 : t[c] = Connect(LogName(host, d))
  <2>1. \A d : d # e => x # Render(d)
    BY <1>2, Fields
  <2>2. /\ OpenGood(t, k + 1)'
        /\ \A d \in Desks : LogOf(d)' = LogOf(d)
        /\ \A d \in Desks : t[k + 1] # Render(d) =>
              \A p \in 1 .. k : t[p] = Count(d) /\ drafts'[d] = drafts[d] => DraftGood(k + 1, p, d)'
        /\ \A d \in Desks : (\E c \in 1 .. k : t[c] = Connect(LogName(host, d)))
                             => \E c \in 1 .. k + 1 : t[c] = Connect(LogName(host, d))
    BY <1>1, <1>2, QuietStep DEF x
  <2>. QED
    BY <1>3, <2>1, <2>2 DEF x
<1>7. q \in 1 .. k /\ q + 2 = k /\ t[q] = Count(e)
  <2>1. Text(t, host, sized) /\ k + 1 \in 1 .. Len(t)
    BY DEF Underway
  <2>2. k + 1 > 3 /\ t[(k + 1) - 3] = Count(e)
    BY <1>2, <2>1, TextFacts DEF Text, Rendered, x
  <2>3. (k + 1) - 3 = k - 2 /\ k - 2 \in 1 .. k /\ (k - 2) + 2 = k
    BY <1>0, <2>2
  <2>. QED
    BY <2>2, <2>3 DEF q
<1>8. DraftGood(k, q, e)
  BY <1>2, <1>7 DEF Underway, After
<1>9. /\ drafts[e].calls \in Nat /\ open = LogName(host, e) /\ LogOf(e) = log /\ log.run = run
      /\ drafts[e].calls + 2 = Len(log.calls)
      /\ host = "cli" => drafts[e].calls = Len(Stages(e)) * sized[e]
  <2>1. open = LogName(host, e) /\ drafts[e].calls + (k - q) = Len(LogOf(e).calls) /\ k - q = 2
    BY <1>0, <1>7, <1>8 DEF DraftGood
  <2>2. LogOf(e) = log
    BY <1>2, <2>1, UnderwayFacts
  <2>. QED
    BY <1>8, <2>1, <2>2 DEF DraftGood
<1>10. PICK c \in 1 .. k : SessionLogged(t, host, sized, e, c, q) /\ Follows(log.calls, t, c, k)
  <2>1. q \in k - 2 .. k + 1 /\ q > 0
    BY <1>0, <1>7
  <2>. QED
    BY <1>2, <1>7, <2>1, CountsOpenLog
<1>11. log.calls \in Seq(Entries) /\ Len(log.calls) \in Nat
  <2>1. logs[open].calls \in Seq(Entries)
    BY DEF Underway, RunTypes
  <2>. QED
    BY <2>1, LenProperties
<1>. HIDE DEF log
<1>12. Complete(log.calls, e, sized[e])
  <2>. SUFFICES ASSUME NEW m \in 1 .. sized[e], NEW j \in 1 .. Len(Stages(e))
                PROVE  \E p \in DOMAIN log.calls : Asked(log.calls)[p] = Call(<<e, m>>, Stages(e)[j])
    BY DEF Complete
  <2>1. PICK i \in c + 1 .. q - 1 : t[i] = Call(<<e, m>>, Stages(e)[j])
    BY <1>10 DEF SessionLogged
  <2>2. i \in c + 1 .. k /\ t[i].op = "call"
    BY <1>0, <1>7, <2>1, Fields
  <2>. QED
    BY <1>10, <2>1, <2>2 DEF Follows
<1>13. host = "cli" => Cardinality(Decided(log.calls)) = sized[e]
  <2>. SUFFICES ASSUME host = "cli" PROVE Cardinality(Decided(log.calls)) = sized[e]
    OBVIOUS
  <2>1. q \in 1 .. Len(t) /\ Text(t, host, sized)
    BY <1>7, UnderwayFacts DEF Underway
  <2>2. t[q + 1] = Explain /\ t[q + 2] = Explain
    <3>1. host \in {"cli", "server"} /\ sized \in [Desks -> Nat] /\ e \in Desks /\ t[q] = Count(e)
      BY <1>0, <1>2, <1>7
    <3>. QED
      BY <2>1, <3>1, CountIsLogged
  <2>5. q \in Nat
    BY <1>0, <1>7
  <2>3. c \in 1 .. q - 1
    <3>1. t[c] = Connect(LogName(host, e))
      BY <1>10 DEF SessionLogged
    <3>2. c # q /\ c # q + 1 /\ c # q + 2
      BY <1>7, <2>2, <3>1, Fields
    <3>. QED
      BY <1>0, <1>7, <3>2
  <2>4. SessionLogged(t, "cli", sized, e, c, q) /\ Follows(log.calls, t, c, q + 2)
    BY <1>7, <1>10
  <2>. QED
    BY <1>0, <1>2, <1>7, <1>11, <2>2, <2>3, <2>4, <2>5, DecidedAre
<1>14. ReportGood(host, r, e, log)
  <2>1. r.run = run /\ r.calls = drafts[e].calls /\ r.size = sized[e] /\ r.total = Len(log.calls)
        /\ r.decisions = Cardinality(Decided(log.calls))
    BY DEF r
  <2>2. sized[e] \in Nat
    BY <1>0, <1>2
  <2>. HIDE DEF r
  <2>. QED
    BY <1>0, <1>9, <1>11, <1>12, <1>13, <2>1, <2>2 DEF ReportGood
<1>15. ASSUME NEW d \in Desks, NEW p \in 1 .. k + 1, t[p] = Count(d)
       PROVE  DraftGood(k + 1, p, d)'
  <2>1. p \in 1 .. k
    BY <1>0, <1>2, <1>15 DEF x
  <2>2. CASE d # e
    BY <1>6, <1>15, <2>1, <2>2
  <2>3. CASE d = e
    <3>1. p = q
      <4>1. p \in 1 .. Len(t) /\ q \in 1 .. Len(t) /\ Text(t, host, sized)
        BY <1>7, <2>1, UnderwayFacts DEF Underway
      <4>2. Count(e) # Explain
        BY Fields
      <4>. QED
        BY <1>7, <1>15, <2>3, <4>1, <4>2, OnlyOnce
    <3>2. LogOf(d)' = log
      BY <1>2, <1>6, <1>9, <2>3
    <3>3. ~ (k + 1 <= q + 2) /\ k + 1 >= q + 3
      BY <1>0, <1>7
    <3>4. r.run = run /\ r.calls = drafts[e].calls
      BY DEF r
    <3>. QED
      BY <1>1, <1>3, <1>9, <1>14, <2>3, <3>1, <3>2, <3>3, <3>4 DEF DraftGood
  <2>. QED
    BY <2>2, <2>3
<1>16. \A d \in Desks : reports[d].run = run => \E i \in 1 .. k + 1 : t[i] = Connect(LogName(host, d))
  BY <1>6 DEF Underway, After
<1>. QED
  BY <1>1, <1>5, <1>6, <1>15, <1>16 DEF After

\* PublishReports: what is published was rendered by this run.
LEMMA PublishReportsKeeps ==
  ASSUME NEW t, NEW k, Underway(t, k), PublishReports
  PROVE  RunTypes' /\ RecordsGood' /\ After(t, k + 1)'
<1>. DEFINE x == t[k + 1]
            ds == x.desks
<1>1. /\ x.op = "publish" /\ reports' = [d \in Desks |-> IF d \in ds THEN drafts[d] ELSE reports[d]]
      /\ UNCHANGED <<host, run, sized, open, logs, drafts>>
  BY UnderwayFacts DEF PublishReports, Due
<1>2. ds \in SUBSET Desks /\ x = Publish(ds)
  BY <1>1, UnderwayFacts, StepIs
<1>. HIDE DEF x, ds
<1>3. x.op \notin {"call", "connect"} /\ x # Explain /\ \A d : x # Count(d) /\ x # Render(d)
  BY <1>2, Fields
<1>4. /\ OpenGood(t, k + 1)'
      /\ \A d \in Desks : LogOf(d)' = LogOf(d)
      /\ \A d \in Desks : t[k + 1] # Render(d) =>
            \A q \in 1 .. k : t[q] = Count(d) /\ drafts'[d] = drafts[d] => DraftGood(k + 1, q, d)'
      /\ \A d \in Desks : (\E c \in 1 .. k : t[c] = Connect(LogName(host, d)))
                          => \E c \in 1 .. k + 1 : t[c] = Connect(LogName(host, d))
  BY <1>1, <1>3, QuietStep DEF x
<1>5. ASSUME NEW d \in ds
      PROVE  /\ drafts[d].run = run /\ LogOf(d).run = run /\ ReportGood(host, drafts[d], d, LogOf(d))
             /\ \E c \in 1 .. k : t[c] = Connect(LogName(host, d))
  <2>1. d \in Desks /\ k \in Nat
    BY <1>2, UnderwayFacts
  <2>2. PICK r \in 1 .. k : t[r] = Render(d)
    <3>1. Backed(<<>>, t) /\ k + 1 \in DOMAIN t /\ t[k + 1] = Publish(ds)
      BY <1>2, TextFacts DEF Underway, Text, x
    <3>2. (k + 1) - 1 = k /\ DOMAIN <<>> = {}
      BY <2>1
    <3>. QED
      BY <1>2, <3>1, <3>2 DEF Backed
  <2>3. r > 3 /\ t[r - 3] = Count(d)
    <3>1. Rendered(t) /\ r \in DOMAIN t
      BY <2>2, TextFacts, UnderwayFacts DEF Underway, Text
    <3>. QED
      BY <2>1, <2>2, <3>1 DEF Rendered
  <2>4. PICK q \in 1 .. k : t[q] = Count(d) /\ k >= q + 3
    <3>1. r - 3 \in 1 .. k /\ k >= (r - 3) + 3
      BY <2>1, <2>3
    <3>. QED
      BY <2>3, <3>1
  <2>5. DraftGood(k, q, d)
    BY <2>1, <2>4 DEF Underway, After
  <2>6. \E c \in 1 .. k : t[c] = Connect(LogName(host, d))
    BY <2>1, <2>4, DraftsLog
  <2>. QED
    BY <2>4, <2>5, <2>6 DEF DraftGood
<1>6. RunTypes'
  BY <1>1 DEF Underway, RunTypes
<1>7. RecordsGood'
  <2>1. \A name \in LogNames : logs[name].run <= run /\ LogGood(logs[name])
    BY DEF Underway, RecordsGood
  <2>2. ASSUME NEW d \in Desks
        PROVE  /\ reports'[d].run \in Nat /\ reports'[d].run <= LogOf(d).run
               /\ reports'[d].run > 0 => ReportGood(host, reports'[d], d, LogOf(d))
    <3>1. CASE d \in ds
      <4>1. reports'[d] = drafts[d]
        BY <1>1, <3>1
      <4>2. run \in Nat
        BY UnderwayFacts
      <4>. QED
        BY <1>5, <3>1, <4>1, <4>2
    <3>2. CASE d \notin ds
      <4>1. reports'[d] = reports[d]
        BY <1>1, <3>2
      <4>. QED
        BY <4>1 DEF Underway, RecordsGood
    <3>. QED
      BY <3>1, <3>2
  <2>. QED
    BY <1>1, <1>4, <2>1, <2>2 DEF RecordsGood
<1>8. ASSUME NEW d \in Desks, NEW q \in 1 .. k + 1, t[q] = Count(d)
      PROVE  DraftGood(k + 1, q, d)'
  <2>1. q \in 1 .. k
    BY <1>3, <1>8, UnderwayFacts DEF x
  <2>. QED
    BY <1>1, <1>3, <1>4, <1>8, <2>1 DEF x
<1>9. ASSUME NEW d \in Desks, reports'[d].run = run
      PROVE  \E c \in 1 .. k + 1 : t[c] = Connect(LogName(host, d))
  <2>1. d \in ds \/ reports'[d] = reports[d]
    BY <1>1
  <2>2. \E c \in 1 .. k : t[c] = Connect(LogName(host, d))
    BY <1>5, <1>9, <2>1 DEF Underway, After
  <2>. QED
    BY <1>4, <2>2
<1>. QED
  BY <1>1, <1>4, <1>6, <1>7, <1>8, <1>9 DEF After

\* SayForCompliance: neither a log nor a report is touched.
LEMMA SayForComplianceKeeps ==
  ASSUME NEW t, NEW k, Underway(t, k), SayForCompliance
  PROVE  RunTypes' /\ RecordsGood' /\ After(t, k + 1)'
<1>. DEFINE x == t[k + 1]
<1>1. x.op = "comply" /\ UNCHANGED <<host, run, sized, open, logs, drafts, reports>>
  BY UnderwayFacts DEF SayForCompliance, Due
<1>2. x.op \notin {"call", "connect"} /\ \A d : x # Count(d) /\ x # Render(d)
  BY <1>1, Fields
<1>3. RunTypes' /\ RecordsGood'
  BY <1>1, RecordsSame DEF Underway, RunTypes
<1>4. /\ OpenGood(t, k + 1)'
      /\ \A d \in Desks : t[k + 1] # Render(d) =>
            \A q \in 1 .. k : t[q] = Count(d) /\ drafts'[d] = drafts[d] => DraftGood(k + 1, q, d)'
      /\ \A d \in Desks : (\E c \in 1 .. k : t[c] = Connect(LogName(host, d)))
                          => \E c \in 1 .. k + 1 : t[c] = Connect(LogName(host, d))
  BY <1>1, <1>2, QuietStep
<1>. HIDE DEF x
<1>5. ASSUME NEW d \in Desks, NEW q \in 1 .. k + 1, t[q] = Count(d)
      PROVE  DraftGood(k + 1, q, d)'
  <2>1. q \in 1 .. k
    BY <1>2, <1>5, UnderwayFacts DEF x
  <2>. QED
    BY <1>1, <1>2, <1>4, <1>5, <2>1 DEF x
<1>6. \A d \in Desks : reports[d].run = run => \E c \in 1 .. k + 1 : t[c] = Connect(LogName(host, d))
  BY <1>4 DEF Underway, After
<1>. QED
  BY <1>1, <1>3, <1>4, <1>5, <1>6 DEF After

\* A run that ends early keeps its records, and so does the log it may have opened.
LEMMA StopKeeps ==
  ASSUME NEW t, NEW k, Underway(t, k), Stop
  PROVE  RunTypes' /\ RecordsGood' /\ script' = <<>>
<1>1. script' = <<>> /\ UNCHANGED <<host, run, sized, drafts, reports>>
  BY DEF Stop
<1>2. CASE UNCHANGED <<open, logs>>
  BY <1>1, <1>2, RecordsSame DEF Underway, RunTypes
<1>3. CASE /\ Due("connect") /\ open' = Head(script).log
           /\ logs' = [logs EXCEPT ![open'] = Opened(open')]
  <2>. DEFINE l == t[k + 1].log
  <2>1. t[k + 1] = Connect(l) /\ l \in LogNames /\ open' = l /\ logs' = [logs EXCEPT ![l] = Opened(l)]
    BY <1>3, UnderwayFacts, StepIs DEF Due
  <2>. HIDE DEF l
  <2>2. t[k + 1] # Explain
    BY <2>1, Fields
  <2>3. \A d \in Desks : LogName(host, d) = l => ~ (\E c \in 1 .. k : t[c] = Connect(LogName(host, d)))
    BY <2>1, <2>2, UnderwayFacts
  <2>4. \A d \in Desks : LogName(host, d) = l => reports[d].run # run
    BY <2>3 DEF Underway, After
  <2>. QED
    BY <1>1, <2>1, <2>4, OpenedKeeps DEF Underway
<1>. QED
  BY <1>1, <1>2, <1>3 DEF Stop

\* A script is one that a run may start with.
LEMMA ScriptIsOne ==
  ASSUME NEW h, NEW size, NEW desks \in {{"fx"}, {"battery"}, Desks}, NEW w \in [Desks -> 0 .. 2]
  PROVE  Script(h, desks, size, w) \in Scripts(h, size)
BY DEF Scripts

\* A new run has taken no step.
LEMMA StartKeeps ==
  ASSUME RunTypes, RecordsGood, Start
  PROVE  ScriptInv'
<1>1. /\ run' = run + 1 /\ drafts' = [d \in Desks |-> NoReport]
      /\ UNCHANGED <<host, open, logs, reports>>
  BY DEF Start
<1>2. sized' \in [Desks -> Nat] /\ script' \in Scripts(host, sized')
  <2>. PICK desks \in {{"fx"}, {"battery"}, Desks}, n \in 0 .. MaxDecisions, m \in 0 .. MaxDays :
         \E fx \in {0, 2}, battery \in 0 .. 2 :
           /\ n = 0 => fx = 0
           /\ m = 0 => battery = 0
           /\ sized' = [d \in Desks |-> IF d = "fx" THEN n ELSE m]
           /\ script' = Script(host, desks, sized', [d \in Desks |-> IF d = "fx" THEN fx ELSE battery])
           /\ "fx" \notin desks => n = 0
           /\ "battery" \notin desks => m = 0
    BY Zenon DEF Start
  <2>. PICK fx \in {0, 2}, battery \in 0 .. 2 :
         /\ sized' = [d \in Desks |-> IF d = "fx" THEN n ELSE m]
         /\ script' = Script(host, desks, sized', [d \in Desks |-> IF d = "fx" THEN fx ELSE battery])
    OBVIOUS
  <2>. DEFINE w == [d \in Desks |-> IF d = "fx" THEN fx ELSE battery]
  <2>1. n \in Nat /\ m \in Nat
    BY BoundsAssumption
  <2>2. w \in [Desks -> 0 .. 2] /\ script' = Script(host, desks, sized', w)
    OBVIOUS
  <2>3. sized' \in [Desks -> Nat]
    BY <2>1
  <2>. HIDE DEF w
  <2>4. script' \in Scripts(host, sized')
    <3>1. desks \in {{"fx"}, {"battery"}, Desks}
      OBVIOUS
    <3>. QED
      BY <2>2, <3>1, ScriptIsOne
  <2>. QED
    BY <2>3, <2>4
<1>3. RunTypes'
  BY <1>1, <1>2 DEF RunTypes
<1>4. /\ \A name \in LogNames : logs[name].run < run + 1 /\ LogGood(logs[name])
      /\ \A d \in Desks : /\ reports[d].run \in Nat /\ reports[d].run <= LogOf(d).run
                          /\ reports[d].run > 0 => ReportGood(host, reports[d], d, LogOf(d))
                          /\ reports[d].run < run + 1
  <2>1. \A d \in Desks : LogOf(d).run \in Nat /\ LogOf(d).run <= run
    BY DEF RunTypes, RecordsGood, LogOf, LogNames
  <2>2. \A name \in LogNames : logs[name].run \in Nat
    BY DEF RunTypes
  <2>. QED
    BY <2>1, <2>2 DEF RunTypes, RecordsGood
<1>5. RecordsGood'
  <2>1. \A name \in LogNames : logs[name].run <= run + 1
    BY <1>4 DEF RunTypes
  <2>2. \A d \in Desks : LogOf(d)' = LogOf(d)
    BY <1>1 DEF LogOf
  <2>. QED
    BY <1>1, <1>4, <2>1, <2>2 DEF RecordsGood
<1>6. \E t \in Scripts(host', sized') : \E k \in 0 .. Len(t) - 1 : Left(t, k)' /\ After(t, k)'
  <2>. DEFINE t == script'
  <2>1. t \in Scripts(host, sized') /\ Text(t, host, sized')
    BY <1>2, ScriptsAreTexts DEF RunTypes
  <2>2. Len(t) \in Nat /\ Len(t) > 0 /\ t \in Seq(Step)
    BY <2>1, TextFacts DEF Text
  <2>3. 0 \in 0 .. Len(t) - 1
    BY <2>2
  <2>4. t = [i \in 1 .. Len(t) - 0 |-> t[0 + i]]
    <3>1. DOMAIN t = 1 .. Len(t) - 0 /\ \A i \in 1 .. Len(t) : 0 + i = i
      BY <2>2, LenProperties
    <3>2. t = [i \in DOMAIN t |-> t[i]]
      BY <2>2
    <3>. QED
      BY <2>2, <3>1, <3>2
  <2>5. 1 .. 0 = {}
    OBVIOUS
  <2>6. \A d \in Desks : reports'[d].run # run'
    BY <1>1, <1>4 DEF RunTypes
  <2>. QED
    BY <1>1, <2>1, <2>3, <2>4, <2>5, <2>6 DEF Left, After, OpenGood
<1>. QED
  BY <1>3, <1>5, <1>6 DEF ScriptInv

-----------------------------------------------------------------------------
(* The theorems of the desk run *)

\* Before the first run every log is empty and there is no report.
LEMMA InitHolds == Init => ScriptInv
<1>. SUFFICES ASSUME Init PROVE ScriptInv
  OBVIOUS
<1>1. <<>> \in Seq(Entries) /\ NoLog.run = 0 /\ NoLog.calls = <<>> /\ NoReport.run = 0
  BY DEF NoLog, NoReport
<1>2. LogGood(NoLog)
  BY <1>1, EmptyLog
<1>3. \A d \in Desks : LogOf(d) = NoLog /\ reports[d] = NoReport
  BY DEF Init, LogOf, LogNames
<1>4. RunTypes
  <2>1. NoLog \in [run : Nat, calls : Seq(Entries)]
    BY <1>1 DEF NoLog
  <2>2. host \in {"cli", "server"} /\ run \in Nat /\ open \in LogNames
    BY HostsAssumption DEF Init, LogNames
  <2>. QED
    BY <2>1, <2>2 DEF Init, RunTypes
<1>5. RecordsGood
  <2>1. \A name \in LogNames : logs[name] = NoLog
    BY DEF Init
  <2>2. run = 0
    BY DEF Init
  <2>. QED
    BY <1>1, <1>2, <1>3, <2>1, <2>2 DEF RecordsGood
<1>6. script = <<>>
  BY DEF Init
<1>. QED
  BY <1>4, <1>5, <1>6 DEF ScriptInv

\* A step of a run takes the next step of its text.
LEMMA UnderwayKeeps ==
  ASSUME NEW t \in Scripts(host, sized), NEW k \in 0 .. Len(t) - 1, RunTypes, RecordsGood, Left(t, k), After(t, k),
         OpenLog \/ MakeCall \/ CountCalls \/ RenderReport \/ PublishReports \/ SayForCompliance \/ Stop
  PROVE  ScriptInv'
<1>1. Text(t, host, sized) /\ Len(t) \in Nat /\ t \in Seq(Step)
  BY ScriptsAreTexts, TextFacts DEF RunTypes, Text
<1>2. /\ Head(script) = t[k + 1]
      /\ Tail(script) = [i \in 1 .. Len(t) - (k + 1) |-> t[(k + 1) + i]]
      /\ k + 1 = Len(t) => Tail(script) = <<>>
  BY <1>1, NextStep DEF Left
<1>3. k \in Nat /\ k + 1 \in 1 .. Len(t)
  BY <1>1
<1>4. Underway(t, k)
  BY <1>1, <1>2, <1>3 DEF Underway
<1>5. CASE Stop
  BY <1>4, <1>5, StopKeeps DEF ScriptInv
<1>6. CASE OpenLog \/ MakeCall \/ CountCalls \/ RenderReport \/ PublishReports \/ SayForCompliance
  <2>1. RunTypes' /\ RecordsGood' /\ After(t, k + 1)'
    BY <1>4, <1>6, OpenLogKeeps, MakeCallKeeps, CountCallsKeeps, RenderReportKeeps, PublishReportsKeeps,
       SayForComplianceKeeps
  <2>2. script' = Tail(script) /\ UNCHANGED <<host, sized>>
    BY <1>6 DEF OpenLog, MakeCall, CountCalls, RenderReport, PublishReports, SayForCompliance, Advance
  <2>3. CASE k + 1 = Len(t)
    BY <1>2, <2>1, <2>2, <2>3 DEF ScriptInv
  <2>4. CASE k + 1 # Len(t)
    <3>1. k + 1 \in 0 .. Len(t) - 1
      BY <1>1, <1>3, <2>4
    <3>2. Left(t, k + 1)'
      BY <1>2, <2>2, <3>1 DEF Left
    <3>. QED
      BY <2>1, <2>2, <3>1, <3>2 DEF ScriptInv
  <2>. QED
    BY <2>3, <2>4
<1>. QED
  BY <1>5, <1>6

\* Every step keeps the invariant.
LEMMA StepKeeps == ScriptInv /\ [Next]_vars => ScriptInv'
<1>. SUFFICES ASSUME ScriptInv, [Next]_vars PROVE ScriptInv'
  OBVIOUS
<1>0. RunTypes /\ RecordsGood
  BY DEF ScriptInv
<1>1. CASE Start
  BY <1>0, <1>1, StartKeeps
<1>2. CASE OpenLog \/ MakeCall \/ CountCalls \/ RenderReport \/ PublishReports \/ SayForCompliance \/ Stop
  <2>1. script # <<>>
    BY <1>2 DEF OpenLog, MakeCall, CountCalls, RenderReport, PublishReports, SayForCompliance, Stop, Due
  <2>2. PICK t \in Scripts(host, sized) : \E k \in 0 .. Len(t) - 1 : Left(t, k) /\ After(t, k)
    BY <2>1 DEF ScriptInv
  <2>3. PICK k \in 0 .. Len(t) - 1 : Left(t, k) /\ After(t, k)
    BY <2>2
  <2>. QED
    BY <1>0, <1>2, <2>2, <2>3, UnderwayKeeps
<1>3. CASE UNCHANGED vars
  BY <1>3 DEF vars, ScriptInv, RunTypes, RecordsGood, Left, After, OpenGood, DraftGood, LogOf
<1>. QED
  BY <1>1, <1>2, <1>3 DEF Next

\* ScriptInv, the invariant the others follow from.
THEOREM ScriptInvariant == Spec => []ScriptInv
BY InitHolds, StepKeeps, PTL DEF Spec

\* In every state the calls of a log are of the run that opened it, and no report is
\* younger than the log beside it (audit.rs to_file and new, run.rs execute).
THEOREM LogsStayCurrent == Spec => []LogsAreCurrent
<1>1. ScriptInv => LogsAreCurrent
  BY DEF ScriptInv, RecordsGood, LogGood, LogsAreCurrent
<1>. QED
  BY <1>1, ScriptInvariant, PTL

\* In every state a report speaks of the calls made before its two summaries, and on the
\* command line of those of its own decisions and nothing else (report/src/lib.rs Counts).
THEOREM ReportsCount == Spec => []ReportsCountTheirCalls
<1>1. ScriptInv => ReportsCountTheirCalls
  BY DEF ScriptInv, RecordsGood, ReportGood, ReportsCountTheirCalls
<1>. QED
  BY <1>1, ScriptInvariant, PTL

-----------------------------------------------------------------------------
(* The decisions of a log *)

\* The entries at an interval of places are those places' entries, in their order.
LEMMA AtInterval ==
  ASSUME NEW s, NEW a \in Nat, NEW r \in Nat
  PROVE  At(s, a + 1 .. a + r) = [m \in 1 .. r |-> s[a + m]]
<1>. DEFINE I == a + 1 .. a + r
<1>1. Cardinality(I) = r
  <2>1. a + 1 \in Int /\ a + r \in Int
    OBVIOUS
  <2>2. Cardinality(I) = IF a + 1 > a + r THEN 0 ELSE (a + r) - (a + 1) + 1
    BY <2>1, FS_Interval
  <2>. HIDE DEF I
  <2>. QED
    BY <2>2
<1>2. \A i \in I : Cardinality({j \in I : j <= i}) = i - a
  <2>. TAKE i \in I
  <2>1. {j \in I : j <= i} = a + 1 .. i
    OBVIOUS
  <2>2. a + 1 \in Int /\ i \in Int /\ ~ (a + 1 > i)
    OBVIOUS
  <2>3. Cardinality(a + 1 .. i) = IF a + 1 > i THEN 0 ELSE i - (a + 1) + 1
    BY <2>2, FS_Interval
  <2>4. Cardinality(a + 1 .. i) = i - a
    <3>. HIDE DEF I
    <3>. QED
      BY <2>2, <2>3
  <2>. QED
    BY <2>1, <2>4
<1>3. \A m \in 1 .. r : Nth(I, m) = a + m
  <2>. TAKE m \in 1 .. r
  <2>1. a + m \in I /\ (a + m) - a = m /\ \A i \in I : i - a = m => i = a + m
    OBVIOUS
  <2>. HIDE DEF I
  <2>2. \A i \in I : Cardinality({j \in I : j <= i}) = m <=> i = a + m
    BY <1>2, <2>1
  <2>. QED
    BY <2>1, <2>2 DEF Nth
<1>. HIDE DEF I
<1>4. At(s, I) = [m \in 1 .. r |-> s[Nth(I, m)]]
  BY <1>1 DEF At
<1>. QED
  BY <1>3, <1>4 DEF I

\* In an ordered log the calls of one decision stand side by side, from its first stage.
LEMMA PlacesOf ==
  ASSUME NEW calls \in Seq(Entries), Chained(Asked(calls)), Once(Asked(calls)), NEW d \in Desks, NEW id \in Ids(d)
  PROVE  \E a \in Nat, r \in 0 .. Len(Stages(d)) :
           /\ {i \in DOMAIN calls : calls[i].decision = id} = a + 1 .. a + r
           /\ \A m \in 1 .. r : calls[a + m].stage = Stages(d)[m]
<1>. DEFINE I == {i \in DOMAIN calls : calls[i].decision = id}
            l == Len(Stages(d))
            Is(p, j) == p \in DOMAIN calls /\ j \in 1 .. l /\ Asked(calls)[p] = Call(id, Stages(d)[j])
<1>0. l \in {2, 3} /\ DOMAIN calls = 1 .. Len(calls) /\ Len(calls) \in Nat /\ DOMAIN Asked(calls) = DOMAIN calls
  BY StagesAre, LenProperties DEF Asked
<1>1. \A p \in DOMAIN calls : \A j : Is(p, j) => p \in I /\ calls[p].stage = Stages(d)[j]
  BY Fields DEF Asked
<1>2. ASSUME NEW p \in I PROVE \E j \in 1 .. l : Is(p, j)
  <2>1. Asked(calls)[p] = Call(id, calls[p].stage) /\ calls[p].stage \in StageNames
    <3>1. calls[p] \in Entries
      BY <1>0, ElementOfSeq
    <3>. QED
      BY <3>1 DEF Asked, Entries
  <2>2. Linked(Asked(calls), p, d, id, calls[p].stage)
    BY <1>0, <2>1 DEF Chained
  <2>. QED
    BY <2>1, <2>2 DEF Linked
<1>3. ASSUME NEW p, NEW j, Is(p, j), j > 1 PROVE Is(p - 1, j - 1)
  <2>1. Stages(d)[j] \in StageNames
    <3>1. j \in 1 .. Len(Stages(d)) /\ Stages(d) \in Seq({"read", "assess", "gate"})
      BY <1>3, StagesAre
    <3>2. Stages(d)[j] \in {"read", "assess", "gate"}
      BY <3>1, ElementOfSeq
    <3>. QED
      BY <3>2 DEF StageNames
  <2>2. PICK n \in 1 .. l : /\ Stages(d)[j] = Stages(d)[n]
                            /\ n > 1 => p > 1 /\ Asked(calls)[p - 1] = Call(id, Stages(d)[n - 1])
    BY <1>0, <1>3, <2>1 DEF Chained, Linked
  <2>3. n = j
    BY <1>3, <2>2, StagesAre
  <2>. QED
    BY <1>0, <1>3, <2>2, <2>3
<1>4. ASSUME NEW p, NEW q, NEW j, Is(p, j), Is(q, j) PROVE p = q
  <2>1. Asked(calls)[p] # Explain
    BY <1>4, DeskOf, Fields
  <2>. QED
    BY <1>0, <1>4, <2>1 DEF Once
<1>. HIDE DEF Is
<1>5. \A p : (Is(p, 2) => Is(p - 1, 1)) /\ (Is(p, 3) => Is(p - 1, 2))
  <2>1. 2 > 1 /\ 3 > 1 /\ 2 - 1 = 1 /\ 3 - 1 = 2
    OBVIOUS
  <2>2. \A p, j : Is(p, j) /\ j > 1 => Is(p - 1, j - 1)
    BY <1>3
  <2>3. \A p : (Is(p, 2) => Is(p - 1, 2 - 1)) /\ (Is(p, 3) => Is(p - 1, 3 - 1))
    BY Zenon, <2>1, <2>2
  <2>. QED
    BY Zenon, <2>1, <2>3
<1>6. \A j \in 1 .. l : j = 1 \/ j = 2 \/ j = 3
  <2>. HIDE DEF l
  <2>. QED
    BY <1>0
<1>7. \A p, j : Is(p, j) => p \in 1 .. Len(calls) /\ j \in 1 .. l /\ p \in I /\ calls[p].stage = Stages(d)[j]
  BY <1>0, <1>1 DEF Is
<1>8. CASE I = {}
  <2>1. I = 0 + 1 .. 0 + 0 /\ 0 \in 0 .. l /\ 1 .. 0 = {}
    BY <1>0, <1>8
  <2>. HIDE DEF I, l
  <2>. QED
    BY <2>1 DEF I, l
<1>9. CASE I # {}
  <2>1. PICK b : Is(b, 1)
    <3>1. PICK p \in I : TRUE
      BY <1>9
    <3>2. PICK j \in 1 .. l : Is(p, j)
      BY <1>2, <3>1
    <3>3. CASE j = 1
      BY <3>2, <3>3
    <3>4. CASE j = 2
      BY Zenon, <1>5, <3>2, <3>4
    <3>5. CASE j = 3
      BY Zenon, <1>5, <3>2, <3>5
    <3>. QED
      BY <1>6, <3>3, <3>4, <3>5
  <2>2. ASSUME NEW p, NEW j, Is(p, j) PROVE p = b + j - 1 /\ (j = 3 => Is(b + 1, 2))
    <3>1. p \in Int /\ b \in Int /\ j \in 1 .. l
      BY <1>7, <2>1, <2>2
    <3>2. CASE j = 1
      BY <1>4, <2>1, <2>2, <3>1, <3>2
    <3>3. CASE j = 2
      <4>1. Is(p - 1, 1)
        BY Zenon, <1>5, <2>2, <3>3
      <4>2. p - 1 = b
        BY <1>4, <2>1, <4>1
      <4>. QED
        BY <3>1, <3>3, <4>2
    <3>4. CASE j = 3
      <4>1. Is(p - 1, 2)
        BY Zenon, <1>5, <2>2, <3>4
      <4>2. Is((p - 1) - 1, 1)
        BY Zenon, <1>5, <4>1
      <4>3. (p - 1) - 1 = b
        BY <1>4, <2>1, <4>2
      <4>4. p - 1 = b + 1 /\ p = b + 3 - 1
        BY <3>1, <4>3
      <4>. QED
        BY <3>4, <4>1, <4>4
    <3>. QED
      BY <1>6, <3>1, <3>2, <3>3, <3>4
  <2>. DEFINE a == b - 1
              Goal(r) == r \in 0 .. l /\ I = a + 1 .. a + r /\ \A m \in 1 .. r : calls[a + m].stage = Stages(d)[m]
  <2>3. a \in Nat /\ b \in Nat /\ a + 1 = b
    BY <1>7, <2>1
  <2>4. \A p \in I : \E j \in 1 .. l : Is(p, j) /\ p = a + j
    <3>. TAKE p \in I
    <3>1. PICK j \in 1 .. l : Is(p, j)
      BY <1>2
    <3>2. p = b + j - 1
      BY <2>2, <3>1
    <3>. QED
      BY <2>3, <3>1, <3>2
  <2>. HIDE DEF a
  <2>5. ASSUME NEW r \in 1 .. l, \A j \in 1 .. r : Is(a + j, j), \A p, j : Is(p, j) => j <= r PROVE Goal(r)
    <3>1. \A m \in 1 .. r : a + m \in I /\ calls[a + m].stage = Stages(d)[m]
      BY <1>7, <2>5
    <3>2. \A p \in I : \E j \in 1 .. r : p = a + j
      BY <1>0, <1>7, <2>4, <2>5
    <3>3. I = a + 1 .. a + r
      <4>1. \A p \in a + 1 .. a + r : p - a \in 1 .. r /\ a + (p - a) = p
        BY <1>0, <2>3
      <4>2. \A j \in 1 .. r : a + j \in a + 1 .. a + r
        BY <1>0, <2>3
      <4>. HIDE DEF I
      <4>. QED
        BY <3>1, <3>2, <4>1, <4>2
    <3>4. r \in 0 .. l
      BY <1>0
    <3>. QED
      BY <3>1, <3>3, <3>4
  <2>6. \E r \in 0 .. l : Goal(r)
    <3>1. CASE \E p : Is(p, 3)
      <4>1. PICK p : Is(p, 3)
        BY <3>1
      <4>2. p = b + 3 - 1 /\ Is(b + 1, 2)
        BY <2>2, <4>1
      <4>3. a + 1 = b /\ a + 2 = b + 1 /\ a + 3 = p /\ 3 \in 1 .. l /\ l = 3
        BY <1>0, <1>7, <2>3, <4>1, <4>2
      <4>4. \A j \in 1 .. 3 : Is(a + j, j)
        BY <2>1, <4>1, <4>2, <4>3
      <4>5. \A x, j : Is(x, j) => j <= 3
        BY <1>7, <4>3
      <4>6. Goal(3)
        BY <2>5, <4>3, <4>4, <4>5
      <4>. QED
        BY <4>6
    <3>2. CASE ~ (\E p : Is(p, 3)) /\ \E p : Is(p, 2)
      <4>1. PICK p : Is(p, 2)
        BY <3>2
      <4>2. p = b + 2 - 1
        BY <2>2, <4>1
      <4>3. a + 1 = b /\ a + 2 = p /\ 2 \in 1 .. l
        BY <1>7, <2>3, <4>1, <4>2
      <4>4. \A j \in 1 .. 2 : Is(a + j, j)
        BY <2>1, <4>1, <4>3
      <4>5. \A x, j : Is(x, j) => j <= 2
        BY <1>0, <1>7, <3>2
      <4>6. Goal(2)
        BY <2>5, <4>3, <4>4, <4>5
      <4>. QED
        BY <4>6
    <3>3. CASE ~ (\E p : Is(p, 3)) /\ ~ (\E p : Is(p, 2))
      <4>1. \A j \in 1 .. 1 : Is(a + j, j)
        BY <2>1, <2>3
      <4>2. \A x, j : Is(x, j) => j <= 1
        BY <1>0, <1>7, <3>3
      <4>3. 1 \in 1 .. l
        BY <1>7, <2>1
      <4>4. Goal(1)
        BY <2>5, <4>1, <4>2, <4>3
      <4>. QED
        BY <4>4
    <3>. QED
      BY <3>1, <3>2, <3>3
  <2>. HIDE DEF I, l
  <2>. QED
    BY <2>3, <2>6 DEF I, l
<1>. QED
  BY <1>8, <1>9

\* In an ordered log the calls of one decision are the first stages of its judgment.
LEMMA StagesOfAre ==
  ASSUME NEW calls \in Seq(Entries), Chained(Asked(calls)), Once(Asked(calls)), NEW d \in Desks, NEW id \in Ids(d)
  PROVE  \E r \in 0 .. Len(Stages(d)) :
           /\ StagesOf(calls, id) = [m \in 1 .. r |-> Stages(d)[m]]
           /\ \A p \in DOMAIN calls : calls[p].decision = id => \E m \in 1 .. r : calls[p].stage = Stages(d)[m]
<1>. DEFINE I == {i \in DOMAIN calls : calls[i].decision = id}
<1>1. PICK a \in Nat, r \in 0 .. Len(Stages(d)) :
             I = a + 1 .. a + r /\ \A m \in 1 .. r : calls[a + m].stage = Stages(d)[m]
  BY PlacesOf
<1>2. r \in Nat
  BY StagesAre
<1>3. At(calls, I) = [m \in 1 .. r |-> calls[a + m]]
  <2>1. At(calls, a + 1 .. a + r) = [m \in 1 .. r |-> calls[a + m]]
    BY <1>2, AtInterval
  <2>. HIDE DEF I
  <2>. QED
    BY <1>1, <2>1
<1>4. StagesOf(calls, id) = [m \in 1 .. r |-> Stages(d)[m]]
  <2>1. StagesOf(calls, id) = [m \in DOMAIN At(calls, I) |-> At(calls, I)[m].stage]
    BY DEF StagesOf
  <2>. HIDE DEF I
  <2>. QED
    BY <1>1, <1>3, <2>1
<1>5. \A p \in I : \E m \in 1 .. r : calls[p].stage = Stages(d)[m]
  <2>. TAKE p \in I
  <2>1. p - a \in 1 .. r /\ a + (p - a) = p
    <3>1. p \in a + 1 .. a + r
      BY <1>1
    <3>. HIDE DEF I
    <3>. QED
      BY <1>2, <3>1
  <2>. HIDE DEF I
  <2>. QED
    BY <1>1, <2>1
<1>. QED
  BY <1>4, <1>5

\* The first entries of a sequence are a prefix of it.
LEMMA FirstArePrefix ==
  ASSUME NEW S, NEW s \in Seq(S), NEW r \in 0 .. Len(s)
  PROVE  /\ IsPrefix([m \in 1 .. r |-> s[m]], s)
         /\ r = Len(s) => [m \in 1 .. r |-> s[m]] = s
<1>. DEFINE u == [m \in 1 .. r |-> s[m]]
<1>1. r \in Nat /\ r <= Len(s) /\ Len(s) \in Nat /\ DOMAIN s = 1 .. Len(s)
  BY LenProperties
<1>2. \A m \in 1 .. r : s[m] \in S
  BY <1>1, ElementOfSeq
<1>3. u \in Seq(S) /\ Len(u) = r
  BY <1>1, <1>2, IsASeq
<1>4. /\ SubSeq(u, 1, r) \in Seq(S) /\ SubSeq(s, 1, r) \in Seq(S)
      /\ Len(SubSeq(u, 1, r)) = r /\ Len(SubSeq(s, 1, r)) = r
      /\ \A m \in 1 .. r : SubSeq(u, 1, r)[m] = u[m] /\ SubSeq(s, 1, r)[m] = s[m]
  <2>. HIDE DEF u
  <2>1. ASSUME NEW v \in Seq(S), r <= Len(v)
        PROVE  /\ SubSeq(v, 1, r) \in Seq(S) /\ Len(SubSeq(v, 1, r)) = r
               /\ \A m \in 1 .. r : SubSeq(v, 1, r)[m] = v[m]
    <3>1. SubSeq(v, 1, r) = [m \in 1 .. r |-> v[m]]
      BY <1>1
    <3>2. \A m \in 1 .. r : v[m] \in S
      BY <1>1, <2>1, ElementOfSeq, LenProperties
    <3>. QED
      BY <1>1, <3>1, <3>2, IsASeq
  <2>. QED
    BY <1>1, <1>3, <2>1
<1>5. SubSeq(u, 1, r) = SubSeq(s, 1, r)
  <2>1. \A m \in 1 .. r : SubSeq(u, 1, r)[m] = SubSeq(s, 1, r)[m]
    BY <1>4
  <2>. HIDE DEF u
  <2>. QED
    BY <1>4, <2>1, SeqEqual
<1>6. r = Len(s) => u = s
  <2>1. \A m \in 1 .. r : u[m] = s[m]
    OBVIOUS
  <2>. HIDE DEF u
  <2>. QED
    BY <1>3, <2>1, SeqEqual
<1>. QED
  BY <1>1, <1>3, <1>5, <1>6 DEF IsPrefix

\* In every state the calls of one id are the stages of one judgment in their order, and
\* all of them behind a report whose log still stands (README.md:247-251, replay.rs).
THEOREM DecisionsStayJoined == Spec => []DecisionsJoin
<1>1. ASSUME ScriptInv, NEW name \in LogNames, NEW id \in Decided(logs[name].calls)
      PROVE  IsPrefix(StagesOf(logs[name].calls, id), Stages(id[1]))
  <2>. DEFINE calls == logs[name].calls
  <2>1. calls \in Seq(Entries) /\ Chained(Asked(calls)) /\ Once(Asked(calls))
    BY <1>1 DEF ScriptInv, RunTypes, RecordsGood, LogGood
  <2>. HIDE DEF calls
  <2>2. \E d \in Desks : id \in Ids(d)
    <3>1. PICK p \in DOMAIN calls : calls[p].decision = id /\ id # NoDecision
      BY DEF Decided, calls
    <3>2. calls[p] \in Entries
      BY <2>1, <3>1, ElementOfSeq, LenProperties
    <3>. QED
      BY <3>1, <3>2 DEF Entries, Desks
  <2>3. PICK d \in Desks : id \in Ids(d)
    BY <2>2
  <2>4. PICK r \in 0 .. Len(Stages(d)) : StagesOf(calls, id) = [m \in 1 .. r |-> Stages(d)[m]]
    BY <2>1, <2>3, StagesOfAre
  <2>5. id[1] = d
    BY <2>3, DeskOf
  <2>6. IsPrefix(StagesOf(calls, id), Stages(d))
    BY <2>4, StagesAre, FirstArePrefix
  <2>. QED
    BY <2>5, <2>6 DEF calls
<1>2. ASSUME ScriptInv, NEW d \in Desks, reports[d].run > 0, reports[d].run = LogOf(d).run,
             NEW i \in 1 .. reports[d].size
      PROVE  StagesOf(LogOf(d).calls, <<d, i>>) = Stages(d)
  <2>. DEFINE calls == LogOf(d).calls
              id == <<d, i>>
              l == Len(Stages(d))
  <2>1. calls \in Seq(Entries) /\ Chained(Asked(calls)) /\ Once(Asked(calls))
    BY <1>2 DEF ScriptInv, RunTypes, RecordsGood, LogGood, LogOf, LogNames
  <2>2. Complete(calls, d, reports[d].size) /\ reports[d].size \in Nat
    BY <1>2 DEF ScriptInv, RecordsGood, ReportGood
  <2>. HIDE DEF calls
  <2>3. id \in Ids(d)
    BY <2>2 DEF Ids
  <2>4. PICK r \in 0 .. l :
               /\ StagesOf(calls, id) = [m \in 1 .. r |-> Stages(d)[m]]
               /\ \A p \in DOMAIN calls : calls[p].decision = id => \E m \in 1 .. r : calls[p].stage = Stages(d)[m]
    <3>. HIDE DEF id
    <3>. QED
      BY <2>1, <2>3, StagesOfAre
  <2>5. l \in 1 .. l /\ l \in Nat
    <3>1. l \in {2, 3}
      BY StagesAre
    <3>. HIDE DEF l
    <3>. QED
      BY <3>1
  <2>6. PICK p \in DOMAIN calls : Asked(calls)[p] = Call(id, Stages(d)[l])
    BY <2>2, <2>5 DEF Complete
  <2>7. calls[p].decision = id /\ calls[p].stage = Stages(d)[l]
    BY <2>6, Fields DEF Asked
  <2>8. PICK m \in 1 .. r : Stages(d)[l] = Stages(d)[m]
    BY <2>4, <2>7
  <2>9. m = l
    BY <2>4, <2>5, <2>8, StagesAre
  <2>10. r = l
    <3>. HIDE DEF l
    <3>. QED
      BY <2>4, <2>5, <2>9
  <2>11. StagesOf(calls, id) = Stages(d)
    BY <2>4, <2>10, StagesAre, FirstArePrefix
  <2>. QED
    BY <2>11 DEF calls
<1>3. ScriptInv => DecisionsJoin
  BY <1>1, <1>2 DEF DecisionsJoin
<1>. QED
  BY <1>3, ScriptInvariant, PTL

-----------------------------------------------------------------------------
(* The page *)

\* Opening a run, or none, leaves nothing of another on the page.
LEMMA OpenClears ==
  ASSUME NEW r, NEW other, Open(r, other), ViewIsOfSelection
  PROVE  ViewIsOfSelection'
<1>1. CASE r = selected
  BY <1>1 DEF Open, ViewIsOfSelection
<1>2. CASE r # selected
  BY <1>2 DEF Open, ViewIsOfSelection, NoView
<1>. QED
  BY <1>1, <1>2

\* A reply touches the view only when it is of the run still selected.
LEMMA ReplyIsWanted ==
  ASSUME NEW q, RunReply(q), UNCHANGED selected, ViewIsOfSelection
  PROVE  ViewIsOfSelection'
<1>1. CASE Wanted(q.about)
  BY <1>1 DEF RunReply, Wanted, ViewIsOfSelection
<1>2. CASE ~ Wanted(q.about)
  BY <1>2 DEF RunReply, ViewIsOfSelection
<1>. QED
  BY <1>1, <1>2

\* In every state the run shown is the one selected, whatever order the replies
\* of successive selections come back in (useApi.ts:75-93).
THEOREM ViewFollowsSelection == PageSpec => []ViewIsOfSelection
<1>1. PageInit => ViewIsOfSelection
  BY DEF PageInit, ViewIsOfSelection, NoView
<1>2. ViewIsOfSelection /\ [PageNext]_pageVars => ViewIsOfSelection'
  <2>. SUFFICES ASSUME ViewIsOfSelection, [PageNext]_pageVars
                PROVE  ViewIsOfSelection'
    OBVIOUS
  <2>1. CASE UNCHANGED <<selected, view>>
    BY <2>1 DEF ViewIsOfSelection
  <2>2. CASE \E r \in Runs : Select(r) \/ Forgotten(r)
    BY <2>2, OpenClears DEF Select, Forgotten
  <2>3. CASE Started
    BY <2>3, OpenClears DEF Started
  <2>4. CASE \E about \in Runs \cup {AllRuns} : Deliver(about)
    <3>. PICK about \in Runs \cup {AllRuns}, q \in BagToSet(wire) :
              /\ IF q.about = AllRuns THEN ListReply(q) ELSE RunReply(q)
              /\ UNCHANGED selected
      BY <2>4 DEF Deliver
    <3>1. CASE q.about = AllRuns
      BY <3>1 DEF ListReply, ViewIsOfSelection
    <3>2. CASE q.about # AllRuns
      BY <3>2, ReplyIsWanted
    <3>. QED
      BY <3>1, <3>2
  <2>5. CASE \E r \in Runs : Post(r) \/ Forget(r) \/ Finish(r) \/ Evict(r)
    BY <2>1, <2>5 DEF Post, Forget, Finish, Evict
  <2>6. CASE PostFails \/ Lose \/ Tick \/ ListTick
    BY <2>1, <2>6 DEF PostFails, Lose, Tick, ListTick
  <2>7. CASE \E about \in Runs \cup {AllRuns} : Answer(about)
    BY <2>1, <2>7 DEF Answer
  <2>8. CASE UNCHANGED pageVars
    BY <2>1, <2>8 DEF pageVars
  <2>. QED
    BY <2>2, <2>3, <2>4, <2>5, <2>6, <2>7, <2>8 DEF PageNext
<1>. QED
  BY <1>1, <1>2, PTL DEF PageSpec
=============================================================================
