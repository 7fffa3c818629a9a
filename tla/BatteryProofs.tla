--------------------------- MODULE BatteryProofs ----------------------------
(***************************************************************************)
(* The battery desk for any day, grid, window, size and course of days:     *)
(* what the solver's table finds (solver.rs), what the engine makes of a    *)
(* schedule (engine.rs), and what the session's day then says of it         *)
(* (lib.rs).                                                               *)
(***************************************************************************)
EXTENDS BatterySession, FiniteSetTheorems, SequenceTheorems, TLAPS

USE DEF Full, LowerOf, HigherOf

\* The grid and the bounds on it are numbers.
LEMMA Grid ==
  /\ Hours \in Nat \ {0} /\ Capacity \in Nat /\ Nodes = 0 .. Capacity
  /\ StartNode \in Nat /\ Reserve \in Nat /\ Reserve <= StartNode
BY GridAssumption, BandAssumption, StartAssumption DEF Nodes

\* The start of the day is inside every band at every hour, reserve or not.
LEMMA StartInBand ==
  ASSUME NEW kind \in ScheduleKinds, NEW w, NEW h
  PROVE  /\ FloorAt(kind, w, h) \in Nat /\ FloorAt(kind, w, h) <= StartNode
         /\ Ceiling(kind) \in Nat /\ StartNode <= Ceiling(kind)
<1>1. /\ Low[kind] \in Nat /\ High[kind] \in Nat /\ MinNode \in Nat /\ MaxNode \in Nat
      /\ Low[kind] <= StartNode /\ StartNode <= High[kind]
      /\ MinNode <= StartNode /\ StartNode <= MaxNode
  BY Grid, BandAssumption, StartAssumption
<1>. QED
  BY <1>1, Grid DEF FloorAt, Ceiling, StandingFloor

-----------------------------------------------------------------------------
(* Numbers *)

\* A sum adds what it meets to what it has.
Plus(sum, x) == x + sum
Sums == INSTANCE FoldRules WITH op <- Plus

\* The sum over the hours of a day is a number.
LEMMA DaySumType == ASSUME NEW f \in [Day -> Int] PROVE DaySum(f) \in Int
<1>. DEFINE pick(s) == CHOOSE x \in s : TRUE
            Iter(g) == g = [s \in SUBSET Day |->
                              IF s = {} THEN 0 ELSE f[pick(s)] + g[s \ {pick(s)}]]
            it == CHOOSE g : Iter(g)
            c == [s \in SUBSET Day |-> pick(s)]
<1>1. IsFiniteSet(Day)
  BY GridAssumption, FS_Interval DEF Day
<1>2. \A s \in SUBSET Day : s # {} => pick(s) \in s
  OBVIOUS
<1>3. \E g : Iter(g)
  <2>1. PICK g : Sums!IsIter(g, 0, f, Day, c)
    <3>1. \A s \in SUBSET Day : s # {} => c[s] \in s
      BY <1>2
    <3>2. Sums!IsFiniteSet(Day)
      BY <1>1 DEF IsFiniteSet, Sums!IsFiniteSet
    <3>. HIDE DEF c
    <3>. QED
      BY <3>1, <3>2, Sums!IterExists
  <2>. HIDE DEF pick
  <2>2. Iter(g)
    BY <2>1 DEF Sums!IsIter, Plus
  <2>. QED
    BY <2>2
<1>4. Iter(it)
  BY <1>3
<1>5. DaySum(f) = it[Day]
  BY DEF DaySum, MapThenSumSet, MapThenFoldSet
<1>. HIDE DEF it, pick
<1>6. \A s \in SUBSET Day : it[s] = IF s = {} THEN 0 ELSE f[pick(s)] + it[s \ {pick(s)}]
  BY <1>4
<1>. DEFINE T == {k \in Nat : \A s \in SUBSET Day : Cardinality(s) = k => it[s] \in Int}
<1>7. \A s \in SUBSET Day : IsFiniteSet(s) /\ Cardinality(s) \in Nat /\ (Cardinality(s) = 0 <=> s = {})
  BY <1>1, FS_Subset, FS_CardinalityType, FS_EmptySet
<1>8. 0 \in T
  <2>1. {} \in SUBSET Day /\ it[{}] = 0
    BY <1>6
  <2>. QED
    BY <1>7, <2>1
<1>9. ASSUME NEW k \in Nat, k \in T PROVE k + 1 \in T
  <2>. SUFFICES ASSUME NEW s \in SUBSET Day, Cardinality(s) = k + 1 PROVE it[s] \in Int
    OBVIOUS
  <2>1. s # {} /\ pick(s) \in s /\ pick(s) \in Day /\ s \ {pick(s)} \in SUBSET Day
    BY <1>2, <1>7
  <2>2. Cardinality(s \ {pick(s)}) = k
    BY <1>7, <2>1, FS_RemoveElement
  <2>3. it[s \ {pick(s)}] \in Int
    BY <1>9, <2>1, <2>2
  <2>. QED
    BY <1>6, <2>1, <2>3
<1>10. Cardinality(Day) \in T
  <2>. HIDE DEF T
  <2>. QED
    BY <1>7, <1>8, <1>9, Sums!NatSetInduction
<1>. QED
  BY <1>5, <1>10

\* What an hour may cost, and how far it may move, are numbers.
LEMMA StepTypes ==
  /\ 0 \in Deltas /\ Deltas \in SUBSET Int
  /\ \A delta, price \in Int : Cash(delta, price) \in Int
  /\ \A kind \in ScheduleKinds : \A delta \in Int : WearOf(kind, delta) \in Int
  /\ \A prices \in [Day -> Int] : \A node \in Int : LeftOver(prices, node) \in Int
<1>1. /\ Power \in Nat /\ EffNum \in Nat \ {0} /\ EffDen \in Nat \ {0} /\ Hours \in Nat /\ Wear \in Nat
  BY GridAssumption
<1>2. 0 \in Deltas /\ Deltas \in SUBSET Int
  <2>1. \A x \in Nat : x \div EffDen \in Nat /\ x \div EffNum \in Nat
    BY <1>1
  <2>2. Power * EffNum \in Nat /\ Power * EffDen \in Nat
    BY <1>1
  <2>3. MaxChargeSteps \in Nat /\ MaxDischargeSteps \in Nat
    BY <2>1, <2>2 DEF MaxChargeSteps, MaxDischargeSteps
  <2>. QED
    BY <2>3 DEF Deltas
<1>3. \A delta, price \in Int : Cash(delta, price) \in Int
  BY <1>1 DEF Cash
<1>4. \A kind \in ScheduleKinds : \A delta \in Int : WearOf(kind, delta) \in Int
  BY <1>1, BandAssumption DEF WearOf, Abs
<1>5. \A prices \in [Day -> Int] : \A node \in Int : LeftOver(prices, node) \in Int
  BY <1>1, DaySumType DEF LeftOver, Total
<1>. QED
  BY <1>2, <1>3, <1>4, <1>5

\* What a function makes of finitely many arguments is finite.
LEMMA ImageIsFinite ==
  ASSUME NEW S, IsFiniteSet(S), NEW f
  PROVE  IsFiniteSet({f[x] : x \in S})
<1>. DEFINE T == {f[x] : x \in S}
            g == [x \in S |-> f[x]]
<1>1. g \in Surjection(S, T)
  BY DEF Surjection
<1>. HIDE DEF T, g
<1>2. IsFiniteSet(T)
  BY <1>1, FS_Surjection
<1>. QED
  BY <1>2 DEF T

-----------------------------------------------------------------------------
(* The table *)

\* Of finitely many moves one is the best.
LEMMA BestIs ==
  ASSUME NEW M, IsFiniteSet(M), M # {}, \A m \in M : m.worth \in Int /\ m.delta \in Int
  PROVE  Best(M) \in M /\ \A n \in M : Precedes(Best(M), n)
<1>. DEFINE T == {k \in Nat : \A s \in SUBSET M :
                    s # {} /\ Cardinality(s) <= k => \E m \in s : \A n \in s : Precedes(m, n)}
<1>1. \A s \in SUBSET M : IsFiniteSet(s) /\ Cardinality(s) \in Nat /\ (Cardinality(s) = 0 <=> s = {})
  BY FS_Subset, FS_CardinalityType, FS_EmptySet
<1>2. 0 \in T
  BY <1>1
<1>3. ASSUME NEW k \in Nat, k \in T PROVE k + 1 \in T
  <2>. SUFFICES ASSUME NEW s \in SUBSET M, s # {}, Cardinality(s) <= k + 1
                PROVE  \E m \in s : \A n \in s : Precedes(m, n)
    OBVIOUS
  <2>1. PICK x : x \in s
    OBVIOUS
  <2>2. s \ {x} \in SUBSET M /\ Cardinality(s \ {x}) <= k
    BY <1>1, <2>1, FS_RemoveElement
  <2>3. CASE s \ {x} = {}
    BY <2>1, <2>3 DEF Precedes
  <2>4. CASE s \ {x} # {}
    <3>1. PICK m \in s \ {x} : \A n \in s \ {x} : Precedes(m, n)
      BY <1>3, <2>2, <2>4
    <3>2. CASE Precedes(m, x)
      BY <3>1, <3>2
    <3>3. CASE ~ Precedes(m, x)
      <4>1. \A n \in s \ {x} : Precedes(x, n)
        BY <2>1, <3>1, <3>3 DEF Precedes
      <4>2. Precedes(x, x)
        BY <2>1 DEF Precedes
      <4>. QED
        BY <2>1, <4>1, <4>2
    <3>. QED
      BY <3>2, <3>3
  <2>. QED
    BY <2>3, <2>4
<1>4. Cardinality(M) \in T
  <2>. HIDE DEF T
  <2>. QED
    BY <1>1, <1>2, <1>3, Sums!NatSetInduction
<1>5. \E m \in M : \A n \in M : Precedes(m, n)
  BY <1>1, <1>4
<1>. QED
  BY <1>5 DEF Best

\* Stored energy and what it makes, as the rows of the table tell it.
RowOf(kind, w, h, R) ==
  /\ IsFiniteSet(R)
  /\ \A m \in R : /\ m.node \in Nodes /\ m.worth \in Int /\ m.delta \in Int
                  /\ InBand(kind, w, h, m.node)
                  /\ \A n \in R : n.node = m.node => n = m

\* What a move makes now.
Gain(kind, price, delta) == Cash(delta, price) - WearOf(kind, delta)

\* A row of the table has one move for each node: one that the limits allow, to a node of
\* the row ahead, and the best of these.
LEMMA RowIs ==
  ASSUME NEW kind \in ScheduleKinds, NEW price \in Int, NEW w, NEW h, NEW ahead,
         RowOf(kind, w, h + 1, ahead)
  PROVE  LET R == Row(kind, price, w, h, ahead) IN
           /\ RowOf(kind, w, h, R)
           /\ \A m \in R : /\ m.delta \in Deltas
                           /\ \E s \in ahead : /\ s.node = m.node + m.delta
                                               /\ m.worth = Gain(kind, price, m.delta) + s.worth
           /\ \A node \in Nodes : \A s \in ahead :
                InBand(kind, w, h, node) /\ s.node - node \in Deltas =>
                  \E m \in R : m.node = node /\ m.worth >= Gain(kind, price, s.node - node) + s.worth
<1>. DEFINE R == Row(kind, price, w, h, ahead)
            M(node) == Moves(kind, price, ahead, node)
            move(node, s) == [node |-> node, delta |-> s.node - node,
                              worth |-> Cash(s.node - node, price) - WearOf(kind, s.node - node)
                                          + s.worth]
            ways(node) == {s \in ahead : s.node - node \in Deltas}
            on == {node \in Nodes : InBand(kind, w, h, node) /\ M(node) # {}}
<1>1. \A s \in ahead : s.node \in Int /\ s.worth \in Int
  BY Grid DEF RowOf
<1>2. \A node \in Nodes : node \in Int
  BY Grid
<1>3. \A node \in Nodes : M(node) = {move(node, s) : s \in ways(node)}
  BY DEF Moves
<1>4. ASSUME NEW node \in Nodes, NEW m \in M(node)
      PROVE  /\ m.node = node /\ m.delta \in Deltas /\ m.delta \in Int /\ m.worth \in Int
             /\ \E s \in ahead : /\ s.node = m.node + m.delta
                                 /\ m.worth = Gain(kind, price, m.delta) + s.worth
  <2>1. PICK s \in ways(node) : m = move(node, s)
    BY <1>3
  <2>2. /\ s \in ahead /\ s.node - node \in Deltas /\ s.node - node \in Int
        /\ s.node = node + (s.node - node)
    BY <1>1, <1>2
  <2>3. Cash(s.node - node, price) \in Int /\ WearOf(kind, s.node - node) \in Int
    BY <2>2, StepTypes
  <2>. QED
    BY <1>1, <2>1, <2>2, <2>3 DEF Gain
<1>5. ASSUME NEW node \in Nodes, M(node) # {}
      PROVE  Best(M(node)) \in M(node) /\ \A n \in M(node) : Precedes(Best(M(node)), n)
  <2>1. IsFiniteSet(ways(node))
    BY FS_Subset DEF RowOf
  <2>2. IsFiniteSet({move(node, s) : s \in ways(node)})
    <3>. DEFINE f == [s \in ways(node) |-> move(node, s)]
    <3>1. {f[s] : s \in ways(node)} = {move(node, s) : s \in ways(node)}
      OBVIOUS
    <3>. HIDE DEF f, ways, move
    <3>. QED
      BY <2>1, <3>1, ImageIsFinite
  <2>3. IsFiniteSet(M(node))
    BY <1>3, <2>2
  <2>4. \A m \in M(node) : m.worth \in Int /\ m.delta \in Int
    BY <1>4
  <2>. HIDE DEF M
  <2>. QED
    BY <1>5, <2>3, <2>4, BestIs
<1>6. R = {Best(M(node)) : node \in on}
  BY DEF Row
<1>7. \A node \in on : node \in Nodes /\ InBand(kind, w, h, node) /\ Best(M(node)) \in M(node)
  BY <1>5
<1>8. RowOf(kind, w, h, R)
  <2>1. IsFiniteSet(on)
    <3>1. IsFiniteSet(Nodes)
      BY Grid, FS_Interval
    <3>. QED
      BY <3>1, FS_Subset
  <2>2. IsFiniteSet(R)
    <3>. DEFINE f == [node \in on |-> Best(M(node))]
    <3>1. {f[node] : node \in on} = {Best(M(node)) : node \in on}
      OBVIOUS
    <3>. HIDE DEF f, on, M, R
    <3>. QED
      BY <1>6, <2>1, <3>1, ImageIsFinite
  <2>. HIDE DEF on, M, R
  <2>3. ASSUME NEW m \in R
        PROVE  \E node \in on : m = Best(M(node)) /\ m.node = node
    BY <1>4, <1>6, <1>7
  <2>. QED
    BY <1>4, <1>6, <1>7, <2>2, <2>3 DEF RowOf
<1>9. ASSUME NEW m \in R
      PROVE  /\ m.delta \in Deltas
             /\ \E s \in ahead : s.node = m.node + m.delta /\ m.worth = Gain(kind, price, m.delta) + s.worth
  <2>. HIDE DEF on, M, R
  <2>. QED
    BY <1>4, <1>6, <1>7
<1>10. ASSUME NEW node \in Nodes, NEW s \in ahead, InBand(kind, w, h, node), s.node - node \in Deltas
       PROVE  \E m \in R : m.node = node /\ m.worth >= Gain(kind, price, s.node - node) + s.worth
  <2>1. move(node, s) \in M(node)
    BY <1>3, <1>10
  <2>2. node \in on
    BY <1>10, <2>1
  <2>3. Best(M(node)) \in R /\ Best(M(node)) \in M(node) /\ Precedes(Best(M(node)), move(node, s))
    <3>. HIDE DEF on, M, R, move
    <3>. QED
      BY <1>5, <1>6, <2>1, <2>2
  <2>4. Best(M(node)).node = node /\ Best(M(node)).worth \in Int /\ move(node, s).worth \in Int
    <3>. HIDE DEF on, M, R, move
    <3>. QED
      BY <1>4, <2>1, <2>3
  <2>5. move(node, s).worth = Gain(kind, price, s.node - node) + s.worth
    BY DEF Gain
  <2>6. Best(M(node)).worth >= move(node, s).worth
    <3>. HIDE DEF M, move
    <3>. QED
      BY <2>3, <2>4 DEF Precedes
  <2>. HIDE DEF M, R, move
  <2>. QED
    BY <2>3, <2>4, <2>5, <2>6
<1>. QED
  BY <1>8, <1>9, <1>10

\* The row after the last hour.
LEMMA LastRowIs ==
  ASSUME NEW kind \in ScheduleKinds, NEW prices \in [Day -> Int], NEW w
  PROVE  /\ RowOf(kind, w, Hours, LastRow(kind, prices, w))
         /\ \A m \in LastRow(kind, prices, w) : m.worth = LeftOver(prices, m.node)
         /\ \A node \in Nodes : InBand(kind, w, Hours, node) =>
              \E m \in LastRow(kind, prices, w) : m.node = node
<1>. DEFINE on == {node \in Nodes : InBand(kind, w, Hours, node)}
            entry(node) == [node |-> node, delta |-> 0, worth |-> LeftOver(prices, node)]
<1>1. LastRow(kind, prices, w) = {entry(node) : node \in on}
  BY DEF LastRow
<1>2. IsFiniteSet(LastRow(kind, prices, w))
  <2>1. IsFiniteSet(on)
    <3>1. IsFiniteSet(Nodes)
      BY Grid, FS_Interval
    <3>. QED
      BY <3>1, FS_Subset
  <2>. DEFINE f == [node \in on |-> entry(node)]
  <2>2. {f[node] : node \in on} = {entry(node) : node \in on}
    OBVIOUS
  <2>. HIDE DEF f, on, entry
  <2>. QED
    <3>1. IsFiniteSet({f[node] : node \in on})
      BY <2>1, ImageIsFinite
    <3>. QED
      BY <1>1, <2>2, <3>1
<1>3. \A node \in on : LeftOver(prices, node) \in Int
  <2>1. \A node \in on : node \in Int
    BY Grid
  <2>. QED
    BY <2>1, StepTypes
<1>4. \A node \in on : entry(node).node = node /\ entry(node).delta = 0 /\ entry(node).worth = LeftOver(prices, node)
  OBVIOUS
<1>5. \A node \in on : node \in Nodes /\ InBand(kind, w, Hours, node)
  OBVIOUS
<1>. HIDE DEF entry
<1>6. \A m \in LastRow(kind, prices, w) : \E node \in on : m = entry(node) /\ m.node = node
  BY <1>1, <1>4
<1>7. \A node \in Nodes : InBand(kind, w, Hours, node) =>
              \E m \in LastRow(kind, prices, w) : m.node = node
  BY <1>1, <1>4
<1>. HIDE DEF on
<1>. QED
  BY <1>2, <1>3, <1>4, <1>5, <1>6, <1>7 DEF RowOf

\* A row for each hour, from the one ahead of it.
Filled(ahead, x) == Row(x.kind, x.price, x.w, x.h, ahead)
Rows == INSTANCE FoldRules WITH op <- Filled

LEMMA TableRows ==
  ASSUME NEW kind, NEW prices, NEW w
  PROVE  /\ Table(kind, prices, w)[Hours] = LastRow(kind, prices, w)
         /\ \A h \in Day : Table(kind, prices, w)[h]
                             = Row(kind, prices[h], w, h, Table(kind, prices, w)[h + 1])
<1>. DEFINE entry(h) == [kind |-> kind, price |-> prices[h], w |-> w, h |-> h]
            seq == [k \in 1 .. Hours |-> entry(Hours - k)]
            last == LastRow(kind, prices, w)
            Fills(f) == f = [h \in 0 .. Hours |->
                               IF h = Hours THEN last ELSE Row(kind, prices[h], w, h, f[h + 1])]
            rows == CHOOSE f : Fills(f)
<1>1. Hours \in Nat
  BY Grid
<1>2. PICK g : Rows!Steps(g, last, seq, Hours)
  <2>1. DOMAIN seq = 1 .. Hours
    OBVIOUS
  <2>. HIDE DEF seq, last
  <2>. QED
    BY <1>1, <2>1, Rows!LeftSteps
<1>. DEFINE f == [h \in 0 .. Hours |-> g[Hours - h]]
<1>3. Fills(f)
  <2>1. f[Hours] = last
    BY <1>1, <1>2 DEF Rows!Steps
  <2>2. ASSUME NEW h \in 0 .. Hours, h # Hours
        PROVE  f[h] = Row(kind, prices[h], w, h, f[h + 1])
    <3>1. /\ Hours - h \in 1 .. Hours /\ h + 1 \in 0 .. Hours
          /\ Hours - h - 1 = Hours - (h + 1) /\ Hours - (Hours - h) = h
      BY <1>1, <2>2
    <3>2. g[Hours - h] = Filled(g[Hours - h - 1], seq[Hours - h])
      BY <1>2, <3>1 DEF Rows!Steps
    <3>3. seq[Hours - h] = entry(h)
      BY <3>1
    <3>. HIDE DEF seq
    <3>. QED
      BY <3>1, <3>2, <3>3 DEF Filled
  <2>. HIDE DEF last
  <2>. QED
    BY <2>1, <2>2
<1>4. Fills(rows)
  <2>. HIDE DEF f, Fills
  <2>. QED
    BY <1>3
<1>5. Table(kind, prices, w) = rows
  BY DEF Table
<1>. HIDE DEF rows
<1>. QED
  BY <1>1, <1>4, <1>5 DEF Day

\* The walk goes where each row leads.
LedBy(node, row) == Led(row, node)
Paths == INSTANCE FoldRules WITH op <- LedBy

LEMMA SolveWalks ==
  ASSUME NEW kind \in ScheduleKinds, NEW prices, NEW w
  PROVE  LET soc == Solve(kind, prices, w) IN
           /\ soc = [h \in 0 .. Hours |-> soc[h]]
           /\ soc[0] = StartNode
           /\ \A h \in Day : soc[h + 1] = Led(Table(kind, prices, w)[h], soc[h])
<1>. DEFINE rows == Table(kind, prices, w)
            start == LowerOf(HigherOf(StartNode, FloorAt(kind, w, 0)), Ceiling(kind))
            seq == [k \in 1 .. Hours |-> rows[k - 1]]
            Walked(f) == f = [h \in 0 .. Hours |-> IF h = 0 THEN start
                                                   ELSE Led(rows[h - 1], f[h - 1])]
            soc == CHOOSE f : Walked(f)
<1>1. Hours \in Nat
  BY Grid
<1>2. PICK g : Paths!Steps(g, start, seq, Hours)
  <2>1. DOMAIN seq = 1 .. Hours
    OBVIOUS
  <2>. HIDE DEF seq, start
  <2>. QED
    BY <1>1, <2>1, Paths!LeftSteps
<1>. DEFINE f == [h \in 0 .. Hours |-> g[h]]
<1>3. Walked(f)
  <2>1. f[0] = start
    BY <1>1, <1>2 DEF Paths!Steps
  <2>2. ASSUME NEW h \in 0 .. Hours, h # 0
        PROVE  f[h] = Led(rows[h - 1], f[h - 1])
    <3>1. h \in 1 .. Hours /\ h - 1 \in 0 .. Hours
      BY <1>1, <2>2
    <3>2. g[h] = LedBy(g[h - 1], seq[h])
      BY <1>2, <3>1 DEF Paths!Steps
    <3>. HIDE DEF rows
    <3>. QED
      BY <3>1, <3>2 DEF LedBy
  <2>. HIDE DEF start, rows
  <2>. QED
    BY <2>1, <2>2
<1>4. Walked(soc)
  <2>. HIDE DEF f, Walked
  <2>. QED
    BY <1>3
<1>5. Solve(kind, prices, w) = soc
  BY DEF Solve
<1>6. start = StartNode
  BY Grid, StartInBand
<1>. HIDE DEF soc, start, rows
<1>7. soc = [h \in 0 .. Hours |-> IF h = 0 THEN start ELSE Led(rows[h - 1], soc[h - 1])]
  BY <1>4
<1>8. ASSUME NEW h \in Day PROVE soc[h + 1] = Led(rows[h], soc[h])
  <2>1. h + 1 \in 0 .. Hours /\ h + 1 # 0 /\ (h + 1) - 1 = h
    BY <1>1 DEF Day
  <2>2. \A k \in 0 .. Hours : k # 0 => soc[k] = Led(rows[k - 1], soc[k - 1])
    BY <1>4
  <2>3. soc[h + 1] = Led(rows[(h + 1) - 1], soc[(h + 1) - 1])
    BY <2>1, <2>2
  <2>. QED
    BY <2>1, <2>3
<1>9. soc[0] = start /\ soc = [h \in 0 .. Hours |-> soc[h]]
  BY <1>1, <1>7
<1>. QED
  BY <1>5, <1>6, <1>8, <1>9 DEF rows

\* What a walk makes from an hour on.
Made(kind, prices, s, from) ==
  /\ from[Hours] = LeftOver(prices, s[Hours])
  /\ \A h \in Day : from[h] = Gain(kind, prices[h], s[h + 1] - s[h]) + from[h + 1]

\* Each hour's gain is added to what the rest of the day makes.
Earned(rest, x) == Cash(x.delta, x.price) - WearOf(x.kind, x.delta) + rest
Earnings == INSTANCE FoldRules WITH op <- Earned

LEMMA WorthIs ==
  ASSUME NEW kind, NEW prices, NEW s
  PROVE  \E from : Worth(kind, prices, s) = from[0] /\ Made(kind, prices, s, from)
<1>. DEFINE entry(h) == [kind |-> kind, price |-> prices[h], delta |-> s[h + 1] - s[h]]
            seq == [k \in 1 .. Hours |-> entry(Hours - k)]
            last == LeftOver(prices, s[Hours])
            Adds(f) == f = [h \in 0 .. Hours |->
                              IF h = Hours THEN LeftOver(prices, s[h])
                              ELSE Cash(s[h + 1] - s[h], prices[h]) - WearOf(kind, s[h + 1] - s[h])
                                     + f[h + 1]]
            from == CHOOSE f : Adds(f)
<1>1. Hours \in Nat
  BY Grid
<1>2. PICK g : Earnings!Steps(g, last, seq, Hours)
  <2>1. DOMAIN seq = 1 .. Hours
    OBVIOUS
  <2>. HIDE DEF seq, last
  <2>. QED
    BY <1>1, <2>1, Earnings!LeftSteps
<1>. DEFINE f == [h \in 0 .. Hours |-> g[Hours - h]]
<1>3. Adds(f)
  <2>1. f[Hours] = last
    BY <1>1, <1>2 DEF Earnings!Steps
  <2>2. ASSUME NEW h \in 0 .. Hours, h # Hours
        PROVE  f[h] = Cash(s[h + 1] - s[h], prices[h]) - WearOf(kind, s[h + 1] - s[h]) + f[h + 1]
    <3>1. /\ Hours - h \in 1 .. Hours /\ h + 1 \in 0 .. Hours
          /\ Hours - h - 1 = Hours - (h + 1) /\ Hours - (Hours - h) = h
      BY <1>1, <2>2
    <3>2. g[Hours - h] = Earned(g[Hours - h - 1], seq[Hours - h])
      BY <1>2, <3>1 DEF Earnings!Steps
    <3>3. seq[Hours - h] = entry(h)
      BY <3>1
    <3>. HIDE DEF seq
    <3>. QED
      BY <3>1, <3>2, <3>3 DEF Earned
  <2>. HIDE DEF f
  <2>3. f = [h \in 0 .. Hours |-> f[h]]
    BY DEF f
  <2>. QED
    BY <2>1, <2>2, <2>3
<1>4. Adds(from)
  <2>. HIDE DEF f, Adds
  <2>. QED
    BY <1>3
<1>5. Worth(kind, prices, s) = from[0]
  BY DEF Worth
<1>. HIDE DEF from
<1>6. Made(kind, prices, s, from)
  BY <1>1, <1>4 DEF Made, Gain, Day
<1>. QED
  BY <1>5, <1>6

-----------------------------------------------------------------------------
(* Walks *)

\* The walks of the first h hours.
WalksUpTo(kind, w, h) ==
  {s \in [0 .. h -> Nodes] :
     /\ s[0] = StartNode
     /\ \A k \in 1 .. h : InBand(kind, w, k, s[k]) /\ s[k] - s[k - 1] \in Deltas}

\* Every walk so far is taken an hour on.
TakenOn(walks, x) ==
  {s \in {[i \in 0 .. x.h |-> IF i = x.h THEN n ELSE t[i]] : t \in walks, n \in Nodes} :
     InBand(x.kind, x.w, x.h, s[x.h]) /\ s[x.h] - s[x.h - 1] \in Deltas}
Outings == INSTANCE FoldRules WITH op <- TakenOn

LEMMA OneHourOn ==
  ASSUME NEW kind, NEW w, NEW h \in Nat
  PROVE  TakenOn(WalksUpTo(kind, w, h), [kind |-> kind, w |-> w, h |-> h + 1])
           = WalksUpTo(kind, w, h + 1)
<1>. DEFINE n == h + 1
            old == WalksUpTo(kind, w, h)
            on(t, e) == [i \in 0 .. n |-> IF i = n THEN e ELSE t[i]]
            new == {s \in {on(t, e) : t \in old, e \in Nodes} :
                      InBand(kind, w, n, s[n]) /\ s[n] - s[n - 1] \in Deltas}
<1>0. TakenOn(old, [kind |-> kind, w |-> w, h |-> n]) = new
  BY DEF TakenOn
<1>1. /\ n \in Nat /\ n - 1 = h /\ n \in 0 .. n /\ n \notin 0 .. h /\ h \in 0 .. n /\ h # n
      /\ \A i \in 0 .. n : i = n \/ i \in 0 .. h
      /\ \A i \in 0 .. h : i \in 0 .. n /\ i # n
      /\ \A k \in 1 .. n : k = n \/ k \in 1 .. h
      /\ \A k \in 1 .. h : k \in 0 .. h /\ k - 1 \in 0 .. h /\ k \in 1 .. n
      /\ n \in 1 .. n /\ 0 \in 0 .. h
  OBVIOUS
<1>. HIDE DEF n
<1>2. ASSUME NEW s \in new PROVE s \in WalksUpTo(kind, w, n)
  <2>1. PICK t \in old, e \in Nodes : s = on(t, e)
    OBVIOUS
  <2>2. t \in [0 .. h -> Nodes] /\ t[0] = StartNode
        /\ \A k \in 1 .. h : InBand(kind, w, k, t[k]) /\ t[k] - t[k - 1] \in Deltas
    BY DEF WalksUpTo
  <2>3. s \in [0 .. n -> Nodes] /\ s[n] = e /\ \A i \in 0 .. h : s[i] = t[i]
    BY <1>1, <2>1, <2>2
  <2>4. \A k \in 1 .. n : InBand(kind, w, k, s[k]) /\ s[k] - s[k - 1] \in Deltas
    BY <1>1, <2>2, <2>3
  <2>5. s[0] = StartNode
    BY <1>1, <2>2, <2>3
  <2>. QED
    BY <2>3, <2>4, <2>5 DEF WalksUpTo
<1>3. ASSUME NEW s \in WalksUpTo(kind, w, n) PROVE s \in new
  <2>1. s \in [0 .. n -> Nodes] /\ s[0] = StartNode
        /\ \A k \in 1 .. n : InBand(kind, w, k, s[k]) /\ s[k] - s[k - 1] \in Deltas
    BY DEF WalksUpTo
  <2>. DEFINE t == [i \in 0 .. h |-> s[i]]
  <2>2. t \in old
    <3>1. t \in [0 .. h -> Nodes] /\ t[0] = StartNode
      BY <1>1, <2>1
    <3>2. \A k \in 1 .. h : t[k] = s[k] /\ t[k - 1] = s[k - 1]
      BY <1>1
    <3>3. \A k \in 1 .. h : InBand(kind, w, k, t[k]) /\ t[k] - t[k - 1] \in Deltas
      BY <1>1, <2>1, <3>2
    <3>. HIDE DEF t
    <3>. QED
      BY <3>1, <3>3 DEF WalksUpTo
  <2>3. s = on(t, s[n]) /\ s[n] \in Nodes
    BY <1>1, <2>1
  <2>4. InBand(kind, w, n, s[n]) /\ s[n] - s[n - 1] \in Deltas
    BY <1>1, <2>1
  <2>. HIDE DEF t, on, old
  <2>. QED
    BY <2>2, <2>3, <2>4
<1>4. new = WalksUpTo(kind, w, n)
  <2>. HIDE DEF new
  <2>. QED
    BY <1>2, <1>3
<1>5. TakenOn(old, [kind |-> kind, w |-> w, h |-> n]) = WalksUpTo(kind, w, n)
  <2>. HIDE DEF new, old
  <2>. QED
    BY <1>0, <1>4
<1>. QED
  BY <1>5 DEF n

LEMMA WalksAre ==
  ASSUME NEW kind, NEW w
  PROVE  Walks(kind, w) = WalksUpTo(kind, w, Hours)
<1>. DEFINE entry(h) == [kind |-> kind, w |-> w, h |-> h]
            seq == [k \in 1 .. Hours |-> entry(k)]
            base == {[i \in {0} |-> StartNode]}
            step(f, h) == {s \in {[i \in 0 .. h |-> IF i = h THEN n ELSE t[i]] :
                                    t \in f[h - 1], n \in Nodes} :
                             InBand(kind, w, h, s[h]) /\ s[h] - s[h - 1] \in Deltas}
            Grows(f) == f = [h \in 0 .. Hours |-> IF h = 0 THEN base ELSE step(f, h)]
            upTo == CHOOSE f : Grows(f)
<1>1. Hours \in Nat
  BY Grid
<1>2. PICK g : Outings!Steps(g, base, seq, Hours)
  <2>1. DOMAIN seq = 1 .. Hours
    OBVIOUS
  <2>. HIDE DEF seq, base
  <2>. QED
    BY <1>1, <2>1, Outings!LeftSteps
<1>. DEFINE f == [h \in 0 .. Hours |-> g[h]]
<1>3. Grows(f)
  <2>1. f[0] = base
    BY <1>1, <1>2 DEF Outings!Steps
  <2>2. ASSUME NEW h \in 0 .. Hours, h # 0 PROVE f[h] = step(f, h)
    <3>1. h \in 1 .. Hours /\ h - 1 \in 0 .. Hours
      BY <1>1, <2>2
    <3>2. g[h] = TakenOn(g[h - 1], entry(h))
      BY <1>2, <3>1 DEF Outings!Steps
    <3>. QED
      BY <3>1, <3>2 DEF TakenOn
  <2>3. f = [h \in 0 .. Hours |-> f[h]]
    OBVIOUS
  <2>. HIDE DEF f, base, step
  <2>. QED
    BY <2>1, <2>2, <2>3
<1>4. Grows(upTo)
  <2>. HIDE DEF f, Grows
  <2>. QED
    BY <1>3
<1>5. Walks(kind, w) = upTo[Hours]
  BY DEF Walks
<1>6. \A h \in 0 .. Hours : upTo[h] = IF h = 0 THEN base ELSE TakenOn(upTo[h - 1], entry(h))
  <2>. HIDE DEF upTo
  <2>1. \A h \in 0 .. Hours : upTo[h] = IF h = 0 THEN base ELSE step(upTo, h)
    <3>. HIDE DEF step, base
    <3>. QED
      BY <1>4
  <2>2. \A h \in 0 .. Hours : step(upTo, h) = TakenOn(upTo[h - 1], entry(h))
    BY DEF TakenOn
  <2>. HIDE DEF step, base, entry
  <2>. QED
    BY <2>1, <2>2
<1>. HIDE DEF upTo
<1>. DEFINE T == {h \in Nat : h <= Hours => upTo[h] = WalksUpTo(kind, w, h)}
<1>7. 0 \in T
  <2>1. upTo[0] = base
    <3>. HIDE DEF base, entry
    <3>. QED
      BY <1>1, <1>6
  <2>2. base = WalksUpTo(kind, w, 0)
    <3>1. 0 .. 0 = {0} /\ 1 .. 0 = {} /\ StartNode \in Nodes
      BY BandAssumption
    <3>2. \A s \in [{0} -> Nodes] : s[0] = StartNode <=> s = [i \in {0} |-> StartNode]
      OBVIOUS
    <3>. QED
      BY <3>1, <3>2 DEF WalksUpTo
  <2>. QED
    BY <2>1, <2>2
<1>8. ASSUME NEW h \in Nat, h \in T PROVE h + 1 \in T
  <2>. SUFFICES ASSUME h + 1 <= Hours PROVE upTo[h + 1] = WalksUpTo(kind, w, h + 1)
    OBVIOUS
  <2>1. h + 1 \in 0 .. Hours /\ h + 1 # 0 /\ (h + 1) - 1 = h /\ h <= Hours
    BY <1>1
  <2>2. upTo[h + 1] = TakenOn(upTo[h], entry(h + 1))
    <3>. DEFINE n == h + 1
    <3>1. n \in 0 .. Hours /\ n # 0 /\ n - 1 = h
      BY <2>1
    <3>. HIDE DEF n, base, entry
    <3>2. upTo[n] = TakenOn(upTo[n - 1], entry(n))
      BY <1>6, <3>1
    <3>. QED
      BY <3>1, <3>2 DEF n
  <2>3. upTo[h] = WalksUpTo(kind, w, h)
    BY <1>8, <2>1
  <2>. QED
    BY <2>2, <2>3, OneHourOn
<1>9. Hours \in T
  <2>. HIDE DEF T
  <2>. QED
    BY <1>1, <1>7, <1>8, Outings!NatSetInduction
<1>. QED
  BY <1>1, <1>5, <1>9

-----------------------------------------------------------------------------
(* The best plan *)

\* An induction over the hours of a day, forwards and backwards.
LEMMA Hourly ==
  ASSUME NEW S
  PROVE  /\ 0 \in S /\ (\A h \in Day : h \in S => h + 1 \in S) => 0 .. Hours \subseteq S
         /\ Hours \in S /\ (\A h \in Day : h + 1 \in S => h \in S) => 0 .. Hours \subseteq S
<1>1. Hours \in Nat
  BY Grid
<1>2. ASSUME 0 \in S, \A h \in Day : h \in S => h + 1 \in S
      PROVE  0 .. Hours \subseteq S
  <2>. DEFINE T == {k \in Nat : k <= Hours => k \in S}
  <2>1. 0 \in T
    BY <1>2
  <2>2. \A k \in Nat : k \in T => k + 1 \in T
    BY <1>1, <1>2 DEF Day
  <2>. HIDE DEF T
  <2>3. Nat \subseteq T
    BY <2>1, <2>2, Rows!NatSetInduction
  <2>. QED
    BY <1>1, <2>3 DEF T
<1>3. ASSUME Hours \in S, \A h \in Day : h + 1 \in S => h \in S
      PROVE  0 .. Hours \subseteq S
  <2>. DEFINE T == {k \in Nat : k <= Hours => Hours - k \in S}
  <2>1. 0 \in T
    BY <1>1, <1>3
  <2>2. ASSUME NEW k \in Nat, k \in T PROVE k + 1 \in T
    <3>. SUFFICES ASSUME k + 1 <= Hours PROVE Hours - (k + 1) \in S
      OBVIOUS
    <3>1. Hours - (k + 1) \in Day /\ Hours - (k + 1) + 1 = Hours - k /\ Hours - k \in S
      BY <1>1, <2>2 DEF Day
    <3>. QED
      BY <1>3, <3>1
  <2>3. Nat \subseteq T
    <3>. HIDE DEF T
    <3>. QED
      BY <2>1, <2>2, Rows!NatSetInduction
  <2>4. \A h \in 0 .. Hours : Hours - h \in Nat /\ Hours - h <= Hours /\ Hours - (Hours - h) = h
    BY <1>1
  <2>. QED
    BY <2>3, <2>4
<1>. QED
  BY <1>2, <1>3

\* Each row of the table is one of moves from nodes in the band.
LEMMA TableIs ==
  ASSUME NEW kind \in ScheduleKinds, NEW prices \in [Day -> Int], NEW w
  PROVE  \A h \in 0 .. Hours : RowOf(kind, w, h, Table(kind, prices, w)[h])
<1>. DEFINE rows == Table(kind, prices, w)
            S == {h \in 0 .. Hours : RowOf(kind, w, h, rows[h])}
<1>1. Hours \in S
  BY Grid, TableRows, LastRowIs
<1>2. ASSUME NEW h \in Day, h + 1 \in S PROVE h \in S
  <2>1. h \in 0 .. Hours /\ prices[h] \in Int /\ RowOf(kind, w, h + 1, rows[h + 1])
    BY <1>2, Grid DEF Day
  <2>2. RowOf(kind, w, h, Row(kind, prices[h], w, h, rows[h + 1]))
    <3>. HIDE DEF rows
    <3>. QED
      BY <2>1, RowIs
  <2>. QED
    BY <2>1, <2>2, TableRows
<1>. HIDE DEF S
<1>3. 0 .. Hours \subseteq S
  BY <1>1, <1>2, Hourly
<1>. QED
  BY <1>3 DEF S

\* A walk of the day from any hour on.
Keeps(kind, w, s) ==
  /\ s \in [0 .. Hours -> Nodes]
  /\ \A h \in 0 .. Hours : InBand(kind, w, h, s[h])
  /\ \A h \in Day : s[h + 1] - s[h] \in Deltas

\* No walk makes more, from any hour on, than the table tells of its node.
LEMMA TableBeats ==
  ASSUME NEW kind \in ScheduleKinds, NEW prices \in [Day -> Int], NEW w,
         NEW s, Keeps(kind, w, s), NEW from, Made(kind, prices, s, from)
  PROVE  \A h \in 0 .. Hours : /\ from[h] \in Int
                               /\ \E m \in Table(kind, prices, w)[h] :
                                    m.node = s[h] /\ m.worth >= from[h]
<1>. DEFINE rows == Table(kind, prices, w)
            Beats(h) == from[h] \in Int /\ \E m \in rows[h] : m.node = s[h] /\ m.worth >= from[h]
            S == {h \in 0 .. Hours : Beats(h)}
<1>0. /\ Hours \in 0 .. Hours
      /\ \A h \in 0 .. Hours : s[h] \in Nodes /\ s[h] \in Int /\ InBand(kind, w, h, s[h])
      /\ \A h \in Day : h \in 0 .. Hours /\ h + 1 \in 0 .. Hours /\ s[h + 1] - s[h] \in Deltas
  BY Grid DEF Keeps, Day
<1>1. Hours \in S
  <2>1. from[Hours] = LeftOver(prices, s[Hours]) /\ from[Hours] \in Int
    BY <1>0, StepTypes DEF Made
  <2>2. \E m \in rows[Hours] : m.node = s[Hours] /\ m.worth = LeftOver(prices, s[Hours])
    BY <1>0, LastRowIs, TableRows
  <2>. HIDE DEF rows
  <2>. QED
    BY <1>0, <2>1, <2>2
<1>2. ASSUME NEW h \in Day, h + 1 \in S PROVE h \in S
  <2>1. /\ h \in 0 .. Hours /\ h + 1 \in 0 .. Hours
        /\ prices[h] \in Int /\ s[h] \in Nodes /\ s[h] \in Int /\ s[h + 1] \in Int
        /\ s[h + 1] - s[h] \in Deltas /\ InBand(kind, w, h, s[h])
    BY <1>0
  <2>2. from[h + 1] \in Int /\ from[h] = Gain(kind, prices[h], s[h + 1] - s[h]) + from[h + 1]
    BY <1>2 DEF Made
  <2>3. PICK e \in rows[h + 1] : e.node = s[h + 1] /\ e.worth >= from[h + 1]
    BY <1>2
  <2>4. RowOf(kind, w, h + 1, rows[h + 1]) /\ RowOf(kind, w, h, rows[h])
    BY <2>1, TableIs
  <2>5. rows[h] = Row(kind, prices[h], w, h, rows[h + 1])
    BY TableRows
  <2>6. Gain(kind, prices[h], s[h + 1] - s[h]) \in Int
    <3>. DEFINE delta == s[h + 1] - s[h]
    <3>1. delta \in Int
      BY <2>1
    <3>. HIDE DEF delta
    <3>2. Cash(delta, prices[h]) \in Int /\ WearOf(kind, delta) \in Int
      BY <2>1, <3>1, StepTypes
    <3>. QED
      BY <3>2 DEF Gain, delta
  <2>. HIDE DEF rows
  <2>7. \E m \in rows[h] : m.node = s[h] /\ m.worth >= Gain(kind, prices[h], e.node - s[h]) + e.worth
    BY <2>1, <2>3, <2>4, <2>5, RowIs
  <2>8. \A m \in rows[h] : m.worth \in Int
    BY <2>4 DEF RowOf
  <2>9. e.worth \in Int
    BY <2>4 DEF RowOf
  <2>10. Beats(h)
    BY <2>2, <2>3, <2>6, <2>7, <2>8, <2>9
  <2>. QED
    BY <2>1, <2>10
<1>. HIDE DEF S
<1>3. 0 .. Hours \subseteq S
  BY <1>1, <1>2, Hourly
<1>. QED
  BY <1>3 DEF S

\* The plan goes from move to move of the table, each worth the next and its own gain.
Stop(kind, prices, w, h) ==
  CHOOSE m \in Table(kind, prices, w)[h] : m.node = Solve(kind, prices, w)[h]

LEMMA PlanFollows ==
  ASSUME NEW kind \in ScheduleKinds, NEW prices \in [Day -> Int], NEW w
  PROVE  /\ \A h \in 0 .. Hours :
              /\ Stop(kind, prices, w, h) \in Table(kind, prices, w)[h]
              /\ Stop(kind, prices, w, h).node = Solve(kind, prices, w)[h]
         /\ \A h \in Day :
              LET delta == Solve(kind, prices, w)[h + 1] - Solve(kind, prices, w)[h] IN
                /\ delta \in Deltas
                /\ Stop(kind, prices, w, h).worth
                     = Gain(kind, prices[h], delta) + Stop(kind, prices, w, h + 1).worth
<1>. DEFINE rows == Table(kind, prices, w)
            soc == Solve(kind, prices, w)
            stop(h) == Stop(kind, prices, w, h)
            S == {h \in 0 .. Hours : \E m \in rows[h] : m.node = soc[h]}
<1>1. 0 \in S
  <2>. DEFINE still == [h \in 0 .. Hours |-> StartNode]
  <2>1. Keeps(kind, w, still)
    <3>1. StartNode \in Nodes /\ StartNode - StartNode = 0
      BY Grid, BandAssumption
    <3>2. \A h \in 0 .. Hours : still[h] \in Nodes /\ InBand(kind, w, h, still[h])
      BY <3>1, StartInBand DEF InBand
    <3>3. \A h \in Day : still[h + 1] - still[h] \in Deltas
      BY <3>1, Grid, StepTypes DEF Day
    <3>. QED
      BY <3>2, <3>3 DEF Keeps
  <2>2. PICK from : Made(kind, prices, still, from)
    BY WorthIs
  <2>3. 0 \in 0 .. Hours /\ still[0] = StartNode
    BY Grid
  <2>. HIDE DEF still
  <2>4. \E m \in rows[0] : m.node = still[0]
    BY <2>1, <2>2, <2>3, TableBeats
  <2>. QED
    BY <2>3, <2>4, SolveWalks
<1>2. ASSUME NEW h \in Day, NEW m \in rows[h], m.node = soc[h]
      PROVE  /\ stop(h) = m /\ soc[h + 1] = soc[h] + m.delta
             /\ soc[h] \in Int /\ m.delta \in Int /\ m.delta \in Deltas
             /\ \E e \in rows[h + 1] : e.node = soc[h + 1]
                                       /\ m.worth = Gain(kind, prices[h], m.delta) + e.worth
  <2>1. h \in 0 .. Hours /\ h + 1 \in 0 .. Hours /\ prices[h] \in Int
    BY Grid DEF Day
  <2>2. RowOf(kind, w, h, rows[h]) /\ RowOf(kind, w, h + 1, rows[h + 1])
    BY <2>1, TableIs
  <2>3. soc[h + 1] = Led(rows[h], soc[h]) /\ rows[h] = Row(kind, prices[h], w, h, rows[h + 1])
    BY SolveWalks, TableRows
  <2>4. stop(h) = CHOOSE n \in rows[h] : n.node = soc[h]
    BY DEF Stop
  <2>. HIDE DEF rows, soc, stop
  <2>5. \A n \in rows[h] : n.node = soc[h] => n = m
    BY <1>2, <2>2 DEF RowOf
  <2>6. (CHOOSE n \in rows[h] : n.node = soc[h]) = m
    BY <1>2, <2>5
  <2>7. soc[h + 1] = soc[h] + m.delta
    BY <1>2, <2>3, <2>6 DEF Led
  <2>8. m.delta \in Deltas /\ \E e \in rows[h + 1] : e.node = m.node + m.delta
                                 /\ m.worth = Gain(kind, prices[h], m.delta) + e.worth
    BY <2>1, <2>2, <2>3, RowIs
  <2>9. m.delta \in Int /\ m.node \in Int
    BY <2>2, Grid DEF RowOf
  <2>. QED
    BY <1>2, <2>4, <2>6, <2>7, <2>8, <2>9
<1>3. \A h \in Day : h \in S => h + 1 \in S
  <2>1. \A h \in Day : h + 1 \in 0 .. Hours
    BY Grid DEF Day
  <2>. HIDE DEF rows, soc, stop
  <2>. QED
    BY <1>2, <2>1
<1>4. 0 .. Hours \subseteq S
  <2>. HIDE DEF S
  <2>. QED
    BY <1>1, <1>3, Hourly
<1>5. \A h \in 0 .. Hours : stop(h) \in rows[h] /\ stop(h).node = soc[h]
  BY <1>4 DEF Stop
<1>6. ASSUME NEW h \in Day
      PROVE  LET delta == soc[h + 1] - soc[h] IN
               delta \in Deltas /\ stop(h).worth = Gain(kind, prices[h], delta) + stop(h + 1).worth
  <2>1. h \in 0 .. Hours /\ h + 1 \in 0 .. Hours
    BY Grid DEF Day
  <2>2. RowOf(kind, w, h + 1, rows[h + 1])
    BY <2>1, TableIs
  <2>. HIDE DEF rows, soc, stop
  <2>3. /\ soc[h + 1] - soc[h] = stop(h).delta /\ stop(h).delta \in Deltas
        /\ \E e \in rows[h + 1] : e.node = soc[h + 1]
                                 /\ stop(h).worth = Gain(kind, prices[h], stop(h).delta) + e.worth
    BY <1>2, <1>5, <2>1
  <2>4. \A e \in rows[h + 1] : e.node = soc[h + 1] => e = stop(h + 1)
    BY <1>5, <2>1, <2>2 DEF RowOf
  <2>. QED
    BY <2>3, <2>4
<1>. QED
  BY <1>5, <1>6

\* The solver's plan is a walk of the day from its start, inside its limits.
LEMMA PlanKeeps ==
  ASSUME NEW kind \in ScheduleKinds, NEW prices \in [Day -> Int], NEW w
  PROVE  Keeps(kind, w, Solve(kind, prices, w)) /\ Solve(kind, prices, w)[0] = StartNode
<1>. DEFINE soc == Solve(kind, prices, w)
<1>1. \A h \in 0 .. Hours : soc[h] \in Nodes /\ InBand(kind, w, h, soc[h])
  BY PlanFollows, TableIs DEF RowOf
<1>2. \A h \in Day : soc[h + 1] - soc[h] \in Deltas
  BY PlanFollows
<1>3. soc \in [0 .. Hours -> Nodes] /\ soc[0] = StartNode
  BY <1>1, SolveWalks
<1>. QED
  BY <1>1, <1>2, <1>3 DEF Keeps

LEMMA WalkKeeps ==
  ASSUME NEW kind \in ScheduleKinds, NEW w, NEW s
  PROVE  s \in Walks(kind, w) <=> Keeps(kind, w, s) /\ s[0] = StartNode
<1>1. StartNode \in Nodes /\ InBand(kind, w, 0, StartNode)
  BY BandAssumption, StartInBand DEF InBand
<1>2. /\ \A h \in 0 .. Hours : h = 0 \/ h \in 1 .. Hours
      /\ \A h \in 1 .. Hours : h - 1 \in Day /\ (h - 1) + 1 = h /\ h \in 0 .. Hours
      /\ \A h \in Day : h + 1 \in 1 .. Hours /\ (h + 1) - 1 = h
  BY Grid DEF Day
<1>3. s \in Walks(kind, w) <=>
        /\ s \in [0 .. Hours -> Nodes] /\ s[0] = StartNode
        /\ \A k \in 1 .. Hours : InBand(kind, w, k, s[k]) /\ s[k] - s[k - 1] \in Deltas
  BY WalksAre DEF WalksUpTo
<1>4. (\A k \in 1 .. Hours : s[k] - s[k - 1] \in Deltas)
        <=> \A h \in Day : s[h + 1] - s[h] \in Deltas
  BY <1>2
<1>. QED
  BY <1>1, <1>2, <1>3, <1>4 DEF Keeps

\* No walk from the start makes more than the solver's plan.
THEOREM SolverIsBest ==
  ASSUME NEW kind \in ScheduleKinds, NEW prices \in [Day -> Int], NEW w
  PROVE  LET plan == Solve(kind, prices, w) IN
           /\ plan \in Walks(kind, w)
           /\ \A s \in Walks(kind, w) : Worth(kind, prices, s) <= Worth(kind, prices, plan)
<1>. DEFINE plan == Solve(kind, prices, w)
            rows == Table(kind, prices, w)
            stop(h) == Stop(kind, prices, w, h)
<1>1. plan \in Walks(kind, w)
  BY PlanKeeps, WalkKeeps
<1>2. PICK made : Worth(kind, prices, plan) = made[0] /\ Made(kind, prices, plan, made)
  BY WorthIs
<1>3. made[0] = stop(0).worth
  <2>. DEFINE S == {h \in 0 .. Hours : made[h] = stop(h).worth}
  <2>1. Hours \in S
    <3>1. Hours \in 0 .. Hours /\ stop(Hours) \in rows[Hours] /\ stop(Hours).node = plan[Hours]
      BY Grid, PlanFollows
    <3>. QED
      BY <1>2, <3>1, LastRowIs, TableRows DEF Made
  <2>2. ASSUME NEW h \in Day, h + 1 \in S PROVE h \in S
    <3>1. h \in 0 .. Hours /\ made[h + 1] = stop(h + 1).worth
      BY <2>2, Grid DEF Day
    <3>. QED
      BY <1>2, <3>1, PlanFollows DEF Made
  <2>. HIDE DEF S
  <2>3. 0 .. Hours \subseteq S
    BY <2>1, <2>2, Hourly
  <2>. QED
    BY <2>3, Grid DEF S
<1>4. ASSUME NEW s \in Walks(kind, w) PROVE Worth(kind, prices, s) <= Worth(kind, prices, plan)
  <2>1. Keeps(kind, w, s) /\ s[0] = plan[0]
    BY WalkKeeps, PlanKeeps
  <2>2. PICK from : Worth(kind, prices, s) = from[0] /\ Made(kind, prices, s, from)
    BY WorthIs
  <2>3. 0 \in 0 .. Hours
    BY Grid
  <2>4. PICK m \in rows[0] : m.node = s[0] /\ m.worth >= from[0]
    BY <2>1, <2>2, <2>3, TableBeats
  <2>5. m = stop(0)
    BY <2>1, <2>3, <2>4, PlanFollows, TableIs DEF RowOf
  <2>. QED
    BY <1>2, <1>3, <2>2, <2>4, <2>5
<1>. QED
  BY <1>1, <1>4

-----------------------------------------------------------------------------
(* The engine *)

\* A schedule that starts where the day does and keeps to the band of its kind,
\* hour by hour, with the reserve where that kind honours it.
InLimits(kind, w, plan) ==
  /\ plan \in [0 .. Hours -> Nodes] /\ plan[0] = StartNode
  /\ \A h \in 0 .. Hours : InBand(kind, w, h, plan[h])

\* A window of this world, or none.
IsWindow(w) == w = NoWindow \/ (w.from \in Nat /\ w.to \in Nat /\ w.from <= w.to /\ w.to < Hours)

\* A share of a movement lies between standing still and the whole of it.
LEMMA ShareBetween ==
  ASSUME NEW size \in 0 .. Full, NEW start \in Nat, NEW node \in Nat
  PROVE  LET soc == Full * start + size * (node - start) IN
           /\ soc \in Int
           /\ node <= start => Full * node <= soc /\ soc <= Full * start
           /\ start <= node => Full * start <= soc /\ soc <= Full * node
<1>1. size = 0 \/ size = 1 \/ size = 2 \/ size = 3 \/ size = 4
  OBVIOUS
<1>. QED
  BY <1>1

\* "A schedule run smaller is always at least as feasible as the schedule run whole"
\* (engine.rs): at every size it stays in the band, and it is short of the reserve in
\* no hour in which the schedule itself is not.
THEOREM SmallerStaysFeasible ==
  ASSUME NEW kind \in ScheduleKinds, NEW w, NEW plan, InLimits(kind, w, plan),
         NEW size \in 0 .. Full, NEW h \in 0 .. Hours
  PROVE  /\ Full * FloorAt(kind, w, h) <= Scaled(plan, size)[h]
         /\ Scaled(plan, size)[h] <= Full * Ceiling(kind)
         /\ Scaled(plan, size)[h] < Full * Reserve => plan[h] < Reserve
<1>1. /\ Scaled(plan, size)[h] = Full * plan[0] + size * (plan[h] - plan[0])
      /\ plan[0] = StartNode /\ plan[h] \in Nat
      /\ FloorAt(kind, w, h) <= plan[h] /\ plan[h] <= Ceiling(kind)
  BY Grid DEF Scaled, InLimits, InBand
<1>2. LET soc == Full * StartNode + size * (plan[h] - StartNode) IN
        /\ soc \in Int
        /\ plan[h] <= StartNode => Full * plan[h] <= soc /\ soc <= Full * StartNode
        /\ StartNode <= plan[h] => Full * StartNode <= soc /\ soc <= Full * plan[h]
  BY <1>1, Grid, ShareBetween
<1>. QED
  BY <1>1, <1>2, Grid, StartInBand

\* The hours, of those of a window and the one that ends it, that are short of a floor.
Short(soc, w) == {h \in w.from .. w.to + 1 : soc[h] < Full * Reserve}

LEMMA ShortIsFinite ==
  ASSUME NEW w, IsWindow(w), w # NoWindow
  PROVE  /\ w.from .. w.to + 1 \subseteq 0 .. Hours
         /\ \A soc : IsFiniteSet(Short(soc, w)) /\ Cardinality(Short(soc, w)) \in Nat
<1>1. w.from \in Nat /\ w.to + 1 \in Nat /\ w.to + 1 <= Hours
  BY Grid DEF IsWindow
<1>2. IsFiniteSet(w.from .. w.to + 1)
  BY <1>1, FS_Interval
<1>3. \A soc : IsFiniteSet(Short(soc, w))
  <2>1. \A soc : Short(soc, w) \in SUBSET (w.from .. w.to + 1)
    BY DEF Short
  <2>. QED
    BY <1>2, <2>1, FS_Subset
<1>. QED
  BY <1>1, <1>3, Grid, FS_CardinalityType

\* So the gated run of a schedule never breaches the reserve in more hours than the
\* run of all of it.
THEOREM SmallerBreachesNoMore ==
  ASSUME NEW kind \in ScheduleKinds, NEW w, IsWindow(w), NEW plan, InLimits(kind, w, plan),
         NEW size \in 0 .. Full
  PROVE  CountBreaches(Scaled(plan, size), w) <= CountBreaches(Scaled(plan, Full), w)
<1>1. CASE w = NoWindow
  BY <1>1 DEF CountBreaches
<1>2. CASE w # NoWindow
  <2>1. \A h \in 0 .. Hours : Scaled(plan, Full)[h] = Full * plan[h] /\ plan[h] \in Nat
    BY Grid DEF Scaled, InLimits
  <2>2. Short(Scaled(plan, size), w) \subseteq Short(Scaled(plan, Full), w)
    <3>. SUFFICES ASSUME NEW h \in w.from .. w.to + 1, Scaled(plan, size)[h] < Full * Reserve
                  PROVE  Scaled(plan, Full)[h] < Full * Reserve
      BY DEF Short
    <3>1. h \in 0 .. Hours
      BY <1>2, ShortIsFinite
    <3>. QED
      BY <2>1, <3>1, Grid, SmallerStaysFeasible
  <2>3. Cardinality(Short(Scaled(plan, size), w)) <= Cardinality(Short(Scaled(plan, Full), w))
    BY <1>2, <2>2, ShortIsFinite, FS_Subset
  <2>. QED
    BY <1>2, <2>3 DEF CountBreaches, Short
<1>. QED
  BY <1>1, <1>2

\* A schedule in the reserve-heavy band is at the reserve through the window and at
\* the end of its last hour, and so is every share of it.
LEMMA ReserveHeavyNeverShort ==
  ASSUME NEW w, IsWindow(w), w # NoWindow, NEW plan, InLimits("reserve_heavy", w, plan),
         NEW size \in 0 .. Full
  PROVE  CountBreaches(Scaled(plan, size), w) = 0
<1>1. ASSUME NEW h \in w.from .. w.to + 1
      PROVE  ~ (Scaled(plan, size)[h] < Full * Reserve)
  <2>1. h \in 0 .. Hours
    BY ShortIsFinite
  <2>2. Reserve <= FloorAt("reserve_heavy", w, h)
    <3>1. Covers(w, h) \/ h = w.to + 1
      BY Grid DEF IsWindow, Covers
    <3>2. Reserve <= Ceiling("reserve_heavy")
      BY Grid, StartInBand DEF ScheduleKinds
    <3>3. StandingFloor("reserve_heavy") \in Nat
      BY Grid, BandAssumption DEF StandingFloor, ScheduleKinds
    <3>. QED
      BY <3>1, <3>2, <3>3, Grid, StartInBand DEF FloorAt, HonoursReserve, ScheduleKinds
  <2>3. /\ plan[h] \in Nat /\ FloorAt("reserve_heavy", w, h) <= plan[h]
    BY <2>1, Grid DEF InLimits, InBand
  <2>4. FloorAt("reserve_heavy", w, h) \in Nat
    BY StartInBand DEF ScheduleKinds
  <2>5. ~ (plan[h] < Reserve)
    BY <2>2, <2>3, <2>4, Grid
  <2>. QED
    BY <2>1, <2>5, SmallerStaysFeasible DEF ScheduleKinds
<1>2. Short(Scaled(plan, size), w) = {}
  BY <1>1 DEF Short
<1>. QED
  BY <1>2, FS_EmptySet DEF CountBreaches, Short

\* The features' dip and the engine's breach are two readings of one thing.
LEMMA DipIsBreach ==
  ASSUME NEW w, IsWindow(w), NEW plan \in [0 .. Hours -> Nodes]
  PROVE  Dips(plan, w) <=> CountBreaches(Scaled(plan, Full), w) # 0
<1>1. CASE w = NoWindow
  BY <1>1 DEF Dips, CountBreaches
<1>2. CASE w # NoWindow
  <2>1. \A h \in w.from .. w.to + 1 : Scaled(plan, Full)[h] = Full * plan[h] /\ plan[h] \in Nat
    BY <1>2, ShortIsFinite, Grid DEF Scaled
  <2>2. DipsBelow(plan, w, Reserve) <=> \E h \in w.from .. w.to + 1 : plan[h] < Reserve
    BY <1>2, Grid DEF DipsBelow, IsWindow
  <2>3. DipsBelow(plan, w, Reserve) <=> Short(Scaled(plan, Full), w) # {}
    BY <2>1, <2>2, Grid DEF Short
  <2>4. Short(Scaled(plan, Full), w) # {} <=> Cardinality(Short(Scaled(plan, Full), w)) # 0
    BY <1>2, ShortIsFinite, FS_EmptySet
  <2>. QED
    BY <1>2, <2>3, <2>4 DEF Dips, CountBreaches, Short
<1>. QED
  BY <1>1, <1>2

-----------------------------------------------------------------------------
(* The session *)

\* The day is over and the next one not begun.
DayDone == stage = "dawn" /\ day > 0

StagesOK ==
  /\ stage \in {"dawn", "read", "assess", "gate", "failed"} /\ day \in Nat
  /\ world \in Worlds /\ chosen \in ScheduleKinds /\ window \in Windows \cup {NoWindow}
\* The plans of the day are those the solver makes of its curve.
PlansSolved ==
  (stage # "dawn" \/ day > 0) =>
    curve \in [Day -> Int] /\ plans = [kind \in ScheduleKinds |-> Solve(kind, curve, window)]
\* The features weighed after the ranking are those of its winner.
WinnerDescribed ==
  (stage \in {"assess", "gate"} \/ DayDone) =>
    described = chosen /\ dips = Dips(plans[chosen], window)
\* The two runs of a day are of the plans it was judged on.
RunsOfTheDay ==
  DayDone =>
    /\ solverOnly = Execute(plans["balanced"], window, Full)
    /\ Acts(action) => \E size \in SizeOf(action) : gated = Execute(plans[chosen], window, size)
    /\ ~ Acts(action) => gated = StoodDown(plans[chosen])

DayInv == StagesOK /\ PlansSolved /\ WinnerDescribed /\ RunsOfTheDay

\* No day is done yet.
LEMMA DayInit == Init => DayInv
BY DEF Init, DayInv, StagesOK, PlansSolved, WinnerDescribed, RunsOfTheDay, DayDone, ScheduleKinds

\* Each step keeps plans, features and runs those of one day.
LEMMA DayStep == DayInv /\ [Next]_vars => DayInv'
<1>. SUFFICES ASSUME DayInv, [Next]_vars PROVE DayInv'
  OBVIOUS
<1>. USE DEF DayInv, StagesOK, DayDone
<1>1. ASSUME NEW w \in Windows, Dawn(w)
      PROVE  DayInv'
  <2>1. StagesOK'
    BY <1>1 DEF Dawn
  <2>2. PlansSolved'
    <3>1. curve' = world[day + 1] /\ window' = w
          /\ plans' = [kind \in ScheduleKinds |-> Solve(kind, curve', w)]
      BY <1>1 DEF Dawn
    <3>2. world \in Seq([Day -> Int]) /\ day + 1 \in 1 .. Len(world)
      BY <1>1, WorldAssumption DEF Dawn
    <3>3. curve' \in [Day -> Int]
      BY <3>1, <3>2, ElementOfSeq
    <3>. QED
      BY <3>1, <3>3 DEF PlansSolved
  <2>. QED
    BY <1>1, <2>1, <2>2 DEF Dawn, WinnerDescribed, RunsOfTheDay
<1>2. ASSUME NEW kind \in ScheduleKinds, Read(kind)
      PROVE  DayInv'
  BY <1>2 DEF Read, PlansSolved, WinnerDescribed, RunsOfTheDay
<1>3. CASE Assess
  BY <1>3 DEF Assess, PlansSolved, WinnerDescribed, RunsOfTheDay
<1>4. ASSUME NEW a \in {"execute", "reduce", "hold", "escalate"}, NEW size \in SizeOf(a), Gate(a, size)
      PROVE  DayInv'
  <2>1. StagesOK' /\ PlansSolved' /\ WinnerDescribed'
    BY <1>4 DEF Gate, PlansSolved, WinnerDescribed
  <2>2. RunsOfTheDay'
    BY <1>4 DEF Gate, RunsOfTheDay
  <2>. QED
    BY <2>1, <2>2
<1>5. CASE CallFails
  BY <1>5 DEF CallFails, PlansSolved, WinnerDescribed, RunsOfTheDay
<1>6. CASE UNCHANGED vars
  BY <1>6 DEF vars, PlansSolved, WinnerDescribed, RunsOfTheDay
<1>. QED
  BY <1>1, <1>2, <1>3, <1>4, <1>5, <1>6 DEF Next

\* Every reachable state is of one day.
LEMMA DayKept == Spec => []DayInv
BY DayInit, DayStep, PTL DEF Spec

\* What is judged of a day is planned within its limits.
LEMMA PlansInLimits ==
  ASSUME DayInv, stage # "dawn" \/ day > 0, NEW kind \in ScheduleKinds
  PROVE  /\ plans[kind] = Solve(kind, curve, window) /\ curve \in [Day -> Int]
         /\ InLimits(kind, window, plans[kind])
BY PlanKeeps DEF DayInv, PlansSolved, InLimits, Keeps

\* The window of the day is one of the hours of a day.
LEMMA WindowIs == DayInv => IsWindow(window)
BY WindowAssumption, Grid DEF DayInv, StagesOK, IsWindow, Day

\* What is known of the schedule and the size a day was run at.
LEMMA DayFacts ==
  ASSUME DayInv, DayDone
  PROVE  /\ IsWindow(window) /\ chosen \in ScheduleKinds
         /\ \A kind \in ScheduleKinds : InLimits(kind, window, plans[kind])
         /\ \E size \in 0 .. Full :
              /\ gated.soc = Scaled(plans[chosen], size)
              /\ gated.breaches \in {0, CountBreaches(Scaled(plans[chosen], size), window)}
<1>1. IsWindow(window)
  BY WindowAssumption, Grid DEF DayInv, StagesOK, IsWindow, Day
<1>2. CASE Acts(action)
  <2>1. PICK size \in SizeOf(action) : gated = Execute(plans[chosen], window, size)
    BY <1>2 DEF DayInv, RunsOfTheDay
  <2>2. size \in 0 .. Full
    BY <1>2, <2>1, SizeAssumption DEF SizeOf, Acts
  <2>. QED
    BY <1>1, <2>1, <2>2, PlansInLimits DEF Execute, DayInv, StagesOK, DayDone
<1>3. CASE ~ Acts(action)
  <2>1. gated.soc = Scaled(plans[chosen], 0) /\ gated.breaches = 0
    BY <1>3 DEF DayInv, RunsOfTheDay, StoodDown
  <2>. QED
    BY <1>1, <2>1, PlansInLimits DEF DayInv, StagesOK, DayDone
<1>. QED
  BY <1>2, <1>3

\* The gated run of every day stays in the band of its schedule, misses the reserve
\* in no hour in which the whole schedule would not, and with the balanced schedule
\* never misses it more often than the desk without a gate does.
THEOREM SmallerIsAsFeasibleHolds == Spec => []SmallerIsAsFeasible
<1>1. ASSUME DayInv
      PROVE  SmallerIsAsFeasible
  <2>. SUFFICES ASSUME DayDone
                PROVE  /\ \A h \in 0 .. Hours :
                            /\ Full * FloorAt(chosen, window, h) <= gated.soc[h]
                            /\ gated.soc[h] <= Full * Ceiling(chosen)
                            /\ gated.soc[h] < Full * Reserve => plans[chosen][h] < Reserve
                       /\ chosen = "balanced" => gated.breaches <= solverOnly.breaches
    BY DEF SmallerIsAsFeasible, DayDone
  <2>1. PICK size \in 0 .. Full :
          /\ gated.soc = Scaled(plans[chosen], size)
          /\ gated.breaches \in {0, CountBreaches(Scaled(plans[chosen], size), window)}
    BY <1>1, DayFacts
  <2>2. IsWindow(window) /\ chosen \in ScheduleKinds /\ InLimits(chosen, window, plans[chosen])
    BY <1>1, DayFacts
  <2>3. ASSUME chosen = "balanced"
        PROVE  gated.breaches <= solverOnly.breaches
    <3>1. solverOnly.breaches = CountBreaches(Scaled(plans[chosen], Full), window)
      BY <1>1, <2>3 DEF DayInv, RunsOfTheDay, Execute
    <3>2. CountBreaches(Scaled(plans[chosen], Full), window) \in Nat
      BY <2>2, ShortIsFinite DEF CountBreaches, Short
    <3>. QED
      BY <2>1, <2>2, <3>1, <3>2, SmallerBreachesNoMore
  <2>. QED
    BY <2>1, <2>2, <2>3, SmallerStaysFeasible
<1>. QED
  BY <1>1, DayKept, PTL

\* Whenever the reserve-heavy schedule is run, at any size, the reserve is held and
\* the capacity of the whole window paid.
THEOREM ReserveHeavyIsPaid == Spec => []ReserveHeavyHolds
<1>1. ASSUME DayInv
      PROVE  ReserveHeavyHolds
  <2>. SUFFICES ASSUME DayDone, chosen = "reserve_heavy", Acts(action), window # NoWindow
                PROVE  ReserveHeld(gated) /\ gated.paid = CapacityPrice * WindowHours(window)
    BY DEF ReserveHeavyHolds, DayDone
  <2>1. PICK size \in SizeOf(action) : gated = Execute(plans[chosen], window, size)
    BY <1>1 DEF DayInv, RunsOfTheDay
  <2>2. size \in 0 .. Full
    BY <2>1, SizeAssumption DEF SizeOf, Acts
  <2>3. CountBreaches(Scaled(plans[chosen], size), window) = 0
    BY <1>1, <2>2, DayFacts, ReserveHeavyNeverShort
  <2>. QED
    BY <2>1, <2>3 DEF Execute, ReserveHeld
<1>. QED
  BY <1>1, DayKept, PTL

\* The dip the reserve check is told of is the breach the engine counts, of the very
\* schedule that runs.
THEOREM DipForeseesBreach == Spec => []RuleForesees
<1>1. ASSUME DayInv
      PROVE  RuleForesees
  <2>. SUFFICES ASSUME DayDone
                PROVE  /\ described = chosen
                       /\ dips <=> ~ ReserveHeld(Execute(plans[chosen], window, Full))
                       /\ action = "execute" => (dips <=> ~ ReserveHeld(gated))
    BY DEF RuleForesees, DayDone
  <2>1. described = chosen /\ dips = Dips(plans[chosen], window)
    BY <1>1 DEF DayInv, WinnerDescribed
  <2>2. Dips(plans[chosen], window)
          <=> ~ ReserveHeld(Execute(plans[chosen], window, Full))
    BY <1>1, DayFacts, DipIsBreach DEF InLimits, ReserveHeld, Execute
  <2>3. action = "execute" => gated = Execute(plans[chosen], window, Full)
    BY <1>1 DEF DayInv, RunsOfTheDay, Acts, SizeOf
  <2>. QED
    BY <2>1, <2>2, <2>3
<1>. QED
  BY <1>1, DayKept, PTL

\* Whatever the curve and the window of a day, each of the three plans put to the ranking
\* (candidates, solver.rs) is one its variant's limits allow, and no plan they allow makes
\* more of the day.
THEOREM PlansAreBest == Spec => []PlanIsBest
<1>1. ASSUME DayInv
      PROVE  PlanIsBest
  BY <1>1, PlansInLimits, SolverIsBest DEF PlanIsBest
<1>. QED
  BY <1>1, DayKept, PTL

-----------------------------------------------------------------------------
(* Types *)

\* A run of a schedule is a level for each hour, and an hour is counted short once.
LEMMA ExecutionTypes ==
  ASSUME NEW plan \in [0 .. Hours -> Nodes], NEW w, IsWindow(w)
  PROVE  /\ \A size \in 0 .. Full : Execute(plan, w, size) \in Executions
         /\ StoodDown(plan) \in Executions
<1>1. \A h \in 0 .. Hours : plan[h] \in Int
  BY Grid
<1>2. ASSUME NEW size \in 0 .. Full PROVE Scaled(plan, size) \in [0 .. Hours -> Int]
  <2>1. 0 \in 0 .. Hours /\ size \in Int
    BY Grid
  <2>2. \A x, y \in Int : Full * x + size * (y - x) \in Int
    BY <2>1
  <2>3. \A h \in 0 .. Hours : Full * plan[0] + size * (plan[h] - plan[0]) \in Int
    BY <1>1, <2>1, <2>2
  <2>. QED
    BY <2>3 DEF Scaled
<1>3. \A soc : CountBreaches(soc, w) \in 0 .. Hours + 1
  <2>. SUFFICES ASSUME NEW soc PROVE CountBreaches(soc, w) \in 0 .. Hours + 1
    OBVIOUS
  <2>1. CASE w = NoWindow
    BY <2>1, Grid DEF CountBreaches
  <2>2. CASE w # NoWindow
    <3>1. Short(soc, w) \in SUBSET (0 .. Hours) /\ Cardinality(Short(soc, w)) \in Nat
      BY <2>2, ShortIsFinite DEF Short
    <3>2. IsFiniteSet(0 .. Hours) /\ Cardinality(0 .. Hours) = Hours + 1
      BY Grid, FS_Interval
    <3>3. Cardinality(Short(soc, w)) <= Hours + 1
      <4>. DEFINE hours == 0 .. Hours
      <4>1. Cardinality(Short(soc, w)) <= Cardinality(hours)
        <5>. HIDE DEF hours
        <5>. QED
          BY <3>1, <3>2, FS_Subset DEF hours
      <4>. QED
        BY <3>2, <4>1
    <3>. QED
      BY <2>2, <3>1, <3>3, Grid DEF CountBreaches, Short
  <2>. QED
    BY <2>1, <2>2
<1>4. w # NoWindow => CapacityPrice * WindowHours(w) \in Int
  <2>1. w # NoWindow => WindowHours(w) \in Int
    BY DEF WindowHours, IsWindow
  <2>. QED
    BY <2>1, GridAssumption
<1>5. ASSUME NEW size \in 0 .. Full PROVE Execute(plan, w, size) \in Executions
  <2>. DEFINE soc == Scaled(plan, size)
              breaches == CountBreaches(soc, w)
              paid == IF w # NoWindow /\ breaches = 0 THEN CapacityPrice * WindowHours(w) ELSE 0
  <2>1. soc \in [0 .. Hours -> Int] /\ breaches \in 0 .. Hours + 1 /\ paid \in Int
    BY <1>2, <1>3, <1>4
  <2>2. Execute(plan, w, size) = [size |-> size, soc |-> soc, breaches |-> breaches, paid |-> paid]
    BY DEF Execute
  <2>. HIDE DEF soc, breaches, paid
  <2>. QED
    BY <2>1, <2>2 DEF Executions
<1>6. StoodDown(plan) \in Executions
  <2>1. Scaled(plan, 0) \in [0 .. Hours -> Int] /\ 0 \in 0 .. Hours + 1
    BY <1>2, Grid
  <2>. QED
    BY <2>1 DEF StoodDown, Executions
<1>. QED
  BY <1>5, <1>6

\* The course of the days before: a dispersion for each, and no more than are looked back on.
Remembered == history \in Seq(Int) /\ Len(history) <= Lookback

LEMMA RememberedStays ==
  ASSUME Remembered, NEW x \in Int
  PROVE  LET past == Append(history, x)
             kept == SubSeq(past, HigherOf(1, Len(past) - Lookback + 1), Len(past))
         IN  kept \in Seq(Int) /\ Len(kept) <= Lookback
<1>. DEFINE past == Append(history, x)
            first == HigherOf(1, Len(past) - Lookback + 1)
<1>1. past \in Seq(Int) /\ Len(past) = Len(history) + 1 /\ Len(history) \in Nat /\ Lookback \in Nat \ {0}
  BY AppendProperties, LenProperties, GridAssumption DEF Remembered
<1>2. first \in 1 .. Len(past) /\ Len(past) - first + 1 <= Lookback /\ Len(past) \in Nat
  BY <1>1
<1>. HIDE DEF past, first
<1>3. SubSeq(past, first, Len(past)) \in Seq(Int)
      /\ Len(SubSeq(past, first, Len(past))) = Len(past) - first + 1
  <2>1. \A i \in first .. Len(past) : i \in 1 .. Len(past)
    BY <1>2
  <2>. QED
    BY <1>1, <1>2, <2>1, SubSeqProperties
<1>. QED
  BY <1>2, <1>3 DEF past, first

\* What is told of a day's prices is a number.
LEMMA FeatureTypes ==
  /\ \A prices \in [Day -> Int] : Dispersion(prices) \in Int
  /\ Remembered => \A value : Percentile(value, history) \in Nat \X (Nat \ {0})
<1>1. ASSUME NEW prices \in [Day -> Int] PROVE Dispersion(prices) \in Int
  <2>1. [h \in Day |-> prices[h] * prices[h]] \in [Day -> Int]
    OBVIOUS
  <2>2. DaySum([h \in Day |-> prices[h] * prices[h]]) \in Int /\ DaySum(prices) \in Int
    BY <2>1, DaySumType
  <2>. QED
    BY <2>2, Grid DEF Dispersion, Total
<1>2. ASSUME Remembered, NEW value PROVE Percentile(value, history) \in Nat \X (Nat \ {0})
  <2>. DEFINE below == {i \in DOMAIN history : history[i] < value}
  <2>1. DOMAIN history = 1 .. Len(history) /\ Len(history) \in Nat
    BY <1>2, LenProperties DEF Remembered
  <2>2. IsFiniteSet(below) /\ Cardinality(below) \in Nat
    <3>1. IsFiniteSet(1 .. Len(history))
      BY <2>1, FS_Interval
    <3>2. IsFiniteSet(below)
      BY <2>1, <3>1, FS_Subset
    <3>. QED
      BY <3>2, FS_CardinalityType
  <2>3. ~ (Len(history) < 2) => Len(history) - 1 \in Nat \ {0}
    BY <2>1
  <2>. QED
    BY <2>2, <2>3 DEF Percentile
<1>. QED
  BY <1>1, <1>2

\* A day that is being judged is one of the world's.
DayRemains == stage \in {"read", "assess", "gate"} => day < Len(world)

TypesInv == TypeOK /\ DayRemains

\* The session starts with nothing of its kind missing.
LEMMA InitTypes == Init => TypesInv
<1>. SUFFICES ASSUME Init PROVE TypesInv
  OBVIOUS
<1>1. 0 \in Nodes /\ Hours \in Nat
  BY Grid
<1>2. NoRun \in Executions /\ NoPlans \in [ScheduleKinds -> [0 .. Hours -> Nodes]]
  BY <1>1 DEF NoRun, NoPlans, Executions
<1>3. history \in Seq(Int) /\ Len(history) <= Lookback
  BY GridAssumption DEF Init
<1>4. world \in Worlds /\ day \in 0 .. Len(world)
  <2>1. world \in Seq([Day -> Int])
    BY WorldAssumption DEF Init
  <2>2. Len(world) \in Nat
    BY <2>1, LenProperties
  <2>. QED
    BY <2>2 DEF Init
<1>5. /\ stage = "dawn" /\ window = NoWindow /\ dips = FALSE /\ action = "hold"
      /\ plans = NoPlans /\ solverOnly = NoRun /\ gated = NoRun
      /\ described = "balanced" /\ chosen = "balanced"
  BY DEF Init
<1>6. curve \in [Day -> Int] /\ volatility \in Nat \X (Nat \ {0})
  BY DEF Init
<1>. QED
  BY <1>2, <1>3, <1>4, <1>5, <1>6 DEF TypesInv, TypeOK, DayRemains, ScheduleKinds

\* Each step leaves every variable of its kind.
LEMMA TypesStep == TypesInv /\ DayInv /\ DayInv' /\ [Next]_vars => TypesInv'
<1>. SUFFICES ASSUME TypesInv, DayInv, DayInv', [Next]_vars PROVE TypesInv'
  OBVIOUS
<1>. USE DEF TypesInv, TypeOK, DayRemains
<1>1. ASSUME NEW w \in Windows, Dawn(w) PROVE TypesInv'
  <2>1. plans' \in [ScheduleKinds -> [0 .. Hours -> Nodes]] /\ curve' \in [Day -> Int]
    <3>1. stage' = "read" /\ (stage # "dawn")'
      BY <1>1 DEF Dawn
    <3>2. plans' = [kind \in ScheduleKinds |-> Solve(kind, curve', window')] /\ curve' \in [Day -> Int]
      BY <3>1 DEF DayInv, PlansSolved
    <3>. QED
      BY <3>2, PlanKeeps DEF Keeps
  <2>2. volatility' \in Nat \X (Nat \ {0})
    BY <1>1, FeatureTypes DEF Dawn, Remembered
  <2>3. dips' \in BOOLEAN
    BY <1>1 DEF Dawn, Dips
  <2>. QED
    BY <1>1, <2>1, <2>2, <2>3 DEF Dawn, ScheduleKinds
<1>2. ASSUME NEW kind \in ScheduleKinds, Read(kind) PROVE TypesInv'
  BY <1>2 DEF Read, Dips
<1>3. CASE Assess
  BY <1>3 DEF Assess
<1>4. ASSUME NEW a \in {"execute", "reduce", "hold", "escalate"}, NEW size \in SizeOf(a), Gate(a, size)
      PROVE  TypesInv'
  <2>1. IsWindow(window)
    BY WindowIs
  <2>2. size \in 0 .. Full
    BY SizeAssumption DEF SizeOf
  <2>3. solverOnly' \in Executions /\ gated' \in Executions
    <3>1. plans["balanced"] \in [0 .. Hours -> Nodes] /\ plans[chosen] \in [0 .. Hours -> Nodes]
      BY DEF ScheduleKinds
    <3>2. /\ solverOnly' = Execute(plans["balanced"], window, Full)
          /\ \/ gated' = Execute(plans[chosen], window, size)
             \/ gated' = StoodDown(plans[chosen])
      BY <1>4 DEF Gate
    <3>. QED
      BY <2>1, <2>2, <3>1, <3>2, ExecutionTypes
  <2>4. history' \in Seq(Int) /\ Len(history') <= Lookback
    <3>1. Dispersion(curve) \in Int
      BY FeatureTypes
    <3>. QED
      BY <1>4, <3>1, RememberedStays DEF Gate, Remembered
  <2>5. day' \in 0 .. Len(world)
    BY <1>4 DEF Gate
  <2>. QED
    BY <1>4, <2>3, <2>4, <2>5 DEF Gate
<1>5. CASE CallFails
  BY <1>5 DEF CallFails
<1>6. CASE UNCHANGED vars
  BY <1>6 DEF vars
<1>. QED
  BY <1>1, <1>2, <1>3, <1>4, <1>5, <1>6 DEF Next

\* Every variable of a session holds a value of its kind, however many days it runs.
THEOREM SessionTypes == Spec => []TypeOK
<1>1. TypesInv => TypeOK
  BY DEF TypesInv
<1>. QED
  BY <1>1, InitTypes, TypesStep, DayKept, PTL DEF Spec
=============================================================================
