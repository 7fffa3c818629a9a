------------------------------ MODULE FoldRules ------------------------------
(***************************************************************************)
(* What the folds of the specifications compute, for every input: an       *)
(* instance of this module with an operator for op gives the laws of       *)
(* FoldLeft(op, _, _) and of a fold over a set as facts to cite.  Those of *)
(* At and FlattenSeq do not depend on op.  Each is an induction over a     *)
(* number, for which NatSetInduction states the principle of a set: the    *)
(* operator that the library's theorems take has no first-order instance.  *)
(***************************************************************************)
EXTENDS Integers, Sequences, SequencesExt, Places, FiniteSetTheorems,
        SequenceTheorems, WellFoundedInduction, TLAPS

CONSTANT op(_, _)

Left(base, seq) == FoldLeft(op, base, seq)

-----------------------------------------------------------------------------
(* Induction *)

\* A set that holds 0 and with each number the next holds every number.
THEOREM NatSetInduction ==
  ASSUME NEW S, 0 \in S, \A n \in Nat : n \in S => n + 1 \in S
  PROVE  Nat \subseteq S
<1>. DEFINE R == OpToRel(<, Nat)
            T == {n \in Nat : n \notin S}
<1>1. SUFFICES ASSUME T # {} PROVE FALSE
  OBVIOUS
<1>2. IsWellFoundedOn(R, Nat)
  BY NatLessThanWellFounded
<1>3. \A x, y \in Nat : <<x, y>> \in R <=> x < y
  BY DEF OpToRel
<1>4. T \subseteq Nat
  OBVIOUS
<1>5. PICK x \in T : \A y \in T : ~ (<<y, x>> \in R)
  <2>. HIDE DEF R, T
  <2>. QED
    BY <1>1, <1>2, <1>4, WFMin
<1>. HIDE DEF R
<1>6. x \in Nat /\ x # 0 /\ x - 1 \in Nat /\ x - 1 < x
  BY <1>5
<1>7. x - 1 \in S
  BY <1>3, <1>5, <1>6
<1>8. x \in S
  BY <1>6, <1>7
<1>. QED
  BY <1>5, <1>8

-----------------------------------------------------------------------------
(* Folds from the left *)

\* g is the function that MapThenFoldSet iterates on the subsets of D, where c picks
\* the element of a subset that is folded last.
IsIter(g, base, seq, D, c) ==
  g = [s \in SUBSET D |-> IF s = {} THEN base ELSE op(g[s \ {c[s]}], seq[c[s]])]

\* There is such a function: by induction on the size of the subset.
LEMMA IterExists ==
  ASSUME NEW base, NEW seq, NEW D, IsFiniteSet(D), NEW c,
         \A s \in SUBSET D : s # {} => c[s] \in s
  PROVE  \E g : IsIter(g, base, seq, D, c)
<1>. DEFINE Small(m) == {s \in SUBSET D : Cardinality(s) <= m}
            Upto(g, m) == \A s \in Small(m) :
               g[s] = IF s = {} THEN base ELSE op(g[s \ {c[s]}], seq[c[s]])
            S == {m \in Nat : \E g : Upto(g, m)}
<1>1. \A s \in SUBSET D : /\ IsFiniteSet(s) /\ Cardinality(s) \in Nat
                          /\ Cardinality(s) <= Cardinality(D)
                          /\ Cardinality(s) = 0 <=> s = {}
  BY FS_Subset, FS_CardinalityType, FS_EmptySet
<1>2. \A s \in SUBSET D : s # {} =>
        s \ {c[s]} \in SUBSET D /\ Cardinality(s \ {c[s]}) = Cardinality(s) - 1
  BY <1>1, FS_RemoveElement
<1>3. 0 \in S
  <2>1. \A s \in Small(0) : s = {}
    BY <1>1
  <2>2. Upto([s \in SUBSET D |-> base], 0)
    BY <2>1
  <2>. QED
    BY <2>2
<1>4. ASSUME NEW m \in Nat, m \in S PROVE m + 1 \in S
  <2>1. PICK g : Upto(g, m)
    BY <1>4
  <2>. DEFINE h == [s \in SUBSET D |-> IF s = {} THEN base ELSE op(g[s \ {c[s]}], seq[c[s]])]
  <2>2. \A s \in Small(m) : h[s] = g[s]
    BY <2>1
  <2>3. \A s \in Small(m + 1) : s # {} => s \ {c[s]} \in Small(m)
    BY <1>1, <1>2
  <2>4. ASSUME NEW s \in Small(m + 1), s # {} PROVE h[s \ {c[s]}] = g[s \ {c[s]}]
    <3>. HIDE DEF Small, h
    <3>. QED
      BY <2>2, <2>3, <2>4
  <2>5. Upto(h, m + 1)
    BY <2>4
  <2>. HIDE DEF Upto, h
  <2>. QED
    BY <2>5
<1>5. Cardinality(D) \in S
  <2>. HIDE DEF S
  <2>. QED
    BY <1>1, <1>3, <1>4, NatSetInduction
<1>6. PICK g : Upto(g, Cardinality(D))
  BY <1>5
<1>7. \A s \in SUBSET D : s \in Small(Cardinality(D))
  BY <1>1
<1>. DEFINE h == [s \in SUBSET D |-> g[s]]
<1>8. IsIter(h, base, seq, D, c)
  BY <1>2, <1>6, <1>7 DEF IsIter
<1>. QED
  BY <1>8

\* A nonempty set of naturals up to n has a greatest and a least element.
LEMMA Extremes ==
  ASSUME NEW n \in Nat, NEW s \in SUBSET (1 .. n), s # {}
  PROVE  /\ Max(s) \in s /\ Min(s) \in s
         /\ \A y \in s : Min(s) <= y /\ y <= Max(s)
<1>. DEFINE T == {k \in Nat : \A r \in SUBSET (1 .. n) : r # {} /\ (\A y \in r : y <= k) =>
                    /\ \E x \in r : \A y \in r : x >= y
                    /\ \E x \in r : \A y \in r : x <= y}
<1>1. 0 \in T
  <2>1. \A r \in SUBSET (1 .. n) : r # {} => ~ (\A y \in r : y <= 0)
    <3>1. \A y \in 1 .. n : y \in Nat /\ ~ (y <= 0)
      OBVIOUS
    <3>. QED
      BY <3>1
  <2>. QED
    BY <2>1
<1>2. ASSUME NEW k \in Nat, k \in T PROVE k + 1 \in T
  <2>. SUFFICES ASSUME NEW r \in SUBSET (1 .. n), r # {}, \A y \in r : y <= k + 1
                PROVE  /\ \E x \in r : \A y \in r : x >= y
                       /\ \E x \in r : \A y \in r : x <= y
    OBVIOUS
  <2>1. CASE k + 1 \notin r
    BY <1>2, <2>1
  <2>2. CASE r = {k + 1}
    BY <2>2
  <2>3. CASE k + 1 \in r /\ r \ {k + 1} # {}
    <3>1. PICK x \in r \ {k + 1} : \A y \in r \ {k + 1} : x <= y
      <4>1. r \ {k + 1} \in SUBSET (1 .. n) /\ \A y \in r \ {k + 1} : y <= k
        OBVIOUS
      <4>. QED
        BY <1>2, <2>3, <4>1
    <3>. QED
      BY <2>3, <3>1
  <2>. QED
    BY <2>1, <2>2, <2>3
<1>3. n \in T
  <2>. HIDE DEF T
  <2>. QED
    BY <1>1, <1>2, NatSetInduction
<1>4. /\ \E x \in s : \A y \in s : x >= y
      /\ \E x \in s : \A y \in s : x <= y
  <2>1. \A y \in s : y <= n
    OBVIOUS
  <2>. QED
    BY <1>3, <2>1
<1>5. Max(s) \in s /\ \A y \in s : Max(s) >= y
  BY <1>4 DEF Max
<1>6. Min(s) \in s /\ \A y \in s : Min(s) <= y
  BY <1>4 DEF Min
<1>. QED
  BY <1>5, <1>6

\* f runs through the fold's intermediate values.
Steps(f, base, seq, n) ==
  /\ f[0] = base
  /\ \A k \in 1 .. n : f[k] = op(f[k - 1], seq[k])

\* A fold of n entries goes through n + 1 values, the last of which is its result.
LEMMA LeftSteps ==
  ASSUME NEW base, NEW seq, NEW n \in Nat, DOMAIN seq = 1 .. n
  PROVE  \E f : Steps(f, base, seq, n) /\ f[n] = Left(base, seq)
<1>. DEFINE D == 1 .. n
            Iter(g) == g = [s \in SUBSET D |-> IF s = {} THEN base
                                ELSE op(g[s \ {Max(s)}], seq[Max(s)])]
            it == CHOOSE g : Iter(g)
            c == [s \in SUBSET D |-> Max(s)]
            f == [k \in 0 .. n |-> it[1 .. k]]
<1>1. IsFiniteSet(D)
  BY FS_Interval
<1>2. \A s \in SUBSET D : s # {} => Max(s) \in s
  BY Extremes
<1>3. \E g : Iter(g)
  <2>1. PICK g : IsIter(g, base, seq, D, c)
    <3>1. \A s \in SUBSET D : s # {} => c[s] \in s
      BY <1>2
    <3>. HIDE DEF D, c
    <3>. QED
      BY <1>1, <3>1, IterExists
  <2>2. Iter(g)
    BY <2>1 DEF IsIter
  <2>. QED
    BY <2>2
<1>4. Iter(it)
  BY <1>3
<1>5. Left(base, seq) = it[D]
  BY DEF Left, FoldLeft, MapThenFoldSet
<1>. HIDE DEF it
<1>6. \A k \in 1 .. n : Max(1 .. k) = k /\ (1 .. k) \ {k} = 1 .. k - 1
  BY DEF Max
<1>8. \A s \in SUBSET D : it[s] = IF s = {} THEN base ELSE op(it[s \ {Max(s)}], seq[Max(s)])
  BY <1>4
<1>9. it[1 .. 0] = base
  <2>1. 1 .. 0 = {} /\ {} \in SUBSET D
    OBVIOUS
  <2>. QED
    BY <1>8, <2>1
<1>10. ASSUME NEW k \in 1 .. n PROVE it[1 .. k] = op(it[1 .. k - 1], seq[k])
  <2>1. it[1 .. k] = op(it[(1 .. k) \ {Max(1 .. k)}], seq[Max(1 .. k)])
    <3>1. 1 .. k \in SUBSET D /\ k \in 1 .. k
      OBVIOUS
    <3>. HIDE DEF D
    <3>. QED
      BY <1>8, <3>1
  <2>. QED
    BY <1>6, <2>1
<1>11. /\ f[0] = base
       /\ \A k \in 1 .. n : f[k] = op(f[k - 1], seq[k])
       /\ f[n] = Left(base, seq)
  BY <1>5, <1>9, <1>10
<1>. HIDE DEF f
<1>. QED
  BY <1>11 DEF Steps

\* The values a fold goes through are determined.
LEMMA LeftUnique ==
  ASSUME NEW n \in Nat, NEW base, NEW seq, NEW f, NEW g, Steps(f, base, seq, n), Steps(g, base, seq, n)
  PROVE  \A k \in 0 .. n : f[k] = g[k]
<1>. DEFINE S == {k \in Nat : k <= n => f[k] = g[k]}
<1>1. 0 \in S
  BY DEF Steps
<1>2. ASSUME NEW k \in Nat, k \in S PROVE k + 1 \in S
  <2>1. CASE k + 1 <= n
    <3>1. k + 1 \in 1 .. n /\ k + 1 - 1 = k /\ f[k] = g[k]
      BY <1>2, <2>1
    <3>2. f[k + 1] = op(f[k], seq[k + 1]) /\ g[k + 1] = op(g[k], seq[k + 1])
      BY <3>1 DEF Steps
    <3>. QED
      BY <3>1, <3>2
  <2>. QED
    BY <2>1
<1>. HIDE DEF S
<1>3. Nat \subseteq S
  BY <1>1, <1>2, NatSetInduction
<1>. QED
  BY <1>3 DEF S

\* Nothing to fold leaves the base.
THEOREM LeftEmpty == ASSUME NEW base PROVE Left(base, <<>>) = base
<1>1. DOMAIN <<>> = 1 .. 0 /\ 0 \in Nat
  OBVIOUS
<1>. QED
  BY <1>1, LeftSteps DEF Steps

\* One entry more is one application of op more.
THEOREM LeftAppend ==
  ASSUME NEW base, NEW S, NEW seq \in Seq(S), NEW x \in S
  PROVE  Left(base, Append(seq, x)) = op(Left(base, seq), x)
<1>. DEFINE n == Len(seq)
            more == Append(seq, x)
<1>1. /\ n \in Nat /\ n + 1 \in Nat
      /\ DOMAIN seq = 1 .. n /\ DOMAIN more = 1 .. n + 1
      /\ \A k \in 1 .. n : more[k] = seq[k]
      /\ more[n + 1] = x
  BY AppendProperties, LenProperties
<1>. HIDE DEF n, more
<1>2. PICK f : Steps(f, base, seq, n) /\ f[n] = Left(base, seq)
  BY <1>1, LeftSteps
<1>3. PICK g : Steps(g, base, more, n + 1) /\ g[n + 1] = Left(base, more)
  BY <1>1, LeftSteps
<1>4. f[n] = g[n]
  <2>1. Steps(g, base, seq, n)
    BY <1>1, <1>3 DEF Steps
  <2>2. \A k \in 0 .. n : f[k] = g[k]
    BY <1>1, <1>2, <2>1, LeftUnique
  <2>. QED
    BY <1>1, <2>2
<1>5. g[n + 1] = op(g[n], x)
  <2>1. n + 1 \in 1 .. n + 1 /\ n + 1 - 1 = n
    BY <1>1
  <2>. QED
    BY <1>1, <1>3, <2>1 DEF Steps
<1>. QED
  BY <1>2, <1>3, <1>4, <1>5 DEF more

-----------------------------------------------------------------------------
(* The entries at a set of places *)

\* How far i is in I, from below.
Rank(I, i) == Cardinality({j \in I : j <= i})

\* Ranks grow with the places, from 1 to their number.
LEMMA RankOrdered ==
  ASSUME NEW n \in Nat, NEW I \in SUBSET (1 .. n)
  PROVE  /\ IsFiniteSet(I) /\ Cardinality(I) \in Nat
         /\ \A i \in I : Rank(I, i) \in 1 .. Cardinality(I)
         /\ \A i, k \in I : i < k => Rank(I, i) < Rank(I, k)
<1>0. \A i \in I : i \in 1 .. n
  OBVIOUS
<1>1. IsFiniteSet(I) /\ \A i \in I : i \in Nat
  <2>1. IsFiniteSet(1 .. n)
    BY FS_Interval
  <2>2. IsFiniteSet(I)
    BY <2>1, FS_Subset
  <2>. QED
    BY <1>0, <2>2
<1>2. \A i \in I : IsFiniteSet({j \in I : j <= i}) /\ {j \in I : j <= i} \subseteq I
  BY <1>1, FS_Subset
<1>3. ASSUME NEW i \in I PROVE Rank(I, i) \in 1 .. Cardinality(I)
  <2>1. i \in {j \in I : j <= i}
    OBVIOUS
  <2>2. Rank(I, i) \in Nat /\ Rank(I, i) # 0
    BY <1>2, <2>1, FS_CardinalityType, FS_EmptySet DEF Rank
  <2>3. Rank(I, i) <= Cardinality(I) /\ Cardinality(I) \in Nat
    BY <1>1, <1>2, FS_Subset, FS_CardinalityType DEF Rank
  <2>. QED
    BY <2>2, <2>3
<1>4. ASSUME NEW i \in I, NEW k \in I, i < k PROVE Rank(I, i) < Rank(I, k)
  <2>1. {j \in I : j <= i} \subseteq {j \in I : j <= k}
    <3>1. \A j \in I : j \in Nat
      BY <1>1
    <3>2. \A j \in I : j <= i => j <= k
      BY <1>4, <3>1
    <3>. QED
      BY <3>2
  <2>2. k \in {j \in I : j <= k} /\ k \notin {j \in I : j <= i}
    <3>1. i \in Nat /\ k \in Nat
      BY <1>1
    <3>. QED
      BY <1>4, <3>1
  <2>3. {j \in I : j <= i} # {j \in I : j <= k}
    BY <2>2
  <2>. QED
    BY <1>2, <2>1, <2>3, FS_Subset, FS_CardinalityType DEF Rank
<1>. QED
  BY <1>1, <1>3, <1>4, FS_CardinalityType

\* A place beyond the others is the last, and leaves their ranks.
LEMMA RankAppend ==
  ASSUME NEW n \in Nat, NEW I \in SUBSET (1 .. n)
  PROVE  /\ Cardinality(I \cup {n + 1}) = Cardinality(I) + 1
         /\ Rank(I \cup {n + 1}, n + 1) = Cardinality(I) + 1
         /\ \A i \in I : Rank(I \cup {n + 1}, i) = Rank(I, i)
<1>1. IsFiniteSet(I) /\ n + 1 \notin I
  <2>1. n + 1 \notin 1 .. n
    OBVIOUS
  <2>2. IsFiniteSet(I)
    BY RankOrdered
  <2>. QED
    BY <2>1, <2>2
<1>2. {j \in I \cup {n + 1} : j <= n + 1} = I \cup {n + 1}
  <2>1. \A j \in I : j \in 1 .. n
    OBVIOUS
  <2>2. \A j \in I \cup {n + 1} : j <= n + 1
    BY <2>1
  <2>. QED
    BY <2>2
<1>3. \A i \in I : {j \in I \cup {n + 1} : j <= i} = {j \in I : j <= i}
  OBVIOUS
<1>. QED
  BY <1>1, <1>2, <1>3, FS_AddElement DEF Rank

\* Every rank up to the number of places is some place's.
LEMMA NthExists ==
  ASSUME NEW n \in Nat
  PROVE  \A I \in SUBSET (1 .. n) : \A m \in 1 .. Cardinality(I) : \E i \in I : Rank(I, i) = m
<1>. DEFINE S == {k \in Nat : \A I \in SUBSET (1 .. k) : \A m \in 1 .. Cardinality(I) :
                     \E i \in I : Rank(I, i) = m}
<1>1. 0 \in S
  <2>1. \A I \in SUBSET (1 .. 0) : Cardinality(I) = 0
    <3>1. 1 .. 0 = {}
      OBVIOUS
    <3>. QED
      BY <3>1, FS_EmptySet
  <2>. QED
    BY <2>1
<1>2. ASSUME NEW k \in Nat, k \in S PROVE k + 1 \in S
  <2>. SUFFICES ASSUME NEW J \in SUBSET (1 .. k + 1), NEW m \in 1 .. Cardinality(J)
                PROVE  \E i \in J : Rank(J, i) = m
    OBVIOUS
  <2>. DEFINE I == J \ {k + 1}
  <2>1. I \in SUBSET (1 .. k)
    OBVIOUS
  <2>2. CASE J = I
    BY <1>2, <2>1, <2>2
  <2>3. CASE J = I \cup {k + 1}
    <3>. HIDE DEF I
    <3>1. /\ Cardinality(J) = Cardinality(I) + 1 /\ Cardinality(I) \in Nat
          /\ Rank(J, k + 1) = Cardinality(I) + 1
          /\ \A i \in I : Rank(J, i) = Rank(I, i)
      BY <2>1, <2>3, RankAppend, RankOrdered
    <3>2. m = Cardinality(I) + 1 \/ m \in 1 .. Cardinality(I)
      BY <3>1
    <3>. QED
      BY <1>2, <2>1, <2>3, <3>1, <3>2
  <2>. QED
    BY <2>2, <2>3
<1>. HIDE DEF S
<1>3. Nat \subseteq S
  BY <1>1, <1>2, NatSetInduction
<1>. QED
  BY <1>3 DEF S

\* Nth is the inverse of the rank.
LEMMA NthIs ==
  ASSUME NEW n \in Nat, NEW I \in SUBSET (1 .. n)
  PROVE  /\ \A m \in 1 .. Cardinality(I) : Nth(I, m) \in I /\ Rank(I, Nth(I, m)) = m
         /\ \A i \in I : Nth(I, Rank(I, i)) = i
<1>1. \A m \in 1 .. Cardinality(I) : Nth(I, m) \in I /\ Rank(I, Nth(I, m)) = m
  <2>. SUFFICES ASSUME NEW m \in 1 .. Cardinality(I)
                PROVE  Nth(I, m) \in I /\ Rank(I, Nth(I, m)) = m
    OBVIOUS
  <2>1. \E i \in I : Cardinality({j \in I : j <= i}) = m
    BY NthExists DEF Rank
  <2>. QED
    BY <2>1 DEF Nth, Rank
<1>2. ASSUME NEW i \in I PROVE Nth(I, Rank(I, i)) = i
  <2>1. /\ Rank(I, i) \in 1 .. Cardinality(I) /\ i \in Int /\ Cardinality(I) \in Nat
        /\ \A k \in I : k \in Int /\ Rank(I, k) \in Int /\ (i < k => Rank(I, i) < Rank(I, k)) /\ (k < i => Rank(I, k) < Rank(I, i))
    <3>1. \A k \in I : k \in 1 .. n
      OBVIOUS
    <3>2. /\ Cardinality(I) \in Nat
          /\ \A k \in I : Rank(I, k) \in 1 .. Cardinality(I)
          /\ \A j, k \in I : j < k => Rank(I, j) < Rank(I, k)
      BY RankOrdered
    <3>. HIDE DEF Rank
    <3>. QED
      BY <3>1, <3>2
  <2>. DEFINE x == Nth(I, Rank(I, i))
  <2>2. x \in I /\ Rank(I, x) = Rank(I, i)
    BY <1>1, <2>1
  <2>. HIDE DEF x
  <2>3. ~ (x < i) /\ ~ (i < x) /\ x \in Int
    BY <2>1, <2>2
  <2>4. x = i
    BY <2>1, <2>3
  <2>. QED
    BY <2>4 DEF x
<1>. QED
  BY <1>1, <1>2

\* At no place there is nothing.
THEOREM AtEmpty == ASSUME NEW s PROVE At(s, {}) = <<>>
<1>1. Cardinality({}) = 0
  BY FS_EmptySet
<1>. QED
  BY <1>1 DEF At

\* The places of I are listed from below, each once.
THEOREM NthLists ==
  ASSUME NEW n \in Nat, NEW I \in SUBSET (1 .. n)
  PROVE  /\ Cardinality(I) \in Nat
         /\ \A m \in 1 .. Cardinality(I) : Nth(I, m) \in I
         /\ \A m, k \in 1 .. Cardinality(I) : m < k => Nth(I, m) < Nth(I, k)
         /\ \A i \in I : \E m \in 1 .. Cardinality(I) : Nth(I, m) = i
<1>. DEFINE c == Cardinality(I)
<1>1. /\ c \in Nat /\ \A i \in I : i \in Nat /\ Rank(I, i) \in 1 .. c
      /\ \A i, k \in I : i < k => Rank(I, i) < Rank(I, k)
  BY RankOrdered
<1>2. /\ \A m \in 1 .. c : Nth(I, m) \in I /\ Rank(I, Nth(I, m)) = m
      /\ \A i \in I : Nth(I, Rank(I, i)) = i
  BY NthIs
<1>. HIDE DEF c
<1>3. ASSUME NEW m \in 1 .. c, NEW k \in 1 .. c, m < k PROVE Nth(I, m) < Nth(I, k)
  <2>1. Nth(I, m) \in I /\ Nth(I, k) \in I /\ Rank(I, Nth(I, m)) = m /\ Rank(I, Nth(I, k)) = k
    BY <1>2
  <2>2. Nth(I, m) \in Nat /\ Nth(I, k) \in Nat
    BY <1>1, <2>1
  <2>3. ~ (Nth(I, k) < Nth(I, m))
    <3>1. Nth(I, k) < Nth(I, m) => Rank(I, Nth(I, k)) < Rank(I, Nth(I, m))
      BY <1>1, <2>1
    <3>2. k \in Int /\ m \in Int
      OBVIOUS
    <3>. QED
      BY <1>3, <2>1, <3>1, <3>2
  <2>4. Nth(I, k) # Nth(I, m)
    <3>1. m # k
      BY <1>3
    <3>. QED
      BY <2>1, <3>1
  <2>. QED
    BY <2>2, <2>3, <2>4
<1>. QED
  BY <1>1, <1>2, <1>3 DEF c

\* What is at the places of I are the entries there, each at its rank.
THEOREM AtType ==
  ASSUME NEW n \in Nat, NEW I \in SUBSET (1 .. n), NEW S, NEW s, \A i \in I : s[i] \in S
  PROVE  /\ At(s, I) \in Seq(S) /\ Len(At(s, I)) = Cardinality(I)
         /\ \A i \in I : Rank(I, i) \in DOMAIN At(s, I) /\ At(s, I)[Rank(I, i)] = s[i]
         /\ \A m \in DOMAIN At(s, I) : Nth(I, m) \in I /\ Rank(I, Nth(I, m)) = m
<1>1. /\ Cardinality(I) \in Nat
      /\ \A i \in I : Rank(I, i) \in 1 .. Cardinality(I)
  BY RankOrdered
<1>2. /\ \A m \in 1 .. Cardinality(I) : Nth(I, m) \in I /\ Rank(I, Nth(I, m)) = m
      /\ \A i \in I : Nth(I, Rank(I, i)) = i
  BY NthIs
<1>. DEFINE c == Cardinality(I)
<1>3. At(s, I) = [m \in 1 .. c |-> s[Nth(I, m)]]
  BY DEF At
<1>4. c \in Nat
  BY <1>1
<1>. HIDE DEF c
<1>5. \A m \in 1 .. c : s[Nth(I, m)] \in S
  BY <1>2 DEF c
<1>6. At(s, I) \in Seq(S) /\ Len(At(s, I)) = c /\ DOMAIN At(s, I) = 1 .. c
  BY <1>3, <1>4, <1>5
<1>7. \A i \in I : At(s, I)[Rank(I, i)] = s[i]
  BY <1>1, <1>2, <1>3 DEF c
<1>. QED
  BY <1>1, <1>2, <1>6, <1>7 DEF c

\* Only the entries at those places matter.
THEOREM AtAgrees ==
  ASSUME NEW n \in Nat, NEW I \in SUBSET (1 .. n), NEW s, NEW t, \A i \in I : s[i] = t[i]
  PROVE  At(s, I) = At(t, I)
BY NthIs DEF At

\* One place more, beyond the others, is one entry more.
THEOREM AtOneMore ==
  ASSUME NEW n \in Nat, NEW I \in SUBSET (1 .. n), NEW s
  PROVE  At(s, I \cup {n + 1}) = Append(At(s, I), s[n + 1])
<1>. DEFINE J == I \cup {n + 1}
            c == Cardinality(I)
<1>1. J \in SUBSET (1 .. n + 1)
  OBVIOUS
<1>2. /\ c \in Nat /\ Cardinality(J) = c + 1
      /\ Rank(J, n + 1) = c + 1
      /\ \A i \in I : Rank(J, i) = Rank(I, i)
  BY RankAppend, RankOrdered
<1>3. Nth(J, c + 1) = n + 1
  <2>1. n + 1 \in J /\ n + 1 \in Nat
    OBVIOUS
  <2>. HIDE DEF J
  <2>. QED
    BY <1>1, <1>2, <2>1, NthIs
<1>4. ASSUME NEW m \in 1 .. c PROVE Nth(J, m) = Nth(I, m)
  <2>1. Nth(I, m) \in I /\ Rank(I, Nth(I, m)) = m
    BY NthIs
  <2>2. Nth(I, m) \in J /\ Rank(J, Nth(I, m)) = m
    BY <1>2, <2>1
  <2>3. \A i \in J : Nth(J, Rank(J, i)) = i
    <3>1. n + 1 \in Nat
      OBVIOUS
    <3>. HIDE DEF J
    <3>. QED
      BY <1>1, <3>1, NthIs
  <2>. HIDE DEF J
  <2>. QED
    BY <2>2, <2>3
<1>. HIDE DEF c, J
<1>5. /\ At(s, J) = [m \in 1 .. c + 1 |-> s[Nth(J, m)]]
      /\ At(s, I) = [m \in 1 .. c |-> s[Nth(I, m)]]
  BY <1>2 DEF At, c
<1>6. Len(At(s, I)) = c
  BY <1>2, <1>5
<1>7. Append(At(s, I), s[n + 1]) = [m \in 1 .. c + 1 |-> IF m = c + 1 THEN s[n + 1] ELSE At(s, I)[m]]
  BY <1>2, <1>5, <1>6
<1>8. \A m \in 1 .. c + 1 : s[Nth(J, m)] = IF m = c + 1 THEN s[n + 1] ELSE At(s, I)[m]
  BY <1>2, <1>3, <1>4, <1>5
<1>. QED
  BY <1>5, <1>7, <1>8 DEF J

\* The entries of two sequences put together, all those of the second among them.
THEOREM AtConcat ==
  ASSUME NEW S, NEW s \in Seq(S), NEW t \in Seq(S), NEW I \in SUBSET (DOMAIN s)
  PROVE  At(s \o t, I \cup {Len(s) + j : j \in DOMAIN t}) = At(s, I) \o t
<1>. DEFINE n == Len(s)
            m == Len(t)
            st == s \o t
            Past(k) == I \cup {n + j : j \in 1 .. k}
            Grown(k) == At(st, Past(k)) = At(s, I) \o SubSeq(t, 1, k)
            T == {k \in Nat : k <= m => Grown(k)}
<1>1. /\ n \in Nat /\ m \in Nat /\ DOMAIN s = 1 .. n /\ DOMAIN t = 1 .. m
      /\ \A k \in 1 .. n : st[k] = s[k] /\ s[k] \in S
      /\ \A k \in 1 .. m : st[n + k] = t[k]
  BY ConcatProperties, LenProperties, ElementOfSeq
<1>2. I \in SUBSET (1 .. n) /\ At(s, I) \in Seq(S)
  <2>1. I \in SUBSET (1 .. n) /\ \A i \in I : s[i] \in S
    BY <1>1
  <2>. HIDE DEF n
  <2>. QED
    BY <1>1, <2>1, AtType
<1>3. Grown(0)
  <2>1. Past(0) = I
    OBVIOUS
  <2>2. At(st, I) = At(s, I)
    <3>1. \A i \in I : st[i] = s[i]
      BY <1>1, <1>2
    <3>. HIDE DEF n, st
    <3>. QED
      BY <1>1, <1>2, <3>1, AtAgrees
  <2>3. SubSeq(t, 1, 0) = <<>>
    BY SubSeqEmpty
  <2>4. At(s, I) \o <<>> = At(s, I)
    BY <1>2, ConcatEmptySeq
  <2>. QED
    BY <2>1, <2>2, <2>3, <2>4
<1>4. ASSUME NEW k \in Nat, k + 1 <= m, Grown(k) PROVE Grown(k + 1)
  <2>1. Past(k + 1) = Past(k) \cup {n + k + 1}
    <3>1. \A j \in 1 .. k + 1 : j \in 1 .. k \/ j = k + 1
      OBVIOUS
    <3>2. k + 1 \in 1 .. k + 1 /\ 1 .. k \subseteq 1 .. k + 1 /\ n + (k + 1) = n + k + 1
      BY <1>1
    <3>3. {n + j : j \in 1 .. k + 1} = {n + j : j \in 1 .. k} \cup {n + (k + 1)}
      <4>. HIDE DEF n
      <4>. QED
        BY <3>1, <3>2
    <3>. QED
      BY <3>2, <3>3
  <2>2. Past(k) \in SUBSET (1 .. n + k)
    BY <1>1, <1>2
  <2>3. At(st, Past(k + 1)) = Append(At(st, Past(k)), st[n + k + 1])
    <3>1. n + k \in Nat
      BY <1>1
    <3>. HIDE DEF Past, st, n
    <3>. QED
      BY <2>1, <2>2, <3>1, AtOneMore
  <2>4. k + 1 \in 1 .. m /\ 1 \in 1 .. m /\ k + 1 \in 1 .. Len(t) /\ n + (k + 1) = n + k + 1
    BY <1>1, <1>4
  <2>5. st[n + k + 1] = t[k + 1]
    BY <1>1, <2>4
  <2>. DEFINE a == At(s, I)
              b == SubSeq(t, 1, k)
              x == t[k + 1]
  <2>6. b \in Seq(S) /\ x \in S
    <3>1. \A i \in 1 .. k : t[i] \in S
      BY <1>1, <2>4, ElementOfSeq
    <3>. QED
      BY <1>1, <2>4, <3>1, SubSeqProperties, ElementOfSeq
  <2>7. SubSeq(t, 1, k + 1) = b \o <<x>>
    <3>1. SubSeq(t, 1, k + 1) = SubSeq(t, 1, k + 1 - 1) \o <<t[k + 1]>>
      BY <2>4, SubSeqRecursiveSecond
    <3>. QED
      BY <3>1
  <2>8. Append(a \o b, x) = a \o (b \o <<x>>)
    <3>1. a \in Seq(S) /\ <<x>> \in Seq(S)
      BY <1>2, <2>6
    <3>. HIDE DEF a, b, x
    <3>2. (a \o b) \o <<x>> = a \o (b \o <<x>>) /\ a \o b \in Seq(S)
      BY <2>6, <3>1, ConcatAssociative, ConcatProperties
    <3>3. Append(a \o b, x) = (a \o b) \o <<x>>
      BY <2>6, <3>2, AppendIsConcat
    <3>. QED
      BY <3>2, <3>3
  <2>. QED
    BY <1>4, <2>3, <2>5, <2>7, <2>8
<1>5. Grown(m)
  <2>. HIDE DEF Grown
  <2>1. 0 \in T
    BY <1>3
  <2>2. \A k \in Nat : k \in T => k + 1 \in T
    BY <1>1, <1>4
  <2>3. m \in T
    <3>. HIDE DEF T
    <3>. QED
      BY <1>1, <2>1, <2>2, NatSetInduction
  <2>. QED
    BY <2>3
<1>6. SubSeq(t, 1, m) = t /\ Past(m) = I \cup {n + j : j \in DOMAIN t}
  BY <1>1, SubSeqFull
<1>. QED
  BY <1>5, <1>6

-----------------------------------------------------------------------------
(* Sequences of sequences *)

\* f joins the first sequences of ss, one after the other.
Joins(f, ss, n) == f = [i \in 1 .. n |-> IF i = 1 THEN ss[i] ELSE f[i - 1] \o ss[i]]

\* Its values, place by place.
LEMMA JoinsAt ==
  ASSUME NEW f, NEW ss, NEW n, Joins(f, ss, n)
  PROVE  \A i \in 1 .. n : f[i] = IF i = 1 THEN ss[i] ELSE f[i - 1] \o ss[i]
<1>. DEFINE g == [i \in 1 .. n |-> IF i = 1 THEN ss[i] ELSE f[i - 1] \o ss[i]]
<1>1. \A i \in 1 .. n : g[i] = IF i = 1 THEN ss[i] ELSE f[i - 1] \o ss[i]
  OBVIOUS
<1>2. f = g
  BY Zenon DEF Joins
<1>. HIDE DEF g
<1>. QED
  BY <1>1, <1>2, Zenon

\* The last of them joins the last sequence to what came before.
LEMMA JoinsLast ==
  ASSUME NEW f, NEW ss, NEW n \in Nat \ {0, 1}, Joins(f, ss, n)
  PROVE  f[n] = f[n - 1] \o ss[n]
<1>1. n \in 1 .. n /\ n # 1
  OBVIOUS
<1>2. \A i \in 1 .. n : f[i] = IF i = 1 THEN ss[i] ELSE f[i - 1] \o ss[i]
  BY JoinsAt
<1>. QED
  BY <1>1, <1>2, Zenon

\* There is such a function.
LEMMA JoinsExist == ASSUME NEW ss, NEW n \in Nat PROVE \E f : Joins(f, ss, n)
<1>. DEFINE S == {k \in Nat : \E f : Joins(f, ss, k)}
<1>1. 0 \in S
  <2>1. Joins([i \in {} |-> i], ss, 0)
    BY DEF Joins
  <2>. QED
    BY <2>1
<1>2. ASSUME NEW k \in Nat, k \in S PROVE k + 1 \in S
  <2>1. PICK f : Joins(f, ss, k)
    BY <1>2
  <2>. DEFINE g == [i \in 1 .. k + 1 |-> IF i = 1 THEN ss[i] ELSE f[i - 1] \o ss[i]]
  <2>2. \A i \in 1 .. k : g[i] = f[i]
    BY <2>1, JoinsAt
  <2>3. ASSUME NEW i \in 1 .. k + 1, i # 1 PROVE g[i - 1] = f[i - 1]
    <3>1. i - 1 \in 1 .. k
      BY <2>3
    <3>. HIDE DEF g
    <3>. QED
      BY <2>2, <3>1
  <2>4. Joins(g, ss, k + 1)
    BY <2>3 DEF Joins
  <2>. HIDE DEF g
  <2>. QED
    BY <2>4
<1>. HIDE DEF S
<1>3. Nat \subseteq S
  BY <1>1, <1>2, NatSetInduction
<1>. QED
  BY <1>3 DEF S

\* Sequences that begin alike are joined alike.
LEMMA JoinsUnique ==
  ASSUME NEW n \in Nat, NEW m \in Nat, NEW ss, NEW tt, NEW f, NEW g,
         Joins(f, ss, n), Joins(g, tt, m), n <= m, \A i \in 1 .. n : ss[i] = tt[i]
  PROVE  \A i \in 1 .. n : f[i] = g[i]
<1>. DEFINE S == {k \in Nat : k \in 1 .. n => f[k] = g[k]}
<1>1. 0 \in S
  OBVIOUS
<1>2. ASSUME NEW k \in Nat, k \in S PROVE k + 1 \in S
  <2>. SUFFICES ASSUME k + 1 \in 1 .. n PROVE f[k + 1] = g[k + 1]
    OBVIOUS
  <2>1. k + 1 \in 1 .. m /\ ss[k + 1] = tt[k + 1]
    OBVIOUS
  <2>2. /\ f[k + 1] = IF k + 1 = 1 THEN ss[k + 1] ELSE f[k] \o ss[k + 1]
        /\ g[k + 1] = IF k + 1 = 1 THEN tt[k + 1] ELSE g[k] \o tt[k + 1]
    <3>1. k + 1 - 1 = k
      OBVIOUS
    <3>2. f[k + 1] = IF k + 1 = 1 THEN ss[k + 1] ELSE f[k + 1 - 1] \o ss[k + 1]
      BY JoinsAt
    <3>3. g[k + 1] = IF k + 1 = 1 THEN tt[k + 1] ELSE g[k + 1 - 1] \o tt[k + 1]
      BY <2>1, JoinsAt
    <3>. QED
      BY <3>1, <3>2, <3>3
  <2>3. k + 1 # 1 => f[k] = g[k]
    BY <1>2
  <2>. QED
    BY <2>1, <2>2, <2>3
<1>. HIDE DEF S
<1>3. Nat \subseteq S
  BY <1>1, <1>2, NatSetInduction
<1>. QED
  BY <1>3 DEF S

\* FlattenSeq is the last value of such a function.
LEMMA FlattenJoins ==
  ASSUME NEW ss, Len(ss) \in Nat \ {0}
  PROVE  \E f : Joins(f, ss, Len(ss)) /\ FlattenSeq(ss) = f[Len(ss)]
<1>. DEFINE f == CHOOSE g : Joins(g, ss, Len(ss))
<1>1. Joins(f, ss, Len(ss))
  BY JoinsExist
<1>2. FlattenSeq(ss) = f[Len(ss)]
  BY DEF FlattenSeq, Joins
<1>. HIDE DEF f
<1>. QED
  BY <1>1, <1>2

\* No sequences join to the empty one.
THEOREM FlattenNone == FlattenSeq(<<>>) = <<>>
BY DEF FlattenSeq

\* One sequence more is put after the others.
THEOREM FlattenOneMore ==
  ASSUME NEW S, NEW ss \in Seq(Seq(S)), NEW x \in Seq(S)
  PROVE  FlattenSeq(Append(ss, x)) = FlattenSeq(ss) \o x
<1>. DEFINE n == Len(ss)
            tt == Append(ss, x)
<1>1. /\ n \in Nat /\ Len(tt) = n + 1 /\ tt[n + 1] = x
      /\ \A i \in 1 .. n : tt[i] = ss[i]
  BY AppendProperties, LenProperties
<1>2. CASE n = 0
  <2>1. ss = <<>>
    BY <1>2, EmptySeq
  <2>2. PICK f : Joins(f, tt, 1) /\ FlattenSeq(tt) = f[1]
    <3>1. Len(tt) = 1 /\ 1 \in Nat \ {0}
      BY <1>1, <1>2
    <3>. HIDE DEF tt
    <3>. QED
      BY <3>1, FlattenJoins
  <2>3. FlattenSeq(tt) = x
    BY <1>1, <1>2, <2>2 DEF Joins
  <2>4. <<>> \o x = x
    BY ConcatEmptySeq
  <2>. QED
    BY <2>1, <2>3, <2>4, FlattenNone
<1>3. CASE n # 0
  <2>1. PICK f : Joins(f, ss, n) /\ FlattenSeq(ss) = f[n]
    BY <1>1, <1>3, FlattenJoins
  <2>. HIDE DEF n, tt
  <2>. DEFINE m == n + 1
  <2>2. m \in Nat \ {0, 1} /\ m - 1 = n /\ n <= m /\ n \in 1 .. n /\ Len(tt) = m /\ tt[m] = x
    BY <1>1, <1>3
  <2>. HIDE DEF m
  <2>3. PICK g : Joins(g, tt, m) /\ FlattenSeq(tt) = g[m]
    BY <2>2, FlattenJoins
  <2>4. f[n] = g[n]
    <3>1. \A i \in 1 .. n : f[i] = g[i]
      BY <1>1, <2>1, <2>2, <2>3, JoinsUnique
    <3>. QED
      BY <2>2, <3>1
  <2>5. g[m] = g[m - 1] \o tt[m]
    BY <2>2, <2>3, JoinsLast, Zenon
  <2>. QED
    BY <2>1, <2>2, <2>3, <2>4, <2>5, Zenon DEF tt
<1>. QED
  BY <1>2, <1>3

\* What is joined is made of the entries of the sequences, all of them and no other.
THEOREM FlattenMembers ==
  ASSUME NEW S, NEW ss \in Seq(Seq(S))
  PROVE  /\ FlattenSeq(ss) \in Seq(S)
         /\ \A k \in DOMAIN FlattenSeq(ss) :
              \E i \in DOMAIN ss : \E m \in DOMAIN ss[i] : FlattenSeq(ss)[k] = ss[i][m]
         /\ \A i \in DOMAIN ss : \A m \in DOMAIN ss[i] :
              \E k \in DOMAIN FlattenSeq(ss) : FlattenSeq(ss)[k] = ss[i][m]
<1>. DEFINE n == Len(ss)
            Made(r, c) ==
              /\ r \in Seq(S)
              /\ \A k \in DOMAIN r : \E i \in 1 .. c : \E m \in DOMAIN ss[i] : r[k] = ss[i][m]
              /\ \A i \in 1 .. c : \A m \in DOMAIN ss[i] : \E k \in DOMAIN r : r[k] = ss[i][m]
<1>1. n \in Nat /\ DOMAIN ss = 1 .. n /\ \A i \in 1 .. n : ss[i] \in Seq(S)
  BY LenProperties, ElementOfSeq
<1>2. SUFFICES Made(FlattenSeq(ss), n)
  BY <1>1
<1>. HIDE DEF n
<1>3. CASE n = 0
  <2>1. ss = <<>>
    BY <1>3, EmptySeq DEF n
  <2>2. FlattenSeq(ss) = <<>> /\ DOMAIN <<>> = {} /\ <<>> \in Seq(S) /\ 1 .. n = {}
    BY <1>3, <2>1, FlattenNone
  <2>. QED
    BY <2>2
<1>4. CASE n # 0
  <2>1. PICK f : Joins(f, ss, n) /\ FlattenSeq(ss) = f[n]
    BY <1>1, <1>4, FlattenJoins DEF n
  <2>. DEFINE T == {k \in Nat : k \in 1 .. n => Made(f[k], k)}
  <2>2. \A k \in 1 .. n : f[k] = IF k = 1 THEN ss[k] ELSE f[k - 1] \o ss[k]
    BY <2>1, JoinsAt
  <2>3. 0 \in T
    OBVIOUS
  <2>4. ASSUME NEW c \in Nat, c \in T PROVE c + 1 \in T
    <3>. DEFINE d == c + 1
    <3>. SUFFICES ASSUME d \in 1 .. n PROVE Made(f[d], d)
      <4>. HIDE DEF Made
      <4>. QED
        OBVIOUS
    <3>0. d \in Nat /\ d - 1 = c /\ (d = 1 <=> c = 0) /\ 1 .. d = 1 .. c \cup {d}
      OBVIOUS
    <3>1. ss[d] \in Seq(S)
      BY <1>1
    <3>2. CASE c = 0
      <4>1. f[d] = ss[d] /\ 1 .. d = {d}
        BY <2>2, <3>0, <3>2
      <4>. HIDE DEF d
      <4>. QED
        BY <3>1, <4>1
    <3>3. CASE c # 0
      <4>1. f[d] = f[c] \o ss[d]
        BY <2>2, <3>0, <3>3
      <4>2. Made(f[c], c)
        <5>1. c \in 1 .. n
          BY <1>1, <3>3
        <5>. QED
          BY <2>4, <5>1
      <4>. DEFINE a == f[c]
                  b == ss[d]
                  e == f[d]
      <4>3. /\ a \in Seq(S) /\ b \in Seq(S) /\ e \in Seq(S)
            /\ Len(a) \in Nat /\ Len(b) \in Nat
            /\ DOMAIN a = 1 .. Len(a) /\ DOMAIN b = 1 .. Len(b)
            /\ DOMAIN e = 1 .. Len(a) + Len(b)
            /\ \A k \in 1 .. Len(a) : e[k] = a[k]
            /\ \A m \in 1 .. Len(b) : e[Len(a) + m] = b[m]
            /\ \A k \in 1 .. Len(a) + Len(b) : k > Len(a) =>
                 k - Len(a) \in 1 .. Len(b) /\ e[k] = b[k - Len(a)]
        <5>1. a \in Seq(S) /\ b \in Seq(S) /\ e = a \o b
          BY <3>1, <4>1, <4>2
        <5>. HIDE DEF a, b, e
        <5>2. /\ Len(a) \in Nat /\ Len(b) \in Nat
              /\ DOMAIN a = 1 .. Len(a) /\ DOMAIN b = 1 .. Len(b)
          BY <5>1, LenProperties
        <5>3. /\ e \in Seq(S) /\ Len(e) = Len(a) + Len(b)
              /\ \A k \in 1 .. Len(a) + Len(b) :
                   e[k] = IF k <= Len(a) THEN a[k] ELSE b[k - Len(a)]
          BY <5>1, ConcatProperties
        <5>4. DOMAIN e = 1 .. Len(a) + Len(b)
          BY <5>3, LenProperties
        <5>. QED
          BY <5>1, <5>2, <5>3, <5>4
      <4>4. ASSUME NEW k \in DOMAIN e
            PROVE  \E i \in 1 .. d : \E m \in DOMAIN ss[i] : e[k] = ss[i][m]
        <5>1. CASE k \in 1 .. Len(a)
          <6>1. e[k] = a[k] /\ k \in DOMAIN a
            BY <4>3, <5>1
          <6>2. \E i \in 1 .. c : \E m \in DOMAIN ss[i] : a[k] = ss[i][m]
            BY <4>2, <6>1
          <6>. HIDE DEF a, e, d
          <6>. QED
            BY <3>0, <6>1, <6>2
        <5>2. CASE k > Len(a)
          <6>1. k - Len(a) \in DOMAIN b /\ e[k] = b[k - Len(a)]
            BY <4>3, <5>2
          <6>2. d \in 1 .. d
            BY <3>0
          <6>. HIDE DEF a, e, d
          <6>. QED
            BY <6>1, <6>2
        <5>. QED
          BY <4>3, <5>1, <5>2
      <4>5. ASSUME NEW i \in 1 .. d, NEW m \in DOMAIN ss[i]
            PROVE  \E k \in DOMAIN e : e[k] = ss[i][m]
        <5>1. CASE i = d
          <6>1. m \in 1 .. Len(b) /\ e[Len(a) + m] = b[m] /\ Len(a) + m \in DOMAIN e
            <7>1. m \in DOMAIN b
              BY <5>1
            <7>. HIDE DEF a, b, e
            <7>. QED
              BY <4>3, <7>1
          <6>2. b[m] = ss[i][m]
            BY <5>1
          <6>. HIDE DEF a, b, e
          <6>. QED
            BY <6>1, <6>2
        <5>2. CASE i \in 1 .. c
          <6>1. PICK k \in DOMAIN a : a[k] = ss[i][m]
            BY <4>2, <5>2
          <6>2. k \in DOMAIN e /\ e[k] = a[k]
            <7>. HIDE DEF a, b, e
            <7>. QED
              BY <4>3
          <6>. QED
            BY <6>1, <6>2
        <5>. QED
          BY <3>0, <5>1, <5>2
      <4>. QED
        BY <4>3, <4>4, <4>5
    <3>. QED
      BY <3>2, <3>3
  <2>5. n \in T
    <3>. HIDE DEF T
    <3>. QED
      BY <1>1, <2>3, <2>4, NatSetInduction
  <2>6. n \in 1 .. n
    BY <1>1, <1>4
  <2>. QED
    BY <2>1, <2>5, <2>6
<1>. QED
  BY <1>3, <1>4

\* The places of I that are listed at E.
Listed(I, E) == {Nth(I, k) : k \in E}

\* Picking from what was picked is picking once.
THEOREM AtAt ==
  ASSUME NEW n \in Nat, NEW I \in SUBSET (1 .. n), NEW s,
         NEW E \in SUBSET (1 .. Cardinality(I))
  PROVE  At(At(s, I), E) = At(s, Listed(I, E))
<1>. DEFINE c == Cardinality(I)
            a == At(s, I)
            Of(F) == {Nth(I, k) : k \in F}
            T == {m \in Nat : m <= c => \A F \in SUBSET (1 .. m) : At(a, F) = At(s, Of(F))}
<1>1. /\ c \in Nat
      /\ \A m \in 1 .. c : Nth(I, m) \in I
      /\ \A m, k \in 1 .. c : m < k => Nth(I, m) < Nth(I, k)
  BY NthLists
<1>. HIDE DEF c
<1>2. a = [m \in 1 .. c |-> s[Nth(I, m)]]
  BY DEF At, c
<1>. HIDE DEF a
<1>3. 0 \in T
  <2>1. \A F \in SUBSET (1 .. 0) : F = {} /\ Of(F) = {}
    <3>1. 1 .. 0 = {}
      OBVIOUS
    <3>. QED
      BY <3>1
  <2>. HIDE DEF Of
  <2>. QED
    BY <2>1, AtEmpty
<1>4. ASSUME NEW m \in Nat, m \in T PROVE m + 1 \in T
  <2>. SUFFICES ASSUME m + 1 <= c, NEW F \in SUBSET (1 .. m + 1) PROVE At(a, F) = At(s, Of(F))
    OBVIOUS
  <2>. DEFINE G == F \ {m + 1}
              x == Nth(I, m + 1)
              y == x - 1
  <2>1. G \in SUBSET (1 .. m) /\ m + 1 \in 1 .. c /\ m <= c
    BY <1>1
  <2>2. At(a, G) = At(s, Of(G))
    <3>. HIDE DEF Of, G
    <3>. QED
      BY <1>4, <2>1
  <2>3. CASE m + 1 \notin F
    <3>1. G = F
      BY <2>3
    <3>. HIDE DEF G, Of
    <3>. QED
      BY <2>2, <3>1
  <2>4. CASE m + 1 \in F
    <3>1. F = G \cup {m + 1} /\ Of(F) = Of(G) \cup {x}
      BY <2>4
    <3>2. a[m + 1] = s[x]
      BY <1>2, <2>1
    <3>3. \A k \in G : Nth(I, k) < x /\ Nth(I, k) \in 1 .. n
      <4>1. \A k \in G : k \in 1 .. c /\ k < m + 1
        BY <1>1, <2>1
      <4>. HIDE DEF G
      <4>. QED
        BY <1>1, <2>1, <4>1
    <3>4. x \in 1 .. n
      BY <1>1, <2>1
    <3>. HIDE DEF G, x
    <3>5. y \in Nat /\ y + 1 = x /\ Of(G) \in SUBSET (1 .. y)
      BY <3>3, <3>4
    <3>. HIDE DEF Of, y
    <3>6. At(s, Of(G) \cup {y + 1}) = Append(At(s, Of(G)), s[y + 1])
      BY <3>5, AtOneMore
    <3>7. At(a, G \cup {m + 1}) = Append(At(a, G), a[m + 1])
      BY <2>1, AtOneMore
    <3>. QED
      BY <2>2, <3>1, <3>2, <3>5, <3>6, <3>7
  <2>. QED
    BY <2>3, <2>4
<1>5. c \in T
  <2>. HIDE DEF T
  <2>. QED
    BY <1>1, <1>3, <1>4, NatSetInduction
<1>6. At(a, E) = At(s, Of(E))
  <2>. HIDE DEF Of
  <2>. QED
    BY <1>1, <1>5 DEF c
<1>. QED
  BY <1>6 DEF a, Listed

-----------------------------------------------------------------------------
(* Folds over a set *)

\* op keeps the values of V among themselves, and tells no two orders of entries apart.
Steady(V, base, seq, D) ==
  /\ base \in V
  /\ \A v \in V : \A x \in D : op(v, seq[x]) \in V
  /\ \A v \in V : \A x, y \in D : op(op(v, seq[x]), seq[y]) = op(op(v, seq[y]), seq[x])

AnyLast(g, V, seq, D) ==
  \A s \in SUBSET D : g[s] \in V /\ \A x \in s : g[s] = op(g[s \ {x}], seq[x])

\* h folds the subsets of I.
Folds(h, base, seq, I, c) ==
  \A s \in SUBSET I : h[s] = IF s = {} THEN base ELSE op(h[s \ {c[s]}], seq[c[s]])

\* Where op does not tell two orders apart, any element may be the one folded last.
THEOREM IterAnyLast ==
  ASSUME NEW D, IsFiniteSet(D), NEW base, NEW seq,
         NEW c, \A s \in SUBSET D : s # {} => c[s] \in s, NEW g, IsIter(g, base, seq, D, c),
         NEW V, Steady(V, base, seq, D)
  PROVE  AnyLast(g, V, seq, D)
<1>. DEFINE P(s) == g[s] \in V /\ \A x \in s : g[s \ {x}] \in V /\ g[s] = op(g[s \ {x}], seq[x])
            T == {m \in Nat : \A s \in SUBSET D : Cardinality(s) = m => P(s)}
<1>0. /\ base \in V
      /\ \A v \in V : \A x \in D : op(v, seq[x]) \in V
      /\ \A v \in V : \A x, y \in D : op(op(v, seq[x]), seq[y]) = op(op(v, seq[y]), seq[x])
  BY DEF Steady
<1>1. \A s \in SUBSET D : /\ IsFiniteSet(s) /\ Cardinality(s) \in Nat
                          /\ Cardinality(s) = 0 <=> s = {}
                          /\ \A x \in s : s \ {x} \in SUBSET D /\ Cardinality(s \ {x}) = Cardinality(s) - 1
  BY FS_Subset, FS_CardinalityType, FS_EmptySet, FS_RemoveElement
<1>2. \A s \in SUBSET D : g[s] = IF s = {} THEN base ELSE op(g[s \ {c[s]}], seq[c[s]])
  BY DEF IsIter
<1>3. 0 \in T
  BY <1>0, <1>1, <1>2
<1>4. ASSUME NEW m \in Nat, m \in T PROVE m + 1 \in T
  <2>. SUFFICES ASSUME NEW s \in SUBSET D, Cardinality(s) = m + 1 PROVE P(s)
    OBVIOUS
  <2>. DEFINE y == c[s]
  <2>1. s # {} /\ y \in s /\ \A x \in s : s \ {x} \in SUBSET D /\ P(s \ {x}) /\ x \in D
    <3>1. s # {}
      <4>1. m + 1 # 0
        OBVIOUS
      <4>. QED
        BY <1>1, <4>1
    <3>2. \A x \in s : s \ {x} \in SUBSET D /\ Cardinality(s \ {x}) = (m + 1) - 1
      BY <1>1
    <3>3. (m + 1) - 1 = m
      OBVIOUS
    <3>4. \A x \in s : P(s \ {x})
      <4>. HIDE DEF P
      <4>. QED
        BY <1>4, <3>2, <3>3
    <3>. QED
      BY <3>1, <3>2, <3>4
  <2>2. g[s] = op(g[s \ {y}], seq[y])
    BY <1>2, <2>1
  <2>. HIDE DEF y
  <2>3. g[s] \in V /\ \A x \in s : g[s \ {x}] \in V
    <3>1. g[s \ {y}] \in V /\ y \in D
      BY <2>1
    <3>2. g[s] \in V
      BY <1>0, <2>2, <3>1
    <3>. QED
      BY <2>1, <3>2
  <2>4. ASSUME NEW x \in s PROVE g[s] = op(g[s \ {x}], seq[x])
    <3>1. CASE x = y
      BY <2>2, <3>1
    <3>2. CASE x # y
      <4>. DEFINE r == (s \ {x}) \ {y}
      <4>1. r = (s \ {y}) \ {x} /\ x \in s \ {y} /\ y \in s \ {x}
        BY <2>1, <3>2
      <4>2. g[s \ {y}] = op(g[r], seq[x]) /\ g[s \ {x}] = op(g[r], seq[y]) 
        BY <2>1, <4>1
      <4>3. g[r] \in V
        BY <2>1, <4>1
      <4>. HIDE DEF r
      <4>. QED
        BY <1>0, <2>1, <2>2, <4>2, <4>3
    <3>. QED
      BY <3>1, <3>2
  <2>. QED
    BY <2>3, <2>4
<1>5. ASSUME NEW s \in SUBSET D PROVE P(s)
  <2>1. Cardinality(s) \in T
    <3>. HIDE DEF T
    <3>. QED
      BY <1>1, <1>3, <1>4, NatSetInduction
  <2>. QED
    BY <2>1
<1>. QED
  BY <1>5 DEF AnyLast

\* What a fold over a set goes through is determined, whatever set it is part of.
THEOREM IterAgrees ==
  ASSUME NEW D, IsFiniteSet(D), NEW base, NEW seq,
         NEW c, \A s \in SUBSET D : s # {} => c[s] \in s, NEW g, IsIter(g, base, seq, D, c),
         NEW I \in SUBSET D, NEW h, Folds(h, base, seq, I, c)
  PROVE  h[I] = g[I]
<1>. DEFINE T == {m \in Nat : \A s \in SUBSET I : Cardinality(s) = m => h[s] = g[s]}
<1>1. \A s \in SUBSET I : /\ s \in SUBSET D /\ IsFiniteSet(s) /\ Cardinality(s) \in Nat
                          /\ Cardinality(s) = 0 <=> s = {}
                          /\ \A x \in s : s \ {x} \in SUBSET I /\ Cardinality(s \ {x}) = Cardinality(s) - 1
  BY FS_Subset, FS_CardinalityType, FS_EmptySet, FS_RemoveElement
<1>2. /\ \A s \in SUBSET D : g[s] = IF s = {} THEN base ELSE op(g[s \ {c[s]}], seq[c[s]])
      /\ \A s \in SUBSET I : h[s] = IF s = {} THEN base ELSE op(h[s \ {c[s]}], seq[c[s]])
  BY DEF IsIter, Folds
<1>3. 0 \in T
  BY <1>1, <1>2
<1>4. ASSUME NEW m \in Nat, m \in T PROVE m + 1 \in T
  <2>. SUFFICES ASSUME NEW s \in SUBSET I, Cardinality(s) = m + 1 PROVE h[s] = g[s]
    OBVIOUS
  <2>. DEFINE y == c[s]
              r == s \ {y}
  <2>1. s # {} /\ y \in s
    <3>1. m + 1 # 0
      OBVIOUS
    <3>2. s # {}
      BY <1>1, <3>1
    <3>. QED
      BY <1>1, <3>2
  <2>2. r \in SUBSET I /\ Cardinality(r) = (m + 1) - 1
    BY <1>1, <2>1
  <2>3. (m + 1) - 1 = m
    OBVIOUS
  <2>4. h[r] = g[r]
    <3>. HIDE DEF r
    <3>. QED
      BY <1>4, <2>2, <2>3
  <2>5. h[s] = op(h[r], seq[y]) /\ g[s] = op(g[r], seq[y])
    BY <1>1, <1>2, <2>1
  <2>. HIDE DEF r, y
  <2>. QED
    BY <2>4, <2>5
<1>5. Cardinality(I) \in T
  <2>. HIDE DEF T
  <2>. QED
    BY <1>1, <1>3, <1>4, NatSetInduction
<1>. QED
  BY <1>5
-----------------------------------------------------------------------------
(* Folds that keep some of the entries *)

\* A record of a lead and the entries kept beside it.
Beside(lead, kept) == [lead |-> lead, kept |-> kept]

\* kept is the entries at K of the first n of a: together they are in F, and with
\* an entry passed over, those kept before it were not.
KeepsAt(F, kept, a, K, n) ==
  /\ K \in SUBSET (1 .. n) /\ kept = At(a, K)
  /\ K # {} => kept \in F
  /\ \A m \in (1 .. n) \ K : At(a, (K \cap (1 .. m - 1)) \cup {m}) \notin F

\* A fold whose step appends the entry where the result is in F, and passes it over
\* where it is not, keeps the entries at some of the places.
THEOREM LeftKeeps ==
  ASSUME NEW S, NEW a \in Seq(S), NEW lead, NEW F,
         \A kept \in Seq(S), x \in S :
           op(Beside(lead, kept), x) =
             Beside(lead, IF Append(kept, x) \in F THEN Append(kept, x) ELSE kept)
  PROVE  \E K : \E kept : /\ Left(Beside(lead, <<>>), a) = Beside(lead, kept)
                          /\ KeepsAt(F, kept, a, K, Len(a))
<1>. DEFINE base == Beside(lead, <<>>)
            n == Len(a)
            Good(f, k) == \E K : \E kept : f[k] = Beside(lead, kept) /\ KeepsAt(F, kept, a, K, k)
<1>1. n \in Nat /\ DOMAIN a = 1 .. n /\ \A k \in 1 .. n : a[k] \in S
  BY LenProperties, ElementOfSeq
<1>. HIDE DEF base, n
<1>2. PICK f : Steps(f, base, a, n) /\ f[n] = Left(base, a)
  BY <1>1, LeftSteps
<1>3. f[0] = base /\ \A k \in 1 .. n : f[k] = op(f[k - 1], a[k])
  BY <1>2 DEF Steps
<1>. DEFINE T == {k \in Nat : k <= n => Good(f, k)}
<1>4. 0 \in T
  <2>1. KeepsAt(F, <<>>, a, {}, 0)
    BY AtEmpty DEF KeepsAt
  <2>. QED
    BY <1>3, <2>1 DEF base
<1>5. ASSUME NEW k \in Nat, k \in T PROVE k + 1 \in T
  <2>. SUFFICES ASSUME k + 1 <= n PROVE Good(f, k + 1)
    OBVIOUS
  <2>1. k + 1 \in 1 .. n /\ (k + 1) - 1 = k /\ Good(f, k)
    BY <1>1, <1>5
  <2>2. PICK K, kept : f[k] = Beside(lead, kept) /\ KeepsAt(F, kept, a, K, k)
    BY <2>1
  <2>. DEFINE attempt == Append(kept, a[k + 1])
              fits == attempt \in F
  <2>3. K \in SUBSET (1 .. k) /\ kept = At(a, K) /\ attempt = At(a, K \cup {k + 1})
    BY <2>2, AtOneMore DEF KeepsAt
  <2>4. kept \in Seq(S)
    <3>1. \A i \in K : a[i] \in S
      BY <1>1, <2>1, <2>3
    <3>. QED
      BY <2>3, <3>1, AtType
  <2>5. f[k + 1] = Beside(lead, IF fits THEN attempt ELSE kept)
    <3>1. f[k + 1] = op(Beside(lead, kept), a[k + 1]) /\ a[k + 1] \in S
      BY <1>1, <1>3, <2>1, <2>2
    <3>. QED
      BY <2>4, <3>1
  <2>6. 1 .. k + 1 = (1 .. k) \cup {k + 1} /\ k + 1 \notin 1 .. k
    OBVIOUS
  <2>. HIDE DEF attempt
  <2>7. CASE fits
    <3>. DEFINE L == K \cup {k + 1}
    <3>1. /\ L \in SUBSET (1 .. k + 1) /\ (1 .. k + 1) \ L = (1 .. k) \ K
          /\ \A m \in 1 .. k : L \cap (1 .. m - 1) = K \cap (1 .. m - 1)
      <4>1. \A m \in 1 .. k : k + 1 \notin 1 .. m - 1
        OBVIOUS
      <4>. QED
        BY <2>3, <2>6, <4>1
    <3>. HIDE DEF L
    <3>2. KeepsAt(F, attempt, a, L, k + 1)
      BY <2>2, <2>3, <2>7, <3>1 DEF KeepsAt, L
    <3>. QED
      BY <2>5, <2>7, <3>2
  <2>8. CASE ~ fits
    <3>1. /\ K \in SUBSET (1 .. k + 1) /\ K \cap (1 .. (k + 1) - 1) = K
          /\ (1 .. k + 1) \ K = ((1 .. k) \ K) \cup {k + 1}
      <4>1. K \cap (1 .. k) = K
        BY <2>3
      <4>. QED
        BY <2>1, <2>3, <2>6, <4>1
    <3>2. At(a, (K \cap (1 .. (k + 1) - 1)) \cup {k + 1}) \notin F
      BY <2>3, <2>8, <3>1
    <3>3. KeepsAt(F, kept, a, K, k + 1)
      BY <2>2, <3>1, <3>2 DEF KeepsAt
    <3>. QED
      BY <2>5, <2>8, <3>3
  <2>. QED
    BY <2>7, <2>8
<1>6. n \in T
  <2>. HIDE DEF T
  <2>. QED
    BY <1>1, <1>4, <1>5, NatSetInduction
<1>7. Good(f, n)
  BY <1>1, <1>6
<1>. QED
  BY <1>2, <1>7 DEF base, n
=============================================================================
