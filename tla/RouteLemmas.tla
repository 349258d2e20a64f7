----------------------------- MODULE RouteLemmas -----------------------------
(***************************************************************************)
(* Lemmas about bit strings, the comparisons of Route and the tables of    *)
(* RoutingTable, for strings of any length and any set of clusters.        *)
(***************************************************************************)
EXTENDS RoutingTable, FiniteSetTheorems, WellFoundedInduction, TLAPS

(* A nonempty set of naturals has a least element. *)
LEMMA LeastNatural ==
    ASSUME NEW T \in SUBSET Nat, T # {}
    PROVE  \E n \in T : \A m \in T : n <= m
<1> DEFINE R == OpToRel(<, Nat)
<1>1. IsWellFoundedOn(R, Nat)
  BY NatLessThanWellFounded
<1>2. PICK n \in T : \A m \in T : ~(<<m, n>> \in R)
  BY <1>1, WFMin
<1>3. ASSUME NEW m \in T PROVE n <= m
  <2>1. n \in Nat /\ m \in Nat
    OBVIOUS
  <2>2. ~(m < n)
    BY <2>1, <1>2 DEF OpToRel
  <2> QED
    BY <2>1, <2>2
<1> QED
  BY <1>3
-----------------------------------------------------------------------------
(* Bit strings. *)
LEMMA BitStringType ==
    ASSUME NEW n \in Nat, NEW s \in BitStrings(n)
    PROVE  /\ s \in Seq(Bit) /\ Len(s) = n
           /\ \A i \in 1..n : s[i] \in Bit
BY DEF BitStrings, Bit

LEMMA BitStringOfSeq ==
    ASSUME NEW s \in Seq(Bit)
    PROVE  s \in BitStrings(Len(s)) /\ Len(s) \in Nat
BY DEF BitStrings, Bit

LEMMA ShorterType ==
    ASSUME NEW a \in Seq(Bit), NEW b \in Seq(Bit)
    PROVE  /\ Shorter(a, b) \in Nat
           /\ Shorter(a, b) <= Len(a) /\ Shorter(a, b) <= Len(b)
           /\ Shorter(a, b) = Len(a) \/ Shorter(a, b) = Len(b)
BY DEF Shorter

(* Strings agree on a length, or there is a first position where they differ. *)
LEMMA FirstDifference ==
    ASSUME NEW a, NEW b, NEW n \in Nat, ~Agree(a, b, n)
    PROVE  \E i \in 1..n : a[i] # b[i] /\ Agree(a, b, i - 1)
<1> DEFINE T == {i \in 1..n : a[i] # b[i]}
<1>1. T # {} /\ T \in SUBSET Nat
  BY DEF Agree
<1>2. PICK i \in T : \A j \in T : i <= j
  BY <1>1, LeastNatural
<1>3. \A j \in 1..(i - 1) : j \in 1..n /\ ~(i <= j)
  BY <1>2
<1>4. Agree(a, b, i - 1)
  BY <1>2, <1>3 DEF Agree
<1> QED
  BY <1>2, <1>4

LEMMA PrefixReflexive ==
    ASSUME NEW a \in Seq(Bit)
    PROVE  IsPrefixOf(a, a) /\ Eq(a, a)
BY DEF IsPrefixOf, Agree, Eq

(* Two prefixes of a string: the shorter is one of the longer. *)
LEMMA PrefixesOfOne ==
    ASSUME NEW a \in Seq(Bit), NEW b \in Seq(Bit), NEW c \in Seq(Bit),
           IsPrefixOf(a, c), IsPrefixOf(b, c), Len(a) <= Len(b)
    PROVE  IsPrefixOf(a, b)
<1>1. \A i \in 1..Len(a) : a[i] = c[i]
  BY DEF IsPrefixOf, Agree
<1>2. \A i \in 1..Len(b) : b[i] = c[i]
  BY DEF IsPrefixOf, Agree
<1>3. \A i \in 1..Len(a) : i \in 1..Len(b)
  OBVIOUS
<1> QED
  BY <1>1, <1>2, <1>3 DEF IsPrefixOf, Agree

LEMMA PrefixTransitive ==
    ASSUME NEW a \in Seq(Bit), NEW b \in Seq(Bit), NEW c \in Seq(Bit),
           IsPrefixOf(a, b), IsPrefixOf(b, c)
    PROVE  IsPrefixOf(a, c)
BY DEF IsPrefixOf, Agree

(* Strings that are prefixes of each other are equal. *)
LEMMA PrefixAntisymmetric ==
    ASSUME NEW a \in Seq(Bit), NEW b \in Seq(Bit), IsPrefixOf(a, b), Len(a) = Len(b)
    PROVE  a = b
BY DEF IsPrefixOf, Agree

(* The string with a bit appended. *)
LEMMA AppendBit ==
    ASSUME NEW a \in Seq(Bit), NEW b \in Bit
    PROVE  /\ Append(a, b) \in Seq(Bit) /\ Len(Append(a, b)) = Len(a) + 1
           /\ IsPrefixOf(a, Append(a, b)) /\ Append(a, b)[Len(a) + 1] = b
BY DEF IsPrefixOf, Agree

(* What a string is a prefix of has one of the bits next, unless it ends. *)
LEMMA HalvesCover ==
    ASSUME NEW a \in Seq(Bit), NEW c \in Seq(Bit), IsPrefixOf(a, c), Len(a) < Len(c)
    PROVE  /\ c[Len(a) + 1] \in Bit
           /\ \A b \in Bit : IsPrefixOf(Append(a, b), c) <=> c[Len(a) + 1] = b
<1>1. c[Len(a) + 1] \in Bit
  OBVIOUS
<1>2. ASSUME NEW b \in Bit PROVE IsPrefixOf(Append(a, b), c) <=> c[Len(a) + 1] = b
  BY DEF IsPrefixOf, Agree
<1> QED
  BY <1>1, <1>2

LEMMA FlipType ==
    ASSUME NEW l \in Seq(Bit), NEW i \in 1..Len(l)
    PROVE  /\ Flip(l, i) \in Seq(Bit) /\ Len(Flip(l, i)) = Len(l)
           /\ Agree(Flip(l, i), l, i - 1)
           /\ Flip(l, i)[i] # l[i]
<1>1. Flip(l, i) = [l EXCEPT ![i] = 1 - l[i]]
  BY DEF Flip
<1>2. l[i] \in {0, 1}
  BY DEF Bit
<1>3. 1 - l[i] \in {0, 1} /\ 1 - l[i] # l[i]
  BY <1>2
<1> HIDE DEF Flip
<1> QED
  BY <1>1, <1>3 DEF Agree, Bit
-----------------------------------------------------------------------------
(* Common prefixes. *)
LEMMA CommonPrefixIs ==
    ASSUME NEW a \in Seq(Bit), NEW b \in Seq(Bit), NEW i \in 1..Shorter(a, b),
           a[i] # b[i], Agree(a, b, i - 1)
    PROVE  CommonPrefix(a, b) = i - 1
<1> DEFINE S == {k \in 1..Shorter(a, b) : \A j \in 1..k : a[j] = b[j]}
<1>1. S = 1..(i - 1)
  <2>1. Shorter(a, b) \in Nat
    BY ShorterType
  <2>2. ASSUME NEW k \in S PROVE k \in 1..(i - 1)
    <3>1. ~(i <= k)
      BY <2>1
    <3> QED
      BY <2>1, <3>1
  <2>3. ASSUME NEW k \in 1..(i - 1) PROVE k \in S
    BY <2>1 DEF Agree
  <2> QED
    BY <2>2, <2>3
<1>2. Cardinality(1..(i - 1)) = i - 1
  <2>1. i \in Nat /\ i > 0
    BY ShorterType
  <2> QED
    BY <2>1, FS_Interval
<1> QED
  BY <1>1, <1>2 DEF CommonPrefix

LEMMA CommonPrefixAtLeast ==
    ASSUME NEW a \in Seq(Bit), NEW b \in Seq(Bit), NEW n \in Nat,
           n <= Len(a), n <= Len(b), Agree(a, b, n)
    PROVE  CommonPrefix(a, b) \in Nat /\ CommonPrefix(a, b) >= n
<1> DEFINE S == {k \in 1..Shorter(a, b) : \A j \in 1..k : a[j] = b[j]}
<1>1. Shorter(a, b) \in Nat /\ n <= Shorter(a, b)
  BY ShorterType
<1>2. IsFiniteSet(1..Shorter(a, b)) /\ IsFiniteSet(1..n) /\ Cardinality(1..n) = n
  BY <1>1, FS_Interval
<1>3. S \in SUBSET (1..Shorter(a, b))
  OBVIOUS
<1>4. IsFiniteSet(S)
  BY <1>2, <1>3, FS_Subset
<1>5. 1..n \in SUBSET S
  BY <1>1 DEF Agree
<1>6. Cardinality(S) \in Nat
  BY <1>4, FS_CardinalityType
<1>7. Cardinality(1..n) <= Cardinality(S)
  BY <1>4, <1>5, FS_Subset
<1> QED
  BY <1>2, <1>6, <1>7 DEF CommonPrefix
-----------------------------------------------------------------------------
(***************************************************************************)
(* The labels of the clusters C partition the strings of length n, which   *)
(* none of them exceeds.                                                   *)
(***************************************************************************)
Partition(C, label, n) ==
    /\ \A c \in C : label[c] \in Seq(Bit) /\ Len(label[c]) <= n
    /\ \A a, b \in C : IsPrefixOf(label[a], label[b]) => a = b
    /\ \A id \in BitStrings(n) : \E c \in C : IsPrefixOf(label[c], id)

(* Some other cluster has the label with a bit flipped as far as that bit. *)
LEMMA NeighbourExists ==
    ASSUME NEW C, NEW label, NEW n \in Nat, Partition(C, label, n),
           NEW c \in C, NEW i \in 1..Len(label[c])
    PROVE  \E e \in C \ {c} :
              Len(label[e]) >= i /\ Agree(label[e], Flip(label[c], i), i)
<1> DEFINE l == label[c]
           t == Flip(l, i)
           id == [j \in 1..n |-> IF j <= i THEN t[j] ELSE 0]
<1>1. l \in Seq(Bit) /\ Len(l) <= n /\ Len(l) \in Nat /\ i \in 1..Len(l)
  BY DEF Partition
<1>2. /\ t \in Seq(Bit) /\ Len(t) = Len(l)
      /\ Agree(t, l, i - 1) /\ t[i] # l[i]
  BY <1>1, FlipType
<1> HIDE DEF t
<1>3. id \in BitStrings(n)
  BY <1>1, <1>2 DEF BitStrings, Bit
<1>4. id \in Seq(Bit) /\ Len(id) = n /\ \A j \in 1..i : id[j] = t[j]
  BY <1>1, <1>3 DEF BitStrings
<1> HIDE DEF id
<1>5. PICK e \in C : IsPrefixOf(label[e], id)
  BY <1>3 DEF Partition
<1>6. label[e] \in Seq(Bit) /\ Len(label[e]) \in Nat
  BY DEF Partition
<1>7. e # c
  <2>1. ~IsPrefixOf(l, id)
    BY <1>1, <1>2, <1>4 DEF IsPrefixOf, Agree
  <2> QED
    BY <2>1, <1>5
<1>8. Len(label[e]) >= i
  <2>1. SUFFICES ASSUME Len(label[e]) < i PROVE FALSE
    BY <1>1, <1>6
  <2>2. IsPrefixOf(label[e], l)
    BY <2>1, <1>1, <1>2, <1>4, <1>5, <1>6 DEF IsPrefixOf, Agree
  <2> QED
    BY <2>2, <1>7 DEF Partition
<1>9. Agree(label[e], t, i)
  BY <1>1, <1>4, <1>5, <1>6, <1>8 DEF IsPrefixOf, Agree
<1> QED
  BY <1>7, <1>8, <1>9 DEF t

(* And so does every nearest of them. *)
LEMMA NearestNeighbour ==
    ASSUME NEW C, NEW label, NEW n \in Nat, Partition(C, label, n),
           NEW c \in C, NEW i \in 1..Len(label[c]),
           NEW d \in Nearest(Flip(label[c], i), C \ {c}, label)
    PROVE  /\ d \in C
           /\ i <= Len(label[d])
           /\ Agree(label[d], label[c], i - 1) /\ label[d][i] # label[c][i]
           /\ Agree(label[d], Flip(label[c], i), i)
<1> DEFINE l == label[c]
           t == Flip(l, i)
<1>1. l \in Seq(Bit) /\ Len(l) \in Nat /\ i \in 1..Len(l)
  BY DEF Partition
<1>2. /\ t \in Seq(Bit) /\ Len(t) = Len(l)
      /\ Agree(t, l, i - 1) /\ t[i] # l[i]
  BY <1>1, FlipType
<1>3. PICK e \in C \ {c} : Len(label[e]) >= i /\ Agree(label[e], t, i)
  BY NeighbourExists
<1>4. d \in C \ {c} /\ ~Nearer(t, label[e], label[d])
  BY DEF Nearest
<1> HIDE DEF t
<1>5. /\ label[d] \in Seq(Bit) /\ Len(label[d]) \in Nat
      /\ label[e] \in Seq(Bit) /\ Len(label[e]) \in Nat
  BY <1>4 DEF Partition
<1> DEFINE k == IF Len(label[d]) < i THEN Len(label[d]) ELSE i
<1>6. k \in Nat /\ k <= Len(label[d]) /\ k <= i
  BY <1>1, <1>5
<1>7. Agree(label[d], t, k)
  <2>1. SUFFICES ASSUME ~Agree(label[d], t, k) PROVE FALSE
    OBVIOUS
  <2> HIDE DEF k
  <2>2. PICK j \in 1..k : label[d][j] # t[j] /\ Agree(label[d], t, j - 1)
    BY <2>1, <1>6, FirstDifference
  <2>3. j \in 1..Shorter(label[e], label[d]) /\ j <= Len(t)
    BY <1>1, <1>2, <1>3, <1>5, <1>6 DEF Shorter
  <2>4. label[e][j] = t[j]
    BY <1>1, <1>3, <1>6 DEF Agree
  <2>5. Agree(label[e], label[d], j - 1)
    BY <2>2, <1>1, <1>3, <1>6 DEF Agree
  <2>6. Nearer(t, label[e], label[d])
    BY <2>2, <2>3, <2>4, <2>5 DEF Nearer
  <2> QED
    BY <2>6, <1>4
<1>8. i <= Len(label[d])
  <2>1. SUFFICES ASSUME Len(label[d]) < i PROVE FALSE
    BY <1>1, <1>5
  <2>2. k = Len(label[d])
    BY <2>1
  <2> HIDE DEF k
  <2>3. IsPrefixOf(label[d], l)
    BY <2>1, <2>2, <1>1, <1>2, <1>5, <1>7 DEF IsPrefixOf, Agree
  <2> QED
    BY <2>3, <1>4 DEF Partition
<1>9. k = i
  BY <1>1, <1>5, <1>8
<1> HIDE DEF k
<1>10. Agree(label[d], t, i) /\ Agree(label[d], l, i - 1) /\ label[d][i] # l[i]
  BY <1>1, <1>2, <1>7, <1>9 DEF Agree
<1> QED
  BY <1>4, <1>8, <1>10 DEF t

(* The tables of a cluster whose label is not empty: every entry is a nearest one. *)
LEMMA TableEntries ==
    ASSUME NEW C, NEW label, NEW n \in Nat, Partition(C, label, n),
           NEW c \in C, NEW rt \in FixedTables(c, C, label), Len(label[c]) > 0
    PROVE  /\ rt \in [1..Len(label[c]) -> C] /\ Len(rt) = Len(label[c])
           /\ \A i \in 1..Len(label[c]) :
                 rt[i] \in Nearest(Flip(label[c], i), C \ {c}, label)
<1> DEFINE l == label[c]
           others == C \ {c}
           near(i) == Nearest(Flip(l, i), others, label)
           nearest == [i \in 1..Len(l) |-> near(i)]
<1>1. Len(l) \in Nat /\ 1 \in 1..Len(l)
  BY DEF Partition
<1>2. others # {}
  BY <1>1, NeighbourExists
<1>3. /\ rt \in [1..Len(l) -> UNION {nearest[i] : i \in 1..Len(l)}]
      /\ \A i \in 1..Len(l) : rt[i] \in nearest[i]
  BY <1>2 DEF FixedTables
<1> HIDE DEF near
<1>4. \A i \in 1..Len(l) : rt[i] \in near(i)
  BY <1>3
<1>5. \A i \in 1..Len(l) : rt[i] \in C
  BY <1>4 DEF near, Nearest
<1>6. rt \in [1..Len(l) -> C]
  BY <1>3, <1>5
<1> HIDE DEF l
<1>7. Len(rt) = Len(l)
  BY <1>1, <1>6
<1> QED
  BY <1>4, <1>6, <1>7 DEF near, l
-----------------------------------------------------------------------------
(***************************************************************************)
(* What the loop of getClosestCluster ends with: the entry for the first   *)
(* bit in which the label and the target differ.  The entries before it    *)
(* replace each other, and none after it replaces it.                      *)
(***************************************************************************)
LEMMA NearestEntry ==
    ASSUME NEW C, NEW label, NEW n \in Nat, Partition(C, label, n),
           NEW c \in C, NEW rt \in FixedTables(c, C, label), NEW t \in BitStrings(n),
           NEW i \in 1..Len(label[c]),
           label[c][i] # t[i], Agree(label[c], t, i - 1)
    PROVE  NearestOf(rt, label, t)[Len(rt)] = rt[i]
<1> DEFINE l == label[c]
           L == Len(l)
           e(j) == label[rt[j]]
<1>1. l \in Seq(Bit) /\ L \in Nat /\ L <= n /\ i \in 1..L
  BY DEF Partition
<1>a. Len(label[c]) > 0
  BY <1>1
<1>2. /\ rt \in [1..L -> C] /\ Len(rt) = L
      /\ \A j \in 1..L : rt[j] \in Nearest(Flip(l, j), C \ {c}, label)
  BY <1>a, TableEntries
<1>3. ASSUME NEW j \in 1..L
      PROVE  /\ e(j) \in Seq(Bit) /\ Len(e(j)) \in Nat /\ j <= Len(e(j))
             /\ Agree(e(j), l, j - 1) /\ e(j)[j] # l[j]
  <2>1. rt[j] \in Nearest(Flip(l, j), C \ {c}, label)
    BY <1>2
  <2>2. rt[j] \in C /\ e(j) \in Seq(Bit)
    BY <1>2 DEF Partition
  <2>3. /\ j <= Len(e(j))
        /\ Agree(e(j), l, j - 1) /\ e(j)[j] # l[j]
    BY <2>1, NearestNeighbour
  <2> QED
    BY <2>2, <2>3
<1>4. t \in Seq(Bit) /\ Len(t) = n
  BY BitStringType
<1> DEFINE Body(h, k) == IF k = 1 THEN rt[1]
                         ELSE IF Nearer(t, label[rt[k]], label[h[k - 1]]) THEN rt[k]
                         ELSE h[k - 1]
           best == NearestOf(rt, label, t)
           g == [k \in 1..L |-> IF k <= i THEN rt[k] ELSE rt[i]]
<1> HIDE DEF l, L
<1>5. ASSUME NEW j \in 1..(i - 1)
      PROVE  Nearer(t, e(j + 1), e(j))
  <2>1. j \in 1..L /\ j + 1 \in 1..L /\ j \in Nat
    BY <1>1
  <2>2. e(j + 1)[j] = l[j] /\ Agree(e(j + 1), l, j - 1)
    BY <1>3, <2>1 DEF Agree
  <2>3. l[j] = t[j]
    BY <1>1 DEF Agree, l
  <2>4. Agree(e(j + 1), e(j), j - 1) /\ e(j + 1)[j] # e(j)[j]
    BY <1>3, <2>1, <2>2 DEF Agree
  <2>5. j \in 1..Shorter(e(j + 1), e(j)) /\ j <= Len(t)
    <3> HIDE DEF e
    <3>1. /\ Len(e(j + 1)) \in Nat /\ Len(e(j)) \in Nat
          /\ j <= Len(e(j + 1)) /\ j <= Len(e(j))
      <4>1. Len(e(j + 1)) \in Nat /\ j + 1 <= Len(e(j + 1))
        BY <1>3, <2>1
      <4>2. Len(e(j)) \in Nat /\ j <= Len(e(j))
        BY <1>3, <2>1
      <4> QED
        BY <2>1, <4>1, <4>2
    <3>2. j <= Len(t)
      BY <1>1, <1>4, <2>1
    <3> QED
      BY <2>1, <3>1, <3>2 DEF Shorter
  <2> HIDE DEF e
  <2> QED
    BY <2>2, <2>3, <2>4, <2>5 DEF Nearer
<1>6. ASSUME NEW j \in (i + 1)..L
      PROVE  ~Nearer(t, e(j), e(i))
  <2>1. j \in 1..L /\ i \in Nat /\ j \in Nat /\ i < j /\ i >= 1
    BY <1>1
  <2>2. /\ Agree(e(j), l, i) /\ Agree(e(i), l, i - 1) /\ e(i)[i] # l[i]
        /\ e(j) \in Seq(Bit) /\ e(i) \in Seq(Bit)
    BY <1>1, <1>3, <2>1 DEF Agree
  <2>3. e(j)[i] = l[i] /\ l[i] # t[i]
    BY <2>1, <2>2 DEF Agree, l
  <2> HIDE DEF e
  <2>4. ASSUME NEW k \in 1..Shorter(e(j), e(i)), e(j)[k] # e(i)[k], e(j)[k] = t[k],
               Agree(e(j), e(i), k - 1)
        PROVE  FALSE
    <3>1. k \in Nat /\ k >= 1
      BY <2>2, ShorterType
    <3>2. CASE k < i
      BY <3>1, <3>2, <2>1, <2>2, <2>4 DEF Agree
    <3>3. CASE k = i
      BY <3>3, <2>3, <2>4
    <3>4. CASE k > i
      <4>1. i \in 1..(k - 1)
        BY <3>1, <3>4, <2>1
      <4>2. e(j)[i] = e(i)[i]
        BY <4>1, <2>4 DEF Agree
      <4> QED
        BY <4>2, <2>2, <2>3
    <3> QED
      BY <3>1, <3>2, <3>3, <3>4, <2>1
  <2> QED
    BY <2>4 DEF Nearer
<1>7. g = [k \in 1..Len(rt) |-> Body(g, k)]
  <2>1. ASSUME NEW k \in 1..L PROVE g[k] = Body(g, k)
    <3>1. CASE k = 1
      BY <3>1, <1>1
    <3>2. CASE k # 1 /\ k <= i
      <4>1. k - 1 \in 1..(i - 1) /\ k - 1 \in 1..L /\ (k - 1) + 1 = k
        BY <3>2, <1>1
      <4>2. Nearer(t, e(k), e(k - 1)) /\ g[k - 1] = rt[k - 1]
        BY <4>1, <1>5
      <4> QED
        BY <4>2, <3>2
    <3>3. CASE k # 1 /\ ~(k <= i)
      <4>1. k \in (i + 1)..L /\ k - 1 \in 1..L /\ i <= k - 1
        BY <3>3, <1>1
      <4>2. ~Nearer(t, e(k), e(i)) /\ g[k - 1] = rt[i]
        BY <4>1, <1>1, <1>6
      <4> QED
        BY <4>2, <3>3
    <3> QED
      BY <3>1, <3>2, <3>3
  <2> QED
    BY <2>1, <1>2
<1>8. best = CHOOSE h : h = [k \in 1..Len(rt) |-> Body(h, k)]
  BY DEF NearestOf
<1>9. best = [k \in 1..Len(rt) |-> Body(best, k)]
  <2> HIDE DEF Body, g, best
  <2> QED
    BY <1>7, <1>8
<1>10. ASSUME NEW k \in 1..L PROVE best[k] = g[k]
  <2> HIDE DEF best, g
  <2> DEFINE T == {j \in 1..L : best[j] # g[j]}
  <2>1. SUFFICES ASSUME T # {} PROVE FALSE
    OBVIOUS
  <2>2. T \in SUBSET Nat
    BY <1>1
  <2>3. PICK j \in T : \A m \in T : j <= m
    BY <2>1, <2>2, LeastNatural
  <2>4. best[j] = Body(best, j) /\ g[j] = Body(g, j)
    BY <1>2, <1>7, <1>9
  <2>5. CASE j = 1
    BY <2>3, <2>4, <2>5
  <2>6. CASE j # 1
    <3>1. j - 1 \in 1..L /\ ~(j <= j - 1)
      BY <1>1, <2>6
    <3>2. best[j - 1] = g[j - 1]
      BY <2>3, <3>1
    <3> QED
      BY <2>3, <2>4, <3>2
  <2> QED
    BY <2>5, <2>6
<1>11. L \in 1..L /\ g[L] = rt[i]
  BY <1>1
<1> QED
  BY <1>2, <1>10, <1>11
-----------------------------------------------------------------------------
(***************************************************************************)
(* A set of labels partitions the strings of length n.  A split keeps that.*)
(***************************************************************************)
Partitions(S, n) ==
    /\ \A l \in S : l \in Seq(Bit) /\ Len(l) <= n
    /\ \A l, m \in S : IsPrefixOf(l, m) => l = m
    /\ \A id \in BitStrings(n) : \E l \in S : IsPrefixOf(l, id)

LEMMA RootPartitions ==
    ASSUME NEW n \in Nat
    PROVE  Partitions({<<>>}, n)
BY DEF Partitions, IsPrefixOf, Agree, BitStrings

LEMMA SplitPartitions ==
    ASSUME NEW S, NEW n \in Nat, Partitions(S, n), NEW c \in S, Len(c) < n
    PROVE  Partitions((S \ {c}) \cup {Append(c, b) : b \in Bit}, n)
<1> DEFINE halves == {Append(c, b) : b \in Bit}
           T == (S \ {c}) \cup halves
<1>1. c \in Seq(Bit) /\ Len(c) \in Nat
  BY DEF Partitions
<1>2. ASSUME NEW b \in Bit
      PROVE  /\ Append(c, b) \in Seq(Bit) /\ Len(Append(c, b)) = Len(c) + 1
             /\ IsPrefixOf(c, Append(c, b)) /\ Append(c, b)[Len(c) + 1] = b
  BY <1>1, AppendBit
<1>3. \A l \in T : l \in Seq(Bit) /\ Len(l) <= n
  BY <1>1, <1>2 DEF Partitions
<1>4. ASSUME NEW b \in Bit, NEW d \in Bit, IsPrefixOf(Append(c, b), Append(c, d))
      PROVE  b = d
  <2>1. Append(c, b)[Len(c) + 1] = Append(c, d)[Len(c) + 1]
    BY <1>1, <1>2, <1>4 DEF IsPrefixOf, Agree
  <2> QED
    BY <1>2, <2>1
<1>5. ASSUME NEW b \in Bit, NEW l \in S \ {c} PROVE ~IsPrefixOf(Append(c, b), l)
  <2>1. l \in Seq(Bit)
    BY DEF Partitions
  <2>2. ASSUME IsPrefixOf(Append(c, b), l) PROVE IsPrefixOf(c, l)
    BY <1>1, <1>2, <2>1, <2>2, PrefixTransitive
  <2> QED
    BY <2>2 DEF Partitions
<1>6. ASSUME NEW b \in Bit, NEW l \in S \ {c} PROVE ~IsPrefixOf(l, Append(c, b))
  <2>1. l \in Seq(Bit) /\ Len(l) \in Nat
    BY DEF Partitions
  <2>2. SUFFICES ASSUME IsPrefixOf(l, Append(c, b)) PROVE FALSE
    OBVIOUS
  <2>3. CASE Len(l) <= Len(c)
    <3>1. IsPrefixOf(l, c)
      BY <1>1, <1>2, <2>1, <2>2, <2>3, PrefixesOfOne
    <3> QED
      BY <3>1 DEF Partitions
  <2>4. CASE Len(c) <= Len(l)
    <3>1. IsPrefixOf(c, l)
      BY <1>1, <1>2, <2>1, <2>2, <2>4, PrefixesOfOne
    <3> QED
      BY <3>1 DEF Partitions
  <2> QED
    BY <1>1, <2>1, <2>3, <2>4
<1>7. ASSUME NEW l \in T, NEW m \in T, IsPrefixOf(l, m) PROVE l = m
  <2>1. CASE l \in S \ {c} /\ m \in S \ {c}
    BY <2>1, <1>7 DEF Partitions
  <2>2. CASE l \in halves
    BY <2>2, <1>4, <1>5, <1>7
  <2>3. CASE l \in S \ {c} /\ m \in halves
    BY <2>3, <1>6, <1>7
  <2> QED
    BY <2>1, <2>2, <2>3
<1>8. ASSUME NEW id \in BitStrings(n) PROVE \E l \in T : IsPrefixOf(l, id)
  <2>1. PICK l \in S : IsPrefixOf(l, id)
    BY DEF Partitions
  <2>2. CASE l = c
    <3>1. id \in Seq(Bit) /\ Len(id) = n
      BY BitStringType
    <3>2. id[Len(c) + 1] \in Bit /\ IsPrefixOf(Append(c, id[Len(c) + 1]), id)
      BY <1>1, <2>1, <2>2, <3>1, HalvesCover
    <3> QED
      BY <3>2
  <2> QED
    BY <2>1, <2>2
<1> QED
  BY <1>3, <1>7, <1>8 DEF Partitions

(***************************************************************************)
(* Nearer compares what distance returns, for strings of any lengths.      *)
(***************************************************************************)
LEMMA DistanceOf ==
    ASSUME NEW t \in Seq(Bit), NEW a \in Seq(Bit)
    PROVE  Distance(t, a) = [i \in 1..Shorter(t, a) |-> IF t[i] # a[i] THEN 1 ELSE 0]
<1> DEFINE cut == SubSeq(t, 1, Shorter(t, a))
<1>1. Shorter(t, a) \in Nat /\ Shorter(t, a) <= Len(t)
  BY ShorterType
<1>2. Len(cut) = Shorter(t, a)
  BY <1>1
<1>3. EqualizeLength(t, a)[1] = cut
  BY DEF EqualizeLength
<1>4. Distance(t, a) = [i \in 1..Len(cut) |-> IF i \in Differ(t, a) THEN 1 ELSE 0]
  BY <1>3 DEF Distance
<1> HIDE DEF cut
<1> QED
  BY <1>2, <1>4 DEF Differ

THEOREM NearerIsDistance ==
    ASSUME NEW t \in Seq(Bit), NEW a \in Seq(Bit), NEW b \in Seq(Bit)
    PROVE  Nearer(t, a, b) <=> Lt(Distance(t, a), Distance(t, b))
<1> DEFINE x == Distance(t, a)
           y == Distance(t, b)
<1>1. /\ Shorter(t, a) \in Nat /\ Shorter(t, b) \in Nat /\ Shorter(a, b) \in Nat
      /\ Len(t) \in Nat /\ Len(a) \in Nat /\ Len(b) \in Nat
  BY ShorterType
<1>2. /\ x = [i \in 1..Shorter(t, a) |-> IF t[i] # a[i] THEN 1 ELSE 0]
      /\ y = [i \in 1..Shorter(t, b) |-> IF t[i] # b[i] THEN 1 ELSE 0]
  BY DistanceOf
<1> HIDE DEF x, y
<1>3. Len(x) = Shorter(t, a) /\ Len(y) = Shorter(t, b)
  BY <1>1, <1>2
<1>4. ASSUME NEW i \in Nat
      PROVE  i \in 1..Shorter(x, y) <=> i \in 1..Shorter(a, b) /\ i <= Len(t)
  BY <1>1, <1>3 DEF Shorter
<1>5. ASSUME NEW i \in 1..Shorter(a, b), i <= Len(t)
      PROVE  /\ x[i] # y[i] <=> a[i] # b[i]
             /\ x[i] # y[i] => (y[i] = 1 <=> a[i] = t[i])
  <2>1. i \in 1..Shorter(t, a) /\ i \in 1..Shorter(t, b) /\ i \in 1..Len(a) /\ i \in 1..Len(b) /\ i \in 1..Len(t)
    BY <1>1, <1>5 DEF Shorter
  <2>2. a[i] \in {0, 1} /\ b[i] \in {0, 1} /\ t[i] \in {0, 1}
    BY <2>1 DEF Bit
  <2>3. x[i] = (IF t[i] # a[i] THEN 1 ELSE 0) /\ y[i] = (IF t[i] # b[i] THEN 1 ELSE 0)
    BY <1>2, <2>1
  <2> QED
    BY <2>2, <2>3
<1>6. ASSUME NEW i \in 1..Shorter(a, b), i <= Len(t)
      PROVE  Agree(x, y, i - 1) <=> Agree(a, b, i - 1)
  <2>1. \A j \in 1..(i - 1) : j \in 1..Shorter(a, b) /\ j <= Len(t)
    BY <1>1, <1>6
  <2> QED
    BY <2>1, <1>5 DEF Agree
<1>7. Nearer(t, a, b) <=> \E i \in 1..Shorter(a, b) :
                            i <= Len(t) /\ a[i] # b[i] /\ a[i] = t[i] /\ Agree(a, b, i - 1)
  BY DEF Nearer
<1>8. Lt(x, y) <=> \E i \in 1..Shorter(x, y) : x[i] # y[i] /\ y[i] = 1 /\ Agree(x, y, i - 1)
  BY DEF Lt
<1>9. ASSUME NEW i \in 1..Shorter(a, b), i <= Len(t), a[i] # b[i], a[i] = t[i], Agree(a, b, i - 1)
      PROVE  i \in 1..Shorter(x, y) /\ x[i] # y[i] /\ y[i] = 1 /\ Agree(x, y, i - 1)
  BY <1>1, <1>4, <1>5, <1>6, <1>9
<1>10. ASSUME NEW i \in 1..Shorter(x, y), x[i] # y[i], y[i] = 1, Agree(x, y, i - 1)
       PROVE  i \in 1..Shorter(a, b) /\ i <= Len(t) /\ a[i] # b[i] /\ a[i] = t[i] /\ Agree(a, b, i - 1)
  <2>1. i \in 1..Shorter(a, b) /\ i <= Len(t)
    BY <1>4
  <2> QED
    BY <2>1, <1>5, <1>6, <1>10
<1>11. ASSUME Nearer(t, a, b) PROVE Lt(x, y)
  BY <1>7, <1>8, <1>9, <1>11
<1>12. ASSUME Lt(x, y) PROVE Nearer(t, a, b)
  BY <1>7, <1>8, <1>10, <1>12
<1> QED
  BY <1>11, <1>12 DEF x, y
=============================================================================
