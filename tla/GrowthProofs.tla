----------------------------- MODULE GrowthProofs -----------------------------
(***************************************************************************)
(* What Membership promises as long as nobody leaves, for any sizes and    *)
(* IDs of any length: the labels partition the IDs, cores are full, a peer *)
(* is in one cluster, tables are nearest, and joins are lost to splits     *)
(* only.                                                                   *)
(***************************************************************************)
EXTENDS MembershipProofs

(* IDs are finitely many. *)
LEMMA FiniteIDs ==
    ASSUME NEW n \in Nat
    PROVE  IsFiniteSet(BitStrings(n))
<1> DEFINE T == SUBSET (1..n)
           f == [s \in BitStrings(n) |-> {i \in 1..n : s[i] = 1}]
<1>1. IsFiniteSet(T)
  <2>1. IsFiniteSet(1..n)
    BY FS_Interval
  <2> QED
    BY <2>1, FS_SUBSET
<1>2. f \in [BitStrings(n) -> T]
  OBVIOUS
<1>3. ASSUME NEW a \in BitStrings(n), NEW b \in BitStrings(n), f[a] = f[b]
      PROVE  a = b
  <2>1. \A i \in 1..n : a[i] = 1 <=> b[i] = 1
    BY <1>3
  <2>2. \A i \in 1..n : a[i] = b[i]
    BY <2>1 DEF BitStrings, Bit
  <2> QED
    BY <2>2 DEF BitStrings
<1> HIDE DEF f, T
<1>4. f \in Injection(BitStrings(n), T)
  BY <1>2, <1>3 DEF Injection, IsInjective
<1> QED
  BY <1>1, <1>4, FS_Injection

LEMMA FinitePeers == \A S \in SUBSET Peers : IsFiniteSet(S) /\ Cardinality(S) \in Nat
<1>1. IsFiniteSet(BitStrings(M)) /\ Peers \subseteq BitStrings(M)
  BY IDAssumption, FiniteIDs DEF Peers
<1> QED
  BY <1>1, FS_Subset, FS_CardinalityType

(* Lt is a strict order of strings of one length, and a total one. *)
LEMMA LtOrder ==
    ASSUME NEW n \in Nat, NEW a \in BitStrings(n), NEW b \in BitStrings(n), NEW c \in BitStrings(n)
    PROVE  /\ ~Lt(a, a)
           /\ Lt(a, b) /\ Lt(b, c) => Lt(a, c)
           /\ a = b \/ Lt(a, b) \/ Lt(b, a)
<1>1. /\ a \in Seq(Bit) /\ b \in Seq(Bit) /\ c \in Seq(Bit)
      /\ Len(a) = n /\ Len(b) = n /\ Len(c) = n
  BY BitStringType
<1>2. Shorter(a, a) = n /\ Shorter(a, b) = n /\ Shorter(b, c) = n /\ Shorter(a, c) = n /\ Shorter(b, a) = n
  BY <1>1 DEF Shorter
<1>3. ~Lt(a, a)
  BY DEF Lt
<1>4. ASSUME Lt(a, b), Lt(b, c) PROVE Lt(a, c)
  <2>1. PICK i \in 1..n : a[i] # b[i] /\ b[i] = 1 /\ Agree(a, b, i - 1)
    BY <1>2, <1>4 DEF Lt
  <2>2. PICK j \in 1..n : b[j] # c[j] /\ c[j] = 1 /\ Agree(b, c, j - 1)
    BY <1>2, <1>4 DEF Lt
  <2>3. CASE i < j
    <3>1. b[i] = c[i] /\ Agree(a, c, i - 1)
      BY <2>1, <2>2, <2>3 DEF Agree
    <3> QED
      BY <1>2, <2>1, <3>1 DEF Lt
  <2>4. CASE j < i
    <3>1. a[j] = b[j] /\ Agree(a, c, j - 1)
      BY <2>1, <2>2, <2>4 DEF Agree
    <3> QED
      BY <1>2, <2>2, <3>1 DEF Lt
  <2>5. i # j
    BY <2>1, <2>2
  <2> QED
    BY <2>3, <2>4, <2>5
<1>5. ASSUME a # b PROVE Lt(a, b) \/ Lt(b, a)
  <2>1. ~Agree(a, b, n)
    BY <1>5 DEF Agree, BitStrings
  <2>2. PICK i \in 1..n : a[i] # b[i] /\ Agree(a, b, i - 1)
    BY <2>1, FirstDifference
  <2>3. a[i] = 1 \/ b[i] = 1
    BY <2>2, <1>1 DEF Bit
  <2>4. Agree(b, a, i - 1)
    BY <2>2 DEF Agree
  <2> QED
    BY <1>2, <2>2, <2>3, <2>4 DEF Lt
<1> QED
  BY <1>3, <1>4, <1>5

(* There are n smallest peers of a set that has as many. *)
LEMMA SmallestCount ==
    ASSUME NEW S \in SUBSET BitStrings(M), NEW n \in Nat, n <= Cardinality(S)
    PROVE  Cardinality(Smallest(n, S)) = n
<1> DEFINE below(p) == {q \in S : Lt(q, p)}
           rank == [p \in S |-> Cardinality(below(p))]
           k == Cardinality(S)
           T == Smallest(n, S)
           g == [p \in T |-> rank[p]]
<1>1. IsFiniteSet(S) /\ k \in Nat /\ M \in Nat
  BY FiniteIDs, FS_Subset, FS_CardinalityType, LabelType
<1>2. ASSUME NEW p \in S
      PROVE  IsFiniteSet(below(p)) /\ rank[p] \in 0..(k - 1)
  <2>1. below(p) \in SUBSET S /\ p \notin below(p)
    BY <1>1, LtOrder
  <2>2. /\ IsFiniteSet(below(p)) /\ Cardinality(below(p)) \in Nat
        /\ Cardinality(below(p)) <= k /\ Cardinality(below(p)) # k
    BY <1>1, <2>1, FS_Subset, FS_CardinalityType
  <2> HIDE DEF below
  <2> QED
    BY <1>1, <2>2
<1>3. ASSUME NEW p \in S, NEW q \in S, Lt(p, q) PROVE rank[p] < rank[q]
  <2>1. below(p) \in SUBSET below(q)
    BY <1>1, <1>3, LtOrder
  <2>2. p \in below(q) /\ p \notin below(p)
    BY <1>1, <1>3, LtOrder
  <2>3. Cardinality(below(p)) <= Cardinality(below(q)) /\ Cardinality(below(p)) # Cardinality(below(q))
    BY <1>2, <2>1, <2>2, FS_Subset
  <2>4. Cardinality(below(p)) \in Nat /\ Cardinality(below(q)) \in Nat
    BY <1>2, FS_CardinalityType
  <2> HIDE DEF below
  <2> QED
    BY <2>3, <2>4
<1> HIDE DEF below
<1>4. ASSUME NEW p \in S, NEW q \in S, rank[p] = rank[q] PROVE p = q
  <2>1. p \in BitStrings(M) /\ q \in BitStrings(M)
    OBVIOUS
  <2>2. p = q \/ Lt(p, q) \/ Lt(q, p)
    BY <1>1, <2>1, LtOrder
  <2>3. rank[p] \in Int /\ rank[q] \in Int
    BY <1>2
  <2>4. ~Lt(p, q) /\ ~Lt(q, p)
    BY <1>3, <1>4, <2>3
  <2> QED
    BY <2>2, <2>4
<1>5. rank \in Injection(S, 0..(k - 1))
  <2>1. rank \in [S -> 0..(k - 1)]
    BY <1>2
  <2> QED
    BY <1>4, <2>1 DEF Injection, IsInjective
<1>6. IsFiniteSet(0..(k - 1)) /\ Cardinality(0..(k - 1)) = k
  <2> HIDE DEF k
  <2> QED
    BY <1>1, FS_Interval
<1>7. \A i \in 0..(k - 1) : \E p \in S : rank[p] = i
  <2>1. rank \in Surjection(S, 0..(k - 1))
    BY <1>5, <1>6, FS_Injection
  <2> QED
    BY <2>1 DEF Surjection
<1>8. T = {p \in S : rank[p] < n}
  BY DEF Smallest, below
<1> HIDE DEF rank, T
<1>9. g \in [T -> 0..(n - 1)]
  BY <1>1, <1>2, <1>8
<1>10. g \in Injection(T, 0..(n - 1))
  BY <1>4, <1>8, <1>9 DEF Injection, IsInjective
<1>11. g \in Surjection(T, 0..(n - 1))
  <2>1. ASSUME NEW i \in 0..(n - 1) PROVE \E p \in T : g[p] = i
    <3>1. i \in 0..(k - 1) /\ i < n
      BY <1>1
    <3>2. PICK p \in S : rank[p] = i
      BY <1>7, <3>1
    <3> QED
      BY <1>8, <3>1, <3>2
  <2> QED
    BY <1>9, <2>1 DEF Surjection
<1>12. IsFiniteSet(0..(n - 1)) /\ Cardinality(0..(n - 1)) = n
  BY FS_Interval
<1> QED
  BY <1>10, <1>11, <1>12, FS_Injection DEF T
-----------------------------------------------------------------------------
(* The registry and the clusters cs agree, and the labels partition the IDs. *)
LabelsFit(cs, reg) ==
    /\ Partitions(DOMAIN reg, M)
    /\ \A l \in DOMAIN reg : reg[l] \in DOMAIN cs /\ cs[reg[l]].label = l
    /\ \A c \in DOMAIN cs : cs[c].label \in DOMAIN reg /\ reg[cs[c].label] = c

(* Entry i of a table is nearest to the label with bit i flipped. *)
TablesFit(cs) ==
    \A c \in DOMAIN cs : \A i \in 1..Len(cs[c].label) :
        cs[c].rt[i] \in Nearest(Flip(cs[c].label, i), DOMAIN cs \ {c}, LabelOf(cs))

(***************************************************************************)
(* Peers have their seats: full cores, one cluster for each, the one that  *)
(* home says and whose label is a prefix of the ID, and none for a peer    *)
(* that has not begun to join; st says how far it is.                      *)
(***************************************************************************)
SeatsFit(cs, home, st) ==
    /\ \A c \in DOMAIN cs : Cardinality(cs[c].vc) = SMin /\ cs[c].vc \cap cs[c].vs = {}
    /\ \A c \in DOMAIN cs, p \in Peers : p \in cs[c].vc \cup cs[c].vs <=> home[p] = c
    /\ \A p \in Peers : home[p] # None => /\ home[p] \in DOMAIN cs
                                          /\ IsPrefixOf(cs[home[p]].label, p)
                                          /\ st[p] # "out"
    /\ \A p \in Peers : st[p] = "serving" => home[p] # None

(* All clusters are registered then. *)
LEMMA AllLive ==
    ASSUME NEW cs, NEW reg, LabelsFit(cs, reg)
    PROVE  LiveIn(reg) = DOMAIN cs /\ Partition(DOMAIN cs, LabelOf(cs), M)
<1>1. LiveIn(reg) = DOMAIN cs
  BY DEF LabelsFit, LiveIn
<1> DEFINE label == LabelOf(cs)
<1>2. \A c \in DOMAIN cs : label[c] = cs[c].label /\ label[c] \in DOMAIN reg /\ reg[label[c]] = c
  BY DEF LabelsFit, LabelOf
<1>3. \A l \in DOMAIN reg : reg[l] \in DOMAIN cs /\ label[reg[l]] = l
  BY <1>2 DEF LabelsFit
<1> HIDE DEF label
<1>4. \A c \in DOMAIN cs : label[c] \in Seq(Bit) /\ Len(label[c]) <= M
  BY <1>2 DEF LabelsFit, Partitions
<1>5. \A a, b \in DOMAIN cs : IsPrefixOf(label[a], label[b]) => a = b
  BY <1>2 DEF LabelsFit, Partitions
<1>6. ASSUME NEW id \in BitStrings(M) PROVE \E c \in DOMAIN cs : IsPrefixOf(label[c], id)
  <2>1. PICK l \in DOMAIN reg : IsPrefixOf(l, id)
    BY DEF LabelsFit, Partitions
  <2>2. reg[l] \in DOMAIN cs /\ label[reg[l]] = l
    BY <1>3
  <2> QED
    BY <2>1, <2>2
<1> QED
  BY <1>1, <1>4, <1>5, <1>6 DEF Partition, label

(* Clusters with the same labels. *)
LEMMA SameLabels ==
    ASSUME NEW cs, NEW ds, NEW reg, LabelsFit(cs, reg), DOMAIN ds = DOMAIN cs,
           \A c \in DOMAIN cs : ds[c].label = cs[c].label
    PROVE  LabelsFit(ds, reg) /\ LabelOf(ds) = LabelOf(cs)
BY DEF LabelsFit, LabelOf

LEMMA SameTables ==
    ASSUME NEW cs, NEW ds, TablesFit(cs), DOMAIN ds = DOMAIN cs,
           \A c \in DOMAIN cs : ds[c].label = cs[c].label /\ ds[c].rt = cs[c].rt
    PROVE  TablesFit(ds)
<1>1. LabelOf(ds) = LabelOf(cs)
  BY DEF LabelOf
<1> QED
  BY <1>1 DEF TablesFit

(* Clusters with the same labels and members. *)
LEMMA SameSeats ==
    ASSUME NEW cs, NEW ds, NEW home, NEW st, SeatsFit(cs, home, st), DOMAIN ds = DOMAIN cs,
           \A c \in DOMAIN cs : /\ ds[c].label = cs[c].label
                                /\ ds[c].vc = cs[c].vc /\ ds[c].vs = cs[c].vs
    PROVE  SeatsFit(ds, home, st)
BY DEF SeatsFit

(* FixAllRT makes all tables fit. *)
LEMMA FixAllFits ==
    ASSUME NEW cs, WellFormed(cs), NEW reg, LabelsFit(cs, reg), NEW fixed \in FixAllRT(cs, reg)
    PROVE  /\ WellFormed(fixed) /\ Len(fixed) = Len(cs) /\ DOMAIN fixed = DOMAIN cs
           /\ LabelsFit(fixed, reg) /\ TablesFit(fixed)
           /\ \A c \in DOMAIN cs : SameButTables(fixed[c], cs[c])
<1> DEFINE C == DOMAIN cs
           label == LabelOf(cs)
<1>1. DOMAIN cs = 1..Len(cs) /\ \A l \in DOMAIN reg : reg[l] \in 1..Len(cs)
  BY WellFormedType DEF LabelsFit
<1>2. /\ WellFormed(fixed) /\ Len(fixed) = Len(cs)
      /\ \A c \in 1..Len(cs) : SameButTables(fixed[c], cs[c])
      /\ \A c \in LiveIn(reg) : fixed[c].rt \in FixedTables(c, LiveIn(reg), label)
  BY <1>1, FixKeeps
<1>3. DOMAIN fixed = C
  BY <1>1, <1>2, WellFormedType
<1>4. LiveIn(reg) = C /\ Partition(C, label, M)
  BY AllLive
<1>5. LabelsFit(fixed, reg) /\ LabelOf(fixed) = label
  BY <1>1, <1>2, <1>3, SameLabels DEF SameButTables
<1>6. ASSUME NEW c \in C, NEW i \in 1..Len(fixed[c].label)
      PROVE  fixed[c].rt[i] \in Nearest(Flip(fixed[c].label, i), C \ {c}, label)
  <2>1. fixed[c].label = label[c]
    BY <1>1, <1>2 DEF SameButTables, LabelOf
  <2>2. Len(label[c]) \in Nat
    BY <1>4 DEF Partition
  <2>3. Len(label[c]) > 0
    BY <1>6, <2>1, <2>2
  <2>4. fixed[c].rt \in FixedTables(c, C, label)
    BY <1>2, <1>4
  <2> HIDE DEF C, label
  <2>5. \A j \in 1..Len(label[c]) : fixed[c].rt[j] \in Nearest(Flip(label[c], j), C \ {c}, label)
    BY <1>4, <2>3, <2>4, LabelType, TableEntries
  <2> QED
    BY <1>6, <2>1, <2>5
<1>7. TablesFit(fixed)
  BY <1>3, <1>5, <1>6 DEF TablesFit
<1> QED
  BY <1>1, <1>2, <1>3, <1>5, <1>7
-----------------------------------------------------------------------------
(* A peer without a cluster becomes a spare peer of the one of its ID. *)
LEMMA JoinSeats ==
    ASSUME NEW cs, NEW home, NEW st, SeatsFit(cs, home, st),
           NEW p \in Peers, NEW c \in DOMAIN cs, None \notin DOMAIN cs,
           home[p] = None, IsPrefixOf(cs[c].label, p), st[p] # "out",
           NEW ds, DOMAIN ds = DOMAIN cs, \A d \in DOMAIN cs : d # c => ds[d] = cs[d],
           ds[c].label = cs[c].label, ds[c].vc = cs[c].vc, ds[c].vs = cs[c].vs \cup {p},
           NEW homes, \A x \in Peers : homes[x] = IF x = p THEN c ELSE home[x],
           NEW sts, \A x \in Peers : /\ sts[x] = "out" <=> st[x] = "out"
                                     /\ sts[x] = "serving" => st[x] = "serving" \/ x = p
    PROVE  SeatsFit(ds, homes, sts)
<1>1. \A d \in DOMAIN cs : p \notin cs[d].vc \cup cs[d].vs
  <2>1. \A d \in DOMAIN cs : d # None
    OBVIOUS
  <2> QED
    BY <2>1 DEF SeatsFit
<1>2. \A d \in DOMAIN ds : Cardinality(ds[d].vc) = SMin /\ ds[d].vc \cap ds[d].vs = {}
  BY <1>1 DEF SeatsFit
<1>3. \A d \in DOMAIN ds, x \in Peers : x \in ds[d].vc \cup ds[d].vs <=> homes[x] = d
  BY <1>1 DEF SeatsFit
<1>4. \A x \in Peers : homes[x] # None => /\ homes[x] \in DOMAIN ds
                                          /\ IsPrefixOf(ds[homes[x]].label, x)
                                          /\ sts[x] # "out"
  BY DEF SeatsFit
<1>5. \A x \in Peers : sts[x] = "serving" => homes[x] # None
  BY DEF SeatsFit
<1> QED
  BY <1>2, <1>3, <1>4, <1>5 DEF SeatsFit

(* A cluster with the core that it should have, and with no peer of other IDs. *)
Seated(r) ==
    /\ Cardinality(r.vc) = SMin /\ r.vc \cap r.vs = {}
    /\ \A p \in r.vc \cup r.vs : IsPrefixOf(r.label, p)

(* The half b of a cluster is such a cluster too, and has all who belong to it. *)
HalfSeated(r, b) ==
    /\ Cardinality(HalfCore(r, b)) = SMin
    /\ Side(r.vc, Half(r, b)) \subseteq HalfCore(r, b)
    /\ HalfCore(r, b) \cup (Side(r.vs, Half(r, b)) \ HalfCore(r, b))
         = Side(r.vc \cup r.vs, Half(r, b))
    /\ \A p \in r.vc \cup r.vs : /\ p[Len(r.label) + 1] \in Bit
                                 /\ IsPrefixOf(Half(r, b), p) <=> p[Len(r.label) + 1] = b

(* A half of a cluster that splits: its members and its core. *)
LEMMA HalfSeats ==
    ASSUME NEW n \in Nat, NEW r \in Records(n), IsSplit(r), Seated(r), NEW b \in Bit
    PROVE  HalfSeated(r, b)
<1> DEFINE next == Len(r.label) + 1
           h == Half(r, b)
           own == Side(r.vc, h)
           S == Side(r.vs, h)
           k == SMin - Cardinality(own)
<1>0. /\ Cardinality(r.vc) = SMin /\ r.vc \cap r.vs = {}
      /\ \A p \in r.vc \cup r.vs : IsPrefixOf(r.label, p)
  BY DEF Seated
<1> USE <1>0
<1>1. /\ r.label \in Seq(Bit) /\ Len(r.label) \in Nat /\ Len(r.label) < M
      /\ r.vc \subseteq Peers /\ r.vs \subseteq Peers
  BY RecordFields, LabelType
<1>2. ASSUME NEW p \in r.vc \cup r.vs
      PROVE  p[next] \in Bit /\ (IsPrefixOf(h, p) <=> p[next] = b)
  <2>1. p \in Seq(Bit) /\ Len(p) = M
    BY <1>1, PeerType
  <2> QED
    BY <1>1, <2>1, HalvesCover DEF Half
<1>3. own = {p \in r.vc : p[next] = b} /\ S = {p \in r.vs : p[next] = b}
  BY <1>2 DEF Side
<1>4. Cardinality(own) + Cardinality(S) >= TSplit
  BY <1>3 DEF IsSplit
<1>5. /\ own \subseteq r.vc /\ own \in SUBSET Peers /\ S \in SUBSET Peers
      /\ own \cap S = {} /\ own \cup S = Side(r.vc \cup r.vs, h)
  BY <1>1 DEF Side
<1> HIDE DEF own, S, h, next
<1>6. /\ IsFiniteSet(own) /\ IsFiniteSet(S) /\ IsFiniteSet(r.vc)
      /\ Cardinality(own) \in Nat /\ Cardinality(S) \in Nat
  BY <1>1, <1>5, FinitePeers
<1>7. Cardinality(own) <= SMin
  BY <1>5, <1>6, FS_Subset
<1>8. k \in Nat /\ k <= Cardinality(S)
  BY <1>4, <1>6, <1>7, SizeAssumption
<1> DEFINE T == Smallest(k, S)
<1>9. Cardinality(T) = k /\ T \subseteq S
  <2>1. S \in SUBSET BitStrings(M)
    BY <1>5, IDAssumption DEF Peers
  <2>2. T \subseteq S
    BY DEF Smallest
  <2> HIDE DEF k
  <2> QED
    BY <1>8, <2>1, <2>2, SmallestCount
<1>10. HalfCore(r, b) = own \cup T
  BY DEF HalfCore, own, S, h
<1> HIDE DEF T
<1>11. Cardinality(own \cup T) = SMin
  <2>1. IsFiniteSet(T) /\ own \cap T = {}
    BY <1>5, <1>6, <1>9, FS_Subset
  <2>2. Cardinality(own \cup T) = Cardinality(own) + Cardinality(T)
    <3>1. Cardinality(own \cup T) = Cardinality(own) + Cardinality(T) - Cardinality(own \cap T)
      BY <1>6, <2>1, FS_Union
    <3>2. Cardinality(own \cap T) = 0
      BY <2>1, FS_EmptySet
    <3> HIDE DEF k
    <3> QED
      BY <1>6, <1>8, <1>9, <3>1, <3>2
  <2> QED
    BY <1>6, <1>9, <2>2, SizeAssumption
<1>12. HalfCore(r, b) \cup (S \ HalfCore(r, b)) = Side(r.vc \cup r.vs, h)
  BY <1>5, <1>9, <1>10
<1> QED
  BY <1>2, <1>10, <1>11, <1>12 DEF HalfSeated, own, S, h, next

(***************************************************************************)
(* The clusters ds are cs with cluster c split: c is the half with bit 0   *)
(* and new the other.                                                      *)
(***************************************************************************)
IsHalf(r, half, b) ==
    /\ half.label = Half(r, b)
    /\ half.vc = HalfCore(r, b)
    /\ half.vs = Side(r.vs, Half(r, b)) \ HalfCore(r, b)

SplitInto(cs, ds, c, new) ==
    /\ DOMAIN ds = DOMAIN cs \cup {new} /\ new \notin DOMAIN cs
    /\ \A d \in DOMAIN cs \ {c} : ds[d] = cs[d]
    /\ IsHalf(cs[c], ds[c], 0) /\ IsHalf(cs[c], ds[new], 1)

LEMMA SplitLabelsFit ==
    ASSUME NEW cs, NEW reg, LabelsFit(cs, reg), NEW c \in DOMAIN cs,
           cs[c].label \in Seq(Bit), Len(cs[c].label) < M,
           NEW ds, NEW new, SplitInto(cs, ds, c, new),
           NEW sr, sr = SplitRegistry(reg, cs[c].label, Half(cs[c], 0), Half(cs[c], 1), c, new)
    PROVE  LabelsFit(ds, sr)
<1> DEFINE l == cs[c].label
           l0 == Half(cs[c], 0)
           l1 == Half(cs[c], 1)
           D == DOMAIN reg
<1>1. /\ DOMAIN sr = ((D \cup {l1}) \ {l}) \cup {l0}
      /\ \A m \in DOMAIN sr : sr[m] = IF m = l0 THEN c ELSE IF m \in D THEN reg[m] ELSE new
  <2>1. sr = SplitRegistry(reg, l, l0, l1, c, new)
    OBVIOUS
  <2> HIDE DEF l, l0, l1
  <2>2. /\ DOMAIN sr = SplitLabels(reg, l, l0, l1)
        /\ \A m \in DOMAIN sr : sr[m] = IF m = l0 THEN c ELSE IF m \in D THEN reg[m] ELSE new
    BY <2>1, SplitRegistryType
  <2> QED
    BY <2>2 DEF SplitLabels
<1>2. l \in D /\ reg[l] = c /\ Partitions(D, M) /\ l \in Seq(Bit)
  BY DEF LabelsFit
<1>a. Len(l) < M
  OBVIOUS
<1>3. \A b \in Bit : /\ Append(l, b) \in Seq(Bit) /\ Len(Append(l, b)) = Len(l) + 1
                     /\ IsPrefixOf(l, Append(l, b)) /\ Append(l, b)[Len(l) + 1] = b
  BY AppendBit
<1>4. l0 = Append(l, 0) /\ l1 = Append(l, 1) /\ 0 \in Bit /\ 1 \in Bit /\ Len(l) \in Nat
  BY DEF Half, Bit
<1> HIDE DEF l, l0, l1
<1>5. l0 # l /\ l1 # l /\ l0 # l1
  BY <1>3, <1>4
<1>6. l0 \notin D /\ l1 \notin D
  <2>1. \A m \in D : IsPrefixOf(l, m) => l = m
    BY <1>2 DEF Partitions
  <2>2. IsPrefixOf(l, l0) /\ IsPrefixOf(l, l1)
    BY <1>3, <1>4
  <2> QED
    BY <1>5, <2>1, <2>2
<1>7. DOMAIN sr = (D \ {l}) \cup {Append(l, b) : b \in Bit}
  <2>1. {Append(l, b) : b \in Bit} = {l0, l1}
    BY <1>4 DEF Bit
  <2> HIDE DEF D
  <2> QED
    BY <1>1, <1>5, <2>1
<1>8. Partitions(DOMAIN sr, M)
  <2>1. Partitions((D \ {l}) \cup {Append(l, b) : b \in Bit}, M)
    BY <1>2, <1>a, LabelType, SplitPartitions
  <2> QED
    BY <1>7, <2>1
<1>9. /\ ds[c].label = l0 /\ ds[new].label = l1
      /\ \A d \in DOMAIN cs \ {c} : ds[d].label = cs[d].label
      /\ DOMAIN ds = DOMAIN cs \cup {new} /\ new \notin DOMAIN cs
  BY DEF SplitInto, IsHalf, l0, l1, l
<1>10. ASSUME NEW m \in DOMAIN sr PROVE sr[m] \in DOMAIN ds /\ ds[sr[m]].label = m
  <2>1. CASE m = l0
    BY <2>1, <1>1, <1>9
  <2>2. CASE m = l1
    BY <2>2, <1>1, <1>5, <1>6, <1>9
  <2>3. CASE m \in D \ {l}
    <3>1. reg[m] \in DOMAIN cs /\ cs[reg[m]].label = m
      BY <2>3 DEF LabelsFit
    <3>2. reg[m] # c
      BY <2>3, <3>1 DEF l
    <3> QED
      BY <2>3, <3>1, <3>2, <1>1, <1>6, <1>9
  <2> QED
    BY <1>1, <2>1, <2>2, <2>3
<1>11. ASSUME NEW d \in DOMAIN ds PROVE ds[d].label \in DOMAIN sr /\ sr[ds[d].label] = d
  <2>1. CASE d = c
    BY <2>1, <1>1, <1>9
  <2>2. CASE d = new
    BY <2>2, <1>1, <1>5, <1>6, <1>9
  <2>3. CASE d \in DOMAIN cs \ {c}
    <3>1. cs[d].label \in D /\ reg[cs[d].label] = d
      BY <2>3 DEF LabelsFit
    <3> QED
      BY <2>3, <3>1, <1>1, <1>2, <1>6, <1>9
  <2> QED
    BY <1>9, <2>1, <2>2, <2>3
<1> QED
  BY <1>8, <1>10, <1>11 DEF LabelsFit

LEMMA SplitSeats ==
    ASSUME NEW cs, NEW home, NEW st, SeatsFit(cs, home, st), None \notin DOMAIN cs,
           NEW n \in Nat, NEW c \in DOMAIN cs, cs[c] \in Records(n), IsSplit(cs[c]),
           NEW ds, NEW new, new # None, SplitInto(cs, ds, c, new),
           NEW homes,
           \A x \in Peers : homes[x] = IF x \in ds[new].vc \cup ds[new].vs THEN new ELSE home[x]
    PROVE  /\ SeatsFit(ds, homes, st)
           /\ \A b \in Bit : Cardinality(HalfCore(cs[c], b)) = SMin
           /\ cs[c].vc \subseteq ds[c].vc \cup ds[new].vc
           /\ cs[c].vc \cup cs[c].vs \subseteq (ds[c].vc \cup ds[c].vs) \cup (ds[new].vc \cup ds[new].vs)
<1> DEFINE r == cs[c]
           members == r.vc \cup r.vs
           next == Len(r.label) + 1
<1>1. /\ Cardinality(r.vc) = SMin /\ r.vc \cap r.vs = {} /\ members \subseteq Peers
      /\ \A p \in members : home[p] = c /\ IsPrefixOf(r.label, p) /\ st[p] # "out"
  <2>1. r.vc \subseteq Peers /\ r.vs \subseteq Peers
    BY RecordFields
  <2>2. \A p \in Peers : p \in members <=> home[p] = c
    BY DEF SeatsFit
  <2>3. \A p \in members : home[p] = c /\ home[p] # None
    BY <2>1, <2>2
  <2>4. \A p \in Peers : home[p] # None => IsPrefixOf(cs[home[p]].label, p) /\ st[p] # "out"
    BY DEF SeatsFit
  <2>5. Cardinality(r.vc) = SMin /\ r.vc \cap r.vs = {}
    BY DEF SeatsFit
  <2> QED
    BY <2>1, <2>3, <2>4, <2>5
<1>2. ASSUME NEW b \in Bit
      PROVE  /\ Cardinality(HalfCore(r, b)) = SMin
             /\ Side(r.vc, Half(r, b)) \subseteq HalfCore(r, b)
             /\ HalfCore(r, b) \cup (Side(r.vs, Half(r, b)) \ HalfCore(r, b))
                  = Side(members, Half(r, b))
             /\ \A p \in members : /\ p[next] \in Bit
                                   /\ IsPrefixOf(Half(r, b), p) <=> p[next] = b
  <2>1. r \in Records(n) /\ IsSplit(r)
    OBVIOUS
  <2>2. Seated(r)
    BY <1>1 DEF Seated
  <2> HIDE DEF r, members
  <2>3. HalfSeated(r, b)
    BY <2>1, <2>2, HalfSeats
  <2> QED
    BY <2>3 DEF members, HalfSeated
<1>3. 0 \in Bit /\ 1 \in Bit /\ \A b \in Bit : b = 0 \/ b = 1
  BY DEF Bit
<1>4. /\ DOMAIN ds = DOMAIN cs \cup {new} /\ new \notin DOMAIN cs
      /\ \A d \in DOMAIN cs \ {c} : ds[d] = cs[d]
      /\ IsHalf(r, ds[c], 0) /\ IsHalf(r, ds[new], 1)
  BY DEF SplitInto
<1>5. /\ ds[c].label = Half(r, 0) /\ ds[c].vc = HalfCore(r, 0)
      /\ ds[c].vc \cap ds[c].vs = {} /\ ds[c].vc \cup ds[c].vs = Side(members, Half(r, 0))
      /\ ds[new].label = Half(r, 1) /\ ds[new].vc = HalfCore(r, 1)
      /\ ds[new].vc \cap ds[new].vs = {} /\ ds[new].vc \cup ds[new].vs = Side(members, Half(r, 1))
  <2>1. ASSUME NEW b \in Bit, NEW half, IsHalf(r, half, b)
        PROVE  /\ half.label = Half(r, b) /\ half.vc = HalfCore(r, b)
               /\ half.vc \cap half.vs = {} /\ half.vc \cup half.vs = Side(members, Half(r, b))
    <3>1. /\ half.label = Half(r, b) /\ half.vc = HalfCore(r, b)
          /\ half.vs = Side(r.vs, Half(r, b)) \ HalfCore(r, b)
      BY <2>1 DEF IsHalf
    <3>2. HalfCore(r, b) \cup (Side(r.vs, Half(r, b)) \ HalfCore(r, b)) = Side(members, Half(r, b))
      BY <1>2
    <3> HIDE DEF r, members
    <3> QED
      BY <3>1, <3>2
  <2> QED
    BY <2>1, <1>3, <1>4
<1>6. ds[c].vc \cup ds[c].vs = {p \in members : p[next] = 0}
  BY <1>2, <1>3, <1>5 DEF Side
<1>7. ds[new].vc \cup ds[new].vs = {p \in members : p[next] = 1}
  BY <1>2, <1>3, <1>5 DEF Side
<1>8. members = {p \in members : p[next] = 0} \cup {p \in members : p[next] = 1}
  BY <1>2, <1>3
<1>9. \A d \in DOMAIN ds : Cardinality(ds[d].vc) = SMin /\ ds[d].vc \cap ds[d].vs = {}
  BY <1>2, <1>3, <1>4, <1>5 DEF SeatsFit
<1> DEFINE In(d, p) == p \in ds[d].vc \cup ds[d].vs
<1>10. ASSUME NEW p \in Peers
       PROVE  /\ \A d \in DOMAIN ds : In(d, p) <=> homes[p] = d
              /\ homes[p] # None => IsPrefixOf(ds[homes[p]].label, p) /\ st[p] # "out"
              /\ homes[p] # None => homes[p] \in DOMAIN ds
              /\ home[p] # None => homes[p] # None
  <2>1. \A d \in DOMAIN cs : p \in cs[d].vc \cup cs[d].vs <=> home[p] = d
    BY DEF SeatsFit
  <2>a. \A d \in DOMAIN cs \ {c} : In(d, p) <=> home[p] = d
    BY <2>1, <1>4
  <2>b. p \in members <=> home[p] = c
    BY <2>1
  <2>c. home[p] # new
    BY <1>4 DEF SeatsFit
  <2>d. home[p] # None => home[p] \in DOMAIN cs /\ IsPrefixOf(cs[home[p]].label, p) /\ st[p] # "out"
    BY DEF SeatsFit
  <2>2. CASE p \in members /\ p[next] = 1
    <3>1. homes[p] = new /\ In(new, p) /\ ~In(c, p) /\ home[p] = c
      BY <2>2, <2>b, <1>3, <1>6, <1>7
    <3>2. IsPrefixOf(ds[new].label, p)
      BY <2>2, <1>2, <1>3, <1>5
    <3> QED
      BY <1>1, <1>4, <2>2, <2>a, <2>c, <3>1, <3>2
  <2>3. CASE p \in members /\ p[next] = 0
    <3>1. homes[p] = c /\ ~In(new, p) /\ In(c, p) /\ home[p] = c
      BY <2>3, <2>b, <1>3, <1>6, <1>7
    <3>2. IsPrefixOf(ds[c].label, p)
      BY <2>3, <1>2, <1>3, <1>5
    <3> QED
      BY <1>1, <1>4, <2>3, <2>a, <2>c, <3>1, <3>2
  <2>4. CASE p \notin members
    <3>1. homes[p] = home[p] /\ ~In(new, p) /\ ~In(c, p) /\ home[p] # c
      BY <2>4, <2>b, <1>6, <1>7
    <3> QED
      BY <1>4, <2>a, <2>c, <2>d, <3>1
  <2> QED
    BY <2>2, <2>3, <2>4, <1>8
<1>11. \A p \in Peers : st[p] = "serving" => homes[p] # None
  BY <1>10 DEF SeatsFit
<1>12. SeatsFit(ds, homes, st)
  BY <1>9, <1>10, <1>11 DEF SeatsFit
<1>13. r.vc \subseteq ds[c].vc \cup ds[new].vc
  <2>1. Side(r.vc, Half(r, 0)) \subseteq ds[c].vc /\ Side(r.vc, Half(r, 1)) \subseteq ds[new].vc
    BY <1>2, <1>3, <1>5
  <2>2. \A p \in r.vc : p \in Side(r.vc, Half(r, 0)) \/ p \in Side(r.vc, Half(r, 1))
    BY <1>2, <1>3 DEF Side
  <2> QED
    BY <2>1, <2>2
<1> QED
  BY <1>2, <1>6, <1>7, <1>8, <1>12, <1>13
-----------------------------------------------------------------------------
(* The peers by which calls for p are under way: events in sp, or calls of Add in ad. *)
Callers(sp, ad, p) ==
    {q \in Peers : <<q, p>> \in sp \/ \E call \in ad : call[1] = q /\ call[2] = p}

(* The calls for one join that are left when it has been admitted. *)
Rest == SMin - (SafteyValue + 1)

(***************************************************************************)
(* Each call for p is under way or was counted in the cluster by[q], which *)
(* has not yet had enough of them.  They are as many as the core peers     *)
(* that heard of the join, or as many less as it takes to be admitted, and *)
(* the latter if p has been.                                               *)
(***************************************************************************)
Heard(callers, by) == callers \cup {q \in Peers : by[q] # None}

Quota(home, st, k) ==
    /\ home # None => k <= Rest
    /\ home = None /\ st = "out" => k = 0
    /\ home = None /\ st # "out" => k \in {SMin, Rest}

Counted(cs, home, st, callers, p, by) ==
    /\ by \in [Peers -> DOMAIN cs \cup {None}]
    /\ \A c \in DOMAIN cs : cs[c].freq[p] = Cardinality({q \in Peers : by[q] = c})
    /\ \A q \in callers : by[q] = None
    /\ Quota(home, st, Cardinality(Heard(callers, by)))

CallsFit(cs, home, st, sp, ad) ==
    /\ \A call \in ad : <<call[1], call[2]>> \notin sp
    /\ \A call, other \in ad : call[1] = other[1] /\ call[2] = other[2] => call = other
    /\ \A p \in Peers : \E by : Counted(cs, home[p], st[p], Callers(sp, ad, p), p, by)

LEMMA RestIs == Rest \in Nat /\ Rest < SafteyValue + 1 /\ Rest < SMin /\ SMin \in Nat /\ SMin > 0
BY SizeAssumption DEF Rest

(* Nothing about p has changed but, perhaps, the cluster it is in. *)
LEMMA CountsSame ==
    ASSUME NEW cs, NEW home, NEW st, NEW callers, NEW p, NEW by,
           Counted(cs, home, st, callers, p, by),
           NEW ds, DOMAIN cs \subseteq DOMAIN ds, None \notin DOMAIN ds,
           \A d \in DOMAIN cs : ds[d].freq[p] = cs[d].freq[p],
           \A d \in DOMAIN ds \ DOMAIN cs : ds[d].freq[p] = 0,
           NEW homes, homes = None <=> home = None,
           NEW sts, sts = "out" <=> st = "out"
    PROVE  Counted(ds, homes, sts, callers, p, by)
<1>1. by \in [Peers -> DOMAIN ds \cup {None}]
  BY DEF Counted
<1>2. ASSUME NEW d \in DOMAIN ds PROVE ds[d].freq[p] = Cardinality({q \in Peers : by[q] = d})
  <2>1. CASE d \in DOMAIN cs
    BY <2>1 DEF Counted
  <2>2. CASE d \notin DOMAIN cs
    <3>1. {q \in Peers : by[q] = d} = {}
      BY <2>2 DEF Counted
    <3> QED
      BY <2>2, <3>1, FS_EmptySet
  <2> QED
    BY <2>1, <2>2
<1> QED
  BY <1>1, <1>2 DEF Counted, Quota

(* The counts for p of the clusters cs become those of ds, and that of c becomes k. *)
Recount(cs, ds, c, p, k) ==
    /\ c \in DOMAIN cs /\ None \notin DOMAIN cs
    /\ DOMAIN cs \subseteq DOMAIN ds /\ None \notin DOMAIN ds
    /\ ds[c].freq[p] = k
    /\ \A d \in DOMAIN cs \ {c} : ds[d].freq[p] = cs[d].freq[p]
    /\ \A d \in DOMAIN ds \ DOMAIN cs : ds[d].freq[p] = 0

(* A call is counted in c. *)
LEMMA CountsOneMore ==
    ASSUME NEW cs, NEW home, NEW st, NEW callers \in SUBSET Peers, NEW p, NEW by,
           Counted(cs, home, st, callers, p, by), NEW q \in callers,
           NEW ds, NEW c, Recount(cs, ds, c, p, cs[c].freq[p] + 1), DOMAIN ds = DOMAIN cs
    PROVE  Counted(ds, home, st, callers \ {q}, p, [by EXCEPT ![q] = c])
<1> DEFINE by2 == [by EXCEPT ![q] = c]
<1>0. /\ c \in DOMAIN cs /\ None \notin DOMAIN cs
      /\ ds[c].freq[p] = cs[c].freq[p] + 1
      /\ \A d \in DOMAIN cs \ {c} : ds[d].freq[p] = cs[d].freq[p]
  BY DEF Recount
<1> USE <1>0
<1>1. by \in [Peers -> DOMAIN cs \cup {None}] /\ by[q] = None /\ q \in Peers
  BY DEF Counted
<1>2. by2 \in [Peers -> DOMAIN ds \cup {None}] /\ by2[q] = c /\ \A x \in Peers \ {q} : by2[x] = by[x]
  BY <1>1
<1> HIDE DEF by2
<1>3. {x \in Peers : by2[x] = c} = {x \in Peers : by[x] = c} \cup {q}
  BY <1>1, <1>2
<1>4. \A d \in DOMAIN cs \ {c} : {x \in Peers : by2[x] = d} = {x \in Peers : by[x] = d}
  BY <1>1, <1>2
<1>5. Cardinality({x \in Peers : by2[x] = c}) = Cardinality({x \in Peers : by[x] = c}) + 1
  <2> DEFINE S == {x \in Peers : by[x] = c}
  <2>1. S \in SUBSET Peers /\ q \notin S
    BY <1>1
  <2>2. IsFiniteSet(S)
    BY <2>1, FinitePeers
  <2> HIDE DEF S
  <2>3. Cardinality(S \cup {q}) = Cardinality(S) + 1
    BY <2>1, <2>2, FS_AddElement
  <2> QED
    BY <1>3, <2>3 DEF S
<1>6. Heard(callers \ {q}, by2) = Heard(callers, by)
  BY <1>1, <1>2 DEF Heard
<1>7. \A d \in DOMAIN ds : ds[d].freq[p] = Cardinality({x \in Peers : by2[x] = d})
  BY <1>4, <1>5 DEF Counted
<1>8. \A x \in callers \ {q} : by2[x] = None
  BY <1>2 DEF Counted
<1> QED
  BY <1>2, <1>6, <1>7, <1>8 DEF Counted, by2

(* p has asked to join and is nowhere yet. *)
Due(home, st) == home = None /\ st # "out"

(* The calls for p that are left may be as many as there are, wherever p is. *)
Settled(cs, callers, p) ==
    \E by : \A home, st : st # "out" => Counted(cs, home, st, callers, p, by)

(* Enough calls have been counted in c, with this one: p was due. *)
LEMMA CountsSpent ==
    ASSUME NEW cs, NEW home, NEW st, NEW callers \in SUBSET Peers, NEW p, NEW by,
           Counted(cs, home, st, callers, p, by), NEW q \in callers,
           NEW ds, NEW c, cs[c].freq[p] = SafteyValue, Recount(cs, ds, c, p, 0)
    PROVE  Due(home, st) /\ Settled(ds, callers \ {q}, p)
<1> DEFINE S == {x \in Peers : by[x] = c}
           by2 == [x \in Peers |-> IF by[x] = c THEN None ELSE by[x]]
           H == Heard(callers, by)
           H2 == Heard(callers \ {q}, by2)
<1>0. /\ c \in DOMAIN cs /\ None \notin DOMAIN cs
      /\ DOMAIN cs \subseteq DOMAIN ds /\ None \notin DOMAIN ds
      /\ ds[c].freq[p] = 0
      /\ \A d \in DOMAIN cs \ {c} : ds[d].freq[p] = cs[d].freq[p]
      /\ \A d \in DOMAIN ds \ DOMAIN cs : ds[d].freq[p] = 0
  BY DEF Recount
<1> USE <1>0
<1>1. by \in [Peers -> DOMAIN cs \cup {None}] /\ by[q] = None /\ q \in Peers
  BY DEF Counted
<1>2. /\ S \in SUBSET Peers /\ q \notin S /\ H \in SUBSET Peers
      /\ S \cup {q} \in SUBSET H /\ H2 = H \ (S \cup {q})
  BY <1>1 DEF Heard, Counted
<1>3. Cardinality(S) = SafteyValue
  BY DEF Counted
<1> HIDE DEF S, H, H2
<1>4. /\ IsFiniteSet(S) /\ IsFiniteSet(H) /\ Cardinality(H) \in Nat
      /\ IsFiniteSet(S \cup {q}) /\ Cardinality(S \cup {q}) = SafteyValue + 1
  BY <1>2, <1>3, FinitePeers, FS_AddElement
<1>5. Cardinality(S \cup {q}) <= Cardinality(H)
  BY <1>2, <1>4, FS_Subset
<1>6. Cardinality(H2) = Cardinality(H) - (SafteyValue + 1)
  <2>1. Cardinality(H2) = Cardinality(H) - Cardinality(H \cap (S \cup {q}))
    BY <1>2, <1>4, FS_Difference
  <2>2. H \cap (S \cup {q}) = S \cup {q}
    BY <1>2
  <2> QED
    BY <1>4, <2>1, <2>2
<1>7. Quota(home, st, Cardinality(H))
  BY DEF Counted, H
<1>8. home = None /\ st # "out" /\ Cardinality(H) = SMin
  BY <1>4, <1>5, <1>7, RestIs, SizeAssumption DEF Quota
<1>9. \A homes, sts : sts # "out" => Quota(homes, sts, Cardinality(H2))
  <2>1. Cardinality(H2) = Rest
    BY <1>6, <1>8 DEF Rest
  <2> QED
    BY <2>1, RestIs DEF Quota
<1>10. by2 \in [Peers -> DOMAIN ds \cup {None}] /\ \A x \in callers \ {q} : by2[x] = None
  BY <1>1 DEF Counted
<1>11. ASSUME NEW d \in DOMAIN ds PROVE ds[d].freq[p] = Cardinality({x \in Peers : by2[x] = d})
  <2>1. CASE d \in DOMAIN cs \ {c}
    <3>1. {x \in Peers : by2[x] = d} = {x \in Peers : by[x] = d}
      BY <2>1
    <3> QED
      BY <2>1, <3>1 DEF Counted
  <2>2. CASE d = c \/ d \notin DOMAIN cs
    <3>1. {x \in Peers : by2[x] = d} = {}
      BY <1>1, <2>2
    <3>2. ds[d].freq[p] = 0
      BY <2>2
    <3> QED
      BY <3>1, <3>2, FS_EmptySet
  <2> QED
    BY <2>1, <2>2
<1>12. \A homes, sts : sts # "out" => Counted(ds, homes, sts, callers \ {q}, p, by2)
  <2> HIDE DEF by2
  <2> QED
    BY <1>9, <1>10, <1>11 DEF Counted, H2
<1>13. Settled(ds, callers \ {q}, p)
  <2> HIDE DEF by2
  <2> QED
    BY <1>12 DEF Settled
<1> QED
  BY <1>8, <1>13 DEF Due
-----------------------------------------------------------------------------
(* The counts when one is set, and when a peer joins. *)
LEMMA RecountedCount ==
    ASSUME NEW cs, WellFormed(cs), NEW c \in 1..Len(cs), NEW p \in Peers, NEW k,
           NEW ds, ds = Recounted(cs, c, p, k)
    PROVE  /\ ds[c].freq[p] = k
           /\ \A x \in Peers \ {p} : ds[c].freq[x] = cs[c].freq[x]
           /\ \A d \in (1..Len(cs)) \ {c} : ds[d] = cs[d]
<1> DEFINE f == [cs[c].freq EXCEPT ![p] = k]
           r == [cs[c] EXCEPT !.freq = f]
<1>1. cs[c] \in Records(Len(cs)) /\ DOMAIN cs = 1..Len(cs)
  BY WellFormedType
<1>2. f[p] = k /\ \A x \in Peers \ {p} : f[x] = cs[c].freq[x]
  BY <1>1, RecordFields, WellFormedType
<1>3. ds = [cs EXCEPT ![c] = r]
  BY DEF Recounted
<1> HIDE DEF f
<1>4. r.freq = f
  BY <1>1 DEF Records
<1> HIDE DEF r
<1>5. ds[c] = r /\ \A d \in (1..Len(cs)) \ {c} : ds[d] = cs[d]
  BY <1>1, <1>3
<1> QED
  BY <1>2, <1>4, <1>5

LEMMA JoinedCount ==
    ASSUME NEW n \in Nat, NEW r \in Records(n), NEW p \in Peers
    PROVE  /\ Joined(r, p).freq[p] = 0
           /\ \A x \in Peers \ {p} : Joined(r, p).freq[x] = r.freq[x]
<1> DEFINE f == [r.freq EXCEPT ![p] = 0]
<1>1. f[p] = 0 /\ \A x \in Peers \ {p} : f[x] = r.freq[x]
  BY RecordFields
<1>2. Joined(r, p) = [r EXCEPT !.freq = f, !.vs = r.vs \cup {p}]
  BY DEF Joined
<1> HIDE DEF f
<1>3. Joined(r, p).freq = f
  BY <1>2 DEF Records
<1> QED
  BY <1>1, <1>3

(* Each core peer that heard of a join makes one call. *)
CallsApart(sp, ad) ==
    /\ \A call \in ad : <<call[1], call[2]>> \notin sp
    /\ \A call, other \in ad : call[1] = other[1] /\ call[2] = other[2] => call = other

(* Without the call that is over its caller has none for that join. *)
CallersWithout(sp, ad, over) ==
    /\ Callers(sp, ad \ {over}, over[2]) = Callers(sp, ad, over[2]) \ {over[1]}
    /\ \A x \in Peers \ {over[2]} : Callers(sp, ad \ {over}, x) = Callers(sp, ad, x)

(* A call of Add is over. *)
LEMMA CallOver ==
    ASSUME NEW sp, NEW ad, CallsApart(sp, ad), NEW over \in ad, over[1] \in Peers
    PROVE  CallersWithout(sp, ad, over)
<1>1. /\ \A call \in ad : <<call[1], call[2]>> \notin sp
      /\ \A call, other \in ad : call[1] = other[1] /\ call[2] = other[2] => call = other
  BY DEF CallsApart
<1>2. Callers(sp, ad \ {over}, over[2]) = Callers(sp, ad, over[2]) \ {over[1]}
  BY <1>1 DEF Callers
<1>3. \A x \in Peers \ {over[2]} : Callers(sp, ad \ {over}, x) = Callers(sp, ad, x)
  BY DEF Callers
<1> QED
  BY <1>2, <1>3 DEF CallersWithout
-----------------------------------------------------------------------------
(* What is true while nobody has left or is about to. *)
NobodyLeft == left = {} /\ leaving = {} /\ merging = {}

GrowthInv ==
    /\ LabelsFit(cl, registry)
    /\ TablesFit(cl)
    /\ SeatsFit(cl, cluster, stage)
    /\ CallsFit(cl, cluster, stage, spares, adds)
    /\ ~crashed

(* What a call of Add of p to c does to the counts, and to who is a member. *)
CountsEffect(p, c, k) ==
    /\ Clusters \subseteq Clusters' /\ None \notin Clusters'
    /\ cl'[c].freq[p] = k
    /\ \A d \in Clusters \ {c} : cl'[d].freq[p] = cl[d].freq[p]
    /\ \A d \in Clusters, x \in Peers \ {p} : cl'[d].freq[x] = cl[d].freq[x]
    /\ \A d \in Clusters' \ Clusters, x \in Peers : cl'[d].freq[x] = 0

SeatsEffect(p) ==
    /\ \A x \in Peers \ {p} : cluster'[x] = None <=> cluster[x] = None
    /\ \A x \in Peers : stage'[x] = "out" <=> stage[x] = "out"
    /\ \A d \in Clusters : \A x \in cl[d].vc : \E e \in Clusters' : x \in cl'[e].vc
    /\ \A d \in Clusters : \A x \in Members(d) : \E e \in Clusters' : x \in cl'[e].vc \cup cl'[e].vs

AddGrowth(p, c, k) ==
    /\ LabelsFit(cl', registry')
    /\ TablesFit(cl')
    /\ SeatsFit(cl', cluster', stage')
    /\ ~crashed'
    /\ CountsEffect(p, c, k)
    /\ SeatsEffect(p)

LEMMA IgnoredGrows ==
    ASSUME Inv, GrowthInv, NEW p \in Peers, NEW c \in Clusters, AddIgnored(p, c)
    PROVE  AddGrowth(p, c, cl[c].freq[p] + 1)
<1> DEFINE k == cl[c].freq[p] + 1
<1>1. /\ Len(cl) \in Nat /\ c \in 1..Len(cl) /\ WellFormed(cl)
      /\ Clusters = 1..Len(cl) /\ None \notin Clusters /\ DOMAIN cl = 1..Len(cl)
  BY RegistryType DEF Inv, Clusters
<1>2. k \in 0..SafteyValue
  <2>1. cl[c] \in Records(Len(cl))
    BY <1>1, WellFormedType
  <2>2. cl[c].freq \in [Peers -> 0..SafteyValue] /\ SafteyValue \in Nat
    BY <1>1, <2>1, RecordFields, SizeAssumption
  <2>3. ~(cl[c].freq[p] + 1 > SafteyValue)
    BY DEF AddIgnored, Enough
  <2> QED
    BY <2>2, <2>3
<1>3. cl' = Recounted(cl, c, p, k) /\ UNCHANGED <<registry, cluster, type, data, stage, crashed>>
  BY DEF AddIgnored, Recounted, peerVars
<1> HIDE DEF k
<1>4. /\ WellFormed(cl') /\ Len(cl') = Len(cl)
      /\ \A d \in 1..Len(cl) : SameButCounts(cl'[d], cl[d])
  BY <1>1, <1>2, <1>3, RecountedType
<1>5. DOMAIN cl' = DOMAIN cl /\ Clusters' = Clusters
  BY <1>1, <1>4, WellFormedType DEF Clusters
<1>6. LabelsFit(cl', registry') /\ TablesFit(cl') /\ SeatsFit(cl', cluster', stage')
  <2>1. LabelsFit(cl', registry)
    BY <1>1, <1>4, <1>5, SameLabels DEF GrowthInv, SameButCounts
  <2>2. TablesFit(cl')
    BY <1>1, <1>4, <1>5, SameTables DEF GrowthInv, SameButCounts
  <2>3. SeatsFit(cl', cluster, stage)
    BY <1>1, <1>4, <1>5, SameSeats DEF GrowthInv, SameButCounts
  <2> QED
    BY <1>3, <2>1, <2>2, <2>3
<1>7. /\ cl'[c].freq[p] = k
      /\ \A x \in Peers \ {p} : cl'[c].freq[x] = cl[c].freq[x]
      /\ \A d \in (1..Len(cl)) \ {c} : cl'[d] = cl[d]
  BY <1>1, <1>3, RecountedCount
<1>8. CountsEffect(p, c, k)
  BY <1>1, <1>5, <1>7 DEF CountsEffect
<1>9. SeatsEffect(p)
  BY <1>1, <1>3, <1>4, <1>5 DEF SeatsEffect, Members, SameButCounts
<1> QED
  BY <1>3, <1>6, <1>8, <1>9 DEF AddGrowth, GrowthInv, k

LEMMA ElsewhereGrows ==
    ASSUME Inv, GrowthInv, NEW p \in Peers, NEW c \in Clusters, AddElsewhere(p, c)
    PROVE  AddGrowth(p, c, 0)
<1> DEFINE cs == Recounted(cl, c, p, 0)
<1>1. /\ Len(cl) \in Nat /\ c \in 1..Len(cl) /\ WellFormed(cl)
      /\ Clusters = 1..Len(cl) /\ None \notin Clusters /\ DOMAIN cl = 1..Len(cl)
  BY RegistryType DEF Inv, Clusters
<1>2. 0 \in 0..SafteyValue
  BY SizeAssumption
<1>3. /\ WellFormed(cs) /\ Len(cs) = Len(cl)
      /\ \A d \in 1..Len(cl) : SameButCounts(cs[d], cl[d])
  BY <1>1, <1>2, RecountedType
<1>4. cl' \in FixAllRT(cs, registry) /\ UNCHANGED <<registry, cluster, type, data, stage, crashed>>
  BY DEF AddElsewhere, Recounted, peerVars
<1>5. /\ cs[c].freq[p] = 0
      /\ \A x \in Peers \ {p} : cs[c].freq[x] = cl[c].freq[x]
      /\ \A d \in (1..Len(cl)) \ {c} : cs[d] = cl[d]
  BY <1>1, RecountedCount
<1> HIDE DEF cs
<1>6. DOMAIN cs = DOMAIN cl
  BY <1>1, <1>3, WellFormedType
<1>7. LabelsFit(cs, registry)
  BY <1>1, <1>3, <1>6, SameLabels DEF GrowthInv, SameButCounts
<1>8. /\ DOMAIN cl' = DOMAIN cl /\ LabelsFit(cl', registry) /\ TablesFit(cl')
      /\ \A d \in 1..Len(cl) : SameButTables(cl'[d], cs[d])
  BY <1>1, <1>3, <1>4, <1>6, <1>7, FixAllFits
<1>9. SeatsFit(cl', cluster, stage)
  BY <1>1, <1>3, <1>8, SameSeats DEF GrowthInv, SameButCounts, SameButTables
<1>10. Clusters' = Clusters
  BY <1>8 DEF Clusters
<1>11. CountsEffect(p, c, 0)
  BY <1>1, <1>5, <1>8, <1>10 DEF CountsEffect, SameButTables
<1>12. SeatsEffect(p)
  BY <1>1, <1>3, <1>4, <1>8, <1>10 DEF SeatsEffect, Members, SameButCounts, SameButTables
<1> QED
  BY <1>4, <1>8, <1>9, <1>11, <1>12 DEF AddGrowth, GrowthInv

(* The clusters and the registry when a cluster splits, before FixAllRT. *)
Halved(cs, c, old, clusters) ==
    LET new == Len(cl) + 1 IN
    /\ WellFormed(cs) /\ Len(cs) = new /\ cl' \in FixAllRT(cs, registry')
    /\ IsHalf(old, cs[c], 0) /\ IsHalf(old, cs[new], 1)
    /\ cs[c].freq = old.freq /\ cs[new].freq = [x \in Peers |-> 0]
    /\ \A d \in (1..Len(cl)) \ {c} : cs[d] = cl[d]
    /\ \A q \in Peers : cluster'[q] = IF q \in cs[new].vc \cup cs[new].vs THEN new
                                      ELSE clusters[q]

LEMMA SplitForm ==
    ASSUME Inv, NEW c \in Clusters, NEW old \in Records(Len(cl)), Fitting(old, c),
           Len(old.label) + 1 # M, NEW clusters, NEW types, Split(c, old, clusters, types)
    PROVE  LET new == Len(cl) + 1 IN
           /\ registry' = SplitRegistry(registry, old.label, Half(old, 0), Half(old, 1), c, new)
           /\ crashed' = (\E b \in Bit : Cardinality(HalfCore(old, b)) < SMin)
           /\ \E cs : Halved(cs, c, old, clusters)
<1> DEFINE n == Len(cl)
           new == n + 1
           core == [b \in Bit |-> HalfCore(old, b)]
           rest == [b \in Bit |-> Side(old.vs, Half(old, b)) \ core[b]]
           kept == Kept(old, new, core[0], rest[0])
           added == Added(old, c, core[1], rest[1])
           cs == Append([cl EXCEPT ![c] = kept], added)
<1>1. n \in Nat /\ c \in 1..n /\ Clusters = 1..n /\ WellFormed(cl)
  BY RegistryType DEF Inv
<1>2. 0 \in Bit /\ 1 \in Bit
  BY DEF Bit
<1>3. /\ cl' \in FixAllRT(cs, registry')
      /\ registry' = SplitRegistry(registry, old.label, Half(old, 0), Half(old, 1), c, new)
  <2>1. kept.label = Half(old, 0) /\ added.label = Half(old, 1)
    BY DEF Kept, Added, NewCluster, Records
  <2> QED
    BY <2>1 DEF Split, Kept, Added, SplitRegistry
<1>4. /\ cluster' = [q \in Peers |-> IF q \in core[1] \cup rest[1] THEN new ELSE clusters[q]]
      /\ crashed' = (\E b \in Bit : Cardinality(core[b]) < SMin)
  BY DEF Split
<1>5. crashed' = (\E b \in Bit : Cardinality(HalfCore(old, b)) < SMin)
  BY <1>4
<1>6. /\ core[0] = HalfCore(old, 0) /\ rest[0] = Side(old.vs, Half(old, 0)) \ HalfCore(old, 0)
      /\ core[1] = HalfCore(old, 1) /\ rest[1] = Side(old.vs, Half(old, 1)) \ HalfCore(old, 1)
  BY <1>2
<1> HIDE DEF core, rest
<1>7. /\ core[0] \subseteq Peers /\ core[1] \subseteq Peers
      /\ rest[0] \subseteq Peers /\ rest[1] \subseteq Peers
  <2>1. old.vc \subseteq Peers /\ old.vs \subseteq Peers
    BY <1>1, RecordFields
  <2>2. \A b \in Bit : HalfCore(old, b) \subseteq old.vc \cup old.vs /\ Side(old.vs, Half(old, b)) \subseteq old.vs
    BY HalfCoreType
  <2> QED
    BY <1>2, <1>6, <2>1, <2>2
<1>8. /\ kept \in Records(n + 1) /\ Fitting(kept, c)
      /\ added \in Records(n + 1) /\ Fitting(added, n + 1)
  BY <1>1, <1>7, HalvesType
<1>9. /\ kept.vc = core[0] /\ kept.vs = rest[0] /\ kept.label = Half(old, 0) /\ kept.freq = old.freq
      /\ added.vc = core[1] /\ added.vs = rest[1] /\ added.label = Half(old, 1)
      /\ added.freq = [x \in Peers |-> 0]
  BY DEF Kept, Added, NewCluster, Records
<1> HIDE DEF kept, added
<1>10. /\ WellFormed(cs) /\ Len(cs) = new
       /\ cs[c] = kept /\ cs[new] = added
       /\ \A d \in (1..n) \ {c} : cs[d] = cl[d]
  BY <1>1, <1>8, SplitWellFormed
<1> HIDE DEF cs
<1>11. IsHalf(old, cs[c], 0) /\ IsHalf(old, cs[new], 1)
  BY <1>6, <1>9, <1>10 DEF IsHalf
<1>12. \A q \in Peers : cluster'[q] = IF q \in cs[new].vc \cup cs[new].vs THEN new ELSE clusters[q]
  BY <1>4, <1>9, <1>10
<1>13. Halved(cs, c, old, clusters)
  BY <1>3, <1>9, <1>10, <1>11, <1>12 DEF Halved
<1> HIDE DEF new, n
<1> QED
  BY <1>3, <1>5, <1>13 DEF new, n

LEMMA SpareGrows ==
    ASSUME Inv, GrowthInv, NEW p \in Peers, NEW c \in Clusters, AddSpare(p, c),
           cluster[p] = None, stage[p] # "out"
    PROVE  /\ AddGrowth(p, c, 0)
           /\ \E e \in Clusters' : p \in cl'[e].vc \cup cl'[e].vs
<1> DEFINE n == Len(cl)
           old == Joined(cl[c], p)
           clusters == [cluster EXCEPT ![p] = c]
           types == [type EXCEPT ![p] = "SPARE"]
           mid == [cl EXCEPT ![c] = old]
<1>1. /\ n \in Nat /\ c \in 1..n /\ WellFormed(cl) /\ Clusters = 1..n /\ None \notin Clusters
      /\ DOMAIN cl = 1..n
  BY RegistryType DEF Inv, Clusters
<1>2. cl[c] \in Records(n) /\ Fitting(cl[c], c)
  BY <1>1, WellFormedType DEF WellFormed
<1>3. /\ old \in Records(n) /\ old.label = cl[c].label /\ old.rt = cl[c].rt
      /\ old.vc = cl[c].vc /\ old.vs = cl[c].vs \cup {p} /\ old.merge = cl[c].merge
      /\ old.freq[p] = 0 /\ \A x \in Peers \ {p} : old.freq[x] = cl[c].freq[x]
  BY <1>1, <1>2, JoinedType, JoinedCount
<1>4. Fitting(old, c)
  BY <1>2, <1>3 DEF Fitting
<1>5. \A x \in Peers : clusters[x] = IF x = p THEN c ELSE cluster[x]
  BY DEF Inv, StateType
<1>6. \A x \in Peers : /\ stage'[x] = "out" <=> stage[x] = "out"
                       /\ stage'[x] = "serving" => stage[x] = "serving" \/ x = p
  BY DEF Inv, StateType, AddSpare, Ready
<1>7. \/ IsSplit(old) /\ Split(c, old, clusters, types)
      \/ /\ ~IsSplit(old)
         /\ cl' \in FixAllRT(mid, registry)
         /\ cluster' = clusters
         /\ UNCHANGED <<registry, crashed>>
  BY DEF AddSpare, Joined
<1>8. IsPrefixOf(cl[c].label, p)
  BY DEF AddSpare
<1> HIDE DEF old, clusters, types
<1>9. /\ WellFormed(mid) /\ Len(mid) = n /\ DOMAIN mid = 1..n
      /\ mid[c] = old /\ \A d \in 1..n : d # c => mid[d] = cl[d]
  <2>1. WellFormed(mid) /\ Len(mid) = n
    BY <1>1, <1>3, <1>4, RecordSet
  <2> QED
    BY <2>1, <1>1
<1> HIDE DEF mid
<1>10. LabelsFit(mid, registry)
  <2>1. LabelsFit(cl, registry) /\ DOMAIN mid = DOMAIN cl
    BY <1>1, <1>9 DEF GrowthInv
  <2>2. \A d \in DOMAIN cl : mid[d].label = cl[d].label
    BY <1>1, <1>3, <1>9
  <2> QED
    BY <2>1, <2>2, SameLabels
<1>11. SeatsFit(mid, clusters, stage')
  <2>1. SeatsFit(cl, cluster, stage) /\ c \in DOMAIN cl /\ None \notin DOMAIN cl
    BY <1>1 DEF GrowthInv
  <2>2. DOMAIN mid = DOMAIN cl /\ \A d \in DOMAIN cl : d # c => mid[d] = cl[d]
    BY <1>1, <1>9
  <2>3. mid[c].label = cl[c].label /\ mid[c].vc = cl[c].vc /\ mid[c].vs = cl[c].vs \cup {p}
    BY <1>3, <1>9
  <2> QED
    BY <2>1, <2>2, <2>3, <1>5, <1>6, <1>8, JoinSeats
<1>12. /\ \A d \in 1..n : cl[d].vc \subseteq mid[d].vc /\ Members(d) \subseteq mid[d].vc \cup mid[d].vs
       /\ p \in mid[c].vc \cup mid[c].vs
  BY <1>1, <1>3, <1>9 DEF Members
<1>13. \A d \in 1..n : \A x \in Peers : mid[d].freq[x] = IF d = c /\ x = p THEN 0 ELSE cl[d].freq[x]
  BY <1>1, <1>3, <1>9
<1>14. CASE /\ cl' \in FixAllRT(mid, registry)
            /\ cluster' = clusters
            /\ UNCHANGED <<registry, crashed>>
  <2>1. /\ DOMAIN cl' = DOMAIN mid /\ LabelsFit(cl', registry) /\ TablesFit(cl')
        /\ \A d \in 1..n : SameButTables(cl'[d], mid[d])
    BY <1>9, <1>10, <1>14, FixAllFits
  <2>2. SeatsFit(cl', cluster', stage')
    <3>1. SeatsFit(cl', clusters, stage')
      BY <1>9, <1>11, <2>1, SameSeats DEF SameButTables
    <3> QED
      BY <3>1, <1>14
  <2>3. Clusters' = 1..n
    BY <1>9, <2>1 DEF Clusters
  <2>4. CountsEffect(p, c, 0)
    BY <1>1, <1>13, <2>1, <2>3 DEF CountsEffect, SameButTables
  <2>5. SeatsEffect(p)
    <3>1. \A x \in Peers \ {p} : cluster'[x] = None <=> cluster[x] = None
      BY <1>5, <1>14
    <3> QED
      BY <3>1, <1>1, <1>6, <1>12, <2>1, <2>3 DEF SeatsEffect, SameButTables
  <2>6. p \in cl'[c].vc \cup cl'[c].vs
    BY <1>1, <1>12, <2>1 DEF SameButTables
  <2> QED
    BY <1>1, <1>14, <2>1, <2>2, <2>3, <2>4, <2>5, <2>6 DEF AddGrowth, GrowthInv
<1>15. CASE IsSplit(old) /\ Split(c, old, clusters, types)
  <2> DEFINE new == n + 1
  <2>1. Len(old.label) + 1 # M
    BY <1>15 DEF IsSplit
  <2>a. /\ Inv /\ c \in Clusters /\ old \in Records(Len(cl)) /\ Fitting(old, c)
        /\ Split(c, old, clusters, types)
    BY <1>1, <1>3, <1>4, <1>15
  <2>b. PICK cs : Halved(cs, c, old, clusters)
    BY <2>1, <2>a, SplitForm, ZenonT(30)
  <2>2. /\ WellFormed(cs) /\ Len(cs) = new /\ cl' \in FixAllRT(cs, registry')
        /\ IsHalf(old, cs[c], 0) /\ IsHalf(old, cs[new], 1)
        /\ cs[c].freq = old.freq /\ cs[new].freq = [x \in Peers |-> 0]
        /\ \A d \in (1..n) \ {c} : cs[d] = cl[d]
        /\ \A q \in Peers : cluster'[q] = IF q \in cs[new].vc \cup cs[new].vs THEN new
                                          ELSE clusters[q]
    BY <2>b DEF Halved
  <2>3. /\ registry' = SplitRegistry(registry, old.label, Half(old, 0), Half(old, 1), c, new)
        /\ crashed' = (\E b \in Bit : Cardinality(HalfCore(old, b)) < SMin)
    BY <2>1, <2>a, SplitForm, ZenonT(30)
  <2>4. new \notin 1..n /\ DOMAIN cs = (1..n) \cup {new} /\ new # None /\ new # c
    <3>1. DOMAIN cs = 1..new
      BY <2>2, WellFormedType
    <3> QED
      BY <1>1, <3>1, NoneAssumption
  <2> HIDE DEF new
  <2>5. SplitInto(mid, cs, c, new)
    BY <1>9, <2>2, <2>4 DEF SplitInto
  <2>6. LabelsFit(cs, registry')
    <3>1. old.label \in Seq(Bit) /\ Len(old.label) < M
      BY <1>1, <1>3, RecordFields, LabelType
    <3>2. registry' = SplitRegistry(registry, mid[c].label, Half(mid[c], 0), Half(mid[c], 1), c, new)
      BY <1>9, <2>3
    <3>3. c \in DOMAIN mid /\ mid[c].label \in Seq(Bit) /\ Len(mid[c].label) < M
      BY <1>1, <1>9, <3>1
    <3> QED
      BY <1>10, <2>5, <3>2, <3>3, SplitLabelsFit
  <2>7. /\ SeatsFit(cs, cluster', stage')
        /\ \A b \in Bit : Cardinality(HalfCore(old, b)) = SMin
        /\ mid[c].vc \subseteq cs[c].vc \cup cs[new].vc
        /\ mid[c].vc \cup mid[c].vs \subseteq (cs[c].vc \cup cs[c].vs) \cup (cs[new].vc \cup cs[new].vs)
    <3>1. c \in DOMAIN mid /\ mid[c] \in Records(n) /\ IsSplit(mid[c]) /\ None \notin DOMAIN mid
      BY <1>1, <1>3, <1>9, <1>15
    <3>2. \A x \in Peers : cluster'[x] = IF x \in cs[new].vc \cup cs[new].vs THEN new ELSE clusters[x]
      BY <2>2
    <3>3. /\ SeatsFit(cs, cluster', stage')
          /\ \A b \in Bit : Cardinality(HalfCore(mid[c], b)) = SMin
          /\ mid[c].vc \subseteq cs[c].vc \cup cs[new].vc
          /\ mid[c].vc \cup mid[c].vs \subseteq (cs[c].vc \cup cs[c].vs) \cup (cs[new].vc \cup cs[new].vs)
      BY <1>1, <1>11, <2>4, <2>5, <3>1, <3>2, SplitSeats
    <3> QED
      BY <1>9, <3>3
  <2>8. ~crashed'
    <3>1. ~(SMin < SMin)
      BY SizeAssumption
    <3> QED
      BY <2>3, <2>7, <3>1
  <2>9. /\ DOMAIN cl' = DOMAIN cs /\ LabelsFit(cl', registry') /\ TablesFit(cl')
        /\ \A d \in DOMAIN cs : SameButTables(cl'[d], cs[d])
    BY <2>2, <2>6, FixAllFits
  <2>10. SeatsFit(cl', cluster', stage')
    BY <2>7, <2>9, SameSeats DEF SameButTables
  <2>11. Clusters' = (1..n) \cup {new}
    BY <2>4, <2>9 DEF Clusters
  <2>12. CountsEffect(p, c, 0)
    <3>1. \A d \in 1..n : \A x \in Peers : cl'[d].freq[x] = mid[d].freq[x]
      BY <1>1, <1>9, <2>2, <2>4, <2>9 DEF SameButTables
    <3>2. \A x \in Peers : cl'[new].freq[x] = 0
      BY <2>2, <2>4, <2>9 DEF SameButTables
    <3>3. None \notin Clusters'
      BY <1>1, <2>4, <2>11
    <3> QED
      BY <1>1, <1>13, <2>11, <3>1, <3>2, <3>3 DEF CountsEffect
  <2>13. ASSUME NEW d \in 1..n
         PROVE  /\ \A x \in mid[d].vc : \E e \in Clusters' : x \in cl'[e].vc
                /\ \A x \in mid[d].vc \cup mid[d].vs : \E e \in Clusters' : x \in cl'[e].vc \cup cl'[e].vs
    <3>1. /\ cl'[d].vc = cs[d].vc /\ cl'[d].vs = cs[d].vs
          /\ cl'[new].vc = cs[new].vc /\ cl'[new].vs = cs[new].vs
          /\ d \in Clusters' /\ new \in Clusters'
      BY <2>4, <2>9, <2>11 DEF SameButTables
    <3>2. CASE d = c
      BY <2>7, <3>1, <3>2
    <3>3. CASE d # c
      <4>1. cs[d] = mid[d]
        BY <1>9, <2>2, <3>3
      <4> QED
        BY <3>1, <4>1
    <3> QED
      BY <3>2, <3>3
  <2>14. SeatsEffect(p)
    <3>1. \A x \in Peers \ {p} : cluster'[x] = None <=> cluster[x] = None
      <4>1. ASSUME NEW x \in Peers \ {p} PROVE cluster'[x] = None <=> cluster[x] = None
        <5>1. CASE x \in cs[new].vc \cup cs[new].vs
          <6>1. cluster'[x] = new
            BY <2>2, <5>1
          <6>2. x \in mid[c].vc \cup mid[c].vs
            <7>1. IsHalf(mid[c], cs[new], 1)
              BY <1>9, <2>2
            <7> QED
              BY <5>1, <7>1, HalfCoreType DEF IsHalf
          <6>3. clusters[x] = c
            BY <1>1, <1>9, <1>11, <6>2 DEF SeatsFit
          <6> QED
            BY <1>1, <1>5, <2>4, <6>1, <6>3
        <5>2. CASE x \notin cs[new].vc \cup cs[new].vs
          BY <1>5, <2>2, <5>2
        <5> QED
          BY <5>1, <5>2
      <4> QED
        BY <4>1
    <3>2. \A d \in 1..n : \A x \in cl[d].vc : \E e \in Clusters' : x \in cl'[e].vc
      BY <1>12, <2>13
    <3>3. \A d \in 1..n : \A x \in Members(d) : \E e \in Clusters' : x \in cl'[e].vc \cup cl'[e].vs
      BY <1>12, <2>13
    <3> QED
      BY <1>1, <1>6, <3>1, <3>2, <3>3 DEF SeatsEffect
  <2>15. \E e \in Clusters' : p \in cl'[e].vc \cup cl'[e].vs
    BY <1>1, <1>12, <2>13
  <2> QED
    BY <2>8, <2>9, <2>10, <2>12, <2>14, <2>15 DEF AddGrowth
<1> QED
  BY <1>7, <1>14, <1>15
-----------------------------------------------------------------------------
(* A call of Add is over, and the calls for the peer are counted still. *)
LEMMA AddCallsFit ==
    ASSUME Inv, GrowthInv, NEW q \in Peers, NEW p \in Peers, NEW c \in Clusters,
           <<q, p, c>> \in adds, adds' = adds \ {<<q, p, c>>}, UNCHANGED spares,
           NEW k, AddGrowth(p, c, k),
           NEW b, Counted(cl', cluster'[p], stage'[p], Callers(spares, adds, p) \ {q}, p, b)
    PROVE  /\ CallsFit(cl', cluster', stage', spares', adds')
           /\ Callers(spares', adds', p) = Callers(spares, adds, p) \ {q}
<1> DEFINE over == <<q, p, c>>
<1>1. /\ \A call \in adds : <<call[1], call[2]>> \notin spares
      /\ \A call, other \in adds : call[1] = other[1] /\ call[2] = other[2] => call = other
      /\ \A x \in Peers : \E by : Counted(cl, cluster[x], stage[x], Callers(spares, adds, x), x, by)
  BY DEF GrowthInv, CallsFit
<1>2. over \in adds /\ over[1] = q /\ over[2] = p
  OBVIOUS
<1> HIDE DEF over
<1>3. /\ Callers(spares, adds \ {over}, p) = Callers(spares, adds, p) \ {q}
      /\ \A x \in Peers \ {p} : Callers(spares, adds \ {over}, x) = Callers(spares, adds, x)
  <2>1. CallsApart(spares, adds)
    BY <1>1 DEF CallsApart
  <2>2. over \in adds /\ over[1] \in Peers
    BY <1>2
  <2>3. CallersWithout(spares, adds, over)
    BY <2>1, <2>2, CallOver
  <2> QED
    BY <1>2, <2>3 DEF CallersWithout
<1>4. adds' = adds \ {over} /\ spares' = spares
  BY DEF over
<1>5. ASSUME NEW x \in Peers
      PROVE  \E by : Counted(cl', cluster'[x], stage'[x], Callers(spares', adds', x), x, by)
  <2>1. CASE x = p
    BY <2>1, <1>3, <1>4
  <2>2. CASE x # p
    <3>1. PICK by : Counted(cl, cluster[x], stage[x], Callers(spares, adds, x), x, by)
      BY <1>1
    <3>2. /\ DOMAIN cl \subseteq DOMAIN cl' /\ None \notin DOMAIN cl'
          /\ \A d \in DOMAIN cl : cl'[d].freq[x] = cl[d].freq[x]
          /\ \A d \in DOMAIN cl' \ DOMAIN cl : cl'[d].freq[x] = 0
      BY <2>2 DEF AddGrowth, CountsEffect, Clusters
    <3>3. /\ cluster'[x] = None <=> cluster[x] = None
          /\ stage'[x] = "out" <=> stage[x] = "out"
      BY <2>2 DEF AddGrowth, SeatsEffect
    <3>4. Counted(cl', cluster'[x], stage'[x], Callers(spares, adds, x), x, by)
      BY <3>1, <3>2, <3>3, CountsSame
    <3>5. Callers(spares', adds', x) = Callers(spares, adds, x)
      BY <2>2, <1>3, <1>4
    <3> QED
      BY <3>4, <3>5
  <2> QED
    BY <2>1, <2>2
<1> QED
  BY <1>1, <1>3, <1>4, <1>5 DEF CallsFit

(* What a call of Add has done for its peer. *)
Outcome(q, p, c) ==
    \/ \E e \in Clusters' : p \in cl'[e].vc \cup cl'[e].vs
    \/ ~IsPrefixOf(cl[c].label, p)
    \/ \E by : /\ Counted(cl', cluster'[p], stage'[p], Callers(spares', adds', p), p, by)
               /\ by[q] = c

LEMMA AddGrows ==
    ASSUME Inv, GrowthInv, NEW q \in Peers, NEW p \in Peers, NEW c \in Clusters, Add(q, p, c)
    PROVE  GrowthInv' /\ SeatsEffect(p) /\ Outcome(q, p, c)
<1> DEFINE callers == Callers(spares, adds, p)
<1>1. /\ Len(cl) \in Nat /\ c \in 1..Len(cl) /\ WellFormed(cl) /\ Clusters = 1..Len(cl)
      /\ None \notin DOMAIN cl /\ c \in DOMAIN cl /\ DOMAIN cl = 1..Len(cl)
  BY RegistryType DEF Inv, Clusters
<1>2. /\ <<q, p, c>> \in adds /\ adds' = adds \ {<<q, p, c>>} /\ UNCHANGED spares
      /\ AddIgnored(p, c) \/ AddElsewhere(p, c) \/ AddSpare(p, c)
  BY DEF Add
<1>3. PICK by : Counted(cl, cluster[p], stage[p], callers, p, by)
  BY DEF GrowthInv, CallsFit
<1>4. q \in callers /\ callers \in SUBSET Peers
  BY <1>2 DEF Callers
<1> HIDE DEF callers
<1>5. ASSUME NEW k, AddGrowth(p, c, k),
             NEW b, Counted(cl', cluster'[p], stage'[p], callers \ {q}, p, b)
      PROVE  /\ GrowthInv' /\ SeatsEffect(p)
             /\ Callers(spares', adds', p) = callers \ {q}
  <2>1. /\ CallsFit(cl', cluster', stage', spares', adds')
        /\ Callers(spares', adds', p) = callers \ {q}
    BY <1>2, <1>5, AddCallsFit DEF callers
  <2> QED
    BY <1>5, <2>1 DEF AddGrowth, GrowthInv
<1>6. CASE AddIgnored(p, c)
  <2> DEFINE b == [by EXCEPT ![q] = c]
  <2>1. AddGrowth(p, c, cl[c].freq[p] + 1)
    BY <1>6, IgnoredGrows
  <2>2. /\ DOMAIN cl' = DOMAIN cl /\ UNCHANGED <<cluster, stage>>
    BY <1>6 DEF AddIgnored, peerVars
  <2>3. /\ cl'[c].freq[p] = cl[c].freq[p] + 1
        /\ \A d \in DOMAIN cl \ {c} : cl'[d].freq[p] = cl[d].freq[p]
    BY <2>1 DEF AddGrowth, CountsEffect, Clusters
  <2>4. Counted(cl', cluster[p], stage[p], callers \ {q}, p, b) /\ b[q] = c
    <3>1. Recount(cl, cl', c, p, cl[c].freq[p] + 1)
      BY <1>1, <2>2, <2>3 DEF Recount
    <3>2. DOMAIN cl' = DOMAIN cl
      BY <2>2
    <3>3. Counted(cl', cluster[p], stage[p], callers \ {q}, p, [by EXCEPT ![q] = c])
      BY <1>3, <1>4, <3>1, <3>2, CountsOneMore
    <3>4. [by EXCEPT ![q] = c][q] = c
      BY <1>3 DEF Counted
    <3> QED
      BY <3>3, <3>4
  <2> HIDE DEF b
  <2>5. Counted(cl', cluster'[p], stage'[p], callers \ {q}, p, b)
    BY <2>2, <2>4
  <2>6. GrowthInv' /\ SeatsEffect(p) /\ Callers(spares', adds', p) = callers \ {q}
    BY <1>5, <2>1, <2>5
  <2> QED
    BY <2>4, <2>5, <2>6 DEF Outcome
<1>7. CASE Enough(c, p)
  <2>1. cl[c].freq[p] = SafteyValue
    <3>1. cl[c] \in Records(Len(cl))
      BY <1>1, WellFormedType
    <3>2. cl[c].freq \in [Peers -> 0..SafteyValue] /\ SafteyValue \in Nat
      BY <1>1, <3>1, RecordFields, SizeAssumption
    <3>3. cl[c].freq[p] \in 0..SafteyValue
      BY <3>2
    <3> QED
      BY <1>7, <3>2, <3>3 DEF Enough
  <2>2. cluster[p] = None /\ stage[p] # "out"
    <3> DEFINE ds == Recounted(cl, c, p, 0)
    <3>1. 0 \in 0..SafteyValue
      BY SizeAssumption
    <3>2. WellFormed(ds) /\ Len(ds) = Len(cl)
      BY <1>1, <3>1, RecountedType
    <3>3. ds[c].freq[p] = 0 /\ \A d \in (1..Len(cl)) \ {c} : ds[d] = cl[d]
      BY <1>1, RecountedCount
    <3> HIDE DEF ds
    <3>4. DOMAIN ds = DOMAIN cl
      BY <1>1, <3>2, WellFormedType
    <3>5. Recount(cl, ds, c, p, 0)
      BY <1>1, <3>3, <3>4 DEF Recount
    <3>6. Due(cluster[p], stage[p])
      BY <1>3, <1>4, <2>1, <3>5, CountsSpent
    <3> QED
      BY <3>6 DEF Due
  <2>3. ASSUME AddGrowth(p, c, 0)
        PROVE  GrowthInv' /\ SeatsEffect(p)
    <3>1. Recount(cl, cl', c, p, 0)
      BY <1>1, <2>3 DEF AddGrowth, CountsEffect, Clusters, Recount
    <3>2. stage'[p] # "out"
      BY <2>2, <2>3 DEF AddGrowth, SeatsEffect
    <3>a. Settled(cl', callers \ {q}, p)
      BY <1>3, <1>4, <2>1, <3>1, CountsSpent
    <3>3. PICK b : \A home, st : st # "out" => Counted(cl', home, st, callers \ {q}, p, b)
      BY <3>a DEF Settled
    <3>4. Counted(cl', cluster'[p], stage'[p], callers \ {q}, p, b)
      BY <3>2, <3>3
    <3> QED
      BY <1>5, <2>3, <3>4
  <2>4. CASE AddElsewhere(p, c)
    <3>1. AddGrowth(p, c, 0)
      BY <2>4, ElsewhereGrows
    <3>2. ~IsPrefixOf(cl[c].label, p)
      BY <2>4 DEF AddElsewhere
    <3> QED
      BY <2>3, <3>1, <3>2 DEF Outcome
  <2>5. CASE AddSpare(p, c)
    <3>1. AddGrowth(p, c, 0) /\ \E e \in Clusters' : p \in cl'[e].vc \cup cl'[e].vs
      BY <2>2, <2>5, SpareGrows
    <3> QED
      BY <2>3, <3>1 DEF Outcome
  <2> QED
    BY <1>2, <1>7, <2>4, <2>5 DEF AddIgnored
<1> QED
  BY <1>2, <1>6, <1>7 DEF AddElsewhere, AddSpare
-----------------------------------------------------------------------------
(* A join: as many events as there are core peers, and none was under way. *)
LEMMA JoinGrows ==
    ASSUME Inv, GrowthInv, NEW p \in Joiners, Join(p)
    PROVE  GrowthInv'
<1>1. /\ UNCHANGED <<cl, registry, cluster, adds, crashed>>
      /\ stage[p] = "out" /\ p \in Peers /\ \A x \in Peers : stage'[x] = IF x = p THEN "asked" ELSE stage[x]
  BY DEF Join, clusterVars, Peers, Inv, StateType
<1>2. PICK c \in Live : spares' = spares \cup (cl[c].vc \X {p})
  BY DEF Join
<1>3. /\ c \in DOMAIN cl /\ cl[c].vc \in SUBSET Peers /\ Cardinality(cl[c].vc) = SMin
      /\ None \notin DOMAIN cl
  <2>1. c \in 1..Len(cl) /\ DOMAIN cl = 1..Len(cl) /\ None \notin DOMAIN cl /\ WellFormed(cl)
    BY RegistryType DEF Live, Inv, Clusters
  <2>2. cl[c] \in Records(Len(cl)) /\ Len(cl) \in Nat
    BY <2>1, WellFormedType
  <2>3. cl[c].vc \subseteq Peers
    BY <2>2, RecordFields
  <2>4. Cardinality(cl[c].vc) = SMin
    BY <2>1 DEF GrowthInv, SeatsFit
  <2> QED
    BY <2>1, <2>3, <2>4
<1>4. SeatsFit(cl, cluster, stage')
  <2>1. SeatsFit(cl, cluster, stage)
    BY DEF GrowthInv
  <2>2. \A x \in Peers : stage[x] # "out" => stage'[x] # "out"
    BY <1>1
  <2>3. \A x \in Peers : stage'[x] = "serving" => stage[x] = "serving"
    BY <1>1
  <2> QED
    BY <2>1, <2>2, <2>3 DEF SeatsFit
<1>5. cluster[p] = None
  BY <1>1 DEF GrowthInv, SeatsFit
<1> DEFINE callers == Callers(spares, adds, p)
<1>6. PICK by : Counted(cl, cluster[p], stage[p], callers, p, by)
  BY <1>1 DEF GrowthInv, CallsFit
<1>7. callers = {} /\ \A x \in Peers : by[x] = None
  <2> DEFINE H == Heard(callers, by)
  <2>1. Quota(cluster[p], stage[p], Cardinality(H))
    BY <1>6 DEF Counted
  <2>2. Cardinality(H) = 0
    BY <1>1, <1>5, <2>1 DEF Quota
  <2>3. H \in SUBSET Peers
    BY DEF Heard, Callers
  <2> HIDE DEF H
  <2>4. H = {}
    BY <2>2, <2>3, FinitePeers, FS_EmptySet
  <2> QED
    BY <2>4 DEF H, Heard
<1>8. Callers(spares', adds', p) = cl[c].vc
  BY <1>1, <1>2, <1>3, <1>7 DEF Callers
<1>9. \A x \in Peers \ {p} : Callers(spares', adds', x) = Callers(spares, adds, x)
  BY <1>1, <1>2 DEF Callers
<1>10. Counted(cl, None, "asked", cl[c].vc, p, by)
  <2>1. Heard(cl[c].vc, by) = cl[c].vc
    BY <1>7 DEF Heard
  <2>2. Quota(None, "asked", Cardinality(Heard(cl[c].vc, by)))
    BY <1>3, <2>1 DEF Quota
  <2>3. \A q \in cl[c].vc : by[q] = None
    BY <1>3, <1>7
  <2>4. /\ by \in [Peers -> DOMAIN cl \cup {None}]
        /\ \A d \in DOMAIN cl : cl[d].freq[p] = Cardinality({q \in Peers : by[q] = d})
    BY <1>6 DEF Counted
  <2> QED
    BY <2>2, <2>3, <2>4 DEF Counted
<1>11. ASSUME NEW x \in Peers
       PROVE  \E b : Counted(cl', cluster'[x], stage'[x], Callers(spares', adds', x), x, b)
  <2>1. CASE x = p
    BY <1>1, <1>5, <1>8, <1>10, <2>1
  <2>2. CASE x # p
    <3>1. PICK b : Counted(cl, cluster[x], stage[x], Callers(spares, adds, x), x, b)
      BY DEF GrowthInv, CallsFit
    <3> QED
      BY <1>1, <1>9, <2>2, <3>1
  <2> QED
    BY <2>1, <2>2
<1>12. \A call \in adds' : <<call[1], call[2]>> \notin spares'
  <2>1. ASSUME NEW call \in adds PROVE <<call[1], call[2]>> \notin spares'
    <3>1. <<call[1], call[2]>> \notin spares /\ call[1] \in Peers
      BY DEF GrowthInv, CallsFit, Inv, StateType
    <3>2. call[2] # p
      BY <1>7, <3>1 DEF Callers
    <3> QED
      BY <1>2, <3>1, <3>2
  <2> QED
    BY <1>1, <2>1
<1>13. CallsFit(cl', cluster', stage', spares', adds')
  <2>1. \A call, other \in adds' : call[1] = other[1] /\ call[2] = other[2] => call = other
    BY <1>1 DEF GrowthInv, CallsFit
  <2> QED
    BY <1>11, <1>12, <2>1 DEF CallsFit
<1> QED
  BY <1>1, <1>4, <1>13 DEF GrowthInv

LEMMA AwaitReadyGrows ==
    ASSUME Inv, GrowthInv, NEW p \in Joiners, AwaitReady(p)
    PROVE  GrowthInv'
<1>1. /\ UNCHANGED <<cl, registry, cluster, spares, adds, crashed>>
      /\ \A x \in Peers : /\ stage'[x] = "out" <=> stage[x] = "out"
                          /\ stage'[x] = "serving" => stage[x] = "serving"
  BY DEF AwaitReady, clusterVars, callVars, Inv, StateType
<1>2. SeatsFit(cl, cluster, stage')
  BY <1>1 DEF GrowthInv, SeatsFit
<1>3. ASSUME NEW x \in Peers
      PROVE  \E b : Counted(cl', cluster'[x], stage'[x], Callers(spares', adds', x), x, b)
  <2>1. PICK b : Counted(cl, cluster[x], stage[x], Callers(spares, adds, x), x, b)
    BY DEF GrowthInv, CallsFit
  <2>2. Counted(cl, cluster[x], stage'[x], Callers(spares, adds, x), x, b)
    BY <1>1, <2>1 DEF Counted, Quota
  <2> QED
    BY <1>1, <2>2
<1>4. CallsFit(cl', cluster', stage', spares', adds')
  <2>1. /\ \A call \in adds' : <<call[1], call[2]>> \notin spares'
        /\ \A call, other \in adds' : call[1] = other[1] /\ call[2] = other[2] => call = other
    BY <1>1 DEF GrowthInv, CallsFit
  <2> QED
    BY <1>3, <2>1 DEF CallsFit
<1> QED
  BY <1>1, <1>2, <1>4 DEF GrowthInv

(* An event fires: it is dropped if p is a spare peer, and waits for the mutex otherwise. *)
LEMMA FireJoinSpareGrows ==
    ASSUME Inv, GrowthInv, NEW q \in Peers, NEW p \in Peers, FireJoinSpare(q, p)
    PROVE  GrowthInv'
<1> DEFINE c == cluster[q]
           callers == Callers(spares, adds, p)
<1>1. /\ UNCHANGED <<cl, registry, cluster, stage, crashed>>
      /\ <<q, p>> \in spares /\ spares' = spares \ {<<q, p>>}
      /\ \/ p \in cl[c].vs /\ adds' = adds
         \/ p \notin cl[c].vs /\ adds' = adds \cup {<<q, p, c>>}
  BY DEF FireJoinSpare, clusterVars, peerVars
<1>2. c \in DOMAIN cl /\ None \notin DOMAIN cl
  <2>1. cluster[q] # None /\ cluster[q] \in Clusters \cup {None}
    BY <1>1 DEF Inv, StateType, MembersInv
  <2> QED
    BY <2>1, RegistryType DEF Inv, Clusters
<1>3. /\ \A call \in adds : <<call[1], call[2]>> \notin spares
      /\ \A call, other \in adds : call[1] = other[1] /\ call[2] = other[2] => call = other
  BY DEF GrowthInv, CallsFit
<1> HIDE DEF c
<1>4. \A x \in Peers \ {p} : Callers(spares', adds', x) = Callers(spares, adds, x)
  BY <1>1 DEF Callers
<1>5. PICK by : Counted(cl, cluster[p], stage[p], callers, p, by)
  BY DEF GrowthInv, CallsFit
<1>6. \E b : Counted(cl, cluster[p], stage[p], Callers(spares', adds', p), p, b)
  <2>1. CASE p \in cl[c].vs /\ adds' = adds
    <3>1. Callers(spares', adds', p) = callers \ {q} /\ q \in callers
      BY <1>1, <1>3, <2>1 DEF Callers
    <3>2. cluster[p] # None
      BY <1>2, <2>1 DEF GrowthInv, SeatsFit
    <3> DEFINE H == Heard(callers, by)
               H2 == Heard(callers \ {q}, by)
    <3>3. H \in SUBSET Peers /\ H2 \in SUBSET H
      BY DEF Heard, Callers
    <3>4. Quota(cluster[p], stage[p], Cardinality(H))
      BY <1>5 DEF Counted
    <3> HIDE DEF H, H2
    <3>5. Cardinality(H2) \in Nat /\ Cardinality(H) \in Nat /\ Cardinality(H2) <= Cardinality(H)
      BY <3>3, FinitePeers, FS_Subset
    <3>6. Quota(cluster[p], stage[p], Cardinality(H2))
      BY <3>2, <3>4, <3>5, RestIs DEF Quota
    <3>7. \A x \in callers \ {q} : by[x] = None
      BY <1>5 DEF Counted
    <3>8. Counted(cl, cluster[p], stage[p], callers \ {q}, p, by)
      BY <1>5, <3>6, <3>7 DEF Counted, H2
    <3> QED
      BY <3>1, <3>8
  <2>2. CASE adds' = adds \cup {<<q, p, c>>}
    <3> DEFINE new == <<q, p, c>>
    <3>a. adds' = adds \cup {new} /\ new[1] = q /\ new[2] = p
      BY <2>2
    <3> HIDE DEF new
    <3>b. q \in Callers(spares', adds', p) /\ q \in callers
      BY <1>1, <3>a DEF Callers
    <3>c. ASSUME NEW x \in Peers \ {q} PROVE x \in Callers(spares', adds', p) <=> x \in callers
      <4>1. <<x, p>> \in spares' <=> <<x, p>> \in spares
        BY <1>1
      <4>2. (\E call \in adds' : call[1] = x /\ call[2] = p)
              <=> \E call \in adds : call[1] = x /\ call[2] = p
        BY <3>a
      <4> QED
        BY <4>1, <4>2 DEF Callers
    <3>1. Callers(spares', adds', p) = callers
      <4>1. Callers(spares', adds', p) \subseteq Peers /\ callers \subseteq Peers
        BY DEF Callers
      <4> HIDE DEF callers
      <4> QED
        BY <3>b, <3>c, <4>1
    <3> QED
      BY <1>5, <3>1
  <2> QED
    BY <1>1, <2>1, <2>2
<1>7. ASSUME NEW x \in Peers
      PROVE  \E b : Counted(cl', cluster'[x], stage'[x], Callers(spares', adds', x), x, b)
  <2>1. CASE x = p
    BY <1>1, <1>6, <2>1
  <2>2. CASE x # p
    <3>1. PICK b : Counted(cl, cluster[x], stage[x], Callers(spares, adds, x), x, b)
      BY DEF GrowthInv, CallsFit
    <3> QED
      BY <1>1, <1>4, <2>2, <3>1
  <2> QED
    BY <2>1, <2>2
<1>8. /\ \A call \in adds' : <<call[1], call[2]>> \notin spares'
      /\ \A call, other \in adds' : call[1] = other[1] /\ call[2] = other[2] => call = other
  BY <1>1, <1>3
<1>9. CallsFit(cl', cluster', stage', spares', adds')
  BY <1>7, <1>8 DEF CallsFit
<1> QED
  BY <1>1, <1>9 DEF GrowthInv
-----------------------------------------------------------------------------
LEMMA InitGrows == Init => GrowthInv
<1>1. SUFFICES ASSUME Init PROVE GrowthInv
  OBVIOUS
<1> DEFINE r == NewCluster(<<>>, Boot, {}, <<>>)
<1>2. /\ r.label = <<>> /\ r.vc = Boot /\ r.vs = {} /\ \A p \in Peers : r.freq[p] = 0
  BY DEF NewCluster
<1>3. cl = <<r>>
  BY <1>1 DEF Init
<1> HIDE DEF r
<1>4. DOMAIN cl = {1} /\ cl[1] = r /\ 1 # None
  BY <1>3, NoneAssumption
<1>5. /\ DOMAIN registry = {<<>>} /\ registry[<<>>] = 1 /\ ~crashed /\ spares = {} /\ adds = {}
      /\ \A p \in Peers : /\ cluster[p] = IF p \in Boot THEN 1 ELSE None
                          /\ stage[p] = IF p \in Boot THEN "serving" ELSE "out"
  BY <1>1 DEF Init
<1>6. LabelsFit(cl, registry)
  <2>1. Partitions(DOMAIN registry, M)
    BY <1>5, RootPartitions, LabelType
  <2> QED
    BY <1>2, <1>4, <1>5, <2>1 DEF LabelsFit
<1>7. TablesFit(cl)
  BY <1>2, <1>4 DEF TablesFit
<1>8. SeatsFit(cl, cluster, stage)
  <2>1. \A p \in Peers : IsPrefixOf(<<>>, p)
    BY PeerType DEF IsPrefixOf, Agree
  <2>2. Cardinality(Boot) = SMin
    BY SizeAssumption
  <2> QED
    BY <1>2, <1>4, <1>5, <2>1, <2>2 DEF SeatsFit
<1>9. CallsFit(cl, cluster, stage, spares, adds)
  <2>1. ASSUME NEW p \in Peers
        PROVE  \E by : Counted(cl, cluster[p], stage[p], Callers(spares, adds, p), p, by)
    <3> DEFINE by == [q \in Peers |-> None]
    <3>1. Callers(spares, adds, p) = {} /\ Heard({}, by) = {}
      BY <1>5 DEF Callers, Heard
    <3>2. {q \in Peers : by[q] = 1} = {}
      BY <1>4
    <3>3. by \in [Peers -> DOMAIN cl \cup {None}]
      OBVIOUS
    <3> HIDE DEF by
    <3>4. Cardinality({}) = 0
      BY FS_EmptySet
    <3>5. Quota(cluster[p], stage[p], 0)
      BY <1>4, <1>5, RestIs DEF Quota
    <3>6. \A c \in DOMAIN cl : cl[c].freq[p] = Cardinality({q \in Peers : by[q] = c})
      BY <1>2, <1>4, <3>2, <3>4
    <3> QED
      BY <3>1, <3>3, <3>4, <3>5, <3>6 DEF Counted
  <2> QED
    BY <1>5, <2>1 DEF CallsFit
<1> QED
  BY <1>5, <1>6, <1>7, <1>8, <1>9 DEF GrowthInv

(* A step after which nobody has left keeps the invariant. *)
LEMMA GrowthStep ==
    ASSUME Inv, NobodyLeft => GrowthInv, [Next]_vars, NobodyLeft'
    PROVE  NobodyLeft /\ GrowthInv'
<1>1. CASE UNCHANGED vars
  <2>1. UNCHANGED <<cl, registry, cluster, stage, spares, adds, leaving, merging, left, crashed>>
    BY <1>1 DEF vars, clusterVars, peerVars, callVars
  <2> QED
    BY <2>1 DEF NobodyLeft, GrowthInv
<1>2. ASSUME NEW p \in Joiners, Join(p) \/ AwaitReady(p) PROVE NobodyLeft /\ GrowthInv'
  <2>1. NobodyLeft
    BY <1>2 DEF Join, AwaitReady, callVars, NobodyLeft
  <2> QED
    BY <1>2, <2>1, JoinGrows, AwaitReadyGrows
<1>3. ASSUME NEW q \in Peers, NEW p \in Peers, FireJoinSpare(q, p) PROVE NobodyLeft /\ GrowthInv'
  <2>1. NobodyLeft
    BY <1>3 DEF FireJoinSpare, NobodyLeft
  <2> QED
    BY <1>3, <2>1, FireJoinSpareGrows
<1>4. ASSUME NEW call \in adds, Add(call[1], call[2], call[3]) PROVE NobodyLeft /\ GrowthInv'
  <2>1. call[1] \in Peers /\ call[2] \in Peers /\ call[3] \in Clusters
    BY DEF Inv, StateType
  <2>2. NobodyLeft
    BY <1>4 DEF Add, NobodyLeft
  <2> QED
    BY <1>4, <2>1, <2>2, AddGrows
<1>5. ASSUME NEW p \in Peers, NEW k \in Keys, Put(p, k) PROVE NobodyLeft /\ GrowthInv'
  <2>1. UNCHANGED <<cl, registry, cluster, stage, spares, adds, leaving, merging, left, crashed>>
    BY <1>5 DEF Put, clusterVars, callVars
  <2> QED
    BY <2>1 DEF NobodyLeft, GrowthInv
<1>6. ASSUME NEW p \in Peers, Leave(p) PROVE FALSE
  BY <1>6 DEF Leave, NobodyLeft
<1>7. ASSUME NEW call \in leaving, ReplaceVC(call[1], call[2]) PROVE FALSE
  BY <1>7 DEF ReplaceVC, Nominate, Shrink, BeginMerge, NobodyLeft
<1>8. ASSUME NEW m \in merging, Merge(m[1], m[2], m[3]) PROVE FALSE
  BY <1>8 DEF Merge, NobodyLeft
<1> QED
  BY <1>1, <1>2, <1>3, <1>4, <1>5, <1>6, <1>7, <1>8 DEF Next

(* What the invariant says of the registry, the members and the tables. *)
LEMMA GrowthImplies ==
    ASSUME Inv, GrowthInv
    PROVE  LabelsPartition /\ CoreFull /\ OneCluster /\ TablesNearest
<1>1. Live = Clusters /\ Clusters = DOMAIN cl /\ None \notin Clusters
  <2>1. LiveIn(registry) = DOMAIN cl
    BY AllLive DEF GrowthInv
  <2> QED
    BY <2>1, RegistryType DEF Live, LiveIn, Clusters
<1>2. LabelsPartition
  <2>1. Partitions(DOMAIN registry, M) /\ \A l \in DOMAIN registry : cl[registry[l]].label = l
    BY DEF GrowthInv, LabelsFit
  <2> QED
    BY <2>1 DEF LabelsPartition, NonInclusion, Partitions
<1>3. SeatsFit(cl, cluster, stage)
  BY DEF GrowthInv
<1>4. CoreFull
  BY <1>1, <1>3 DEF CoreFull, SeatsFit
<1>5. OneCluster
  <2>1. ASSUME NEW p \in Peers, stage[p] = "serving"
        PROVE  /\ cluster[p] \in Live /\ IsPrefixOf(cl[cluster[p]].label, p)
               /\ \A c \in Live : p \in Members(c) <=> cluster[p] = c
    BY <1>1, <1>3, <2>1 DEF SeatsFit, Members
  <2>2. \A c \in Live : cl[c].vc \cap cl[c].vs = {}
    BY <1>1, <1>3 DEF SeatsFit
  <2> QED
    BY <2>1, <2>2 DEF OneCluster
<1>6. TablesNearest
  <2>1. TablesFit(cl)
    BY DEF GrowthInv
  <2>2. \A c \in Clusters : DOMAIN cl[c].rt = 1..Len(cl[c].label)
    <3>1. ASSUME NEW c \in Clusters PROVE DOMAIN cl[c].rt = 1..Len(cl[c].label)
      <4>1. WellFormed(cl) /\ c \in 1..Len(cl) /\ Len(cl) \in Nat
        BY RegistryType DEF Inv
      <4>2. cl[c] \in Records(Len(cl)) /\ Fitting(cl[c], c)
        BY <4>1, WellFormedType DEF WellFormed
      <4> DEFINE E == (1..Len(cl)) \cup {None}
      <4>3. cl[c].rt \in Seq(E)
        BY <4>1, <4>2, RecordFields
      <4> HIDE DEF E
      <4>4. DOMAIN cl[c].rt = 1..Len(cl[c].rt)
        BY <4>3
      <4> QED
        BY <4>2, <4>4 DEF Fitting
    <3> QED
      BY <3>1
  <2>3. LabelOf(cl) = [d \in Clusters |-> cl[d].label]
    BY DEF LabelOf, Clusters
  <2> QED
    BY <1>1, <2>1, <2>2, <2>3 DEF TablesNearest, TablesFit
<1> QED
  BY <1>2, <1>4, <1>5, <1>6

LEMMA MembersStep ==
    ASSUME Inv, NobodyLeft => GrowthInv, [Next]_vars, NobodyLeft'
    PROVE  AllMembers \subseteq AllMembers' /\ AllCore \subseteq AllCore'
<1>1. NobodyLeft /\ GrowthInv /\ GrowthInv' /\ Inv'
  BY GrowthStep, InvStep
<1>2. Live = DOMAIN cl /\ Live' = DOMAIN cl'
  <2>1. LiveIn(registry) = DOMAIN cl
    BY <1>1, AllLive DEF GrowthInv
  <2>2. LiveIn(registry') = DOMAIN cl'
    BY <1>1, AllLive DEF GrowthInv
  <2> QED
    BY <2>1, <2>2 DEF Live, LiveIn
<1>3. CASE UNCHANGED <<cl, registry>>
  BY <1>3 DEF AllMembers, AllCore, Live, Members
<1>4. ASSUME NEW call \in adds, Add(call[1], call[2], call[3])
      PROVE  AllMembers \subseteq AllMembers' /\ AllCore \subseteq AllCore'
  <2>1. call[1] \in Peers /\ call[2] \in Peers /\ call[3] \in Clusters
    BY DEF Inv, StateType
  <2>2. PICK p : SeatsEffect(p)
    BY <1>1, <1>4, <2>1, AddGrows
  <2>3. /\ \A d \in DOMAIN cl : \A x \in cl[d].vc : \E e \in DOMAIN cl' : x \in cl'[e].vc
        /\ \A d \in DOMAIN cl : \A x \in cl[d].vc \cup cl[d].vs :
              \E e \in DOMAIN cl' : x \in cl'[e].vc \cup cl'[e].vs
    BY <2>2 DEF SeatsEffect, Clusters, Members
  <2> QED
    BY <1>2, <2>3 DEF AllMembers, AllCore, Members
<1>5. CASE UNCHANGED vars
  BY <1>3, <1>5 DEF vars, clusterVars
<1>6. ASSUME NEW p \in Joiners, Join(p) \/ AwaitReady(p) PROVE UNCHANGED <<cl, registry>>
  BY <1>6 DEF Join, AwaitReady, clusterVars
<1>7. ASSUME NEW q \in Peers, NEW p \in Peers, FireJoinSpare(q, p) PROVE UNCHANGED <<cl, registry>>
  BY <1>7 DEF FireJoinSpare, clusterVars
<1>8. ASSUME NEW p \in Peers, NEW k \in Keys, Put(p, k) PROVE UNCHANGED <<cl, registry>>
  BY <1>8 DEF Put, clusterVars
<1>9. \A p \in Peers : ~Leave(p)
  BY DEF Leave, NobodyLeft
<1>10. leaving = {} /\ merging = {}
  BY <1>1 DEF NobodyLeft
<1> QED
  BY <1>3, <1>4, <1>5, <1>6, <1>7, <1>8, <1>9, <1>10 DEF Next

(* A call of Add that was the last for its peer and has not made it a member. *)
LEMMA LostStep ==
    ASSUME Inv, NobodyLeft => GrowthInv, [Next]_vars, NobodyLeft',
           NEW call \in adds \ adds', NoCallFor(call[2])', call[2] \notin AllMembers'
    PROVE  LET p == call[2]
               calls(c) == cl'[c].freq[p]
           IN  \/ ~IsPrefixOf(cl[call[3]].label, p)
               \/ \E c, d \in Clusters' : c # d /\ calls(c) > 0 /\ calls(d) > 0
               \/ calls(call[3]) > 0 /\ calls(call[3]) = SMin - (SafteyValue + 1)
<1>1. NobodyLeft /\ GrowthInv /\ GrowthInv' /\ Inv'
  BY GrowthStep, InvStep
<1>2. /\ call[1] \in Peers /\ call[2] \in Peers /\ call[3] \in Clusters
      /\ call = <<call[1], call[2], call[3]>>
  BY DEF Inv, StateType
<1>3. Add(call[1], call[2], call[3])
  <2>1. ASSUME NEW other \in adds, Add(other[1], other[2], other[3])
        PROVE  Add(call[1], call[2], call[3])
    <3>1. other = <<other[1], other[2], other[3]>>
      BY DEF Inv, StateType
    <3>2. call = other
      BY <2>1, <3>1 DEF Add
    <3> QED
      BY <2>1, <3>2
  <2>2. \A p \in Joiners : ~(Join(p) \/ AwaitReady(p))
    BY DEF Join, AwaitReady, callVars
  <2>3. \A q, p \in Peers : ~FireJoinSpare(q, p)
    BY DEF FireJoinSpare
  <2>4. \A p \in Peers : (\A k \in Keys : ~Put(p, k)) /\ ~Leave(p)
    BY DEF Put, Leave, callVars
  <2>5. leaving = {} /\ merging = {}
    BY <1>1 DEF NobodyLeft
  <2>6. ~UNCHANGED vars
    BY DEF vars, callVars
  <2> QED
    BY <2>1, <2>2, <2>3, <2>4, <2>5, <2>6 DEF Next
<1>4. PICK q, p, c : q = call[1] /\ p = call[2] /\ c = call[3]
  OBVIOUS
<1>5. Outcome(q, p, c) /\ p \in Peers /\ q \in Peers
  BY <1>1, <1>2, <1>3, <1>4, AddGrows
<1>6. Live' = DOMAIN cl' /\ Clusters' = DOMAIN cl' /\ None \notin DOMAIN cl' /\ WellFormed(cl')
      /\ DOMAIN cl' = 1..Len(cl')
  <2>1. LiveIn(registry') = DOMAIN cl'
    BY <1>1, AllLive DEF GrowthInv
  <2>2. WellFormed(cl')
    BY <1>1 DEF Inv
  <2>3. DOMAIN cl' = 1..Len(cl') /\ Len(cl') \in Nat
    BY <2>2, WellFormedType
  <2> QED
    BY <2>1, <2>2, <2>3, NoneAssumption DEF Live, LiveIn, Clusters
<1>7. \A e \in DOMAIN cl' : p \notin cl'[e].vc \cup cl'[e].vs
  BY <1>4, <1>6 DEF AllMembers, Members
<1>8. CASE ~IsPrefixOf(cl[c].label, p)
  BY <1>4, <1>8
<1>9. CASE \E by : /\ Counted(cl', cluster'[p], stage'[p], Callers(spares', adds', p), p, by)
                   /\ by[q] = c
  <2>1. PICK by : /\ Counted(cl', cluster'[p], stage'[p], Callers(spares', adds', p), p, by)
                  /\ by[q] = c
    BY <1>9
  <2>2. Callers(spares', adds', p) = {}
    BY <1>4 DEF NoCallFor, Callers
  <2> DEFINE H == {x \in Peers : by[x] # None}
             at(d) == {x \in Peers : by[x] = d}
  <2>3. cluster'[p] = None
    <3>1. SeatsFit(cl', cluster', stage')
      BY <1>1 DEF GrowthInv
    <3> QED
      BY <1>5, <1>7, <3>1 DEF SeatsFit
  <2>4. /\ Quota(None, stage'[p], Cardinality(H))
        /\ \A d \in DOMAIN cl' : cl'[d].freq[p] = Cardinality(at(d))
        /\ \A x \in Peers : by[x] \in DOMAIN cl' \cup {None}
    <3>1. Heard({}, by) = H
      BY DEF Heard
    <3> QED
      BY <2>1, <2>2, <2>3, <3>1 DEF Counted
  <2>5. c \in DOMAIN cl' /\ c # None
    <3>1. Clusters \subseteq Clusters'
      <4>1. Len(cl) \in Nat /\ Clusters = 1..Len(cl)
        BY RegistryType
      <4>2. Len(cl) <= Len(cl') /\ Len(cl') \in Nat
        <5>1. AddEffect(call[3])
          BY <1>2, <1>3, AddIgnoredEffect, AddElsewhereEffect, AddSpareEffect DEF Add
        <5> QED
          BY <5>1, <1>6, WellFormedType DEF AddEffect
      <4> QED
        BY <1>6, <4>1, <4>2
    <3> QED
      BY <1>2, <1>4, <1>6, <3>1
  <2>6. ASSUME NEW x \in Peers, NEW d \in DOMAIN cl', by[x] = d PROVE cl'[d].freq[p] > 0
    <3>1. x \in at(d) /\ at(d) \in SUBSET Peers
      BY <2>6
    <3> HIDE DEF at
    <3>2. Cardinality(at(d)) \in Nat /\ Cardinality(at(d)) # 0
      BY <3>1, FinitePeers, FS_EmptySet
    <3> QED
      BY <2>4, <3>2
  <2>7. CASE \A x \in H : by[x] = c
    <3>1. H = at(c) /\ q \in H /\ H \in SUBSET Peers
      BY <1>5, <2>1, <2>5, <2>7
    <3>2. cl'[c].freq[p] = Cardinality(H)
      BY <2>4, <2>5, <3>1
    <3> HIDE DEF H, at
    <3>3. Cardinality(H) \in {SMin, Rest}
      <4>1. Cardinality(H) \in Nat /\ Cardinality(H) # 0
        BY <3>1, FinitePeers, FS_EmptySet
      <4> QED
        BY <2>4, <4>1 DEF Quota
    <3>4. cl'[c].freq[p] <= SafteyValue
      <4>1. cl'[c] \in Records(Len(cl')) /\ Len(cl') \in Nat
        BY <1>6, <2>5, WellFormedType
      <4>2. cl'[c].freq \in [Peers -> 0..SafteyValue]
        BY <4>1, RecordFields
      <4>3. cl'[c].freq[p] \in 0..SafteyValue
        BY <1>5, <4>2
      <4> QED
        BY <4>3, SizeAssumption
    <3>5. cl'[c].freq[p] = Rest
      BY <3>2, <3>3, <3>4, SizeAssumption
    <3>6. cl'[c].freq[p] > 0
      BY <1>5, <2>1, <2>5, <2>6
    <3> QED
      BY <1>4, <3>5, <3>6 DEF Rest
  <2>8. CASE \E x \in H : by[x] # c
    <3>1. PICK x \in Peers : by[x] # None /\ by[x] # c
      BY <2>8
    <3>2. PICK d \in DOMAIN cl' : by[x] = d
      BY <2>4, <3>1
    <3>3. cl'[d].freq[p] > 0 /\ cl'[c].freq[p] > 0 /\ c # d
      BY <1>5, <2>1, <2>5, <2>6, <3>1, <3>2
    <3> QED
      BY <1>4, <1>6, <2>5, <3>3
  <2> QED
    BY <2>7, <2>8
<1> QED
  BY <1>5, <1>6, <1>7, <1>8, <1>9 DEF Outcome
-----------------------------------------------------------------------------
(***************************************************************************)
(* The inductive invariant of the growth of Membership: as long as nobody  *)
(* has left or is about to, labels, tables, seats and counted calls fit,   *)
(* and neither Split nor Add has met a cluster that is not there (nil).    *)
(***************************************************************************)
THEOREM GrowthInvariant == Spec => [](NobodyLeft => GrowthInv)
<1>1. Init => (NobodyLeft => GrowthInv)
  BY InitGrows
<1>2. Inv /\ (NobodyLeft => GrowthInv) /\ [Next]_vars => (NobodyLeft => GrowthInv)'
  BY GrowthStep
<1> QED
  BY <1>1, <1>2, Invariant, PTL DEF Spec

(* While nobody leaves, the registered labels partition the IDs (Register, Update and Split). *)
THEOREM LabelsDivide == Spec => [](NobodyLeft => LabelsPartition)
<1>1. Inv /\ (NobodyLeft => GrowthInv) => (NobodyLeft => LabelsPartition)
  BY GrowthImplies
<1> QED
  BY <1>1, Invariant, GrowthInvariant, PTL

(* While nobody leaves, every cluster has SMin core peers, however joins and splits interleave. *)
THEOREM CoresFull == Spec => [](NobodyLeft => CoreFull)
<1>1. Inv /\ (NobodyLeft => GrowthInv) => (NobodyLeft => CoreFull)
  BY GrowthImplies
<1> QED
  BY <1>1, Invariant, GrowthInvariant, PTL

(***************************************************************************)
(* While nobody leaves, a peer that serves is in one cluster, its own, and *)
(* that of its ID, and nobody is core and spare at once: the calls of Add  *)
(* for one join reach the threshold once.                                  *)
(***************************************************************************)
THEOREM OneHome == Spec => [](NobodyLeft => OneCluster)
<1>1. Inv /\ (NobodyLeft => GrowthInv) => (NobodyLeft => OneCluster)
  BY GrowthImplies
<1> QED
  BY <1>1, Invariant, GrowthInvariant, PTL

(* While nobody leaves, FixAllRT leaves every entry of every table nearest to its target. *)
THEOREM TablesStayNearest == Spec => [](NobodyLeft => TablesNearest)
<1>1. Inv /\ (NobodyLeft => GrowthInv) => (NobodyLeft => TablesNearest)
  BY GrowthImplies
<1> QED
  BY <1>1, Invariant, GrowthInvariant, PTL

(* While nobody leaves, no member and no core peer is lost by Add or by Split. *)
THEOREM MembersRemain == Spec /\ []NobodyLeft => MembersStay
<1> DEFINE Stay == /\ AllMembers \ Gone' \subseteq AllMembers'
                   /\ AllCore \ Gone' \subseteq AllCore'
<1>1. Inv /\ (NobodyLeft => GrowthInv) /\ NobodyLeft' /\ [Next]_vars => [Stay]_vars
  BY MembersStep
<1> QED
  BY <1>1, Invariant, GrowthInvariant, PTL DEF Spec, MembersStay

(***************************************************************************)
(* While nobody leaves, the calls of Add for a join make the peer a member *)
(* unless a split came between them.                                       *)
(***************************************************************************)
THEOREM OnlySplitsLoseJoins == Spec /\ []NobodyLeft => JoinsLostToSplits
<1> DEFINE Lost(call) ==
             LET p == call[2]
                 calls(c) == cl'[c].freq[p]
             IN  NoCallFor(p)' /\ p \notin AllMembers' =>
                   \/ ~IsPrefixOf(cl[call[3]].label, p)
                   \/ \E c, d \in Clusters' : c # d /\ calls(c) > 0 /\ calls(d) > 0
                   \/ calls(call[3]) > 0 /\ calls(call[3]) = SMin - (SafteyValue + 1)
           LostOnly == adds' # adds => \A call \in adds \ adds' : Lost(call)
<1>1. Inv /\ (NobodyLeft => GrowthInv) /\ NobodyLeft' /\ [Next]_vars => [LostOnly]_vars
  BY LostStep
<1> QED
  BY <1>1, Invariant, GrowthInvariant, PTL DEF Spec, JoinsLostToSplits

(* Nobody leaves if the bound on who leaves is 0. *)
LEMMA NoneLeaves == MaxLeaves = 0 => (Spec => []NobodyLeft)
<1>1. SUFFICES ASSUME MaxLeaves = 0 PROVE Spec => []NobodyLeft
  OBVIOUS
<1>2. Init => NobodyLeft
  BY DEF Init, NobodyLeft
<1>3. NobodyLeft /\ [Next]_vars => NobodyLeft'
  <2>1. SUFFICES ASSUME NobodyLeft, [Next]_vars PROVE NobodyLeft'
    OBVIOUS
  <2>2. leaving = {} /\ merging = {} /\ left = {}
    BY <2>1 DEF NobodyLeft
  <2>3. \A p \in Peers : ~Leave(p)
    <3>1. Cardinality({}) = 0 /\ ~(0 + 0 + 0 < 0)
      BY FS_EmptySet
    <3> QED
      BY <1>1, <2>2, <3>1 DEF Leave
  <2>4. \A p \in Joiners : Join(p) \/ AwaitReady(p) => NobodyLeft'
    BY <2>2 DEF Join, AwaitReady, callVars, NobodyLeft
  <2>5. \A q, p \in Peers : FireJoinSpare(q, p) => NobodyLeft'
    BY <2>2 DEF FireJoinSpare, NobodyLeft
  <2>6. \A call \in adds : Add(call[1], call[2], call[3]) => NobodyLeft'
    BY <2>2 DEF Add, NobodyLeft
  <2>7. \A p \in Peers, k \in Keys : Put(p, k) => NobodyLeft'
    BY <2>2 DEF Put, callVars, NobodyLeft
  <2>8. UNCHANGED vars => NobodyLeft'
    BY <2>2 DEF vars, callVars, NobodyLeft
  <2> QED
    BY <2>1, <2>2, <2>3, <2>4, <2>5, <2>6, <2>7, <2>8 DEF Next
<1> QED
  BY <1>2, <1>3, PTL DEF Spec

(***************************************************************************)
(* A network that nobody leaves never follows a nil pointer, keeps what it *)
(* promises of its labels, cores, members and tables, and loses no member  *)
(* and no join but to a split.                                             *)
(***************************************************************************)
THEOREM GrowthCorrect ==
    MaxLeaves = 0 =>
        (Spec => /\ [](LabelsPartition /\ CoreFull /\ OneCluster /\ TablesNearest /\ ~crashed)
                 /\ MembersStay
                 /\ JoinsLostToSplits)
<1>1. SUFFICES ASSUME MaxLeaves = 0
               PROVE  Spec => /\ [](LabelsPartition /\ CoreFull /\ OneCluster /\ TablesNearest /\ ~crashed)
                              /\ MembersStay
                              /\ JoinsLostToSplits
  OBVIOUS
<1>2. Spec => []NobodyLeft
  BY <1>1, NoneLeaves
<1>3. Inv /\ (NobodyLeft => GrowthInv) /\ NobodyLeft =>
        LabelsPartition /\ CoreFull /\ OneCluster /\ TablesNearest /\ ~crashed
  BY GrowthImplies DEF GrowthInv
<1>4. Spec => [](LabelsPartition /\ CoreFull /\ OneCluster /\ TablesNearest /\ ~crashed)
  BY <1>2, <1>3, Invariant, GrowthInvariant, PTL
<1> QED
  BY <1>2, <1>4, MembersRemain, OnlySplitsLoseJoins, PTL
=============================================================================
