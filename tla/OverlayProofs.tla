---------------------------- MODULE OverlayProofs ----------------------------
(***************************************************************************)
(* What Overlay keeps for any identifiers, sizes and order of joins, and   *)
(* whatever order the messages take effect in: peers hold what they can    *)
(* hold, and a core peer is one of the SMin core peers of its cluster,     *)
(* whose label is a prefix of its identifier.  Peers take over what others *)
(* tell them of clusters, so that this has to be so for every cluster that *)
(* any table or message names.                                             *)
(*                                                                         *)
(* There is one exception.  A peer that has not joined yet and is asked to *)
(* let itself join tells itself to be the core of a cluster of its own.    *)
(* It does so once, and a quorum takes two.                                *)
(***************************************************************************)
EXTENDS Overlay, FiniteSetTheorems, NaturalsInduction, WellFoundedInduction, TLAPS

(* Clusters all of whose core peers belong there. *)
FitClusters == {c \in Cluster : \A q \in c.vc : IsPrefixOf(c.label, ID[q])}

(* Those with a whole core.  Without a label there is only the first cluster. *)
FullClusters ==
    {c \in FitClusters : Cardinality(c.vc) = SMin /\ (c.label = <<>> => c.vc = FirstCore)}

(* Those that p may be core of, and the cluster that it has before it joins. *)
FullOf(p) == {c \in FullClusters : p \in c.vc}
YoungOf(p) == {c \in FitClusters : c.label = <<>> /\ c.vc = {p}}

Pointers == {s \in SUBSET FullClusters : \A c, d \in s : c.label = d.label => c = d}

FitStates ==
    [type : {"SPARE", "CORE"}, cluster : FitClusters, rt : Seq(FullClusters),
     pt : Pointers \cup {NoMap}]

(* What p may be told to be, and what it may tell itself. *)
StatesFor(p) == {s \in FitStates : s.type = "CORE" => s.cluster \in FullOf(p)}
YoungStates(p) == {s \in FitStates : s.type = "CORE" /\ s.cluster \in YoungOf(p)}

FitMessages ==
    [kind : {"JOIN"}, undef : BOOLEAN, origin : Peers]
    \cup [kind : {"JOINSPARE", "JOINTEMP"}, origin : Peers]
    \cup [kind : {"JOINACK", "SPLIT"}, state : FitStates]
    \cup [kind : {"CONNECT"}, cluster : FullClusters]
    \cup [kind : {"DISCONNECT"}, label : Labels]

MessagesFor(p) ==
    {m \in FitMessages : m.kind \in {"JOINACK", "SPLIT"} => m.state \in StatesFor(p)}

YoungAcks(p) == [kind : {"JOINACK"}, state : YoungStates(p)]

(* Queues of such messages, with at most one of what a peer has told itself. *)
QueuesFit(queues) ==
    /\ DOMAIN queues = Peers
    /\ \A p \in Peers :
        /\ IsABag(queues[p])
        /\ DOMAIN queues[p] \subseteq MessagesFor(p) \cup YoungAcks(p)
        /\ \A m \in DOMAIN queues[p] \cap YoungAcks(p) :
            /\ queues[p][m] = 1
            /\ \A n \in DOMAIN queues[p] \cap YoungAcks(p) : n = m

(* Nobody has told itself more than before. *)
Drawn(queues) ==
    /\ QueuesFit(queues)
    /\ \A p \in Peers : DOMAIN queues[p] \cap YoungAcks(p) \subseteq DOMAIN msgq[p]

(* Messages each of whose receivers may be told it. *)
Sends == {s \in [to : SUBSET Peers, msg : FitMessages] :
            \A p \in s.to : s.msg \in MessagesFor(p)}

ViewsFit ==
    \A p \in Peers :
        /\ type[p] = "CORE" => cluster[p] \in FullOf(p)
        /\ type[p] = "UNDEF" => cluster[p] \in FullOf(p) \cup YoungOf(p)

(* Who has told itself what it is has itself among its spare peers, and will not do so again. *)
ToldOnce ==
    \A p \in Peers :
        /\ type[p] = "UNDEF" /\ cluster[p].label = <<>>
        /\ DOMAIN msgq[p] \cap YoungAcks(p) # {}
        => p \in cluster[p].vs

Inv ==
    /\ type \in [Peers -> {"UNDEF", "SPARE", "CORE"}]
    /\ cluster \in [Peers -> FitClusters]
    /\ rt \in [Peers -> Seq(FullClusters)]
    /\ pt \in [Peers -> Pointers \cup {NoMap}]
    /\ ViewsFit
    /\ QueuesFit(msgq)
    /\ ToldOnce
    /\ DOMAIN full = Peers
    /\ joining \in [Peers -> {"not yet", "waits", "over"}]
    /\ \A p \in Peers : joining[p] = "over" => type[p] # "UNDEF"
    /\ \A p \in FirstCore : joining[p] = "over"
    /\ crashed \in BOOLEAN
    /\ order \in Orders
-----------------------------------------------------------------------------
(* Numbers: a set of them has a least one. *)
LEMMA LeastNatural ==
    ASSUME NEW T \in SUBSET Nat, T # {}
    PROVE  \E n \in T : \A m \in T : n <= m
<1> DEFINE R == OpToRel(<, Nat)
<1>1. IsWellFoundedOn(R, Nat)
  BY NatLessThanWellFounded
<1>2. PICK n \in T : \A m \in T : ~(<<m, n>> \in R)
  BY <1>1, WFMin
<1>3. ASSUME NEW m \in T PROVE n <= m
  <2>1. n \in Nat /\ m \in Nat
    OBVIOUS
  <2>2. ~(m < n)
    BY <2>1, <1>2 DEF OpToRel
  <2> QED
    BY <2>1, <2>2
<1> QED
  BY <1>3

-----------------------------------------------------------------------------
(* Bit strings of one length are ordered. *)
Bits(n) == [1..n -> {0, 1}]

LEMMA LtOf ==
    ASSUME NEW n \in Nat, NEW a \in Bits(n), NEW b \in Bits(n)
    PROVE  /\ \A i \in 1..n : a[i] \in {0, 1} /\ b[i] \in {0, 1}
           /\ Lt(a, b) <=>
                \E i \in 1..n : a[i] = 0 /\ b[i] = 1 /\ \A j \in 1..(i - 1) : a[j] = b[j]
<1>1. Len(a) = n /\ Len(b) = n /\ \A i \in 1..n : a[i] \in {0, 1} /\ b[i] \in {0, 1}
  BY DEF Bits
<1>2. Longer(a, b) = n
  BY <1>1 DEF Longer
<1>3. \A i \in 1..n : At(a, i) = a[i] /\ At(b, i) = b[i]
  BY <1>1 DEF At
<1>4. \A i \in 1..n : \A j \in 1..(i - 1) : j \in 1..n
  OBVIOUS
<1>5. \A i \in 1..n : a[i] # b[i] /\ b[i] = 1 <=> a[i] = 0 /\ b[i] = 1
  BY <1>1
<1> QED
  BY <1>1, <1>2, <1>3, <1>4, <1>5 DEF Lt

LEMMA LtTotal ==
    ASSUME NEW n \in Nat, NEW a \in Bits(n), NEW b \in Bits(n), ~Lt(a, b), ~Lt(b, a)
    PROVE  a = b
<1>1. SUFFICES ASSUME a # b PROVE FALSE
  OBVIOUS
<1> DEFINE T == {i \in 1..n : a[i] # b[i]}
<1>2. T \in SUBSET Nat /\ T # {}
  BY <1>1 DEF Bits
<1>3. PICK i \in T : \A m \in T : i <= m
  BY <1>2, LeastNatural
<1>4. \A j \in 1..(i - 1) : a[j] = b[j]
  BY <1>3
<1>5. i \in 1..n /\ a[i] \in {0, 1} /\ b[i] \in {0, 1} /\ a[i] # b[i]
  BY <1>3, LtOf
<1> QED
  BY <1>4, <1>5, LtOf

LEMMA LtTransitive ==
    ASSUME NEW n \in Nat, NEW a \in Bits(n), NEW b \in Bits(n), NEW c \in Bits(n),
           Lt(a, b), Lt(b, c)
    PROVE  Lt(a, c)
<1>1. PICK i \in 1..n : a[i] = 0 /\ b[i] = 1 /\ \A j \in 1..(i - 1) : a[j] = b[j]
  BY LtOf
<1>2. PICK k \in 1..n : b[k] = 0 /\ c[k] = 1 /\ \A j \in 1..(k - 1) : b[j] = c[j]
  BY LtOf
<1>3. i \in Nat /\ k \in Nat /\ i # k /\ i >= 1 /\ k >= 1
  BY <1>1, <1>2
<1>4. CASE i < k
  <2>1. a[i] = 0 /\ c[i] = 1
    BY <1>1, <1>2, <1>3, <1>4
  <2>2. \A j \in 1..(i - 1) : a[j] = c[j]
    BY <1>1, <1>2, <1>3, <1>4
  <2> QED
    BY <2>1, <2>2, LtOf
<1>5. CASE k < i
  <2>1. a[k] = 0 /\ c[k] = 1
    BY <1>1, <1>2, <1>3, <1>5
  <2>2. \A j \in 1..(k - 1) : a[j] = c[j]
    BY <1>1, <1>2, <1>3, <1>5
  <2> QED
    BY <2>1, <2>2, LtOf
<1> QED
  BY <1>3, <1>4, <1>5

LEMMA LtIrreflexive ==
    ASSUME NEW n \in Nat, NEW a \in Bits(n)
    PROVE  ~Lt(a, a)
BY LtOf

(* Of a sequence of bit strings, one is the first of the least. *)
Best(D, n, i) ==
    /\ \A j \in 1..n : ~Lt(D[j], D[i])
    /\ \A j \in 1..(i - 1) : Lt(D[i], D[j])

LEMMA BestExists ==
    ASSUME NEW m \in Nat, NEW n \in Nat \ {0}, NEW D \in [1..n -> Bits(m)]
    PROVE  \E i \in 1..n : Best(D, n, i)
<1> DEFINE T == {k \in Nat : k \in 1..n /\ ~\E i \in 1..k : Best(D, k, i)}
<1>1. SUFFICES ASSUME T # {} PROVE FALSE
  <2>1. n \in 1..n
    OBVIOUS
  <2> QED
    BY <2>1
<1>2. PICK k \in T : \A l \in T : k <= l
  BY <1>1, LeastNatural
<1>3. k \in 1..n /\ ~\E i \in 1..k : Best(D, k, i)
  OBVIOUS
<1> HIDE DEF T
<1>4. \A i \in 1..n : D[i] \in Bits(m)
  OBVIOUS
<1>5. k # 1
  <2>1. ASSUME k = 1 PROVE Best(D, k, 1)
    <3>1. ~Lt(D[1], D[1])
      BY <1>3, <1>4, <2>1, LtIrreflexive
    <3> QED
      BY <2>1, <3>1 DEF Best
  <2> QED
    BY <1>3, <2>1
<1>6. k - 1 \in Nat /\ k - 1 \in 1..n /\ k - 1 \notin T
  BY <1>2, <1>3, <1>5
<1>7. PICK i \in 1..(k - 1) : Best(D, k - 1, i)
  BY <1>6 DEF T
<1>8. /\ i \in 1..n /\ k \in 1..k /\ i \in 1..k
      /\ \A j \in 1..k : j = k \/ j \in 1..(k - 1)
      /\ \A j \in 1..(k - 1) : j \in 1..n
  BY <1>3, <1>6
<1>9. CASE Lt(D[k], D[i])
  <2>1. ASSUME NEW j \in 1..(k - 1) PROVE Lt(D[k], D[j])
    <3>1. ~Lt(D[j], D[i])
      BY <1>7 DEF Best
    <3>2. D[j] \in Bits(m) /\ D[i] \in Bits(m) /\ D[k] \in Bits(m)
      BY <1>3, <1>4, <1>8
    <3>3. D[i] = D[j] \/ Lt(D[i], D[j])
      BY <3>1, <3>2, LtTotal
    <3> QED
      BY <1>9, <3>2, <3>3, LtTransitive
  <2>2. ASSUME NEW j \in 1..k PROVE ~Lt(D[j], D[k])
    <3>1. D[k] \in Bits(m) /\ ~Lt(D[k], D[k])
      BY <1>3, <1>4, LtIrreflexive
    <3>2. CASE j = k
      BY <3>1, <3>2
    <3>3. CASE j \in 1..(k - 1)
      <4>1. D[j] \in Bits(m) /\ Lt(D[k], D[j])
        BY <1>4, <1>8, <2>1, <3>3
      <4> QED
        BY <3>1, <4>1, LtTransitive
    <3> QED
      BY <1>8, <3>2, <3>3
  <2>3. Best(D, k, k)
    BY <2>1, <2>2 DEF Best
  <2> QED
    BY <1>3, <1>8, <2>3
<1>10. CASE ~Lt(D[k], D[i])
  <2>1. Best(D, k, i)
    BY <1>7, <1>8, <1>10 DEF Best
  <2> QED
    BY <1>3, <1>8, <2>1
<1> QED
  BY <1>9, <1>10
-----------------------------------------------------------------------------
(* Labels and clusters. *)
LEMMA LabelType ==
    ASSUME NEW l \in Labels
    PROVE  l \in Seq({0, 1}) /\ Len(l) \in 0..M /\ \A i \in 1..Len(l) : l[i] \in {0, 1}
<1>1. PICK n \in 0..M : l \in [1..n -> {0, 1}]
  BY DEF Labels
<1>2. n \in Nat
  OBVIOUS
<1> QED
  BY <1>1, <1>2

LEMMA LabelOf ==
    ASSUME NEW l \in Seq({0, 1}), Len(l) <= M
    PROVE  l \in Labels
<1>1. Len(l) \in 0..M /\ l \in [1..Len(l) -> {0, 1}]
  BY PeersAssumption
<1> QED
  BY <1>1 DEF Labels

LEMMA DistanceType ==
    ASSUME NEW id \in Bits(M), NEW l \in Labels
    PROVE  Distance(id, l) \in Bits(M)
<1>1. Len(id) = M /\ Len(l) \in 0..M /\ M \in Nat
  BY LabelType, PeersAssumption DEF Bits
<1>2. Longer(id, l) = M
  BY <1>1 DEF Longer
<1> QED
  BY <1>2 DEF Distance, Bits

LEMMA FitLabel ==
    ASSUME NEW c \in FitClusters
    PROVE  /\ c \in Cluster /\ c.label \in Labels /\ c.vc \subseteq Peers /\ c.vs \subseteq Peers
           /\ \A q \in c.vc : IsPrefixOf(c.label, ID[q])
BY DEF FitClusters, Cluster

LEMMA FullFit == FullClusters \subseteq FitClusters /\ \A p \in Peers : FullOf(p) \subseteq FullClusters
BY DEF FullClusters, FullOf

LEMMA NearestEntryIn ==
    ASSUME NEW table \in Seq(FullClusters), table # <<>>, NEW id \in Bits(M)
    PROVE  NearestEntry(table, id) \in FullClusters
<1> DEFINE D(i) == Distance(id, table[i].label)
           first(i) == /\ \A j \in DOMAIN table : Gte(D(j), D(i))
                       /\ \A j \in 1..(i - 1) : Lt(D(i), D(j))
           best == CHOOSE i \in DOMAIN table : first(i)
<1>1. Len(table) \in Nat \ {0} /\ DOMAIN table = 1..Len(table)
  OBVIOUS
<1>2. \A i \in 1..Len(table) : D(i) \in Bits(M)
  BY <1>1, FullFit, FitLabel, DistanceType
<1>3. PICK E \in [1..Len(table) -> Bits(M)] : \A i \in 1..Len(table) : E[i] = D(i)
  <2>1. [i \in 1..Len(table) |-> D(i)] \in [1..Len(table) -> Bits(M)]
    BY <1>2
  <2> QED
    BY <2>1
<1>4. M \in Nat
  BY PeersAssumption
<1>5. PICK i \in 1..Len(table) : Best(E, Len(table), i)
  BY <1>1, <1>3, <1>4, BestExists
<1> HIDE DEF D
<1>6. \A j \in 1..(i - 1) : j \in 1..Len(table)
  BY <1>1
<1>7. first(i)
  BY <1>1, <1>3, <1>5, <1>6 DEF Best, Gte
<1>8. best \in DOMAIN table
  BY <1>1, <1>5, <1>7
<1>9. NearestEntry(table, id) = table[best]
  BY DEF NearestEntry, D
<1> HIDE DEF best
<1> QED
  BY <1>8, <1>9

(* The nearest cluster is one of the table, or the own one, as it is of who is not core. *)
LEMMA ClosestIn ==
    ASSUME NEW isCore \in BOOLEAN, NEW c \in FitClusters, NEW table \in Seq(FullClusters),
           NEW id \in Bits(M),
           ~isCore \/ IsPrefixOf(c.label, id) \/ Len(table) >= Len(c.label)
    PROVE  /\ Closest(isCore, c, table, id) \in FullClusters \cup {c}
           /\ ~isCore => Closest(isCore, c, table, id) = c
<1>1. CASE ~isCore \/ c.label = <<>> \/ IsPrefixOf(c.label, id)
  BY <1>1 DEF Closest
<1>2. CASE ~(~isCore \/ c.label = <<>> \/ IsPrefixOf(c.label, id))
  <2>1. Len(c.label) \in Nat /\ Len(c.label) # 0 /\ Len(c.label) <= Len(table)
    BY <1>2, FitLabel, LabelType
  <2>2. PICK n \in Nat : n = Len(c.label)
    BY <2>1
  <2>3. SubSeq(table, 1, n) \in Seq(FullClusters) /\ Len(SubSeq(table, 1, n)) = n
    BY <2>1, <2>2
  <2>4. SubSeq(table, 1, n) # <<>>
    BY <2>1, <2>2, <2>3
  <2>5. Closest(isCore, c, table, id) = NearestEntry(SubSeq(table, 1, n), id)
    BY <1>2, <2>2 DEF Closest
  <2> QED
    BY <1>2, <2>3, <2>4, <2>5, NearestEntryIn
<1> QED
  BY <1>1, <1>2

(* The cluster with other spare peers is as fit. *)
LEMMA SparesFit ==
    ASSUME NEW c \in FitClusters, NEW s \in SUBSET Peers
    PROVE  /\ [c EXCEPT !.vs = s] \in FitClusters
           /\ [c EXCEPT !.vs = s].label = c.label /\ [c EXCEPT !.vs = s].vc = c.vc
           /\ [c EXCEPT !.vs = s].vs = s
           /\ c \in FullClusters => [c EXCEPT !.vs = s] \in FullClusters
BY DEF FullClusters, FitClusters, Cluster
-----------------------------------------------------------------------------
(* Halves. *)
LEMMA FinitePeers == \A S \in SUBSET Peers : IsFiniteSet(S) /\ Cardinality(S) \in Nat
BY PeersAssumption, FS_Subset, FS_CardinalityType

LEMMA IDType == \A p \in Peers : ID[p] \in Bits(M)
BY PeersAssumption DEF Bits

(* There are n peers with the smallest identifiers in a set that has as many. *)
LEMMA SmallestCount ==
    ASSUME NEW S \in SUBSET Peers, NEW n \in Nat, n <= Cardinality(S)
    PROVE  Cardinality(Smallest(n, S)) = n
<1> DEFINE below(q) == {r \in S : Lt(ID[r], ID[q])}
           rank == [q \in S |-> Cardinality(below(q))]
           k == Cardinality(S)
           T == Smallest(n, S)
           g == [q \in T |-> rank[q]]
<1>1. IsFiniteSet(S) /\ k \in Nat /\ M \in Nat
  BY FinitePeers, PeersAssumption
<1>2. ASSUME NEW q \in S
      PROVE  IsFiniteSet(below(q)) /\ Cardinality(below(q)) \in Nat /\ rank[q] \in 0..(k - 1)
  <2>1. below(q) \in SUBSET S /\ q \notin below(q)
    BY <1>1, IDType, LtIrreflexive
  <2>2. /\ IsFiniteSet(below(q)) /\ Cardinality(below(q)) \in Nat
        /\ Cardinality(below(q)) <= k /\ Cardinality(below(q)) # k
    BY <1>1, <2>1, FS_Subset, FS_CardinalityType
  <2> HIDE DEF below
  <2> QED
    BY <1>1, <2>2
<1>3. ASSUME NEW q \in S, NEW r \in S, Lt(ID[q], ID[r]) PROVE rank[q] < rank[r]
  <2>1. below(q) \in SUBSET below(r)
    BY <1>1, <1>3, IDType, LtTransitive
  <2>2. q \in below(r) /\ q \notin below(q)
    BY <1>1, <1>3, IDType, LtIrreflexive
  <2>3. Cardinality(below(q)) <= Cardinality(below(r)) /\ Cardinality(below(q)) # Cardinality(below(r))
    BY <1>2, <2>1, <2>2, FS_Subset
  <2> HIDE DEF below
  <2> QED
    BY <1>2, <2>3
<1> HIDE DEF below
<1>4. ASSUME NEW q \in S, NEW r \in S, rank[q] = rank[r] PROVE q = r
  <2>1. ID[q] = ID[r] \/ Lt(ID[q], ID[r]) \/ Lt(ID[r], ID[q])
    BY <1>1, IDType, LtTotal
  <2>2. rank[q] \in Int /\ rank[r] \in Int
    BY <1>2
  <2>3. ~Lt(ID[q], ID[r]) /\ ~Lt(ID[r], ID[q])
    BY <1>3, <1>4, <2>2
  <2> QED
    BY <2>1, <2>3, PeersAssumption
<1>5. rank \in Injection(S, 0..(k - 1))
  <2>1. rank \in [S -> 0..(k - 1)]
    BY <1>2
  <2> QED
    BY <1>4, <2>1 DEF Injection, IsInjective
<1>6. IsFiniteSet(0..(k - 1)) /\ Cardinality(0..(k - 1)) = k
  <2> HIDE DEF k
  <2> QED
    BY <1>1, FS_Interval
<1>7. \A i \in 0..(k - 1) : \E q \in S : rank[q] = i
  <2>1. rank \in Surjection(S, 0..(k - 1))
    BY <1>5, <1>6, FS_Injection
  <2> QED
    BY <2>1 DEF Surjection
<1>8. T = {q \in S : rank[q] < n}
  BY DEF Smallest, below
<1> HIDE DEF rank, T
<1>9. g \in [T -> 0..(n - 1)]
  BY <1>1, <1>2, <1>8
<1>10. g \in Injection(T, 0..(n - 1))
  BY <1>4, <1>8, <1>9 DEF Injection, IsInjective
<1>11. g \in Surjection(T, 0..(n - 1))
  <2>1. ASSUME NEW i \in 0..(n - 1) PROVE \E q \in T : g[q] = i
    <3>1. i \in 0..(k - 1) /\ i < n
      BY <1>1
    <3>2. PICK q \in S : rank[q] = i
      BY <1>7, <3>1
    <3> QED
      BY <1>8, <3>1, <3>2
  <2> QED
    BY <1>9, <2>1 DEF Surjection
<1>12. IsFiniteSet(0..(n - 1)) /\ Cardinality(0..(n - 1)) = n
  BY FS_Interval
<1> QED
  BY <1>10, <1>11, <1>12, FS_Injection DEF T

(***************************************************************************)
(* A half of a cluster that can be split and filled is full, and its core  *)
(* are those of the core of before that belong there, and more.            *)
(***************************************************************************)
LEMMA HalfFit ==
    ASSUME NEW c \in FitClusters, Cardinality(c.vc) <= SMin,
           CanSplit(c), ~CannotFill(c), NEW b \in {0, 1}
    PROVE  /\ Half(c, b) \in FullClusters
           /\ \A q \in c.vc : IsPrefixOf(Append(c.label, b), ID[q]) => q \in Half(c, b).vc
<1> DEFINE core == c.vc \cap InHalf(c, b)
           spare == (c.vs \cap InHalf(c, b)) \ core
           k == SMin - Cardinality(core)
           up == Smallest(k, spare)
           left == {q \in (c.vs \cap InHalf(c, b)) \ up : \A r \in up : Lt(ID[r], ID[q])}
<1>1. c.label \in Seq({0, 1}) /\ Len(c.label) \in Nat
  BY FitLabel, LabelType
<1>2. Append(c.label, b) \in Labels /\ Append(c.label, b) # <<>>
  <2>1. Len(c.label) + 2 <= M
    BY DEF CanSplit
  <2>2. Append(c.label, b) \in Seq({0, 1}) /\ Len(Append(c.label, b)) = Len(c.label) + 1
    BY <1>1
  <2>3. Len(c.label) + 1 <= M
    BY <1>1, <2>1, PeersAssumption
  <2>4. Append(c.label, b) \in Labels
    BY <2>2, <2>3, LabelOf
  <2>5. Append(c.label, b) # <<>>
    BY <1>1
  <2> QED
    BY <2>4, <2>5
<1>3. Half(c, b) = [label |-> Append(c.label, b), vc |-> core \cup up, vs |-> left]
  BY DEF Half
<1>4. /\ c.vc \subseteq Peers /\ c.vs \subseteq Peers /\ core \subseteq c.vc
      /\ core \subseteq InHalf(c, b) /\ spare \subseteq InHalf(c, b)
      /\ core \in SUBSET Peers /\ spare \in SUBSET Peers
      /\ core \cap spare = {} /\ core \cup spare = InHalf(c, b)
  BY FitLabel DEF InHalf
<1>5. up \subseteq spare /\ left \subseteq Peers
  BY <1>4 DEF Smallest
<1>6. \A q \in c.vc : IsPrefixOf(Append(c.label, b), ID[q]) => q \in core
  BY DEF InHalf
<1> HIDE DEF core, spare, left
<1>7. /\ IsFiniteSet(core) /\ IsFiniteSet(spare) /\ IsFiniteSet(c.vc)
      /\ Cardinality(core) \in Nat /\ Cardinality(spare) \in Nat /\ Cardinality(c.vc) \in Nat
  BY <1>4, FinitePeers
<1>8. Cardinality(core) <= SMin
  BY <1>4, <1>7, FS_Subset, SizesAssumption
<1>9. Cardinality(core) + Cardinality(spare) >= SMin
  <2>1. Cardinality(core \cup spare) = Cardinality(core) + Cardinality(spare) - Cardinality(core \cap spare)
    BY <1>7, FS_Union
  <2>2. Cardinality(core \cap spare) = 0
    BY <1>4, FS_EmptySet
  <2>3. ~(Cardinality(core \cup spare) < SMin)
    BY <1>4 DEF CannotFill
  <2> QED
    BY <1>7, <2>1, <2>2, <2>3, SizesAssumption
<1>10. k \in Nat /\ k <= Cardinality(spare)
  BY <1>7, <1>8, <1>9, SizesAssumption
<1>11. Cardinality(up) = k
  <2> HIDE DEF k
  <2> QED
    BY <1>4, <1>10, SmallestCount
<1> HIDE DEF up
<1>12. Cardinality(core \cup up) = SMin
  <2>1. IsFiniteSet(up) /\ core \cap up = {}
    BY <1>4, <1>5, <1>7, FS_Subset
  <2>2. Cardinality(core \cup up) = Cardinality(core) + Cardinality(up) - Cardinality(core \cap up)
    BY <1>7, <2>1, FS_Union
  <2>3. Cardinality(core \cap up) = 0
    BY <2>1, FS_EmptySet
  <2> QED
    BY <1>7, <1>11, <2>2, <2>3, SizesAssumption
<1>13. \A q \in core \cup up : IsPrefixOf(Append(c.label, b), ID[q])
  BY <1>4, <1>5 DEF InHalf
<1>14. core \cup up \subseteq Peers /\ left \subseteq Peers
  BY <1>4, <1>5
<1>15. /\ Half(c, b).label = Append(c.label, b) /\ Half(c, b).vc = core \cup up
       /\ Half(c, b) \in Cluster
  BY <1>2, <1>3, <1>14 DEF Cluster
<1>16. Half(c, b) \in FullClusters
  BY <1>2, <1>12, <1>13, <1>15 DEF FullClusters, FitClusters
<1> QED
  BY <1>6, <1>15, <1>16

LEMMA HalfLabel ==
    ASSUME NEW c \in FitClusters, CanSplit(c), NEW b \in {0, 1}
    PROVE  /\ Half(c, b).label = Append(c.label, b)
           /\ Len(Half(c, b).label) = Len(c.label) + 1
           /\ Len(c.label) + 2 \in 1..M
<1>1. c.label \in Seq({0, 1}) /\ Len(c.label) \in Nat
  BY FitLabel, LabelType
<1>2. Len(c.label) + 2 <= M
  BY DEF CanSplit
<1>3. Half(c, b).label = Append(c.label, b)
  BY DEF Half
<1> QED
  BY <1>1, <1>2, <1>3, PeersAssumption

(* A peer is in the half that its own bit says. *)
LEMMA OwnHalf ==
    ASSUME NEW p \in Peers, NEW l \in Labels, Len(l) + 2 \in 1..M
    PROVE  /\ ID[p][Len(l) + 1] \in {0, 1}
           /\ IsPrefixOf(l, ID[p]) => IsPrefixOf(Append(l, ID[p][Len(l) + 1]), ID[p])
<1>1. ID[p] \in [1..M -> {0, 1}] /\ M \in Nat /\ Len(ID[p]) = M
  BY PeersAssumption
<1>2. l \in Seq({0, 1}) /\ Len(l) \in Nat
  BY LabelType
<1>3. ID[p][Len(l) + 1] \in {0, 1}
  BY <1>1, <1>2
<1>4. ASSUME IsPrefixOf(l, ID[p]) PROVE IsPrefixOf(Append(l, ID[p][Len(l) + 1]), ID[p])
  <2> DEFINE b == ID[p][Len(l) + 1]
             a == Append(l, b)
  <2>1. Len(a) = Len(l) + 1 /\ a[Len(l) + 1] = b /\ \A i \in 1..Len(l) : a[i] = l[i]
    BY <1>2
  <2> HIDE DEF a
  <2>2. \A i \in 1..Len(a) : i \in 1..Len(l) \/ i = Len(l) + 1
    BY <1>2, <2>1
  <2>3. \A i \in 1..Len(a) : a[i] = ID[p][i]
    BY <1>4, <2>1, <2>2 DEF IsPrefixOf
  <2>4. Len(a) <= Len(ID[p])
    BY <1>1, <1>2, <2>1
  <2> QED
    BY <2>3, <2>4 DEF IsPrefixOf, a
<1> QED
  BY <1>3, <1>4

LEMMA WithPointerFit ==
    ASSUME NEW s \in Pointers, NEW c \in FullClusters
    PROVE  WithPointer(s, c) \in Pointers
BY DEF WithPointer, Pointers

LEMMA HalfTablesFit ==
    ASSUME NEW half, NEW table \in Seq(FullClusters), NEW s \in Pointers,
           NEW t \in HalfTables(half, table, s)
    PROVE  t \in Seq(FullClusters) /\ Len(t) = Len(table)
<1>1. t \in [DOMAIN table -> s \cup {table[j] : j \in DOMAIN table}]
  BY DEF HalfTables
<1>2. DOMAIN table = 1..Len(table) /\ Len(table) \in Nat
  OBVIOUS
<1>3. s \cup {table[j] : j \in DOMAIN table} \subseteq FullClusters
  BY DEF Pointers
<1> QED
  BY <1>1, <1>2, <1>3
-----------------------------------------------------------------------------
(* Messages. *)
LEMMA PointersKnown ==
    ASSUME NEW s \in Pointers \cup {NoMap}
    PROVE  Known(s) \in Pointers
BY DEF Known, Pointers

LEMMA SpareStateFit ==
    ASSUME NEW c \in FitClusters
    PROVE  SpareState(c) \in FitStates /\ SpareState(c).type = "SPARE"
<1>1. [c EXCEPT !.vs = {}] \in FitClusters
  BY SparesFit
<1>2. <<>> \in Seq(FullClusters)
  OBVIOUS
<1> QED
  BY <1>1, <1>2 DEF SpareState, FitStates

LEMMA CoreStateFit ==
    ASSUME NEW c \in FitClusters, NEW table \in Seq(FullClusters),
           NEW s \in Pointers \cup {NoMap}
    PROVE  /\ CoreState(c, table, s) \in FitStates
           /\ CoreState(c, table, s).cluster = c /\ CoreState(c, table, s).type = "CORE"
BY DEF CoreState, FitStates

LEMMA AckStateFit ==
    ASSUME NEW p \in Peers, NEW c \in FitClusters, p \in c.vc => c \in FullClusters, NEW mine,
           NEW t1 \in Seq(FullClusters), NEW s1 \in Pointers \cup {NoMap},
           NEW t2 \in Seq(FullClusters), NEW s2 \in Pointers \cup {NoMap}
    PROVE  AckState(p, c, mine, CoreState(c, t1, s1), CoreState(c, t2, s2)) \in StatesFor(p)
<1>1. CASE p \notin c.vc
  BY <1>1, SpareStateFit DEF AckState, StatesFor
<1>2. CASE p \in c.vc
  <2>1. c \in FullOf(p)
    BY <1>2 DEF FullOf
  <2>2. /\ CoreState(c, t1, s1) \in StatesFor(p)
        /\ CoreState(c, t2, s2) \in StatesFor(p)
    BY <2>1, CoreStateFit DEF StatesFor
  <2> QED
    BY <1>2, <2>2 DEF AckState
<1> QED
  BY <1>1, <1>2

LEMMA MessageTypes ==
    /\ \A p, q, r \in Peers : Join(q, r) \in MessagesFor(p)
    /\ \A p, r \in Peers : JoinSpare(r) \in MessagesFor(p) /\ JoinTemp(r) \in MessagesFor(p)
    /\ \A s \in FitStates : JoinAck(s) \in FitMessages /\ Split(s) \in FitMessages
    /\ \A p \in Peers : \A s \in StatesFor(p) :
          JoinAck(s) \in MessagesFor(p) /\ Split(s) \in MessagesFor(p)
<1>1. \A q \in Peers : (type[q] = "UNDEF") \in BOOLEAN
  OBVIOUS
<1>2. \A p, q, r \in Peers : Join(q, r) \in MessagesFor(p)
  BY <1>1 DEF Join, MessagesFor, FitMessages
<1>3. \A p, r \in Peers : JoinSpare(r) \in MessagesFor(p) /\ JoinTemp(r) \in MessagesFor(p)
  BY DEF JoinSpare, JoinTemp, MessagesFor, FitMessages
<1>4. \A s \in FitStates : JoinAck(s) \in FitMessages /\ Split(s) \in FitMessages
  BY DEF JoinAck, Split, FitMessages
<1>5. \A p \in Peers : \A s \in StatesFor(p) :
          JoinAck(s) \in MessagesFor(p) /\ Split(s) \in MessagesFor(p)
  BY <1>4 DEF JoinAck, Split, MessagesFor, StatesFor
<1> QED
  BY <1>2, <1>3, <1>4, <1>5

LEMMA InformTypes ==
    /\ \A c \in FullClusters : /\ Connect(c) \in FitMessages
                               /\ \A p : Connect(c) \in MessagesFor(p)
    /\ \A c \in FitClusters : /\ Disconnect(c) \in FitMessages
                              /\ \A p : Disconnect(c) \in MessagesFor(p)
BY FitLabel DEF Connect, Disconnect, MessagesFor, FitMessages

(* What all peers of a set may be told. *)
LEMMA ToFit ==
    ASSUME NEW S \in SUBSET Peers, NEW m \in FitMessages, \A p \in S : m \in MessagesFor(p)
    PROVE  To(S, m) \in Sends /\ <<To(S, m)>> \in Seq(Sends)
<1>1. To(S, m) \in Sends
  BY DEF To, Sends
<1> QED
  BY <1>1

LEMMA ToAllFit ==
    ASSUME NEW table \in Seq(FullClusters), NEW m \in FitMessages,
           \A p \in Peers : m \in MessagesFor(p)
    PROVE  ToAll(table, m) \in Seq(Sends)
<1>1. ASSUME NEW j \in DOMAIN table PROVE To(table[j].vc, m) \in Sends
  <2>1. table[j].vc \in SUBSET Peers
    BY FullFit, FitLabel
  <2> QED
    BY <2>1, ToFit
<1>2. DOMAIN table = 1..Len(table) /\ Len(table) \in Nat
  OBVIOUS
<1> QED
  BY <1>1, <1>2 DEF ToAll

LEMMA HalfSendsFit ==
    ASSUME NEW c \in FitClusters, NEW half \in FullClusters,
           NEW before \in Seq(FullClusters), NEW after \in Seq(FullClusters), NEW s \in Pointers
    PROVE  HalfSends(c, half, before, after, s) \in Seq(Sends)
<1> DEFINE state == CoreState(half, after, s)
           core == c.vs \cap half.vc
           rest == {q \in c.vs : IsPrefixOf(half.label, ID[q])} \ half.vc
<1>1. c.vs \subseteq Peers /\ half \in FitClusters
  BY FitLabel, FullFit
<1>2. ToAll(before, Disconnect(half)) \in Seq(Sends)
  BY <1>1, ToAllFit, InformTypes
<1>3. ToAll(after, Connect(half)) \in Seq(Sends)
  BY ToAllFit, InformTypes
<1>4. To(core, Split(state)) \in Sends
  <2>1. state \in FitStates /\ state.cluster = half
    BY <1>1, CoreStateFit
  <2>2. core \in SUBSET Peers /\ core \subseteq half.vc
    BY <1>1
  <2> HIDE DEF state, core
  <2>3. \A q \in core : state \in StatesFor(q)
    BY <2>1, <2>2 DEF StatesFor, FullOf
  <2> QED
    BY <2>1, <2>2, <2>3, MessageTypes, ToFit
<1>5. To(rest, Split(SpareState(half))) \in Sends
  <2>1. PICK spare \in FitStates : spare = SpareState(half) /\ spare.type = "SPARE"
    BY <1>1, SpareStateFit
  <2>2. rest \in SUBSET Peers
    BY <1>1
  <2> HIDE DEF rest
  <2>3. \A q \in rest : spare \in StatesFor(q)
    BY <2>1 DEF StatesFor
  <2> QED
    BY <2>1, <2>2, <2>3, MessageTypes, ToFit
<1>6. HalfSends(c, half, before, after, s) =
        ToAll(before, Disconnect(half))
        \o <<To(core, Split(state)), To(rest, Split(SpareState(half)))>>
        \o ToAll(after, Connect(half))
  BY DEF HalfSends
<1> HIDE DEF state, core, rest
<1>7. <<To(core, Split(state)), To(rest, Split(SpareState(half)))>> \in Seq(Sends)
  BY <1>4, <1>5
<1> QED
  BY <1>2, <1>3, <1>6, <1>7
-----------------------------------------------------------------------------
(* Queues. *)
LEMMA BagSum ==
    ASSUME NEW B, IsABag(B), NEW C, IsABag(C)
    PROVE  /\ IsABag(B (+) C) /\ DOMAIN (B (+) C) = DOMAIN B \cup DOMAIN C
           /\ \A e \in DOMAIN B \ DOMAIN C : (B (+) C)[e] = B[e]
           /\ \A e \in DOMAIN C \ DOMAIN B : (B (+) C)[e] = C[e]
BY DEF (+), IsABag

LEMMA BagRest ==
    ASSUME NEW B, IsABag(B), NEW C, IsABag(C)
    PROVE  /\ IsABag(B (-) C) /\ DOMAIN (B (-) C) \subseteq DOMAIN B
           /\ \A e \in DOMAIN (B (-) C) : B[e] = 1 => (B (-) C)[e] = 1
BY DEF (-), IsABag

(* No peer is told by others what only it may tell itself. *)
LEMMA YoungApart ==
    ASSUME NEW p \in Peers
    PROVE  MessagesFor(p) \cap YoungAcks(p) = {} /\ FullOf(p) \cap YoungOf(p) = {}
<1>1. ASSUME NEW c \in FullOf(p), c \in YoungOf(p) PROVE FALSE
  <2>1. Cardinality({p}) = 1
    BY FS_Singleton
  <2>2. c.vc = {p} /\ Cardinality(c.vc) = SMin
    BY <1>1 DEF FullOf, YoungOf, FullClusters
  <2>3. SMin = 1
    BY <2>1, <2>2, Zenon
  <2> QED
    BY <2>3, SizesAssumption
<1> QED
  BY <1>1 DEF MessagesFor, YoungAcks, StatesFor, YoungStates

LEMMA ReceivedBag ==
    ASSUME NEW sends \in Seq(Sends), NEW p \in Peers
    PROVE  /\ IsABag(Received(p, sends))
           /\ DOMAIN Received(p, sends) \subseteq MessagesFor(p)
<1> DEFINE mine == {i \in DOMAIN sends : p \in sends[i].to}
           told == {sends[i].msg : i \in mine}
           like(m) == {i \in mine : sends[i].msg = m}
<1>1. \A i \in DOMAIN sends : sends[i] \in Sends
  OBVIOUS
<1>2. told \subseteq MessagesFor(p)
  BY <1>1 DEF Sends
<1>3. IsFiniteSet(DOMAIN sends)
  BY FS_Interval
<1>4. ASSUME NEW m \in told PROVE Cardinality(like(m)) \in Nat \ {0}
  <2>1. PICK i \in mine : sends[i].msg = m
    OBVIOUS
  <2>2. like(m) \subseteq DOMAIN sends /\ i \in like(m)
    BY <2>1
  <2> HIDE DEF like
  <2>3. IsFiniteSet(like(m)) /\ like(m) # {}
    BY <1>3, <2>2, FS_Subset
  <2> QED
    BY <2>3, FS_CardinalityType, FS_EmptySet
<1>5. Received(p, sends) = [m \in told |-> Cardinality(like(m))]
  BY DEF Received
<1> HIDE DEF mine, told, like
<1>6. Received(p, sends) \in [told -> {n \in Nat : n > 0}] /\ DOMAIN Received(p, sends) = told
  BY <1>4, <1>5
<1> QED
  BY <1>2, <1>6 DEF IsABag

LEMMA SentFit ==
    ASSUME NEW queues, Drawn(queues), NEW sends \in Seq(Sends)
    PROVE  Drawn(Sent(queues, sends))
<1>1. ASSUME NEW p \in Peers
      PROVE  LET B == queues[p] (+) Received(p, sends)
             IN  /\ IsABag(B)
                 /\ DOMAIN B \subseteq MessagesFor(p) \cup YoungAcks(p)
                 /\ DOMAIN B \cap YoungAcks(p) = DOMAIN queues[p] \cap YoungAcks(p)
                 /\ \A m \in DOMAIN B \cap YoungAcks(p) : B[m] = queues[p][m]
  <2> DEFINE R == Received(p, sends)
             B == queues[p] (+) R
  <2>1. IsABag(R) /\ DOMAIN R \subseteq MessagesFor(p)
    BY ReceivedBag
  <2>2. IsABag(queues[p]) /\ DOMAIN queues[p] \subseteq MessagesFor(p) \cup YoungAcks(p)
    BY DEF Drawn, QueuesFit
  <2> HIDE DEF R
  <2>3. /\ IsABag(B) /\ DOMAIN B = DOMAIN queues[p] \cup DOMAIN R
        /\ \A e \in DOMAIN queues[p] \ DOMAIN R : B[e] = queues[p][e]
    BY <2>1, <2>2, BagSum
  <2> HIDE DEF B
  <2>4. \A m \in YoungAcks(p) : m \notin DOMAIN R
    BY <2>1, YoungApart
  <2>5. \A m \in DOMAIN B \cap YoungAcks(p) : m \in DOMAIN queues[p] \ DOMAIN R
    BY <2>3, <2>4
  <2>6. IsABag(B) /\ DOMAIN B \subseteq MessagesFor(p) \cup YoungAcks(p)
    BY <2>1, <2>2, <2>3
  <2>7. DOMAIN B \cap YoungAcks(p) = DOMAIN queues[p] \cap YoungAcks(p)
    BY <2>3, <2>4
  <2>8. \A m \in DOMAIN B \cap YoungAcks(p) : B[m] = queues[p][m]
    BY <2>3, <2>5
  <2> QED
    BY <2>6, <2>7, <2>8 DEF B, R
<1>2. Sent(queues, sends) = [p \in Peers |-> queues[p] (+) Received(p, sends)]
  BY DEF Sent
<1> QED
  BY <1>1, <1>2 DEF Drawn, QueuesFit

(* What is taken leaves queues that fit. *)
LEMMA TakenFit ==
    ASSUME QueuesFit(msgq), NEW p \in Peers, NEW taken, IsABag(taken)
    PROVE  Drawn([msgq EXCEPT ![p] = @ (-) taken])
<1> DEFINE B == msgq[p] (-) taken
<1>1. IsABag(msgq[p])
  BY DEF QueuesFit
<1>2. /\ IsABag(B) /\ DOMAIN B \subseteq DOMAIN msgq[p]
      /\ \A e \in DOMAIN B : msgq[p][e] = 1 => B[e] = 1
  BY <1>1, BagRest
<1> HIDE DEF B
<1>3. [msgq EXCEPT ![p] = @ (-) taken] = [msgq EXCEPT ![p] = B]
  BY DEF B
<1>4. PICK queues : queues = [msgq EXCEPT ![p] = B]
  OBVIOUS
<1>5. /\ DOMAIN queues = Peers /\ queues[p] = B
      /\ \A q \in Peers : q # p => queues[q] = msgq[q]
  BY <1>4 DEF QueuesFit
<1>6. Drawn(queues)
  BY <1>2, <1>5 DEF Drawn, QueuesFit
<1> QED
  BY <1>3, <1>4, <1>6
-----------------------------------------------------------------------------
(* The parts of a message, by its kind. *)
LEMMA MessageParts ==
    ASSUME NEW p, NEW m \in MessagesFor(p) \cup YoungAcks(p)
    PROVE  /\ m.kind \in {"JOIN", "JOINSPARE", "JOINTEMP"} => m.origin \in Peers
           /\ m.kind \in {"JOINACK", "SPLIT"} => m.state \in FitStates
           /\ m.kind \in {"JOINACK", "SPLIT"} /\ m \notin YoungAcks(p) => m.state \in StatesFor(p)
           /\ m.kind = "CONNECT" => m.cluster \in FullClusters
           /\ m.kind = "DISCONNECT" => m.label \in Labels
           /\ m \in YoungAcks(p) => m.kind = "JOINACK" /\ m.state \in YoungStates(p)
BY DEF MessagesFor, FitMessages, YoungAcks, YoungStates

LEMMA StateParts ==
    ASSUME NEW p, NEW s \in StatesFor(p)
    PROVE  /\ s.type \in {"SPARE", "CORE"} /\ s.cluster \in FitClusters
           /\ s.rt \in Seq(FullClusters) /\ s.pt \in Pointers \cup {NoMap}
           /\ s.type = "CORE" => s.cluster \in FullOf(p)
BY DEF StatesFor, FitStates

LEMMA QueuesDrawn ==
    ASSUME Inv
    PROVE  Drawn(msgq)
BY DEF Inv, Drawn

(* Queues that are drawn from those of before, under the views of before. *)
LEMMA SameViews ==
    ASSUME Inv, Drawn(msgq'), UNCHANGED <<type, cluster>>
    PROVE  ViewsFit' /\ ToldOnce' /\ QueuesFit(msgq)'
<1>1. ViewsFit'
  BY DEF Inv, ViewsFit
<1>2. ToldOnce'
  BY DEF Inv, ToldOnce, Drawn
<1>3. QueuesFit(msgq)'
  BY DEF Drawn, QueuesFit
<1> QED
  BY <1>1, <1>2, <1>3

(* A peer with another view. *)
LEMMA OtherView ==
    ASSUME Inv, Drawn(msgq'),
           NEW p \in Peers, NEW t \in {"UNDEF", "SPARE", "CORE"}, NEW c \in FitClusters,
           type' = [type EXCEPT ![p] = t], cluster' = [cluster EXCEPT ![p] = c],
           t = "CORE" => c \in FullOf(p),
           t = "UNDEF" => c \in FullOf(p) \cup YoungOf(p),
           t = "UNDEF" /\ c.label = <<>> =>
             type[p] = "UNDEF" /\ cluster[p].label = <<>> /\ cluster[p].vs \subseteq c.vs
    PROVE  /\ ViewsFit' /\ ToldOnce' /\ QueuesFit(msgq)'
           /\ type' \in [Peers -> {"UNDEF", "SPARE", "CORE"}]
           /\ cluster' \in [Peers -> FitClusters]
<1>1. /\ type' \in [Peers -> {"UNDEF", "SPARE", "CORE"}]
      /\ cluster' \in [Peers -> FitClusters]
      /\ type'[p] = t /\ cluster'[p] = c
      /\ \A q \in Peers : q # p => type'[q] = type[q] /\ cluster'[q] = cluster[q]
  BY DEF Inv
<1>2. ViewsFit'
  <2>1. ASSUME NEW q \in Peers
        PROVE  /\ type'[q] = "CORE" => cluster'[q] \in FullOf(q)
               /\ type'[q] = "UNDEF" => cluster'[q] \in FullOf(q) \cup YoungOf(q)
    BY <1>1 DEF Inv, ViewsFit
  <2> QED
    BY <2>1 DEF ViewsFit
<1>3. ToldOnce'
  <2>1. ASSUME NEW q \in Peers, type'[q] = "UNDEF", cluster'[q].label = <<>>,
               DOMAIN msgq'[q] \cap YoungAcks(q) # {}
        PROVE  q \in cluster'[q].vs
    <3>1. DOMAIN msgq[q] \cap YoungAcks(q) # {}
      BY <2>1 DEF Drawn
    <3>2. CASE q = p
      BY <1>1, <2>1, <3>1, <3>2 DEF Inv, ToldOnce
    <3>3. CASE q # p
      BY <1>1, <2>1, <3>1, <3>3 DEF Inv, ToldOnce
    <3> QED
      BY <3>2, <3>3
  <2> QED
    BY <2>1 DEF ToldOnce
<1>4. QueuesFit(msgq)'
  BY DEF Drawn, QueuesFit
<1> QED
  BY <1>1, <1>2, <1>3, <1>4

(* A panic changes nothing else. *)
LEMMA CrashStep ==
    ASSUME Inv, crashed' \in BOOLEAN,
           UNCHANGED <<type, cluster, rt, pt, msgq, joining, order>>, DOMAIN full' = Peers
    PROVE  Inv'
<1>1. ViewsFit' /\ ToldOnce' /\ QueuesFit(msgq)'
  BY QueuesDrawn, SameViews
<1> QED
  BY <1>1 DEF Inv

LEMMA FireJoinStep ==
    ASSUME Inv, NEW p \in Peers, NEW m \in MessagesFor(p) \cup YoungAcks(p),
           NEW queues, Drawn(queues), FireJoin(p, m, queues),
           UNCHANGED order, DOMAIN full' = Peers
    PROVE  Inv'
<1> DEFINE c == Closest(type[p] = "CORE", cluster[p], rt[p], ID[m.origin])
           rest == cluster[p].vc \ {p}
           sends == IF c.label # cluster[p].label THEN <<To(c.vc, Join(p, m.origin))>>
                    ELSE IF IsPrefixOf(c.label, ID[m.origin]) THEN <<To(rest, JoinSpare(m.origin))>>
                    ELSE <<To(rest, JoinTemp(m.origin))>>
           short == TableTooShort(p) /\ ~IsPrefixOf(cluster[p].label, ID[m.origin])
<1>1. m.origin \in Peers
  BY MessageParts DEF FireJoin
<1>2. /\ IF short THEN crashed' = TRUE /\ UNCHANGED msgq
         ELSE msgq' = Sent(queues, sends) /\ UNCHANGED crashed
      /\ UNCHANGED <<type, cluster, rt, pt, joining>>
  BY DEF FireJoin
<1>3. cluster[p] \in FitClusters /\ rt[p] \in Seq(FullClusters)
  BY DEF Inv
<1>4. ASSUME ~short PROVE Drawn(Sent(queues, sends))
  <2>1. c \in FitClusters
    <3>1. Len(cluster[p].label) \in Nat /\ Len(rt[p]) \in Nat
      BY <1>3, FitLabel, LabelType
    <3>2. \/ type[p] # "CORE" \/ IsPrefixOf(cluster[p].label, ID[m.origin])
          \/ Len(rt[p]) >= Len(cluster[p].label)
      BY <1>4, <3>1 DEF TableTooShort
    <3>3. ID[m.origin] \in Bits(M) /\ (type[p] = "CORE") \in BOOLEAN
      BY <1>1, IDType
    <3>4. c \in FullClusters \cup {cluster[p]}
      BY <1>3, <3>2, <3>3, ClosestIn
    <3> HIDE DEF c
    <3> QED
      BY <1>3, <3>4, FullFit
  <2>2. c.vc \in SUBSET Peers /\ rest \in SUBSET Peers
    BY <1>3, <2>1, FitLabel
  <2> HIDE DEF c, rest
  <2>3. /\ Join(p, m.origin) \in FitMessages
        /\ \A q \in Peers : Join(p, m.origin) \in MessagesFor(q)
    BY <1>1, MessageTypes DEF MessagesFor
  <2>4. /\ JoinSpare(m.origin) \in FitMessages /\ JoinTemp(m.origin) \in FitMessages
        /\ \A q \in Peers : JoinSpare(m.origin) \in MessagesFor(q)
        /\ \A q \in Peers : JoinTemp(m.origin) \in MessagesFor(q)
    BY <1>1, MessageTypes DEF MessagesFor
  <2>5. <<To(c.vc, Join(p, m.origin))>> \in Seq(Sends)
    BY <2>2, <2>3, ToFit
  <2>6. <<To(rest, JoinSpare(m.origin))>> \in Seq(Sends)
    BY <2>2, <2>4, ToFit
  <2>7. <<To(rest, JoinTemp(m.origin))>> \in Seq(Sends)
    BY <2>2, <2>4, ToFit
  <2>8. sends \in Seq(Sends)
    BY <2>5, <2>6, <2>7
  <2> QED
    BY <2>8, SentFit
<1> HIDE DEF sends, short
<1>5. crashed' \in BOOLEAN /\ Drawn(msgq')
  BY <1>2, <1>4, QueuesDrawn DEF Inv
<1>6. ViewsFit' /\ ToldOnce' /\ QueuesFit(msgq)'
  BY <1>2, <1>5, SameViews
<1> QED
  BY <1>2, <1>5, <1>6 DEF Inv

LEMMA FireJoinTempStep ==
    ASSUME Inv, NEW p, NEW m, NEW queues, Drawn(queues), FireJoinTemp(p, m, queues),
           UNCHANGED order, DOMAIN full' = Peers
    PROVE  Inv'
<1>1. UNCHANGED <<type, cluster, rt, pt, joining, crashed>> /\ msgq' = queues
  BY DEF FireJoinTemp
<1>2. ViewsFit' /\ ToldOnce' /\ QueuesFit(msgq)'
  BY <1>1, SameViews
<1> QED
  BY <1>1, <1>2 DEF Inv

(* A peer is told by others what it is. *)
LEMMA FireStateStep ==
    ASSUME Inv, NEW p \in Peers, NEW m \in MessagesFor(p) \cup YoungAcks(p), m \notin YoungAcks(p),
           NEW queues, Drawn(queues),
           FireJoinAck(p, m, queues) \/ FireSplit(p, m, queues),
           UNCHANGED order, DOMAIN full' = Peers
    PROVE  Inv'
<1>1. m.state \in StatesFor(p)
  BY MessageParts DEF FireJoinAck, FireSplit
<1>2. PICK s \in StatesFor(p) : s = m.state
  BY <1>1
<1>3. /\ s.type \in {"SPARE", "CORE"} /\ s.cluster \in FitClusters
      /\ s.rt \in Seq(FullClusters) /\ s.pt \in Pointers \cup {NoMap}
      /\ s.type = "CORE" => s.cluster \in FullOf(p)
  BY StateParts
<1>4. /\ type' = [type EXCEPT ![p] = s.type]
      /\ cluster' = [cluster EXCEPT ![p] = s.cluster]
      /\ msgq' = queues
      /\ UNCHANGED crashed
  BY <1>2 DEF FireJoinAck, FireSplit
<1>5. rt' \in [Peers -> Seq(FullClusters)]
  <2>1. rt' = [rt EXCEPT ![p] = s.rt] \/ rt' = [rt EXCEPT ![p] = rt[p]]
    BY <1>2 DEF FireJoinAck, FireSplit
  <2> QED
    BY <1>3, <2>1 DEF Inv
<1>6. pt' \in [Peers -> Pointers \cup {NoMap}]
  <2>1. pt' = [pt EXCEPT ![p] = s.pt] \/ pt' = [pt EXCEPT ![p] = pt[p]]
    BY <1>2 DEF FireJoinAck, FireSplit
  <2> QED
    BY <1>3, <2>1 DEF Inv
<1>7. /\ joining' \in [Peers -> {"not yet", "waits", "over"}]
      /\ \A q \in Peers : q # p => joining'[q] = joining[q]
      /\ \A q \in FirstCore : joining'[q] = "over"
  <2>1. joining' = [joining EXCEPT ![p] = "over"] \/ UNCHANGED joining
    BY DEF FireJoinAck, FireSplit
  <2> QED
    BY <2>1, PeersAssumption DEF Inv
<1>8. /\ ViewsFit' /\ ToldOnce' /\ QueuesFit(msgq)'
      /\ type' \in [Peers -> {"UNDEF", "SPARE", "CORE"}]
      /\ cluster' \in [Peers -> FitClusters]
  <2>1. Drawn(msgq')
    BY <1>4
  <2>2. s.type \in {"UNDEF", "SPARE", "CORE"} /\ s.type # "UNDEF"
    BY <1>3
  <2> QED
    BY <1>3, <1>4, <2>1, <2>2, OtherView
<1>9. \A q \in Peers : joining'[q] = "over" => type'[q] # "UNDEF"
  BY <1>3, <1>4, <1>7 DEF Inv
<1> QED
  BY <1>4, <1>5, <1>6, <1>7, <1>8, <1>9 DEF Inv

LEMMA FireConnectStep ==
    ASSUME Inv, NEW p \in Peers, NEW m \in MessagesFor(p) \cup YoungAcks(p),
           NEW queues, Drawn(queues), FireConnect(p, m, queues),
           UNCHANGED order, DOMAIN full' = Peers
    PROVE  Inv'
<1> DEFINE better == {j \in DOMAIN rt[p] :
                        Better(rt[p][j], Ideal(cluster[p].label, j), m.cluster)}
           table == [j \in DOMAIN rt[p] |-> IF j \in better THEN m.cluster ELSE rt[p][j]]
           sends == [j \in DOMAIN rt[p] |->
                       To(IF j \in better THEN rt[p][j].vc ELSE {}, Disconnect(cluster[p]))]
<1>1. m.cluster \in FullClusters
  BY MessageParts DEF FireConnect
<1>2. /\ rt[p] \in Seq(FullClusters) /\ cluster[p] \in FitClusters
      /\ pt[p] \in Pointers \cup {NoMap}
      /\ DOMAIN rt[p] = 1..Len(rt[p]) /\ Len(rt[p]) \in Nat
  <2>1. rt[p] \in Seq(FullClusters) /\ cluster[p] \in FitClusters /\ pt[p] \in Pointers \cup {NoMap}
    BY DEF Inv
  <2> QED
    BY <2>1
<1>3. UNCHANGED <<type, cluster, joining>>
  BY DEF FireConnect
<1>4. \/ crashed' = TRUE /\ UNCHANGED <<rt, pt, msgq>>
      \/ /\ pt[p] # NoMap
         /\ pt' = [pt EXCEPT ![p] = WithPointer(pt[p], m.cluster)]
         /\ rt' = [rt EXCEPT ![p] = table]
         /\ msgq' = Sent(queues, sends)
         /\ UNCHANGED crashed
  BY DEF FireConnect
<1>5. table \in Seq(FullClusters)
  <2> HIDE DEF better
  <2> QED
    BY <1>1, <1>2
<1>6. sends \in Seq(Sends)
  <2> HIDE DEF better
  <2>1. ASSUME NEW j \in DOMAIN rt[p]
        PROVE  To(IF j \in better THEN rt[p][j].vc ELSE {}, Disconnect(cluster[p])) \in Sends
    <3>1. rt[p][j].vc \in SUBSET Peers
      BY <1>2, FullFit, FitLabel
    <3>2. (IF j \in better THEN rt[p][j].vc ELSE {}) \in SUBSET Peers
      BY <3>1
    <3> QED
      BY <1>2, <3>2, InformTypes, ToFit
  <2> QED
    BY <1>2, <2>1
<1> HIDE DEF table, sends
<1>7. pt[p] # NoMap => WithPointer(pt[p], m.cluster) \in Pointers
  BY <1>1, <1>2, WithPointerFit
<1>8. Drawn(Sent(queues, sends))
  BY <1>6, SentFit
<1>9. /\ rt' \in [Peers -> Seq(FullClusters)]
      /\ pt' \in [Peers -> Pointers \cup {NoMap}]
      /\ Drawn(msgq') /\ crashed' \in BOOLEAN
  <2>1. Drawn(msgq')
    BY <1>4, <1>8, QueuesDrawn
  <2>2. rt' = [rt EXCEPT ![p] = table] \/ rt' = rt
    BY <1>4
  <2>3. /\ pt' = [pt EXCEPT ![p] = WithPointer(pt[p], m.cluster)] /\ pt[p] # NoMap
        \/ pt' = pt
    BY <1>4
  <2>4. rt' \in [Peers -> Seq(FullClusters)]
    BY <1>5, <2>2 DEF Inv
  <2>5. pt' \in [Peers -> Pointers \cup {NoMap}]
    BY <1>7, <2>3 DEF Inv
  <2>6. crashed' \in BOOLEAN
    BY <1>4 DEF Inv
  <2> QED
    BY <2>1, <2>4, <2>5, <2>6
<1>10. ViewsFit' /\ ToldOnce' /\ QueuesFit(msgq)'
  BY <1>3, <1>9, SameViews
<1> QED
  BY <1>3, <1>9, <1>10 DEF Inv

LEMMA FireDisconnectStep ==
    ASSUME Inv, NEW p \in Peers, NEW m, NEW queues, Drawn(queues),
           FireDisconnect(p, m, queues), UNCHANGED order, DOMAIN full' = Peers
    PROVE  Inv'
<1> DEFINE left == IF pt[p] = NoMap THEN NoMap ELSE {c \in pt[p] : c.label # m.label}
<1>1. /\ UNCHANGED <<type, cluster, rt, joining, crashed>> /\ msgq' = queues
      /\ pt' = [pt EXCEPT ![p] = left]
  BY DEF FireDisconnect
<1>2. left \in Pointers \cup {NoMap}
  BY DEF Inv, Pointers
<1> HIDE DEF left
<1>3. pt' \in [Peers -> Pointers \cup {NoMap}]
  BY <1>1, <1>2 DEF Inv
<1>4. ViewsFit' /\ ToldOnce' /\ QueuesFit(msgq)'
  BY <1>1, SameViews
<1> QED
  BY <1>1, <1>3, <1>4 DEF Inv

(* The view with one more spare peer is as good. *)
LEMMA MoreSpares ==
    ASSUME Inv, NEW p \in Peers, NEW o \in Peers, type[p] # "SPARE"
    PROVE  LET c == [cluster[p] EXCEPT !.vs = cluster[p].vs \cup {o}]
           IN  /\ c \in FitClusters /\ c.label = cluster[p].label
               /\ p \in c.vc /\ c.vs = cluster[p].vs \cup {o}
               /\ type[p] = "CORE" => c \in FullOf(p)
               /\ type[p] = "UNDEF" => c \in FullOf(p) \cup YoungOf(p)
               /\ Cardinality(c.vc) <= SMin
<1> DEFINE c == [cluster[p] EXCEPT !.vs = cluster[p].vs \cup {o}]
<1>1. cluster[p] \in FitClusters /\ cluster[p].vs \cup {o} \in SUBSET Peers
  BY FitLabel DEF Inv
<1>2. /\ c \in FitClusters /\ c.label = cluster[p].label /\ c.vc = cluster[p].vc
      /\ c.vs = cluster[p].vs \cup {o}
      /\ cluster[p] \in FullClusters => c \in FullClusters
  BY <1>1, SparesFit
<1>3. type[p] \in {"CORE", "UNDEF"}
  BY DEF Inv
<1>4. cluster[p] \in FullOf(p) \/ (type[p] = "UNDEF" /\ cluster[p] \in YoungOf(p))
  BY <1>3 DEF Inv, ViewsFit
<1> HIDE DEF c
<1>5. CASE cluster[p] \in FullOf(p)
  <2>1. p \in c.vc /\ c \in FullOf(p)
    BY <1>2, <1>5 DEF FullOf
  <2>2. Cardinality(c.vc) = SMin
    BY <2>1 DEF FullOf, FullClusters
  <2>3. Cardinality(c.vc) <= SMin
    BY <2>2, SizesAssumption
  <2> QED
    BY <1>2, <2>1, <2>3 DEF c
<1>6. CASE type[p] = "UNDEF" /\ cluster[p] \in YoungOf(p)
  <2>1. p \in c.vc /\ c \in YoungOf(p) /\ c.vc = {p}
    BY <1>2, <1>6 DEF YoungOf
  <2>2. Cardinality(c.vc) = 1
    BY <2>1, FS_Singleton
  <2>3. Cardinality(c.vc) <= SMin
    BY <2>2, SizesAssumption
  <2> QED
    BY <1>2, <1>6, <2>1, <2>3 DEF c
<1> QED
  BY <1>4, <1>5, <1>6

(* A peer tells itself what it is, when it has not yet. *)
LEMMA ToldSelf ==
    ASSUME NEW queues, Drawn(queues), NEW p \in Peers, NEW m \in YoungAcks(p),
           DOMAIN queues[p] \cap YoungAcks(p) = {}
    PROVE  LET after == Sent(queues, <<To({p}, m)>>)
           IN  /\ QueuesFit(after)
               /\ \A q \in Peers : q # p => after[q] = queues[q]
<1> DEFINE sends == <<To({p}, m)>>
           mine(q) == {i \in DOMAIN sends : q \in sends[i].to}
           told(q) == {sends[i].msg : i \in mine(q)}
           after == Sent(queues, sends)
<1>1. DOMAIN sends = {1} /\ sends[1].to = {p} /\ sends[1].msg = m
  BY DEF To
<1>2. after = [q \in Peers |-> queues[q] (+) Received(q, sends)]
  BY DEF Sent
<1>3. \A q : Received(q, sends) = [n \in told(q) |-> Cardinality({i \in mine(q) : sends[i].msg = n})]
  BY DEF Received
<1> HIDE DEF sends
<1>4. ASSUME NEW q \in Peers, q # p PROVE after[q] = queues[q]
  <2>1. mine(q) = {}
    BY <1>1, <1>4
  <2>2. told(q) = {}
    BY <2>1
  <2>3. DOMAIN Received(q, sends) = {} /\ IsABag(Received(q, sends))
    BY <1>3, <2>2 DEF IsABag
  <2>4. IsABag(queues[q])
    BY DEF Drawn, QueuesFit
  <2>5. PICK B, R : B = queues[q] /\ R = Received(q, sends)
    OBVIOUS
  <2>6. after[q] = B (+) R
    BY <1>2, <2>5
  <2> HIDE DEF after
  <2>7. /\ IsABag(after[q]) /\ DOMAIN after[q] = DOMAIN queues[q]
        /\ \A e \in DOMAIN queues[q] : after[q][e] = queues[q][e]
    <3>1. IsABag(B) /\ IsABag(R) /\ DOMAIN R = {}
      BY <2>3, <2>4, <2>5
    <3>2. /\ IsABag(B (+) R) /\ DOMAIN (B (+) R) = DOMAIN B \cup DOMAIN R
          /\ \A e \in DOMAIN B \ DOMAIN R : (B (+) R)[e] = B[e]
      BY <3>1, BagSum
    <3>3. PICK S : S = B (+) R
      OBVIOUS
    <3>4. /\ IsABag(S) /\ DOMAIN S = DOMAIN B
          /\ \A e \in DOMAIN B : S[e] = B[e]
      BY <3>1, <3>2, <3>3
    <3> QED
      BY <2>5, <2>6, <3>3, <3>4
  <2> QED
    BY <2>4, <2>7 DEF IsABag
<1>5. /\ IsABag(after[p]) /\ DOMAIN after[p] = DOMAIN queues[p] \cup {m}
      /\ after[p][m] = 1
  <2>1. mine(p) = {1}
    BY <1>1
  <2>2. told(p) = {m} /\ {i \in mine(p) : sends[i].msg = m} = {1}
    BY <1>1, <2>1
  <2>3. Received(p, sends) = [n \in {m} |-> 1]
    <3> DEFINE count(n) == Cardinality({i \in mine(p) : sends[i].msg = n})
    <3>1. Received(p, sends) = [n \in told(p) |-> count(n)]
      BY <1>3
    <3>2. count(m) = 1
      BY <2>2, FS_Singleton
    <3> HIDE DEF count
    <3>3. [n \in {m} |-> count(n)] = [n \in {m} |-> 1]
      BY <3>2
    <3> HIDE DEF told, mine
    <3> QED
      BY <2>2, <3>1, <3>3
  <2>4. IsABag([n \in {m} |-> 1]) /\ DOMAIN [n \in {m} |-> 1] = {m} /\ [n \in {m} |-> 1][m] = 1
    BY DEF IsABag
  <2>5. IsABag(queues[p]) /\ m \notin DOMAIN queues[p]
    BY DEF Drawn, QueuesFit
  <2>6. after[p] = queues[p] (+) [n \in {m} |-> 1]
    BY <1>2, <2>3
  <2> HIDE DEF after
  <2>7. PICK B, R : B = queues[p] /\ R = [n \in {m} |-> 1]
    OBVIOUS
  <2>8. IsABag(B) /\ IsABag(R) /\ DOMAIN R = {m} /\ R[m] = 1 /\ m \notin DOMAIN B
    BY <2>4, <2>5, <2>7
  <2>9. PICK S : S = B (+) R
    OBVIOUS
  <2>10. IsABag(S) /\ DOMAIN S = DOMAIN B \cup DOMAIN R /\ \A e \in DOMAIN R \ DOMAIN B : S[e] = R[e]
    <3>1. IsABag(B) /\ IsABag(R)
      BY <2>8
    <3>2. /\ IsABag(B (+) R) /\ DOMAIN (B (+) R) = DOMAIN B \cup DOMAIN R
          /\ \A e \in DOMAIN R \ DOMAIN B : (B (+) R)[e] = R[e]
      BY <3>1, BagSum
    <3> QED
      BY <2>9, <3>2
  <2>11. IsABag(S) /\ DOMAIN S = DOMAIN B \cup {m} /\ S[m] = 1
    BY <2>8, <2>10
  <2> QED
    BY <2>6, <2>7, <2>9, <2>11
<1>6. DOMAIN after = Peers
  BY <1>2
<1> HIDE DEF after, mine, told
<1>7. DOMAIN after[p] \cap YoungAcks(p) = {m}
  BY <1>5
<1>8. QueuesFit(after)
  BY <1>4, <1>5, <1>6, <1>7 DEF Drawn, QueuesFit
<1> QED
  BY <1>4, <1>8 DEF after, sends

LEMMA AddSpareStep ==
    ASSUME Inv, NEW p \in Peers, NEW o \in Peers, NEW queues, Drawn(queues),
           type[p] # "SPARE", o \notin cluster[p].vs,
           AddSpare(p, o, queues), UNCHANGED <<type, joining, order>>, DOMAIN full' = Peers
    PROVE  Inv'
<1> DEFINE c == [cluster[p] EXCEPT !.vs = cluster[p].vs \cup {o}]
           near == Closest(type[p] = "CORE", c, rt[p], ID[o])
           mine == CoreState(near, rt[p], Known(pt[p]))
           state == AckState(o, near, c, mine, CoreState(near, <<>>, NoMap))
           short == TableTooShort(p) /\ ~IsPrefixOf(c.label, ID[o])
           sends == <<To({o}, JoinAck(state))>>
<1>1. /\ IF short
         THEN crashed' = TRUE /\ UNCHANGED <<cluster, msgq>>
         ELSE /\ cluster' = [cluster EXCEPT ![p] = c]
              /\ msgq' = Sent(queues, sends)
              /\ UNCHANGED crashed
      /\ UNCHANGED <<rt, pt>>
  BY DEF AddSpare
<1>2. cluster[p] \in FitClusters /\ rt[p] \in Seq(FullClusters) /\ pt[p] \in Pointers \cup {NoMap}
  BY DEF Inv
<1>3. /\ c \in FitClusters /\ c.label = cluster[p].label
      /\ p \in c.vc /\ c.vs = cluster[p].vs \cup {o}
      /\ type[p] = "CORE" => c \in FullOf(p)
      /\ type[p] = "UNDEF" => c \in FullOf(p) \cup YoungOf(p)
  BY MoreSpares
<1>4. type[p] \in {"CORE", "UNDEF"}
  BY DEF Inv
<1>5. Known(pt[p]) \in Pointers /\ <<>> \in Seq(FullClusters)
  BY <1>2, PointersKnown
<1> HIDE DEF c
<1>6. CASE short
  BY <1>1, <1>6, CrashStep
<1>7. ASSUME ~short
      PROVE  near \in FullClusters \cup {c} /\ near \in FitClusters /\ (type[p] # "CORE" => near = c)
  <2>1. Len(c.label) \in Nat /\ Len(rt[p]) \in Nat
    BY <1>2, <1>3, FitLabel, LabelType
  <2>2. type[p] # "CORE" \/ IsPrefixOf(c.label, ID[o]) \/ Len(rt[p]) >= Len(c.label)
    BY <1>3, <1>7, <2>1 DEF TableTooShort
  <2>3. ID[o] \in Bits(M) /\ (type[p] = "CORE") \in BOOLEAN
    BY IDType
  <2>4. near \in FullClusters \cup {c} /\ (type[p] # "CORE" => near = c)
    BY <1>2, <1>3, <2>2, <2>3, ClosestIn
  <2> HIDE DEF near
  <2> QED
    BY <1>3, <2>4, FullFit
<1> HIDE DEF near
<1>8. CASE ~short /\ (o \in near.vc => near \in FullClusters)
  <2>1. state \in StatesFor(o)
    BY <1>2, <1>5, <1>7, <1>8, AckStateFit
  <2> HIDE DEF state
  <2>2. JoinAck(state) \in MessagesFor(o) /\ JoinAck(state) \in FitMessages
    BY <2>1, MessageTypes DEF MessagesFor
  <2>3. sends \in Seq(Sends)
    BY <2>2, ToFit
  <2> HIDE DEF sends
  <2>4. Drawn(msgq')
    BY <1>1, <1>8, <2>3, SentFit
  <2>5. type' = [type EXCEPT ![p] = type[p]] /\ cluster' = [cluster EXCEPT ![p] = c]
    BY <1>1, <1>8 DEF Inv
  <2>6. type[p] \in {"UNDEF", "SPARE", "CORE"} /\ cluster[p].vs \subseteq c.vs
    BY <1>3, <1>4
  <2>7. /\ ViewsFit' /\ ToldOnce' /\ QueuesFit(msgq)'
        /\ cluster' \in [Peers -> FitClusters]
    BY <1>3, <2>4, <2>5, <2>6, OtherView
  <2> QED
    BY <1>1, <1>8, <2>7 DEF Inv
<1>9. CASE ~short /\ o \in near.vc /\ near \notin FullClusters
  <2>1. near = c /\ type[p] = "UNDEF" /\ c \in YoungOf(p) /\ o = p
    <3>1. near = c /\ c \notin FullClusters
      BY <1>7, <1>9
    <3>2. c \notin FullOf(p)
      BY <3>1 DEF FullOf
    <3>3. type[p] = "UNDEF" /\ c \in YoungOf(p)
      BY <1>3, <1>4, <3>2
    <3> QED
      BY <1>9, <3>1, <3>3 DEF YoungOf
  <2>2. state = mine /\ mine \in YoungStates(p)
    <3>1. mine \in FitStates /\ mine.type = "CORE" /\ mine.cluster = c
      BY <1>2, <1>3, <1>5, <2>1, CoreStateFit
    <3>2. state = mine
      BY <1>9, <2>1 DEF AckState
    <3> HIDE DEF mine, state
    <3> QED
      BY <2>1, <3>1, <3>2 DEF YoungStates
  <2> HIDE DEF state, mine
  <2>3. JoinAck(state) \in YoungAcks(p)
    BY <2>2 DEF JoinAck, YoungAcks
  <2>4. p \notin cluster[p].vs /\ cluster[p].label = <<>> /\ c.label = <<>> /\ c.vc = {p}
    BY <1>3, <2>1 DEF YoungOf
  <2>5. DOMAIN queues[p] \cap YoungAcks(p) = {}
    BY <2>1, <2>4 DEF Inv, ToldOnce, Drawn
  <2>6. sends = <<To({p}, JoinAck(state))>>
    BY <2>1
  <2> HIDE DEF sends
  <2>7. /\ QueuesFit(Sent(queues, sends))
        /\ \A q \in Peers : q # p => Sent(queues, sends)[q] = queues[q]
    <3>1. PICK ack \in YoungAcks(p) : ack = JoinAck(state)
      BY <2>3
    <3>2. sends = <<To({p}, ack)>>
      BY <2>6, <3>1
    <3> QED
      BY <2>5, <3>2, ToldSelf
  <2>8. /\ QueuesFit(msgq') /\ \A q \in Peers : q # p => msgq'[q] = queues[q]
        /\ cluster' = [cluster EXCEPT ![p] = c] /\ UNCHANGED crashed
    BY <1>1, <1>9, <2>7
  <2>9. /\ cluster' \in [Peers -> FitClusters] /\ cluster'[p] = c
        /\ \A q \in Peers : q # p => cluster'[q] = cluster[q]
    BY <1>3, <2>8 DEF Inv
  <2>10. ViewsFit'
    <3>1. ASSUME NEW q \in Peers
          PROVE  /\ type'[q] = "CORE" => cluster'[q] \in FullOf(q)
                 /\ type'[q] = "UNDEF" => cluster'[q] \in FullOf(q) \cup YoungOf(q)
      BY <1>3, <2>9 DEF Inv, ViewsFit
    <3> QED
      BY <3>1 DEF ViewsFit
  <2>11. ToldOnce'
    <3>1. ASSUME NEW q \in Peers, type'[q] = "UNDEF", cluster'[q].label = <<>>,
                 DOMAIN msgq'[q] \cap YoungAcks(q) # {}
          PROVE  q \in cluster'[q].vs
      <4>1. CASE q = p
        BY <1>3, <2>1, <2>9, <4>1
      <4>2. CASE q # p
        BY <2>8, <2>9, <3>1, <4>2 DEF Inv, ToldOnce, Drawn
      <4> QED
        BY <4>1, <4>2
    <3> QED
      BY <3>1 DEF ToldOnce
  <2>12. QueuesFit(msgq)'
    BY <2>8 DEF QueuesFit
  <2> QED
    BY <1>1, <2>8, <2>9, <2>10, <2>11, <2>12 DEF Inv
<1> QED
  BY <1>6, <1>8, <1>9

(* The halves of a cluster with their tables and pointers, after a split. *)
LEMMA SplitFit ==
    ASSUME Inv, NEW p \in Peers, NEW c \in FitClusters, CanSplit(c), ~CannotFill(c),
           Cardinality(c.vc) <= SMin,
           NEW t0 \in HalfTables(Half(c, 0), Append(rt[p], Half(c, 1)),
                                 WithPointer(Known(pt[p]), Half(c, 1))),
           NEW t1 \in HalfTables(Half(c, 1), Append(rt[p], Half(c, 0)),
                                 WithPointer(Known(pt[p]), Half(c, 0)))
    PROVE  /\ \A b \in {0, 1} :
                /\ Half(c, b) \in FullClusters
                /\ WithPointer(Known(pt[p]), Half(c, b)) \in Pointers
                /\ Append(rt[p], Half(c, b)) \in Seq(FullClusters)
           /\ t0 \in Seq(FullClusters) /\ Len(t0) = Len(rt[p]) + 1
           /\ t1 \in Seq(FullClusters) /\ Len(t1) = Len(rt[p]) + 1
<1>1. rt[p] \in Seq(FullClusters) /\ Known(pt[p]) \in Pointers
  BY PointersKnown DEF Inv
<1>2. Half(c, 0) \in FullClusters /\ Half(c, 1) \in FullClusters
  BY HalfFit
<1>3. ASSUME NEW h \in FullClusters
      PROVE  /\ WithPointer(Known(pt[p]), h) \in Pointers
             /\ Append(rt[p], h) \in Seq(FullClusters) /\ Len(Append(rt[p], h)) = Len(rt[p]) + 1
  <2>1. WithPointer(Known(pt[p]), h) \in Pointers
    BY <1>1, WithPointerFit
  <2>2. PICK table : table = rt[p]
    OBVIOUS
  <2>3. Append(table, h) \in Seq(FullClusters) /\ Len(Append(table, h)) = Len(table) + 1
    BY <1>1, <2>2
  <2> QED
    BY <2>1, <2>2, <2>3
<1>4. ASSUME NEW b \in {0, 1}, NEW t,
             t \in HalfTables(Half(c, b), Append(rt[p], Half(c, 1 - b)),
                              WithPointer(Known(pt[p]), Half(c, 1 - b)))
      PROVE  t \in Seq(FullClusters) /\ Len(t) = Len(rt[p]) + 1
  <2>1. Half(c, 1 - b) \in FullClusters
    BY <1>2
  <2>2. PICK table, s : /\ table = Append(rt[p], Half(c, 1 - b))
                        /\ s = WithPointer(Known(pt[p]), Half(c, 1 - b))
    OBVIOUS
  <2>3. table \in Seq(FullClusters) /\ Len(table) = Len(rt[p]) + 1 /\ s \in Pointers
    BY <1>3, <2>1, <2>2
  <2>4. t \in HalfTables(Half(c, b), table, s)
    BY <1>4, <2>2
  <2> QED
    BY <2>3, <2>4, HalfTablesFit
<1>5. /\ t0 \in Seq(FullClusters) /\ Len(t0) = Len(rt[p]) + 1
      /\ t1 \in Seq(FullClusters) /\ Len(t1) = Len(rt[p]) + 1
  <2>1. 1 - 0 = 1 /\ 1 - 1 = 0
    OBVIOUS
  <2>2. t0 \in Seq(FullClusters) /\ Len(t0) = Len(rt[p]) + 1
    BY <1>4, <2>1
  <2>3. t1 \in Seq(FullClusters) /\ Len(t1) = Len(rt[p]) + 1
    BY <1>4, <2>1
  <2> QED
    BY <2>2, <2>3
<1> QED
  BY <1>2, <1>3, <1>5

LEMMA FourSends ==
    ASSUME NEW s1 \in Seq(Sends), NEW s2 \in Seq(Sends), NEW s3 \in Seq(Sends),
           NEW s4 \in Seq(Sends)
    PROVE  s1 \o s2 \o s3 \o s4 \in Seq(Sends)
<1>1. s1 \o s2 \in Seq(Sends)
  OBVIOUS
<1>2. s1 \o s2 \o s3 \in Seq(Sends)
  BY <1>1
<1> QED
  BY <1>2

LEMMA AddAndSplitStep ==
    ASSUME Inv, NEW p \in Peers, NEW o \in Peers, NEW queues, Drawn(queues), type[p] # "SPARE",
           AddAndSplit(p, o, queues), UNCHANGED <<type, joining, order>>, DOMAIN full' = Peers
    PROVE  Inv'
<1> DEFINE c == [cluster[p] EXCEPT !.vs = cluster[p].vs \cup {o}]
           half(b) == Half(c, b)
           pointers(b) == WithPointer(Known(pt[p]), half(1 - b))
           before(b) == Append(rt[p], half(1 - b))
           own == ID[p][Len(c.label) + 1]
           short == TableTooShort(p) /\ ~IsPrefixOf(half(own).label, ID[o])
<1>1. cluster[p] \in FitClusters /\ rt[p] \in Seq(FullClusters)
  BY DEF Inv
<1>2. /\ c \in FitClusters /\ c.label = cluster[p].label
      /\ p \in c.vc /\ Cardinality(c.vc) <= SMin
  BY MoreSpares
<1>3. CanSplit(c)
  BY DEF AddAndSplit
<1>4. CASE crashed' = TRUE /\ UNCHANGED <<cluster, rt, pt, msgq>>
  BY <1>4, CrashStep
<1>5. CASE ~(CannotFill(c) \/ Len(rt[p]) > Len(c.label) \/ short) /\ UNCHANGED crashed
  <2>1. PICK t0 \in HalfTables(half(0), before(0), pointers(0)),
             t1 \in HalfTables(half(1), before(1), pointers(1)) :
          LET table(b) == IF b = 0 THEN t0 ELSE t1
              near == Closest(type[p] = "CORE", half(own), table(own), ID[o])
              state == AckState(o, near, half(own),
                                CoreState(near, table(own), pointers(own)),
                                CoreState(near, table(1 - own), pointers(1 - own)))
          IN
          /\ cluster' = [cluster EXCEPT ![p] = half(own)]
          /\ rt' = [rt EXCEPT ![p] = table(own)]
          /\ pt' = [pt EXCEPT ![p] = pointers(own)]
          /\ msgq' = Sent(queues,
                       ToAll(rt[p], Disconnect(c))
                       \o HalfSends(c, half(0), before(0), t0, pointers(0))
                       \o HalfSends(c, half(1), before(1), t1, pointers(1))
                       \o <<To({o}, JoinAck(state))>>)
    BY <1>5 DEF AddAndSplit
  <2> DEFINE table(b) == IF b = 0 THEN t0 ELSE t1
             near == Closest(type[p] = "CORE", half(own), table(own), ID[o])
             state == AckState(o, near, half(own),
                               CoreState(near, table(own), pointers(own)),
                               CoreState(near, table(1 - own), pointers(1 - own)))
             sends == ToAll(rt[p], Disconnect(c))
                      \o HalfSends(c, half(0), before(0), t0, pointers(0))
                      \o HalfSends(c, half(1), before(1), t1, pointers(1))
                      \o <<To({o}, JoinAck(state))>>
  <2>2. /\ cluster' = [cluster EXCEPT ![p] = half(own)]
        /\ rt' = [rt EXCEPT ![p] = table(own)]
        /\ pt' = [pt EXCEPT ![p] = pointers(own)]
        /\ msgq' = Sent(queues, sends)
    BY <2>1
  <2>3. /\ \A b \in {0, 1} :
             /\ half(b) \in FullClusters
             /\ WithPointer(Known(pt[p]), half(b)) \in Pointers
             /\ Append(rt[p], half(b)) \in Seq(FullClusters)
        /\ t0 \in Seq(FullClusters) /\ Len(t0) = Len(rt[p]) + 1
        /\ t1 \in Seq(FullClusters) /\ Len(t1) = Len(rt[p]) + 1
    <3> HIDE DEF c
    <3> QED
      BY <1>2, <1>3, <1>5, SplitFit
  <2>4. /\ own \in {0, 1} /\ p \in half(own).vc
        /\ half(own) \in FullClusters /\ half(own).label # <<>>
        /\ Len(half(own).label) = Len(cluster[p].label) + 1
    <3> HIDE DEF c
    <3>1. c.label \in Labels /\ Len(c.label) \in Nat /\ IsPrefixOf(c.label, ID[p])
      BY <1>2, FitLabel, LabelType
    <3>2. Len(c.label) + 2 \in 1..M
      BY <1>2, <1>3, HalfLabel
    <3>3. own \in {0, 1} /\ IsPrefixOf(Append(c.label, own), ID[p])
      BY <3>1, <3>2, OwnHalf
    <3> HIDE DEF own
    <3>4. p \in half(own).vc /\ half(own) \in FullClusters
      BY <1>2, <1>3, <1>5, <3>3, HalfFit
    <3>5. Len(half(own).label) = Len(c.label) + 1
      BY <1>2, <1>3, <3>3, HalfLabel
    <3>6. half(own).label # <<>>
      <4>1. Len(half(own).label) # 0
        BY <3>1, <3>5
      <4> QED
        BY <4>1
    <3> QED
      BY <1>2, <3>3, <3>4, <3>5, <3>6
  <2>5. /\ pointers(0) \in Pointers /\ pointers(1) \in Pointers
        /\ before(0) \in Seq(FullClusters) /\ before(1) \in Seq(FullClusters)
    <3> HIDE DEF half
    <3> QED
      BY <2>3
  <2>6. /\ table(own) \in Seq(FullClusters) /\ table(1 - own) \in Seq(FullClusters)
        /\ Len(table(own)) = Len(rt[p]) + 1
        /\ pointers(own) \in Pointers /\ pointers(1 - own) \in Pointers
    <3>1. 1 - own \in {0, 1}
      BY <2>4
    <3> HIDE DEF pointers, own
    <3> QED
      BY <2>3, <2>4, <2>5, <3>1
  <2>7. near \in FullClusters
    <3>1. Len(cluster[p].label) \in Nat /\ Len(rt[p]) \in Nat
      BY <1>1, FitLabel, LabelType
    <3> HIDE DEF own, half, c, table
    <3>2. \/ type[p] # "CORE" \/ IsPrefixOf(half(own).label, ID[o])
          \/ Len(table(own)) >= Len(half(own).label)
      <4>1. TableTooShort(p) => IsPrefixOf(half(own).label, ID[o])
        BY <1>5
      <4> HIDE DEF short
      <4> QED
        BY <2>4, <2>6, <3>1, <4>1 DEF TableTooShort
    <3>3. ID[o] \in Bits(M) /\ (type[p] = "CORE") \in BOOLEAN
      BY IDType
    <3>4. near \in FullClusters \cup {half(own)}
      BY <2>4, <2>6, <3>2, <3>3, FullFit, ClosestIn
    <3> QED
      BY <2>4, <3>4
  <2> HIDE DEF near, own, half, table, pointers, before, c, short
  <2>8. state \in StatesFor(o)
    BY <2>6, <2>7, FullFit, AckStateFit
  <2> HIDE DEF state
  <2>9. JoinAck(state) \in MessagesFor(o) /\ JoinAck(state) \in FitMessages
    BY <2>8, MessageTypes DEF MessagesFor
  <2>10. sends \in Seq(Sends)
    <3>1. ToAll(rt[p], Disconnect(c)) \in Seq(Sends)
      BY <1>1, <1>2, InformTypes, ToAllFit
    <3>2. HalfSends(c, half(0), before(0), t0, pointers(0)) \in Seq(Sends)
      BY <1>2, <2>3, <2>5, HalfSendsFit
    <3>3. HalfSends(c, half(1), before(1), t1, pointers(1)) \in Seq(Sends)
      BY <1>2, <2>3, <2>5, HalfSendsFit
    <3>4. <<To({o}, JoinAck(state))>> \in Seq(Sends)
      BY <2>9, ToFit
    <3> QED
      BY <3>1, <3>2, <3>3, <3>4, FourSends
  <2> HIDE DEF sends
  <2>11. Drawn(msgq')
    BY <2>2, <2>10, SentFit
  <2>12. /\ ViewsFit' /\ ToldOnce' /\ QueuesFit(msgq)'
         /\ cluster' \in [Peers -> FitClusters]
    <3>1. type' = [type EXCEPT ![p] = type[p]] /\ type[p] \in {"UNDEF", "SPARE", "CORE"}
      BY DEF Inv
    <3>2. half(own) \in FullOf(p) /\ half(own) \in FitClusters
      BY <2>4, FullFit DEF FullOf
    <3> QED
      BY <2>2, <2>4, <2>11, <3>1, <3>2, OtherView
  <2>13. /\ rt' \in [Peers -> Seq(FullClusters)]
         /\ pt' \in [Peers -> Pointers \cup {NoMap}]
    BY <2>2, <2>6 DEF Inv
  <2> QED
    BY <1>5, <2>12, <2>13 DEF Inv
<1> QED
  BY <1>4, <1>5 DEF AddAndSplit

LEMMA FireJoinSpareStep ==
    ASSUME Inv, NEW p \in Peers, NEW m \in MessagesFor(p) \cup YoungAcks(p),
           NEW queues, Drawn(queues), FireJoinSpare(p, m, queues),
           UNCHANGED order, DOMAIN full' = Peers
    PROVE  Inv'
<1>1. m.origin \in Peers
  BY MessageParts DEF FireJoinSpare
<1>2. UNCHANGED <<type, joining>>
  BY DEF FireJoinSpare
<1>3. CASE msgq' = queues /\ UNCHANGED <<cluster, rt, pt, crashed>>
  <2>1. ViewsFit' /\ ToldOnce' /\ QueuesFit(msgq)'
    BY <1>2, <1>3, SameViews
  <2> QED
    BY <1>2, <1>3, <2>1 DEF Inv
<1>4. CASE crashed' = TRUE /\ UNCHANGED <<cluster, rt, pt, msgq>>
  BY <1>2, <1>4, CrashStep
<1>5. CASE /\ m.origin \notin cluster[p].vs /\ type[p] # "SPARE"
           /\ AddSpare(p, m.origin, queues) \/ AddAndSplit(p, m.origin, queues)
  BY <1>1, <1>2, <1>5, AddSpareStep, AddAndSplitStep
<1> QED
  BY <1>3, <1>4, <1>5 DEF FireJoinSpare
-----------------------------------------------------------------------------
(* What may fill a handler. *)
LEMMA RoundParts ==
    ASSUME NEW p, NEW m, NEW taken \in Rounds(p, m)
    PROVE  /\ IsABag(taken) /\ DOMAIN taken \subseteq DOMAIN msgq[p]
           /\ \A n \in DOMAIN taken : Hash(n) = Hash(m) /\ taken[n] <= msgq[p][n]
           /\ Size(taken) = QuorumOf(m)
<1> DEFINE alike == {n \in DOMAIN msgq[p] : Hash(n) = Hash(m) /\ (Direct(n) <=> Direct(m))}
<1>1. PICK kinds \in SUBSET alike : taken \in [kinds -> 1..QuorumOf(m)]
  BY DEF Rounds
<1>2. taken \sqsubseteq msgq[p] /\ Size(taken) = QuorumOf(m)
  BY DEF Rounds
<1>3. DOMAIN taken = kinds /\ IsABag(taken)
  BY <1>1 DEF IsABag
<1>4. \A n \in DOMAIN taken : taken[n] <= msgq[p][n]
  BY <1>2 DEF \sqsubseteq
<1> QED
  BY <1>2, <1>3, <1>4

LEMMA HashKind ==
    ASSUME NEW p, NEW m \in MessagesFor(p) \cup YoungAcks(p)
    PROVE  /\ Hash(m)[1] = m.kind
           /\ m.kind = "JOINACK" => Hash(m)[2] = m.state.type /\ Hash(m)[3] = m.state.cluster.label
<1>1. m.kind \in {"JOIN", "JOINSPARE", "JOINTEMP", "JOINACK", "SPLIT", "CONNECT", "DISCONNECT"}
  BY DEF MessagesFor, FitMessages, YoungAcks
<1>2. CASE m.kind \in {"JOIN", "JOINSPARE", "JOINTEMP"}
  <2>1. Hash(m) = <<m.kind, m.origin>>
    BY <1>2 DEF Hash, OriginHash
  <2> QED
    BY <1>2, <2>1
<1>3. CASE m.kind \in {"JOINACK", "SPLIT"}
  <2>1. Hash(m) = <<m.kind, m.state.type, m.state.cluster.label,
                    Cardinality(Known(m.state.pt)), Len(m.state.rt)>>
    BY <1>3 DEF Hash, StateHash
  <2> QED
    BY <2>1
<1>4. CASE m.kind = "CONNECT"
  <2>1. Hash(m) = <<m.kind, m.cluster.label>>
    BY <1>4 DEF Hash, ConnectHash
  <2> QED
    BY <1>4, <2>1
<1>5. CASE m.kind = "DISCONNECT"
  <2>1. Hash(m) = <<m.kind, m.label>>
    BY <1>5 DEF Hash, DisconnectHash
  <2> QED
    BY <1>5, <2>1
<1> QED
  BY <1>1, <1>2, <1>3, <1>4, <1>5

(***************************************************************************)
(* What a peer has told itself does not get to a quorum: it is told that   *)
(* once, and nobody else tells a peer that waits that it is core of the    *)
(* first cluster.                                                          *)
(***************************************************************************)
LEMMA YoungWaits ==
    ASSUME Inv, NEW p \in Peers, NEW m \in YoungAcks(p), ~Spent(p, m),
           NEW taken \in Rounds(p, m), m \in DOMAIN taken
    PROVE  FALSE
<1>1. /\ m.kind = "JOINACK" /\ m.state.type = "CORE" /\ m.state.cluster.label = <<>>
  BY DEF YoungAcks, YoungStates, YoungOf
<1>2. p \notin FirstCore
  BY <1>1 DEF Spent, Inv
<1>3. ASSUME NEW n \in DOMAIN taken PROVE n = m
  <2>1. n \in MessagesFor(p) \cup YoungAcks(p) /\ Hash(n) = Hash(m)
    <3>1. n \in DOMAIN msgq[p] /\ Hash(n) = Hash(m)
      BY RoundParts
    <3> QED
      BY <3>1 DEF Inv, QueuesFit
  <2>2. n.kind = "JOINACK" /\ n.state.type = "CORE" /\ n.state.cluster.label = <<>>
    <3>1. n.kind = "JOINACK"
      BY <1>1, <2>1, HashKind
    <3> QED
      BY <1>1, <2>1, <3>1, HashKind
  <2>3. CASE n \in YoungAcks(p)
    BY <2>3, RoundParts DEF Inv, QueuesFit
  <2>4. CASE n \notin YoungAcks(p)
    <3>1. n.state \in StatesFor(p)
      BY <2>1, <2>2, <2>4, MessageParts
    <3>2. n.state.cluster \in FullOf(p)
      BY <2>2, <3>1, StateParts
    <3> QED
      BY <1>2, <2>2, <3>2 DEF FullOf, FullClusters
  <2> QED
    BY <2>3, <2>4
<1>4. DOMAIN taken = {m} /\ taken[m] = 1
  <2>1. msgq[p][m] = 1
    BY RoundParts DEF Inv, QueuesFit
  <2>2. taken[m] <= 1
    BY <2>1, RoundParts
  <2>3. taken[m] \in Nat /\ taken[m] > 0
    BY RoundParts DEF IsABag
  <2>4. taken[m] = 1
    BY <2>2, <2>3
  <2> QED
    BY <1>3, <2>4
<1>5. Size(taken) = 1
  <2>1. {{n} \X (1..taken[n]) : n \in DOMAIN taken} = {{m} \X (1..1)}
    BY <1>4
  <2>2. {m} \X (1..1) = {<<m, 1>>}
    BY SMT
  <2>3. UNION {{n} \X (1..taken[n]) : n \in DOMAIN taken} = {<<m, 1>>}
    BY <2>1, <2>2
  <2>4. Size(taken) = Cardinality({<<m, 1>>})
    BY <2>3 DEF Size
  <2> QED
    BY <2>4, FS_Singleton
<1>6. QuorumOf(m) = Quorum
  BY <1>1 DEF QuorumOf, Direct
<1>7. Quorum >= 2
  BY SizesAssumption DEF Quorum
<1>8. Size(taken) = Quorum
  BY <1>6, RoundParts
<1> QED
  BY <1>5, <1>7, <1>8

(* The event of a handler fires. *)
LEMMA DeliverStep ==
    ASSUME Inv, NEW p \in Peers, NEW m \in DOMAIN msgq[p], Deliver(p, m)
    PROVE  Inv'
<1>1. PICK taken \in Rounds(p, m) :
        LET queues == [msgq EXCEPT ![p] = @ (-) taken]
        IN
        /\ m.kind = "JOINACK" => m \in DOMAIN taken
        /\ \/ FireJoin(p, m, queues)
           \/ FireJoinSpare(p, m, queues)
           \/ FireJoinTemp(p, m, queues)
           \/ FireJoinAck(p, m, queues)
           \/ FireSplit(p, m, queues)
           \/ FireConnect(p, m, queues)
           \/ FireDisconnect(p, m, queues)
  BY DEF Deliver
<1>2. UNCHANGED order /\ DOMAIN full' = Peers
  BY DEF Deliver, Inv
<1>3. PICK queues : queues = [msgq EXCEPT ![p] = @ (-) taken]
  OBVIOUS
<1>4. Drawn(queues)
  <2>1. QueuesFit(msgq) /\ IsABag(taken)
    BY RoundParts DEF Inv
  <2>2. Drawn([msgq EXCEPT ![p] = @ (-) taken])
    BY <2>1, TakenFit
  <2> QED
    BY <1>3, <2>2
<1>5. m \in MessagesFor(p) \cup YoungAcks(p)
  BY DEF Inv, QueuesFit
<1>6. \/ FireJoin(p, m, queues)
      \/ FireJoinSpare(p, m, queues)
      \/ FireJoinTemp(p, m, queues)
      \/ FireJoinAck(p, m, queues)
      \/ FireSplit(p, m, queues)
      \/ FireConnect(p, m, queues)
      \/ FireDisconnect(p, m, queues)
  BY <1>1, <1>3
<1>7. m.kind \in {"JOINACK", "SPLIT"} => m \notin YoungAcks(p)
  <2>1. ASSUME m \in YoungAcks(p) PROVE FALSE
    <3>1. m.kind = "JOINACK" /\ ~Spent(p, m)
      BY <1>5, <2>1, MessageParts DEF Deliver
    <3> QED
      BY <1>1, <2>1, <3>1, YoungWaits
  <2> QED
    BY <2>1
<1>8. CASE FireJoinAck(p, m, queues) \/ FireSplit(p, m, queues)
  <2>1. m \notin YoungAcks(p)
    BY <1>7, <1>8 DEF FireJoinAck, FireSplit
  <2> QED
    BY <1>2, <1>4, <1>5, <1>8, <2>1, FireStateStep
<1> QED
  BY <1>2, <1>4, <1>5, <1>6, <1>8, FireJoinStep, FireJoinSpareStep, FireJoinTempStep,
     FireConnectStep, FireDisconnectStep

LEMMA SwallowStep ==
    ASSUME Inv, NEW p \in Peers, NEW m \in DOMAIN msgq[p], Swallow(p, m)
    PROVE  Inv'
<1>1. /\ msgq' = [msgq EXCEPT ![p] = @ (-) SetToBag({m})]
      /\ UNCHANGED <<type, cluster, rt, pt, full, joining, crashed, order>>
  BY DEF Swallow
<1>2. IsABag(SetToBag({m}))
  BY DEF SetToBag, IsABag
<1>3. Drawn(msgq')
  <2>1. QueuesFit(msgq)
    BY DEF Inv
  <2>2. Drawn([msgq EXCEPT ![p] = @ (-) SetToBag({m})])
    BY <1>2, <2>1, TakenFit
  <2> QED
    BY <1>1, <2>2
<1>4. ViewsFit' /\ ToldOnce' /\ QueuesFit(msgq)'
  BY <1>1, <1>3, SameViews
<1> QED
  BY <1>1, <1>4 DEF Inv

LEMMA CleanUpStep ==
    ASSUME Inv, NEW p \in Peers, NEW hash, CleanUp(p, hash)
    PROVE  Inv'
<1>1. /\ DOMAIN full' = Peers
      /\ UNCHANGED <<type, cluster, rt, pt, msgq, joining, crashed, order>>
  BY DEF CleanUp, Inv
<1> QED
  BY <1>1, CrashStep DEF Inv

LEMMA JoinByIDStep ==
    ASSUME Inv, NEW n \in DOMAIN order, JoinByID(n)
    PROVE  Inv'
<1>1. order \in Seq(Peers \ FirstCore)
  BY PeersAssumption DEF Inv
<1>2. PICK p \in Peers \ FirstCore : p = order[n]
  BY <1>1
<1>3. /\ joining' = [joining EXCEPT ![p] = "waits"]
      /\ msgq' = Sent(msgq, <<To(cluster[Seed].vc, Join(p, p))>>)
      /\ UNCHANGED <<type, cluster, rt, pt, full, crashed, order>>
  BY <1>2 DEF JoinByID
<1>4. cluster[Seed].vc \in SUBSET Peers
  BY PeersAssumption, FitLabel DEF Inv
<1>5. Join(p, p) \in FitMessages /\ \A q \in Peers : Join(p, p) \in MessagesFor(q)
  BY MessageTypes DEF MessagesFor
<1>6. <<To(cluster[Seed].vc, Join(p, p))>> \in Seq(Sends)
  BY <1>4, <1>5, ToFit
<1>7. Drawn(msgq')
  BY <1>3, <1>6, QueuesDrawn, SentFit
<1>8. ViewsFit' /\ ToldOnce' /\ QueuesFit(msgq)'
  BY <1>3, <1>7, SameViews
<1>9. /\ joining' \in [Peers -> {"not yet", "waits", "over"}]
      /\ \A q \in Peers : joining'[q] = "over" => type'[q] # "UNDEF"
      /\ \A q \in FirstCore : joining'[q] = "over"
  BY <1>2, <1>3, PeersAssumption DEF Inv
<1> QED
  BY <1>3, <1>8, <1>9 DEF Inv

LEMMA InvStep == Inv /\ [Next]_vars => Inv'
<1>1. ASSUME Inv, UNCHANGED vars PROVE Inv'
  <2>1. UNCHANGED <<type, cluster, rt, pt, msgq, full, joining, crashed, order>>
    BY <1>1 DEF vars
  <2> QED
    BY <1>1, <2>1, CrashStep DEF Inv
<1>2. ASSUME Inv, Next PROVE Inv'
  BY <1>2, DeliverStep, SwallowStep, CleanUpStep, JoinByIDStep DEF Next
<1> QED
  BY <1>1, <1>2

LEMMA InvInit == Init => Inv
<1> SUFFICES ASSUME Init PROVE Inv
  OBVIOUS
<1>1. <<>> \in Labels /\ \A p \in Peers : IsPrefixOf(<<>>, ID[p])
  <2>1. <<>> \in Seq({0, 1}) /\ Len(<<>>) = 0 /\ 0 <= M
    BY PeersAssumption
  <2>2. <<>> \in Labels
    BY <2>1, LabelOf
  <2>3. \A p \in Peers : Len(ID[p]) \in Nat
    BY PeersAssumption
  <2> QED
    BY <2>1, <2>2, <2>3 DEF IsPrefixOf
<1> DEFINE first(p) == [label |-> <<>>, vc |-> IF p \in FirstCore THEN FirstCore ELSE {p},
                        vs |-> {}]
<1>2. ASSUME NEW p \in Peers
      PROVE  /\ first(p) \in FitClusters
             /\ p \in FirstCore => first(p) \in FullOf(p)
             /\ p \notin FirstCore => first(p) \in YoungOf(p)
  <2>1. (IF p \in FirstCore THEN FirstCore ELSE {p}) \in SUBSET Peers
    BY PeersAssumption
  <2>2. first(p) \in FitClusters
    BY <1>1, <2>1 DEF FitClusters, Cluster
  <2>3. p \in FirstCore => first(p) \in FullOf(p)
    BY <2>2, SizesAssumption DEF FullClusters, FullOf
  <2>4. p \notin FirstCore => first(p) \in YoungOf(p)
    BY <2>2 DEF YoungOf
  <2> QED
    BY <2>2, <2>3, <2>4
<1>3. cluster = [p \in Peers |-> first(p)]
  BY DEF Init
<1>4. cluster \in [Peers -> FitClusters]
  BY <1>2, <1>3
<1>5. ViewsFit
  <2>1. \A p \in Peers : /\ type[p] = "CORE" => p \in FirstCore
                         /\ type[p] = "UNDEF" => p \notin FirstCore
    BY DEF Init
  <2> HIDE DEF first
  <2> QED
    BY <1>2, <1>3, <2>1 DEF ViewsFit
<1>6. /\ type \in [Peers -> {"UNDEF", "SPARE", "CORE"}]
      /\ joining \in [Peers -> {"not yet", "waits", "over"}]
      /\ \A p \in Peers : joining[p] = "over" => type[p] # "UNDEF"
      /\ \A p \in FirstCore : joining[p] = "over"
      /\ crashed \in BOOLEAN /\ order \in Orders /\ DOMAIN full = Peers
  BY PeersAssumption DEF Init
<1>7. rt \in [Peers -> Seq(FullClusters)] /\ pt \in [Peers -> Pointers \cup {NoMap}]
  <2>1. {} \in Pointers
    BY DEF Pointers
  <2>2. <<>> \in Seq(FullClusters)
    OBVIOUS
  <2> QED
    BY <2>1, <2>2 DEF Init
<1>8. QueuesFit(msgq) /\ ToldOnce
  <2>1. IsABag(EmptyBag) /\ DOMAIN EmptyBag = {}
    BY DEF EmptyBag, SetToBag, IsABag
  <2>2. DOMAIN msgq = Peers /\ \A p \in Peers : msgq[p] = EmptyBag
    BY DEF Init
  <2>3. \A p \in Peers : DOMAIN msgq[p] = {} /\ IsABag(msgq[p])
    BY <2>1, <2>2
  <2> QED
    BY <2>2, <2>3 DEF QueuesFit, ToldOnce
<1> QED
  BY <1>4, <1>5, <1>6, <1>7, <1>8 DEF Inv
-----------------------------------------------------------------------------
LEMMA InvTypeOK == Inv => TypeOK
<1> SUFFICES ASSUME Inv PROVE TypeOK
  OBVIOUS
<1>1. FitClusters \subseteq Cluster /\ FullClusters \subseteq Cluster
  BY DEF FitClusters, FullClusters
<1>2. Seq(FullClusters) \subseteq Seq(Cluster)
  BY <1>1
<1>3. Pointers \cup {NoMap} \subseteq (SUBSET Cluster) \cup {NoMap}
  BY <1>1 DEF Pointers
<1>4. FitMessages \subseteq Messages
  <2>1. FitStates \subseteq States
    <3>1. ASSUME NEW s \in FitStates PROVE s \in States
      <4>1. /\ s = [type |-> s.type, cluster |-> s.cluster, rt |-> s.rt, pt |-> s.pt]
            /\ s.type \in {"SPARE", "CORE"} /\ s.cluster \in FitClusters
            /\ s.rt \in Seq(FullClusters) /\ s.pt \in Pointers \cup {NoMap}
        BY DEF FitStates
      <4>2. /\ s.cluster \in Cluster /\ s.rt \in Seq(Cluster)
            /\ s.pt \in (SUBSET Cluster) \cup {NoMap}
        BY <1>1, <1>2, <1>3, <4>1, Zenon
      <4> QED
        BY <4>1, <4>2 DEF States
    <3> QED
      BY <3>1
  <2> QED
    BY <1>1, <2>1 DEF FitMessages, Messages
<1>5. \A p \in Peers : IsABag(msgq[p]) /\ DOMAIN msgq[p] \subseteq Messages
  <2>1. \A p \in Peers : MessagesFor(p) \cup YoungAcks(p) \subseteq FitMessages
    BY DEF MessagesFor, YoungAcks, YoungStates, FitMessages
  <2> QED
    BY <1>4, <2>1 DEF Inv, QueuesFit
<1>6. /\ rt \in [Peers -> Seq(Cluster)]
      /\ pt \in [Peers -> (SUBSET Cluster) \cup {NoMap}]
      /\ cluster \in [Peers -> Cluster]
  <2>1. rt \in [Peers -> Seq(Cluster)]
    BY <1>2 DEF Inv
  <2>2. pt \in [Peers -> (SUBSET Cluster) \cup {NoMap}]
    BY <1>3 DEF Inv
  <2>3. cluster \in [Peers -> Cluster]
    BY <1>1 DEF Inv
  <2> QED
    BY <2>1, <2>2, <2>3
<1>7. \A p \in Peers : \A c, d \in Known(pt[p]) : c.label = d.label => c = d
  <2>1. \A p \in Peers : Known(pt[p]) \in Pointers
    BY PointersKnown DEF Inv
  <2> QED
    BY <2>1 DEF Pointers
<1> QED
  BY <1>5, <1>6, <1>7 DEF Inv, TypeOK

LEMMA InvCore == Inv => OwnLabel /\ CoreComplete
<1>1. ASSUME Inv, NEW p \in Core
      PROVE  /\ IsPrefixOf(cluster[p].label, ID[p])
             /\ p \in cluster[p].vc /\ Cardinality(cluster[p].vc) = SMin
  <2>1. cluster[p] \in FullOf(p)
    BY <1>1 DEF Inv, ViewsFit, Core
  <2>2. p \in cluster[p].vc /\ cluster[p] \in FitClusters /\ Cardinality(cluster[p].vc) = SMin
    BY <2>1 DEF FullOf, FullClusters
  <2> QED
    BY <2>2, FitLabel
<1> QED
  BY <1>1 DEF OwnLabel, CoreComplete

LEMMA InvNeighbours == Inv => NeighboursFit
<1>1. ASSUME Inv, NEW p \in Peers,
             NEW c \in {rt[p][j] : j \in DOMAIN rt[p]} \cup Known(pt[p])
      PROVE  Cardinality(c.vc) = SMin /\ \A q \in c.vc : IsPrefixOf(c.label, ID[q])
  <2>1. \A j \in DOMAIN rt[p] : rt[p][j] \in FullClusters
    <3>1. rt[p] \in Seq(FullClusters)
      BY <1>1 DEF Inv
    <3> QED
      BY <3>1
  <2>2. pt[p] \in Pointers \cup {NoMap}
    BY <1>1 DEF Inv
  <2>3. \A d \in Known(pt[p]) : d \in FullClusters
    BY <2>2, PointersKnown DEF Pointers
  <2>4. c \in FullClusters
    BY <1>1, <2>1, <2>3
  <2> QED
    BY <2>4 DEF FullClusters, FitClusters
<1> QED
  BY <1>1 DEF NeighboursFit

THEOREM Invariant == Spec => []Inv
BY InvInit, InvStep, PTL DEF Spec

(***************************************************************************)
(* Peers hold what they can hold: in particular a peer that has joined is  *)
(* spare or core, and hears of one cluster only for each label.            *)
(***************************************************************************)
THEOREM TypeCorrect == Spec => []TypeOK
BY Invariant, InvTypeOK, PTL

(***************************************************************************)
(* A peer is core of a cluster of its own label only, for any identifiers  *)
(* and orders, and in whatever order the messages take effect.             *)
(***************************************************************************)
THEOREM OwnLabels == Spec => []OwnLabel
<1>1. Inv => OwnLabel
  BY InvCore
<1> QED
  BY <1>1, Invariant, PTL

(***************************************************************************)
(* A core peer takes itself for one of exactly SMin core peers, whatever   *)
(* has been promoted by whom, and whatever it has been told late.          *)
(***************************************************************************)
THEOREM CoresComplete == Spec => []CoreComplete
<1>1. Inv => CoreComplete
  BY InvCore
<1> QED
  BY <1>1, Invariant, PTL

(***************************************************************************)
(* Tables and pointers name clusters with a whole core of their own label  *)
(* only, in whatever order CONNECT, DISCONNECT and SPLIT take effect.      *)
(***************************************************************************)
THEOREM NeighboursWhole == Spec => []NeighboursFit
<1>1. Inv => NeighboursFit
  BY InvNeighbours
<1> QED
  BY <1>1, Invariant, PTL
=============================================================================
