--------------------------- MODULE MembershipProofs ---------------------------
(***************************************************************************)
(* What Membership promises however many peers leave, for any sizes and    *)
(* IDs of any length: type correctness, for which the tables must be as    *)
(* long as the labels and pending merges must go on having one, and that   *)
(* no merge waits for a mutex that is kept.                                *)
(***************************************************************************)
EXTENDS Membership, RouteLemmas

(* The records of n clusters. *)
Records(n) ==
    [label : Labels, vc : SUBSET Peers, vs : SUBSET Peers, rt : Seq((1..n) \cup {None}),
     merge : BOOLEAN, freq : [Peers -> 0..SafteyValue]]

(* A table has an entry for each bit of the label, and none for its own cluster. *)
Fitting(r, c) == Len(r.rt) = Len(r.label) /\ \A i \in 1..Len(r.rt) : r.rt[i] # c

WellFormed(cs) ==
    /\ cs \in Seq(Records(Len(cs)))
    /\ \A c \in 1..Len(cs) : Fitting(cs[c], c)

(* The rest of the type invariant. *)
StateType ==
    /\ registry \in [DOMAIN registry -> Clusters] /\ DOMAIN registry \subseteq Labels
    /\ locked \subseteq Clusters
    /\ cluster \in [Peers -> Clusters \cup {None}]
    /\ type \in [Peers -> {"UNDEF", "CORE", "SPARE"}]
    /\ data \in [Peers -> SUBSET Keys]
    /\ stage \in [Peers -> {"out", "asked", "waiting", "serving"}]
    /\ spares \subseteq Peers \X Peers
    /\ adds \subseteq Peers \X Peers \X Clusters
    /\ leaving \subseteq Peers \X Clusters
    /\ merging \subseteq Clusters \X Clusters \X Peers
    /\ left \subseteq Peers
    /\ crashed \in BOOLEAN

(* Who is a member, or has a type, or is called, has a cluster. *)
MembersInv ==
    /\ \A c \in Clusters : \A q \in Members(c) : cluster[q] # None
    /\ \A e \in spares : cluster[e[1]] # None
    /\ \A q \in Peers : type[q] # "UNDEF" => cluster[q] # None

(* A cluster whose mutex is kept is to be merged, and a merge that waits has not lost its label. *)
Pending(m) ==
    /\ cl[m[1]].merge /\ cl[m[2]].merge /\ m[1] # m[2]
    /\ m[1] \in locked /\ m[2] \notin locked
    /\ Len(cl[m[1]].label) > 0

(* Merges that wait have no cluster in common. *)
Apart(m, n) == {m[1], m[2]} \cap {n[1], n[2]} = {}

MergesInv ==
    /\ \A c \in locked : cl[c].merge
    /\ \A m \in merging : Pending(m)
    /\ \A m, n \in merging : m = n \/ Apart(m, n)

Inv == WellFormed(cl) /\ StateType /\ MembersInv /\ MergesInv
-----------------------------------------------------------------------------
(* Labels and lists of clusters. *)
LEMMA LabelType ==
    /\ \A l : l \in Labels <=> l \in Seq(Bit) /\ Len(l) < M
    /\ M \in Nat \ {0}
<1>1. M \in Nat \ {0}
  BY IDAssumption
<1>2. ASSUME NEW l \in Labels PROVE l \in Seq(Bit) /\ Len(l) < M
  <2>1. PICK n \in 0..(M - 1) : l \in BitStrings(n)
    BY DEF Labels
  <2>2. l \in Seq(Bit) /\ Len(l) = n
    BY <1>1, <2>1, BitStringType
  <2> QED
    BY <1>1, <2>1, <2>2
<1>3. ASSUME NEW l \in Seq(Bit), Len(l) < M PROVE l \in Labels
  <2>1. l \in BitStrings(Len(l)) /\ Len(l) \in 0..(M - 1)
    BY <1>1, <1>3, BitStringOfSeq
  <2> QED
    BY <2>1 DEF Labels
<1> QED
  BY <1>1, <1>2, <1>3

LEMMA RootLabel == <<>> \in Labels
<1>1. <<>> \in Seq(Bit) /\ Len(<<>>) = 0
  OBVIOUS
<1>2. 0 < M
  BY LabelType
<1> QED
  BY <1>1, <1>2, LabelType

LEMMA PeerType == \A p \in Peers : p \in Seq(Bit) /\ Len(p) = M
BY IDAssumption, BitStringType DEF Peers

LEMMA RecordsGrow ==
    ASSUME NEW m \in Nat, NEW n \in Nat, m <= n
    PROVE  Records(m) \subseteq Records(n)
<1>1. Seq((1..m) \cup {None}) \subseteq Seq((1..n) \cup {None})
  BY 1..m \subseteq 1..n
<1> QED
  BY <1>1 DEF Records

LEMMA RecordFields ==
    ASSUME NEW n \in Nat, NEW r \in Records(n)
    PROVE  /\ r.label \in Labels /\ r.label \in Seq(Bit) /\ Len(r.label) \in Nat
           /\ r.vc \subseteq Peers /\ r.vs \subseteq Peers
           /\ r.rt \in Seq((1..n) \cup {None}) /\ Len(r.rt) \in Nat
           /\ \A i \in 1..Len(r.rt) : r.rt[i] \in (1..n) \cup {None}
           /\ r.merge \in BOOLEAN
           /\ r.freq \in [Peers -> 0..SafteyValue]
<1>1. r.label \in Labels /\ r.rt \in Seq((1..n) \cup {None})
  BY DEF Records
<1>2. r.label \in Seq(Bit)
  BY <1>1, LabelType
<1> DEFINE E == (1..n) \cup {None}
<1>3. Len(r.rt) \in Nat /\ \A i \in 1..Len(r.rt) : r.rt[i] \in E
  <2> HIDE DEF E
  <2>1. r.rt \in Seq(E)
    BY <1>1 DEF E
  <2> QED
    BY <2>1
<1> QED
  BY <1>1, <1>2, <1>3 DEF Records

(* TypeOK is WellFormed and StateType, except for the lengths of tables. *)
LEMMA TypeSplits == WellFormed(cl) /\ StateType => TypeOK
<1>1. SUFFICES ASSUME WellFormed(cl), StateType PROVE TypeOK
  OBVIOUS
<1>2. cl \in Seq(Records(Len(cl)))
  BY <1>1 DEF WellFormed
<1>3. DOMAIN cl = 1..Len(cl)
  <2> DEFINE R == Records(Len(cl))
  <2> HIDE DEF R
  <2>1. cl \in Seq(R)
    BY <1>2 DEF R
  <2> QED
    BY <2>1
<1>4. ClusterRecords = Records(Len(cl))
  BY <1>3 DEF ClusterRecords, Records, Clusters
<1> QED
  BY <1>1, <1>2, <1>4 DEF TypeOK, StateType

LEMMA WellFormedType ==
    ASSUME NEW cs, WellFormed(cs)
    PROVE  /\ Len(cs) \in Nat /\ DOMAIN cs = 1..Len(cs)
           /\ \A c \in 1..Len(cs) : cs[c] \in Records(Len(cs))
<1> DEFINE R == Records(Len(cs))
<1>1. cs \in Seq(R)
  BY DEF WellFormed
<1> HIDE DEF R
<1>2. Len(cs) \in Nat /\ DOMAIN cs = 1..Len(cs) /\ \A c \in 1..Len(cs) : cs[c] \in R
  BY <1>1
<1> QED
  BY <1>2 DEF R

LEMMA WellFormedOf ==
    ASSUME NEW n \in Nat, NEW cs, DOMAIN cs = 1..n, cs = [c \in 1..n |-> cs[c]],
           \A c \in 1..n : cs[c] \in Records(n) /\ Fitting(cs[c], c)
    PROVE  WellFormed(cs) /\ Len(cs) = n
<1> DEFINE R == Records(n)
<1>1. \A c \in 1..n : cs[c] \in R
  OBVIOUS
<1> HIDE DEF R
<1>2. cs \in Seq(R) /\ Len(cs) = n
  BY <1>1
<1> QED
  BY <1>2 DEF WellFormed, R
-----------------------------------------------------------------------------
(* FixAllRT: the tables of one cluster ... *)
LEMMA FixedTableType ==
    ASSUME NEW C, NEW label, NEW c \in C, Len(label[c]) \in Nat,
           NEW rt \in FixedTables(c, C, label)
    PROVE  /\ rt \in Seq((C \ {c}) \cup {None}) /\ Len(rt) = Len(label[c])
           /\ \A i \in 1..Len(label[c]) : rt[i] \in (C \ {c}) \cup {None}
<1> DEFINE L == Len(label[c])
           others == C \ {c}
           nearest == [i \in 1..L |-> Nearest(Flip(label[c], i), others, label)]
           E == others \cup {None}
<1>1. CASE others = {}
  <2>1. rt = [i \in 1..L |-> None]
    BY <1>1 DEF FixedTables
  <2>2. None \in E
    OBVIOUS
  <2> HIDE DEF E, L
  <2>3. L \in Nat
    BY DEF L
  <2>4. rt \in [1..L -> E] /\ rt \in Seq(E) /\ Len(rt) = L
    BY <2>1, <2>2, <2>3
  <2> QED
    BY <2>4 DEF E, L
<1>2. CASE others # {}
  <2>1. /\ rt \in [1..L -> UNION {nearest[i] : i \in 1..L}]
        /\ \A i \in 1..L : rt[i] \in nearest[i]
    BY <1>2 DEF FixedTables
  <2>2. \A i \in 1..L : nearest[i] \subseteq others
    BY DEF Nearest
  <2>3. DOMAIN rt = 1..L /\ rt = [i \in 1..L |-> rt[i]]
    BY <2>1
  <2>4. \A i \in 1..L : rt[i] \in E
    BY <2>1, <2>2
  <2> HIDE DEF E, L, nearest
  <2>5. L \in Nat
    BY DEF L
  <2>6. rt \in [1..L -> E] /\ rt \in Seq(E) /\ Len(rt) = L
    BY <2>3, <2>4, <2>5
  <2> QED
    BY <2>6 DEF E, L
<1> QED
  BY <1>1, <1>2

(* ... and what becomes of all clusters. *)
LabelOf(cs) == [c \in DOMAIN cs |-> cs[c].label]

LiveIn(reg) == {reg[l] : l \in DOMAIN reg}

LEMMA FixedForm ==
    ASSUME NEW cs, NEW reg, NEW fixed \in FixAllRT(cs, reg)
    PROVE  /\ DOMAIN fixed = DOMAIN cs /\ fixed = [c \in DOMAIN cs |-> fixed[c]]
           /\ \A c \in DOMAIN cs : c \notin LiveIn(reg) => fixed[c] = cs[c]
           /\ \A c \in DOMAIN cs \cap LiveIn(reg) :
                 \E rt \in FixedTables(c, LiveIn(reg), LabelOf(cs)) :
                    fixed[c] = [cs[c] EXCEPT !.rt = rt]
<1> DEFINE live == LiveIn(reg)
           tables == [c \in live |-> FixedTables(c, live, LabelOf(cs))]
           open == {c \in live : ~\E rt \in tables[c] : tables[c] = {rt}}
           choices == {t \in [open -> UNION {tables[c] : c \in open}] :
                          \A c \in open : t[c] \in tables[c]}
           Table(t, c) == IF c \in open THEN t[c] ELSE CHOOSE only \in tables[c] : TRUE
<1>1. PICK t \in choices :
         fixed = [c \in DOMAIN cs |-> IF c \notin live THEN cs[c]
                                      ELSE [cs[c] EXCEPT !.rt = Table(t, c)]]
  BY DEF FixAllRT, LiveIn, LabelOf
<1>2. ASSUME NEW c \in live PROVE Table(t, c) \in tables[c]
  <2>1. CASE c \in open
    BY <2>1, <1>1
  <2>2. CASE c \notin open
    <3>1. PICK rt : rt \in tables[c]
      BY <2>2
    <3> HIDE DEF tables
    <3> QED
      BY <2>2, <3>1
  <2> QED
    BY <2>1, <2>2
<1> HIDE DEF live, open, choices, Table
<1>3. /\ DOMAIN fixed = DOMAIN cs /\ fixed = [c \in DOMAIN cs |-> fixed[c]]
      /\ \A c \in DOMAIN cs : c \notin live => fixed[c] = cs[c]
      /\ \A c \in DOMAIN cs \cap live : fixed[c] = [cs[c] EXCEPT !.rt = Table(t, c)]
  BY <1>1
<1> QED
  BY <1>2, <1>3 DEF live

(* Two lists of clusters that differ in the routing tables only. *)
SameButTables(r, s) ==
    /\ r.label = s.label /\ r.vc = s.vc /\ r.vs = s.vs
    /\ r.merge = s.merge /\ r.freq = s.freq

LEMMA FixKeeps ==
    ASSUME NEW cs, WellFormed(cs), NEW reg, \A l \in DOMAIN reg : reg[l] \in 1..Len(cs),
           NEW fixed \in FixAllRT(cs, reg)
    PROVE  /\ WellFormed(fixed) /\ Len(fixed) = Len(cs)
           /\ \A c \in 1..Len(cs) : SameButTables(fixed[c], cs[c])
           /\ \A c \in LiveIn(reg) : fixed[c].rt \in FixedTables(c, LiveIn(reg), LabelOf(cs))
<1> DEFINE n == Len(cs)
           live == LiveIn(reg)
           label == LabelOf(cs)
<1>1. n \in Nat /\ DOMAIN cs = 1..n /\ \A c \in 1..n : cs[c] \in Records(n)
  BY WellFormedType
<1>2. live \subseteq 1..n
  BY DEF LiveIn
<1>3. /\ DOMAIN fixed = 1..n /\ fixed = [c \in 1..n |-> fixed[c]]
      /\ \A c \in 1..n : c \notin live => fixed[c] = cs[c]
      /\ \A c \in live : \E rt \in FixedTables(c, live, label) :
                            fixed[c] = [cs[c] EXCEPT !.rt = rt]
  BY <1>1, <1>2, FixedForm
<1>4. ASSUME NEW c \in 1..n
      PROVE  /\ fixed[c] \in Records(n) /\ Fitting(fixed[c], c)
             /\ SameButTables(fixed[c], cs[c])
             /\ c \in live => fixed[c].rt \in FixedTables(c, live, label)
  <2>1. CASE c \notin live
    BY <2>1, <1>1, <1>3 DEF WellFormed, SameButTables
  <2>2. CASE c \in live
    <3>1. PICK rt \in FixedTables(c, live, label) : fixed[c] = [cs[c] EXCEPT !.rt = rt]
      BY <2>2, <1>3
    <3>2. label[c] = cs[c].label /\ Len(label[c]) \in Nat
      BY <1>1, RecordFields DEF LabelOf
    <3>3. /\ rt \in Seq((live \ {c}) \cup {None}) /\ Len(rt) = Len(label[c])
          /\ \A i \in 1..Len(label[c]) : rt[i] \in (live \ {c}) \cup {None}
      BY <2>2, <3>2, FixedTableType
    <3>4. rt \in Seq((1..n) \cup {None})
      <4>1. (live \ {c}) \cup {None} \subseteq (1..n) \cup {None}
        BY <1>2
      <4> QED
        BY <3>3, <4>1
    <3>5. cs[c] \in Records(n)
      BY <1>1
    <3>6. /\ fixed[c] \in Records(n) /\ fixed[c].rt = rt
          /\ SameButTables(fixed[c], cs[c])
      <4> DEFINE R == Seq((1..n) \cup {None})
      <4> HIDE DEF R
      <4> QED
        BY <3>1, <3>4, <3>5 DEF Records, SameButTables, R
    <3>7. c # None
      BY <1>1, NoneAssumption
    <3>8. Fitting(fixed[c], c)
      BY <3>2, <3>3, <3>6, <3>7 DEF Fitting, SameButTables
    <3> QED
      BY <3>1, <3>6, <3>8
  <2> QED
    BY <2>1, <2>2
<1> HIDE DEF n
<1>5. WellFormed(fixed) /\ Len(fixed) = n
  BY <1>1, <1>3, <1>4, WellFormedOf
<1> QED
  BY <1>2, <1>4, <1>5 DEF n
-----------------------------------------------------------------------------
(* Changing one cluster, and adding one. *)
LEMMA RecordSet ==
    ASSUME NEW cs, WellFormed(cs), NEW c \in 1..Len(cs),
           NEW r \in Records(Len(cs)), Fitting(r, c)
    PROVE  /\ WellFormed([cs EXCEPT ![c] = r])
           /\ Len([cs EXCEPT ![c] = r]) = Len(cs)
<1> DEFINE n == Len(cs)
           new == [cs EXCEPT ![c] = r]
<1>1. n \in Nat /\ DOMAIN cs = 1..n /\ \A d \in 1..n : cs[d] \in Records(n)
  BY WellFormedType
<1>2. \A d \in 1..n : Fitting(cs[d], d)
  BY DEF WellFormed
<1> HIDE DEF n
<1>3. DOMAIN new = 1..n /\ new = [d \in 1..n |-> new[d]]
  BY <1>1
<1>4. \A d \in 1..n : new[d] \in Records(n) /\ Fitting(new[d], d)
  BY <1>1, <1>2 DEF n
<1> HIDE DEF new
<1>5. WellFormed(new) /\ Len(new) = n
  BY <1>1, <1>3, <1>4, WellFormedOf
<1> QED
  BY <1>5 DEF new, n

LEMMA RecordAdded ==
    ASSUME NEW cs, WellFormed(cs),
           NEW r \in Records(Len(cs) + 1), Fitting(r, Len(cs) + 1)
    PROVE  /\ WellFormed(Append(cs, r)) /\ Len(Append(cs, r)) = Len(cs) + 1
           /\ \A c \in 1..Len(cs) : Append(cs, r)[c] = cs[c]
           /\ Append(cs, r)[Len(cs) + 1] = r
<1> DEFINE n == Len(cs)
           new == Append(cs, r)
           R == Records(n + 1)
<1>1. n \in Nat /\ DOMAIN cs = 1..n /\ \A d \in 1..n : cs[d] \in Records(n + 1)
  BY WellFormedType, RecordsGrow
<1>2. \A d \in 1..n : Fitting(cs[d], d)
  BY DEF WellFormed
<1>3. cs \in Seq(R) /\ r \in R
  <2>1. Records(n) \subseteq R
    BY <1>1, RecordsGrow
  <2> QED
    BY <2>1 DEF WellFormed
<1> HIDE DEF R
<1>4. /\ DOMAIN new = 1..(n + 1) /\ new = [d \in 1..(n + 1) |-> new[d]]
      /\ \A d \in 1..n : new[d] = cs[d]
      /\ new[n + 1] = r
  <2>1. new \in Seq(R) /\ Len(new) = n + 1
    BY <1>3
  <2>2. (\A d \in 1..n : new[d] = cs[d]) /\ new[n + 1] = r
    BY <1>1, <1>3
  <2> HIDE DEF new, n
  <2> QED
    BY <2>1, <2>2
<1>5. \A d \in 1..(n + 1) : new[d] \in Records(n + 1) /\ Fitting(new[d], d)
  <2>1. \A d \in 1..(n + 1) : d \in 1..n \/ d = n + 1
    BY <1>1
  <2> QED
    BY <1>1, <1>2, <1>4, <2>1
<1> HIDE DEF n, new
<1>6. WellFormed(new) /\ Len(new) = n + 1
  BY <1>1, <1>4, <1>5, WellFormedOf
<1> QED
  BY <1>4, <1>6 DEF new, n

(* A list of clusters with the same number of them has the same references. *)
LEMMA ClustersAre ==
    ASSUME WellFormed(cl)
    PROVE  Len(cl) \in Nat /\ Clusters = 1..Len(cl) /\ None \notin Clusters
BY WellFormedType, NoneAssumption DEF Clusters

(* The initial state. *)
LEMMA InitInv == Init => Inv
<1>1. SUFFICES ASSUME Init PROVE Inv
  OBVIOUS
<1> DEFINE r == NewCluster(<<>>, Boot, {}, <<>>)
<1>2. cl = <<r>>
  BY <1>1 DEF Init
<1>3. r \in Records(1) /\ Fitting(r, 1)
  <2>1. <<>> \in Labels
    BY RootLabel
  <2>2. [p \in Peers |-> 0] \in [Peers -> 0..SafteyValue]
    BY SizeAssumption
  <2>3. <<>> \in Seq((1..1) \cup {None}) /\ Boot \subseteq Peers
    BY DEF Peers
  <2> DEFINE E == Seq((1..1) \cup {None})
  <2> HIDE DEF E
  <2>4. r \in Records(1)
    BY <2>1, <2>2, <2>3 DEF NewCluster, Records, E
  <2> QED
    BY <2>4 DEF Fitting, NewCluster
<1>4. r.label = <<>> /\ r.vc = Boot /\ r.vs = {}
  BY DEF NewCluster
<1> HIDE DEF r
<1>5. DOMAIN cl = 1..1 /\ cl = [c \in 1..1 |-> cl[c]] /\ cl[1] = r
  <2>1. DOMAIN <<r>> = 1..1 /\ <<r>>[1] = r /\ <<r>> = [c \in 1..1 |-> <<r>>[c]]
    OBVIOUS
  <2> QED
    BY <2>1, <1>2
<1>6. WellFormed(cl) /\ Len(cl) = 1
  <2>1. \A c \in 1..1 : cl[c] \in Records(1) /\ Fitting(cl[c], c)
    BY <1>3, <1>5
  <2> QED
    BY <2>1, <1>5, WellFormedOf
<1>7. Clusters = {1} /\ 1 # None
  BY <1>6, ClustersAre, NoneAssumption
<1>8. StateType
  <2>1. DOMAIN registry = {<<>>} /\ <<>> \in Labels
    BY <1>1, RootLabel DEF Init
  <2> QED
    BY <1>1, <1>7, <2>1 DEF Init, StateType, Peers
<1>9. MembersInv
  <2>1. Members(1) = Boot
    BY <1>4, <1>5 DEF Members
  <2> QED
    BY <1>1, <1>7, <2>1 DEF Init, MembersInv, Peers
<1>10. MergesInv
  BY <1>1 DEF Init, MergesInv
<1> QED
  BY <1>6, <1>8, <1>9, <1>10 DEF Inv
-----------------------------------------------------------------------------
(* What a call of Add for cluster c may do, as far as the types go. *)
AddEffect(c) ==
    /\ WellFormed(cl') /\ Len(cl) <= Len(cl')
    /\ registry' \in [DOMAIN registry' -> 1..Len(cl')] /\ DOMAIN registry' \subseteq Labels
    /\ cluster' \in [Peers -> (1..Len(cl')) \cup {None}]
    /\ type' \in [Peers -> {"UNDEF", "CORE", "SPARE"}]
    /\ data' \in [Peers -> SUBSET Keys]
    /\ stage' \in [Peers -> {"out", "asked", "waiting", "serving"}]
    /\ crashed' \in BOOLEAN
    /\ \A q \in Peers : cluster[q] # None => cluster'[q] # None
    /\ \A d \in 1..Len(cl') : \A q \in cl'[d].vc \cup cl'[d].vs : cluster'[q] # None
    /\ \A q \in Peers : type'[q] # "UNDEF" => cluster'[q] # None
    /\ \A d \in 1..Len(cl) : cl[d].merge => cl'[d].merge
    /\ \A d \in (1..Len(cl)) \ {c} : cl'[d].label = cl[d].label

LEMMA ReadyType ==
    ASSUME NEW p \in Peers, Ready(p),
           stage \in [Peers -> {"out", "asked", "waiting", "serving"}]
    PROVE  stage' \in [Peers -> {"out", "asked", "waiting", "serving"}]
BY DEF Ready

(* The count of the calls for one peer is set. *)
Recounted(cs, c, p, k) == [cs EXCEPT ![c].freq[p] = k]

SameButCounts(r, s) ==
    /\ r.label = s.label /\ r.vc = s.vc /\ r.vs = s.vs
    /\ r.rt = s.rt /\ r.merge = s.merge

LEMMA RecountedType ==
    ASSUME NEW cs, WellFormed(cs), NEW c \in 1..Len(cs), NEW p \in Peers, NEW k \in 0..SafteyValue
    PROVE  /\ WellFormed(Recounted(cs, c, p, k)) /\ Len(Recounted(cs, c, p, k)) = Len(cs)
           /\ \A d \in 1..Len(cs) : SameButCounts(Recounted(cs, c, p, k)[d], cs[d])
<1> DEFINE n == Len(cs)
           f == [cs[c].freq EXCEPT ![p] = k]
           r == [cs[c] EXCEPT !.freq = f]
<1>1. cs[c] \in Records(n) /\ DOMAIN cs = 1..n /\ Fitting(cs[c], c)
  BY WellFormedType DEF WellFormed
<1>2. f \in [Peers -> 0..SafteyValue]
  BY <1>1, RecordFields, WellFormedType
<1> HIDE DEF f
<1>3. /\ r \in Records(n) /\ r.freq = f /\ r.label = cs[c].label /\ r.vc = cs[c].vc
      /\ r.vs = cs[c].vs /\ r.rt = cs[c].rt /\ r.merge = cs[c].merge
  BY <1>1, <1>2 DEF Records
<1>4. Fitting(r, c)
  BY <1>1, <1>3 DEF Fitting
<1>5. Recounted(cs, c, p, k) = [cs EXCEPT ![c] = r]
  BY DEF Recounted, f
<1> HIDE DEF r
<1>6. WellFormed([cs EXCEPT ![c] = r]) /\ Len([cs EXCEPT ![c] = r]) = n
  BY <1>3, <1>4, RecordSet
<1>7. /\ [cs EXCEPT ![c] = r][c] = r
      /\ \A d \in 1..n : d # c => [cs EXCEPT ![c] = r][d] = cs[d]
  BY <1>1
<1> QED
  BY <1>3, <1>5, <1>6, <1>7 DEF f, SameButCounts

LEMMA RegistryType ==
    ASSUME Inv
    PROVE  /\ \A l \in DOMAIN registry : registry[l] \in 1..Len(cl)
           /\ Len(cl) \in Nat /\ Clusters = 1..Len(cl) /\ None \notin Clusters
           /\ registry \in [DOMAIN registry -> 1..Len(cl)]
<1>1. Len(cl) \in Nat /\ Clusters = 1..Len(cl) /\ None \notin Clusters
  BY ClustersAre DEF Inv
<1> QED
  BY <1>1 DEF Inv, StateType

(* Counts and tables are all that changes. *)
LEMMA OnlyClustersChange ==
    ASSUME Inv, NEW c, UNCHANGED <<registry, cluster, type, data, stage, crashed>>,
           WellFormed(cl'), Len(cl') = Len(cl),
           \A d \in 1..Len(cl) : /\ cl'[d].label = cl[d].label /\ cl'[d].vc = cl[d].vc
                                 /\ cl'[d].vs = cl[d].vs /\ cl'[d].merge = cl[d].merge
    PROVE  AddEffect(c)
<1>1. /\ Len(cl) \in Nat /\ Clusters = 1..Len(cl)
      /\ registry' \in [DOMAIN registry' -> 1..Len(cl')]
  BY RegistryType
<1>2. \A d \in 1..Len(cl') : \A q \in cl'[d].vc \cup cl'[d].vs : cluster'[q] # None
  BY <1>1 DEF Inv, MembersInv, Members
<1>3. \A q \in Peers : type'[q] # "UNDEF" => cluster'[q] # None
  BY DEF Inv, MembersInv
<1>4. /\ DOMAIN registry' \subseteq Labels
      /\ cluster' \in [Peers -> (1..Len(cl')) \cup {None}]
      /\ type' \in [Peers -> {"UNDEF", "CORE", "SPARE"}]
      /\ data' \in [Peers -> SUBSET Keys]
      /\ stage' \in [Peers -> {"out", "asked", "waiting", "serving"}]
      /\ crashed' \in BOOLEAN
  BY <1>1 DEF Inv, StateType
<1> QED
  BY <1>1, <1>2, <1>3, <1>4 DEF AddEffect

LEMMA AddIgnoredEffect ==
    ASSUME Inv, NEW p \in Peers, NEW c \in Clusters, AddIgnored(p, c)
    PROVE  AddEffect(c)
<1> DEFINE k == cl[c].freq[p] + 1
<1>1. Len(cl) \in Nat /\ c \in 1..Len(cl) /\ WellFormed(cl)
  BY RegistryType DEF Inv
<1>2. k \in 0..SafteyValue
  <2>1. cl[c] \in Records(Len(cl))
    BY <1>1, WellFormedType
  <2>3. cl[c].freq[p] \in 0..SafteyValue /\ SafteyValue \in Nat
    BY <1>1, <2>1, RecordFields, SizeAssumption
  <2>2. ~(cl[c].freq[p] + 1 > SafteyValue)
    BY DEF AddIgnored, Enough
  <2> QED
    BY <2>2, <2>3
<1>3. cl' = Recounted(cl, c, p, k)
  BY DEF AddIgnored, Recounted
<1> HIDE DEF k
<1>4. /\ WellFormed(cl') /\ Len(cl') = Len(cl)
      /\ \A d \in 1..Len(cl) : SameButCounts(cl'[d], cl[d])
  BY <1>1, <1>2, <1>3, RecountedType
<1>5. UNCHANGED <<registry, cluster, type, data, stage, crashed>>
  BY DEF AddIgnored, peerVars
<1> QED
  BY <1>1, <1>4, <1>5, OnlyClustersChange DEF SameButCounts

LEMMA AddElsewhereEffect ==
    ASSUME Inv, NEW p \in Peers, NEW c \in Clusters, AddElsewhere(p, c)
    PROVE  AddEffect(c)
<1> DEFINE cs == Recounted(cl, c, p, 0)
<1>1. /\ Len(cl) \in Nat /\ c \in 1..Len(cl) /\ WellFormed(cl)
      /\ \A l \in DOMAIN registry : registry[l] \in 1..Len(cl)
  BY RegistryType DEF Inv
<1>2. 0 \in 0..SafteyValue
  BY SizeAssumption
<1>3. /\ WellFormed(cs) /\ Len(cs) = Len(cl)
      /\ \A d \in 1..Len(cl) : SameButCounts(cs[d], cl[d])
  BY <1>1, <1>2, RecountedType
<1>4. cl' \in FixAllRT(cs, registry)
  BY DEF AddElsewhere, Recounted
<1> HIDE DEF cs
<1>5. /\ WellFormed(cl') /\ Len(cl') = Len(cs)
      /\ \A d \in 1..Len(cs) : SameButTables(cl'[d], cs[d])
  BY <1>1, <1>3, <1>4, FixKeeps
<1>6. \A d \in 1..Len(cl) : /\ cl'[d].label = cl[d].label /\ cl'[d].vc = cl[d].vc
                            /\ cl'[d].vs = cl[d].vs /\ cl'[d].merge = cl[d].merge
  BY <1>3, <1>5 DEF SameButTables, SameButCounts
<1>7. UNCHANGED <<registry, cluster, type, data, stage, crashed>>
  BY DEF AddElsewhere, peerVars
<1> QED
  BY <1>1, <1>3, <1>5, <1>6, <1>7, OnlyClustersChange
-----------------------------------------------------------------------------
(* Split: the halves' cores and spare peers were members before. *)
LEMMA HalfCoreType ==
    ASSUME NEW r, NEW b
    PROVE  HalfCore(r, b) \subseteq r.vc \cup r.vs /\ Side(r.vs, Half(r, b)) \subseteq r.vs
BY DEF HalfCore, Side, Smallest

LEMMA HalfType ==
    ASSUME NEW n \in Nat, NEW r \in Records(n), Len(r.label) + 1 # M, NEW b \in Bit
    PROVE  Half(r, b) \in Labels /\ Len(Half(r, b)) = Len(r.label) + 1
<1>1. r.label \in Seq(Bit) /\ r.label \in Labels /\ Len(r.label) \in Nat
  BY RecordFields
<1>2. Half(r, b) \in Seq(Bit) /\ Len(Half(r, b)) = Len(r.label) + 1
  BY <1>1, AppendBit DEF Half
<1>3. Len(r.label) < M /\ M \in Nat
  BY <1>1, LabelType
<1>4. Len(Half(r, b)) < M
  BY <1>1, <1>2, <1>3
<1> QED
  BY <1>2, <1>4, LabelType

(* The two records. *)
Kept(r, new, vc, vs) ==
    [r EXCEPT !.label = Half(r, 0), !.vc = vc, !.vs = vs, !.rt = Append(@, new)]

Added(r, c, vc, vs) == NewCluster(Half(r, 1), vc, vs, Append(r.rt, c))

LEMMA TableAppend ==
    ASSUME NEW n \in Nat, NEW r \in Records(n), NEW x \in 1..(n + 1)
    PROVE  /\ Append(r.rt, x) \in Seq((1..(n + 1)) \cup {None})
           /\ Len(Append(r.rt, x)) = Len(r.rt) + 1
           /\ \A i \in 1..(Len(r.rt) + 1) :
                 Append(r.rt, x)[i] = IF i <= Len(r.rt) THEN r.rt[i] ELSE x
<1> DEFINE E == (1..(n + 1)) \cup {None}
<1>1. r.rt \in Seq(E)
  <2>1. Records(n) \subseteq Records(n + 1)
    BY RecordsGrow
  <2> QED
    BY <2>1, RecordFields
<1>2. x \in E
  OBVIOUS
<1> HIDE DEF E
<1>3. Append(r.rt, x) \in Seq(E) /\ Len(Append(r.rt, x)) = Len(r.rt) + 1
  BY <1>1, <1>2
<1>4. \A i \in 1..(Len(r.rt) + 1) :
         Append(r.rt, x)[i] = IF i <= Len(r.rt) THEN r.rt[i] ELSE x
  BY <1>1, <1>2
<1> QED
  BY <1>3, <1>4 DEF E

LEMMA HalvesType ==
    ASSUME NEW n \in Nat, NEW r \in Records(n), NEW c \in 1..n, Fitting(r, c),
           Len(r.label) + 1 # M,
           NEW vc, NEW vs, vc \subseteq Peers, vs \subseteq Peers
    PROVE  /\ Kept(r, n + 1, vc, vs) \in Records(n + 1)
           /\ Fitting(Kept(r, n + 1, vc, vs), c)
           /\ Added(r, c, vc, vs) \in Records(n + 1)
           /\ Fitting(Added(r, c, vc, vs), n + 1)
<1> DEFINE R == Seq((1..(n + 1)) \cup {None})
           rtK == Append(r.rt, n + 1)
           rtA == Append(r.rt, c)
           F == [Peers -> 0..SafteyValue]
           lK == Half(r, 0)
           lA == Half(r, 1)
<1>1. n + 1 \in 1..(n + 1) /\ c \in 1..(n + 1) /\ c # n + 1 /\ n + 1 \notin 1..n
  OBVIOUS
<1>2. /\ rtK \in R /\ Len(rtK) = Len(r.rt) + 1
      /\ \A i \in 1..(Len(r.rt) + 1) : rtK[i] = IF i <= Len(r.rt) THEN r.rt[i] ELSE n + 1
      /\ rtA \in R /\ Len(rtA) = Len(r.rt) + 1
      /\ \A i \in 1..(Len(r.rt) + 1) : rtA[i] = IF i <= Len(r.rt) THEN r.rt[i] ELSE c
  BY <1>1, TableAppend
<1>3. /\ lK \in Labels /\ Len(lK) = Len(r.label) + 1
      /\ lA \in Labels /\ Len(lA) = Len(r.label) + 1
  BY HalfType DEF Bit
<1>4. /\ Len(r.rt) \in Nat /\ Len(r.rt) = Len(r.label)
      /\ \A i \in 1..Len(r.rt) : r.rt[i] # c /\ r.rt[i] # n + 1
  <2>1. n + 1 # None
    BY NoneAssumption
  <2>2. Len(r.rt) \in Nat /\ \A i \in 1..Len(r.rt) : r.rt[i] \in (1..n) \cup {None}
    BY RecordFields
  <2> QED
    BY <2>1, <2>2, <1>1 DEF Fitting
<1>5. [p \in Peers |-> 0] \in F
  BY SizeAssumption
<1> HIDE DEF R, rtK, rtA, F, lK, lA
<1>6. Kept(r, n + 1, vc, vs) \in Records(n + 1)
  <2>1. Kept(r, n + 1, vc, vs) = [label |-> lK, vc |-> vc, vs |-> vs, rt |-> rtK,
                                  merge |-> r.merge, freq |-> r.freq]
    <3>1. Kept(r, n + 1, vc, vs) = [r EXCEPT !.label = lK, !.vc = vc, !.vs = vs, !.rt = rtK]
      BY DEF Kept, lK, rtK
    <3>2. r = [label |-> r.label, vc |-> r.vc, vs |-> r.vs, rt |-> r.rt,
               merge |-> r.merge, freq |-> r.freq]
      BY DEF Records
    <3> QED
      BY <3>1, <3>2
  <2>2. Records(n + 1) = [label : Labels, vc : SUBSET Peers, vs : SUBSET Peers, rt : R,
                          merge : BOOLEAN, freq : F]
    BY DEF Records, R, F
  <2>3. r.merge \in BOOLEAN /\ r.freq \in F
    BY RecordFields DEF F
  <2> QED
    BY <1>2, <1>3, <2>1, <2>2, <2>3
<1>7. /\ Kept(r, n + 1, vc, vs).label = lK /\ Kept(r, n + 1, vc, vs).rt = rtK
      /\ Added(r, c, vc, vs).label = lA /\ Added(r, c, vc, vs).rt = rtA
  BY DEF Kept, Added, NewCluster, lK, lA, rtK, rtA, Records
<1>8. Added(r, c, vc, vs) \in Records(n + 1)
  <2>1. Added(r, c, vc, vs) = [label |-> lA, vc |-> vc, vs |-> vs, rt |-> rtA, merge |-> FALSE,
                                freq |-> [p \in Peers |-> 0]]
    BY DEF Added, NewCluster, lA, rtA
  <2>2. Records(n + 1) = [label : Labels, vc : SUBSET Peers, vs : SUBSET Peers, rt : R,
                          merge : BOOLEAN, freq : F]
    BY DEF Records, R, F
  <2> QED
    BY <1>2, <1>3, <1>5, <2>1, <2>2
<1>9. Fitting(Kept(r, n + 1, vc, vs), c)
  <2>1. Len(rtK) = Len(lK)
    BY <1>2, <1>3, <1>4
  <2>2. \A i \in 1..(Len(r.rt) + 1) : rtK[i] # c
    BY <1>1, <1>2, <1>4
  <2>3. \A i \in 1..Len(rtK) : rtK[i] # c
    BY <1>2, <2>2
  <2> QED
    BY <1>7, <2>1, <2>3 DEF Fitting
<1>10. Fitting(Added(r, c, vc, vs), n + 1)
  BY <1>2, <1>3, <1>4, <1>7, <1>1 DEF Fitting
<1> QED
  BY <1>6, <1>8, <1>9, <1>10

(* Labels in the registry, and what they lead to, when some are registered and some not. *)
LEMMA RegisteredType ==
    ASSUME NEW reg, NEW l, NEW c
    PROVE  /\ DOMAIN Registered(l, c, reg) = DOMAIN reg \cup {l}
           /\ Registered(l, c, reg) = [m \in DOMAIN reg \cup {l} |-> IF m = l THEN c ELSE reg[m]]
BY DEF Registered

LEMMA UnregisteredType ==
    ASSUME NEW reg, NEW ls
    PROVE  /\ DOMAIN Unregistered(ls, reg) = DOMAIN reg \ ls
           /\ Unregistered(ls, reg) = [m \in DOMAIN reg \ ls |-> reg[m]]
BY DEF Unregistered, Restrict

(* The registry after a split. *)
SplitRegistry(reg, old, kept, added, c, new) ==
    LET register == IF added \in DOMAIN reg THEN reg ELSE Registered(added, new, reg)
    IN  Registered(kept, c, Unregistered({old}, register))

SplitLabels(reg, old, kept, added) == ((DOMAIN reg \cup {added}) \ {old}) \cup {kept}

LEMMA SplitRegistryType ==
    ASSUME NEW reg, NEW old, NEW kept, NEW added, NEW c, NEW new,
           NEW sr, sr = SplitRegistry(reg, old, kept, added, c, new)
    PROVE  /\ DOMAIN sr = SplitLabels(reg, old, kept, added)
           /\ sr = [m \in DOMAIN sr |-> sr[m]]
           /\ \A m \in DOMAIN sr : sr[m] = IF m = kept THEN c
                                           ELSE IF m \in DOMAIN reg THEN reg[m] ELSE new
<1> DEFINE register == IF added \in DOMAIN reg THEN reg ELSE Registered(added, new, reg)
           un == Unregistered({old}, register)
           D == ((DOMAIN reg \cup {added}) \ {old}) \cup {kept}
<1>a. sr = Registered(kept, c, un)
  BY DEF SplitRegistry
<1>1. /\ DOMAIN register = DOMAIN reg \cup {added}
      /\ \A m \in DOMAIN reg \cup {added} :
            register[m] = IF m \in DOMAIN reg THEN reg[m] ELSE new
  <2>1. CASE added \in DOMAIN reg
    BY <2>1
  <2>2. CASE added \notin DOMAIN reg
    <3>1. register = Registered(added, new, reg)
      BY <2>2
    <3>2. register = [m \in DOMAIN reg \cup {added} |-> IF m = added THEN new ELSE reg[m]]
      BY <3>1 DEF Registered
    <3> HIDE DEF register
    <3> QED
      BY <2>2, <3>2
  <2> QED
    BY <2>1, <2>2
<1> HIDE DEF register
<1>2. un = [m \in (DOMAIN reg \cup {added}) \ {old} |-> register[m]]
  <2>1. un = [m \in DOMAIN register \ {old} |-> register[m]]
    BY UnregisteredType, Zenon
  <2> QED
    BY <1>1, <2>1
<1>3. DOMAIN un = (DOMAIN reg \cup {added}) \ {old}
  BY <1>2
<1> HIDE DEF un
<1>4. sr = [m \in D |-> IF m = kept THEN c ELSE un[m]]
  <2>1. sr = [m \in DOMAIN un \cup {kept} |-> IF m = kept THEN c ELSE un[m]]
    BY <1>a DEF Registered
  <2>2. DOMAIN un \cup {kept} = D
    BY <1>3
  <2> HIDE DEF D
  <2> QED
    BY <2>1, <2>2
<1>5. DOMAIN sr = D /\ sr = [m \in D |-> sr[m]]
  BY <1>4
<1>6. \A m \in D : sr[m] = IF m = kept THEN c
                           ELSE IF m \in DOMAIN reg THEN reg[m] ELSE new
  BY <1>1, <1>2, <1>4
<1> QED
  BY <1>5, <1>6 DEF SplitLabels

(* The clusters after a split, before FixAllRT. *)
LEMMA SplitWellFormed ==
    ASSUME NEW cs, WellFormed(cs), NEW c \in 1..Len(cs),
           NEW kept \in Records(Len(cs) + 1), Fitting(kept, c),
           NEW added \in Records(Len(cs) + 1), Fitting(added, Len(cs) + 1)
    PROVE  LET new == Append([cs EXCEPT ![c] = kept], added) IN
           /\ WellFormed(new) /\ Len(new) = Len(cs) + 1
           /\ new[c] = kept /\ new[Len(cs) + 1] = added
           /\ \A d \in (1..Len(cs)) \ {c} : new[d] = cs[d]
<1> DEFINE n == Len(cs)
           R == Records(n + 1)
           mid == [cs EXCEPT ![c] = kept]
           new == Append(mid, added)
<1>1. n \in Nat /\ DOMAIN cs = 1..n /\ \A d \in 1..n : cs[d] \in R
  BY WellFormedType, RecordsGrow
<1>2. cs \in Seq(R)
  BY <1>1, WellFormedType, RecordsGrow DEF WellFormed
<1>3. \A d \in 1..n : Fitting(cs[d], d)
  BY DEF WellFormed
<1> HIDE DEF R
<1>4. kept \in R /\ added \in R
  BY DEF R
<1>5. mid \in Seq(R) /\ Len(mid) = n /\ mid[c] = kept /\ \A d \in (1..n) \ {c} : mid[d] = cs[d]
  BY <1>1, <1>2, <1>4
<1> HIDE DEF mid
<1>6. /\ new \in Seq(R) /\ Len(new) = n + 1 /\ new[n + 1] = added
      /\ \A d \in 1..n : new[d] = mid[d]
  BY <1>1, <1>4, <1>5
<1> HIDE DEF new, n
<1>7. new[c] = kept /\ \A d \in (1..n) \ {c} : new[d] = cs[d]
  BY <1>5, <1>6 DEF n
<1>8. DOMAIN new = 1..(n + 1) /\ new = [d \in 1..(n + 1) |-> new[d]]
  BY <1>6
<1>9. \A d \in 1..(n + 1) : new[d] \in R /\ Fitting(new[d], d)
  <2>1. \A d \in 1..(n + 1) : d = c \/ d = n + 1 \/ d \in (1..n) \ {c}
    BY <1>1
  <2> QED
    BY <1>1, <1>3, <1>4, <1>6, <1>7, <2>1 DEF n
<1>10. WellFormed(new) /\ Len(new) = n + 1
  BY <1>1, <1>8, <1>9, WellFormedOf DEF R
<1> QED
  BY <1>6, <1>7, <1>10 DEF new, mid, n

LEMMA SplitEffect ==
    ASSUME Inv, NEW c \in Clusters,
           NEW old \in Records(Len(cl)), Fitting(old, c), old.merge = cl[c].merge,
           Len(old.label) + 1 # M,
           NEW clusters \in [Peers -> Clusters \cup {None}],
           NEW types \in [Peers -> {"UNDEF", "CORE", "SPARE"}],
           \A q \in Peers : cluster[q] # None => clusters[q] # None,
           \A q \in old.vc \cup old.vs : clusters[q] # None,
           \A q \in Peers : types[q] # "UNDEF" => clusters[q] # None,
           stage' \in [Peers -> {"out", "asked", "waiting", "serving"}],
           Split(c, old, clusters, types)
    PROVE  AddEffect(c)
<1> DEFINE n == Len(cl)
           new == n + 1
           core == [b \in Bit |-> HalfCore(old, b)]
           rest == [b \in Bit |-> Side(old.vs, Half(old, b)) \ core[b]]
           kept == Kept(old, new, core[0], rest[0])
           added == Added(old, c, core[1], rest[1])
           cs == Append([cl EXCEPT ![c] = kept], added)
<1>1. n \in Nat /\ c \in 1..n /\ Clusters = 1..n /\ WellFormed(cl) /\ None \notin 1..n
  BY RegistryType DEF Inv
<1>2. \A b \in Bit : core[b] \subseteq old.vc \cup old.vs /\ rest[b] \subseteq old.vs
  BY HalfCoreType
<1>3. old.vc \subseteq Peers /\ old.vs \subseteq Peers /\ old.label \in Labels
  BY <1>1, RecordFields
<1>4. 0 \in Bit /\ 1 \in Bit
  BY DEF Bit
<1>5. /\ cl' \in FixAllRT(cs, registry')
      /\ registry' = SplitRegistry(registry, old.label, Half(old, 0), Half(old, 1), c, new)
  <2>1. kept.label = Half(old, 0) /\ added.label = Half(old, 1)
    BY DEF Kept, Added, NewCluster, Records
  <2> QED
    BY <2>1 DEF Split, Kept, Added, SplitRegistry
<1>6. /\ cluster' = [q \in Peers |-> IF q \in core[1] \cup rest[1] THEN new ELSE clusters[q]]
      /\ type' = [q \in Peers |-> IF q \in core[1] THEN "CORE"
                                   ELSE IF q \in rest[1] THEN "SPARE" ELSE types[q]]
      /\ crashed' \in BOOLEAN
  BY DEF Split
<1>7. data' \in [Peers -> SUBSET Keys]
  <2>1. PICK copy \in [Bit -> core[0] \cup core[1]] :
           data' = [q \in Peers |->
                      IF q \in core[0] \cup core[1]
                      THEN {k \in data[copy[q[Len(old.label) + 1]]] :
                              IsPrefixOf(Half(old, q[Len(old.label) + 1]), k)}
                      ELSE data[q]]
    BY DEF Split
  <2>2. core[0] \cup core[1] \subseteq Peers
    BY <1>2, <1>3, <1>4
  <2>3. data \in [Peers -> SUBSET Keys]
    BY DEF Inv, StateType
  <2>4. ASSUME NEW q \in Peers, q \in core[0] \cup core[1]
        PROVE  copy[q[Len(old.label) + 1]] \in Peers
    <3>1. q \in Seq(Bit) /\ Len(q) = M
      BY PeerType
    <3>2. Len(old.label) + 1 \in 1..M
      <4>1. Len(old.label) \in Nat /\ Len(old.label) < M /\ M \in Nat
        BY <1>3, LabelType
      <4> QED
        BY <4>1
    <3>3. q[Len(old.label) + 1] \in Bit
      BY <3>1, <3>2
    <3> QED
      BY <2>1, <2>2, <3>3
  <2> HIDE DEF core
  <2> QED
    BY <2>1, <2>3, <2>4
<1> HIDE DEF core, rest
<1>8. /\ kept \in Records(n + 1) /\ Fitting(kept, c)
      /\ added \in Records(n + 1) /\ Fitting(added, n + 1)
  <2>1. /\ core[0] \subseteq Peers /\ core[1] \subseteq Peers
        /\ rest[0] \subseteq Peers /\ rest[1] \subseteq Peers
    BY <1>2, <1>3, <1>4
  <2> QED
    BY <2>1, <1>1, HalvesType
<1>9. /\ kept.vc = core[0] /\ kept.vs = rest[0] /\ kept.merge = old.merge
      /\ added.vc = core[1] /\ added.vs = rest[1]
  BY DEF Kept, Added, NewCluster, Records
<1> HIDE DEF kept, added
<1>10. /\ WellFormed(cs) /\ Len(cs) = new
       /\ cs[c] = kept /\ cs[new] = added
       /\ \A d \in (1..n) \ {c} : cs[d] = cl[d]
  BY <1>1, <1>8, SplitWellFormed
<1> HIDE DEF cs
<1>11. /\ registry' \in [DOMAIN registry' -> 1..new] /\ DOMAIN registry' \subseteq Labels
       /\ \A l \in DOMAIN registry' : registry'[l] \in 1..new
  <2> DEFINE D == DOMAIN registry'
  <2>1. /\ D = SplitLabels(registry, old.label, Half(old, 0), Half(old, 1))
        /\ registry' = [m \in D |-> registry'[m]]
        /\ \A m \in D : registry'[m] = IF m = Half(old, 0) THEN c
                                        ELSE IF m \in DOMAIN registry THEN registry[m] ELSE new
    BY <1>5, SplitRegistryType
  <2>2. \A l \in DOMAIN registry : registry[l] \in 1..n
    BY RegistryType
  <2>3. new \in 1..new /\ c \in 1..new /\ 1..n \subseteq 1..new
    BY <1>1
  <2>4. \A m \in D : registry'[m] \in 1..new
    BY <2>1, <2>2, <2>3
  <2>5. D \subseteq Labels
    BY <1>1, <1>4, <2>1, HalfType DEF Inv, StateType, SplitLabels
  <2> HIDE DEF D
  <2> QED
    BY <2>1, <2>4, <2>5
<1>12. /\ WellFormed(cl') /\ Len(cl') = new
       /\ \A d \in 1..new : SameButTables(cl'[d], cs[d])
  BY <1>5, <1>10, <1>11, FixKeeps
<1>13. new # None /\ new \in Nat /\ 1..n \subseteq 1..new /\ new \in 1..new
  BY <1>1, NoneAssumption
<1>14. \A q \in Peers : clusters[q] # None => cluster'[q] # None
  BY <1>6, <1>13
<1>15. \A q \in core[1] \cup rest[1] \cup core[0] \cup rest[0] : cluster'[q] # None
  BY <1>2, <1>3, <1>4, <1>14
<1>16. cluster' \in [Peers -> (1..new) \cup {None}]
  BY <1>1, <1>6, <1>13
<1>17. type' \in [Peers -> {"UNDEF", "CORE", "SPARE"}]
  BY <1>6
<1>18. \A q \in Peers : type'[q] # "UNDEF" => cluster'[q] # None
  BY <1>6, <1>14, <1>15
<1>19. \A d \in 1..new : \A q \in cl'[d].vc \cup cl'[d].vs : cluster'[q] # None
  <2>1. ASSUME NEW d \in 1..new PROVE \A q \in cs[d].vc \cup cs[d].vs : cluster'[q] # None
    <3>1. CASE d = c
      BY <3>1, <1>9, <1>10, <1>15
    <3>2. CASE d = new
      BY <3>2, <1>9, <1>10, <1>15
    <3>3. CASE d \in (1..n) \ {c}
      <4>1. \A q \in cl[d].vc \cup cl[d].vs : cluster[q] # None /\ q \in Peers
        <5>1. cl[d] \in Records(n)
          BY <1>1, <3>3, WellFormedType
        <5> QED
          BY <1>1, <3>3, <5>1, RecordFields DEF Inv, MembersInv, Members
      <4> QED
        BY <3>3, <4>1, <1>10, <1>14
    <3> QED
      BY <3>1, <3>2, <3>3, <1>1
  <2> QED
    BY <2>1, <1>12 DEF SameButTables
<1>20. \A d \in 1..n : cl[d].merge => cl'[d].merge
  BY <1>9, <1>10, <1>12, <1>13 DEF SameButTables
<1>21. \A d \in (1..n) \ {c} : cl'[d].label = cl[d].label
  BY <1>10, <1>12, <1>13 DEF SameButTables
<1>22. n <= new
  BY <1>1
<1> QED
  BY <1>6, <1>7, <1>11, <1>12, <1>14, <1>16, <1>17, <1>18, <1>19, <1>20, <1>21, <1>22
     DEF AddEffect
-----------------------------------------------------------------------------
(* The record of c with p a spare peer and its count reset. *)
Joined(r, p) == [r EXCEPT !.freq[p] = 0, !.vs = @ \cup {p}]

LEMMA JoinedType ==
    ASSUME NEW n \in Nat, NEW r \in Records(n), NEW p \in Peers
    PROVE  /\ Joined(r, p) \in Records(n)
           /\ Joined(r, p).label = r.label /\ Joined(r, p).rt = r.rt
           /\ Joined(r, p).vc = r.vc /\ Joined(r, p).vs = r.vs \cup {p}
           /\ Joined(r, p).merge = r.merge
<1> DEFINE f == [r.freq EXCEPT ![p] = 0]
           F == [Peers -> 0..SafteyValue]
           R == Seq((1..n) \cup {None})
<1>1. f \in F
  <2>1. r.freq \in F
    BY RecordFields
  <2>2. 0 \in 0..SafteyValue
    BY SizeAssumption
  <2> QED
    BY <2>1, <2>2
<1>2. r = [label |-> r.label, vc |-> r.vc, vs |-> r.vs, rt |-> r.rt,
           merge |-> r.merge, freq |-> r.freq]
  BY DEF Records
<1>3. /\ r.label \in Labels /\ r.vc \subseteq Peers /\ r.vs \subseteq Peers
      /\ r.rt \in R /\ r.merge \in BOOLEAN
  BY RecordFields
<1> HIDE DEF R, F
<1>4. Joined(r, p) = [label |-> r.label, vc |-> r.vc, vs |-> r.vs \cup {p}, rt |-> r.rt,
                      merge |-> r.merge, freq |-> f]
  <2>1. Joined(r, p) = [r EXCEPT !.freq = f, !.vs = r.vs \cup {p}]
    BY DEF Joined
  <2> HIDE DEF f
  <2> QED
    BY <1>2, <2>1
<1> HIDE DEF f
<1>5. r.vs \cup {p} \subseteq Peers
  BY <1>3
<1>6. Joined(r, p) \in Records(n)
  BY <1>1, <1>3, <1>4, <1>5 DEF Records, F, R
<1> QED
  BY <1>4, <1>6

LEMMA AddSpareEffect ==
    ASSUME Inv, NEW p \in Peers, NEW c \in Clusters, AddSpare(p, c)
    PROVE  AddEffect(c)
<1> DEFINE n == Len(cl)
           old == Joined(cl[c], p)
           clusters == [cluster EXCEPT ![p] = c]
           types == [type EXCEPT ![p] = "SPARE"]
<1>1. n \in Nat /\ c \in 1..n /\ Clusters = 1..n /\ WellFormed(cl) /\ None \notin Clusters
  BY RegistryType DEF Inv
<1>2. cl[c] \in Records(n) /\ Fitting(cl[c], c)
  BY <1>1, WellFormedType DEF WellFormed
<1>3. /\ old \in Records(n) /\ old.label = cl[c].label /\ old.rt = cl[c].rt
      /\ old.vc = cl[c].vc /\ old.vs = cl[c].vs \cup {p} /\ old.merge = cl[c].merge
  BY <1>1, <1>2, JoinedType
<1>4. Fitting(old, c)
  BY <1>2, <1>3 DEF Fitting
<1>5. stage' \in [Peers -> {"out", "asked", "waiting", "serving"}]
  BY ReadyType DEF Inv, StateType, AddSpare
<1>6. /\ clusters \in [Peers -> Clusters \cup {None}]
      /\ types \in [Peers -> {"UNDEF", "CORE", "SPARE"}]
      /\ \A q \in Peers : cluster[q] # None => clusters[q] # None
      /\ clusters[p] # None
      /\ \A q \in Peers : types[q] # "UNDEF" => clusters[q] # None
  BY <1>1 DEF Inv, StateType, MembersInv
<1>7. \A q \in old.vc \cup old.vs : clusters[q] # None
  <2>1. \A q \in cl[c].vc \cup cl[c].vs : q \in Peers /\ cluster[q] # None
    BY <1>1, <1>2, RecordFields DEF Inv, MembersInv, Members
  <2> HIDE DEF old, clusters
  <2> QED
    BY <2>1, <1>3, <1>6
<1>8. \/ IsSplit(old) /\ Split(c, old, clusters, types)
      \/ /\ ~IsSplit(old)
         /\ cl' \in FixAllRT([cl EXCEPT ![c] = old], registry)
         /\ cluster' = clusters /\ type' = types
         /\ UNCHANGED <<registry, data, crashed>>
  BY DEF AddSpare, Joined
<1> HIDE DEF old
<1>9. CASE IsSplit(old) /\ Split(c, old, clusters, types)
  <2>1. Len(old.label) + 1 # M
    BY <1>9 DEF IsSplit
  <2> HIDE DEF clusters, types
  <2> QED
    BY <2>1, <1>1, <1>3, <1>4, <1>5, <1>6, <1>7, <1>9, SplitEffect
<1>10. CASE /\ cl' \in FixAllRT([cl EXCEPT ![c] = old], registry)
            /\ cluster' = clusters /\ type' = types
            /\ UNCHANGED <<registry, data, crashed>>
  <2> DEFINE cs == [cl EXCEPT ![c] = old]
  <2>1. WellFormed(cs) /\ Len(cs) = n
    BY <1>1, <1>3, <1>4, RecordSet
  <2>2. cs[c] = old /\ \A d \in 1..n : d # c => cs[d] = cl[d]
    BY <1>1, WellFormedType
  <2> HIDE DEF cs
  <2>3. \A l \in DOMAIN registry : registry[l] \in 1..n
    BY RegistryType
  <2>4. /\ WellFormed(cl') /\ Len(cl') = n
        /\ \A d \in 1..n : SameButTables(cl'[d], cs[d])
    BY <1>10, <2>1, <2>3, FixKeeps DEF cs
  <2>5. \A d \in 1..n : \A q \in cl'[d].vc \cup cl'[d].vs : cluster'[q] # None
    <3>1. ASSUME NEW d \in 1..n PROVE \A q \in cs[d].vc \cup cs[d].vs : cluster'[q] # None
      <4>1. CASE d = c
        BY <4>1, <2>2, <1>7, <1>10
      <4>2. CASE d # c
        <5>1. cl[d] \in Records(n)
          BY <1>1, WellFormedType
        <5>2. \A q \in cl[d].vc \cup cl[d].vs : q \in Peers /\ cluster[q] # None
          BY <1>1, <5>1, RecordFields DEF Inv, MembersInv, Members
        <5> HIDE DEF clusters
        <5> QED
          BY <4>2, <5>2, <2>2, <1>6, <1>10
      <4> QED
        BY <4>1, <4>2
    <3> QED
      BY <3>1, <2>4 DEF SameButTables
  <2>6. /\ \A d \in 1..n : cl[d].merge => cl'[d].merge
        /\ \A d \in (1..n) \ {c} : cl'[d].label = cl[d].label
    BY <1>3, <2>2, <2>4 DEF SameButTables
  <2>7. registry' \in [DOMAIN registry' -> 1..n] /\ DOMAIN registry' \subseteq Labels
    BY <1>10, RegistryType DEF Inv, StateType
  <2>8. data' \in [Peers -> SUBSET Keys] /\ crashed' \in BOOLEAN
    BY <1>10 DEF Inv, StateType
  <2> HIDE DEF clusters, types
  <2> QED
    BY <1>1, <1>5, <1>6, <1>10, <2>4, <2>5, <2>6, <2>7, <2>8 DEF AddEffect
<1> QED
  BY <1>8, <1>9, <1>10

(* A call of Add as a whole. *)
LEMMA AddInv ==
    ASSUME Inv, NEW q \in Peers, NEW p \in Peers, NEW c \in Clusters, Add(q, p, c)
    PROVE  Inv'
<1>1. AddEffect(c)
  BY AddIgnoredEffect, AddElsewhereEffect, AddSpareEffect DEF Add
<1>2. /\ adds' \subseteq adds /\ c \notin locked
      /\ UNCHANGED <<locked, spares, leaving, merging, left>>
  BY DEF Add
<1>3. Len(cl) \in Nat /\ Clusters = 1..Len(cl)
  BY RegistryType
<1>4. Len(cl') \in Nat /\ Clusters' = 1..Len(cl') /\ Clusters \subseteq Clusters'
  <2>1. WellFormed(cl')
    BY <1>1 DEF AddEffect
  <2>2. Len(cl') \in Nat /\ DOMAIN cl' = 1..Len(cl')
    BY <2>1, WellFormedType
  <2> QED
    BY <1>1, <1>3, <2>2 DEF AddEffect, Clusters
<1>5. StateType'
  <2>1. adds' \subseteq Peers \X Peers \X Clusters'
    BY <1>2, <1>4 DEF Inv, StateType
  <2>2. /\ leaving' \subseteq Peers \X Clusters'
        /\ merging' \subseteq Clusters' \X Clusters' \X Peers
        /\ locked' \subseteq Clusters'
        /\ spares' \subseteq Peers \X Peers /\ left' \subseteq Peers
    BY <1>2, <1>4 DEF Inv, StateType
  <2> QED
    BY <2>1, <2>2, <1>1, <1>4 DEF StateType, AddEffect
<1>6. MembersInv'
  <2>1. \A e \in spares' : cluster'[e[1]] # None
    BY <1>1, <1>2 DEF Inv, StateType, MembersInv, AddEffect
  <2>2. \A d \in Clusters' : \A x \in cl'[d].vc \cup cl'[d].vs : cluster'[x] # None
    BY <1>1, <1>4 DEF AddEffect
  <2> QED
    BY <2>1, <2>2, <1>1 DEF MembersInv, AddEffect, Members
<1>7. MergesInv'
  <2>1. \A m \in merging : /\ m[1] \in 1..Len(cl) /\ m[2] \in 1..Len(cl) /\ Pending(m) /\ m[1] # c
    BY <1>2, <1>3 DEF Inv, StateType, MergesInv, Pending
  <2>2. \A m \in merging : Pending(m)'
    BY <2>1, <1>1, <1>2 DEF Pending, AddEffect
  <2>3. \A d \in locked : cl'[d].merge
    BY <1>1, <1>3 DEF Inv, StateType, MergesInv, AddEffect
  <2> QED
    BY <2>2, <2>3, <1>2 DEF Inv, MergesInv, Apart
<1> QED
  BY <1>1, <1>5, <1>6, <1>7 DEF Inv, AddEffect
-----------------------------------------------------------------------------
(* The steps that leave the clusters as they are. *)
LEMMA JoinInv ==
    ASSUME Inv, NEW p \in Peers, Join(p)
    PROVE  Inv'
<1>1. UNCHANGED <<cl, registry, locked, cluster, type, data, adds, leaving, merging, left, crashed>>
  BY DEF Join, clusterVars
<1>2. PICK c \in Live : spares' = spares \cup (cl[c].vc \X {p})
  BY DEF Join
<1>3. c \in Clusters /\ Clusters = 1..Len(cl) /\ Clusters' = Clusters
  BY <1>1, RegistryType DEF Live, Clusters
<1>4. cl[c].vc \subseteq Peers /\ \A q \in cl[c].vc : cluster[q] # None
  <2>1. cl[c] \in Records(Len(cl)) /\ Len(cl) \in Nat
    BY <1>3, WellFormedType DEF Inv
  <2> QED
    BY <2>1, <1>3, RecordFields DEF Inv, MembersInv, Members
<1>5. spares' \subseteq Peers \X Peers /\ \A e \in spares' : cluster[e[1]] # None
  BY <1>2, <1>4 DEF Inv, StateType, MembersInv
<1>6. stage' \in [Peers -> {"out", "asked", "waiting", "serving"}]
  BY DEF Inv, StateType, Join
<1>7. StateType'
  BY <1>1, <1>3, <1>5, <1>6 DEF Inv, StateType
<1>8. MembersInv'
  BY <1>1, <1>3, <1>5 DEF Inv, MembersInv, Members
<1>9. MergesInv'
  BY <1>1 DEF Inv, MergesInv, Pending, Apart
<1> QED
  BY <1>1, <1>7, <1>8, <1>9 DEF Inv

LEMMA AwaitReadyInv ==
    ASSUME Inv, NEW p \in Peers, AwaitReady(p)
    PROVE  Inv'
<1>1. UNCHANGED <<cl, registry, locked, cluster, type, data, spares, adds, leaving, merging, left, crashed>>
  BY DEF AwaitReady, clusterVars, callVars
<1>2. stage' \in [Peers -> {"out", "asked", "waiting", "serving"}]
  BY DEF Inv, StateType, AwaitReady
<1>3. Clusters' = Clusters
  BY <1>1 DEF Clusters
<1>4. StateType'
  BY <1>1, <1>2, <1>3 DEF Inv, StateType
<1>5. MembersInv'
  BY <1>1, <1>3 DEF Inv, MembersInv, Members
<1>6. MergesInv'
  BY <1>1 DEF Inv, MergesInv, Pending, Apart
<1> QED
  BY <1>1, <1>4, <1>5, <1>6 DEF Inv

LEMMA FireJoinSpareInv ==
    ASSUME Inv, NEW q \in Peers, NEW p \in Peers, FireJoinSpare(q, p)
    PROVE  Inv'
<1>1. UNCHANGED <<cl, registry, locked, cluster, type, data, stage, leaving, merging, left, crashed>>
  BY DEF FireJoinSpare, clusterVars, peerVars
<1>2. Clusters' = Clusters
  BY <1>1 DEF Clusters
<1>3. cluster[q] \in Clusters
  BY DEF Inv, StateType, MembersInv, FireJoinSpare
<1>4. /\ adds' \subseteq Peers \X Peers \X Clusters
      /\ spares' \subseteq spares
  BY <1>3 DEF Inv, StateType, FireJoinSpare
<1>5. StateType'
  BY <1>1, <1>2, <1>4 DEF Inv, StateType
<1>6. MembersInv'
  BY <1>1, <1>2, <1>4 DEF Inv, MembersInv, Members
<1>7. MergesInv'
  BY <1>1 DEF Inv, MergesInv, Pending, Apart
<1> QED
  BY <1>1, <1>5, <1>6, <1>7 DEF Inv

LEMMA PutInv ==
    ASSUME Inv, NEW p \in Peers, NEW k \in Keys, Put(p, k)
    PROVE  Inv'
<1>1. UNCHANGED <<cl, registry, locked, cluster, type, stage, spares, adds, leaving, merging, left, crashed>>
  BY DEF Put, clusterVars, callVars
<1>2. Clusters' = Clusters
  BY <1>1 DEF Clusters
<1>3. data' \in [Peers -> SUBSET Keys]
  BY DEF Inv, StateType, Put
<1>4. StateType'
  BY <1>1, <1>2, <1>3 DEF Inv, StateType
<1>5. MembersInv'
  BY <1>1, <1>2 DEF Inv, MembersInv, Members
<1>6. MergesInv'
  BY <1>1 DEF Inv, MergesInv, Pending, Apart
<1> QED
  BY <1>1, <1>4, <1>5, <1>6 DEF Inv

LEMMA LeaveInv ==
    ASSUME Inv, NEW p \in Peers, Leave(p)
    PROVE  Inv'
<1>1. UNCHANGED <<cl, registry, locked, cluster, type, data, stage, spares, adds, merging, left, crashed>>
  BY DEF Leave, clusterVars, peerVars
<1>2. Clusters' = Clusters
  BY <1>1 DEF Clusters
<1>3. cluster[p] \in Clusters
  BY DEF Inv, StateType, MembersInv, Leave
<1>4. leaving' \subseteq Peers \X Clusters
  BY <1>3 DEF Inv, StateType, Leave
<1>5. StateType'
  BY <1>1, <1>2, <1>4 DEF Inv, StateType
<1>6. MembersInv'
  BY <1>1, <1>2 DEF Inv, MembersInv, Members
<1>7. MergesInv'
  BY <1>1 DEF Inv, MergesInv, Pending, Apart
<1> QED
  BY <1>1, <1>5, <1>6, <1>7 DEF Inv
-----------------------------------------------------------------------------
(* replaceVC: who is core or spare changes in one cluster, and no label. *)
Reseated(r, vc, vs, flag) == [r EXCEPT !.vc = vc, !.vs = vs, !.merge = flag]

LEMMA ReseatedType ==
    ASSUME NEW n \in Nat, NEW r \in Records(n), NEW c, Fitting(r, c),
           NEW vc \in SUBSET Peers, NEW vs \in SUBSET Peers, NEW flag, flag \in BOOLEAN
    PROVE  /\ Reseated(r, vc, vs, flag) \in Records(n)
           /\ Fitting(Reseated(r, vc, vs, flag), c)
           /\ Reseated(r, vc, vs, flag).label = r.label
           /\ Reseated(r, vc, vs, flag).vc = vc /\ Reseated(r, vc, vs, flag).vs = vs
           /\ Reseated(r, vc, vs, flag).merge = flag
<1>1. r = [label |-> r.label, vc |-> r.vc, vs |-> r.vs, rt |-> r.rt,
           merge |-> r.merge, freq |-> r.freq]
  BY DEF Records
<1>2. Reseated(r, vc, vs, flag) = [label |-> r.label, vc |-> vc, vs |-> vs, rt |-> r.rt,
                                    merge |-> flag, freq |-> r.freq]
  <2> DEFINE s == Reseated(r, vc, vs, flag)
  <2>1. s = [r EXCEPT !.vc = vc, !.vs = vs, !.merge = flag]
    BY DEF Reseated
  <2> HIDE DEF s
  <2>2. s = [label |-> r.label, vc |-> vc, vs |-> vs, rt |-> r.rt, merge |-> flag, freq |-> r.freq]
    BY <1>1, <2>1
  <2> QED
    BY <2>2 DEF s
<1> DEFINE R == Seq((1..n) \cup {None})
           F == [Peers -> 0..SafteyValue]
<1>3. r.label \in Labels /\ r.rt \in R /\ r.freq \in F
  BY RecordFields
<1>4. Records(n) = [label : Labels, vc : SUBSET Peers, vs : SUBSET Peers, rt : R,
                    merge : BOOLEAN, freq : F]
  BY DEF Records
<1> HIDE DEF R, F
<1>5. Reseated(r, vc, vs, flag) \in Records(n)
  BY <1>2, <1>3, <1>4
<1>6. Fitting(Reseated(r, vc, vs, flag), c)
  BY <1>2 DEF Fitting
<1> QED
  BY <1>2, <1>5, <1>6

(* What a call of replaceVC leaves of the invariant, but for the merges. *)
ReplaceEffect ==
    /\ WellFormed(cl') /\ Len(cl') = Len(cl)
    /\ \A d \in 1..Len(cl) : /\ cl'[d].label = cl[d].label
                             /\ cl[d].merge => cl'[d].merge
                             /\ cl'[d].vc \cup cl'[d].vs \subseteq Members(d)
    /\ UNCHANGED <<registry, cluster, stage>>
    /\ data' \in [Peers -> SUBSET Keys]
    /\ type' \in [Peers -> {"UNDEF", "CORE", "SPARE"}]
    /\ \A q \in Peers : type'[q] # "UNDEF" => cluster[q] # None
    /\ left' \subseteq Peers
    /\ crashed' \in BOOLEAN

LEMMA NominateEffect ==
    ASSUME Inv, NEW p \in Peers, NEW c \in Clusters, Nominate(p, c)
    PROVE  ReplaceEffect
<1>1. Len(cl) \in Nat /\ c \in 1..Len(cl) /\ WellFormed(cl)
  BY RegistryType DEF Inv
<1>2. PICK n \in cl[c].vs :
        /\ cl' \in FixAllRT([cl EXCEPT ![c].vs = @ \ {n}, ![c].vc = (@ \ {p}) \cup {n}], registry)
        /\ data' = [data EXCEPT ![n] = data[p]]
        /\ type' = [type EXCEPT ![n] = "CORE"]
  BY DEF Nominate
<1>3. cl[c] \in Records(Len(cl)) /\ Fitting(cl[c], c)
  BY <1>1, WellFormedType DEF WellFormed
<1>4. cl[c].vc \subseteq Peers /\ cl[c].vs \subseteq Peers /\ n \in Peers /\ cl[c].merge \in BOOLEAN
  BY <1>1, <1>3, RecordFields
<1> DEFINE vc == (cl[c].vc \ {p}) \cup {n}
           vs == cl[c].vs \ {n}
           r == Reseated(cl[c], vc, vs, cl[c].merge)
           cs == [cl EXCEPT ![c] = r]
<1>5. vc \in SUBSET Peers /\ vs \in SUBSET Peers
  BY <1>4
<1>a. vc \cup vs \subseteq cl[c].vc \cup cl[c].vs
  OBVIOUS
<1>6. [cl EXCEPT ![c].vs = @ \ {n}, ![c].vc = (@ \ {p}) \cup {n}] = cs
  <2>1. cl[c] = [label |-> cl[c].label, vc |-> cl[c].vc, vs |-> cl[c].vs, rt |-> cl[c].rt,
                 merge |-> cl[c].merge, freq |-> cl[c].freq]
    BY <1>3 DEF Records
  <2>2. [cl[c] EXCEPT !.vs = vs, !.vc = vc] = r
    BY <2>1 DEF Reseated
  <2>3. DOMAIN cl = 1..Len(cl)
    BY <1>1, WellFormedType
  <2>4. [cl EXCEPT ![c].vs = @ \ {n}, ![c].vc = (@ \ {p}) \cup {n}]
          = [cl EXCEPT ![c] = [cl[c] EXCEPT !.vs = vs, !.vc = vc]]
    BY <1>1, <2>1, <2>3
  <2> QED
    BY <2>2, <2>4
<1> HIDE DEF vc, vs
<1>7. /\ r \in Records(Len(cl)) /\ Fitting(r, c) /\ r.label = cl[c].label
      /\ r.vc = vc /\ r.vs = vs /\ r.merge = cl[c].merge
  BY <1>1, <1>3, <1>4, <1>5, ReseatedType
<1> HIDE DEF r
<1>8. /\ WellFormed(cs) /\ Len(cs) = Len(cl) /\ cs[c] = r
      /\ \A d \in 1..Len(cl) : d # c => cs[d] = cl[d]
  BY <1>1, <1>7, RecordSet, WellFormedType
<1> HIDE DEF cs
<1>9. /\ WellFormed(cl') /\ Len(cl') = Len(cs)
      /\ \A d \in 1..Len(cs) : SameButTables(cl'[d], cs[d])
  BY <1>2, <1>6, <1>8, RegistryType, FixKeeps
<1>10. \A d \in 1..Len(cl) : /\ cl'[d].label = cl[d].label
                             /\ cl[d].merge => cl'[d].merge
                             /\ cl'[d].vc \cup cl'[d].vs \subseteq Members(d)
  BY <1>a, <1>7, <1>8, <1>9 DEF SameButTables, Members
<1>11. data' \in [Peers -> SUBSET Keys]
  BY <1>2, <1>4 DEF Inv, StateType
<1>12. /\ type' \in [Peers -> {"UNDEF", "CORE", "SPARE"}]
       /\ \A q \in Peers : type'[q] # "UNDEF" => cluster[q] # None
  BY <1>1, <1>2, <1>4 DEF Inv, StateType, MembersInv, Members
<1>13. left' \subseteq Peers /\ UNCHANGED <<registry, cluster, stage>> /\ crashed' \in BOOLEAN
  BY DEF Inv, StateType, Nominate
<1> QED
  BY <1>8, <1>9, <1>10, <1>11, <1>12, <1>13 DEF ReplaceEffect

LEMMA ShrinkEffect ==
    ASSUME Inv, NEW p \in Peers, NEW c \in Clusters, Shrink(p, c)
    PROVE  ReplaceEffect /\ UNCHANGED <<locked, merging>>
<1>1. Len(cl) \in Nat /\ c \in 1..Len(cl) /\ WellFormed(cl)
  BY RegistryType DEF Inv
<1>2. cl[c] \in Records(Len(cl)) /\ Fitting(cl[c], c)
  BY <1>1, WellFormedType DEF WellFormed
<1>3. cl[c].vc \in SUBSET Peers /\ cl[c].vs \in SUBSET Peers
  BY <1>1, <1>2, RecordFields
<1> DEFINE vc == cl[c].vc \ {p}
           vs == cl[c].vs
           merge(d) == IF d = c THEN TRUE ELSE cl[d].merge
           r == Reseated(cl[c], vc, vs, merge(c))
           cs == [cl EXCEPT ![c] = r]
<1>4. vc \in SUBSET Peers /\ vc \subseteq cl[c].vc /\ vs \in SUBSET Peers /\ vs = cl[c].vs
  BY <1>3
<1>5. cl' = cs
  <2>1. cl[c] = [label |-> cl[c].label, vc |-> cl[c].vc, vs |-> cl[c].vs, rt |-> cl[c].rt,
                 merge |-> cl[c].merge, freq |-> cl[c].freq]
    BY <1>2 DEF Records
  <2>2. [cl[c] EXCEPT !.vc = vc, !.merge = TRUE] = r
    BY <2>1 DEF Reseated
  <2>3. DOMAIN cl = 1..Len(cl)
    BY <1>1, WellFormedType
  <2>4. cl' = [cl EXCEPT ![c] = [cl[c] EXCEPT !.vc = vc, !.merge = TRUE]]
    BY <1>1, <2>1, <2>3 DEF Shrink
  <2> QED
    BY <2>2, <2>4
<1>a. merge(c) \in BOOLEAN
  OBVIOUS
<1>b. merge(c) = TRUE
  OBVIOUS
<1> HIDE DEF vc, vs, merge
<1>6. /\ r \in Records(Len(cl)) /\ Fitting(r, c) /\ r.label = cl[c].label
      /\ r.vc = vc /\ r.vs = vs /\ r.merge = merge(c)
  BY <1>1, <1>2, <1>4, <1>a, ReseatedType
<1> HIDE DEF r
<1>7. /\ WellFormed(cs) /\ Len(cs) = Len(cl) /\ cs[c] = r
      /\ \A d \in 1..Len(cl) : d # c => cs[d] = cl[d]
  BY <1>1, <1>6, RecordSet, WellFormedType
<1> HIDE DEF cs
<1>8. \A d \in 1..Len(cl) : /\ cl'[d].label = cl[d].label
                            /\ cl[d].merge => cl'[d].merge
                            /\ cl'[d].vc \cup cl'[d].vs \subseteq Members(d)
  BY <1>4, <1>5, <1>6, <1>7, <1>b DEF Members
<1>9. UNCHANGED <<registry, locked, cluster, type, data, stage, merging, crashed>>
  BY DEF Shrink, peerVars
<1>10. left' \subseteq Peers
  BY DEF Inv, StateType, Shrink
<1> QED
  BY <1>5, <1>7, <1>8, <1>9, <1>10 DEF Inv, StateType, MembersInv, ReplaceEffect

LEMMA BeginMergeEffect ==
    ASSUME Inv, NEW p \in Peers, NEW c \in Clusters, c \notin locked, BeginMerge(p, c)
    PROVE  /\ ReplaceEffect
           /\ locked' \subseteq Clusters /\ merging' \subseteq Clusters \X Clusters \X Peers
           /\ MergesInv'
<1>0. PICK b : b = Last(cl[c].rt)
  OBVIOUS
<1> DEFINE n == Len(cl)
           free == Mergeable(b)
           vc(d) == IF d = c THEN cl[d].vc \ {p} ELSE cl[d].vc
           merge(d) == IF d \in {b, c} THEN TRUE ELSE cl[d].merge
           r(d) == Reseated(cl[d], vc(d), cl[d].vs, merge(d))
<1>1. n \in Nat /\ c \in 1..n /\ WellFormed(cl) /\ Clusters = 1..n /\ DOMAIN cl = 1..n
  BY RegistryType, WellFormedType DEF Inv
<1>2. \A d \in 1..n : cl[d] \in Records(n) /\ Fitting(cl[d], d)
  BY <1>1, WellFormedType DEF WellFormed
<1>3. \A d \in 1..n : vc(d) \in SUBSET Peers /\ vc(d) \subseteq cl[d].vc /\ cl[d].vs \in SUBSET Peers
  BY <1>1, <1>2, RecordFields
<1>4. \A d \in 1..n : cl[d].merge \in BOOLEAN /\ merge(d) \in BOOLEAN
  BY <1>1, <1>2, RecordFields
<1>5. cl' = [d \in 1..n |-> r(d)]
  <2>1. cl' = [d \in 1..n |-> [cl[d] EXCEPT !.vc = vc(d), !.merge = merge(d)]]
    <3>1. cl' = [d \in 1..n |-> [cl[d] EXCEPT !.vc = IF d = c THEN @ \ {p} ELSE @,
                                              !.merge = @ \/ d \in {b, c}]]
      BY <1>0, <1>1 DEF BeginMerge
    <3>2. \A d \in 1..n : cl[d] = [label |-> cl[d].label, vc |-> cl[d].vc, vs |-> cl[d].vs,
                                   rt |-> cl[d].rt, merge |-> cl[d].merge, freq |-> cl[d].freq]
      BY <1>2 DEF Records
    <3>3. \A d \in 1..n : [cl[d] EXCEPT !.vc = IF d = c THEN @ \ {p} ELSE @,
                                        !.merge = @ \/ d \in {b, c}]
                            = [cl[d] EXCEPT !.vc = vc(d), !.merge = merge(d)]
      BY <1>4, <3>2
    <3> HIDE DEF vc, merge
    <3> QED
      BY <3>1, <3>3
  <2>2. ASSUME NEW d \in 1..n PROVE [cl[d] EXCEPT !.vc = vc(d), !.merge = merge(d)] = r(d)
    <3>1. cl[d] = [label |-> cl[d].label, vc |-> cl[d].vc, vs |-> cl[d].vs,
                   rt |-> cl[d].rt, merge |-> cl[d].merge, freq |-> cl[d].freq]
      BY <1>2 DEF Records
    <3> HIDE DEF vc, merge
    <3> QED
      BY <3>1 DEF Reseated
  <2> HIDE DEF vc, merge, r
  <2> QED
    BY <2>1, <2>2
<1> HIDE DEF vc
<1>6. \A d \in 1..n : /\ r(d) \in Records(n) /\ Fitting(r(d), d)
                      /\ r(d).label = cl[d].label /\ r(d).vc = vc(d)
                      /\ r(d).vs = cl[d].vs /\ r(d).merge = merge(d)
  <2> HIDE DEF merge
  <2> QED
    BY <1>1, <1>2, <1>3, <1>4, ReseatedType
<1>7. /\ DOMAIN cl' = 1..n /\ cl' = [d \in 1..n |-> cl'[d]]
      /\ \A d \in 1..n : cl'[d] = r(d)
  <2> HIDE DEF r
  <2> QED
    BY <1>5
<1> HIDE DEF r
<1>8. WellFormed(cl') /\ Len(cl') = n
  <2> HIDE DEF n
  <2> QED
    BY <1>1, <1>6, <1>7, WellFormedOf
<1>9. /\ \A d \in 1..n : /\ cl'[d].label = cl[d].label
                         /\ cl[d].merge => cl'[d].merge
                         /\ cl'[d].vc \cup cl'[d].vs \subseteq Members(d)
      /\ \A d \in 1..n : d \in {b, c} => cl'[d].merge
  <2>1. ASSUME NEW d \in 1..n
        PROVE  /\ cl'[d].label = cl[d].label /\ cl'[d].merge = merge(d)
               /\ cl'[d].vc = vc(d) /\ cl'[d].vs = cl[d].vs
    <3> HIDE DEF merge
    <3> QED
      BY <1>6, <1>7
  <2>2. \A d \in 1..n : cl'[d].vc \cup cl'[d].vs \subseteq Members(d)
    BY <1>3, <2>1 DEF Members
  <2>3. \A d \in 1..n : (cl[d].merge => cl'[d].merge) /\ (d \in {b, c} => cl'[d].merge)
    BY <2>1
  <2> QED
    BY <2>1, <2>2, <2>3
<1>b. /\ \A d \in 1..n : cl[d].merge => cl'[d].merge
      /\ \A d \in 1..n : cl'[d].label = cl[d].label
  BY <1>9
<1>d. /\ \A d \in locked : d \in 1..n /\ cl[d].merge
      /\ \A m \in merging : m[1] \in 1..n /\ m[2] \in 1..n /\ Pending(m)
  BY <1>1 DEF Inv, StateType, MergesInv
<1>10. b \in Clusters \cup {None} /\ b # c /\ b = cl[c].rt[Len(cl[c].rt)]
  <2>1. Len(cl[c].rt) \in Nat /\ \A i \in 1..Len(cl[c].rt) : cl[c].rt[i] \in (1..n) \cup {None}
    BY <1>1, <1>2, RecordFields
  <2>2. Len(cl[c].rt) > 0 /\ \A i \in 1..Len(cl[c].rt) : cl[c].rt[i] # c
    BY <1>1, <1>2 DEF BeginMerge, Fitting
  <2>3. Len(cl[c].rt) \in 1..Len(cl[c].rt)
    BY <2>1, <2>2
  <2> QED
    BY <1>0, <1>1, <2>1, <2>2, <2>3 DEF Last
<1>11. /\ crashed' = (b = None)
       /\ merging' = IF free THEN merging \cup {<<c, b, p>>} ELSE merging
       /\ locked' = IF free THEN locked \cup {c} ELSE locked
       /\ left' = IF free THEN left ELSE left \cup {p}
       /\ UNCHANGED <<registry, cluster, type, data, stage>>
       /\ ~cl[c].merge /\ Len(cl[c].label) > 0
  BY <1>0 DEF BeginMerge, peerVars
<1>12. ReplaceEffect
  <2>1. left' \subseteq Peers
    BY <1>11 DEF Inv, StateType
  <2>2. crashed' \in BOOLEAN
    BY <1>11
  <2> QED
    BY <1>8, <1>9, <1>11, <2>1, <2>2 DEF Inv, StateType, MembersInv, ReplaceEffect
<1>13. CASE ~free
  <2>1. UNCHANGED <<merging, locked>>
    BY <1>11, <1>13
  <2>2. \A d \in locked : cl'[d].merge
    BY <1>b, <1>d
  <2>3. \A m \in merging : Pending(m)'
    BY <1>b, <1>d, <2>1 DEF Pending
  <2> QED
    BY <1>12, <2>1, <2>2, <2>3 DEF Inv, StateType, MergesInv, Apart
<1>14. CASE free
  <2> DEFINE new == <<c, b, p>>
  <2>1. merging' = merging \cup {new} /\ locked' = locked \cup {c}
    BY <1>11, <1>14
  <2>2. b \in Clusters /\ ~cl[b].merge
    BY <1>10, <1>14 DEF Mergeable
  <2>3. b \notin locked
    BY <2>2 DEF Inv, MergesInv
  <2>4. \A d \in locked' : cl'[d].merge
    BY <1>1, <1>9, <1>b, <1>d, <2>1
  <2>5. \A m \in merging : /\ m[1] \in 1..n /\ m[2] \in 1..n /\ Pending(m)
                           /\ {m[1], m[2]} \cap {c, b} = {}
    BY <1>1, <1>11, <2>2 DEF Inv, StateType, MergesInv, Pending
  <2>6. \A m \in merging : Pending(m)'
    BY <2>5, <1>b, <2>1 DEF Pending
  <2>7. /\ new[1] = c /\ new[2] = b
    OBVIOUS
  <2>8. Pending(new)'
    <3>1. /\ cl'[c].merge /\ cl'[b].merge /\ c # b /\ c \in locked' /\ b \notin locked'
          /\ Len(cl'[c].label) > 0
      BY <1>1, <1>9, <1>10, <1>11, <2>1, <2>2, <2>3
    <3> QED
      BY <3>1 DEF Pending
  <2>9. \A m, o \in merging' : m = o \/ Apart(m, o)'
    <3>1. \A m, o \in merging : m = o \/ Apart(m, o)
      BY DEF Inv, MergesInv
    <3>2. \A m \in merging : Apart(m, new) /\ Apart(new, m)
      BY <2>5, <2>7 DEF Apart
    <3> QED
      BY <3>1, <3>2, <2>1 DEF Apart
  <2>10. locked' \subseteq Clusters /\ merging' \subseteq Clusters \X Clusters \X Peers
    BY <2>1, <2>2 DEF Inv, StateType
  <2>11. \A m \in merging' : Pending(m)'
    BY <2>1, <2>6, <2>8
  <2> QED
    BY <1>12, <2>4, <2>9, <2>10, <2>11 DEF MergesInv
<1> QED
  BY <1>13, <1>14

LEMMA ReplaceVCInv ==
    ASSUME Inv, NEW p \in Peers, NEW c \in Clusters, ReplaceVC(p, c)
    PROVE  Inv'
<1>1. /\ c \notin locked /\ leaving' \subseteq leaving
      /\ UNCHANGED <<spares, adds>>
      /\ Nominate(p, c) \/ Shrink(p, c) \/ BeginMerge(p, c)
  BY DEF ReplaceVC
<1>2. Len(cl) \in Nat /\ Clusters = 1..Len(cl)
  BY RegistryType
<1>3. /\ ReplaceEffect
      /\ \/ UNCHANGED <<locked, merging>>
         \/ /\ locked' \subseteq Clusters /\ merging' \subseteq Clusters \X Clusters \X Peers
            /\ MergesInv'
  <2>1. CASE Nominate(p, c)
    BY <2>1, NominateEffect DEF Nominate
  <2>2. CASE Shrink(p, c)
    BY <2>2, ShrinkEffect
  <2>3. CASE BeginMerge(p, c)
    BY <2>3, <1>1, BeginMergeEffect
  <2> QED
    BY <1>1, <2>1, <2>2, <2>3
<1>4. Clusters' = Clusters
  <2>1. WellFormed(cl') /\ Len(cl') = Len(cl)
    BY <1>3 DEF ReplaceEffect
  <2>2. DOMAIN cl' = 1..Len(cl')
    BY <2>1, WellFormedType
  <2> QED
    BY <1>2, <2>1, <2>2 DEF Clusters
<1>5. StateType'
  <2>1. /\ locked' \subseteq Clusters /\ merging' \subseteq Clusters \X Clusters \X Peers
        /\ leaving' \subseteq Peers \X Clusters
    BY <1>1, <1>3 DEF Inv, StateType
  <2>2. /\ registry' \in [DOMAIN registry' -> Clusters] /\ DOMAIN registry' \subseteq Labels
        /\ cluster' \in [Peers -> Clusters \cup {None}]
        /\ stage' \in [Peers -> {"out", "asked", "waiting", "serving"}]
        /\ spares' \subseteq Peers \X Peers /\ adds' \subseteq Peers \X Peers \X Clusters
    BY <1>1, <1>3 DEF Inv, StateType, ReplaceEffect
  <2> QED
    BY <1>3, <1>4, <2>1, <2>2 DEF StateType, ReplaceEffect
<1>6. MembersInv'
  <2>1. \A d \in Clusters : cl'[d].vc \cup cl'[d].vs \subseteq Members(d)
    BY <1>2, <1>3 DEF ReplaceEffect
  <2>2. \A d \in Clusters : \A q \in cl'[d].vc \cup cl'[d].vs : cluster[q] # None
    BY <2>1 DEF Inv, MembersInv
  <2>3. UNCHANGED <<cluster, spares>> /\ \A q \in Peers : type'[q] # "UNDEF" => cluster[q] # None
    BY <1>1, <1>3 DEF ReplaceEffect
  <2> QED
    BY <1>4, <2>2, <2>3 DEF Inv, MembersInv, Members
<1>7. MergesInv'
  <2>1. CASE UNCHANGED <<locked, merging>>
    <3>1. /\ \A d \in locked : d \in 1..Len(cl) /\ cl[d].merge
          /\ \A m \in merging : m[1] \in 1..Len(cl) /\ m[2] \in 1..Len(cl) /\ Pending(m)
      BY <1>2 DEF Inv, StateType, MergesInv
    <3>2. /\ \A d \in 1..Len(cl) : cl[d].merge => cl'[d].merge
          /\ \A d \in 1..Len(cl) : cl'[d].label = cl[d].label
      BY <1>3 DEF ReplaceEffect
    <3>3. \A m \in merging : Pending(m)'
      BY <2>1, <3>1, <3>2 DEF Pending
    <3> QED
      BY <2>1, <3>1, <3>2, <3>3 DEF Inv, MergesInv, Apart
  <2> QED
    BY <1>3, <2>1
<1> QED
  BY <1>3, <1>5, <1>6, <1>7 DEF Inv, ReplaceEffect
-----------------------------------------------------------------------------
(* Merge: the merged cluster has a bit, and a table entry, less. *)
LEMMA FrontType ==
    ASSUME NEW E, NEW s \in Seq(E), Len(s) > 0
    PROVE  /\ Front(s) \in Seq(E) /\ Len(Front(s)) = Len(s) - 1
           /\ \A i \in 1..Len(Front(s)) : i \in 1..Len(s) /\ Front(s)[i] = s[i]
<1>1. Len(s) \in Nat /\ Len(s) - 1 \in Nat
  OBVIOUS
<1>2. Front(s) = SubSeq(s, 1, Len(s) - 1)
  BY DEF Front
<1>3. SubSeq(s, 1, Len(s) - 1) \in Seq(E)
  BY <1>1
<1>4. Len(SubSeq(s, 1, Len(s) - 1)) = Len(s) - 1
  <2> DEFINE m == Len(s) - 1
  <2>1. m \in Nat /\ m <= Len(s)
    BY <1>1
  <2> HIDE DEF m
  <2>2. Len(SubSeq(s, 1, m)) = m
    BY <2>1
  <2> QED
    BY <2>2 DEF m
<1>5. \A i \in 1..(Len(s) - 1) : SubSeq(s, 1, Len(s) - 1)[i] = s[i] /\ i \in 1..Len(s)
  BY <1>1
<1> QED
  BY <1>2, <1>3, <1>4, <1>5

LEMMA MergedType ==
    ASSUME NEW n \in Nat, NEW r \in Records(n), NEW c, Fitting(r, c), Len(r.label) > 0,
           NEW vc \in SUBSET Peers, NEW vs \in SUBSET Peers
    PROVE  /\ NewCluster(Front(r.label), vc, vs, Front(r.rt)) \in Records(n + 1)
           /\ Fitting(NewCluster(Front(r.label), vc, vs, Front(r.rt)), n + 1)
           /\ Front(r.label) \in Labels
<1> DEFINE new == NewCluster(Front(r.label), vc, vs, Front(r.rt))
           E == (1..n) \cup {None}
           R == Seq((1..(n + 1)) \cup {None})
           F == [Peers -> 0..SafteyValue]
<1>1. /\ r.label \in Seq(Bit) /\ r.label \in Labels /\ Len(r.label) \in Nat
      /\ r.rt \in Seq(E) /\ \A i \in 1..Len(r.rt) : r.rt[i] \in E
  BY RecordFields
<1>2. Len(r.rt) = Len(r.label)
  BY DEF Fitting
<1>3. /\ Front(r.label) \in Seq(Bit) /\ Len(Front(r.label)) = Len(r.label) - 1
  BY <1>1, FrontType
<1>4. /\ Front(r.rt) \in Seq(E) /\ Len(Front(r.rt)) = Len(r.rt) - 1
      /\ \A i \in 1..Len(Front(r.rt)) : i \in 1..Len(r.rt) /\ Front(r.rt)[i] = r.rt[i]
  <2> HIDE DEF E
  <2> QED
    BY <1>1, <1>2, FrontType
<1>5. Front(r.label) \in Labels
  <2>1. Len(r.label) < M /\ M \in Nat
    BY <1>1, LabelType
  <2>2. Len(Front(r.label)) < M
    BY <1>1, <1>3, <2>1
  <2> QED
    BY <1>3, <2>2, LabelType
<1>6. Front(r.rt) \in R
  <2> DEFINE D == (1..(n + 1)) \cup {None}
  <2>1. E \subseteq D
    OBVIOUS
  <2> HIDE DEF D, E
  <2>2. Front(r.rt) \in Seq(D)
    BY <1>4, <2>1
  <2> QED
    BY <2>2 DEF D
<1>7. [p \in Peers |-> 0] \in F
  BY SizeAssumption
<1>8. /\ new = [label |-> Front(r.label), vc |-> vc, vs |-> vs, rt |-> Front(r.rt),
                merge |-> FALSE, freq |-> [p \in Peers |-> 0]]
      /\ Records(n + 1) = [label : Labels, vc : SUBSET Peers, vs : SUBSET Peers, rt : R,
                           merge : BOOLEAN, freq : F]
  BY DEF NewCluster, Records
<1>9. \A i \in 1..Len(Front(r.rt)) : Front(r.rt)[i] # n + 1
  <2>1. n + 1 \notin 1..n /\ n + 1 # None
    BY NoneAssumption
  <2> QED
    BY <1>1, <1>4, <2>1
<1>10. Len(Front(r.rt)) = Len(Front(r.label))
  BY <1>2, <1>3, <1>4
<1> HIDE DEF R, F, new
<1>11. new \in Records(n + 1)
  BY <1>5, <1>6, <1>7, <1>8
<1>12. new.label = Front(r.label) /\ new.rt = Front(r.rt)
  BY <1>8
<1>13. Fitting(new, n + 1)
  BY <1>9, <1>10, <1>12 DEF Fitting
<1> QED
  BY <1>5, <1>11, <1>13 DEF new

LEMMA MergeInv ==
    ASSUME Inv, NEW a \in Clusters, NEW b \in Clusters, NEW p \in Peers, Merge(a, b, p)
    PROVE  Inv'
<1> DEFINE n == Len(cl)
           new == n + 1
           vc == Gathered(a, b)
           stores(S) == IF S = {} THEN {{}} ELSE {data[q] : q \in S}
<1>1. n \in Nat /\ Clusters = 1..n /\ WellFormed(cl) /\ DOMAIN cl = 1..n /\ None \notin Nat
  BY RegistryType, WellFormedType, NoneAssumption DEF Inv
<1>2. /\ cl[a] \in Records(n) /\ Fitting(cl[a], a) /\ cl[a].vc \subseteq Peers
      /\ cl[b] \in Records(n) /\ cl[b].vc \subseteq Peers
  BY <1>1, WellFormedType, RecordFields DEF WellFormed
<1>3. /\ <<a, b, p>> \in merging /\ b \notin locked
      /\ merging' = merging \ {<<a, b, p>>}
      /\ locked' = (locked \ {a}) \cup {b}
      /\ left' = left \cup {p}
      /\ crashed' \in BOOLEAN
      /\ UNCHANGED <<stage, spares, adds, leaving>>
  BY DEF Merge
<1>4. PICK coreA \in SUBSET cl[a].vc, coreB \in SUBSET cl[b].vc,
           storeA \in stores(cl[a].vc), storeB \in stores(cl[b].vc) :
        LET core == coreA \cup coreB
            merged == NewCluster(MergedLabel(a), core, vc \ core, Front(cl[a].rt))
        IN  /\ cl' = Append(cl, merged)
            /\ registry' = Registered(merged.label, new,
                              Unregistered({cl[a].label, cl[b].label}, registry))
            /\ cluster' = [q \in Peers |-> IF q \in vc THEN new ELSE cluster[q]]
            /\ type' = [q \in Peers |-> IF q \in core THEN "CORE"
                                         ELSE IF q \in vc THEN "SPARE" ELSE type[q]]
            /\ data' = [q \in Peers |-> IF q \in coreA THEN MergedStore(data[q], storeB)
                                         ELSE IF q \in coreB
                                         THEN MergedStore(data[q], MergedStore(storeA, storeB))
                                         ELSE IF q \in vc THEN {} ELSE data[q]]
  BY DEF Merge, kSubset
<1> DEFINE core == coreA \cup coreB
           merged == NewCluster(MergedLabel(a), core, vc \ core, Front(cl[a].rt))
<1>5. /\ cl' = Append(cl, merged)
      /\ registry' = Registered(merged.label, new,
                        Unregistered({cl[a].label, cl[b].label}, registry))
      /\ cluster' = [q \in Peers |-> IF q \in vc THEN new ELSE cluster[q]]
      /\ type' = [q \in Peers |-> IF q \in core THEN "CORE"
                                   ELSE IF q \in vc THEN "SPARE" ELSE type[q]]
      /\ data' = [q \in Peers |-> IF q \in coreA THEN MergedStore(data[q], storeB)
                                   ELSE IF q \in coreB
                                   THEN MergedStore(data[q], MergedStore(storeA, storeB))
                                   ELSE IF q \in vc THEN {} ELSE data[q]]
  BY <1>4
<1>6. vc \subseteq Peers /\ core \subseteq vc
  BY <1>2 DEF Gathered
<1>7. Len(cl[a].label) > 0
  <2>1. Pending(<<a, b, p>>)
    BY <1>3 DEF Inv, MergesInv
  <2> QED
    BY <2>1 DEF Pending
<1>8. /\ merged \in Records(new) /\ Fitting(merged, new)
      /\ merged.label \in Labels /\ merged.vc \cup merged.vs = vc
  <2>1. core \in SUBSET Peers /\ vc \ core \in SUBSET Peers
    BY <1>6
  <2>2. merged \in Records(new) /\ Fitting(merged, new)
    BY <1>1, <1>2, <1>7, <2>1, MergedType DEF MergedLabel
  <2>3. merged.label = MergedLabel(a) /\ merged.vc = core /\ merged.vs = vc \ core
    BY DEF NewCluster
  <2>4. merged.label \in Labels
    BY <1>1, <1>2, <1>7, <2>1, <2>3, MergedType DEF MergedLabel
  <2> QED
    BY <1>6, <2>2, <2>3, <2>4
<1> HIDE DEF merged, vc, core
<1>9. /\ WellFormed(cl') /\ Len(cl') = new /\ cl'[new] = merged
      /\ \A d \in 1..n : cl'[d] = cl[d]
  BY <1>1, <1>5, <1>8, RecordAdded
<1>10. Clusters' = 1..new /\ 1..n \subseteq 1..new /\ new \in 1..new /\ new # None
  BY <1>1, <1>9, WellFormedType DEF Clusters
<1>11. registry' \in [DOMAIN registry' -> Clusters'] /\ DOMAIN registry' \subseteq Labels
  <2> DEFINE un == Unregistered({cl[a].label, cl[b].label}, registry)
             D == DOMAIN registry \ {cl[a].label, cl[b].label}
  <2>1. DOMAIN un = D /\ un = [m \in D |-> registry[m]]
    BY UnregisteredType
  <2> HIDE DEF un
  <2>2. registry' = [m \in D \cup {merged.label} |-> IF m = merged.label THEN new ELSE un[m]]
    BY <1>5, <2>1 DEF Registered, un
  <2>3. \A m \in D : un[m] \in 1..n
    BY <2>1, RegistryType
  <2>4. D \subseteq Labels
    BY DEF Inv, StateType
  <2> HIDE DEF D
  <2> QED
    BY <1>8, <1>10, <2>2, <2>3, <2>4
<1>12. \A S \in SUBSET Peers : \A s \in stores(S) : s \in SUBSET Keys
  BY DEF Inv, StateType
<1>13. data' \in [Peers -> SUBSET Keys]
  <2>1. storeA \in SUBSET Keys /\ storeB \in SUBSET Keys
    <3> HIDE DEF stores
    <3> QED
      BY <1>2, <1>12
  <2>2. \A q \in Peers : data[q] \in SUBSET Keys
    BY DEF Inv, StateType
  <2> QED
    BY <1>5, <2>1, <2>2 DEF MergedStore
<1>14. cluster' \in [Peers -> Clusters' \cup {None}]
  BY <1>1, <1>5, <1>10 DEF Inv, StateType
<1>15. type' \in [Peers -> {"UNDEF", "CORE", "SPARE"}]
  BY <1>5 DEF Inv, StateType
<1>16. StateType'
  <2>1. /\ locked' \subseteq Clusters' /\ merging' \subseteq Clusters' \X Clusters' \X Peers
        /\ leaving' \subseteq Peers \X Clusters' /\ adds' \subseteq Peers \X Peers \X Clusters'
    BY <1>1, <1>3, <1>10 DEF Inv, StateType
  <2>2. /\ stage' \in [Peers -> {"out", "asked", "waiting", "serving"}]
        /\ spares' \subseteq Peers \X Peers /\ left' \subseteq Peers
    BY <1>3 DEF Inv, StateType
  <2> QED
    BY <1>3, <1>11, <1>13, <1>14, <1>15, <2>1, <2>2 DEF StateType
<1>17. MembersInv'
  <2>1. \A q \in Peers : cluster[q] # None \/ q \in vc => cluster'[q] # None
    BY <1>5, <1>10
  <2>2. ASSUME NEW d \in Clusters', NEW q \in cl'[d].vc \cup cl'[d].vs PROVE cluster'[q] # None
    <3>1. CASE d = new
      BY <3>1, <1>6, <1>8, <1>9, <2>1, <2>2
    <3>2. CASE d # new
      <4>1. d \in 1..n /\ cl'[d] = cl[d]
        BY <3>2, <1>1, <1>9, <1>10
      <4>2. cl[d] \in Records(n)
        BY <1>1, <4>1, WellFormedType
      <4>3. q \in Peers /\ cluster[q] # None
        BY <1>1, <2>2, <4>1, <4>2, RecordFields DEF Inv, MembersInv, Members
      <4> QED
        BY <2>1, <4>3
    <3> QED
      BY <3>1, <3>2
  <2>3. \A e \in spares' : cluster'[e[1]] # None
    BY <1>3, <2>1 DEF Inv, StateType, MembersInv
  <2>4. \A q \in Peers : type'[q] # "UNDEF" => cluster'[q] # None
    BY <1>5, <1>6, <2>1 DEF Inv, MembersInv
  <2> QED
    BY <2>2, <2>3, <2>4 DEF MembersInv, Members
<1>18. MergesInv'
  <2>1. cl[b].merge
    BY <1>3 DEF Inv, MergesInv, Pending
  <2>2. \A d \in locked' : cl'[d].merge
    BY <1>1, <1>3, <1>9, <2>1 DEF Inv, StateType, MergesInv
  <2>3. \A m, o \in merging' : m = o \/ Apart(m, o)
    BY <1>3 DEF Inv, MergesInv
  <2>4. ASSUME NEW m \in merging' PROVE Pending(m)'
    <3>1. m \in merging /\ m # <<a, b, p>>
      BY <1>3
    <3>2. Apart(m, <<a, b, p>>) /\ Pending(m)
      BY <1>3, <3>1 DEF Inv, MergesInv
    <3>3. m[1] # a /\ m[2] # b
      BY <3>2 DEF Apart
    <3>4. m[1] \in 1..n /\ m[2] \in 1..n
      BY <1>1, <3>1 DEF Inv, StateType
    <3> QED
      BY <1>3, <1>9, <3>2, <3>3, <3>4 DEF Pending
  <2> QED
    BY <2>2, <2>3, <2>4 DEF MergesInv, Apart
<1> QED
  BY <1>9, <1>16, <1>17, <1>18 DEF Inv
-----------------------------------------------------------------------------
LEMMA InvStep == Inv /\ [Next]_vars => Inv'
<1>1. SUFFICES ASSUME Inv, [Next]_vars PROVE Inv'
  OBVIOUS
<1>2. ASSUME NEW p \in Joiners, Join(p) \/ AwaitReady(p) PROVE Inv'
  BY <1>1, <1>2, JoinInv, AwaitReadyInv DEF Peers
<1>3. ASSUME NEW q \in Peers, NEW p \in Peers, FireJoinSpare(q, p) PROVE Inv'
  BY <1>1, <1>3, FireJoinSpareInv
<1>4. ASSUME NEW call \in adds, Add(call[1], call[2], call[3]) PROVE Inv'
  <2>1. call[1] \in Peers /\ call[2] \in Peers /\ call[3] \in Clusters
    BY <1>1 DEF Inv, StateType
  <2> QED
    BY <1>1, <1>4, <2>1, AddInv
<1>5. ASSUME NEW p \in Peers, NEW k \in Keys, Put(p, k) PROVE Inv'
  BY <1>1, <1>5, PutInv
<1>6. ASSUME NEW p \in Peers, Leave(p) PROVE Inv'
  BY <1>1, <1>6, LeaveInv
<1>7. ASSUME NEW call \in leaving, ReplaceVC(call[1], call[2]) PROVE Inv'
  <2>1. call[1] \in Peers /\ call[2] \in Clusters
    BY <1>1 DEF Inv, StateType
  <2> QED
    BY <1>1, <1>7, <2>1, ReplaceVCInv
<1>8. ASSUME NEW m \in merging, Merge(m[1], m[2], m[3]) PROVE Inv'
  <2>1. m[1] \in Clusters /\ m[2] \in Clusters /\ m[3] \in Peers
    BY <1>1 DEF Inv, StateType
  <2> QED
    BY <1>1, <1>8, <2>1, MergeInv
<1>9. CASE UNCHANGED vars
  <2>1. UNCHANGED <<cl, registry, locked, cluster, type, data, stage, spares, adds, leaving,
                    merging, left, crashed>>
    BY <1>9 DEF vars, clusterVars, peerVars, callVars
  <2>2. Clusters' = Clusters
    BY <2>1 DEF Clusters
  <2>3. StateType'
    BY <1>1, <2>1, <2>2 DEF Inv, StateType
  <2>4. MembersInv' /\ MergesInv'
    BY <1>1, <2>1, <2>2 DEF Inv, MembersInv, MergesInv, Members, Pending, Apart
  <2> QED
    BY <1>1, <2>1, <2>3, <2>4 DEF Inv
<1> QED
  BY <1>1, <1>2, <1>3, <1>4, <1>5, <1>6, <1>7, <1>8, <1>9 DEF Next

(***************************************************************************)
(* The inductive invariant of Membership: well-formed clusters, typed      *)
(* state, a cluster for all who are called, and merges with no cluster in  *)
(* common (merge.go, cluster.go).                                          *)
(***************************************************************************)
THEOREM Invariant == Spec => []Inv
BY InitInv, InvStep, PTL DEF Spec

(* Every variable stays in its type: no count passes the threshold of addHandler.Add. *)
THEOREM TypeCorrect == Spec => []TypeOK
<1>1. Inv => TypeOK
  BY TypeSplits DEF Inv
<1> QED
  BY <1>1, Invariant, PTL

(***************************************************************************)
(* No merge that holds the mutex of one cluster ever waits for a mutex     *)
(* that is kept (merge.go:17).                                             *)
(***************************************************************************)
THEOREM MergesNeverBlocked == Spec => []MergeNeverBlocked
<1>1. Inv => MergeNeverBlocked
  BY DEF Inv, MergesInv, Pending, MergeNeverBlocked
<1> QED
  BY <1>1, Invariant, PTL
=============================================================================
