----------------------------- MODULE RoutingProofs -----------------------------
(***************************************************************************)
(* Routing for IDs of any length and splits in any order: the table        *)
(* entries of a cluster are the neighbours the protocol wants, and every   *)
(* hop brings a message nearer to its target.  Both rest on the labels'    *)
(* partitioning the IDs, the core of the inductive invariant Inv.          *)
(***************************************************************************)
EXTENDS Routing, RouteLemmas

(* The labels partition the IDs, and a message is at a cluster, on its way to an ID. *)
Inv ==
    /\ Partitions(clusters, M)
    /\ \A c \in clusters : Len(c) < M
    /\ at \in clusters \cup {None}
    /\ at # None => target \in IDs

LEMMA NoneIsNoLabel ==
    ASSUME NEW c \in Seq(Bit), Len(c) <= M
    PROVE  c # None
<1>1. Len(c) \in 0..M
  BY LengthAssumption
<1>2. c \in BitStrings(Len(c))
  BY BitStringOfSeq
<1> QED
  BY <1>1, <1>2, NoneAssumption

LEMMA LabelsPartition ==
    ASSUME Partitions(clusters, M)
    PROVE  Partition(clusters, label, M)
BY DEF Partitions, Partition, label

(* The cluster is not responsible: it has a first bit that is not the target's. *)
LEMMA FirstWrongBit ==
    ASSUME NEW c \in Seq(Bit), Len(c) <= M, NEW t \in IDs, ~Responsible(c, t)
    PROVE  \E i \in 1..Len(c) : c[i] # t[i] /\ Agree(c, t, i - 1)
<1>1. t \in Seq(Bit) /\ Len(t) = M
  BY LengthAssumption, BitStringType DEF IDs
<1>2. ~Agree(c, t, Len(c)) /\ Len(c) \in Nat
  BY <1>1 DEF Responsible, IsPrefixOf
<1> QED
  BY <1>2, FirstDifference
-----------------------------------------------------------------------------
LEMMA InitInv == Init => Inv
<1>1. SUFFICES ASSUME Init PROVE Inv
  OBVIOUS
<1>2. Partitions({<<>>}, M)
  BY LengthAssumption, RootPartitions
<1>3. Len(<<>>) < M
  BY LengthAssumption
<1> QED
  BY <1>1, <1>2, <1>3 DEF Init, Inv

(* Where a hop goes: nearer to the target. *)
LEMMA HopNearer ==
    ASSUME Inv, Hop
    PROVE  /\ at' \in clusters
           /\ CommonPrefix(at', target) > CommonPrefix(at, target)
<1>1. at \in clusters /\ target \in IDs /\ Len(at) < M /\ at \in Seq(Bit)
  BY DEF Inv, Hop, Partitions
<1>2. PICK rt \in FixedTables(at, clusters, label) :
         /\ ~Eq(ClosestCluster(at, rt, label, target), at)
         /\ at' = ClosestCluster(at, rt, label, target)
  BY DEF Hop
<1>3. Partition(clusters, label, M) /\ label[at] = at
  BY <1>1, LabelsPartition DEF Inv, label
<1>4. ~Responsible(at, target)
  <2>1. Eq(at, at)
    BY <1>1, PrefixReflexive
  <2>2. ~Responsible(label[at], target)
    BY <2>1, <1>2 DEF ClosestCluster
  <2> QED
    BY <2>2, <1>3
<1>5. PICK i \in 1..Len(at) : at[i] # target[i] /\ Agree(at, target, i - 1)
  <2>1. Len(at) <= M
    BY <1>1, LengthAssumption
  <2> QED
    BY <2>1, <1>1, <1>4, FirstWrongBit
<1>6. at' = NearestOf(rt, label, target)[Len(rt)]
  BY <1>2, <1>3, <1>4 DEF ClosestCluster
<1>7. at' = rt[i]
  BY <1>1, <1>3, <1>5, <1>6, LengthAssumption, NearestEntry DEF IDs
<1>8. /\ rt \in [1..Len(at) -> clusters]
      /\ rt[i] \in Nearest(Flip(label[at], i), clusters \ {at}, label)
  <2>1. Len(label[at]) > 0
    BY <1>1, <1>3, <1>5
  <2> QED
    BY <2>1, <1>1, <1>3, <1>5, LengthAssumption, TableEntries
<1>9. rt[i] \in clusters /\ label[rt[i]] = rt[i] /\ rt[i] \in Seq(Bit)
  BY <1>5, <1>8 DEF label, Inv, Partitions
<1>10. i <= Len(rt[i]) /\ Agree(rt[i], at, i - 1) /\ rt[i][i] # at[i]
  <2>1. /\ i <= Len(label[rt[i]]) /\ Agree(label[rt[i]], label[at], i - 1)
        /\ label[rt[i]][i] # label[at][i]
    BY <1>1, <1>3, <1>5, <1>8, LengthAssumption, NearestNeighbour
  <2> QED
    BY <2>1, <1>3, <1>9
<1>11. /\ target \in Seq(Bit) /\ Len(target) = M
       /\ i \in Nat /\ i >= 1 /\ i <= Len(at) /\ i < M /\ Len(at) \in Nat /\ M \in Nat
  BY <1>1, <1>5, LengthAssumption, BitStringType DEF IDs
<1>12. rt[i][i] = target[i]
  BY <1>1, <1>5, <1>9, <1>10, <1>11 DEF Bit
<1>13. Agree(rt[i], target, i)
  <2>1. \A j \in 1..i : j \in 1..(i - 1) \/ j = i
    BY <1>11
  <2> QED
    BY <2>1, <1>5, <1>10, <1>12 DEF Agree
<1>14. CommonPrefix(rt[i], target) \in Nat /\ CommonPrefix(rt[i], target) >= i
  BY <1>9, <1>10, <1>11, <1>13, CommonPrefixAtLeast
<1>15. CommonPrefix(at, target) = i - 1
  <2>1. i \in 1..Shorter(at, target)
    BY <1>11 DEF Shorter
  <2> QED
    BY <2>1, <1>1, <1>5, <1>11, CommonPrefixIs
<1> QED
  BY <1>7, <1>9, <1>11, <1>14, <1>15

LEMMA SplitInv ==
    ASSUME Inv, NEW c \in clusters, Split(c)
    PROVE  Inv'
<1> DEFINE halves == {Append(c, b) : b \in Bit}
<1>1. c \in Seq(Bit) /\ Len(c) < M /\ Len(c) + 1 # M /\ Len(c) \in Nat
  BY DEF Inv, Split, Partitions
<1>2. clusters' = (clusters \ {c}) \cup halves
  BY DEF Split
<1>3. Partitions(clusters', M)
  BY <1>1, <1>2, LengthAssumption, SplitPartitions DEF Inv
<1>4. ASSUME NEW b \in Bit PROVE Len(Append(c, b)) < M /\ Append(c, b) # None
  <2>1. Append(c, b) \in Seq(Bit) /\ Len(Append(c, b)) = Len(c) + 1
    BY <1>1, AppendBit
  <2> QED
    BY <2>1, <1>1, LengthAssumption, NoneIsNoLabel
<1>5. \A d \in clusters' : Len(d) < M
  BY <1>2, <1>4 DEF Inv
<1>6. at' \in clusters' \cup {None} /\ (at' # None => target' \in IDs)
  <2>1. c # None
    <3>1. Len(c) <= M
      BY <1>1, LengthAssumption
    <3> QED
      BY <3>1, <1>1, NoneIsNoLabel
  <2>2. target' = target
    BY DEF Split
  <2>3. CASE at = c
    <3>1. at' \in halves
      BY <2>3 DEF Split
    <3> QED
      BY <2>1, <2>2, <2>3, <3>1, <1>2 DEF Inv
  <2>4. CASE at # c
    BY <2>2, <2>4, <1>2 DEF Split, Inv
  <2> QED
    BY <2>3, <2>4
<1> QED
  BY <1>3, <1>5, <1>6 DEF Inv

LEMMA InvStep == Inv /\ [Next]_vars => Inv'
<1>1. SUFFICES ASSUME Inv, [Next]_vars PROVE Inv'
  OBVIOUS
<1>2. ASSUME NEW c \in clusters, Split(c) PROVE Inv'
  BY <1>1, <1>2, SplitInv
<1>3. ASSUME NEW c \in clusters, NEW id \in IDs, Send(c, id) PROVE Inv'
  BY <1>1, <1>3 DEF Send, Inv
<1>4. CASE Hop
  <2>1. at' \in clusters /\ clusters' = clusters /\ target' = target /\ at # None
    BY <1>1, <1>4, HopNearer DEF Hop
  <2> QED
    BY <1>1, <2>1 DEF Inv
<1>5. CASE Deliver
  BY <1>1, <1>5 DEF Deliver, Inv
<1>6. CASE UNCHANGED vars
  BY <1>1, <1>6 DEF vars, Inv
<1> QED
  BY <1>1, <1>2, <1>3, <1>4, <1>5, <1>6 DEF Next

(***************************************************************************)
(* The labels in the registry partition the IDs at all times.              *)
(***************************************************************************)
THEOREM Invariant == Spec => []Inv
<1>1. Init => Inv
  BY InitInv
<1>2. Inv /\ [Next]_vars => Inv'
  BY InvStep
<1> QED
  BY <1>1, <1>2, PTL DEF Spec
-----------------------------------------------------------------------------
LEMMA InvTables == Inv => TablesDiffer
<1>1. SUFFICES ASSUME Inv, NEW c \in clusters, NEW rt \in FixedTables(c, clusters, label),
                      NEW i \in 1..Len(c)
               PROVE  rt[i] # None /\ CommonPrefix(c, rt[i]) = i - 1
  BY DEF TablesDiffer
<1>2. Partition(clusters, label, M) /\ label[c] = c
  BY <1>1, LabelsPartition DEF Inv, label
<1>3. c \in Seq(Bit) /\ Len(c) < M /\ Len(c) > 0 /\ Len(c) \in Nat
  BY <1>1 DEF Inv, Partitions
<1>4. /\ rt \in [1..Len(c) -> clusters]
      /\ rt[i] \in Nearest(Flip(label[c], i), clusters \ {c}, label)
  <2>1. Len(label[c]) > 0
    BY <1>2, <1>3
  <2> QED
    BY <2>1, <1>2, LengthAssumption, TableEntries
<1>5. rt[i] \in clusters /\ label[rt[i]] = rt[i] /\ rt[i] \in Seq(Bit) /\ Len(rt[i]) < M
  BY <1>1, <1>4 DEF label, Inv, Partitions
<1>6. i <= Len(rt[i]) /\ Agree(rt[i], c, i - 1) /\ rt[i][i] # c[i]
  <2>1. /\ i <= Len(label[rt[i]]) /\ Agree(label[rt[i]], label[c], i - 1)
        /\ label[rt[i]][i] # label[c][i]
    BY <1>2, <1>4, LengthAssumption, NearestNeighbour
  <2> QED
    BY <2>1, <1>2, <1>5
<1>7. rt[i] # None
  BY <1>5, LengthAssumption, NoneIsNoLabel
<1>8. CommonPrefix(c, rt[i]) = i - 1
  <2>1. i \in 1..Shorter(c, rt[i])
    BY <1>3, <1>5, <1>6 DEF Shorter
  <2>2. Agree(c, rt[i], i - 1) /\ c[i] # rt[i][i]
    BY <1>6 DEF Agree
  <2> QED
    BY <2>1, <2>2, <1>3, <1>5, CommonPrefixIs
<1> QED
  BY <1>7, <1>8

(***************************************************************************)
(* Entry i of every table FixAllRT may build agrees with the label before  *)
(* bit i and differs in it, and is never nil.                              *)
(***************************************************************************)
THEOREM Neighbours == Spec => []TablesDiffer
BY Invariant, InvTables, PTL

(***************************************************************************)
(* A message on its way agrees with its target on more bits after every    *)
(* hop, so that it takes less than M of them while no cluster splits.      *)
(***************************************************************************)
THEOREM Progress == Spec => HopsGetNearer
<1>1. Inv /\ [Next]_vars => [Hop => CommonPrefix(at', target) > CommonPrefix(at, target)]_vars
  BY HopNearer
<1> QED
  BY <1>1, Invariant, PTL DEF Spec, HopsGetNearer
=============================================================================
