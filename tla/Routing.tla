------------------------------- MODULE Routing -------------------------------
(***************************************************************************)
(* A request or a join on its way through the hypercube: every cluster     *)
(* hands it on to the entry of its routing table nearest to the target,    *)
(* until a cluster finds itself responsible, while clusters split and      *)
(* FixAllRT rebuilds the tables.  A cluster acts as one here: how its      *)
(* peers agree is the subject of FanIn.                                    *)
(***************************************************************************)
EXTENDS RoutingTable, FiniteSetsExt

CONSTANT M      \* length of an ID

ASSUME LengthAssumption == M \in Nat \ {0}

(* nil is no cluster. *)
ASSUME NoneAssumption == \A n \in 0..M : None \notin BitStrings(n)

IDs == BitStrings(M)

VARIABLES
    clusters,   \* the labels in ClusterRegistry
    at,         \* the cluster the message is at
    target      \* the ID or key it is sent to

vars == <<clusters, at, target>>

(* Labels name the clusters here. *)
label == [c \in clusters |-> c]

Init ==
    /\ clusters = {<<>>}
    /\ at = None
    /\ target = None

(* Split, once isSplit allows it; the message stays with either half. *)
Split(c) ==
    /\ Len(c) + 1 # M
    /\ LET halves == {Append(c, b) : b \in Bit} IN
       /\ clusters' = (clusters \ {c}) \cup halves
       /\ IF at = c THEN at' \in halves ELSE UNCHANGED at
    /\ UNCHANGED target

Send(c, id) ==
    /\ at = None
    /\ at' = c
    /\ target' = id
    /\ UNCHANGED clusters

(* fire of a join, lookup, put or delete event, where it is not at home. *)
Hop ==
    /\ at # None
    /\ \E rt \in FixedTables(at, clusters, label) :
         LET next == ClosestCluster(at, rt, label, target) IN
         /\ ~Eq(next, at)
         /\ at' = next
    /\ UNCHANGED <<clusters, target>>

(* The same where it is. *)
Deliver ==
    /\ at # None
    /\ \E rt \in FixedTables(at, clusters, label) :
         Eq(ClosestCluster(at, rt, label, target), at)
    /\ at' = None
    /\ target' = None
    /\ UNCHANGED clusters

Next ==
    \/ \E c \in clusters : Split(c)
    \/ \E c \in clusters, id \in IDs : Send(c, id)
    \/ Hop
    \/ Deliver

(* A cluster that has a message handles it. *)
Spec == Init /\ [][Next]_vars /\ WF_vars(Hop \/ Deliver)
-----------------------------------------------------------------------------
(***************************************************************************)
(* BasicDescription.md:25: RT[i] differs from the label in bit i.  It      *)
(* agrees with it before that bit, which is what routing needs: no         *)
(* cluster's table may skip a subtree of the hypercube, however uneven the *)
(* splits were.                                                            *)
(***************************************************************************)
TablesDiffer ==
    \A c \in clusters : \A rt \in FixedTables(c, clusters, label) :
        \A i \in 1..Len(c) : rt[i] # None /\ CommonPrefix(c, rt[i]) = i - 1

(* Every hop gets nearer: the next cluster agrees with the target on more bits. *)
HopsGetNearer ==
    [][ Hop => CommonPrefix(at', target) > CommonPrefix(at, target) ]_vars

(* Every message is delivered, whatever splits meanwhile. *)
Delivered == at # None ~> at = None

(***************************************************************************)
(* BasicDescription.md:13: D sums 2^(m-i) over the bits that differ.       *)
(* Comparing what distance returns, as lt does, is comparing D; and Nearer *)
(* is that comparison, for labels of any two lengths too.                  *)
(***************************************************************************)
D(a, b) == MapThenSumSet(LAMBDA i : 2^(M - i), Differ(a, b))

DistanceIsD ==
    target # None =>
        /\ \A a, b \in IDs :
             Lt(Distance(target, a), Distance(target, b)) <=> D(target, a) < D(target, b)
        /\ \A a, b \in clusters :
             Nearer(target, a, b) <=> Lt(Distance(target, a), Distance(target, b))
=============================================================================
