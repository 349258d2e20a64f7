----------------------------- MODULE RoutingTable -----------------------------
(***************************************************************************)
(* The routing tables that FixAllRT builds and getClosestCluster reads.    *)
(* Clusters are given by a set of references and a function from           *)
(* references to labels.                                                   *)
(***************************************************************************)
EXTENDS Route

CONSTANT None   \* no cluster

(* How many bits two strings agree on before they first differ, or one ends. *)
CommonPrefix(a, b) ==
    Cardinality({i \in 1..Shorter(a, b) : \A j \in 1..i : a[j] = b[j]})

(* The clusters that no other is nearer than. *)
Nearest(t, clusters, label) ==
    {c \in clusters : \A d \in clusters : ~Nearer(t, label[d], label[c])}

(* Mutant of FixedTables: the ideal neighbour is the cluster itself. *)
FixedTablesUnflipped(c, clusters, label) ==
    LET nearest == Nearest(label[c], clusters \ {c}, label)
    IN  [1..Len(label[c]) -> nearest]

(***************************************************************************)
(* The tables FixAllRT may give cluster c.  The map of clusters is visited *)
(* in any order and min is replaced only by a nearer cluster, so entry i   *)
(* is one of the nearest to the label with bit i flipped.  min is carried  *)
(* from entry to entry: an entry repeats the one before it unless it is    *)
(* nearer.  Alone in the registry, c has nil entries.                      *)
(***************************************************************************)
FixedTables(c, clusters, label) ==
    LET others == clusters \ {c}
        entries == 1..Len(label[c])
        ideal(i) == Flip(label[c], i)
        nearest == [i \in entries |-> Nearest(ideal(i), others, label)]
    IN  IF others = {} THEN {[i \in entries |-> None]}
        ELSE {rt \in [entries -> UNION {nearest[i] : i \in entries}] :
                \A i \in entries :
                    /\ rt[i] \in nearest[i]
                    /\ i = 1 \/ rt[i] = rt[i - 1]
                        \/ Nearer(ideal(i), label[rt[i]], label[rt[i - 1]])}

(* Mutant of Responsible: every cluster hands everything on. *)
ResponsibleRoot(l, target) == Len(l) = 0

(***************************************************************************)
(* The loop of getClosestCluster: the nearest of the first i entries of a  *)
(* table, an entry replacing one before it only if it is nearer.           *)
(***************************************************************************)
NearestOf(rt, label, target) ==
    LET best[i \in 1..Len(rt)] ==
            IF i = 1 THEN rt[1]
            ELSE IF Nearer(target, label[rt[i]], label[best[i - 1]]) THEN rt[i]
            ELSE best[i - 1]
    IN  best

(* The cluster is the root, or its label a prefix of the target. *)
Responsible(l, target) == Len(l) = 0 \/ IsPrefixOf(l, target)

(* Mutant of ClosestCluster: the loop ends one entry early. *)
ClosestClusterShort(c, rt, label, target) ==
    IF Responsible(label[c], target) THEN c
    ELSE IF Len(rt) = 1 THEN rt[1]
    ELSE NearestOf(rt, label, target)[Len(rt) - 1]

(* getClosestCluster: c itself if it is responsible for the target, or an entry of its table. *)
ClosestCluster(c, rt, label, target) ==
    IF Responsible(label[c], target) THEN c
    ELSE NearestOf(rt, label, target)[Len(rt)]
=============================================================================
