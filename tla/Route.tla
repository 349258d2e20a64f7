-------------------------------- MODULE Route --------------------------------
(***************************************************************************)
(* IDs, labels and keys: the bit strings of route.go and the comparisons   *)
(* that routing, splitting and merging are built on.                       *)
(***************************************************************************)
EXTENDS Integers, Sequences, FiniteSets

Bit == {0, 1}

(* All bit strings of one length. *)
BitStrings(n) == [1..n -> Bit]

Shorter(a, b) == IF Len(a) <= Len(b) THEN Len(a) ELSE Len(b)

(* The strings agree on the first n positions. *)
Agree(a, b, n) == \A i \in 1..n : a[i] = b[i]

(* equalize_length cuts the first string to the length of the second, never the second. *)
EqualizeLength(a, b) == <<SubSeq(a, 1, Shorter(a, b)), b>>

(* The positions where two strings, cut to one length, differ. *)
Differ(a, b) == {i \in 1..Shorter(a, b) : a[i] # b[i]}

(* distance: exclusive or over the common length. *)
Distance(a, b) ==
    LET cut == EqualizeLength(a, b)[1]
    IN  [i \in 1..Len(cut) |-> IF i \in Differ(a, b) THEN 1 ELSE 0]

HammingDistance(a, b) == Cardinality(Differ(a, b))

(* Mutant of Lt: the last position decides. *)
LtLast(a, b) ==
    \E i \in Differ(a, b) : b[i] = 1 /\ \A j \in Differ(a, b) : j <= i

(* The first position where two strings differ is decided for b, for lt and lte alike. *)
Lt(a, b) ==
    \E i \in 1..Shorter(a, b) : a[i] # b[i] /\ b[i] = 1 /\ Agree(a, b, i - 1)

Lte(a, b) == Lt(a, b)

Gt(a, b) == Lt(b, a)

Gte(a, b) == ~Lt(a, b)

(* a.prefix(b) *)
IsPrefixOf(a, b) ==
    /\ Len(a) <= Len(b)
    /\ Agree(a, b, Len(a))

Eq(a, b) == Len(a) = Len(b) /\ IsPrefixOf(a, b)

(* The label with bit i flipped, as FixAllRT builds its ideal neighbour. *)
Flip(label, i) == [label EXCEPT ![i] = 1 - @]

(***************************************************************************)
(* distance(t, a).lt(distance(t, b)), which getClosestCluster and FixAllRT *)
(* compare clusters by: where a and b first differ, within the length of   *)
(* t, it is a that agrees with t.                                          *)
(***************************************************************************)
Nearer(t, a, b) ==
    \E i \in 1..Shorter(a, b) :
        /\ i <= Len(t) /\ a[i] # b[i] /\ a[i] = t[i]
        /\ Agree(a, b, i - 1)
=============================================================================
