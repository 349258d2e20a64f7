------------------------------ MODULE Membership ------------------------------
(***************************************************************************)
(* The clusters of package simulation, their registry, and the peers that  *)
(* join and leave them: Join, Add with its threshold and Split, Leave with *)
(* replaceVC and Merge, FixAllRT, and what they do to the peers' data.     *)
(*                                                                         *)
(* A step holds the mutex of a cluster from beginning to end, except that  *)
(* Merge keeps the mutex of one cluster while it waits for that of the     *)
(* other.  What a peer reads of its cluster before it has the mutex it     *)
(* reads in a step of its own.                                             *)
(*                                                                         *)
(* The way of a join to the responsible cluster is abstracted (Routing),   *)
(* and so is how each core peer gathers a quorum of its copies (FanIn):    *)
(* one JoinSpareEvent for each peer that was core when the join arrived.   *)
(***************************************************************************)
EXTENDS RoutingTable, SequencesExt

CONSTANTS
    M,              \* length of an ID
    SMin,           \* core peers of a cluster
    SafteyValue,    \* Adds of a peer that a cluster ignores (sic)
    TSplit,         \* size of each half that makes a cluster split
    Boot,           \* the peers created by init, core of the first cluster
    Joiners,        \* the peers that may join
    Keys,           \* the keys that may be put
    MaxClusters,    \* bound on the clusters ever created
    MaxJoins,       \* bound on the joins under way at a time
    MaxLeaves       \* bound on the peers that leave

Peers == Boot \cup Joiners

ASSUME IDAssumption ==
    /\ M \in Nat \ {0}
    /\ Boot \cup Joiners \cup Keys \subseteq BitStrings(M)
    /\ Boot \cap Joiners = {}

(* nil is no cluster. *)
ASSUME NoneAssumption == None \notin Nat

(***************************************************************************)
(* globals.go: 8 core peers, more than the 6 Adds that are ignored and too *)
(* few to admit a peer twice; halves that split can each fill a core.      *)
(***************************************************************************)
ASSUME SizeAssumption ==
    /\ SMin \in Nat /\ SafteyValue \in Nat /\ TSplit \in Nat
    /\ SafteyValue < SMin /\ SMin < 2 * (SafteyValue + 1)
    /\ SMin <= TSplit
    /\ Cardinality(Boot) = SMin

VARIABLES
    cl,         \* the clusters ever created, in the order of their creation
    registry,   \* ClusterRegistry: label to cluster
    locked,     \* clusters whose mutex is held across steps
    cluster,    \* each peer's cluster
    type,       \* each peer's type
    data,       \* the keys in each peer's data store
    stage,      \* how far Join is
    spares,     \* <<q, p>>: JoinSpareEvents for p at q that have not fired
    adds,       \* <<q, p, c>>: calls of c.Add(p) by q that wait for the mutex
    leaving,    \* <<p, c>>: calls of c.replaceVC(p) that wait for the mutex
    merging,    \* <<a, b, p>>: calls of Merge(a, b) that wait for the mutex of b
    left,       \* peers that have left
    crashed     \* a nil pointer was followed, which ends the program

clusterVars == <<cl, registry, locked>>
peerVars == <<cluster, type, data, stage>>
callVars == <<spares, adds, leaving, merging, left>>
vars == <<clusterVars, peerVars, callVars, crashed>>

Clusters == DOMAIN cl
Live == {registry[l] : l \in DOMAIN registry}
Members(c) == cl[c].vc \cup cl[c].vs

NewCluster(label, vc, vs, rt) ==
    [label |-> label, vc |-> vc, vs |-> vs, rt |-> rt, merge |-> FALSE,
     freq |-> [p \in Peers |-> 0]]

Labels == UNION {BitStrings(n) : n \in 0..(M - 1)}

ClusterRecords ==
    [label : Labels, vc : SUBSET Peers, vs : SUBSET Peers, rt : Seq(Clusters \cup {None}),
     merge : BOOLEAN, freq : [Peers -> 0..SafteyValue]]

TypeOK ==
    /\ cl \in Seq(ClusterRecords)
    /\ registry \in [DOMAIN registry -> Clusters] /\ DOMAIN registry \subseteq Labels
    /\ locked \subseteq Clusters
    /\ cluster \in [Peers -> Clusters \cup {None}]
    /\ type \in [Peers -> {"UNDEF", "CORE", "SPARE"}]
    /\ data \in [Peers -> SUBSET Keys]
    /\ stage \in [Peers -> {"out", "asked", "waiting", "serving"}]
    /\ spares \subseteq Peers \X Peers
    /\ adds \subseteq Peers \X Peers \X Clusters
    /\ leaving \subseteq Peers \X Clusters
    /\ merging \subseteq Clusters \X Clusters \X Peers
    /\ left \subseteq Peers
    /\ crashed \in BOOLEAN

(* NewCluster and the loop of addVc in init; serve was started for all of them. *)
Init ==
    /\ cl = <<NewCluster(<<>>, Boot, {}, <<>>)>>
    /\ registry = [l \in {<<>>} |-> 1]
    /\ locked = {}
    /\ cluster = [p \in Peers |-> IF p \in Boot THEN 1 ELSE None]
    /\ type = [p \in Peers |-> IF p \in Boot THEN "CORE" ELSE "UNDEF"]
    /\ data = [p \in Peers |-> {}]
    /\ stage = [p \in Peers |-> IF p \in Boot THEN "serving" ELSE "out"]
    /\ spares = {}
    /\ adds = {}
    /\ leaving = {}
    /\ merging = {}
    /\ left = {}
    /\ crashed = FALSE
-----------------------------------------------------------------------------
(* Mutant of FixAllRT: the tables stay as they are. *)
FixNoRT(cs, reg) == {cs}

(***************************************************************************)
(* FixAllRT: the clusters cs with new routing tables for the registered    *)
(* ones, in every way it may choose them.                                  *)
(***************************************************************************)
FixAllRT(cs, reg) ==
    LET live == {reg[l] : l \in DOMAIN reg}
        label == [c \in DOMAIN cs |-> cs[c].label]
        tables == [c \in live |-> FixedTables(c, live, label)]
        open == {c \in live : ~\E rt \in tables[c] : tables[c] = {rt}}
        choices == {t \in [open -> UNION {tables[c] : c \in open}] :
                       \A c \in open : t[c] \in tables[c]}
    IN  {[c \in DOMAIN cs |->
            IF c \notin live THEN cs[c]
            ELSE [cs[c] EXCEPT !.rt = IF c \in open THEN t[c]
                                      ELSE CHOOSE only \in tables[c] : TRUE]] : t \in choices}

Least(m, n) == IF m <= n THEN m ELSE n

Registered(l, c, reg) == [m \in DOMAIN reg \cup {l} |-> IF m = l THEN c ELSE reg[m]]

(* Mutant of Unregistered: the old label stays in the registry. *)
UnregisteredNot(ls, reg) == reg

Unregistered(ls, reg) == Restrict(reg, DOMAIN reg \ ls)

Half(c, b) == Append(c.label, b)

Side(S, label) == {p \in S : IsPrefixOf(label, p)}

(* isSplit, of the cluster record c: both values of the next bit are common enough. *)
IsSplit(c) ==
    LET next == Len(c.label) + 1
    IN  /\ next # M
        /\ \A b \in Bit : Cardinality({p \in c.vc : p[next] = b})
                           + Cardinality({p \in c.vs : p[next] = b}) >= TSplit

(* The n smallest peers of S. *)
Smallest(n, S) == {p \in S : Cardinality({q \in S : Lt(q, p)}) < n}

(* Mutants of HalfCore: one spare peer too many, and old core peers may have to go. *)
HalfCoreOver(c, b) ==
    LET own == Side(c.vc, Half(c, b))
    IN  own \cup Smallest(SMin + 1 - Cardinality(own), Side(c.vs, Half(c, b)))

HalfCoreAnew(c, b) == Smallest(SMin, Side(c.vc \cup c.vs, Half(c, b)))

(* The core of a half of c: its side of the old core, filled up with its smallest spares. *)
HalfCore(c, b) ==
    LET own == Side(c.vc, Half(c, b))
    IN  own \cup Smallest(SMin - Cardinality(own), Side(c.vs, Half(c, b)))

(***************************************************************************)
(* Split of cluster c, whose record now is old.  The half with bit 1       *)
(* becomes a new cluster and c keeps the other.  All core peers of a half  *)
(* get what one of them, whichever the map yields first, has of the keys   *)
(* of that half.  Cluster and type are set for the members of the new      *)
(* cluster only.  Register leaves a label that is taken alone, setLabel    *)
(* (Update) takes it over.  A half that cannot fill its core ends in a     *)
(* nil pointer.                                                            *)
(***************************************************************************)
Split(c, old, clusters, types) ==
    LET new == Len(cl) + 1
        next == Len(old.label) + 1
        core == [b \in Bit |-> HalfCore(old, b)]
        rest == [b \in Bit |-> Side(old.vs, Half(old, b)) \ core[b]]
        kept == [old EXCEPT !.label = Half(old, 0), !.vc = core[0], !.vs = rest[0],
                            !.rt = Append(@, new)]
        added == NewCluster(Half(old, 1), core[1], rest[1], Append(old.rt, c))
        register == IF added.label \in DOMAIN registry THEN registry
                    ELSE Registered(added.label, new, registry)
    IN  /\ new <= MaxClusters
        /\ registry' = Registered(kept.label, c, Unregistered({old.label}, register))
        /\ cl' \in FixAllRT(Append([cl EXCEPT ![c] = kept], added), registry')
        /\ \E copy \in [Bit -> core[0] \cup core[1]] :
             /\ \A b \in Bit : copy[b] \in core[b]
             /\ data' = [q \in Peers |->
                           IF q \in core[0] \cup core[1]
                           THEN {k \in data[copy[q[next]]] : IsPrefixOf(Half(old, q[next]), k)}
                           ELSE data[q]]
        /\ cluster' = [q \in Peers |-> IF q \in core[1] \cup rest[1] THEN new ELSE clusters[q]]
        /\ type' = [q \in Peers |-> IF q \in core[1] THEN "CORE"
                                     ELSE IF q \in rest[1] THEN "SPARE" ELSE types[q]]
        /\ crashed' = (\E b \in Bit : Cardinality(core[b]) < SMin)
-----------------------------------------------------------------------------
(***************************************************************************)
(* Join: p asks, and the core peers of the cluster responsible for p each  *)
(* get a JoinSpareEvent.  p then waits for ready, which does not wait.     *)
(***************************************************************************)
Join(p) ==
    /\ ~crashed
    /\ stage[p] = "out"
    /\ Cardinality({q \in Peers : stage[q] \in {"asked", "waiting"}}) < MaxJoins
    /\ \E c \in Live : /\ IsPrefixOf(cl[c].label, p)
                       /\ spares' = spares \cup (cl[c].vc \X {p})
    /\ stage' = [stage EXCEPT ![p] = "asked"]
    /\ UNCHANGED <<clusterVars, cluster, type, data, adds, leaving, merging, left, crashed>>

AwaitReady(p) ==
    /\ ~crashed
    /\ stage[p] = "asked"
    /\ stage' = [stage EXCEPT ![p] = "waiting"]
    /\ UNCHANGED <<clusterVars, cluster, type, data, callVars, crashed>>

Ready(p) == stage' = [stage EXCEPT ![p] = IF @ = "waiting" THEN "serving" ELSE @]

(* JoinSpareEvent.fire up to the unlocking of the read lock in Add. *)
FireJoinSpare(q, p) ==
    /\ ~crashed
    /\ <<q, p>> \in spares
    /\ cluster[q] \notin locked
    /\ spares' = spares \ {<<q, p>>}
    /\ adds' = IF p \in cl[cluster[q]].vs THEN adds ELSE adds \cup {<<q, p, cluster[q]>>}
    /\ UNCHANGED <<clusterVars, peerVars, leaving, merging, left, crashed>>

(* Mutant of Enough: one call too many. *)
EnoughLate(c, p) == cl[c].freq[p] > SafteyValue

(* addHandler.Add: this call is one more than the threshold. *)
Enough(c, p) == cl[c].freq[p] + 1 > SafteyValue

(* Mutant of AddIgnored: the peer is told that it is ready before it is a member. *)
AddIgnoredReady(p, c) ==
    /\ ~Enough(c, p)
    /\ cl' = [cl EXCEPT ![c].freq[p] = @ + 1]
    /\ Ready(p)
    /\ UNCHANGED <<registry, cluster, type, data, crashed>>

(* The rest of Add of p to c: addHandler.Add has counted too few calls ... *)
AddIgnored(p, c) ==
    /\ ~Enough(c, p)
    /\ cl' = [cl EXCEPT ![c].freq[p] = @ + 1]
    /\ UNCHANGED <<registry, peerVars, crashed>>

(* ... or enough, for a peer that is not of this cluster any more ... *)
AddElsewhere(p, c) ==
    /\ Enough(c, p)
    /\ ~IsPrefixOf(cl[c].label, p)
    /\ cl' \in FixAllRT([cl EXCEPT ![c].freq[p] = 0], registry)
    /\ UNCHANGED <<registry, peerVars, crashed>>

(* ... or enough, and p becomes a spare peer, which may split the cluster. *)
AddSpare(p, c) ==
    LET old == [cl[c] EXCEPT !.freq[p] = 0, !.vs = @ \cup {p}]
        clusters == [cluster EXCEPT ![p] = c]
        types == [type EXCEPT ![p] = "SPARE"]
    IN  /\ Enough(c, p)
        /\ IsPrefixOf(cl[c].label, p)
        /\ Ready(p)
        /\ \/ /\ IsSplit(old)
              /\ Split(c, old, clusters, types)
           \/ /\ ~IsSplit(old)
              /\ cl' \in FixAllRT([cl EXCEPT ![c] = old], registry)
              /\ cluster' = clusters
              /\ type' = types
              /\ UNCHANGED <<registry, data, crashed>>

Add(q, p, c) ==
    /\ ~crashed
    /\ <<q, p, c>> \in adds
    /\ c \notin locked
    /\ adds' = adds \ {<<q, p, c>>}
    /\ AddIgnored(p, c) \/ AddElsewhere(p, c) \/ AddSpare(p, c)
    /\ UNCHANGED <<locked, spares, leaving, merging, left>>
-----------------------------------------------------------------------------
(* The store of one core peer of the cluster responsible for k (PutEvent.fire). *)
Put(p, k) ==
    /\ ~crashed
    /\ cluster[p] # None
    /\ p \in cl[cluster[p]].vc
    /\ Responsible(cl[cluster[p]].label, k)
    /\ k \notin data[p]
    /\ data' = [data EXCEPT ![p] = @ \cup {k}]
    /\ UNCHANGED <<clusterVars, cluster, type, stage, callVars, crashed>>

(***************************************************************************)
(* The driver lets any core peer leave, also one whose Join has yet to     *)
(* return (sim/main.go:93); Leave reads the cluster before it has a mutex. *)
(***************************************************************************)
Leave(p) ==
    /\ ~crashed
    /\ type[p] = "CORE"
    /\ p \notin left /\ \A call \in leaving : call[1] # p /\ \A m \in merging : m[3] # p
    /\ Cardinality(left) + Cardinality(leaving) + Cardinality(merging) < MaxLeaves
    /\ leaving' = leaving \cup {<<p, cluster[p]>>}
    /\ UNCHANGED <<clusterVars, peerVars, spares, adds, merging, left, crashed>>

(* replaceVC: any spare peer takes the place and the data of p ... *)
Nominate(p, c) ==
    /\ \E n \in cl[c].vs :
         /\ cl' \in FixAllRT([cl EXCEPT ![c].vs = @ \ {n}, ![c].vc = (@ \ {p}) \cup {n}], registry)
         /\ data' = [data EXCEPT ![n] = data[p]]
         /\ type' = [type EXCEPT ![n] = "CORE"]
    /\ left' = left \cup {p}
    /\ UNCHANGED <<registry, locked, cluster, stage, merging, crashed>>

(* ... or there is none, and a cluster that was to be merged, or the root, shrinks ... *)
Shrink(p, c) ==
    /\ cl[c].vs = {}
    /\ cl[c].merge \/ Len(cl[c].label) = 0
    /\ cl' = [cl EXCEPT ![c].vc = @ \ {p}, ![c].merge = TRUE]
    /\ left' = left \cup {p}
    /\ UNCHANGED <<registry, locked, peerVars, merging, crashed>>

(* Mutant of Mergeable: the flag of b is not looked at. *)
MergeableAlways(b) == b # None

(* SwapUint64(&b.merge, 1) in Merge returns 0. *)
Mergeable(b) == b # None /\ ~cl[b].merge

(***************************************************************************)
(* ... or Merge with the last cluster of the table begins.  If that one is *)
(* to be merged already Merge returns.                                     *)
(***************************************************************************)
BeginMerge(p, c) ==
    LET b == Last(cl[c].rt)
        free == Mergeable(b)
    IN  /\ cl[c].vs = {} /\ ~cl[c].merge /\ Len(cl[c].label) > 0
        /\ cl' = [d \in Clusters |->
                     [cl[d] EXCEPT !.vc = IF d = c THEN @ \ {p} ELSE @,
                                   !.merge = @ \/ d \in {b, c}]]
        /\ crashed' = (b = None)
        /\ merging' = IF free THEN merging \cup {<<c, b, p>>} ELSE merging
        /\ locked' = IF free THEN locked \cup {c} ELSE locked
        /\ left' = IF free THEN left ELSE left \cup {p}
        /\ UNCHANGED <<registry, peerVars>>

ReplaceVC(p, c) ==
    /\ ~crashed
    /\ <<p, c>> \in leaving
    /\ c \notin locked
    /\ leaving' = leaving \ {<<p, c>>}
    /\ Nominate(p, c) \/ Shrink(p, c) \/ BeginMerge(p, c)
    /\ UNCHANGED <<spares, adds>>

(* Mutant of MergedStore: the other store replaces a peer's own. *)
MergedStoreOther(own, other) == other

(* MapWrapper.Merge *)
MergedStore(own, other) == own \cup other

MergedLabel(a) == Front(cl[a].label)

(* Mutant of Gathered: who is core in b is left out. *)
GatheredFromA(a, b) == cl[a].vc

(* The peers that Merge asks: those that are core. *)
Gathered(a, b) == cl[a].vc \cup cl[b].vc

(***************************************************************************)
(* The rest of Merge, once it has the mutex of b, which it never gives     *)
(* back.  The core peers of a and then of b, each in any order, are core   *)
(* of the merged cluster up to SMin of them and get the data of a core     *)
(* peer of the other side; the others become spare and lose theirs.  The   *)
(* spare peers of a and b are not asked, nor are the routing tables fixed. *)
(***************************************************************************)
Merge(a, b, p) ==
    LET new == Len(cl) + 1
        vc == Gathered(a, b)
        fromA == Least(SMin, Cardinality(cl[a].vc))
        fromB == Least(SMin - fromA, Cardinality(cl[b].vc))
        stores(S) == IF S = {} THEN {{}} ELSE {data[q] : q \in S}
    IN  /\ ~crashed
        /\ <<a, b, p>> \in merging
        /\ b \notin locked
        /\ new <= MaxClusters
        /\ merging' = merging \ {<<a, b, p>>}
        /\ locked' = (locked \ {a}) \cup {b}
        /\ left' = left \cup {p}
        /\ crashed' = (vc # {} /\ {} \in {cl[a].vc, cl[b].vc})
        /\ \E coreA \in kSubset(fromA, cl[a].vc), coreB \in kSubset(fromB, cl[b].vc),
              storeA \in stores(cl[a].vc), storeB \in stores(cl[b].vc) :
             LET core == coreA \cup coreB
                 merged == NewCluster(MergedLabel(a), core, vc \ core, Front(cl[a].rt))
             IN  /\ cl' = Append(cl, merged)
                 /\ registry' = Registered(merged.label, new,
                                   Unregistered({cl[a].label, cl[b].label}, registry))
                 /\ cluster' = [q \in Peers |-> IF q \in vc THEN new ELSE cluster[q]]
                 /\ type' = [q \in Peers |-> IF q \in core THEN "CORE"
                                              ELSE IF q \in vc THEN "SPARE" ELSE type[q]]
                 /\ data' = [q \in Peers |-> IF q \in coreA THEN MergedStore(data[q], storeB)
                                              ELSE IF q \in coreB
                                              THEN MergedStore(data[q], MergedStore(storeA, storeB))
                                              ELSE IF q \in vc THEN {} ELSE data[q]]
        /\ UNCHANGED <<stage, spares, adds, leaving>>

Next ==
    \/ \E p \in Joiners : Join(p) \/ AwaitReady(p)
    \/ \E q, p \in Peers : FireJoinSpare(q, p)
    \/ \E call \in adds : Add(call[1], call[2], call[3])
    \/ \E p \in Peers, k \in Keys : Put(p, k)
    \/ \E p \in Peers : Leave(p)
    \/ \E call \in leaving : ReplaceVC(call[1], call[2])
    \/ \E m \in merging : Merge(m[1], m[2], m[3])

Spec == Init /\ [][Next]_vars
-----------------------------------------------------------------------------
AllMembers == UNION {Members(c) : c \in Live}

AllCore == UNION {cl[c].vc : c \in Live}

(* Has left, or is about to, waiting for the merge it has caused. *)
Gone == left \cup {m[3] : m \in merging}

(***************************************************************************)
(* No label of a registered cluster is a prefix of another (the            *)
(* non-inclusion property of latex/main.tex), which getClosestCluster      *)
(* relies on: otherwise two clusters answer for one key.  Split keeps it;  *)
(* Merge, which takes one neighbour and cuts the label (cluster.go:103),   *)
(* does not if that neighbour has a sibling.                               *)
(***************************************************************************)
NonInclusion ==
    \A l, m \in DOMAIN registry : IsPrefixOf(l, m) => l = m

(***************************************************************************)
(* While no cluster merges, the registered labels partition the IDs, and   *)
(* the registry and the clusters agree on them: what Register and Update   *)
(* do in Split neither loses a cluster nor leaves a gap.                   *)
(***************************************************************************)
LabelsPartition ==
    /\ NonInclusion
    /\ \A id \in BitStrings(M) : \E l \in DOMAIN registry : IsPrefixOf(l, id)
    /\ \A l \in DOMAIN registry : cl[registry[l]].label = l

(***************************************************************************)
(* Each cluster has exactly SMin core peers ("|V_C| = S_min"), however     *)
(* joins and splits interleave.  SafteyValue of quorums rests on it.       *)
(***************************************************************************)
CoreFull == \A c \in Live : Cardinality(cl[c].vc) = SMin

(***************************************************************************)
(* A peer whose Join has returned, and that has not left, is in exactly    *)
(* one registered cluster, the one it takes for its own, and the label of  *)
(* that cluster is a prefix of its ID.  Nor is any peer at once a core and *)
(* a spare peer, as it would be if the calls of Add for one join reached   *)
(* the threshold twice, the second time after a split has made it core.    *)
(***************************************************************************)
OneCluster ==
    /\ \A p \in Peers : stage[p] = "serving" /\ p \notin left =>
          /\ cluster[p] \in Live
          /\ IsPrefixOf(cl[cluster[p]].label, p)
          /\ \A c \in Live : p \in Members(c) <=> cluster[p] = c
    /\ \A c \in Live : cl[c].vc \cap cl[c].vs = {}

(***************************************************************************)
(* Entry i of the table of a registered cluster is a registered cluster    *)
(* nearest to the label with bit i flipped, whichever cluster split last   *)
(* and although FixAllRT starts each entry from the one before it.         *)
(***************************************************************************)
TablesNearest ==
    \A c \in Live : \A i \in DOMAIN cl[c].rt :
        cl[c].rt[i] \in Nearest(Flip(cl[c].label, i), Live \ {c}, [d \in Clusters |-> cl[d].label])

(***************************************************************************)
(* Neither Add nor Split takes a member out of the system, nor a core peer *)
(* out of the core: who has not left is still there after every step.      *)
(***************************************************************************)
MembersStay ==
    [][AllMembers \ Gone' \subseteq AllMembers' /\ AllCore \ Gone' \subseteq AllCore']_vars

(***************************************************************************)
(* Merge holds the mutex of a while it waits for that of b, and b's is     *)
(* never given back: the merge flags must keep two merges from waiting for *)
(* each other, or one for the mutex the other has kept.                    *)
(***************************************************************************)
MergeNeverBlocked == \A m \in merging : m[2] \notin locked /\ m[1] \in locked

(* What becomes of c by a step: the cluster that Merge has made of it, or c itself. *)
Heir(c) == IF \E m \in merging \ merging' : c \in {m[1], m[2]} THEN Len(cl') ELSE c

(***************************************************************************)
(* A key that every core peer of a cluster holds is not lost when a peer   *)
(* leaves, whatever that one read of its cluster before, and not when the  *)
(* cluster is merged for it, on either side: as long as the cluster has    *)
(* core peers at all, one of them holds the key (replaceVC, Merge).        *)
(***************************************************************************)
KeysOutliveLeaves ==
    [][left' # left /\ ~crashed' =>
          \A c \in Live, k \in Keys :
              LET core == cl'[Heir(c)].vc IN
              cl[c].vc # {} /\ (\A q \in cl[c].vc : k \in data[q]) /\ core # {} =>
                  \E q \in core : k \in data'[q]]_vars

Holders(k) == {c \in Live : IsPrefixOf(cl[c].label, k) /\ cl[c].vc # {}}

(***************************************************************************)
(* A key that every core peer of a responsible cluster holds is not lost   *)
(* by a split ("would be migrated", latex/main.tex).                       *)
(***************************************************************************)
KeysOutliveSplits ==
    [][left' = left =>
          \A k \in Keys :
              (\E c \in Holders(k) : \A q \in cl[c].vc : k \in data[q]) /\ Holders(k)' # {} =>
                  (\E c \in Holders(k) : \E q \in cl[c].vc : k \in data[q])']_vars

(***************************************************************************)
(* Merge leaves the spare peers of b behind (merge.go:35), but it is spare *)
(* peers only: a core peer of a registered cluster that does not leave is  *)
(* in a registered cluster after every step by which another leaves.       *)
(***************************************************************************)
CoresGather == [][left' # left => AllCore \ Gone' \subseteq AllMembers']_vars

(* No call for p is left that could make it a member. *)
NoCallFor(p) == (\A e \in spares : e[2] # p) /\ \A call \in adds : call[2] # p

(***************************************************************************)
(* A join is lost to a split only: if its last call does not make it a     *)
(* member, that call waited for the mutex of a cluster that has become one *)
(* of other IDs meanwhile (cluster.go:131), or SafteyValue + 1 calls have, *)
(* and it is the last of the others, or its calls are counted in two       *)
(* clusters.                                                               *)
(***************************************************************************)
JoinsLostToSplits ==
    [][adds' # adds =>
          \A call \in adds \ adds' :
              LET p == call[2]
                  calls(c) == cl'[c].freq[p]
              IN  NoCallFor(p)' /\ p \notin AllMembers' =>
                    \/ ~IsPrefixOf(cl[call[3]].label, p)
                    \/ \E c, d \in Clusters' : c # d /\ calls(c) > 0 /\ calls(d) > 0
                    \/ calls(call[3]) > 0 /\ calls(call[3]) = SMin - (SafteyValue + 1)]_vars
=============================================================================
