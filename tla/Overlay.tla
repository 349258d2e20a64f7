------------------------------- MODULE Overlay -------------------------------
(***************************************************************************)
(* Joins and splits in package peercube, where, other than in package      *)
(* simulation, nothing is shared: each peer has a view of its own of its   *)
(* cluster and of the neighbours (rt), and of the clusters that have it as *)
(* a neighbour (pt), and changes it by the messages it receives.           *)
(*                                                                         *)
(* The driver (TestPeerComms) lets one peer join after the other.          *)
(*                                                                         *)
(* A message in a queue stands for one that waits to be taken as well as   *)
(* for one that a handler has been given whose event has not fired yet.    *)
(* Four workers take messages and events, each handler fires in a          *)
(* goroutine of its own (node.go:106, eventhandler.go:88): what a peer is  *)
(* sent takes effect in any order, and a queue is a bag.  A handler that   *)
(* has fired loses what it is given until it is removed.                   *)
(***************************************************************************)
EXTENDS Integers, Sequences, FiniteSets, Bags

CONSTANTS
    Peers,          \* all peers that are or will be in the overlay
    ID,             \* the identifier of each peer
    FirstCore,      \* the core of the first cluster
    Seed,           \* the peer through which all others join
    Orders,         \* the orders in which the driver may let peers join
    M,              \* length of an identifier
    SMin,           \* number of core peers of a cluster
    TSplit,         \* peers a half must have for a split
    NoMap           \* the nil map, which cannot be written to

ASSUME PeersAssumption ==
    /\ IsFiniteSet(Peers)
    /\ M \in Nat
    /\ ID \in [Peers -> [1..M -> {0, 1}]]
    /\ \A p, q \in Peers : ID[p] = ID[q] => p = q
    /\ FirstCore \subseteq Peers
    /\ Seed \in FirstCore
    /\ Orders \subseteq Seq(Peers \ FirstCore)

(***************************************************************************)
(* peercube.go has SMin = 4.  With less, the handler of a JOIN would have  *)
(* no capacity and would fire while it is being made.                      *)
(***************************************************************************)
ASSUME SizesAssumption ==
    /\ SMin \in Nat /\ SMin >= 4
    /\ TSplit \in Nat /\ SMin <= TSplit
    /\ Cardinality(FirstCore) = SMin

(* How many messages make a handler fire. *)
JoinQuorum == (SMin - 1) \div 3
Quorum == (SMin - 1) \div 3 + 1
-----------------------------------------------------------------------------
(* equalize_length fills the shorter string with zeros. *)
At(a, i) == IF i <= Len(a) THEN a[i] ELSE 0

Longer(a, b) == IF Len(a) >= Len(b) THEN Len(a) ELSE Len(b)

Distance(a, b) == [i \in 1..Longer(a, b) |-> IF At(a, i) = At(b, i) THEN 0 ELSE 1]

Lt(a, b) ==
    \E i \in 1..Longer(a, b) :
        /\ At(a, i) # At(b, i) /\ At(b, i) = 1
        /\ \A j \in 1..(i - 1) : At(a, j) = At(b, j)

Gte(a, b) == ~Lt(a, b)

IsPrefixOf(a, b) == Len(a) <= Len(b) /\ \A i \in 1..Len(a) : a[i] = b[i]

(* The identifier nearest to a cluster with this label across the bit i. *)
Ideal(label, i) == [j \in 1..M |-> IF j = i THEN 1 - At(label, j) ELSE At(label, j)]
-----------------------------------------------------------------------------
VARIABLES
    type,       \* each peer's type
    cluster,    \* each peer's view of its cluster
    rt,         \* its routing table, a sequence of clusters
    pt,         \* the clusters that have told it that they point at it
    msgq,       \* the bag of messages that it has yet to heed
    full,       \* the hashes of its handlers that have fired and are still registered
    joining,    \* whether joinByID has yet to start, waits or is over
    crashed,    \* the program has panicked
    order       \* the order in which the peers join

vars == <<type, cluster, rt, pt, msgq, full, joining, crashed, order>>

Labels == UNION {[1..n -> {0, 1}] : n \in 0..M}

Cluster == [label : Labels, vc : SUBSET Peers, vs : SUBSET Peers]

Init ==
    /\ type = [p \in Peers |-> IF p \in FirstCore THEN "CORE" ELSE "UNDEF"]
    /\ cluster = [p \in Peers |->
                    [label |-> <<>>, vc |-> IF p \in FirstCore THEN FirstCore ELSE {p},
                     vs |-> {}]]
    /\ rt = [p \in Peers |-> <<>>]
    /\ pt = [p \in Peers |-> {}]
    /\ msgq = [p \in Peers |-> EmptyBag]
    /\ full = [p \in Peers |-> {}]
    /\ joining = [p \in Peers |-> IF p \in FirstCore THEN "over" ELSE "not yet"]
    /\ crashed = FALSE
    /\ order \in Orders
-----------------------------------------------------------------------------
(***************************************************************************)
(* Messages.  What is sent of a cluster or a state is a copy (gob).        *)
(***************************************************************************)
Join(p, origin) == [kind |-> "JOIN", undef |-> type[p] = "UNDEF", origin |-> origin]
JoinSpare(origin) == [kind |-> "JOINSPARE", origin |-> origin]
JoinTemp(origin) == [kind |-> "JOINTEMP", origin |-> origin]
JoinAck(state) == [kind |-> "JOINACK", state |-> state]
Split(state) == [kind |-> "SPLIT", state |-> state]
Connect(c) == [kind |-> "CONNECT", cluster |-> c]
Disconnect(c) == [kind |-> "DISCONNECT", label |-> c.label]

CoreState(c, table, pointers) ==
    [type |-> "CORE", cluster |-> c, rt |-> table, pt |-> pointers]

(* A spare peer is told the label and the core of its cluster only. *)
SpareState(c) ==
    [type |-> "SPARE", cluster |-> [c EXCEPT !.vs = {}], rt |-> <<>>, pt |-> NoMap]

(* The pointers that a map holds. *)
Known(pointers) == IF pointers = NoMap THEN {} ELSE pointers

(* Hashes: by whom a message is about, what it tells a peer to be, or which cluster. *)
OriginHash(m) == <<m.kind, m.origin>>
StateHash(m) ==
    <<m.kind, m.state.type, m.state.cluster.label, Cardinality(Known(m.state.pt)),
      Len(m.state.rt)>>
ConnectHash(m) == <<m.kind, m.cluster.label>>
DisconnectHash(m) == <<m.kind, m.label>>

Hash(m) ==
    CASE m.kind \in {"JOIN", "JOINSPARE", "JOINTEMP"} -> OriginHash(m)
      [] m.kind \in {"JOINACK", "SPLIT"} -> StateHash(m)
      [] m.kind = "CONNECT" -> ConnectHash(m)
      [] m.kind = "DISCONNECT" -> DisconnectHash(m)

(* A message for some peers. *)
To(peers, m) == [to |-> peers, msg |-> m]

(* What p gets of them. *)
Received(p, sends) ==
    LET mine == {i \in DOMAIN sends : p \in sends[i].to}
    IN  [m \in {sends[i].msg : i \in mine} |->
            Cardinality({i \in mine : sends[i].msg = m})]

(* The queues after all of these have been sent. *)
Sent(queues, sends) == [p \in Peers |-> queues[p] (+) Received(p, sends)]
-----------------------------------------------------------------------------
(* findClosestCluster goes out of the bounds of a table that is too short. *)
TableTooShort(p) == type[p] = "CORE" /\ Len(rt[p]) < Len(cluster[p].label)

(* The entry of a table that is the nearest to an identifier, the first of several. *)
NearestEntry(table, id) ==
    LET D(i) == Distance(id, table[i].label)
        best == CHOOSE i \in DOMAIN table :
                    /\ \A j \in DOMAIN table : Gte(D(j), D(i))
                    /\ \A j \in 1..(i - 1) : Lt(D(i), D(j))
    IN  table[best]

Closest(isCore, c, table, id) ==
    IF ~isCore \/ c.label = <<>> \/ IsPrefixOf(c.label, id)
    THEN c
    ELSE NearestEntry(SubSeq(table, 1, Len(c.label)), id)
-----------------------------------------------------------------------------
(* isSplit looks at the bit after the one that a split divides by. *)
CanSplit(c) ==
    LET bit == Len(c.label) + 2
        With(b) == Cardinality({q \in c.vc : ID[q][bit] = b})
                     + Cardinality({q \in c.vs : ID[q][bit] = b})
    IN  bit <= M /\ With(0) >= TSplit /\ With(1) >= TSplit

(* Mutant: the bit that isSplit looks at. *)
InHalfNext(c, b) == {q \in c.vc \cup c.vs : ID[q][Len(c.label) + 2] = b}

(* The peers of c that have the bit b after its label. *)
InHalf(c, b) == {q \in c.vc \cup c.vs : IsPrefixOf(Append(c.label, b), ID[q])}

(* There are not enough spare peers to fill the core of a half. *)
CannotFill(c) == \E b \in {0, 1} : Cardinality(InHalf(c, b)) < SMin

(* The k peers of a set with the smallest identifiers. *)
Smallest(k, set) == {q \in set : Cardinality({r \in set : Lt(ID[r], ID[q])}) < k}

(* The half b: its core peers, and spare peers until there are SMin of them. *)
Half(c, b) ==
    LET core  == c.vc \cap InHalf(c, b)
        spare == c.vs \cap InHalf(c, b)
        up    == Smallest(SMin - Cardinality(core), spare \ core)
        left  == {q \in spare \ up : \A r \in up : Lt(ID[r], ID[q])}
    IN  [label |-> Append(c.label, b), vc |-> core \cup up, vs |-> left]

(***************************************************************************)
(* The clusters that may take the place of entry j in the table of a       *)
(* cluster with this label: those that have told of themselves, are not    *)
(* farther from the ideal neighbour and have a longer label.  The last one *)
(* that Go's map yields does.                                              *)
(***************************************************************************)
Better(old, ideal, c) ==
    /\ Gte(Distance(old.label, ideal), Distance(c.label, ideal))
    /\ Len(old.label) < Len(c.label)

Entries(old, ideal, pointers) ==
    LET better == {c \in pointers : Better(old, ideal, c)}
    IN  IF better = {} THEN {old} ELSE better

(* The tables a half may get, from that of the cluster and the other half. *)
HalfTables(half, table, pointers) ==
    {t \in [DOMAIN table -> pointers \cup {table[j] : j \in DOMAIN table}] :
        \A j \in DOMAIN table : t[j] \in Entries(table[j], Ideal(half.label, j), pointers)}

WithPointer(pointers, c) == {x \in pointers : x.label # c.label} \cup {c}

(* Each with what it sends to every peer of each cluster of a table. *)
ToAll(table, m) == [j \in DOMAIN table |-> To(table[j].vc, m)]

(* What a peer sends on behalf of one half, whose table was before and is after. *)
HalfSends(c, half, before, after, pointers) ==
    ToAll(before, Disconnect(half))
    \o <<To(c.vs \cap half.vc, Split(CoreState(half, after, pointers))),
         To({q \in c.vs : IsPrefixOf(half.label, ID[q])} \ half.vc, Split(SpareState(half)))>>
    \o ToAll(after, Connect(half))
-----------------------------------------------------------------------------
(***************************************************************************)
(* Who is acknowledged what: CORE if the cluster nearest to it has it in   *)
(* its core, with the tables of that cluster.                              *)
(***************************************************************************)
AckState(origin, near, mine, ifMine, ifOther) ==
    IF origin \notin near.vc THEN SpareState(near)
    ELSE IF near.label = mine.label THEN ifMine
    ELSE ifOther

(***************************************************************************)
(* JoinSpareEvent.fire of a peer that is not spare, where nothing splits:  *)
(* of another cluster than its own it has no tables to tell.               *)
(***************************************************************************)
AddSpare(p, origin, queues) ==
    LET c == [cluster[p] EXCEPT !.vs = @ \cup {origin}]
        near == Closest(type[p] = "CORE", c, rt[p], ID[origin])
        state == AckState(origin, near, c, CoreState(near, rt[p], Known(pt[p])),
                          CoreState(near, <<>>, NoMap))
    IN
    /\ ~CanSplit(c)
    /\ IF TableTooShort(p) /\ ~IsPrefixOf(c.label, ID[origin])
       THEN /\ crashed' = TRUE
            /\ UNCHANGED <<cluster, msgq>>
       ELSE /\ cluster' = [cluster EXCEPT ![p] = c]
            /\ msgq' = Sent(queues, <<To({origin}, JoinAck(state))>>)
            /\ UNCHANGED crashed
    /\ UNCHANGED <<rt, pt>>

(***************************************************************************)
(* JoinSpareEvent.fire, where the cluster splits: p tells the neighbours   *)
(* and the spare peers of both halves, takes the half that it is in        *)
(* itself, and acknowledges the join.  Where there is no peer left to      *)
(* promote, or a table has more or fewer entries than the label has bits,  *)
(* it ends in a panic.                                                     *)
(***************************************************************************)
AddAndSplit(p, origin, queues) ==
    LET c == [cluster[p] EXCEPT !.vs = @ \cup {origin}]
        half(b) == Half(c, b)
        pointers(b) == WithPointer(Known(pt[p]), half(1 - b))
        before(b) == Append(rt[p], half(1 - b))
        own == ID[p][Len(c.label) + 1]
    IN
    /\ CanSplit(c)
    /\ IF \/ CannotFill(c)
          \/ Len(rt[p]) > Len(c.label)
          \/ TableTooShort(p) /\ ~IsPrefixOf(half(own).label, ID[origin])
       THEN /\ crashed' = TRUE
            /\ UNCHANGED <<cluster, rt, pt, msgq>>
       ELSE \E t0 \in HalfTables(half(0), before(0), pointers(0)),
               t1 \in HalfTables(half(1), before(1), pointers(1)) :
                LET table(b) == IF b = 0 THEN t0 ELSE t1
                    near == Closest(type[p] = "CORE", half(own), table(own), ID[origin])
                    state == AckState(origin, near, half(own),
                                      CoreState(near, table(own), pointers(own)),
                                      CoreState(near, table(1 - own), pointers(1 - own)))
                IN
                /\ cluster' = [cluster EXCEPT ![p] = half(own)]
                /\ rt' = [rt EXCEPT ![p] = table(own)]
                /\ pt' = [pt EXCEPT ![p] = pointers(own)]
                /\ msgq' = Sent(queues,
                             ToAll(rt[p], Disconnect(c))
                             \o HalfSends(c, half(0), before(0), t0, pointers(0))
                             \o HalfSends(c, half(1), before(1), t1, pointers(1))
                             \o <<To({origin}, JoinAck(state))>>)
                /\ UNCHANGED crashed

FireJoinSpare(p, m, queues) ==
    /\ m.kind = "JOINSPARE"
    /\ \/ /\ m.origin \in cluster[p].vs
          /\ msgq' = queues
          /\ UNCHANGED <<cluster, rt, pt, crashed>>
       \/ /\ m.origin \notin cluster[p].vs
          /\ type[p] = "SPARE"      \* its Vs is a nil map
          /\ crashed' = TRUE
          /\ UNCHANGED <<cluster, rt, pt, msgq>>
       \/ /\ m.origin \notin cluster[p].vs
          /\ type[p] # "SPARE"
          /\ AddSpare(p, m.origin, queues) \/ AddAndSplit(p, m.origin, queues)
    /\ UNCHANGED <<type, joining>>

(***************************************************************************)
(* JoinEvent.fire.  A peer whose cluster is the nearest to the origin      *)
(* tells the rest of the core, and any other sends the join on.            *)
(***************************************************************************)
FireJoin(p, m, queues) ==
    LET c == Closest(type[p] = "CORE", cluster[p], rt[p], ID[m.origin])
        rest == cluster[p].vc \ {p}
        sends == IF c.label # cluster[p].label THEN <<To(c.vc, Join(p, m.origin))>>
                 ELSE IF IsPrefixOf(c.label, ID[m.origin]) THEN <<To(rest, JoinSpare(m.origin))>>
                 ELSE <<To(rest, JoinTemp(m.origin))>>
    IN
    /\ m.kind = "JOIN"
    /\ IF TableTooShort(p) /\ ~IsPrefixOf(cluster[p].label, ID[m.origin])
       THEN crashed' = TRUE /\ UNCHANGED msgq
       ELSE msgq' = Sent(queues, sends) /\ UNCHANGED crashed
    /\ UNCHANGED <<type, cluster, rt, pt, joining>>

(* JoinTempEvent.fire does nothing. *)
FireJoinTemp(p, m, queues) ==
    /\ m.kind = "JOINTEMP"
    /\ msgq' = queues
    /\ UNCHANGED <<type, cluster, rt, pt, joining, crashed>>

(* Mutant: the type stays. *)
FireJoinAckUntyped(p, m, queues) ==
    /\ m.kind = "JOINACK"
    /\ msgq' = queues
    /\ cluster' = [cluster EXCEPT ![p] = m.state.cluster]
    /\ rt' = [rt EXCEPT ![p] = IF m.state.type = "CORE" THEN m.state.rt ELSE @]
    /\ pt' = [pt EXCEPT ![p] = IF m.state.type = "CORE" THEN m.state.pt ELSE @]
    /\ joining' = [joining EXCEPT ![p] = "over"]
    /\ UNCHANGED <<type, crashed>>

(* JoinAckEvent.fire: the handler of a peer fires once, for the first quorum. *)
FireJoinAck(p, m, queues) ==
    /\ m.kind = "JOINACK"
    /\ msgq' = queues
    /\ type' = [type EXCEPT ![p] = m.state.type]
    /\ cluster' = [cluster EXCEPT ![p] = m.state.cluster]
    /\ rt' = [rt EXCEPT ![p] = IF m.state.type = "CORE" THEN m.state.rt ELSE @]
    /\ pt' = [pt EXCEPT ![p] = IF m.state.type = "CORE" THEN m.state.pt ELSE @]
    /\ joining' = [joining EXCEPT ![p] = "over"]
    /\ UNCHANGED crashed

(* Mutant: the label is new, the core peers are those of before. *)
FireSplitRelabel(p, m, queues) ==
    /\ m.kind = "SPLIT"
    /\ msgq' = queues
    /\ type' = [type EXCEPT ![p] = m.state.type]
    /\ cluster' = [cluster EXCEPT ![p].label = m.state.cluster.label]
    /\ rt' = [rt EXCEPT ![p] = m.state.rt]
    /\ pt' = [pt EXCEPT ![p] = IF m.state.type = "CORE" THEN m.state.pt ELSE @]
    /\ UNCHANGED <<joining, crashed>>

(* SplitEvent.fire: a spare peer takes over what it is told. *)
FireSplit(p, m, queues) ==
    /\ m.kind = "SPLIT"
    /\ msgq' = queues
    /\ type' = [type EXCEPT ![p] = m.state.type]
    /\ cluster' = [cluster EXCEPT ![p] = m.state.cluster]
    /\ rt' = [rt EXCEPT ![p] = m.state.rt]
    /\ pt' = [pt EXCEPT ![p] = IF m.state.type = "CORE" THEN m.state.pt ELSE @]
    /\ UNCHANGED <<joining, crashed>>

(* Mutant: the entry has the label of the cluster that is told of, and its own core. *)
FireConnectRelabel(p, m, queues) ==
    LET better == {j \in DOMAIN rt[p] :
                     Better(rt[p][j], Ideal(cluster[p].label, j), m.cluster)}
    IN
    /\ m.kind = "CONNECT"
    /\ pt' = [pt EXCEPT ![p] = IF @ = NoMap THEN NoMap ELSE WithPointer(@, m.cluster)]
    /\ rt' = [rt EXCEPT ![p] = [j \in DOMAIN @ |->
                 IF j \in better THEN [@[j] EXCEPT !.label = m.cluster.label] ELSE @[j]]]
    /\ msgq' = queues
    /\ UNCHANGED <<type, cluster, joining, crashed>>

(***************************************************************************)
(* ConnectInformEvent.fire: the cluster takes the place of every entry to  *)
(* which it is to be preferred, and the peers of that are told.  A nil map *)
(* ends in a panic.                                                        *)
(***************************************************************************)
FireConnect(p, m, queues) ==
    LET better == {j \in DOMAIN rt[p] :
                     Better(rt[p][j], Ideal(cluster[p].label, j), m.cluster)}
    IN
    /\ m.kind = "CONNECT"
    /\ IF pt[p] = NoMap
       THEN crashed' = TRUE /\ UNCHANGED <<rt, pt, msgq>>
       ELSE /\ pt' = [pt EXCEPT ![p] = WithPointer(@, m.cluster)]
            /\ rt' = [rt EXCEPT ![p] = [j \in DOMAIN @ |->
                                          IF j \in better THEN m.cluster ELSE @[j]]]
            /\ msgq' = Sent(queues, [j \in DOMAIN rt[p] |->
                              To(IF j \in better THEN rt[p][j].vc ELSE {},
                                 Disconnect(cluster[p]))])
            /\ UNCHANGED crashed
    /\ UNCHANGED <<type, cluster, joining>>

(* DisconnectInformEvent.fire *)
FireDisconnect(p, m, queues) ==
    /\ m.kind = "DISCONNECT"
    /\ msgq' = queues
    /\ pt' = [pt EXCEPT ![p] = IF @ = NoMap THEN NoMap ELSE {c \in @ : c.label # m.label}]
    /\ UNCHANGED <<type, cluster, rt, joining, crashed>>
-----------------------------------------------------------------------------
(* A join straight from who joins becomes an event at once. *)
Direct(m) == m.kind = "JOIN" /\ m.undef

QuorumOf(m) ==
    IF Direct(m) THEN 1
    ELSE IF m.kind = "JOIN" THEN JoinQuorum
    ELSE Quorum

(* joinackhandler fires once, and is not in the registry. *)
Registered(m) == ~Direct(m) /\ m.kind # "JOINACK"

(* The handler of m has fired. *)
Spent(p, m) ==
    \/ Registered(m) /\ Hash(m) \in full[p]
    \/ m.kind = "JOINACK" /\ joining[p] # "waits"

Size(bag) == Cardinality(UNION {{m} \X (1..bag[m]) : m \in DOMAIN bag})

(* The messages that may fill the handler of m: as many as it takes, of its hash. *)
Rounds(p, m) ==
    LET alike == {n \in DOMAIN msgq[p] : Hash(n) = Hash(m) /\ (Direct(n) <=> Direct(m))}
    IN  {taken \in UNION {[kinds -> 1..QuorumOf(m)] : kinds \in SUBSET alike} :
            taken \sqsubseteq msgq[p] /\ Size(taken) = QuorumOf(m)}

(***************************************************************************)
(* A handler of peer p is full and its event fires: that of the message    *)
(* that registered it, m, though others may have filled it; or that of the *)
(* acknowledgement that was the last to fill it.                           *)
(***************************************************************************)
Deliver(p, m) ==
    /\ ~crashed /\ joining[p] # "not yet" /\ ~Spent(p, m)
    /\ \E taken \in Rounds(p, m) :
        LET queues == [msgq EXCEPT ![p] = @ (-) taken]
        IN
        /\ m.kind = "JOINACK" => m \in DOMAIN taken
        /\ \/ FireJoin(p, m, queues)
           \/ FireJoinSpare(p, m, queues)
           \/ FireJoinTemp(p, m, queues)
           \/ FireJoinAck(p, m, queues)
           \/ FireSplit(p, m, queues)
           \/ FireConnect(p, m, queues)
           \/ FireDisconnect(p, m, queues)
    /\ full' = [full EXCEPT ![p] = IF Registered(m) THEN @ \cup {Hash(m)} ELSE @]
    /\ UNCHANGED order

(* A handler that has fired is given one more message, and heeds it no more. *)
Swallow(p, m) ==
    /\ ~crashed /\ joining[p] # "not yet" /\ Spent(p, m)
    /\ msgq' = [msgq EXCEPT ![p] = @ (-) SetToBag({m})]
    /\ UNCHANGED <<type, cluster, rt, pt, full, joining, crashed, order>>

(* cleanUp: the handler leaves the registry, and the next message opens another. *)
CleanUp(p, hash) ==
    /\ ~crashed
    /\ full' = [full EXCEPT ![p] = @ \ {hash}]
    /\ UNCHANGED <<type, cluster, rt, pt, msgq, joining, crashed, order>>

(* joinByID, which the driver calls for the next peer when the last one has returned. *)
JoinByID(n) ==
    LET p == order[n]
    IN
    /\ ~crashed
    /\ \A q \in Peers : joining[q] # "waits"
    /\ \A k \in DOMAIN order : (joining[order[k]] = "not yet") <=> (n <= k)
    /\ joining' = [joining EXCEPT ![p] = "waits"]
    /\ msgq' = Sent(msgq, <<To(cluster[Seed].vc, Join(p, p))>>)
    /\ UNCHANGED <<type, cluster, rt, pt, full, crashed, order>>

Next ==
    \/ \E n \in DOMAIN order : JoinByID(n)
    \/ \E p \in Peers : \E m \in DOMAIN msgq[p] : Deliver(p, m) \/ Swallow(p, m)
    \/ \E p \in Peers : \E hash \in full[p] : CleanUp(p, hash)

Spec == Init /\ [][Next]_vars
-----------------------------------------------------------------------------
(* What a peer is told that it is. *)
States ==
    [type : {"SPARE", "CORE"}, cluster : Cluster, rt : Seq(Cluster),
     pt : (SUBSET Cluster) \cup {NoMap}]

Messages ==
    [kind : {"JOIN"}, undef : BOOLEAN, origin : Peers]
    \cup [kind : {"JOINSPARE", "JOINTEMP"}, origin : Peers]
    \cup [kind : {"JOINACK", "SPLIT"}, state : States]
    \cup [kind : {"CONNECT"}, cluster : Cluster]
    \cup [kind : {"DISCONNECT"}, label : Labels]

(* pt is a map from labels to clusters, and who has joined knows what it is. *)
TypeOK ==
    /\ type \in [Peers -> {"UNDEF", "SPARE", "CORE"}]
    /\ cluster \in [Peers -> Cluster]
    /\ rt \in [Peers -> Seq(Cluster)]
    /\ pt \in [Peers -> (SUBSET Cluster) \cup {NoMap}]
    /\ \A p \in Peers : \A c, d \in Known(pt[p]) : c.label = d.label => c = d
    /\ \A p \in Peers : IsABag(msgq[p]) /\ DOMAIN msgq[p] \subseteq Messages
    /\ DOMAIN full = Peers
    /\ joining \in [Peers -> {"not yet", "waits", "over"}]
    /\ \A p \in Peers : joining[p] = "over" => type[p] # "UNDEF"
    /\ crashed \in BOOLEAN
    /\ order \in Orders

Core == {p \in Peers : type[p] = "CORE"}

(* No message is left that could take effect. *)
AtRest ==
    /\ ~crashed
    /\ \A p \in Peers : \A m \in DOMAIN msgq[p] : Rounds(p, m) = {}

(***************************************************************************)
(* A peer is core only of a cluster whose label is a prefix of its         *)
(* identifier: nobody tells it otherwise, be it that JoinSpareEvent.fire   *)
(* splits for a join of another cluster, as it does not look               *)
(* (event.go:103), or that what it is told is late.                        *)
(***************************************************************************)
OwnLabel == \A p \in Core : IsPrefixOf(cluster[p].label, ID[p])

(***************************************************************************)
(* A core peer is one of the SMin peers that it holds to be the core of    *)
(* its cluster, though it knows of them only what it has been told, in     *)
(* whatever order: by one that splits, which looks for spare peers in what *)
(* it has heard of (node.go:178), or by a quorum that acknowledges its     *)
(* join.  A peer that some hold to be core already, and that has not been  *)
(* told so, may be asked to let itself join, and acknowledges itself to be *)
(* the core of a cluster of one (event.go:117).                            *)
(***************************************************************************)
CoreComplete ==
    \A p \in Core : p \in cluster[p].vc /\ Cardinality(cluster[p].vc) = SMin

(***************************************************************************)
(* Whatever a peer has in its table or its pointers is a cluster of SMin   *)
(* peers all of whose identifiers have its label as prefix.  CONNECT and   *)
(* DISCONNECT come in any order, of clusters that have split since, tables *)
(* are copied to other peers and changed by the half (node.go:246), and a  *)
(* cluster may be told of by peers that took others for its core: an entry *)
(* may be late, but it never leads to a core too small for a quorum or to  *)
(* peers of another half.                                                  *)
(***************************************************************************)
NeighboursFit ==
    \A p \in Peers :
        \A c \in {rt[p][j] : j \in DOMAIN rt[p]} \cup Known(pt[p]) :
            Cardinality(c.vc) = SMin /\ \A q \in c.vc : IsPrefixOf(c.label, ID[q])

(***************************************************************************)
(* latex/main.tex:329: no cluster is inside of another.  Peers that split  *)
(* send a join on to their own half only (event.go:62), so that one that   *)
(* has heard of it by nobody else keeps the label of before.               *)
(***************************************************************************)
NonInclusion ==
    AtRest => \A p, q \in Core :
        IsPrefixOf(cluster[p].label, cluster[q].label) =>
            cluster[p].label = cluster[q].label
=============================================================================
