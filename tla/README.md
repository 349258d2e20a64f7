# PeerCube in TLA+

PeerCube is a distributed hash table in Go. Peers with random IDs gather in clusters; a
cluster is labelled with a prefix of the IDs of its peers, and the clusters form an
(incomplete) hypercube. A cluster acts as one: each of its `SMin` *core* peers handles
every message, and does so only once more than `SafteyValue` copies of it have arrived.
The other peers of a cluster are *spare*. Clusters split when both halves are large
enough and merge when a core peer leaves and no spare peer can take its place.

This directory holds TLA+ models of package `simulation`, which is the version of the
program the driver `sim` runs, and of package `peercube`, the version before it; the TLC
runs that check them, and proofs that TLAPS checks.

## The system and its parts

| Part | Code | State | Operations |
|---|---|---|---|
| Fan-in | `stdPeer.go` (serve, send), `eventregistry.go`, `eventhandler.go`, `msg.go` | `msgq`, `eventq`, `msgcount.handlers`; per handler: semaphore, `done`, `quit`, wait group, timer | receive, Register, Check, Trigger, fire/act, time-out, cleanUp |
| IDs | `route.go` | none | distance, lt, gt, prefix, eq |
| Routing | `getClosestCluster`, `FixAllRT`, `fire` of the events | `Cluster.rt`, labels | hand on, rebuild tables |
| Membership | `cluster.go`, `merge.go`, `addHandler.go`, `registry.go` | `vc`, `vs`, `label`, `rt`, `merge`, mutex, counts of Adds; `ClusterRegistry`; each peer's cluster, type and store | Join, Add, Split, Leave, replaceVC, Merge |
| Data stores | `datastore.go` | a map from keys to values | Get, Swap, Delete, Copy, Filter, Merge |
| Requests | `stdPeer.go` (Put, Get, Delete, add/flush...), `event.go` | per key: who waits for an answer, who has to be answered | put, get, delete and their answers |
| Driver | `sim/main.go` | - | starts joins, puts and gets, makes core peers leave |
| Overlay | package `peercube`: `node.go`, `event.go`, `cluster.go`, `msg.go` and the fan-in | each peer's own type, cluster, routing table (`rt`), clusters that point at it (`pt`), `msgq`; the join handler | joinByID, serve, split, the events of joins, splits and tables |
| Prototypes | `node`, `nodeold`, `nodeimp` | - | not modelled, see the end |

**How they interact.** `SendToVc` starts a goroutine for each core peer, which puts the
message in `msgq` unless it is lost. Eight workers per peer take messages from `msgq` and
events from `eventq`. A message registers a handler under its hash and triggers it; the
handler that has its quorum puts an event in `eventq`; the event's `fire` runs beside the
worker, which waits for it or gives it up, and sends messages to the next cluster, changes
the store, or calls `Cluster.Add`. All clusters share the `ClusterRegistry`, and `FixAllRT`
writes the tables of all of them. In package `peercube` nothing is shared: a peer sends
copies of what it knows of its cluster, and each receiver changes its own view.

**What is hard.** Two critical sections (Register, Check) that should be one; rounds of one
hash that follow one another while clean-ups of the previous ones are on their way; timers
against fire goroutines; locks held while waiting for a queue; Adds that wait while the
cluster splits; views of a cluster read without a lock; a Merge that holds one mutex and
waits for another; rounds of answers that mix the answers for several peers; calls that run
out of time and leave their channel behind; views of one cluster that each peer changes by
itself, in the order in which it hears of splits. `PROJECT.json` lists these under
`hazards`, each at its line.

**What makes each part correct.**

- Fan-in: a handler fires only on a quorum of messages with its hash, once; a message counts
  once; no quorum of copies is lost; the registry never loses or keeps a handler; the peer does
  not get stuck.
- Routing: tables point into every half of the hypercube; each hop gets nearer; messages
  arrive.
- Membership: labels partition the IDs; each cluster has `SMin` core peers; a peer is in one
  cluster, once; merges do not wait for each other; keys survive.
- Requests: an answer has been stored by somebody responsible, each call gets one answer and
  returns, all replicas get what is put, and messages die out.
- Overlay: a peer is core only of a cluster that its ID belongs to, and is one of the `SMin`
  peers that it takes for the core, and every cluster that it knows is such a one; the documents
  also promise that labels do not include each other, that clusters have `SMin` core peers, that
  tables fit labels and that halves are large enough, which the code does not keep.

## Modules

| Module | Models | Extends |
|---|---|---|
| `QuorumGate` | abstract: batches of messages that emit one event each at a threshold | |
| `FanIn` | the message part of a peer, implements `QuorumGate` | |
| `FanInProofs` | its theorems | `FanIn`, `TLAPS` |
| `MCFanIn` | message sets for TLC | `FanIn` |
| `Route` | `route.go`, on sequences of bits | |
| `RoutingTable` | `FixAllRT` and `getClosestCluster` as operators | `Route` |
| `RouteLemmas` | what these operators do, for IDs of any length | `RoutingTable`, `TLAPS` |
| `Routing` | a message on its way while clusters split | `RoutingTable` |
| `RoutingProofs` | its theorems | `Routing`, `RouteLemmas` |
| `Membership` | clusters and peers that join and leave | `RoutingTable` |
| `MembershipProofs` | theorems that hold whoever leaves | `Membership`, `RouteLemmas` |
| `GrowthProofs` | theorems that hold while nobody leaves | `MembershipProofs` |
| `MCMembership` | populations for TLC | `Membership` |
| `Requests` | Put, Get and Delete, and their answers, over the gates of all peers | |
| `RequestsProofs` | theorems that hold whatever is lost or late | `Requests`, `TLAPS` |
| `DeliveryProofs` | theorems about what has come about when all is quiet | `RequestsProofs` |
| `MCRequests` | clusters and calls for TLC | `Requests` |
| `Overlay` | joins and splits of package `peercube` | |
| `OverlayProofs` | theorems that hold in whatever order messages take effect | `Overlay`, `TLAPS` |
| `MCOverlay` | peers, orders and fewer interleavings for TLC | `Overlay` |

### FanIn

One peer. Each worker has a place in `serve` (`pc`) and a message (`cur`). The steps are
the critical sections of the code, and where the code waits with a lock held, a step takes
the lock and a later one gives it back: `Check` takes `msgcount.mutex` and `Trigger` gives
it back after it had the handler's; `StartAct` takes the handler's mutex and `Act` gives it
back when `eventq` had room. Other sections do not wait and are one step.

A handler is named by the message whose `Register` created it, which also is the message
whose event it fires. Messages are records; `data` stands for what a hash leaves out. `REQ`
is PUT, LOOKUP and DELETE, `RETURN` their answers, `SPARE` JOINSPARE and JOINTEMP. Whether
the sender of a JOIN has a type depends on other peers and is left open. The events' own
work is not part of this module: a worker that took an event ends it at any time.
`counted`, `emitted` and `heard` are history variables.

`QueuedOnce` is about handlers: each queues its event once. It does not say that a request fires
once, and it may not: a copy straight from the origin is queued at once (`PushDirect`) and is
then counted like any other (`stdPeer.go:99-112`), so that a quorum of the same request fires
too, and copies past a quorum open a round which the next request with that hash may fill.
`fanin_quorum` has both. `NoQuorumLost` is about the other side, the gap between `Register` and
`Check`: a copy whose handler is removed in the gap is dropped, but not so that a quorum of
copies comes to nothing, unless a round ran out of time.

### RoutingTable, Routing

`FixedTables` is the set of tables `FixAllRT` may build for a cluster: Go visits the map of
clusters in any order, the nearest cluster found is carried from entry to entry and is
replaced only by a nearer one. `ClosestCluster` is the loop of `getClosestCluster`.
`Routing` lets clusters split in every possible way (labels up to `M - 1` bits, as
`isSplit` allows) and carries one message through them.

### Membership

Clusters are numbered by creation; a `*Cluster` in the code is a number here, so that old
clusters, which stale views still name, remain. A step of the model is a section of the
code under the mutex of one cluster. What the code reads before it has the mutex it reads
in a step of its own: `FireJoinSpare` (the cluster, and the first test in `Add`) before
`Add`; `Leave` (the cluster) before `ReplaceVC`. `BeginMerge` keeps the mutex of its cluster
(`locked`) until `Merge`, and `Merge` leaves the mutex of the other cluster locked, as the
code does. `FixAllRT` is part of every step that ends with it, and of no other. A call of
a method on nil ends the program (`crashed`).

The joining peer's copies and the quorums are abstracted: each peer that was core when the
join arrived gets one `JoinSpareEvent`, which may also never fire. Eight core peers and a
threshold of seven leave nothing else: seven of eight copies make an event, and one peer
cannot get two of them. A store is the set of keys it holds.

`JoinsLostToSplits` is about the count that Add keeps: a join all of whose Adds are over and
that has not been admitted was counted in two clusters, or is left with the calls that come
after the `SafteyValue + 1` that admitted it to a cluster of other IDs, or its last Add waited
for a cluster that has become one of other IDs. `KeysOutliveLeaves` follows a key through a
leave and through the merge it causes (`Heir`), on either side of the merge. `CoresGather` is
what a merge leaves of membership: it keeps the core peers of both sides, and only spare peers
may stay behind. The labels it does not keep apart (finding `membership_inclusion`), nor does
it leave every ID with a cluster: a cluster that merges with part of a sibling that has split
cuts its label for both, and with IDs of four bits TLC finds IDs that have no cluster after the
next merge. No property is stated of that. A leave that races with a split can leave a
cluster with `SMin + 1` core peers, as `replaceVC` promotes a spare peer of the old cluster
although the leaver is in the new one; `CoreFull` therefore is about networks that nobody
leaves.

### Requests

All peers, for one key. What `FanIn` shows in detail is one step here: `Receive` takes a
message, remembers the sender as one to be answered (`reqs`), adds the event that fires at
once if the sender is the origin (`Direct`), and counts the message in the round of its hash.
A round is the message that opened it, whose event it fires, and its count. `Forward`,
`Apply`, `Accept` and `Pass` are the `fire` functions; where one changes the store and then
empties `reqs`, two steps do, with the event in `serving` in between, since other messages
come and other events fire meanwhile. `waits` is the registry of channels; `offers` the
goroutines that give an answer to whoever receives from a channel, and never end; a client is
a goroutine that calls Put, Get or Delete and waits for the data, then for the error.

The registries, events and messages of the three operations are the same code three times;
`op` tells them apart, and the differences are in `Tells`, `NewData`, `Silent` and `Reply`.
Answers carry `Absent` for `DoesNotExist`. Clusters are fixed and all peers are core; `Hop`
is what `getClosestCluster` returns.

Three assumptions say what the code around this module sees to. `HopsAssumption`: no set of
clusters without the home of the key keeps a request among its members, which is what
`HopsGetNearer` and `Delivered` show of `Routing`. `SizesAssumption`: each cluster has more
than `SafteyValue` peers, which follows from `CoreFull` of `Membership` and `SMin >
SafteyValue`. `NoneAssumption`: nil is no message that opens a round, and no channel.

`FirstCallAnswered` is about a call at the home of the key. A call through another cluster may
remain without an answer, of which finding `requests_lookup` is one case; with more than two
peers in a cluster the same happens to a put.

A *script* is what the clients call, and how far a run goes: whether calls wait for as long
as it takes, how many copies and rounds are lost, how many events are under way when a
message is received.

### Overlay

Package `peercube`: `type`, `cluster`, `rt` and `pt` are what each peer itself knows, and a
message carries a copy. `msgq` is the bag of what a peer has been sent and has not heeded: a
message in the channel, one that a worker holds, one that a handler has been given, or one whose
event is in `eventq`. Four workers take messages and events, and a handler fires in a goroutine
of its own, so that nothing is said of order. `Deliver(p, m)` is a handler that is full and
whose event takes effect: `Rounds` are the bags of messages of the hash of `m` that may have
filled it, and `m` is the one that registered it, whose event it fires, though others may have
been counted in its place. The handler of acknowledgements takes the event of the message that
was the last to fill it, so that there `m` is one of the round. From then on the handler
loses what it is given (`Swallow`) until it is removed (`CleanUp`), and both may happen at any
time, so that a message may be lost with all other copies, with some, or not at all. Hashes are
those of the code: acknowledgements and SPLITs agree if their type, label and table sizes do.

`AddSpare` and `AddAndSplit` are `JoinSpareEvent.fire` without and with a split; `Half`,
`HalfTables` and `HalfSends` are what `split` computes and sends for each half. Go visits
maps in any order, so `HalfTables` is a set. What ends the program (a table that is too
short, a nil map, a half that cannot fill its core) sets `crashed`. One peer joins after the
other, as in `TestPeerComms`, while messages of earlier joins may still be under way.

Three things are left out. An event is fired in the step in which its handler is full, though it
may wait in `eventq` while others fire; an order of events is an order of these steps all the
same, except where two rounds of one hash follow one another so fast that the second fires first
and a message that registered the second was counted in the first. The nil map `pt` of a core
peer that a SPLIT makes spare is kept, as in the code. And `msgq` has no bound.

Any order of all messages is too much for TLC. `MCOverlay` heeds at once, by a fixed rank,
whatever can be heeded, but for messages of some hashes to some peers (`held`), which take
effect whenever TLC likes (or, with `last`, at any time after the joins); it removes a handler
as soon as it has fired or as soon as it has lost all copies that are left (`tidy`). This is a part of
the behaviours of `Overlay`. For `TypeOK`, `OwnLabel`, `CoreComplete` and `NeighboursFit` it is a
check before the proof: all four are proved for every order of messages (`OverlayProofs`).
`NonInclusion` is violated, and a counterexample of `MCOverlay` is one of `Overlay`. No property is
stated that holds under the schedules of `MCOverlay` only.

Nothing is stated of the agreement of core peers on who is core or spare, which they do not reach,
nor of how long tables are and which way their entries point (see Findings for both); nor that
nobody is taken back to a cluster that has split, as a late SPLIT does; nor that joins end:
acknowledgements may disagree, but no document says that a join returns, and the schedules
show no join that waits for ever.

## Runs

Each run finishes in less than four minutes with two workers.

| Run | Bounds | Shows |
|---|---|---|
| `fanin_quorum` | 4 copies of 2 requests with one hash, one direct; 2 workers; quorum of 2; `eventq` of 2 | `TypeOK`, `RegistryExact`, `SpentOnce`, `QuorumBacked`, `NoQuorumLost`, `DecidedOnce`, `QueuedOnce`, `ImplementsGate` |
| `fanin_live` | 3 copies of a request and an answer; room for every event | `Rests`, `HandlerResolved` |
| `fanin_wedge` | a request also straight from its origin, and a join; `eventq` of 1 | `RestsOrWedges` |
| `routing_four` | IDs of 4 bits | `TablesDiffer`, `DistanceIsD`, `HopsGetNearer`, `Delivered` |
| `membership_growth` | IDs of 3 bits, 2 core peers, 6 joins, 2 at a time | `TypeOK`, `LabelsPartition`, `CoreFull`, `OneCluster`, `TablesNearest`, `MembersStay`, `JoinsLostToSplits` |
| `membership_churn` | 4 joins, 2 leaves, two splits, merges, one key | `MergeNeverBlocked`, `CoresGather`, `KeysOutliveLeaves` |
| `membership_inclusion` | 4 joins, 1 leave, a merge beside a split | finding: `NonInclusion` |
| `membership_data` | one split, one key | finding: `KeysOutliveSplits` |
| `requests_calls` | two clusters of two, quorum of 2, seven scripts of up to three calls | `TypeOK`, `AnswersStored`, `FirstCallAnswered`, `Replicated`, `OneAnswerPerChannel`, `CallsReturn`, `MessagesDieOut` |
| `requests_lookup` | one Get from the cluster next to the key's | finding: `LookupAnswered` |
| `overlay_joins` | IDs of 4 bits, 4 core peers, `TSplit` of 4, four orders of up to 9 joins, 11 choices of what is late | `TypeOK`, `OwnLabel`, `CoreComplete`, `NeighboursFit` |
| `overlay_inclusion` | IDs of 4 bits, 4 core peers, `TSplit` of 6, 8 joins, the last JOIN late at two peers | finding: `NonInclusion` |

**Why the bounds are enough.** A quorum of two is the least that has a partly filled
semaphore, two workers the least that race on a handler, and four copies of one hash the
least that make two full rounds, or one and a leftover. The two workers are
interchangeable and are a symmetry set in the safety runs. The wedge needs as many stuck
workers as there are, so an `eventq` of one and three events reach it (that the wedged
state is reached was checked: `Rests` fails under those bounds). Labels of three bits are
the shortest over which clusters of three different lengths exist at once. With
`SMin = 2`, `SafteyValue = 1`, `TSplit = 2` the inequalities that hold for 8, 6 and 16 and
that matter hold too (`SizeAssumption`): one round of Adds admits a peer, a round cannot
admit it twice, and a half that splits can fill its core. `MaxClusters` is four in
`membership_growth`, which is all that labels of at most two bits allow, so it cuts nothing
off there; elsewhere it admits every merge. The core peers of `membership_growth` are not the
smallest of their halves, so that a split that chose the core by ID alone would show.
`membership_churn` has three clusters and two leaves, the least with which two merges can want the
same cluster; a third leave makes it five times as large. `MaxJoins` and `MaxLeaves` bound the
joins under way and the leaves.

Two clusters of two are the least in which a request is handed on, an answer goes back, and a
quorum is more than one copy. The scripts of `requests_calls` are a put through the other
cluster; a lookup, a put and a lookup; a put and a delete, where calls may run out of time; two
lookups by one peer, side by side, which share a channel; a put beside a lookup of another
peer; and a put and a lookup with up to two copies or rounds lost. In the second and the
fourth calls wait as long as it takes, so that `CallsReturn` says that they are answered. The
backlog is 0, 1 or 2: with 0, messages are received when no event is under way, with 2 they
come between the halves of others. Calls of `requests_lookup` are as patient, and its
counterexample loses nothing.

`Overlay` has `SMin = 4`, as in the code: it takes two messages that agree to make a quorum, of
acknowledgements too, and one JOIN that is sent on. `overlay_inclusion` has `TSplit = 6`, also
that of the code. `overlay_joins` has 4, with which thirteen peers are enough for a split and one
of its halves; with six it would take about twenty. Of its four orders one has two splits, one has a
split that waits for what is late until the joins are over, one has joins that are sent on to
the other half, and one a join of a core peer that has not been told that it is core, whose
acknowledgement of itself `CoreComplete` is about. Late are the SPLIT and the acknowledgement of
who is promoted, the JOIN and the JOINSPARE of one join, and CONNECT and DISCONNECT; what is
late for one peer of a half may be so for any, and the proofs know no bounds.

**Deadlock.** TLC's deadlock check is off where the system may rest: the peers of FanIn when
every message has been handled (`Rests` says that they do, and nothing else), Membership
when everyone has joined or left, Requests when the calls are over, Overlay when the joins are,
or the program has ended. `routing_four` checks it.

**Fairness.** `FairSpec` of FanIn has weak fairness for each worker and for each goroutine of
a handler: Go's scheduler runs every goroutine that can run, and timers run out. Losing a
message is never fair. A worker that always finds both a message and an event takes each
sooner or later, as `select` chooses at random; messages are finitely many, so weak fairness
of the worker as a whole is enough. `Routing` has weak fairness for handling the message.
Membership has none: only safety is checked there. Requests has it for each client (its timer
runs out) and for the peers' steps together, which are as many as the messages that finitely
many calls bring about. Overlay has none: only safety is checked there.

### Findings

Four runs show where the code does other than the documents say (lines are of
`latex/main.tex` where nothing else is named).

- `membership_inclusion`: no label is a prefix of another (lines 329 and 330); `replaceVC`
  merges a cluster with the last one of its table only (`cluster.go:103`, whose remark says
  that there may be more), and the label loses its last bit although the rest of a sibling that
  has split keeps its own.
- `membership_data`: a split hands over the data (line 410); it may overwrite them with the
  empty store of a peer that was just promoted.
- `requests_lookup`: a request is complete when enough similar responses have been received
  (line 609). A Get from another cluster may have all its responses received and not return:
  the peers of that cluster, which hand the request on as if it were their own, are answered
  separately, but the rounds of answers do not tell for whom they are, and may all be opened
  by answers for others.
- `overlay_inclusion`: lines 329 and 330 again, in package `peercube`. p0 and p6 split on what
  others tell them of pB and only then get to its JOIN, which they send on to their own half; p3
  has one JOINSPARE, no quorum, and keeps the empty label beside 0 and 1 (`event.go:62`).

Three more of package `peercube` were seen with these models, and no run is kept for them. All
have four core peers and `TSplit` of 6.

- A cluster has `SMin` core peers (line 304). After nine joins, a JOINSPARE late at two peers, p3
  and p9 have not heard of p1 when they split and promote pC instead, which p0 and p6 do not; the
  SPLITs that p1 gets do not agree on the size of `pt` either (`msg.go:234`). It stays spare,
  and three core peers have the label 0.
- The length of label and table is one, and entry i differs from the label in bit i
  (`BasicDescription.md:23`, `:25`). p6 and p9 have one JOINSPARE of p1, which makes no
  quorum, when the cluster has split for them; p3, which has not split, handles a
  JOIN of p1 that was sent on, and tells them of it once more. They heed it as peers of half 1,
  and acknowledge p1, which is core of 0 for them, with the tables of a half that this event did
  not split off: none (`event.go:133`). The two agree, so that p1 is core with no table.
- Both clusters of a split have at least `SMin` peers (line 380). With IDs of five bits, and nothing
  late, nine of twelve peers are in half 0 and six have each second bit; `isSplit` counts the second
  bits (`cluster.go:74`), half 1 has three peers, and `split` reads the ID of nil (`node.go:216`).

Of the same kind, and seen in earlier versions of these models: messages past the quorum are
not discarded (line 610) but open a round, which the next request with that key fills; a
quorum is of one key *and origin* (line 485), but the hash has no origin; a cluster has `SMin` core
peers (line 304), but a leave that races with a split makes it `SMin + 1`; the spare peers of
the second of two clusters that merge are left out (line 378).

## Proofs

Each holds for every value of the constants that the named assumptions allow: `FanIn`'s finite
set of messages and `QueueSize > 0`; `LengthAssumption` (IDs have at least one bit);
`IDAssumption` (peers are distinct IDs of `M` bits); `SizeAssumption` (`SafteyValue < SMin <
2 * (SafteyValue + 1)` and `SMin <= TSplit`, as for the 8, 6 and 16 of `globals.go`);
`NoneAssumption` (nil is no cluster, label, message or answer); that `Requests`' clusters, clients
and values are sets of the right kind, with `HopsAssumption` and `SizesAssumption` as said
above; and `Overlay`'s `PeersAssumption` (peers have IDs of their own, of `M` bits) and
`SizesAssumption` (`4 <= SMin <= TSplit`, and the first core has `SMin` peers). TLC
evaluates all of them in the runs.

### FanInProofs

| Theorem | States |
|---|---|
| `Invariant` | `Spec => []Inv` |
| `TypeCorrect`, `RegistryIsExact`, `MessagesSpentOnce`, `EventsAreBacked`, `RoundsAreDecidedOnce` | the invariants of `fanin_quorum` |
| `EventsAreQueuedOnce` | the action property `QueuedOnce` |
| `QuorumsAreNotLost` | `NoQuorumLost` |
| `FanInImplementsGate` | `Spec => ImplementsGate` |

None of the properties is inductive by itself. Why a clean-up, which deletes by hash,
cannot delete a later handler: because a handler that is being cleaned up is still
registered (`RegistryInv`), so no later one is. That a registered handler is always pending
needs the flags and goroutines of a handler to fit (`HandlersInv`: no clean-up without a
flag, a timer as long as undecided). That `Trigger` finds a handler needs the mutex
(`MutexInv`), and that `Register` names a new one needs each message to be in one place and
to have created nothing before (`WorkersInv`, `FreshInv`). `CountInv` ties the semaphore to
the messages counted. `Inv` is their conjunction, and each conjunct has its lemma, with one
step per action that can disturb it. For `NoQuorumLost` it says of each copy that has passed
`Register` that it is at a worker, or counted, or that a round of its hash has fired or run out
of time: if none has, there is one handler only, in which all copies are counted, and more than
`SafteyValue` do not fit in without its being full. The refinement maps
`batch` to `counted` and `open` to the pending handlers; `Register` opens, `Trigger`
credits, `Act` emits, `CleanUp` closes, and every other step stutters.

### RouteLemmas, RoutingProofs

| Theorem | States |
|---|---|
| `NearerIsDistance` | `Nearer`, the comparison by first difference that the models use, is `Lt` of the distances that `route.go` computes |
| `Invariant` | `Spec => []Inv` |
| `Neighbours` | `TablesDiffer` |
| `Progress` | `HopsGetNearer` |

`Inv` of Routing says that the labels partition the IDs (`Partitions`), which a split keeps.
From it follows that some cluster lies in the other half at each bit of a label, and that one
that does not is never nearest (`RouteLemmas`); `FixAllRT` carries the nearest cluster found so
far from entry to entry, and the lemmas say that each entry is nearest all the same. A cluster
that does not hold the target then differs from it at a bit of its label, and the neighbour for
the first such bit agrees for longer, which is what a hop gains. `NearerIsDistance` is proved
for the two labels and the target that are compared; that `DistanceIsD`, which is about
`Distance` by itself, computes the metric of the document, stays a bounded check.

### MembershipProofs

| Theorem | States |
|---|---|
| `Invariant` | `Spec => []Inv` |
| `TypeCorrect` | `TypeOK` |
| `MergesNeverBlocked` | `MergeNeverBlocked` |

These hold whoever leaves, and with merges. `TypeOK` is not inductive: a merge takes the last
entry of a table and the front of a label, so that a table must be as long as its label and
must not name its own cluster (`WellFormed`), a label that is about to be cut must not be empty
(`Pending`), and whoever is core, or called, must have a cluster (`MembersInv`). `MergesInv`
is why merges do not block each other: a cluster whose mutex is kept has its flag set for ever,
the two clusters of a merge that waits have theirs set, and no two merges have one in common,
because `BeginMerge` takes a partner whose flag is clear only.

### GrowthProofs

| Theorem | States |
|---|---|
| `GrowthInvariant` | `Spec => [](NobodyLeft => GrowthInv)` |
| `LabelsDivide`, `CoresFull`, `OneHome`, `TablesStayNearest` | `LabelsPartition`, `CoreFull`, `OneCluster`, `TablesNearest`, while nobody leaves |
| `MembersRemain`, `OnlySplitsLoseJoins` | the action properties `MembersStay`, `JoinsLostToSplits`, if nobody ever leaves |
| `GrowthCorrect` | all of these, and that nothing is nil, for `MaxLeaves = 0` |

`NobodyLeft` says that nobody has left, is leaving or waits for a merge. It is not assumed of
the constants: `GrowthInvariant` also tells what holds up to the first leave of any behaviour,
and `MaxLeaves = 0`, the bound of `membership_growth`, makes it hold throughout. `GrowthInv` is
a conjunction of

- `LabelsFit`: the registered labels partition the IDs and the registry is exact;
- `TablesFit`: each entry of each table is nearest to its target;
- `SeatsFit`: each cluster has `SMin` core peers, all peers in it have its label as prefix, its
  core and its spare peers are apart, and each peer is where it says it is, and nowhere else;
- `CallsFit`: the calls of Add for one join add up.

The last is what the others rest on. A peer is admitted twice, and then is core and spare, if
the calls for its join reach the threshold twice, and the calls are spread over clusters whose
counts a split copies nowhere. `CallsFit` says where each call is: for each peer `p` that joins
there is a map `by` that sends each core peer that was told of the join to the cluster that
has counted its call; the count of each cluster is the number of those sent to it; and the
calls that are under way or counted (`Heard`) are `SMin` until `p` is admitted and
`SMin - (SafteyValue + 1)` from then on. As `SMin < 2 * (SafteyValue + 1)`, what is left cannot
reach the threshold again. Before admission, if the calls are over and none was counted
in two clusters, one cluster has counted all `SMin`, which is more than the threshold: that is
`OnlySplitsLoseJoins`. The lemmas prove, for each action, that it keeps the four
parts; those about a split (`SplitForm` and after) also that each half can fill its core, so
that no pointer is nil.

### RequestsProofs

| Theorem | States |
|---|---|
| `Invariant` | `Spec => []Inv` |
| `TypeCorrect` | `TypeOK` |
| `StoredAnswers` | `AnswersStored` |
| `OneAnswer` | `OneAnswerPerChannel` |

An answer is read from a store and then passes through a bag of messages, a round, an event, a
registry of those to be told, and an offer, with other requests doing the same; `PeersInv` and
`DataInv` say of each of these places that its data have been stored or are `Absent`. A
channel is offered one answer because it is registered at one peer, for one operation
(`ChannelsInv`), from its making until `Accept` takes it away, and a client makes a new one for
each call.

### DeliveryProofs

| Theorem | States |
|---|---|
| `ReplicatedEverywhere` | `Replicated` |
| `FirstCall` | `FirstCallAnswered` |

Both properties say what has come about when nothing is on its way any more, if nothing was
lost. Neither says anything before that, so that their invariants must say how far each message
has come. The one of `Replicated` (`FloodInv`) is that there are sets `F`, of the peers that have
fired a put, and `R[q]`, of those whose put has reached `q`, such that

- a peer of the home cluster that is in `F` has the value (`HomeHas`);
- what a peer of `F` elsewhere hands on is on its way to, or has reached, every peer of the next
  cluster that has not fired (`HandedOn`);
- a peer that has not fired and has no event queued holds a count, in the round of the hash, of
  at least the number of peers in `R[q]` (`LeftOver`);
- whoever called has sent to all of its cluster, and these copies fire at once (`SentOut`).

A full round fires, so that a round that is left over has counted at most `SafteyValue`. When
nothing is on its way, a cluster next to one whose peers all have fired would have counted more
than that at each peer, as it is sent to by all of them; so its peers have fired too. By
`HopsAssumption` this reaches the home cluster. Late copies fire again and again, in
rounds that the next put for the key fills, and do no harm to that argument, as only one value
is put. Events are of one put or another (`TraceInv`): a request that is on its way is
that of a call that has begun, and a round is of messages of its hash.

The invariant of `FirstCallAnswered` (`FirstInv`) has one call only to follow. `Flow` says that
each peer of the cluster has the request yet to come, or in its queue, or has answered, with the
answer on its way or received by the caller (`Under`); that the caller has an answer to fire or
has counted in its round as many as it received (`Arrived`); and that no other message disturbs
these counts (`Alone`). When all is quiet every peer has been received, and they are more than a
round leaves over. A put is answered only if the value is new: `Fresh` is that the store has
another until the event fires, which holds as no other call has begun (`Quiet`).

### OverlayProofs

| Theorem | States |
|---|---|
| `Invariant` | `Spec => []Inv` |
| `TypeCorrect` | `TypeOK` |
| `OwnLabels` | `OwnLabel` |
| `CoresComplete` | `CoreComplete` |
| `NeighboursWhole` | `NeighboursFit` |

All for any peers and orders of joins, and for every order in which messages take effect, are
counted together or are lost after their handler has fired.

A peer of package `peercube` takes its cluster from a message, so that `OwnLabel`,
`CoreComplete` and `NeighboursFit` are about every cluster that anybody may hand it. `Inv` says that each cluster that
is named, in a table, a set of pointers or a message, has core peers of its own label only
(`FitClusters`) and `SMin` of them (`FullClusters`), and that a message is fit for whoever it is
queued for (`MessagesFor`: a JOINACK or SPLIT that makes a peer core has a cluster of which it is
a core peer, `FullOf`). A half takes its core from those that have its label as prefix and
fills it up to `SMin` (`HalfFit`; `SmallestCount` says that there are as many peers with the
smallest IDs as are needed); that it has no more than `SMin` to begin with is why clusters must
be full. An acknowledgement may name the nearest cluster of a table
(`ClosestIn`) and makes the receiver core if that cluster has it in its core.

There is one exception, and most of the proof is about it. A peer that has not joined has itself
as its cluster, with no label. If others have promoted it in a split, a JOIN of its own may
be sent on to it, and its JOINSPARE comes back to it: it then tells itself that it is the core of a
cluster of one (`YoungAcks`, `ToldSelf`). That message never gets to a quorum (`YoungWaits`): a
quorum takes two (`SizesAssumption`) whose hashes name the same label and type, nobody else tells
a peer that joins that it is core of the cluster with no label, which is that of `FirstCore`, and
it does not tell itself twice, as it has itself among its spare peers from then on (`ToldOnce`).

`TypeOK` needs further that tables are never read out of bounds where the program does not end
(`NearestEntryIn`, which takes that a finite table has a nearest entry), and that pointers are
kept one for each label (`WithPointerFit`).

**Only model-checked.**

- Liveness (`Rests`, `RestsOrWedges`, `HandlerResolved`, `Delivered`, `CallsReturn`,
  `MessagesDieOut`) is beyond the prover.
- `KeysOutliveLeaves` and `CoresGather`: after a merge, an Add that has waited may still split a
  cluster that the merge has replaced and so register its halves, with peers that are also in
  the merged one. `GrowthInv` is about networks in which that cannot happen, and what is left
  of it once it has is too little for the two properties at every size.
- `DistanceIsD`, as said above: `D` is a sum over a set, which takes induction over data.
- The four findings are counterexamples.

## Not modelled, and why

- `FanInOutHandler`, `kill` and `Wait` of handlers, `delVc`, `BaseDataStore`, `State`, the
  checkable mutexes: nothing calls them.
- The `split` lock of a peer: it is only ever read-locked. `conclock`: `Requests` and
  `Membership` let any event run beside any other, which is more than the code does.
- Formatting, logging, statistics, random IDs.
- Temporary peers: `JoinTempEvent.fire` does nothing and `vt` stays empty.
- What a read without a lock may see in the middle of a write (`FixAllRT` against
  `getClosestCluster`, `dataReveal` against `Swap`): reads are atomic here.
- Requests while clusters change. That all replicas agree after puts of two values is not
  stated: the code has none of the times that `BasicDescription.md:115` compares, and they do
  not.
- In package `peercube`: lookup and put (stubs), the response and state quora and
  `FanInOutHandler` (nothing that runs uses them), peers that join at the same time (no driver
  has them do so), and the size of `msgq`, where senders wait with their locks held.
- `node`, `nodeold`, `nodeimp`: prototypes that end at their first use. The registry of
  response quora unlocks for writing what it locked for reading (`node/verify.go:84`), and
  `nodeimp` calls through connections that are nil (`nodeimp/node.go:133`).

## Plan

1. *(done)* `QuorumGate`, `FanIn` with its proofs: every message passes through it.
2. *(done)* `Route`, `RoutingTable`, `Routing`.
3. *(done)* `Membership`.
4. *(done)* `Requests`: the calls, the registries of waiters and of requests, the answers.
5. *(done)* `Overlay`: package `peercube`.
6. *(done)* Proofs of Routing, Membership and what Requests never does.
7. *(done)* Proofs of what Requests delivers, and of Overlay for any order of messages.
8. *(done)* `Overlay` with queues as bags and the quora of the code; `CoreComplete` and
   `NeighboursFit` proved.
9. Open: which joins of package `peercube` end, and what its tables point at once all is quiet;
   `KeysOutliveLeaves` for networks in which no Add is left when a peer leaves.
