------------------------------ MODULE Requests ------------------------------
(***************************************************************************)
(* Put, Get and Delete of one key in package simulation: the request goes  *)
(* from cluster to cluster to the one that is responsible for the key (its *)
(* home), each peer on the way remembers whom to answer, and the answer    *)
(* goes back from cluster to cluster to the peer that waits for it.        *)
(*                                                                         *)
(* Peers work on quorums of messages with one hash (see FanIn, which shows *)
(* that the handlers are a QuorumGate): a round is a handler here, with    *)
(* the message that opened it, whose event it will fire, and its count.    *)
(* The hash is made of the type of the message and the key, so a round     *)
(* mixes senders, origins, targets and values.                             *)
(*                                                                         *)
(* The clusters do not change, and all peers are core.                     *)
(***************************************************************************)
EXTENDS Integers, Sequences, FiniteSets, Bags

CONSTANTS
    Peers,          \* the core peers of all clusters
    Clusters,       \* the clusters
    ClusterOf,      \* the cluster of a peer
    Home,           \* the cluster responsible for the key
    Hop,            \* getClosestCluster: from a cluster, towards another one
    Values,         \* what can be put
    Absent,         \* no value under the key
    Clients,        \* goroutines that call Put, Get and Delete
    Scripts,        \* the calls the clients make, and the bounds that go with them
    SafteyValue,    \* capacity of a handler's semaphore (sic, globals.go)
    None            \* no channel, no round

Ops == {"PUT", "LOOKUP", "DELETE"}

ASSUME ClustersAssumption ==
    /\ ClusterOf \in [Peers -> Clusters]
    /\ Home \in Clusters
    /\ Hop \in [Clusters -> [Clusters -> Clusters]]
    /\ \A c \in Clusters : Hop[c][c] = c

(***************************************************************************)
(* The hops lead home from every cluster, so that no clusters keep a       *)
(* request among themselves: this is what Routing shows (HopsGetNearer,    *)
(* Delivered).                                                             *)
(***************************************************************************)
ASSUME HopsAssumption ==
    \A S \in SUBSET Clusters :
        S # {} /\ (\A c \in S : Hop[c][Home] \in S) => Home \in S

ASSUME ValuesAssumption == Absent \notin Values /\ None \notin Values \cup {Absent}

(***************************************************************************)
(* A script says which calls each client makes, one after the other,       *)
(* whether they wait for as long as it takes (patient), how many copies    *)
(* and rounds are lost at most (faults), and how many events are under way *)
(* at most when a peer receives a message (backlog).                       *)
(***************************************************************************)
ASSUME ScriptsAssumption ==
    \A s \in Scripts :
        /\ s.calls \in [Clients -> Seq([peer : Peers, op : Ops, data : Values \cup {Absent}])]
        /\ \A x \in Clients : \A n \in 1..Len(s.calls[x]) :
             s.calls[x][n].op = "PUT" => s.calls[x][n].data \in Values
        /\ s.patient \in BOOLEAN
        /\ s.faults \in Nat
        /\ s.backlog \in Nat

ASSUME SafteyAssumption == SafteyValue \in Nat

(* A cluster has a quorum of core peers and more (Membership, CoreFull). *)
ASSUME SizesAssumption ==
    /\ IsFiniteSet(Peers)
    /\ \A c \in Clusters : Cardinality({p \in Peers : ClusterOf[p] = c}) > SafteyValue

(* The calls of all scripts, by client and place in its script. *)
Calls == UNION {{x} \X (1..Len(s.calls[x])) : x \in Clients, s \in Scripts}

(***************************************************************************)
(* A request carries the operation, the peer that made this copy, the peer *)
(* that called Put, Get or Delete, and the value to be put.  An answer     *)
(* carries the peer it is meant for; its data is Absent where the code     *)
(* sends the error DoesNotExist.                                           *)
(***************************************************************************)
NewRequest(p, op, data, origin) ==
    [kind |-> "REQUEST", op |-> op, sender |-> p, origin |-> origin, target |-> origin,
     data |-> data]

NewReturn(p, op, data, target) ==
    [kind |-> "RETURN", op |-> op, sender |-> p, origin |-> p, target |-> target,
     data |-> data]

Messages ==
    [kind : {"REQUEST", "RETURN"}, op : Ops, sender : Peers, origin : Peers,
     target : Peers, data : Values \cup {Absent}]

ASSUME NoneAssumption == None \notin Messages \X (1..SafteyValue) /\ None \notin Calls

Hash(m) == <<m.kind, m.op>>

Hashes == {"REQUEST", "RETURN"} \X Ops

VARIABLES
    script,     \* the calls the clients make
    flight,     \* bag of messages on their way, each with its receiver
    rounds,     \* the pending handler of each hash of each peer
    events,     \* bag of the events queued by the peers
    serving,    \* bag of the events that have their data and have yet to answer
    reqs,       \* the peers that have to be answered, by peer and operation
    waits,      \* the channel that awaits an answer, by peer and operation
    offers,     \* what a channel is offered, again and again
    store,      \* the value each peer stores under the key
    pc,         \* where each client is in its current call
    calls,      \* the number of calls each client has begun
    chan,       \* the channel of the current call of each client
    got,        \* what the current call received from the data channel
    answers,    \* history: what each call returned
    stored,     \* history: the values peers of the home cluster have stored
    faults      \* the number of copies lost and rounds that ran out of time

peerVars   == <<flight, rounds, events, serving, reqs, store, stored>>
clientVars == <<waits, offers, pc, calls, chan, got, answers>>
vars == <<script, peerVars, clientVars, faults>>

Data == Values \cup {Absent}

TypeOK ==
    /\ script \in Scripts
    /\ IsABag(flight) /\ BagToSet(flight) \subseteq Peers \X Messages
    /\ rounds \in [Peers -> [Hashes -> {None} \cup (Messages \X (1..SafteyValue))]]
    /\ IsABag(events) /\ BagToSet(events) \subseteq Peers \X Messages
    /\ IsABag(serving) /\ BagToSet(serving) \subseteq Peers \X Messages
    /\ reqs \in [Peers -> [Ops -> SUBSET Peers]]
    /\ waits \in [Peers -> [Ops -> Calls \cup {None}]]
    /\ offers \in [Calls -> Data \cup {None}]
    /\ store \in [Peers -> Data]
    /\ pc \in [Clients -> {"idle", "data", "error"}]
    /\ calls \in [Clients -> Nat]
    /\ \A x \in Clients : calls[x] <= Len(script.calls[x])
    /\ chan \in [Clients -> Calls \cup {None}]
    /\ got \in [Clients -> Data \cup {None}]
    /\ answers \in [Calls -> Data \cup {None, "TIMEOUT"}]
    /\ stored \subseteq Values
    /\ faults \in 0..script.faults

Init ==
    /\ script \in Scripts
    /\ flight = EmptyBag
    /\ rounds = [p \in Peers |-> [k \in Hashes |-> None]]
    /\ events = EmptyBag
    /\ serving = EmptyBag
    /\ reqs = [p \in Peers |-> [op \in Ops |-> {}]]
    /\ waits = [p \in Peers |-> [op \in Ops |-> None]]
    /\ offers = [c \in Calls |-> None]
    /\ store = [p \in Peers |-> Absent]
    /\ pc = [x \in Clients |-> "idle"]
    /\ calls = [x \in Clients |-> 0]
    /\ chan = [x \in Clients |-> None]
    /\ got = [x \in Clients |-> None]
    /\ answers = [c \in Calls |-> None]
    /\ stored = {}
    /\ faults = 0
-----------------------------------------------------------------------------
(* A copy of the message for each peer of the cluster. *)
SendToVc(c, m) == SetToBag({<<q, m>> : q \in {q \in Peers : ClusterOf[q] = c}})

(* addPutReq and its like for the other operations: whom p will answer. *)
AddReq(p, m) == [reqs EXCEPT ![p][m.op] = @ \cup {m.sender}]

(* flushPutReqs and its like. *)
FlushReqs(p, op) == [reqs EXCEPT ![p][op] = {}]

(* addPutWait and its like: the channel that is registered already, or a new one. *)
AddWait(p, op, new) == IF waits[p][op] = None THEN new ELSE waits[p][op]

(***************************************************************************)
(* Put, Get and Delete: the client waits on the channel that is registered *)
(* for the key, which is its own unless another call left one there, and   *)
(* sends the request to its whole cluster.                                 *)
(***************************************************************************)
Begin(x) ==
    LET n == calls[x] + 1
        call == script.calls[x][n]
        p == call.peer
        channel == AddWait(p, call.op, <<x, n>>)
    IN
    /\ pc[x] = "idle"
    /\ calls[x] < Len(script.calls[x])
    /\ calls' = [calls EXCEPT ![x] = n]
    /\ waits' = [waits EXCEPT ![p][call.op] = channel]
    /\ chan' = [chan EXCEPT ![x] = channel]
    /\ flight' = flight (+) SendToVc(ClusterOf[p], NewRequest(p, call.op, call.data, p))
    /\ pc' = [pc EXCEPT ![x] = "data"]
    /\ UNCHANGED <<rounds, events, serving, reqs, store, stored, offers, got, answers, script, faults>>

(* Mutant of TakeData: the goroutine that offers the answer ends with the first taker. *)
TakeDataLast(x) ==
    /\ pc[x] = "data"
    /\ offers[chan[x]] # None
    /\ got' = [got EXCEPT ![x] = offers[chan[x]]]
    /\ offers' = [offers EXCEPT ![chan[x]] = None]
    /\ pc' = [pc EXCEPT ![x] = "error"]
    /\ UNCHANGED <<peerVars, waits, calls, chan, answers, script, faults>>

(* r := <-resp.  Whoever offers data does so for ever, to all who come. *)
TakeData(x) ==
    /\ pc[x] = "data"
    /\ offers[chan[x]] # None
    /\ got' = [got EXCEPT ![x] = offers[chan[x]]]
    /\ pc' = [pc EXCEPT ![x] = "error"]
    /\ UNCHANGED <<peerVars, waits, offers, calls, chan, answers, script, faults>>

(* return r, <-err: there is no time-out any more. *)
TakeError(x) ==
    /\ pc[x] = "error"
    /\ offers[chan[x]] # None
    /\ answers' = [answers EXCEPT ![<<x, calls[x]>>] = got[x]]
    /\ pc' = [pc EXCEPT ![x] = "idle"]
    /\ UNCHANGED <<peerVars, waits, offers, calls, chan, got, script, faults>>

(* The call gives up.  Its channel stays registered. *)
GiveUp(x) ==
    /\ pc[x] = "data"
    /\ ~script.patient
    /\ answers' = [answers EXCEPT ![<<x, calls[x]>>] = "TIMEOUT"]
    /\ pc' = [pc EXCEPT ![x] = "idle"]
    /\ UNCHANGED <<peerVars, waits, offers, calls, chan, got, script, faults>>
-----------------------------------------------------------------------------
(* A copy is lost, or comes while the handler of its hash is being cleaned up. *)
Lose(e) ==
    /\ BagIn(e, flight)
    /\ flight' = flight (-) SetToBag({e})
    /\ faults < script.faults
    /\ faults' = faults + 1
    /\ UNCHANGED <<rounds, events, serving, reqs, store, stored, clientVars, script>>

(* Mutant of Direct: a request is never taken at the word of its origin alone. *)
DirectNever(p, m) == EmptyBag

(***************************************************************************)
(* What m adds to the events of p: itself when its origin has sent this    *)
(* copy, be it the first or one that the origin has handed on ...          *)
(***************************************************************************)
Direct(p, m) ==
    IF m.kind = "REQUEST" /\ m.sender = m.origin THEN SetToBag({<<p, m>>}) ELSE EmptyBag

(* ... and, when it fills the round of its hash, the message that opened the round. *)
Opener(p, m) == IF rounds[p][Hash(m)] = None THEN m ELSE rounds[p][Hash(m)][1]

Count(p, m) == IF rounds[p][Hash(m)] = None THEN 1 ELSE rounds[p][Hash(m)][2] + 1

(* The events queued or being fired. *)
Backlog == BagCardinality(events) + BagCardinality(serving)

(* Mutant of Receive: a round that is full goes on. *)
ReceiveOpen(p, m) ==
    LET full == Count(p, m) = SafteyValue + 1 IN
    /\ BagIn(<<p, m>>, flight)
    /\ Backlog <= script.backlog
    /\ flight' = flight (-) SetToBag({<<p, m>>})
    /\ reqs' = IF m.kind = "REQUEST" THEN AddReq(p, m) ELSE reqs
    /\ rounds' = [rounds EXCEPT ![p][Hash(m)] = <<Opener(p, m), Count(p, m)>>]
    /\ events' = events (+) Direct(p, m)
                    (+) (IF full THEN SetToBag({<<p, Opener(p, m)>>}) ELSE EmptyBag)
    /\ UNCHANGED <<serving, store, stored, clientVars, script, faults>>

(***************************************************************************)
(* A worker receives a message: it remembers whom to answer, and has the   *)
(* message counted by the handler of its hash, which may be new.           *)
(***************************************************************************)
Receive(p, m) ==
    LET full == Count(p, m) = SafteyValue + 1 IN
    /\ BagIn(<<p, m>>, flight)
    /\ Backlog <= script.backlog
    /\ flight' = flight (-) SetToBag({<<p, m>>})
    /\ reqs' = IF m.kind = "REQUEST" THEN AddReq(p, m) ELSE reqs
    /\ rounds' = [rounds EXCEPT ![p][Hash(m)] =
                     IF full THEN None ELSE <<Opener(p, m), Count(p, m)>>]
    /\ events' = events (+) Direct(p, m)
                    (+) (IF full THEN SetToBag({<<p, Opener(p, m)>>}) ELSE EmptyBag)
    /\ UNCHANGED <<serving, store, stored, clientVars, script, faults>>

(* The round of a hash runs out of time. *)
TimeOut(p, k) ==
    /\ rounds[p][k] # None
    /\ rounds' = [rounds EXCEPT ![p][k] = None]
    /\ faults < script.faults
    /\ faults' = faults + 1
    /\ UNCHANGED <<flight, events, serving, reqs, store, stored, clientVars, script>>
-----------------------------------------------------------------------------
AtHome(p) == Hop[ClusterOf[p]][Home] = ClusterOf[p]

TakeEvent(p, m) ==
    /\ BagIn(<<p, m>>, events)
    /\ events' = events (-) SetToBag({<<p, m>>})

(* fire of a request away from its home: hands it on. *)
Forward(p, m) ==
    /\ m.kind = "REQUEST"
    /\ ~AtHome(p)
    /\ TakeEvent(p, m)
    /\ flight' = flight (+) SendToVc(Hop[ClusterOf[p]][Home],
                                     NewRequest(p, m.op, m.data, m.origin))
    /\ UNCHANGED <<rounds, serving, reqs, store, stored, clientVars, script, faults>>

(* Mutant of Tells: a lookup too is only answered when its data differs. *)
TellsNew(p, m) == store[p] # m.data

(* Whether those who asked are told: not of a put that changes nothing. *)
Tells(p, m) == m.op = "PUT" => store[p] # m.data

(* What the store of p then holds, and what it says to those who asked. *)
NewData(p, m) ==
    CASE m.op = "PUT"    -> m.data
      [] m.op = "LOOKUP" -> store[p]
      [] m.op = "DELETE" -> Absent

Reply(p, m) == IF m.op = "PUT" THEN m ELSE [m EXCEPT !.data = store[p]]

(* Mutant of Apply: a peer answers for the store without being at home. *)
ApplyAnywhere(p, m) ==
    /\ m.kind = "REQUEST"
    /\ TakeEvent(p, m)
    /\ serving' = IF Tells(p, m) THEN serving (+) SetToBag({<<p, Reply(p, m)>>}) ELSE serving
    /\ store' = IF AtHome(p) THEN [store EXCEPT ![p] = NewData(p, m)] ELSE store
    /\ stored' = IF AtHome(p) THEN stored \cup ({NewData(p, m)} \ {Absent}) ELSE stored
    /\ UNCHANGED <<flight, rounds, reqs, clientVars, script, faults>>

(* fire of a request at home, first half: one operation of the store. *)
Apply(p, m) ==
    /\ m.kind = "REQUEST"
    /\ AtHome(p)
    /\ TakeEvent(p, m)
    /\ store' = [store EXCEPT ![p] = NewData(p, m)]
    /\ stored' = stored \cup ({NewData(p, m)} \ {Absent})
    /\ serving' = IF Tells(p, m) THEN serving (+) SetToBag({<<p, Reply(p, m)>>}) ELSE serving
    /\ UNCHANGED <<flight, rounds, reqs, clientVars, script, faults>>

(***************************************************************************)
(* fire of an answer, first half: if it is meant for p and a call waits    *)
(* for it, the goroutine offers the answer on that channel and never comes *)
(* back.  Otherwise it goes on, unless the next cluster towards the target *)
(* is the one the answer came from.                                        *)
(***************************************************************************)
Awaited(p, m) == m.target = p /\ waits[p][m.op] # None

(* Mutant of Accept: the channel stays registered. *)
AcceptAgain(p, m) ==
    /\ m.kind = "RETURN"
    /\ Awaited(p, m)
    /\ TakeEvent(p, m)
    /\ offers' = [offers EXCEPT ![waits[p][m.op]] = m.data]
    /\ UNCHANGED <<flight, rounds, serving, reqs, store, stored, waits, pc, calls, chan, got,
                   answers, script, faults>>

Accept(p, m) ==
    /\ m.kind = "RETURN"
    /\ Awaited(p, m)
    /\ TakeEvent(p, m)
    /\ offers' = [offers EXCEPT ![waits[p][m.op]] = m.data]
    /\ waits' = [waits EXCEPT ![p][m.op] = None]
    /\ UNCHANGED <<flight, rounds, serving, reqs, store, stored, pc, calls, chan, got,
                   answers, script, faults>>

Returned(p, m) == Hop[ClusterOf[p]][ClusterOf[m.target]] = ClusterOf[m.sender]

Pass(p, m) ==
    /\ m.kind = "RETURN"
    /\ ~Awaited(p, m)
    /\ TakeEvent(p, m)
    /\ serving' = IF Returned(p, m) THEN serving ELSE serving (+) SetToBag({<<p, m>>})
    /\ UNCHANGED <<flight, rounds, reqs, store, stored, clientVars, script, faults>>

(* A delete of a missing key flushes the requests but sends nothing. *)
Silent(m) == m.kind = "REQUEST" /\ m.op = "DELETE" /\ m.data = Absent

(* An answer for each peer that asked, a copy of it for each peer of its cluster. *)
Returns(p, m) ==
    LET replies == {NewReturn(p, m.op, m.data, q) : q \in reqs[p][m.op]}
    IN  SetToBag({e \in Peers \X replies : ClusterOf[e[1]] = ClusterOf[e[2].target]})

(* Mutant of Answer: it waits until there is somebody to answer. *)
AnswerSomebody(p, m) ==
    /\ BagIn(<<p, m>>, serving)
    /\ reqs[p][m.op] # {}
    /\ serving' = serving (-) SetToBag({<<p, m>>})
    /\ reqs' = FlushReqs(p, m.op)
    /\ flight' = IF Silent(m) THEN flight ELSE flight (+) Returns(p, m)
    /\ UNCHANGED <<rounds, events, store, stored, clientVars, script, faults>>

(* fire, second half: flush...Reqs, and an answer to the cluster of each that asked. *)
Answer(p, m) ==
    /\ BagIn(<<p, m>>, serving)
    /\ serving' = serving (-) SetToBag({<<p, m>>})
    /\ reqs' = FlushReqs(p, m.op)
    /\ flight' = IF Silent(m) THEN flight ELSE flight (+) Returns(p, m)
    /\ UNCHANGED <<rounds, events, store, stored, clientVars, script, faults>>
-----------------------------------------------------------------------------
Client(x) == Begin(x) \/ TakeData(x) \/ TakeError(x) \/ GiveUp(x)

Deliver == \E e \in BagToSet(flight) : Receive(e[1], e[2])

Fire ==
    \E e \in BagToSet(events) :
        \/ Forward(e[1], e[2])
        \/ Apply(e[1], e[2])
        \/ Accept(e[1], e[2])
        \/ Pass(e[1], e[2])

Tell == \E e \in BagToSet(serving) : Answer(e[1], e[2])

Fault ==
    \/ \E e \in BagToSet(flight) : Lose(e)
    \/ \E p \in Peers, k \in Hashes : TimeOut(p, k)

Next ==
    \/ \E x \in Clients : Client(x)
    \/ Deliver
    \/ Fire
    \/ Tell
    \/ Fault

Spec == Init /\ [][Next]_vars
-----------------------------------------------------------------------------
(***************************************************************************)
(* Every goroutine that can run is run, and calls run out of time.  Losing *)
(* a copy, or a round, is never fair.  The steps of the peers are as many  *)
(* as the messages that the calls bring about, so that none is put off for *)
(* ever by others.                                                         *)
(***************************************************************************)
Fairness ==
    /\ \A x \in Clients : WF_vars(Client(x))
    /\ WF_vars(Deliver \/ Fire \/ Tell)

FairSpec == Spec /\ Fairness
-----------------------------------------------------------------------------
(* No message is on its way, and no event waits to be handled. *)
Settled == flight = EmptyBag /\ events = EmptyBag /\ serving = EmptyBag

(* Nothing was lost, and nothing ran out of time. *)
Calm == faults = 0 /\ \A c \in Calls : answers[c] # "TIMEOUT"

(* The calls begun so far. *)
Begun == {c \in Calls : c[2] <= calls[c[1]]}

CallOf(c) == script.calls[c[1]][c[2]]

(***************************************************************************)
(* Whatever a call returns has been stored by a peer of the home cluster,  *)
(* and not made up on the way, or answered by a peer that only handed the  *)
(* request on.                                                             *)
(***************************************************************************)
AnswersStored == \A c \in Calls : answers[c] \in stored \cup {Absent, None, "TIMEOUT"}

(* The first call of all is answered in the end, if nothing is lost and nothing late. *)
AnsweredFirst(c) ==
    Begun = {c} /\ Calm /\ Settled => answers[c] # None \/ offers[chan[c[1]]] # None

(***************************************************************************)
(* The first call of all is answered, if nothing is lost and nothing runs  *)
(* out of time, when it is a put or a lookup at the home of the key:       *)
(* enough of the answers come to the caller, though all peers of its       *)
(* cluster are given each of them.  (Elsewhere rounds mix the answers for  *)
(* all peers of the cluster, see LookupAnswered; and a delete of a missing *)
(* key is not answered.)                                                   *)
(***************************************************************************)
FirstCallAnswered ==
    \A c \in Begun :
        CallOf(c).op \in {"PUT", "LOOKUP"} /\ AtHome(CallOf(c).peer) => AnsweredFirst(c)

(***************************************************************************)
(* latex/main.tex:340, as far as it goes: when one value only has been put *)
(* and nothing deleted, and nothing is lost, all peers of the home cluster *)
(* have it in the end.                                                     *)
(***************************************************************************)
Replicated ==
    \A v \in Values :
        (/\ \E c \in Begun : CallOf(c).op = "PUT"
         /\ \A c \in Begun : CallOf(c).op # "DELETE" /\ CallOf(c).data \in {v, Absent}
         /\ Calm /\ Settled) =>
            \A p \in Peers : ClusterOf[p] = Home => store[p] = v

(***************************************************************************)
(* A channel is offered one answer and no other: two events never compete  *)
(* for the calls that wait on it, which therefore all return the same, and *)
(* each gets its error from whoever gave it the data.                      *)
(***************************************************************************)
OneAnswerPerChannel ==
    [][\A c \in Calls : offers[c] # None => offers'[c] = offers[c]]_vars

(* Every call returns, at the latest when it runs out of time; it does not wait for its error. *)
CallsReturn == \A x \in Clients : pc[x] # "idle" ~> pc[x] = "idle"

(* Answers do not go round in circles: when the calls are over, so are the messages. *)
MessagesDieOut == <>[]Settled
-----------------------------------------------------------------------------
(***************************************************************************)
(* latex/main.tex:609: once enough similar responses are received, the     *)
(* request is complete; and all of them are received.                      *)
(***************************************************************************)
LookupAnswered == \A c \in Begun : CallOf(c).op = "LOOKUP" => AnsweredFirst(c)
=============================================================================
