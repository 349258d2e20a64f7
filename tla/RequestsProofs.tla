---------------------------- MODULE RequestsProofs ----------------------------
(***************************************************************************)
(* What Requests promises, for any clusters, scripts, values and size of a *)
(* quorum: a channel is offered one answer, and what a call returns has    *)
(* been stored.  The inductive invariant, Inv, follows the data of an      *)
(* answer from the store to the client, and the channels from their making *)
(* to their answer.                                                        *)
(***************************************************************************)
EXTENDS Requests, TLAPS

(* What may be answered. *)
Told == stored \cup {Absent}

(* A channel that is registered was made by a call that has begun, and waits for its answer. *)
Open(c) == c[2] <= calls[c[1]] /\ offers[c] = None

(* It is registered at one place only. *)
ChannelsInv ==
    /\ \A p, q \in Peers, o1, o2 \in Ops :
         waits[p][o1] # None /\ waits[p][o1] = waits[q][o2] => p = q /\ o1 = o2
    /\ \A p \in Peers, op \in Ops : waits[p][op] # None => Open(waits[p][op])
    /\ \A c \in Calls : offers[c] # None => c[2] <= calls[c[1]]

(* A client in a call has a channel. *)
ClientsInv == \A x \in Clients : pc[x] # "idle" => chan[x] \in Calls /\ calls[x] > 0

(* The data of every answer under way has been stored, and so has what is in a store. *)
MayTell(m) == m.kind = "RETURN" => m.data \in Told

PeersInv ==
    /\ \A p \in Peers : store[p] \in Told
    /\ \A e \in DOMAIN flight \cup DOMAIN events : MayTell(e[2])
    /\ \A e \in DOMAIN serving : e[2].data \in Told
    /\ \A p \in Peers, k \in Hashes : rounds[p][k] # None => MayTell(rounds[p][k][1])

DataInv ==
    /\ \A c \in Calls : offers[c] \in Told \cup {None}
    /\ \A x \in Clients : got[x] \in Told \cup {None}
    /\ AnswersStored

Inv == TypeOK /\ ChannelsInv /\ ClientsInv /\ PeersInv /\ DataInv
-----------------------------------------------------------------------------
(* The bags of messages: what adding and removing does to them. *)
LEMMA BagOfSet ==
    ASSUME NEW S
    PROVE  IsABag(SetToBag(S)) /\ DOMAIN SetToBag(S) = S
BY DEF IsABag, SetToBag

LEMMA BagOfNone == IsABag(EmptyBag) /\ DOMAIN EmptyBag = {}
BY BagOfSet DEF EmptyBag

LEMMA BagOfBoth ==
    ASSUME NEW A, NEW B, IsABag(A), IsABag(B)
    PROVE  IsABag(A (+) B) /\ DOMAIN (A (+) B) = DOMAIN A \cup DOMAIN B
<1>1. DOMAIN (A (+) B) = DOMAIN A \cup DOMAIN B
  BY DEF (+)
<1>2. ASSUME NEW e \in DOMAIN A \cup DOMAIN B
      PROVE  (A (+) B)[e] \in {n \in Nat : n > 0}
  BY <1>2 DEF (+), IsABag
<1> QED
  BY <1>1, <1>2 DEF (+), IsABag

LEMMA BagAndOne ==
    ASSUME NEW B, IsABag(B), NEW e
    PROVE  IsABag(B (+) SetToBag({e})) /\ DOMAIN (B (+) SetToBag({e})) = DOMAIN B \cup {e}
<1> DEFINE S == SetToBag({e})
<1>1. IsABag(S) /\ DOMAIN S = {e}
  BY BagOfSet
<1> HIDE DEF S
<1>2. IsABag(B (+) S) /\ DOMAIN (B (+) S) = DOMAIN B \cup {e}
  BY <1>1, BagOfBoth
<1> QED
  BY <1>2 DEF S

LEMMA BagButOne ==
    ASSUME NEW B, IsABag(B), NEW e
    PROVE  /\ IsABag(B (-) SetToBag({e}))
           /\ DOMAIN (B (-) SetToBag({e})) \subseteq DOMAIN B
           /\ DOMAIN B \ {e} \subseteq DOMAIN (B (-) SetToBag({e}))
<1> DEFINE S == SetToBag({e})
           D == [d \in DOMAIN B |-> IF d \in DOMAIN S THEN B[d] - S[d] ELSE B[d]]
<1>1. DOMAIN S = {e} /\ S[e] = 1
  BY DEF SetToBag
<1> HIDE DEF S
<1>2. B (-) S = [d \in {d \in DOMAIN D : D[d] > 0} |-> D[d]]
  BY DEF (-)
<1>3. \A d \in DOMAIN B : D[d] \in Int /\ (d # e => D[d] = B[d] /\ D[d] > 0)
  BY <1>1 DEF IsABag
<1> HIDE DEF D
<1>4. DOMAIN D = DOMAIN B
  BY DEF D
<1>5. IsABag(B (-) S)
  BY <1>2, <1>3, <1>4 DEF IsABag
<1> QED
  BY <1>2, <1>3, <1>4, <1>5 DEF S
-----------------------------------------------------------------------------
(* The operators on messages. *)
LEMMA RequestType ==
    ASSUME NEW p \in Peers, NEW op \in Ops, NEW data \in Data, NEW origin \in Peers
    PROVE  /\ NewRequest(p, op, data, origin) \in Messages
           /\ MayTell(NewRequest(p, op, data, origin))
BY DEF NewRequest, Messages, Data, MayTell

LEMMA ReturnType ==
    ASSUME NEW p \in Peers, NEW op \in Ops, NEW data \in Data, NEW target \in Peers
    PROVE  /\ NewReturn(p, op, data, target) \in Messages
           /\ NewReturn(p, op, data, target).data = data
BY DEF NewReturn, Messages, Data

LEMMA MessageFields ==
    ASSUME NEW m \in Messages
    PROVE  /\ m.kind \in {"REQUEST", "RETURN"} /\ m.op \in Ops
           /\ m.sender \in Peers /\ m.origin \in Peers /\ m.target \in Peers
           /\ m.data \in Data
           /\ Hash(m) \in Hashes
BY DEF Messages, Hash, Hashes, Data

LEMMA ReplyType ==
    ASSUME NEW p \in Peers, NEW m \in Messages, store[p] \in Data
    PROVE  /\ Reply(p, m) \in Messages
           /\ Reply(p, m).data = IF m.op = "PUT" THEN m.data ELSE store[p]
BY DEF Reply, Messages, Data

(* What is sent goes to peers. *)
LEMMA SendType ==
    ASSUME NEW c, NEW m \in Messages
    PROVE  /\ IsABag(SendToVc(c, m))
           /\ DOMAIN SendToVc(c, m) \subseteq Peers \X {m}
BY BagOfSet DEF SendToVc

LEMMA ReturnsType ==
    ASSUME NEW p \in Peers, NEW m \in Messages, reqs[p][m.op] \subseteq Peers
    PROVE  /\ IsABag(Returns(p, m))
           /\ DOMAIN Returns(p, m) \subseteq
                 Peers \X {NewReturn(p, m.op, m.data, q) : q \in Peers}
<1> DEFINE replies == {NewReturn(p, m.op, m.data, q) : q \in reqs[p][m.op]}
<1>1. replies \subseteq {NewReturn(p, m.op, m.data, q) : q \in Peers}
  OBVIOUS
<1> QED
  BY <1>1, BagOfSet DEF Returns

(* The calls of a script are calls. *)
LEMMA ScriptType == \A s \in Scripts, x \in Clients : Len(s.calls[x]) \in Nat
<1> DEFINE Call == [peer : Peers, op : Ops, data : Values \cup {Absent}]
<1>1. \A s \in Scripts : s.calls \in [Clients -> Seq(Call)]
  BY ScriptsAssumption
<1> HIDE DEF Call
<1> QED
  BY <1>1

LEMMA CallType ==
    ASSUME script \in Scripts, NEW x \in Clients,
           NEW n \in Nat \ {0}, n <= Len(script.calls[x])
    PROVE  /\ <<x, n>> \in Calls
           /\ script.calls[x][n] \in [peer : Peers, op : Ops, data : Values \cup {Absent}]
<1> DEFINE Call == [peer : Peers, op : Ops, data : Values \cup {Absent}]
<1>1. script.calls \in [Clients -> Seq(Call)]
  BY ScriptsAssumption
<1> HIDE DEF Call
<1>2. script.calls[x] \in Seq(Call)
  BY <1>1
<1>3. n \in 1..Len(script.calls[x]) /\ script.calls[x][n] \in Call
  BY <1>2
<1>4. <<x, n>> \in {x} \X (1..Len(script.calls[x]))
  BY <1>3
<1> DEFINE All == {{y} \X (1..Len(s.calls[y])) : y \in Clients, s \in Scripts}
<1>5. {x} \X (1..Len(script.calls[x])) \in All
  OBVIOUS
<1>6. Calls = UNION All
  BY DEF Calls
<1> HIDE DEF All
<1>7. <<x, n>> \in Calls
  BY <1>4, <1>5, <1>6
<1> QED
  BY <1>3, <1>7 DEF Call

LEMMA CallsArePairs == \A c \in Calls : c = <<c[1], c[2]>> /\ c[1] \in Clients /\ c[2] \in Nat
<1> DEFINE All == {{y} \X (1..Len(s.calls[y])) : y \in Clients, s \in Scripts}
<1>1. Calls = UNION All
  BY DEF Calls
<1>2. \A C \in All : C \subseteq Clients \X Int
  BY ScriptsAssumption
<1> QED
  BY <1>1, <1>2
-----------------------------------------------------------------------------
(* The first state is as the invariant says. *)
LEMMA InvInit == Init => Inv
<1> SUFFICES ASSUME Init PROVE Inv
  OBVIOUS
<1> USE DEF Init
<1>1. TypeOK
  <2>1. /\ script \in Scripts
        /\ rounds \in [Peers -> [Hashes -> {None} \cup (Messages \X (1..SafteyValue))]]
        /\ reqs \in [Peers -> [Ops -> SUBSET Peers]]
        /\ waits \in [Peers -> [Ops -> Calls \cup {None}]]
        /\ offers \in [Calls -> Data \cup {None}]
        /\ store \in [Peers -> Data]
        /\ pc \in [Clients -> {"idle", "data", "error"}]
        /\ chan \in [Clients -> Calls \cup {None}]
        /\ got \in [Clients -> Data \cup {None}]
        /\ answers \in [Calls -> Data \cup {None, "TIMEOUT"}]
        /\ stored \subseteq Values
    BY DEF Data
  <2>2. /\ calls \in [Clients -> Nat] /\ \A x \in Clients : calls[x] <= Len(script.calls[x])
        /\ faults \in 0..script.faults
    BY ScriptType, ScriptsAssumption
  <2>3. /\ IsABag(flight) /\ BagToSet(flight) \subseteq Peers \X Messages
        /\ IsABag(events) /\ BagToSet(events) \subseteq Peers \X Messages
        /\ IsABag(serving) /\ BagToSet(serving) \subseteq Peers \X Messages
    BY BagOfNone DEF BagToSet
  <2> QED
    BY <2>1, <2>2, <2>3 DEF TypeOK
<1>2. ChannelsInv
  BY DEF ChannelsInv
<1>3. ClientsInv
  BY DEF ClientsInv
<1>4. PeersInv
  BY BagOfNone DEF PeersInv, Told
<1>5. DataInv
  BY DEF DataInv, AnswersStored
<1> QED
  BY <1>1, <1>2, <1>3, <1>4, <1>5 DEF Inv
-----------------------------------------------------------------------------
(* The steps, one by one. *)
LEMMA NextCases ==
    ASSUME TypeOK, [Next]_vars
    PROVE  \/ \E x \in Clients : Begin(x) \/ TakeData(x) \/ TakeError(x) \/ GiveUp(x)
           \/ \E e \in DOMAIN flight : Lose(e)
           \/ \E p \in Peers, k \in Hashes : TimeOut(p, k)
           \/ \E p \in Peers, m \in Messages :
                 \/ Receive(p, m) \/ Answer(p, m)
                 \/ Forward(p, m) \/ Apply(p, m) \/ Accept(p, m) \/ Pass(p, m)
           \/ UNCHANGED vars
<1>1. \A e \in Peers \X Messages : e[1] \in Peers /\ e[2] \in Messages
  OBVIOUS
<1>2. CASE Deliver
  BY <1>1, <1>2 DEF Deliver, TypeOK
<1>3. CASE Fire
  BY <1>1, <1>3 DEF Fire, TypeOK
<1>4. CASE Tell
  BY <1>1, <1>4 DEF Tell, TypeOK
<1>5. CASE Fault
  BY <1>5 DEF Fault, BagToSet
<1> QED
  BY <1>2, <1>3, <1>4, <1>5 DEF Next, Client
-----------------------------------------------------------------------------
(***************************************************************************)
(* Put, Get and Delete: the channel is the one that is registered, or new. *)
(***************************************************************************)
LEMMA BeginFacts ==
    ASSUME TypeOK, NEW x \in Clients, Begin(x)
    PROVE  \E n \in Nat, p \in Peers, op \in Ops, channel \in Calls, m \in Messages :
             /\ n = calls[x] + 1 /\ n <= Len(script.calls[x]) /\ <<x, n>> \in Calls
             /\ MayTell(m)
             /\ channel = <<x, n>> \/ (waits[p][op] = channel /\ channel # None)
             /\ calls' = [calls EXCEPT ![x] = n]
             /\ waits' = [waits EXCEPT ![p][op] = channel]
             /\ chan' = [chan EXCEPT ![x] = channel]
             /\ flight' = flight (+) SendToVc(ClusterOf[p], m)
             /\ pc' = [pc EXCEPT ![x] = "data"]
             /\ UNCHANGED <<rounds, events, serving, reqs, store, stored, offers, got, answers,
                            script, faults>>
<1> DEFINE n == calls[x] + 1
           call == script.calls[x][n]
           m == NewRequest(call.peer, call.op, call.data, call.peer)
           channel == AddWait(call.peer, call.op, <<x, n>>)
<1>1. n \in Nat \ {0} /\ n <= Len(script.calls[x])
  <2>1. calls[x] < Len(script.calls[x])
    BY DEF Begin
  <2>2. calls[x] \in Nat /\ Len(script.calls[x]) \in Nat
    BY ScriptType DEF TypeOK
  <2> QED
    BY <2>1, <2>2
<1>2. <<x, n>> \in Calls /\ call.peer \in Peers /\ call.op \in Ops /\ call.data \in Data
  BY <1>1, CallType DEF TypeOK, Data
<1>3. m \in Messages /\ MayTell(m)
  BY <1>2, RequestType
<1>4. /\ channel \in Calls
      /\ channel = <<x, n>> \/ (waits[call.peer][call.op] = channel /\ channel # None)
  <2>1. waits[call.peer][call.op] \in Calls \cup {None}
    BY <1>2 DEF TypeOK
  <2> QED
    BY <1>2, <2>1 DEF AddWait
<1> QED
  BY <1>1, <1>2, <1>3, <1>4 DEF Begin

LEMMA BeginStep ==
    ASSUME Inv, NEW x \in Clients, Begin(x)
    PROVE  Inv'
<1> USE DEF Inv
<1>1. PICK n \in Nat, p \in Peers, op \in Ops, channel \in Calls, m \in Messages :
             /\ n = calls[x] + 1 /\ n <= Len(script.calls[x]) /\ <<x, n>> \in Calls
             /\ MayTell(m)
             /\ channel = <<x, n>> \/ (waits[p][op] = channel /\ channel # None)
             /\ calls' = [calls EXCEPT ![x] = n]
             /\ waits' = [waits EXCEPT ![p][op] = channel]
             /\ chan' = [chan EXCEPT ![x] = channel]
             /\ flight' = flight (+) SendToVc(ClusterOf[p], m)
             /\ pc' = [pc EXCEPT ![x] = "data"]
             /\ UNCHANGED <<rounds, events, serving, reqs, store, stored, offers, got, answers,
                            script, faults>>
  BY BeginFacts
<1>2. calls[x] \in Nat /\ n > 0
  BY <1>1 DEF TypeOK
<1>3. IsABag(flight') /\ DOMAIN flight' \subseteq DOMAIN flight \cup (Peers \X {m})
  <2> DEFINE S == SendToVc(ClusterOf[p], m)
  <2>1. IsABag(S) /\ DOMAIN S \subseteq Peers \X {m}
    BY SendType
  <2>2. IsABag(flight (+) S) /\ DOMAIN (flight (+) S) = DOMAIN flight \cup DOMAIN S
    BY <2>1, BagOfBoth DEF TypeOK
  <2> QED
    BY <1>1, <2>1, <2>2
<1>4. TypeOK'
  <2>1. calls' \in [Clients -> Nat] /\ \A y \in Clients : calls'[y] <= Len(script.calls[y])
    BY <1>1 DEF TypeOK
  <2>2. waits' \in [Peers -> [Ops -> Calls \cup {None}]] /\ chan' \in [Clients -> Calls \cup {None}]
    BY <1>1 DEF TypeOK
  <2>3. BagToSet(flight)' \subseteq Peers \X Messages
    BY <1>3 DEF TypeOK, BagToSet
  <2>4. pc' \in [Clients -> {"idle", "data", "error"}]
    BY <1>1 DEF TypeOK
  <2> QED
    BY <1>1, <1>3, <2>1, <2>2, <2>3, <2>4 DEF TypeOK, BagToSet
<1>5. ChannelsInv'
  <2>1. \A q \in Peers, o \in Ops :
          waits'[q][o] = IF q = p /\ o = op THEN channel ELSE waits[q][o]
    BY <1>1 DEF TypeOK
  <2>2. calls'[x] = n /\ \A y \in Clients : calls'[y] >= calls[y]
    BY <1>1, <1>2 DEF TypeOK
  <2>3. \A c \in Calls : c[2] <= calls[c[1]] => c[2] <= calls'[c[1]]
    <3>1. \A y \in Clients : calls[y] \in Nat /\ calls'[y] \in Nat
      BY <1>4 DEF TypeOK
    <3> QED
      BY <2>2, <3>1, CallsArePairs
  <2>4. offers[<<x, n>>] = None
    BY <1>1, <1>2 DEF ChannelsInv
  <2>5. \A q \in Peers, o \in Ops : waits[q][o] # None => waits[q][o] # <<x, n>>
    BY <1>1, <1>2 DEF ChannelsInv, Open
  <2>6. channel[2] <= calls'[channel[1]] /\ offers'[channel] = None
    <3>1. CASE channel = <<x, n>>
      BY <3>1, <1>1, <2>2, <2>4
    <3>2. CASE waits[p][op] = channel /\ channel # None
      BY <3>2, <1>1, <2>3 DEF ChannelsInv, Open
    <3> QED
      BY <1>1, <3>1, <3>2
  <2>7. ASSUME NEW q \in Peers, NEW o \in Ops, waits'[q][o] # None
        PROVE  Open(waits[q][o])'
    <3>1. CASE q = p /\ o = op
      BY <2>1, <2>6, <3>1 DEF Open
    <3>2. CASE ~(q = p /\ o = op)
      <4>1. waits'[q][o] = waits[q][o] /\ waits[q][o] \in Calls /\ Open(waits[q][o])
        BY <2>1, <2>7, <3>2 DEF TypeOK, ChannelsInv
      <4> QED
        BY <1>1, <2>3, <4>1 DEF Open
    <3> QED
      BY <3>1, <3>2
  <2>8. ASSUME NEW q \in Peers, NEW r \in Peers, NEW o1 \in Ops, NEW o2 \in Ops,
               waits'[q][o1] # None, waits'[q][o1] = waits'[r][o2]
        PROVE  q = r /\ o1 = o2
    BY <1>1, <2>1, <2>5, <2>8 DEF ChannelsInv
  <2>9. \A c \in Calls : offers'[c] # None => c[2] <= calls'[c[1]]
    BY <1>1, <2>3 DEF ChannelsInv
  <2> QED
    BY <2>7, <2>8, <2>9 DEF ChannelsInv
<1>6. ClientsInv'
  BY <1>1, <1>2 DEF ClientsInv, TypeOK
<1>7. PeersInv'
  <2>1. \A e \in DOMAIN flight' : MayTell(e[2])
    BY <1>1, <1>3 DEF PeersInv
  <2> QED
    BY <1>1, <2>1 DEF PeersInv, MayTell, Told
<1>8. DataInv'
  BY <1>1 DEF DataInv, AnswersStored, Told
<1> QED
  BY <1>4, <1>5, <1>6, <1>7, <1>8
-----------------------------------------------------------------------------
(* The parts of the invariant that a step leaves alone. *)
LEMMA ChannelsFrame ==
    ASSUME ChannelsInv, UNCHANGED <<waits, offers, calls>>
    PROVE  ChannelsInv'
BY DEF ChannelsInv, Open

LEMMA ClientsFrame ==
    ASSUME ClientsInv, UNCHANGED <<pc, chan, calls>>
    PROVE  ClientsInv'
BY DEF ClientsInv

LEMMA PeersFrame ==
    ASSUME PeersInv, UNCHANGED peerVars
    PROVE  PeersInv'
BY DEF PeersInv, peerVars, MayTell, Told

LEMMA DataFrame ==
    ASSUME DataInv, UNCHANGED <<offers, got, answers>>, stored \subseteq stored'
    PROVE  DataInv'
BY DEF DataInv, AnswersStored, Told

(* A call takes its data, its error, or gives up. *)
LEMMA TakeStep ==
    ASSUME Inv, NEW x \in Clients, TakeData(x) \/ TakeError(x) \/ GiveUp(x)
    PROVE  Inv'
<1> USE DEF Inv
<1>1. CASE TakeData(x)
  <2>1. chan[x] \in Calls /\ offers[chan[x]] # None
    BY <1>1 DEF TakeData, ClientsInv
  <2>2. TypeOK'
    BY <1>1, <2>1 DEF TakeData, TypeOK, peerVars
  <2>3. ClientsInv'
    BY <1>1, <2>1 DEF TakeData, ClientsInv, TypeOK
  <2>4. DataInv'
    <3>1. got'[x] \in Told \cup {None}
      BY <1>1, <2>1 DEF TakeData, DataInv, TypeOK
    <3> QED
      BY <1>1, <3>1 DEF TakeData, DataInv, TypeOK, AnswersStored, Told, peerVars
  <2> QED
    BY <1>1, <2>2, <2>3, <2>4, ChannelsFrame, PeersFrame DEF TakeData
<1>2. CASE TakeError(x)
  <2>1. <<x, calls[x]>> \in Calls
    <3>1. calls[x] \in Nat \ {0} /\ calls[x] <= Len(script.calls[x])
      BY <1>2 DEF TakeError, ClientsInv, TypeOK
    <3> QED
      BY <3>1, CallType DEF TypeOK
  <2>2. TypeOK'
    BY <1>2, <2>1 DEF TakeError, TypeOK, peerVars
  <2>3. ClientsInv'
    BY <1>2 DEF TakeError, ClientsInv, TypeOK
  <2>4. DataInv'
    BY <1>2, <2>1 DEF TakeError, DataInv, TypeOK, AnswersStored, Told, peerVars
  <2> QED
    BY <1>2, <2>2, <2>3, <2>4, ChannelsFrame, PeersFrame DEF TakeError
<1>3. CASE GiveUp(x)
  <2>1. <<x, calls[x]>> \in Calls
    <3>1. calls[x] \in Nat \ {0} /\ calls[x] <= Len(script.calls[x])
      BY <1>3 DEF GiveUp, ClientsInv, TypeOK
    <3> QED
      BY <3>1, CallType DEF TypeOK
  <2>2. TypeOK'
    BY <1>3, <2>1 DEF GiveUp, TypeOK, peerVars
  <2>3. ClientsInv'
    BY <1>3 DEF GiveUp, ClientsInv, TypeOK
  <2>4. DataInv'
    BY <1>3, <2>1 DEF GiveUp, DataInv, TypeOK, AnswersStored, Told, peerVars
  <2> QED
    BY <1>3, <2>2, <2>3, <2>4, ChannelsFrame, PeersFrame DEF GiveUp
<1> QED
  BY <1>1, <1>2, <1>3

(* A copy is lost, or a round runs out of time. *)
LEMMA FaultStep ==
    ASSUME Inv,
           \/ \E e \in DOMAIN flight : Lose(e)
           \/ \E p \in Peers, k \in Hashes : TimeOut(p, k)
    PROVE  Inv'
<1> USE DEF Inv
<1>1. CASE \E e \in DOMAIN flight : Lose(e)
  <2>1. PICK e \in DOMAIN flight : Lose(e)
    BY <1>1
  <2>2. IsABag(flight') /\ DOMAIN flight' \subseteq DOMAIN flight
    BY <2>1, BagButOne DEF Lose, TypeOK
  <2>3. TypeOK'
    <3>1. faults' \in 0..script.faults
      BY <2>1, ScriptsAssumption DEF Lose, TypeOK
    <3> QED
      BY <2>1, <2>2, <3>1 DEF Lose, TypeOK, clientVars, BagToSet
  <2>4. PeersInv'
    BY <2>1, <2>2 DEF Lose, PeersInv, MayTell, Told
  <2> QED
    BY <2>1, <2>3, <2>4, ChannelsFrame, ClientsFrame, DataFrame DEF Lose, clientVars
<1>2. CASE \E p \in Peers, k \in Hashes : TimeOut(p, k)
  <2>1. PICK p \in Peers, k \in Hashes : TimeOut(p, k)
    BY <1>2
  <2>2. TypeOK'
    <3>1. faults' \in 0..script.faults
      BY <2>1, ScriptsAssumption DEF TimeOut, TypeOK
    <3> QED
      BY <2>1, <3>1 DEF TimeOut, TypeOK, clientVars
  <2>3. PeersInv'
    BY <2>1 DEF TimeOut, PeersInv, MayTell, Told, TypeOK
  <2> QED
    BY <2>1, <2>2, <2>3, ChannelsFrame, ClientsFrame, DataFrame DEF TimeOut, clientVars
<1> QED
  BY <1>1, <1>2

(***************************************************************************)
(* A message is counted: the round keeps it if it is the first, and the    *)
(* event that a full round fires is that of its first message.             *)
(***************************************************************************)
LEMMA ReceiveStep ==
    ASSUME Inv, NEW p \in Peers, NEW m \in Messages, Receive(p, m)
    PROVE  Inv'
<1> USE DEF Inv
<1> DEFINE k == Hash(m)
           opener == Opener(p, m)
           count == Count(p, m)
           full == count = SafteyValue + 1
           fired == IF full THEN SetToBag({<<p, opener>>}) ELSE EmptyBag
           queued == events (+) Direct(p, m) (+) fired
<1>1. /\ <<p, m>> \in DOMAIN flight
      /\ flight' = flight (-) SetToBag({<<p, m>>})
      /\ reqs' = IF m.kind = "REQUEST" THEN AddReq(p, m) ELSE reqs
      /\ rounds' = [rounds EXCEPT ![p][k] = IF full THEN None ELSE <<opener, count>>]
      /\ events' = queued
      /\ UNCHANGED <<serving, store, stored, clientVars, script, faults>>
  BY DEF Receive, BagIn, BagToSet
<1>2. k \in Hashes /\ m.op \in Ops /\ m.sender \in Peers
  BY MessageFields
<1>3. MayTell(m)
  BY <1>1 DEF PeersInv
<1>4. opener \in Messages /\ MayTell(opener) /\ count \in 1..(SafteyValue + 1)
  <2>1. CASE rounds[p][k] = None
    BY <2>1, <1>3, SafteyAssumption DEF Opener, Count
  <2>2. CASE rounds[p][k] # None
    <3>1. rounds[p][k] \in Messages \X (1..SafteyValue) /\ MayTell(rounds[p][k][1])
      BY <2>2, <1>2 DEF TypeOK, PeersInv
    <3> QED
      BY <2>2, <3>1, SafteyAssumption DEF Opener, Count
  <2> QED
    BY <2>1, <2>2
<1>5. IsABag(flight') /\ DOMAIN flight' \subseteq DOMAIN flight
  BY <1>1, BagButOne DEF TypeOK
<1>6. /\ IsABag(Direct(p, m)) /\ DOMAIN Direct(p, m) \subseteq {<<p, m>>}
      /\ IsABag(fired) /\ DOMAIN fired \subseteq {<<p, opener>>}
  BY BagOfSet, BagOfNone DEF Direct
<1>7. IsABag(queued) /\ DOMAIN queued \subseteq DOMAIN events \cup {<<p, m>>, <<p, opener>>}
  <2> DEFINE both == events (+) Direct(p, m)
  <2>1. IsABag(both) /\ DOMAIN both = DOMAIN events \cup DOMAIN Direct(p, m)
    BY <1>6, BagOfBoth DEF TypeOK
  <2> HIDE DEF both, fired
  <2>2. IsABag(both (+) fired) /\ DOMAIN (both (+) fired) = DOMAIN both \cup DOMAIN fired
    BY <1>6, <2>1, BagOfBoth
  <2> QED
    BY <1>6, <2>1, <2>2 DEF both, fired
<1> HIDE DEF k, opener, count, queued, fired
<1>8. TypeOK'
  <2>1. rounds' \in [Peers -> [Hashes -> {None} \cup (Messages \X (1..SafteyValue))]]
    BY <1>1, <1>2, <1>4, SafteyAssumption DEF TypeOK
  <2>2. reqs' \in [Peers -> [Ops -> SUBSET Peers]]
    BY <1>1, <1>2 DEF AddReq, TypeOK
  <2>3. DOMAIN events' \subseteq Peers \X Messages /\ DOMAIN flight' \subseteq Peers \X Messages
    <3>1. {<<p, m>>, <<p, opener>>} \subseteq Peers \X Messages
      BY <1>4
    <3>2. DOMAIN events \subseteq Peers \X Messages /\ DOMAIN flight \subseteq Peers \X Messages
      BY DEF TypeOK, BagToSet
    <3>3. DOMAIN events' = DOMAIN queued
      BY <1>1
    <3> QED
      BY <1>5, <1>7, <3>1, <3>2, <3>3
  <2> QED
    BY <1>1, <1>5, <1>7, <2>1, <2>2, <2>3 DEF TypeOK, clientVars, BagToSet
<1>9. PeersInv'
  <2>1. \A e \in DOMAIN flight' \cup DOMAIN events' : MayTell(e[2])
    <3>1. DOMAIN events' \subseteq DOMAIN events \cup {<<p, m>>, <<p, opener>>}
      BY <1>1, <1>7
    <3>2. \A e \in {<<p, m>>, <<p, opener>>} : MayTell(e[2])
      BY <1>3, <1>4
    <3> QED
      BY <1>5, <3>1, <3>2 DEF PeersInv
  <2>2. \A q \in Peers, h \in Hashes : rounds'[q][h] # None => MayTell(rounds'[q][h][1])
    BY <1>1, <1>2, <1>4 DEF PeersInv, TypeOK
  <2> QED
    BY <1>1, <2>1, <2>2 DEF PeersInv, MayTell, Told
<1> QED
  BY <1>1, <1>8, <1>9, ChannelsFrame, ClientsFrame, DataFrame DEF clientVars

(* An event is taken from the queue. *)
LEMMA TakeEventFacts ==
    ASSUME Inv, NEW p \in Peers, NEW m \in Messages, TakeEvent(p, m)
    PROVE  /\ MayTell(m)
           /\ IsABag(events') /\ DOMAIN events' \subseteq DOMAIN events
<1>1. <<p, m>> \in DOMAIN events /\ events' = events (-) SetToBag({<<p, m>>})
  BY DEF TakeEvent, BagIn, BagToSet
<1>2. MayTell(m)
  BY <1>1 DEF Inv, PeersInv
<1> QED
  BY <1>1, <1>2, BagButOne DEF Inv, TypeOK

(* A request is handed on. *)
LEMMA ForwardStep ==
    ASSUME Inv, NEW p \in Peers, NEW m \in Messages, Forward(p, m)
    PROVE  Inv'
<1> USE DEF Inv
<1> DEFINE r == NewRequest(p, m.op, m.data, m.origin)
           S == SendToVc(Hop[ClusterOf[p]][Home], r)
<1>1. /\ TakeEvent(p, m) /\ flight' = flight (+) S
      /\ UNCHANGED <<rounds, serving, reqs, store, stored, clientVars, script, faults>>
  BY DEF Forward
<1>2. r \in Messages /\ MayTell(r)
  BY MessageFields, RequestType
<1>3. IsABag(S) /\ DOMAIN S \subseteq Peers \X {r}
  BY <1>2, SendType
<1> HIDE DEF r, S
<1>4. IsABag(flight') /\ DOMAIN flight' \subseteq DOMAIN flight \cup (Peers \X {r})
  <2>1. IsABag(flight (+) S) /\ DOMAIN (flight (+) S) = DOMAIN flight \cup DOMAIN S
    BY <1>3, BagOfBoth DEF TypeOK
  <2> QED
    BY <1>1, <1>3, <2>1
<1>5. IsABag(events') /\ DOMAIN events' \subseteq DOMAIN events
  BY <1>1, TakeEventFacts
<1>6. TypeOK'
  <2>1. DOMAIN flight' \subseteq Peers \X Messages /\ DOMAIN events' \subseteq Peers \X Messages
    BY <1>2, <1>4, <1>5 DEF TypeOK, BagToSet
  <2> QED
    BY <1>1, <1>4, <1>5, <2>1 DEF TypeOK, clientVars, BagToSet
<1>7. PeersInv'
  <2>1. \A e \in DOMAIN flight' \cup DOMAIN events' : MayTell(e[2])
    BY <1>2, <1>4, <1>5 DEF PeersInv
  <2> QED
    BY <1>1, <2>1 DEF PeersInv, MayTell, Told
<1> QED
  BY <1>1, <1>6, <1>7, ChannelsFrame, ClientsFrame, DataFrame DEF clientVars

(***************************************************************************)
(* The store is read or written: what is answered is what has been stored, *)
(* and an operation is at the home of the key.                             *)
(***************************************************************************)
LEMMA ApplyStep ==
    ASSUME Inv, NEW p \in Peers, NEW m \in Messages, Apply(p, m)
    PROVE  Inv'
<1> USE DEF Inv
<1>1. /\ TakeEvent(p, m)
      /\ store' = [store EXCEPT ![p] = NewData(p, m)]
      /\ stored' = stored \cup ({NewData(p, m)} \ {Absent})
      /\ serving' = IF Tells(p, m) THEN serving (+) SetToBag({<<p, Reply(p, m)>>}) ELSE serving
      /\ UNCHANGED <<flight, rounds, reqs, clientVars, script, faults>>
  BY DEF Apply
<1>2. store[p] \in Data /\ store[p] \in Told /\ m.op \in Ops /\ m.data \in Data
  BY MessageFields DEF TypeOK, PeersInv
<1>3. NewData(p, m) \in Data
  BY <1>2 DEF NewData, Ops, Data
<1>4. stored \subseteq stored' /\ stored' \subseteq Values /\ Told \subseteq Told'
  BY <1>1, <1>3 DEF Told, Data, TypeOK
<1>5. NewData(p, m) \in Told'
  BY <1>1 DEF Told
<1>6. Reply(p, m) \in Messages /\ Reply(p, m).data \in Told'
  <2>1. Reply(p, m) \in Messages /\ Reply(p, m).data = IF m.op = "PUT" THEN m.data ELSE store[p]
    BY <1>2, ReplyType
  <2>2. m.op = "PUT" => NewData(p, m) = m.data
    BY DEF NewData
  <2> QED
    BY <1>2, <1>4, <1>5, <2>1, <2>2
<1>7. IsABag(serving') /\ DOMAIN serving' \subseteq DOMAIN serving \cup {<<p, Reply(p, m)>>}
  BY <1>1, BagAndOne DEF TypeOK
<1>8. IsABag(events') /\ DOMAIN events' \subseteq DOMAIN events
  BY <1>1, TakeEventFacts
<1>9. TypeOK'
  <2>1. DOMAIN serving' \subseteq Peers \X Messages /\ DOMAIN events' \subseteq Peers \X Messages
    BY <1>6, <1>7, <1>8 DEF TypeOK, BagToSet
  <2>2. store' \in [Peers -> Data]
    BY <1>1, <1>3 DEF TypeOK
  <2> QED
    BY <1>1, <1>4, <1>7, <1>8, <2>1, <2>2 DEF TypeOK, clientVars, BagToSet
<1>10. PeersInv'
  <2>1. \A q \in Peers : store'[q] \in Told'
    BY <1>1, <1>4, <1>5 DEF TypeOK, PeersInv
  <2>2. \A e \in DOMAIN flight' \cup DOMAIN events' : MayTell(e[2])'
    BY <1>1, <1>4, <1>8 DEF PeersInv, MayTell
  <2>3. \A e \in DOMAIN serving' : e[2].data \in Told'
    BY <1>4, <1>6, <1>7 DEF PeersInv
  <2>4. \A q \in Peers, k \in Hashes : rounds'[q][k] # None => MayTell(rounds[q][k][1])'
    BY <1>1, <1>4 DEF PeersInv, MayTell
  <2> QED
    BY <2>1, <2>2, <2>3, <2>4 DEF PeersInv
<1> QED
  BY <1>1, <1>4, <1>9, <1>10, ChannelsFrame, ClientsFrame, DataFrame DEF clientVars

(***************************************************************************)
(* An answer reaches the channel that waits for it, which thereby is       *)
(* registered no more, here or anywhere.                                   *)
(***************************************************************************)
LEMMA AcceptStep ==
    ASSUME Inv, NEW p \in Peers, NEW m \in Messages, Accept(p, m)
    PROVE  Inv'
<1> USE DEF Inv
<1>1. PICK op \in Ops, c \in Calls :
        /\ m.kind = "RETURN" /\ waits[p][op] # None /\ c = waits[p][op]
        /\ offers' = [offers EXCEPT ![c] = m.data]
        /\ waits' = [waits EXCEPT ![p][op] = None]
  <2>1. m.op \in Ops /\ waits[p][m.op] # None /\ waits[p][m.op] \in Calls
    BY MessageFields DEF Accept, Awaited, TypeOK
  <2> QED
    BY <2>1 DEF Accept
<1>2. /\ TakeEvent(p, m)
      /\ UNCHANGED <<flight, rounds, serving, reqs, store, stored, pc, calls, chan, got,
                     answers, script, faults>>
  BY DEF Accept
<1>3. m.data \in Data /\ m.data \in Told
  BY <1>1, <1>2, MessageFields, TakeEventFacts DEF MayTell
<1>4. IsABag(events') /\ DOMAIN events' \subseteq DOMAIN events
  BY <1>2, TakeEventFacts
<1>5. TypeOK'
  <2>1. DOMAIN events' \subseteq Peers \X Messages
    BY <1>4 DEF TypeOK, BagToSet
  <2>2. waits' \in [Peers -> [Ops -> Calls \cup {None}]] /\ offers' \in [Calls -> Data \cup {None}]
    BY <1>1, <1>3 DEF TypeOK
  <2> QED
    BY <1>2, <1>4, <2>1, <2>2 DEF TypeOK, BagToSet
<1>6. ChannelsInv'
  <2>1. \A q \in Peers, o \in Ops :
          waits'[q][o] = IF q = p /\ o = op THEN None ELSE waits[q][o]
    BY <1>1 DEF TypeOK
  <2>2. \A d \in Calls : offers'[d] = IF d = c THEN m.data ELSE offers[d]
    BY <1>1 DEF TypeOK
  <2>3. c[2] <= calls[c[1]]
    BY <1>1 DEF ChannelsInv, Open
  <2>4. ASSUME NEW q \in Peers, NEW o \in Ops, waits'[q][o] # None
        PROVE  Open(waits[q][o])'
    <3>1. /\ waits'[q][o] = waits[q][o] /\ waits[q][o] \in Calls
          /\ waits[q][o] # c /\ Open(waits[q][o])
      BY <1>1, <2>1, <2>4 DEF TypeOK, ChannelsInv
    <3> QED
      BY <1>2, <2>2, <3>1 DEF Open
  <2>5. \A q, r \in Peers, o1, o2 \in Ops :
          waits'[q][o1] # None /\ waits'[q][o1] = waits'[r][o2] => q = r /\ o1 = o2
    BY <2>1 DEF ChannelsInv
  <2>6. \A d \in Calls : offers'[d] # None => d[2] <= calls'[d[1]]
    BY <1>2, <2>2, <2>3 DEF ChannelsInv
  <2> QED
    BY <2>4, <2>5, <2>6 DEF ChannelsInv
<1>7. PeersInv'
  BY <1>2, <1>4 DEF PeersInv, MayTell, Told
<1>8. DataInv'
  BY <1>1, <1>2, <1>3 DEF DataInv, AnswersStored, Told, TypeOK
<1> QED
  BY <1>2, <1>5, <1>6, <1>7, <1>8, ClientsFrame

(* An answer that is not awaited goes on. *)
LEMMA PassStep ==
    ASSUME Inv, NEW p \in Peers, NEW m \in Messages, Pass(p, m)
    PROVE  Inv'
<1> USE DEF Inv
<1>1. /\ m.kind = "RETURN" /\ TakeEvent(p, m)
      /\ serving' = IF Returned(p, m) THEN serving ELSE serving (+) SetToBag({<<p, m>>})
      /\ UNCHANGED <<flight, rounds, reqs, store, stored, clientVars, script, faults>>
  BY DEF Pass
<1>2. m.data \in Told
  BY <1>1, TakeEventFacts DEF MayTell
<1>3. IsABag(serving') /\ DOMAIN serving' \subseteq DOMAIN serving \cup {<<p, m>>}
  BY <1>1, BagAndOne DEF TypeOK
<1>4. IsABag(events') /\ DOMAIN events' \subseteq DOMAIN events
  BY <1>1, TakeEventFacts
<1>5. TypeOK'
  <2>1. DOMAIN serving' \subseteq Peers \X Messages /\ DOMAIN events' \subseteq Peers \X Messages
    BY <1>3, <1>4 DEF TypeOK, BagToSet
  <2> QED
    BY <1>1, <1>3, <1>4, <2>1 DEF TypeOK, clientVars, BagToSet
<1>6. PeersInv'
  <2>1. \A e \in DOMAIN serving' : e[2].data \in Told
    BY <1>2, <1>3 DEF PeersInv
  <2> QED
    BY <1>1, <1>4, <2>1 DEF PeersInv, MayTell, Told
<1> QED
  BY <1>1, <1>5, <1>6, ChannelsFrame, ClientsFrame, DataFrame DEF clientVars

(* Those who asked are told. *)
LEMMA AnswerStep ==
    ASSUME Inv, NEW p \in Peers, NEW m \in Messages, Answer(p, m)
    PROVE  Inv'
<1> USE DEF Inv
<1> DEFINE replies == {NewReturn(p, m.op, m.data, q) : q \in Peers}
<1>1. /\ <<p, m>> \in DOMAIN serving
      /\ serving' = serving (-) SetToBag({<<p, m>>})
      /\ reqs' = FlushReqs(p, m.op)
      /\ flight' = IF Silent(m) THEN flight ELSE flight (+) Returns(p, m)
      /\ UNCHANGED <<rounds, events, store, stored, clientVars, script, faults>>
  BY DEF Answer, BagIn, BagToSet
<1>2. m.op \in Ops /\ m.data \in Data /\ m.data \in Told
  BY <1>1, MessageFields DEF PeersInv
<1>3. replies \subseteq Messages /\ \A r \in replies : MayTell(r)
  BY <1>2, ReturnType DEF MayTell
<1>4. IsABag(Returns(p, m)) /\ DOMAIN Returns(p, m) \subseteq Peers \X replies
  BY <1>2, ReturnsType DEF TypeOK
<1> HIDE DEF replies
<1>5. IsABag(flight') /\ DOMAIN flight' \subseteq DOMAIN flight \cup (Peers \X replies)
  <2> DEFINE S == Returns(p, m)
  <2>1. IsABag(flight (+) S) /\ DOMAIN (flight (+) S) = DOMAIN flight \cup DOMAIN S
    BY <1>4, BagOfBoth DEF TypeOK
  <2> QED
    BY <1>1, <1>4, <2>1 DEF TypeOK
<1>6. IsABag(serving') /\ DOMAIN serving' \subseteq DOMAIN serving
  BY <1>1, BagButOne DEF TypeOK
<1>7. TypeOK'
  <2>1. DOMAIN serving' \subseteq Peers \X Messages /\ DOMAIN flight' \subseteq Peers \X Messages
    BY <1>3, <1>5, <1>6 DEF TypeOK, BagToSet
  <2>2. reqs' \in [Peers -> [Ops -> SUBSET Peers]]
    BY <1>1, <1>2 DEF FlushReqs, TypeOK
  <2> QED
    BY <1>1, <1>5, <1>6, <2>1, <2>2 DEF TypeOK, clientVars, BagToSet
<1>8. PeersInv'
  <2>1. \A e \in DOMAIN flight' : MayTell(e[2])
    BY <1>3, <1>5 DEF PeersInv
  <2> QED
    BY <1>1, <1>6, <2>1 DEF PeersInv, MayTell, Told
<1> QED
  BY <1>1, <1>7, <1>8, ChannelsFrame, ClientsFrame, DataFrame DEF clientVars
-----------------------------------------------------------------------------
(* The invariant is one: every step keeps it. *)
LEMMA InvStep == Inv /\ [Next]_vars => Inv'
<1> SUFFICES ASSUME Inv, [Next]_vars PROVE Inv'
  OBVIOUS
<1>1. CASE UNCHANGED vars
  <2>1. UNCHANGED <<peerVars, clientVars, script, faults>>
    BY <1>1 DEF vars
  <2>2. TypeOK'
    BY <2>1 DEF Inv, TypeOK, peerVars, clientVars, BagToSet
  <2> QED
    BY <2>1, <2>2, ChannelsFrame, ClientsFrame, PeersFrame, DataFrame
       DEF Inv, peerVars, clientVars
<1> QED
  BY <1>1, NextCases, BeginStep, TakeStep, FaultStep, ReceiveStep, ForwardStep, ApplyStep,
     AcceptStep, PassStep, AnswerStep DEF Inv

THEOREM Invariant == Spec => []Inv
BY InvInit, InvStep, PTL DEF Spec

(* The variables have their types: no round goes beyond its quorum. *)
THEOREM TypeCorrect == Spec => []TypeOK
BY Invariant, PTL DEF Inv

(***************************************************************************)
(* Whatever a call returns was stored by a peer of the home cluster,       *)
(* however messages are lost, mixed by rounds, and late.                   *)
(***************************************************************************)
THEOREM StoredAnswers == Spec => []AnswersStored
<1>1. Inv => AnswersStored
  BY DEF Inv, DataInv
<1> QED
  BY <1>1, Invariant, PTL

(***************************************************************************)
(* No channel is offered a second answer: the first one takes it out of    *)
(* the map of those that wait, and it is in there once.                    *)
(***************************************************************************)
THEOREM OneAnswer == Spec => OneAnswerPerChannel
<1> DEFINE Kept == \A c \in Calls : offers[c] # None => offers'[c] = offers[c]
<1>1. ASSUME Inv, [Next]_vars PROVE Kept
  <2>1. ASSUME NEW p \in Peers, NEW m \in Messages, Accept(p, m) PROVE Kept
    <3>1. waits[p][m.op] # None /\ m.op \in Ops /\ waits[p][m.op] \in Calls
      BY <1>1, <2>1, MessageFields DEF Accept, Awaited, Inv, TypeOK
    <3>2. offers[waits[p][m.op]] = None
      BY <1>1, <3>1 DEF Inv, ChannelsInv, Open
    <3> QED
      BY <1>1, <2>1, <3>1, <3>2 DEF Accept, Inv, TypeOK
  <2>2. ASSUME NEW x \in Clients, Begin(x) \/ TakeData(x) \/ TakeError(x) \/ GiveUp(x)
        PROVE  UNCHANGED offers
    BY <2>2 DEF Begin, TakeData, TakeError, GiveUp
  <2>3. ASSUME NEW e, Lose(e) PROVE UNCHANGED offers
    BY <2>3 DEF Lose, clientVars
  <2>4. ASSUME NEW p, NEW k, TimeOut(p, k) PROVE UNCHANGED offers
    BY <2>4 DEF TimeOut, clientVars
  <2>5. ASSUME NEW p, NEW m,
               Receive(p, m) \/ Answer(p, m) \/ Forward(p, m) \/ Apply(p, m) \/ Pass(p, m)
        PROVE  UNCHANGED offers
    BY <2>5 DEF Receive, Answer, Forward, Apply, Pass, clientVars
  <2>6. CASE UNCHANGED vars
    BY <2>6 DEF vars, clientVars
  <2> QED
    BY <1>1, <2>1, <2>2, <2>3, <2>4, <2>5, <2>6, NextCases DEF Inv
<1>2. Inv /\ [Next]_vars => [Kept]_vars
  BY <1>1
<1> QED
  BY <1>2, Invariant, PTL DEF Spec, OneAnswerPerChannel
=============================================================================
