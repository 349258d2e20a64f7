---------------------------- MODULE DeliveryProofs ----------------------------
(***************************************************************************)
(* Two things that Requests promises when all is quiet, for any clusters,  *)
(* scripts and size of a quorum: a value that is put gets to all peers of  *)
(* the home of its key, and the first call at home is answered.  Both need *)
(* that nothing is lost, and that every cluster has more peers than a      *)
(* round takes: what is left over in a round is then never all that the    *)
(* peers of a cluster have sent.                                           *)
(***************************************************************************)
EXTENDS RequestsProofs, FiniteSetTheorems

(* What a round has counted. *)
Held(p, k) == IF rounds[p][k] = None THEN 0 ELSE rounds[p][k][2]

(* A request is that of a call that has begun, wherever it has been handed on. *)
Traced(m) ==
    m.kind = "REQUEST" =>
        \E c \in Begun :
            CallOf(c).op = m.op /\ CallOf(c).data = m.data /\ CallOf(c).peer = m.origin

(* All requests are, and a round is for messages of its hash. *)
TraceInv ==
    /\ \A e \in DOMAIN flight \cup DOMAIN events : Traced(e[2])
    /\ \A p \in Peers, k \in Hashes :
         rounds[p][k] # None => Traced(rounds[p][k][1]) /\ Hash(rounds[p][k][1]) = k
-----------------------------------------------------------------------------
(* Calls that have begun: what they are stays, and one more of them is the first step of Begin. *)
LEMMA CallsStartAtOne == \A c \in Calls : c[1] \in Clients /\ c[2] \in Nat \ {0}
<1> DEFINE All == {{y} \X (1..Len(s.calls[y])) : y \in Clients, s \in Scripts}
<1>1. Calls = UNION All
  BY DEF Calls
<1>2. \A C \in All : C \subseteq Clients \X (Nat \ {0})
  BY ScriptType
<1> QED
  BY <1>1, <1>2

LEMMA BegunCalls ==
    ASSUME TypeOK, NEW c \in Begun
    PROVE  /\ CallOf(c).peer \in Peers /\ CallOf(c).op \in Ops /\ CallOf(c).data \in Data
           /\ CallOf(c).op = "PUT" => CallOf(c).data \in Values
<1>1. c \in Calls /\ c[2] <= calls[c[1]]
  BY DEF Begun
<1>2. c[1] \in Clients /\ c[2] \in Nat \ {0}
  BY <1>1, CallsStartAtOne
<1>3. calls[c[1]] \in Nat /\ calls[c[1]] <= Len(script.calls[c[1]]) /\ script \in Scripts
  BY <1>2 DEF TypeOK
<1>4. Len(script.calls[c[1]]) \in Nat
  BY <1>2, <1>3, ScriptType
<1>5. c[2] \in 1..Len(script.calls[c[1]]) /\ c[2] <= Len(script.calls[c[1]])
  BY <1>1, <1>2, <1>3, <1>4
<1>6. CallOf(c) \in [peer : Peers, op : Ops, data : Values \cup {Absent}]
  BY <1>2, <1>3, <1>5, CallType DEF CallOf
<1>7. CallOf(c).op = "PUT" => CallOf(c).data \in Values
  BY <1>2, <1>3, <1>5, ScriptsAssumption DEF CallOf
<1> QED
  BY <1>6, <1>7 DEF Data

LEMMA SameCalls ==
    ASSUME UNCHANGED <<calls, script>>
    PROVE  Begun' = Begun /\ \A c : CallOf(c)' = CallOf(c)
BY DEF Begun, CallOf

(* Who a message for a cluster is for. *)
Vc(c) == {q \in Peers : ClusterOf[q] = c}

LEMMA SendSets ==
    ASSUME TypeOK, NEW c, NEW m
    PROVE  DOMAIN (flight (+) SendToVc(c, m)) = DOMAIN flight \cup {<<q, m>> : q \in Vc(c)}
<1> DEFINE S == SendToVc(c, m)
<1>1. IsABag(S) /\ DOMAIN S = {<<q, m>> : q \in Vc(c)}
  BY BagOfSet DEF SendToVc, Vc
<1> HIDE DEF S
<1>2. DOMAIN (flight (+) S) = DOMAIN flight \cup DOMAIN S
  BY <1>1, BagOfBoth DEF TypeOK
<1> QED
  BY <1>1, <1>2 DEF S

LEMMA BeginSets ==
    ASSUME TypeOK, NEW x \in Clients, Begin(x)
    PROVE  \E c \in Calls, p \in Peers, op \in Ops, data \in Data :
             /\ Begun' = Begun \cup {c} /\ c \notin Begun /\ c[1] = x
             /\ CallOf(c).peer = p /\ CallOf(c).op = op /\ CallOf(c).data = data
             /\ op = "PUT" => data # Absent
             /\ DOMAIN flight' =
                  DOMAIN flight \cup {<<q, NewRequest(p, op, data, p)>> : q \in Vc(ClusterOf[p])}
             /\ waits' = [waits EXCEPT ![p][op] = AddWait(p, op, c)]
             /\ chan' = [chan EXCEPT ![x] = AddWait(p, op, c)]
             /\ UNCHANGED <<rounds, events, serving, reqs, store, offers, script, faults>>
<1> DEFINE n == calls[x] + 1
           c == <<x, n>>
           call == script.calls[x][n]
           m == NewRequest(call.peer, call.op, call.data, call.peer)
<1>1. n \in Nat \ {0} /\ n <= Len(script.calls[x])
  <2>1. calls[x] < Len(script.calls[x])
    BY DEF Begin
  <2>2. calls[x] \in Nat /\ Len(script.calls[x]) \in Nat
    BY ScriptType DEF TypeOK
  <2> QED
    BY <2>1, <2>2
<1>2. c \in Calls /\ call.peer \in Peers /\ call.op \in Ops /\ call.data \in Data
  BY <1>1, CallType DEF TypeOK, Data
<1>3. CallOf(c) = call /\ (call.op = "PUT" => call.data # Absent)
  <2>1. n \in 1..Len(script.calls[x])
    <3>1. Len(script.calls[x]) \in Nat
      BY ScriptType DEF TypeOK
    <3> QED
      BY <1>1, <3>1
  <2>2. call.op = "PUT" => call.data \in Values
    BY <2>1, ScriptsAssumption DEF TypeOK
  <2> QED
    BY <2>2, ValuesAssumption DEF CallOf
<1>4. Begun' = Begun \cup {c}
  <2>1. calls' = [calls EXCEPT ![x] = n] /\ calls \in [Clients -> Nat]
    BY DEF Begin, TypeOK
  <2>2. ASSUME NEW d \in Calls PROVE d[2] <= calls'[d[1]] <=> d[2] <= calls[d[1]] \/ d = c
    <3>1. d = <<d[1], d[2]>> /\ d[1] \in Clients /\ d[2] \in Nat
      BY CallsArePairs
    <3>2. CASE d[1] # x
      BY <2>1, <3>1, <3>2
    <3>3. CASE d[1] = x
      <4>1. calls'[d[1]] = calls[x] + 1 /\ calls[x] \in Nat /\ calls[d[1]] = calls[x]
        BY <2>1, <3>3
      <4>2. d = c <=> d[2] = calls[x] + 1
        BY <3>1, <3>3
      <4> QED
        BY <3>1, <4>1, <4>2
    <3> QED
      BY <3>2, <3>3
  <2> QED
    BY <1>2, <2>2 DEF Begun
<1>5. DOMAIN flight' = DOMAIN flight \cup {<<q, m>> : q \in Vc(ClusterOf[call.peer])}
  <2>1. flight' = flight (+) SendToVc(ClusterOf[call.peer], m)
    BY DEF Begin
  <2> HIDE DEF call, m
  <2> QED
    BY <2>1, SendSets
<1>6. /\ waits' = [waits EXCEPT ![call.peer][call.op] = AddWait(call.peer, call.op, c)]
      /\ chan' = [chan EXCEPT ![x] = AddWait(call.peer, call.op, c)]
      /\ UNCHANGED <<rounds, events, serving, reqs, store, offers, script, faults>>
  BY DEF Begin
<1>7. c \notin Begun /\ c[1] = x
  <2>1. calls[x] \in Nat
    BY DEF TypeOK
  <2> QED
    BY <2>1 DEF Begun
<1> HIDE DEF call, c, n
<1> QED
  BY <1>2, <1>3, <1>4, <1>5, <1>6, <1>7

LEMMA BeginCall ==
    ASSUME TypeOK, NEW x \in Clients, Begin(x)
    PROVE  \E c : Begun' = Begun \cup {c} /\ UNCHANGED <<script, faults>>
<1>1. PICK c \in Calls, p \in Peers, op \in Ops, data \in Data :
             /\ Begun' = Begun \cup {c} /\ c \notin Begun /\ c[1] = x
             /\ CallOf(c).peer = p /\ CallOf(c).op = op /\ CallOf(c).data = data
             /\ op = "PUT" => data # Absent
             /\ DOMAIN flight' =
                  DOMAIN flight \cup {<<q, NewRequest(p, op, data, p)>> : q \in Vc(ClusterOf[p])}
             /\ waits' = [waits EXCEPT ![p][op] = AddWait(p, op, c)]
             /\ chan' = [chan EXCEPT ![x] = AddWait(p, op, c)]
             /\ UNCHANGED <<rounds, events, serving, reqs, store, offers, script, faults>>
  BY BeginSets
<1> QED
  BY <1>1

(* An event is taken: the others stay. *)
LEMMA TakeEventSets ==
    ASSUME TypeOK, NEW p \in Peers, NEW m \in Messages, TakeEvent(p, m)
    PROVE  /\ <<p, m>> \in DOMAIN events
           /\ DOMAIN events' \subseteq DOMAIN events
           /\ DOMAIN events \ {<<p, m>>} \subseteq DOMAIN events'
<1>1. <<p, m>> \in DOMAIN events /\ events' = events (-) SetToBag({<<p, m>>})
  BY DEF TakeEvent, BagIn, BagToSet
<1> QED
  BY <1>1, BagButOne DEF TypeOK

(***************************************************************************)
(* A message is received: it is the event if it comes from its origin, and *)
(* its round, whose first message is o, is either full, with o the event,  *)
(* or counts one more.                                                     *)
(***************************************************************************)
Counted(p, m, o) ==
    /\ o \in Messages
    /\ o = m \/ (rounds[p][Hash(m)] # None /\ o = rounds[p][Hash(m)][1])
    /\ DOMAIN events' \subseteq DOMAIN events \cup {<<p, m>>, <<p, o>>}
    /\ \/ <<p, o>> \in DOMAIN events' /\ rounds' = [rounds EXCEPT ![p][Hash(m)] = None]
       \/ /\ Held(p, Hash(m)) + 1 \in 1..SafteyValue
          /\ rounds' = [rounds EXCEPT ![p][Hash(m)] = <<o, Held(p, Hash(m)) + 1>>]

LEMMA ReceiveSets ==
    ASSUME TypeOK, NEW p \in Peers, NEW m \in Messages, Receive(p, m)
    PROVE  /\ <<p, m>> \in DOMAIN flight
           /\ DOMAIN flight' \subseteq DOMAIN flight
           /\ DOMAIN flight \ {<<p, m>>} \subseteq DOMAIN flight'
           /\ DOMAIN events \subseteq DOMAIN events'
           /\ m.kind = "REQUEST" /\ m.sender = m.origin => <<p, m>> \in DOMAIN events'
           /\ \E o : Counted(p, m, o)
<1> DEFINE k == Hash(m)
           opener == Opener(p, m)
           count == Count(p, m)
           full == count = SafteyValue + 1
           fired == IF full THEN SetToBag({<<p, opener>>}) ELSE EmptyBag
           both == events (+) Direct(p, m)
<1>1. /\ <<p, m>> \in DOMAIN flight
      /\ flight' = flight (-) SetToBag({<<p, m>>})
      /\ rounds' = [rounds EXCEPT ![p][k] = IF full THEN None ELSE <<opener, count>>]
      /\ events' = both (+) fired
  BY DEF Receive, BagIn, BagToSet
<1>2. DOMAIN flight' \subseteq DOMAIN flight /\ DOMAIN flight \ {<<p, m>>} \subseteq DOMAIN flight'
  BY <1>1, BagButOne DEF TypeOK
<1>3. k \in Hashes
  BY MessageFields
<1>4. opener \in Messages /\ (opener = m \/ (rounds[p][k] # None /\ opener = rounds[p][k][1]))
  BY <1>3 DEF Opener, TypeOK
<1>5. count = Held(p, k) + 1 /\ count \in 1..(SafteyValue + 1)
  <2>1. Held(p, k) \in 0..SafteyValue
    BY <1>3, SafteyAssumption DEF Held, TypeOK
  <2>2. count = Held(p, k) + 1
    BY DEF Count, Held
  <2> HIDE DEF count
  <2> QED
    BY <2>1, <2>2, SafteyAssumption
<1>6. /\ IsABag(Direct(p, m)) /\ DOMAIN Direct(p, m) \subseteq {<<p, m>>}
      /\ m.kind = "REQUEST" /\ m.sender = m.origin => <<p, m>> \in DOMAIN Direct(p, m)
  BY BagOfSet, BagOfNone DEF Direct
<1>7. /\ IsABag(fired) /\ DOMAIN fired \subseteq {<<p, opener>>}
      /\ full => <<p, opener>> \in DOMAIN fired
  BY BagOfSet, BagOfNone
<1>8. IsABag(both) /\ DOMAIN both = DOMAIN events \cup DOMAIN Direct(p, m)
  BY <1>6, BagOfBoth DEF TypeOK
<1> HIDE DEF both, fired, opener, count, k
<1>9. DOMAIN events' = DOMAIN both \cup DOMAIN fired
  BY <1>1, <1>7, <1>8, BagOfBoth
<1>10. CASE full
  <2>1. <<p, opener>> \in DOMAIN events' /\ rounds' = [rounds EXCEPT ![p][k] = None]
    BY <1>1, <1>7, <1>9, <1>10
  <2>2. DOMAIN events' \subseteq DOMAIN events \cup {<<p, m>>, <<p, opener>>}
    BY <1>6, <1>7, <1>8, <1>9
  <2>3. Counted(p, m, opener)
    BY <1>4, <2>1, <2>2 DEF Counted, k
  <2> QED
    BY <1>1, <1>2, <1>6, <1>8, <1>9, <2>3
<1>11. CASE ~full
  <2>1. /\ rounds' = [rounds EXCEPT ![p][k] = <<opener, Held(p, k) + 1>>]
        /\ Held(p, k) + 1 \in 1..SafteyValue
    BY <1>1, <1>5, <1>11, SafteyAssumption
  <2>2. DOMAIN events' \subseteq DOMAIN events \cup {<<p, m>>, <<p, opener>>}
    BY <1>6, <1>7, <1>8, <1>9
  <2>3. Counted(p, m, opener)
    BY <1>4, <2>1, <2>2 DEF Counted, k
  <2> QED
    BY <1>1, <1>2, <1>6, <1>8, <1>9, <2>3
<1> QED
  BY <1>10, <1>11

(* What is answered adds answers only. *)
LEMMA AnswerSets ==
    ASSUME TypeOK, NEW p \in Peers, NEW m \in Messages, Answer(p, m)
    PROVE  /\ <<p, m>> \in DOMAIN serving
           /\ DOMAIN serving' \subseteq DOMAIN serving
           /\ DOMAIN serving \ {<<p, m>>} \subseteq DOMAIN serving'
           /\ DOMAIN flight' = IF Silent(m) THEN DOMAIN flight
                               ELSE DOMAIN flight \cup DOMAIN Returns(p, m)
           /\ \A e \in DOMAIN Returns(p, m) :
                \E q \in reqs[p][m.op] :
                   e[1] \in Vc(ClusterOf[q]) /\ e[2] = NewReturn(p, m.op, m.data, q)
           /\ \A q \in reqs[p][m.op] : \A r \in Vc(ClusterOf[q]) :
                <<r, NewReturn(p, m.op, m.data, q)>> \in DOMAIN Returns(p, m)
<1> DEFINE replies == {NewReturn(p, m.op, m.data, q) : q \in reqs[p][m.op]}
           S == Returns(p, m)
<1>1. /\ <<p, m>> \in DOMAIN serving /\ serving' = serving (-) SetToBag({<<p, m>>})
      /\ flight' = IF Silent(m) THEN flight ELSE flight (+) S
  BY DEF Answer, BagIn, BagToSet
<1>2. /\ DOMAIN serving' \subseteq DOMAIN serving
      /\ DOMAIN serving \ {<<p, m>>} \subseteq DOMAIN serving'
  BY <1>1, BagButOne DEF TypeOK
<1>3. /\ IsABag(S)
      /\ DOMAIN S = {e \in Peers \X replies : ClusterOf[e[1]] = ClusterOf[e[2].target]}
  BY BagOfSet DEF Returns
<1>4. ASSUME NEW e \in DOMAIN S
      PROVE  \E q \in reqs[p][m.op] :
               e[1] \in Vc(ClusterOf[q]) /\ e[2] = NewReturn(p, m.op, m.data, q)
  <2>1. PICK q \in reqs[p][m.op] : e[2] = NewReturn(p, m.op, m.data, q)
    BY <1>3
  <2>2. e[2].target = q
    BY <2>1 DEF NewReturn
  <2> QED
    BY <1>3, <2>1, <2>2 DEF Vc
<1>5. ASSUME NEW q \in reqs[p][m.op], NEW r \in Vc(ClusterOf[q])
      PROVE  <<r, NewReturn(p, m.op, m.data, q)>> \in DOMAIN S
  <2>1. NewReturn(p, m.op, m.data, q).target = q /\ NewReturn(p, m.op, m.data, q) \in replies
    BY DEF NewReturn
  <2> QED
    BY <1>3, <2>1 DEF Vc
<1> HIDE DEF S, replies
<1>6. DOMAIN flight' = IF Silent(m) THEN DOMAIN flight ELSE DOMAIN flight \cup DOMAIN S
  BY <1>1, <1>3, BagOfBoth DEF TypeOK
<1> QED
  BY <1>1, <1>2, <1>4, <1>5, <1>6 DEF S
-----------------------------------------------------------------------------
(* Requests are traced. *)
LEMMA TracedStays ==
    ASSUME UNCHANGED script, Begun \subseteq Begun', NEW m, Traced(m)
    PROVE  Traced(m)'
BY DEF Traced, CallOf

LEMMA TraceFrame ==
    ASSUME TraceInv, UNCHANGED <<script, rounds>>, Begun \subseteq Begun',
           \A e \in DOMAIN flight' \cup DOMAIN events' :
              e \in DOMAIN flight \cup DOMAIN events \/ Traced(e[2])'
    PROVE  TraceInv'
<1>1. ASSUME NEW e \in DOMAIN flight' \cup DOMAIN events' PROVE Traced(e[2])'
  BY TracedStays DEF TraceInv
<1>2. ASSUME NEW p \in Peers, NEW k \in Hashes, rounds'[p][k] # None
      PROVE  (Traced(rounds[p][k][1]) /\ Hash(rounds[p][k][1]) = k)'
  <2>1. Traced(rounds[p][k][1]) /\ Hash(rounds[p][k][1]) = k
    BY <1>2 DEF TraceInv
  <2>2. PICK o : o = rounds[p][k][1]
    OBVIOUS
  <2>3. Traced(o)'
    BY <2>1, <2>2, TracedStays
  <2> QED
    BY <2>1, <2>2, <2>3 DEF Traced, CallOf
<1> QED
  BY <1>1, <1>2 DEF TraceInv

LEMMA TraceInit == Init => TraceInv
BY BagOfNone DEF Init, TraceInv

LEMMA TraceReceive ==
    ASSUME TypeOK, TraceInv, NEW p \in Peers, NEW m \in Messages, Receive(p, m)
    PROVE  TraceInv'
<1>1. /\ <<p, m>> \in DOMAIN flight /\ DOMAIN flight' \subseteq DOMAIN flight
      /\ \E o : Counted(p, m, o)
  BY ReceiveSets
<1>2. PICK o : Counted(p, m, o)
  BY <1>1
<1>3. UNCHANGED <<script, calls>> /\ Begun' = Begun
  BY SameCalls DEF Receive, clientVars
<1>4. Hash(m) \in Hashes
  BY MessageFields
<1>5. Traced(m)
  BY <1>1 DEF TraceInv
<1>6. Traced(o) /\ Hash(o) = Hash(m)
  BY <1>2, <1>4, <1>5 DEF Counted, TraceInv
<1>7. ASSUME NEW e \in DOMAIN flight' \cup DOMAIN events' PROVE Traced(e[2])'
  <2>1. e \in DOMAIN flight \cup DOMAIN events \/ e = <<p, m>> \/ e = <<p, o>>
    BY <1>1, <1>2 DEF Counted
  <2>2. Traced(e[2])
    BY <1>5, <1>6, <2>1 DEF TraceInv
  <2> QED
    BY <1>3, <2>2, TracedStays
<1>8. ASSUME NEW q \in Peers, NEW k \in Hashes, rounds'[q][k] # None
      PROVE  (Traced(rounds[q][k][1]) /\ Hash(rounds[q][k][1]) = k)'
  <2>1. CASE q = p /\ k = Hash(m)
    <3>1. rounds'[q][k][1] = o
      BY <1>2, <1>4, <1>8, <2>1 DEF Counted, TypeOK
    <3>2. Traced(o)'
      BY <1>3, <1>6, TracedStays
    <3> QED
      BY <1>6, <2>1, <3>1, <3>2 DEF Traced, CallOf
  <2>2. CASE ~(q = p /\ k = Hash(m))
    <3>1. rounds'[q][k] = rounds[q][k]
      BY <1>2, <1>4, <2>2 DEF Counted, TypeOK
    <3>2. Traced(rounds[q][k][1]) /\ Hash(rounds[q][k][1]) = k
      BY <1>8, <3>1 DEF TraceInv
    <3>3. PICK r : r = rounds[q][k][1]
      OBVIOUS
    <3>4. Traced(r)'
      BY <1>3, <3>2, <3>3, TracedStays
    <3> QED
      BY <3>1, <3>2, <3>3, <3>4 DEF Traced, CallOf
  <2> QED
    BY <2>1, <2>2
<1> QED
  BY <1>7, <1>8 DEF TraceInv

(* What is handed on is what was received, for the next cluster. *)
LEMMA ForwardSets ==
    ASSUME TypeOK, NEW p \in Peers, NEW m \in Messages, Forward(p, m)
    PROVE  DOMAIN flight' =
             DOMAIN flight \cup {<<q, NewRequest(p, m.op, m.data, m.origin)>> :
                                    q \in Vc(Hop[ClusterOf[p]][Home])}
<1> DEFINE c == Hop[ClusterOf[p]][Home]
           r == NewRequest(p, m.op, m.data, m.origin)
<1>1. flight' = flight (+) SendToVc(c, r)
  BY DEF Forward
<1> HIDE DEF c, r
<1>2. DOMAIN flight' = DOMAIN flight \cup {<<q, r>> : q \in Vc(c)}
  BY <1>1, SendSets
<1> QED
  BY <1>2 DEF c, r

LEMMA TraceStep ==
    ASSUME Inv, TraceInv, [Next]_vars
    PROVE  TraceInv'
<1> USE DEF Inv
<1>1. ASSUME NEW x \in Clients, Begin(x) PROVE TraceInv'
  <2>1. PICK c \in Calls, p \in Peers, op \in Ops, data \in Data :
             /\ Begun' = Begun \cup {c} /\ c \notin Begun /\ c[1] = x
             /\ CallOf(c).peer = p /\ CallOf(c).op = op /\ CallOf(c).data = data
             /\ op = "PUT" => data # Absent
             /\ DOMAIN flight' =
                  DOMAIN flight \cup {<<q, NewRequest(p, op, data, p)>> : q \in Vc(ClusterOf[p])}
             /\ waits' = [waits EXCEPT ![p][op] = AddWait(p, op, c)]
             /\ chan' = [chan EXCEPT ![x] = AddWait(p, op, c)]
             /\ UNCHANGED <<rounds, events, serving, reqs, store, offers, script, faults>>
    BY <1>1, BeginSets
  <2>2. CallOf(c)' = CallOf(c) /\ c \in Begun'
    BY <2>1 DEF CallOf
  <2>3. Traced(NewRequest(p, op, data, p))'
    BY <2>1, <2>2 DEF Traced, NewRequest
  <2> DEFINE r == NewRequest(p, op, data, p)
  <2> HIDE DEF r
  <2>4. \A e \in DOMAIN flight' \cup DOMAIN events' :
              e \in DOMAIN flight \cup DOMAIN events \/ e[2] = r
    BY <2>1 DEF r
  <2> QED
    BY <2>1, <2>3, <2>4, TraceFrame DEF r
<1>2. ASSUME NEW x \in Clients, TakeData(x) \/ TakeError(x) \/ GiveUp(x) PROVE TraceInv'
  <2>1. UNCHANGED <<peerVars, script, calls>>
    BY <1>2 DEF TakeData, TakeError, GiveUp
  <2> QED
    BY <2>1, SameCalls, TraceFrame DEF peerVars
<1>3. ASSUME NEW e \in DOMAIN flight, Lose(e) PROVE TraceInv'
  <2>1. DOMAIN flight' \subseteq DOMAIN flight /\ UNCHANGED <<events, rounds, script, calls>>
    BY <1>3, BagButOne DEF Lose, TypeOK, clientVars
  <2> QED
    BY <2>1, SameCalls, TraceFrame
<1>4. ASSUME NEW p \in Peers, NEW k \in Hashes, TimeOut(p, k) PROVE TraceInv'
  <2>1. /\ UNCHANGED <<flight, events, script, calls>>
        /\ rounds' = [rounds EXCEPT ![p][k] = None]
    BY <1>4 DEF TimeOut, clientVars
  <2>2. Begun' = Begun /\ \A m : Traced(m) => Traced(m)'
    BY <2>1, SameCalls, TracedStays
  <2>3. ASSUME NEW q \in Peers, NEW h \in Hashes, rounds'[q][h] # None
        PROVE  (Traced(rounds[q][h][1]) /\ Hash(rounds[q][h][1]) = h)'
    <3>1. rounds'[q][h] = rounds[q][h]
      BY <2>1, <2>3 DEF TypeOK
    <3>2. PICK r : r = rounds[q][h][1]
      OBVIOUS
    <3>3. Traced(r) /\ Hash(r) = h
      BY <2>3, <3>1, <3>2 DEF TraceInv
    <3>4. Traced(r)'
      BY <2>2, <3>3
    <3> QED
      BY <2>1, <3>1, <3>2, <3>3, <3>4 DEF Traced, CallOf
  <2>4. \A e \in DOMAIN flight' \cup DOMAIN events' : Traced(e[2])'
    BY <2>1, <2>2 DEF TraceInv
  <2> QED
    BY <2>3, <2>4 DEF TraceInv
<1>5. ASSUME NEW p \in Peers, NEW m \in Messages, Forward(p, m) PROVE TraceInv'
  <2>1. TakeEvent(p, m) /\ UNCHANGED <<rounds, script, calls>> /\ m.kind = "REQUEST"
    BY <1>5 DEF Forward, clientVars
  <2> DEFINE r == NewRequest(p, m.op, m.data, m.origin)
  <2>2. /\ \A e \in DOMAIN flight' : e \in DOMAIN flight \/ e[2] = r
        /\ <<p, m>> \in DOMAIN events /\ DOMAIN events' \subseteq DOMAIN events
    <3>1. DOMAIN flight' =
             DOMAIN flight \cup {<<q, r>> : q \in Vc(Hop[ClusterOf[p]][Home])}
      BY <1>5, ForwardSets
    <3> HIDE DEF r
    <3>2. \A e \in DOMAIN flight' : e \in DOMAIN flight \/ e[2] = r
      BY <3>1
    <3> QED
      BY <2>1, <3>2, TakeEventSets
  <2>3. Traced(m) /\ Begun' = Begun
    BY <2>1, <2>2, SameCalls DEF TraceInv
  <2>4. Traced(r)
    BY <2>1, <2>3 DEF Traced, NewRequest
  <2> HIDE DEF r
  <2>5. Traced(r)'
    BY <2>1, <2>3, <2>4, TracedStays
  <2> QED
    BY <2>1, <2>2, <2>3, <2>5, TraceFrame
<1>6. ASSUME NEW p \in Peers, NEW m \in Messages, Apply(p, m) \/ Accept(p, m) \/ Pass(p, m)
      PROVE  TraceInv'
  <2>1. TakeEvent(p, m) /\ UNCHANGED <<rounds, script, calls, flight>>
    BY <1>6 DEF Apply, Accept, Pass, clientVars
  <2> QED
    BY <2>1, TakeEventSets, SameCalls, TraceFrame
<1>7. ASSUME NEW p \in Peers, NEW m \in Messages, Answer(p, m) PROVE TraceInv'
  <2>1. UNCHANGED <<rounds, script, calls, events>>
    BY <1>7 DEF Answer, clientVars
  <2>2. \A e \in DOMAIN flight' :
          e \in DOMAIN flight \/ \E q : e[2] = NewReturn(p, m.op, m.data, q)
    BY <1>7, AnswerSets
  <2>3. \A e \in DOMAIN flight' : e \in DOMAIN flight \/ Traced(e[2])'
    <3>1. \A q : Traced(NewReturn(p, m.op, m.data, q))'
      BY DEF Traced, NewReturn
    <3> QED
      BY <2>2, <3>1
  <2> QED
    BY <2>1, <2>3, SameCalls, TraceFrame
<1>8. CASE UNCHANGED vars
  <2>1. UNCHANGED <<peerVars, script, calls>>
    BY <1>8 DEF vars, clientVars
  <2> QED
    BY <2>1, SameCalls, TraceFrame DEF peerVars
<1> QED
  BY <1>1, <1>2, <1>3, <1>4, <1>5, <1>6, <1>7, <1>8, NextCases, TraceReceive
-----------------------------------------------------------------------------
(***************************************************************************)
(* A put floods the clusters on its way.  F are the peers that have fired  *)
(* a put, and R are the peers of whom a put has come, by receiver.  Unless *)
(* it has fired a put or is about to, a peer has in its round as many puts *)
(* as peers have sent it one, for a full round would have fired.           *)
(***************************************************************************)
IsPut(m) == m.kind = "REQUEST" /\ m.op = "PUT"

PutHash == <<"REQUEST", "PUT">>

(* q has a put to fire; one is on its way to q, from s; one is, from its origin. *)
Queued(q) == \E m \in Messages : IsPut(m) /\ <<q, m>> \in DOMAIN events

Coming(s, q) == \E m \in Messages : IsPut(m) /\ m.sender = s /\ <<q, m>> \in DOMAIN flight

Straight(q) == \E m \in Messages : IsPut(m) /\ m.sender = m.origin /\ <<q, m>> \in DOMAIN flight

HomeHas(v, F) == \A q \in F : AtHome(q) => store[q] = v

HandedOn(F, R) ==
    \A s \in F, q \in Peers :
        ~AtHome(s) /\ ClusterOf[q] = Hop[ClusterOf[s]][Home] =>
            q \in F \/ Queued(q) \/ s \in R[q] \/ Coming(s, q)

LeftOver(F, R) ==
    \A q \in Peers : q \in F \/ Queued(q) \/ Cardinality(R[q]) <= Held(q, PutHash)

SentOut(F) ==
    \A c \in Begun, q \in Peers :
        CallOf(c).op = "PUT" /\ ClusterOf[q] = ClusterOf[CallOf(c).peer] =>
            q \in F \/ Queued(q) \/ Straight(q)

Flood(v, F, R) == HomeHas(v, F) /\ HandedOn(F, R) /\ LeftOver(F, R) /\ SentOut(F)

OnlyPuts(v) == \A c \in Begun : CallOf(c).op # "DELETE" /\ CallOf(c).data \in {v, Absent}

Flooding(v) ==
    faults = 0 /\ OnlyPuts(v) =>
        \E F \in SUBSET Peers, R \in [Peers -> SUBSET Peers] : Flood(v, F, R)

FloodInv == \A v \in Values : Flooding(v)

(* What goes on without puts. *)
PutsStay(from, to) ==
    \A q \in Peers, m \in Messages : IsPut(m) /\ <<q, m>> \in from => <<q, m>> \in to

LEMMA FloodFrame ==
    ASSUME NEW v, NEW F \in SUBSET Peers, NEW R \in [Peers -> SUBSET Peers],
           Flood(v, F, R),
           Begun' = Begun, UNCHANGED <<store, script>>,
           PutsStay(DOMAIN events, DOMAIN events'), PutsStay(DOMAIN flight, DOMAIN flight'),
           \A q \in Peers : Held(q, PutHash)' = Held(q, PutHash)
    PROVE  Flood(v, F, R)'
<1>1. \A q \in Peers : Queued(q) => Queued(q)'
  BY DEF PutsStay, Queued
<1>2. \A q \in Peers, s \in Peers : Coming(s, q) => Coming(s, q)'
  BY DEF PutsStay, Coming
<1>3. \A q \in Peers : Straight(q) => Straight(q)'
  BY DEF PutsStay, Straight
<1>4. HomeHas(v, F)'
  BY DEF Flood, HomeHas, AtHome
<1>5. HandedOn(F, R)'
  BY <1>1, <1>2 DEF Flood, HandedOn, AtHome
<1>6. LeftOver(F, R)'
  BY <1>1 DEF Flood, LeftOver
<1>7. SentOut(F)'
  BY <1>1, <1>3 DEF Flood, SentOut, CallOf
<1> QED
  BY <1>4, <1>5, <1>6, <1>7 DEF Flood

(* Which put it is. *)
LEMMA PutData ==
    ASSUME TypeOK, NEW v \in Values, OnlyPuts(v), NEW m \in Messages, Traced(m),
           m.kind = "REQUEST"
    PROVE  m.op # "DELETE" /\ (m.op = "PUT" => m.data = v)
<1>1. PICK c \in Begun : CallOf(c).op = m.op /\ CallOf(c).data = m.data
  BY DEF Traced
<1>2. CallOf(c).op # "DELETE" /\ CallOf(c).data \in {v, Absent}
  BY DEF OnlyPuts
<1>3. CallOf(c).op = "PUT" => CallOf(c).data \in Values
  BY BegunCalls
<1> QED
  BY <1>1, <1>2, <1>3, ValuesAssumption

(* A put is received. *)
LEMMA FloodReceive ==
    ASSUME TypeOK, TraceInv, NEW v, NEW F \in SUBSET Peers, NEW R \in [Peers -> SUBSET Peers],
           Flood(v, F, R), NEW p \in Peers, NEW m \in Messages, Receive(p, m), IsPut(m)
    PROVE  \E R2 \in [Peers -> SUBSET Peers] : Flood(v, F, R2)'
<1>1. /\ <<p, m>> \in DOMAIN flight
      /\ DOMAIN flight \ {<<p, m>>} \subseteq DOMAIN flight'
      /\ DOMAIN events \subseteq DOMAIN events'
      /\ m.sender = m.origin => <<p, m>> \in DOMAIN events'
      /\ \E o : Counted(p, m, o)
  BY ReceiveSets DEF IsPut
<1>2. PICK o : Counted(p, m, o)
  BY <1>1
<1>3. UNCHANGED <<script, calls, store>> /\ Begun' = Begun
  BY SameCalls DEF Receive, clientVars
<1>4. Hash(m) = PutHash /\ PutHash \in Hashes /\ m.sender \in Peers
  BY MessageFields DEF IsPut, Hash, PutHash
<1>5. IsPut(o) /\ o \in Messages
  <2>1. Hash(o) = PutHash /\ o \in Messages
    BY <1>2, <1>4 DEF Counted, TraceInv
  <2> QED
    BY <2>1 DEF IsPut, Hash, PutHash
<1>6. PICK R2 \in [Peers -> SUBSET Peers] :
        \A q \in Peers : R2[q] = IF q = p THEN R[p] \cup {m.sender} ELSE R[q]
  <2>1. [q \in Peers |-> IF q = p THEN R[p] \cup {m.sender} ELSE R[q]]
            \in [Peers -> SUBSET Peers]
    BY <1>4
  <2> QED
    BY <2>1
<1>7. \A q \in Peers : Queued(q) => Queued(q)'
  BY <1>1 DEF Queued
<1>8. HomeHas(v, F)'
  BY <1>3 DEF Flood, HomeHas, AtHome
<1>9. HandedOn(F, R2)'
  <2>1. \A s \in F, q \in Peers : Coming(s, q) => s \in R2[q] \/ Coming(s, q)'
    BY <1>1, <1>6 DEF Coming
  <2> QED
    BY <1>6, <1>7, <2>1 DEF Flood, HandedOn, AtHome
<1>10. LeftOver(F, R2)'
  <2>1. ASSUME NEW q \in Peers, q # p
        PROVE  q \in F \/ Queued(q)' \/ Cardinality(R2[q]) <= Held(q, PutHash)'
    <3>1. Held(q, PutHash)' = Held(q, PutHash)
      BY <1>2, <1>4, <2>1 DEF Held, Counted, TypeOK
    <3> QED
      BY <1>6, <1>7, <2>1, <3>1 DEF Flood, LeftOver
  <2>2. p \in F \/ Queued(p)' \/ Cardinality(R2[p]) <= Held(p, PutHash)'
    <3>1. CASE <<p, o>> \in DOMAIN events'
      BY <1>5, <3>1 DEF Queued
    <3>2. CASE /\ Held(p, PutHash) + 1 \in 1..SafteyValue
               /\ rounds' = [rounds EXCEPT ![p][PutHash] = <<o, Held(p, PutHash) + 1>>]
      <4>1. rounds'[p][PutHash] = <<o, Held(p, PutHash) + 1>>
        BY <1>4, <3>2 DEF TypeOK
      <4>2. Held(p, PutHash)' = Held(p, PutHash) + 1
        <5>1. rounds'[p][PutHash] # None
          BY <1>5, <3>2, <4>1, NoneAssumption
        <5> QED
          BY <4>1, <5>1 DEF Held
      <4>3. IsFiniteSet(R[p]) /\ Cardinality(R[p]) \in Nat
        BY SizesAssumption, FS_Subset, FS_CardinalityType
      <4>4. Cardinality(R2[p]) <= Cardinality(R[p]) + 1
        <5>1. R2[p] = R[p] \cup {m.sender}
          BY <1>6
        <5>2. \/ Cardinality(R[p] \cup {m.sender}) = Cardinality(R[p])
              \/ Cardinality(R[p] \cup {m.sender}) = Cardinality(R[p]) + 1
          BY <4>3, FS_AddElement, Zenon
        <5> QED
          BY <4>3, <5>1, <5>2
      <4>5. Held(p, PutHash) \in Nat
        BY <1>4, SafteyAssumption DEF Held, TypeOK
      <4>6. Cardinality(R2[p]) \in Nat
        BY <1>6, SizesAssumption, FS_Subset, FS_CardinalityType
      <4> QED
        BY <1>7, <4>2, <4>3, <4>4, <4>5, <4>6 DEF Flood, LeftOver
    <3> QED
      BY <1>2, <1>4, <3>1, <3>2 DEF Counted
  <2> QED
    BY <2>1, <2>2 DEF LeftOver
<1>11. SentOut(F)'
  <2>1. \A q \in Peers : Straight(q) => Queued(q)' \/ Straight(q)'
    BY <1>1 DEF Straight, Queued
  <2> QED
    BY <1>3, <1>7, <2>1 DEF Flood, SentOut, CallOf
<1> QED
  BY <1>8, <1>9, <1>10, <1>11 DEF Flood

(* A put begins. *)
LEMMA FloodBegin ==
    ASSUME TypeOK, NEW v, NEW F \in SUBSET Peers, NEW R \in [Peers -> SUBSET Peers],
           Flood(v, F, R), NEW x \in Clients, Begin(x)
    PROVE  Flood(v, F, R)'
<1>1. PICK c \in Calls, p \in Peers, op \in Ops, data \in Data :
             /\ Begun' = Begun \cup {c} /\ c \notin Begun /\ c[1] = x
             /\ CallOf(c).peer = p /\ CallOf(c).op = op /\ CallOf(c).data = data
             /\ op = "PUT" => data # Absent
             /\ DOMAIN flight' =
                  DOMAIN flight \cup {<<q, NewRequest(p, op, data, p)>> : q \in Vc(ClusterOf[p])}
             /\ waits' = [waits EXCEPT ![p][op] = AddWait(p, op, c)]
             /\ chan' = [chan EXCEPT ![x] = AddWait(p, op, c)]
             /\ UNCHANGED <<rounds, events, serving, reqs, store, offers, script, faults>>
  BY BeginSets
<1>2. \A q \in Peers : Queued(q)' <=> Queued(q)
  BY <1>1 DEF Queued
<1>3. \A s \in Peers, q \in Peers : Coming(s, q) => Coming(s, q)'
  BY <1>1 DEF Coming
<1>4. \A q \in Peers : Straight(q) => Straight(q)'
  BY <1>1 DEF Straight
<1>5. HomeHas(v, F)'
  BY <1>1 DEF Flood, HomeHas, AtHome
<1>6. HandedOn(F, R)'
  BY <1>2, <1>3 DEF Flood, HandedOn, AtHome
<1>7. LeftOver(F, R)'
  BY <1>1, <1>2 DEF Flood, LeftOver, Held
<1>8. ASSUME op = "PUT", NEW q \in Peers, ClusterOf[q] = ClusterOf[p]
      PROVE  Straight(q)'
  <2> DEFINE r == NewRequest(p, op, data, p)
  <2>1. r \in Messages
    BY RequestType
  <2>2. IsPut(r) /\ r.sender = r.origin
    BY <1>8 DEF NewRequest, IsPut
  <2> HIDE DEF r
  <2>3. <<q, r>> \in DOMAIN flight'
    BY <1>1, <1>8 DEF Vc, r
  <2> QED
    BY <2>1, <2>2, <2>3 DEF Straight
<1>9. \A d : CallOf(d)' = CallOf(d)
  BY <1>1 DEF CallOf
<1>10. SentOut(F)'
  BY <1>1, <1>2, <1>4, <1>8, <1>9 DEF Flood, SentOut
<1> QED
  BY <1>5, <1>6, <1>7, <1>10 DEF Flood

(* A put is fired, away from home or there. *)
LEMMA FloodFire ==
    ASSUME TypeOK, NEW v, NEW F \in SUBSET Peers, NEW R \in [Peers -> SUBSET Peers],
           Flood(v, F, R), NEW p \in Peers, NEW m \in Messages, IsPut(m), m.data = v,
           Forward(p, m) \/ Apply(p, m)
    PROVE  \E F2 \in SUBSET Peers : Flood(v, F2, R)'
<1>1. /\ UNCHANGED <<rounds, script, calls>> /\ TakeEvent(p, m)
      /\ DOMAIN flight \subseteq DOMAIN flight'
  <2>1. CASE Forward(p, m)
    BY <2>1, ForwardSets DEF Forward, clientVars
  <2>2. CASE Apply(p, m)
    BY <2>2 DEF Apply, clientVars
  <2> QED
    BY <2>1, <2>2
<1>2. Begun' = Begun /\ \A d : CallOf(d)' = CallOf(d)
  BY <1>1, SameCalls
<1>3. PICK F2 \in SUBSET Peers : F2 = F \cup {p}
  OBVIOUS
<1>4. \A q \in Peers : q \in F \/ Queued(q) => q \in F2 \/ Queued(q)'
  BY <1>1, <1>3, TakeEventSets DEF Queued
<1>5. \A s \in Peers, q \in Peers : Coming(s, q) => Coming(s, q)'
  BY <1>1 DEF Coming
<1>6. \A q \in Peers : Straight(q) => Straight(q)'
  BY <1>1 DEF Straight
<1>7. HomeHas(v, F2)'
  <2>1. CASE Forward(p, m)
    BY <2>1, <1>3 DEF Forward, Flood, HomeHas, AtHome
  <2>2. CASE Apply(p, m)
    <3>1. store' = [store EXCEPT ![p] = v] /\ store \in [Peers -> Data]
      BY <2>2 DEF Apply, NewData, IsPut, TypeOK
    <3>2. ASSUME NEW q \in F2, AtHome(q) PROVE store'[q] = v
      BY <3>1, <3>2, <1>3 DEF Flood, HomeHas
    <3> QED
      BY <3>2 DEF HomeHas, AtHome
  <2> QED
    BY <2>1, <2>2
<1>8. ASSUME NEW q \in Peers, ~AtHome(p), ClusterOf[q] = Hop[ClusterOf[p]][Home]
      PROVE  Coming(p, q)'
  <2> DEFINE r == NewRequest(p, m.op, m.data, m.origin)
             c == Hop[ClusterOf[p]][Home]
  <2>1. Forward(p, m)
    BY <1>8 DEF Apply
  <2>2. r \in Messages
    BY MessageFields, RequestType
  <2>3. IsPut(r) /\ r.sender = p
    BY DEF NewRequest, IsPut
  <2>4. DOMAIN flight' = DOMAIN flight \cup {<<s, r>> : s \in Vc(c)}
    BY <2>1, ForwardSets
  <2> HIDE DEF r
  <2>5. <<q, r>> \in DOMAIN flight'
    BY <1>8, <2>4 DEF Vc
  <2> QED
    BY <2>2, <2>3, <2>5 DEF Coming
<1>9. HandedOn(F2, R)'
  <2>1. ASSUME NEW s \in F2, NEW q \in Peers, ~AtHome(s),
               ClusterOf[q] = Hop[ClusterOf[s]][Home]
        PROVE  q \in F2 \/ Queued(q)' \/ s \in R[q] \/ Coming(s, q)'
    <3>1. CASE s = p
      BY <2>1, <1>8, <3>1
    <3>2. CASE s \in F
      BY <2>1, <1>4, <1>5, <3>2 DEF Flood, HandedOn
    <3> QED
      BY <1>3, <3>1, <3>2
  <2> QED
    BY <2>1 DEF HandedOn, AtHome
<1>10. LeftOver(F2, R)'
  <2>1. \A q \in Peers : Held(q, PutHash)' = Held(q, PutHash)
    BY <1>1 DEF Held
  <2> QED
    BY <1>4, <2>1 DEF Flood, LeftOver
<1>11. SentOut(F2)'
  BY <1>2, <1>4, <1>6 DEF Flood, SentOut
<1> QED
  BY <1>7, <1>9, <1>10, <1>11 DEF Flood

(* The calls that have begun are no fewer after a step, and nor are the faults. *)
LEMMA GrowingHistory ==
    ASSUME TypeOK, [Next]_vars
    PROVE  /\ Begun \subseteq Begun' /\ UNCHANGED script
           /\ faults' = 0 => faults = 0
           /\ \A e : Lose(e) => faults' # 0
           /\ \A p, k : TimeOut(p, k) => faults' # 0
<1>1. faults \in Nat
  BY ScriptsAssumption DEF TypeOK
<1>2. \A e : Lose(e) => faults' # 0
  BY <1>1 DEF Lose
<1>3. \A p, k : TimeOut(p, k) => faults' # 0
  BY <1>1 DEF TimeOut
<1>4. ASSUME NEW x \in Clients, Begin(x)
      PROVE  Begun \subseteq Begun' /\ UNCHANGED <<script, faults>>
  <2>1. \E c : Begun' = Begun \cup {c} /\ UNCHANGED <<script, faults>>
    BY <1>4, BeginCall
  <2> QED
    BY <2>1
<1>5. ASSUME NEW x \in Clients, TakeData(x) \/ TakeError(x) \/ GiveUp(x)
      PROVE  UNCHANGED <<script, calls, faults>>
  BY <1>5 DEF TakeData, TakeError, GiveUp
<1>6. ASSUME NEW p \in Peers, NEW m \in Messages,
             \/ Receive(p, m) \/ Answer(p, m)
             \/ Forward(p, m) \/ Apply(p, m) \/ Accept(p, m) \/ Pass(p, m)
      PROVE  UNCHANGED <<script, calls, faults>>
  BY <1>6 DEF Receive, Answer, Forward, Apply, Accept, Pass, clientVars
<1>7. \A e : Lose(e) => UNCHANGED <<script, calls>>
  BY DEF Lose, clientVars
<1>8. \A p, k : TimeOut(p, k) => UNCHANGED <<script, calls>>
  BY DEF TimeOut, clientVars
<1>9. UNCHANGED vars => UNCHANGED <<script, calls, faults>>
  BY DEF vars, clientVars
<1>10. UNCHANGED <<script, calls>> => Begun \subseteq Begun'
  BY SameCalls
<1> QED
  BY <1>2, <1>3, <1>4, <1>5, <1>6, <1>7, <1>8, <1>9, <1>10, NextCases

(* A step without a put. *)
LEMMA FloodOther ==
    ASSUME TypeOK, TraceInv, NEW v \in Values, OnlyPuts(v),
           NEW F \in SUBSET Peers, NEW R \in [Peers -> SUBSET Peers], Flood(v, F, R),
           NEW p \in Peers, NEW m \in Messages, ~(m.kind = "REQUEST" /\ m.op = "PUT"),
           \/ Receive(p, m) \/ Answer(p, m)
           \/ Forward(p, m) \/ Apply(p, m) \/ Accept(p, m) \/ Pass(p, m)
    PROVE  Flood(v, F, R)'
<1>1. UNCHANGED <<script, calls>>
  BY DEF Receive, Answer, Forward, Apply, Accept, Pass, clientVars
<1>2. Begun' = Begun
  BY <1>1, SameCalls
<1>3. UNCHANGED store
  <2>1. CASE Apply(p, m)
    <3>1. TakeEvent(p, m) /\ m.kind = "REQUEST"
      BY <2>1 DEF Apply
    <3>2. <<p, m>> \in DOMAIN events
      BY <3>1, TakeEventSets
    <3>3. <<p, m>>[2] = m /\ Traced(<<p, m>>[2])
      BY <3>2 DEF TraceInv
    <3>4. m.op = "LOOKUP"
      BY <3>1, <3>3, MessageFields, PutData DEF Ops
    <3>5. store' = [store EXCEPT ![p] = store[p]]
      BY <2>1, <3>4 DEF Apply, NewData
    <3> QED
      BY <3>5 DEF TypeOK
  <2>2. CASE ~Apply(p, m)
    BY <2>2 DEF Receive, Answer, Forward, Accept, Pass
  <2> QED
    BY <2>1, <2>2
<1>4. PutsStay(DOMAIN events, DOMAIN events')
  <2>1. CASE Receive(p, m)
    BY <2>1, ReceiveSets DEF PutsStay
  <2>2. CASE Answer(p, m)
    BY <2>2 DEF Answer, PutsStay
  <2>3. CASE Forward(p, m) \/ Apply(p, m) \/ Accept(p, m) \/ Pass(p, m)
    <3>1. TakeEvent(p, m)
      BY <2>3 DEF Forward, Apply, Accept, Pass
    <3> QED
      BY <3>1, TakeEventSets DEF PutsStay, IsPut
  <2> QED
    BY <2>1, <2>2, <2>3
<1>5. PutsStay(DOMAIN flight, DOMAIN flight')
  <2>1. CASE Receive(p, m)
    <3>1. DOMAIN flight \ {<<p, m>>} \subseteq DOMAIN flight'
      BY <2>1, ReceiveSets
    <3> QED
      BY <3>1 DEF PutsStay, IsPut
  <2>2. CASE Answer(p, m)
    BY <2>2, AnswerSets DEF PutsStay
  <2>3. CASE Forward(p, m)
    BY <2>3, ForwardSets DEF PutsStay
  <2>4. CASE Apply(p, m) \/ Accept(p, m) \/ Pass(p, m)
    BY <2>4 DEF Apply, Accept, Pass, PutsStay
  <2> QED
    BY <2>1, <2>2, <2>3, <2>4
<1>6. ASSUME NEW q \in Peers PROVE Held(q, PutHash)' = Held(q, PutHash)
  <2>1. CASE Receive(p, m)
    <3>1. PICK o : Counted(p, m, o)
      BY <2>1, ReceiveSets
    <3>2. Hash(m) # PutHash /\ Hash(m) \in Hashes /\ PutHash \in Hashes
      BY MessageFields DEF Hash, PutHash, Hashes, Ops
    <3>3. \E r : rounds' = [rounds EXCEPT ![p][Hash(m)] = r]
      BY <3>1 DEF Counted
    <3>4. rounds'[q][PutHash] = rounds[q][PutHash]
      BY <3>2, <3>3 DEF TypeOK
    <3> QED
      BY <3>4 DEF Held
  <2>2. CASE ~Receive(p, m)
    BY <2>2 DEF Answer, Forward, Apply, Accept, Pass, Held
  <2> QED
    BY <2>1, <2>2
<1> QED
  BY <1>1, <1>2, <1>3, <1>4, <1>5, <1>6, FloodFrame

(* All steps. *)
LEMMA FloodStep ==
    ASSUME Inv, TraceInv, FloodInv, [Next]_vars
    PROVE  FloodInv'
<1>1. SUFFICES ASSUME NEW v \in Values, faults' = 0, OnlyPuts(v)'
               PROVE  \E F \in SUBSET Peers, R \in [Peers -> SUBSET Peers] : Flood(v, F, R)'
  BY DEF FloodInv, Flooding
<1>2. TypeOK
  BY DEF Inv
<1>3. faults = 0 /\ OnlyPuts(v)
  BY <1>1, <1>2, GrowingHistory DEF OnlyPuts, CallOf
<1>4. PICK F \in SUBSET Peers, R \in [Peers -> SUBSET Peers] : Flood(v, F, R)
  BY <1>3 DEF FloodInv, Flooding
<1>5. ASSUME NEW x \in Clients, Begin(x)
      PROVE  \E F2 \in SUBSET Peers, R2 \in [Peers -> SUBSET Peers] : Flood(v, F2, R2)'
  BY <1>2, <1>4, <1>5, FloodBegin
<1>6. ASSUME UNCHANGED <<peerVars, script, calls>> PROVE Flood(v, F, R)'
  <2>1. /\ Begun' = Begun /\ UNCHANGED <<store, script>>
        /\ PutsStay(DOMAIN events, DOMAIN events') /\ PutsStay(DOMAIN flight, DOMAIN flight')
        /\ \A q \in Peers : Held(q, PutHash)' = Held(q, PutHash)
    BY <1>6, SameCalls DEF peerVars, PutsStay, Held
  <2> QED
    BY <1>4, <2>1, FloodFrame
<1>7. ASSUME NEW x \in Clients, TakeData(x) \/ TakeError(x) \/ GiveUp(x)
      PROVE  Flood(v, F, R)'
  BY <1>6, <1>7 DEF TakeData, TakeError, GiveUp
<1>8. CASE UNCHANGED vars
  BY <1>6, <1>8 DEF vars, clientVars
<1>9. ASSUME NEW p \in Peers, NEW m \in Messages,
             \/ Receive(p, m) \/ Answer(p, m)
             \/ Forward(p, m) \/ Apply(p, m) \/ Accept(p, m) \/ Pass(p, m)
      PROVE  \E F2 \in SUBSET Peers, R2 \in [Peers -> SUBSET Peers] : Flood(v, F2, R2)'
  <2>1. CASE ~(m.kind = "REQUEST" /\ m.op = "PUT")
    BY <1>2, <1>3, <1>4, <1>9, <2>1, FloodOther
  <2>2. CASE m.kind = "REQUEST" /\ m.op = "PUT" /\ Receive(p, m)
    BY <1>2, <1>4, <2>2, FloodReceive DEF IsPut
  <2>3. CASE m.kind = "REQUEST" /\ m.op = "PUT" /\ (Forward(p, m) \/ Apply(p, m))
    <3>1. TakeEvent(p, m)
      BY <2>3 DEF Forward, Apply
    <3>2. <<p, m>> \in DOMAIN events
      BY <1>2, <3>1, TakeEventSets
    <3>3. <<p, m>>[2] = m /\ Traced(<<p, m>>[2])
      BY <3>2 DEF TraceInv
    <3>4. m.data = v
      BY <1>2, <1>3, <2>3, <3>3, PutData
    <3> QED
      BY <1>2, <1>4, <2>3, <3>4, FloodFire DEF IsPut
  <2>4. CASE m.kind = "REQUEST" /\ m.op = "PUT" /\ Answer(p, m)
    <3>1. PutsStay(DOMAIN flight, DOMAIN flight') /\ PutsStay(DOMAIN events, DOMAIN events')
      BY <1>2, <2>4, AnswerSets DEF PutsStay, Answer
    <3>2. UNCHANGED <<store, script, calls, rounds>>
      BY <2>4 DEF Answer, clientVars
    <3>3. \A q \in Peers : Held(q, PutHash)' = Held(q, PutHash)
      BY <3>2 DEF Held
    <3>4. Flood(v, F, R)'
      BY <1>4, <3>1, <3>2, <3>3, SameCalls, FloodFrame
    <3> QED
      BY <3>4
  <2>5. CASE m.kind = "REQUEST" /\ (Accept(p, m) \/ Pass(p, m))
    BY <2>5 DEF Accept, Pass
  <2> QED
    BY <1>9, <2>1, <2>2, <2>3, <2>4, <2>5
<1> QED
  BY <1>1, <1>2, <1>5, <1>7, <1>8, <1>9, <1>4, GrowingHistory, NextCases

LEMMA FloodInit == Init => FloodInv
<1> SUFFICES ASSUME Init, NEW v \in Values
             PROVE  \E F \in SUBSET Peers, R \in [Peers -> SUBSET Peers] : Flood(v, F, R)
  BY DEF FloodInv, Flooding
<1>1. PICK R \in [Peers -> SUBSET Peers] : \A q \in Peers : R[q] = {}
  <2>1. [q \in Peers |-> {}] \in [Peers -> SUBSET Peers]
    OBVIOUS
  <2> QED
    BY <2>1
<1>2. PICK F \in SUBSET Peers : F = {}
  OBVIOUS
<1>3. HomeHas(v, F) /\ HandedOn(F, R)
  BY <1>2 DEF HomeHas, HandedOn
<1>4. LeftOver(F, R)
  <2>1. \A q \in Peers : Held(q, PutHash) = 0
    BY DEF Init, Held, PutHash, Hashes, Ops
  <2>2. Cardinality({}) = 0
    BY FS_EmptySet
  <2> QED
    BY <1>1, <2>1, <2>2 DEF LeftOver
<1>5. Begun = {}
  <2>1. ASSUME NEW c \in Calls PROVE ~(c[2] <= calls[c[1]])
    <3>1. c[1] \in Clients /\ c[2] \in Nat \ {0}
      BY CallsStartAtOne
    <3>2. calls[c[1]] = 0
      BY <3>1 DEF Init
    <3> QED
      BY <3>1, <3>2
  <2> QED
    BY <2>1 DEF Begun
<1>6. SentOut(F)
  BY <1>5 DEF SentOut
<1> QED
  BY <1>3, <1>4, <1>6 DEF Flood

(***************************************************************************)
(* When all is quiet, a cluster whose peers have all fired a put has sent  *)
(* it to all peers of the next, of whom none can have as many left over in *)
(* its round: they have fired it too.  The hops lead home.                 *)
(***************************************************************************)
LEMMA FloodedHome ==
    ASSUME TypeOK, Settled, NEW v, NEW F \in SUBSET Peers, NEW R \in [Peers -> SUBSET Peers],
           Flood(v, F, R), NEW c \in Begun, CallOf(c).op = "PUT"
    PROVE  Vc(Home) \subseteq F
<1>1. DOMAIN flight = {} /\ DOMAIN events = {}
  BY BagOfNone DEF Settled
<1>2. \A q \in Peers : ~Queued(q) /\ ~Straight(q) /\ \A s : ~Coming(s, q)
  BY <1>1 DEF Queued, Straight, Coming
<1>3. PICK S \in SUBSET Clusters : S = {d \in Clusters : Vc(d) \subseteq F}
  OBVIOUS
<1>4. S # {}
  <2>1. CallOf(c).peer \in Peers
    BY BegunCalls
  <2>2. ClusterOf[CallOf(c).peer] \in Clusters
    BY <2>1, ClustersAssumption
  <2>3. Vc(ClusterOf[CallOf(c).peer]) \subseteq F
    BY <1>2 DEF Flood, SentOut, Vc
  <2> QED
    BY <1>3, <2>2, <2>3
<1>5. ASSUME NEW d \in S PROVE Hop[d][Home] \in S
  <2>1. d \in Clusters /\ Hop[d][Home] \in Clusters /\ Vc(d) \subseteq F
    BY <1>3, ClustersAssumption
  <2>2. CASE Hop[d][Home] = d
    BY <2>2
  <2>3. CASE Hop[d][Home] # d
    <3>1. ASSUME NEW q \in Vc(Hop[d][Home]), q \notin F PROVE FALSE
      <4>1. q \in Peers /\ ClusterOf[q] = Hop[d][Home]
        BY DEF Vc
      <4>2. Vc(d) \subseteq R[q]
        <5>1. ASSUME NEW s \in Vc(d) PROVE s \in R[q]
          <6>1. s \in F /\ ClusterOf[s] = d /\ ~AtHome(s)
            BY <2>1, <2>3 DEF Vc, AtHome
          <6> QED
            BY <1>2, <3>1, <4>1, <6>1 DEF Flood, HandedOn
        <5> QED
          BY <5>1
      <4>3. IsFiniteSet(R[q]) /\ Cardinality(R[q]) \in Nat
        BY <4>1, SizesAssumption, FS_Subset, FS_CardinalityType
      <4>4. Cardinality(Vc(d)) <= Cardinality(R[q]) /\ Cardinality(Vc(d)) \in Nat
        BY <4>2, <4>3, FS_Subset, FS_CardinalityType
      <4>5. Cardinality(Vc(d)) > SafteyValue
        BY <2>1, SizesAssumption DEF Vc
      <4>6. Cardinality(R[q]) <= Held(q, PutHash)
        BY <1>2, <3>1, <4>1 DEF Flood, LeftOver
      <4>7. Held(q, PutHash) \in 0..SafteyValue
        BY <4>1, SafteyAssumption DEF Held, TypeOK, PutHash, Hashes, Ops
      <4> QED
        BY <4>3, <4>4, <4>5, <4>6, <4>7, SafteyAssumption
    <3> QED
      BY <1>3, <2>1, <3>1
  <2> QED
    BY <2>2, <2>3
<1>6. Home \in S
  BY <1>4, <1>5, HopsAssumption
<1> QED
  BY <1>3, <1>6

LEMMA FloodImplies ==
    ASSUME TypeOK, FloodInv
    PROVE  Replicated
<1> SUFFICES ASSUME NEW v \in Values, NEW c \in Begun, CallOf(c).op = "PUT",
                    OnlyPuts(v), Calm, Settled, NEW p \in Peers, ClusterOf[p] = Home
             PROVE  store[p] = v
  BY DEF Replicated, OnlyPuts
<1>1. PICK F \in SUBSET Peers, R \in [Peers -> SUBSET Peers] : Flood(v, F, R)
  BY DEF FloodInv, Flooding, Calm
<1>2. p \in F
  BY <1>1, FloodedHome DEF Vc
<1>3. AtHome(p)
  BY ClustersAssumption DEF AtHome
<1> QED
  BY <1>1, <1>2, <1>3 DEF Flood, HomeHas

(***************************************************************************)
(* When one value only has been put and nothing deleted, and nothing is    *)
(* lost or late, all peers of the home cluster have it when all is quiet,  *)
(* however long the way, whoever put it and however often, and whatever    *)
(* was asked for meanwhile.                                                *)
(***************************************************************************)
THEOREM ReplicatedEverywhere == Spec => []Replicated
<1>1. Init => Inv /\ TraceInv /\ FloodInv
  BY InvInit, TraceInit, FloodInit
<1>2. Inv /\ TraceInv /\ FloodInv /\ [Next]_vars => (Inv /\ TraceInv /\ FloodInv)'
  BY InvStep, TraceStep, FloodStep
<1>3. Inv /\ FloodInv => Replicated
  BY FloodImplies DEF Inv
<1> QED
  BY <1>1, <1>2, <1>3, PTL DEF Spec
-----------------------------------------------------------------------------
(***************************************************************************)
(* The first call, when it is a put or a lookup at home.  Its request r is *)
(* all there is: no peer hands it on, and all answers are for the caller.  *)
(***************************************************************************)
Mine(r, m) ==
    /\ m.op = r.op
    /\ m.kind = "REQUEST" => m = r
    /\ m.kind = "RETURN" => m.target = r.sender

Alone(r) ==
    /\ \A e \in DOMAIN flight \cup DOMAIN events :
         ClusterOf[e[1]] = ClusterOf[r.sender] /\ Mine(r, e[2])
    /\ \A e \in DOMAIN serving :
         ClusterOf[e[1]] = ClusterOf[r.sender] /\ e[2].op = r.op
    /\ \A q \in Peers, k \in Hashes : rounds[q][k] # None => Mine(r, rounds[q][k][1])
    /\ \A q \in Peers, op \in Ops : reqs[q][op] \subseteq {r.sender}

(***************************************************************************)
(* How far each peer q of the cluster is: the request has not reached it;  *)
(* it has it to fire, and the store will do something new; it is about to  *)
(* answer; its answer is on the way; the caller has received it (R).       *)
(***************************************************************************)
Fresh(r, q) == r.op = "PUT" => store[q] # r.data

Waiting(r, q) == <<q, r>> \in DOMAIN flight /\ <<q, r>> \notin DOMAIN events /\ Fresh(r, q)

Asked(r, q) ==
    /\ r.sender \in reqs[q][r.op]
    /\ \/ <<q, r>> \in DOMAIN events /\ Fresh(r, q)
       \/ \E m \in Messages : <<q, m>> \in DOMAIN serving

Answered(r, q) ==
    \E m \in Messages : m.kind = "RETURN" /\ m.sender = q /\ <<r.sender, m>> \in DOMAIN flight

Under(r, R) ==
    \A q \in Vc(ClusterOf[r.sender]) : Waiting(r, q) \/ Asked(r, q) \/ Answered(r, q) \/ q \in R

(* The caller has an answer to fire, or has counted all that it has received. *)
Heard(r) == \E m \in Messages : m.kind = "RETURN" /\ <<r.sender, m>> \in DOMAIN events

Arrived(r, R) == Heard(r) \/ Cardinality(R) <= Held(r.sender, <<"RETURN", r.op>>)

Flow(r, R) == Alone(r) /\ Under(r, R) /\ Arrived(r, R)

(* The request of a call, and the calls this is about. *)
Asks(c) == NewRequest(CallOf(c).peer, CallOf(c).op, CallOf(c).data, CallOf(c).peer)

First(c) ==
    Begun = {c} /\ faults = 0 /\ CallOf(c).op \in {"PUT", "LOOKUP"} /\ AtHome(CallOf(c).peer)

FirstInv ==
    \A c \in Begun : First(c) =>
        /\ chan[c[1]] = c
        /\ \/ offers[c] # None
           \/ /\ waits[CallOf(c).peer][CallOf(c).op] = c
              /\ \E R \in SUBSET Peers : Flow(Asks(c), R)

(* Before any call there is nothing. *)
Quiet ==
    Begun = {} =>
        /\ DOMAIN flight = {} /\ DOMAIN events = {} /\ DOMAIN serving = {}
        /\ \A p \in Peers :
             /\ \A k \in Hashes : rounds[p][k] = None
             /\ \A op \in Ops : reqs[p][op] = {} /\ waits[p][op] = None
             /\ store[p] = Absent

LEMMA QuietStep ==
    ASSUME TypeOK, Quiet, [Next]_vars
    PROVE  Quiet'
<1> SUFFICES ASSUME Begun' = {} PROVE Quiet'
  BY DEF Quiet
<1>1. Begun = {}
  BY GrowingHistory
<1>2. ASSUME UNCHANGED <<peerVars, waits>> PROVE Quiet'
  BY <1>1, <1>2 DEF Quiet, peerVars
<1>3. ASSUME NEW x \in Clients, Begin(x) PROVE FALSE
  <2>1. \E c : Begun' = Begun \cup {c}
    BY <1>3, BeginCall
  <2> QED
    BY <2>1
<1>4. ASSUME NEW x \in Clients, TakeData(x) \/ TakeError(x) \/ GiveUp(x) PROVE Quiet'
  BY <1>2, <1>4 DEF TakeData, TakeError, GiveUp
<1>5. ASSUME NEW p \in Peers, NEW k \in Hashes, TimeOut(p, k) PROVE FALSE
  BY <1>1, <1>5 DEF Quiet, TimeOut
<1>6. ASSUME NEW p \in Peers, NEW m \in Messages,
             \/ Receive(p, m) \/ Answer(p, m)
             \/ Forward(p, m) \/ Apply(p, m) \/ Accept(p, m) \/ Pass(p, m)
      PROVE  FALSE
  <2>1. <<p, m>> \in DOMAIN flight \/ <<p, m>> \in DOMAIN events \/ <<p, m>> \in DOMAIN serving
    BY <1>6 DEF Receive, Answer, Forward, Apply, Accept, Pass, TakeEvent, BagIn, BagToSet
  <2> QED
    BY <1>1, <2>1 DEF Quiet
<1>7. UNCHANGED vars => Quiet'
  BY <1>2 DEF vars, clientVars
<1> QED
  BY <1>1, <1>3, <1>4, <1>5, <1>6, <1>7, NextCases DEF Quiet

(* The request, as far as it matters. *)
LEMMA AsksIs ==
    ASSUME TypeOK, NEW c \in Begun, CallOf(c).op \in {"PUT", "LOOKUP"}
    PROVE  /\ Asks(c) \in Messages
           /\ Asks(c).kind = "REQUEST" /\ Asks(c).op = CallOf(c).op
           /\ Asks(c).op \in {"PUT", "LOOKUP"}
           /\ Asks(c).data = CallOf(c).data
           /\ Asks(c).sender = CallOf(c).peer /\ Asks(c).origin = CallOf(c).peer
           /\ Asks(c).op = "PUT" => Asks(c).data # Absent
<1>1. /\ CallOf(c).peer \in Peers /\ CallOf(c).op \in Ops /\ CallOf(c).data \in Data
      /\ CallOf(c).op = "PUT" => CallOf(c).data \in Values
  BY BegunCalls
<1>2. Asks(c) \in Messages
  BY <1>1, RequestType DEF Asks
<1>3. /\ Asks(c).kind = "REQUEST" /\ Asks(c).op = CallOf(c).op
      /\ Asks(c).data = CallOf(c).data
      /\ Asks(c).sender = CallOf(c).peer /\ Asks(c).origin = CallOf(c).peer
  BY DEF Asks, NewRequest
<1> QED
  BY <1>1, <1>2, <1>3, ValuesAssumption

(* The request goes out. *)
LEMMA FlowBegin ==
    ASSUME TypeOK, Quiet, Begun = {}, NEW r \in Messages, r.kind = "REQUEST",
           r.op = "PUT" => r.data # Absent,
           DOMAIN flight' = DOMAIN flight \cup {<<q, r>> : q \in Vc(ClusterOf[r.sender])},
           UNCHANGED <<rounds, events, serving, reqs, store>>
    PROVE  Flow(r, {})'
<1>1. /\ DOMAIN flight = {} /\ DOMAIN events = {} /\ DOMAIN serving = {}
      /\ \A p \in Peers :
           /\ \A k \in Hashes : rounds[p][k] = None
           /\ \A op \in Ops : reqs[p][op] = {} /\ waits[p][op] = None
           /\ store[p] = Absent
  BY DEF Quiet
<1>2. Mine(r, r)
  BY DEF Mine
<1>3. Alone(r)'
  BY <1>1, <1>2 DEF Alone, Vc
<1>4. \A q \in Vc(ClusterOf[r.sender]) : Waiting(r, q)'
  BY <1>1 DEF Waiting, Fresh, Vc
<1>5. Cardinality({}) = 0 /\ Held(r.sender, <<"RETURN", r.op>>)' = 0
  <2>1. r.sender \in Peers /\ <<"RETURN", r.op>> \in Hashes
    BY MessageFields DEF Hashes
  <2> QED
    BY <1>1, <2>1, FS_EmptySet DEF Held
<1>6. Under(r, {})'
  BY <1>4 DEF Under
<1>7. Arrived(r, {})'
  BY <1>5 DEF Arrived
<1> QED
  BY <1>3, <1>6, <1>7 DEF Flow

(* What a peer receives. *)
LEMMA FlowReceive ==
    ASSUME TypeOK, TraceInv, NEW r \in Messages, r.kind = "REQUEST", r.sender = r.origin,
           NEW R \in SUBSET Peers, Flow(r, R),
           NEW p \in Peers, NEW m \in Messages, Receive(p, m)
    PROVE  \E R2 \in SUBSET Peers : Flow(r, R2)'
<1> DEFINE k == <<"RETURN", r.op>>
<1>1. /\ <<p, m>> \in DOMAIN flight
      /\ DOMAIN flight' \subseteq DOMAIN flight
      /\ DOMAIN flight \ {<<p, m>>} \subseteq DOMAIN flight'
      /\ DOMAIN events \subseteq DOMAIN events'
      /\ m.kind = "REQUEST" /\ m.sender = m.origin => <<p, m>> \in DOMAIN events'
      /\ \E o : Counted(p, m, o)
  BY ReceiveSets
<1>2. PICK o : Counted(p, m, o)
  BY <1>1
<1>3. UNCHANGED <<serving, store>>
  BY DEF Receive
<1>4. reqs' = IF m.kind = "REQUEST" THEN AddReq(p, m) ELSE reqs
  BY DEF Receive
<1>5. Hash(m) \in Hashes /\ k \in Hashes /\ r.sender \in Peers /\ m.sender \in Peers
  BY MessageFields DEF Hashes
<1>6. /\ ClusterOf[p] = ClusterOf[r.sender] /\ Mine(r, m)
      /\ \A e \in DOMAIN flight \cup DOMAIN events :
           ClusterOf[e[1]] = ClusterOf[r.sender] /\ Mine(r, e[2])
      /\ \A q \in Peers, h \in Hashes : rounds[q][h] # None => Mine(r, rounds[q][h][1])
      /\ \A q \in Peers, op \in Ops : reqs[q][op] \subseteq {r.sender}
  BY <1>1 DEF Flow, Alone
<1>7. Hash(o) = Hash(m) /\ Mine(r, o) /\ o \in Messages
  BY <1>2, <1>5, <1>6 DEF Counted, TraceInv
<1>8. o.kind = m.kind /\ o.op = m.op
  BY <1>7 DEF Hash
<1>9. m.kind = "REQUEST" => m = r /\ o = r
  BY <1>6, <1>7, <1>8 DEF Mine
<1>10. PICK R2 \in SUBSET Peers :
         R2 = IF m.kind = "RETURN" /\ p = r.sender THEN R \cup {m.sender} ELSE R
  BY <1>5
<1>11. \A q \in Peers, op \in Ops :
         reqs'[q][op] = IF m.kind = "REQUEST" /\ q = p /\ op = r.op
                        THEN reqs[q][op] \cup {r.sender} ELSE reqs[q][op]
  BY <1>4, <1>9 DEF AddReq, TypeOK
<1>12. Alone(r)'
  <2>1. \A e \in DOMAIN flight' \cup DOMAIN events' :
           ClusterOf[e[1]] = ClusterOf[r.sender] /\ Mine(r, e[2])
    <3>1. \A e \in DOMAIN flight' \cup DOMAIN events' :
             e \in DOMAIN flight \cup DOMAIN events \/ e = <<p, m>> \/ e = <<p, o>>
      BY <1>1, <1>2 DEF Counted
    <3> QED
      BY <1>6, <1>7, <3>1
  <2>2. ASSUME NEW q \in Peers, NEW h \in Hashes, rounds'[q][h] # None
        PROVE  Mine(r, rounds'[q][h][1])
    <3>1. CASE q = p /\ h = Hash(m)
      <4>1. rounds'[q][h][1] = o
        BY <1>2, <1>5, <2>2, <3>1 DEF Counted, TypeOK
      <4> QED
        BY <1>7, <4>1
    <3>2. CASE ~(q = p /\ h = Hash(m))
      <4>1. rounds'[q][h] = rounds[q][h]
        BY <1>2, <1>5, <3>2 DEF Counted, TypeOK
      <4> QED
        BY <1>6, <2>2, <4>1
    <3> QED
      BY <3>1, <3>2
  <2>3. ASSUME NEW q \in Peers, NEW op \in Ops PROVE reqs'[q][op] \subseteq {r.sender}
    <3>1. reqs[q][op] \subseteq {r.sender}
      BY <1>6
    <3>2. reqs'[q][op] \subseteq reqs[q][op] \cup {r.sender}
      BY <1>11
    <3> QED
      BY <3>1, <3>2
  <2> QED
    BY <1>3, <2>1, <2>2, <2>3 DEF Flow, Alone, Mine
<1>13. Under(r, R2)'
  <2> SUFFICES ASSUME NEW q \in Vc(ClusterOf[r.sender])
               PROVE  Waiting(r, q)' \/ Asked(r, q)' \/ Answered(r, q)' \/ q \in R2
    BY DEF Under, Vc
  <2>1. q \in Peers /\ r.op \in Ops
    BY MessageFields DEF Vc
  <2>2. CASE Waiting(r, q) /\ <<q, r>> = <<p, m>>
    BY <1>1, <1>3, <1>11, <2>1, <2>2 DEF Waiting, Asked, Fresh
  <2>3. CASE Waiting(r, q) /\ <<q, r>> # <<p, m>>
    <3>1. <<q, r>> \in DOMAIN flight' /\ Fresh(r, q)'
      BY <1>1, <1>3, <2>3 DEF Waiting, Fresh
    <3>2. <<q, r>> \notin DOMAIN events'
      BY <1>2, <1>8, <1>9, <2>3 DEF Waiting, Counted
    <3> QED
      BY <3>1, <3>2 DEF Waiting
  <2>4. CASE Asked(r, q)
    BY <1>1, <1>3, <1>11, <2>1, <2>4 DEF Asked, Fresh
  <2>5. CASE Answered(r, q)
    <3>1. PICK a \in Messages :
            a.kind = "RETURN" /\ a.sender = q /\ <<r.sender, a>> \in DOMAIN flight
      BY <2>5 DEF Answered
    <3>2. CASE <<r.sender, a>> = <<p, m>>
      BY <1>10, <3>1, <3>2
    <3>3. CASE <<r.sender, a>> # <<p, m>>
      BY <1>1, <3>1, <3>3 DEF Answered
    <3> QED
      BY <3>2, <3>3
  <2>6. CASE q \in R
    BY <1>10, <2>6
  <2> QED
    BY <2>2, <2>3, <2>4, <2>5, <2>6 DEF Flow, Under
<1>14. Arrived(r, R2)'
  <2>1. CASE Heard(r)
    BY <1>1, <2>1 DEF Heard, Arrived
  <2>2. CASE ~Heard(r) /\ ~(m.kind = "RETURN" /\ p = r.sender)
    <3>1. p # r.sender \/ Hash(m) # k
      BY <2>2 DEF Hash
    <3>2. \E s : rounds' = [rounds EXCEPT ![p][Hash(m)] = s]
      BY <1>2 DEF Counted
    <3>3. rounds'[r.sender][k] = rounds[r.sender][k]
      BY <1>5, <3>1, <3>2 DEF TypeOK
    <3>4. Held(r.sender, k)' = Held(r.sender, k)
      BY <3>3 DEF Held
    <3> QED
      BY <1>10, <2>2, <3>4 DEF Flow, Arrived
  <2>3. CASE ~Heard(r) /\ m.kind = "RETURN" /\ p = r.sender
    <3>1. Hash(m) = k /\ o.kind = "RETURN"
      BY <1>6, <1>8, <2>3 DEF Hash, Mine
    <3>2. CASE <<p, o>> \in DOMAIN events'
      BY <1>7, <2>3, <3>1, <3>2 DEF Heard, Arrived
    <3>3. CASE /\ Held(p, k) + 1 \in 1..SafteyValue
               /\ rounds' = [rounds EXCEPT ![p][k] = <<o, Held(p, k) + 1>>]
      <4>1. rounds'[p][k] = <<o, Held(p, k) + 1>>
        BY <1>5, <3>3 DEF TypeOK
      <4>2. Held(p, k)' = Held(p, k) + 1
        <5>1. rounds'[p][k] # None
          BY <1>7, <3>3, <4>1, NoneAssumption
        <5> QED
          BY <4>1, <5>1 DEF Held
      <4>3. IsFiniteSet(R) /\ Cardinality(R) \in Nat
        BY SizesAssumption, FS_Subset, FS_CardinalityType
      <4>4. Cardinality(R2) \in Nat /\ Cardinality(R2) <= Cardinality(R) + 1
        <5>1. R2 = R \cup {m.sender}
          BY <1>10, <2>3
        <5>2. \/ Cardinality(R \cup {m.sender}) = Cardinality(R)
              \/ Cardinality(R \cup {m.sender}) = Cardinality(R) + 1
          BY <4>3, FS_AddElement, Zenon
        <5>3. Cardinality(R2) \in Nat
          BY SizesAssumption, FS_Subset, FS_CardinalityType
        <5> QED
          BY <4>3, <5>1, <5>2, <5>3
      <4>5. Held(p, k) \in Nat
        BY <1>5, SafteyAssumption DEF Held, TypeOK
      <4>6. Cardinality(R) <= Held(p, k)
        BY <2>3 DEF Flow, Arrived
      <4> HIDE DEF k
      <4>7. Cardinality(R2) <= Held(p, k)'
        BY <4>2, <4>3, <4>4, <4>5, <4>6
      <4> QED
        BY <2>3, <4>7 DEF Arrived, k
    <3> QED
      BY <1>2, <3>1, <3>2, <3>3 DEF Counted
  <2> QED
    BY <2>1, <2>2, <2>3
<1> QED
  BY <1>12, <1>13, <1>14 DEF Flow

(* A request is fired by the store. *)
LEMMA FlowApply ==
    ASSUME TypeOK, NEW r \in Messages, r.op \in {"PUT", "LOOKUP"},
           NEW R \in SUBSET Peers, Flow(r, R),
           NEW p \in Peers, NEW m \in Messages, Apply(p, m)
    PROVE  Flow(r, R)'
<1>1. /\ <<p, m>> \in DOMAIN events
      /\ DOMAIN events' \subseteq DOMAIN events
      /\ DOMAIN events \ {<<p, m>>} \subseteq DOMAIN events'
  BY TakeEventSets DEF Apply
<1>2. <<p, m>>[1] = p /\ <<p, m>>[2] = m
  OBVIOUS
<1>3. ClusterOf[p] = ClusterOf[r.sender] /\ Mine(r, m)
  BY <1>1, <1>2 DEF Flow, Alone
<1>4. m.kind = "REQUEST" /\ m = r
  BY <1>3 DEF Apply, Mine
<1>5. UNCHANGED <<flight, rounds, reqs>>
  BY DEF Apply
<1>6. \A q \in Peers : q # p => store'[q] = store[q]
  BY DEF Apply, TypeOK
<1>7. /\ serving' = IF Tells(p, m) THEN serving (+) SetToBag({<<p, Reply(p, m)>>}) ELSE serving
      /\ Reply(p, m) \in Messages /\ Reply(p, m).op = m.op
  BY ReplyType DEF Apply, TypeOK, Reply, Messages
<1>8. /\ DOMAIN serving' =
           IF Tells(p, m) THEN DOMAIN serving \cup {<<p, Reply(p, m)>>} ELSE DOMAIN serving
  <2>1. PICK a : a = Reply(p, m)
    OBVIOUS
  <2> QED
    BY <1>7, <2>1, BagAndOne DEF TypeOK
<1>9. \A e \in DOMAIN serving' : e \in DOMAIN serving \/ e = <<p, Reply(p, m)>>
  BY <1>8
<1>10. Alone(r)'
  <2>1. ASSUME NEW e \in DOMAIN serving'
        PROVE  ClusterOf[e[1]] = ClusterOf[r.sender] /\ e[2].op = r.op
    <3>1. CASE e \in DOMAIN serving
      BY <3>1 DEF Flow, Alone
    <3>2. CASE e = <<p, Reply(p, m)>>
      <4>1. e[1] = p /\ e[2] = Reply(p, m)
        BY <3>2
      <4> QED
        BY <1>3, <1>4, <1>7, <4>1
    <3> QED
      BY <1>9, <3>1, <3>2
  <2> QED
    BY <1>1, <1>5, <2>1 DEF Flow, Alone
<1>11. Under(r, R)'
  <2> SUFFICES ASSUME NEW q \in Vc(ClusterOf[r.sender])
               PROVE  Waiting(r, q)' \/ Asked(r, q)' \/ Answered(r, q)' \/ q \in R
    BY DEF Under, Vc
  <2>1. q \in Peers
    BY DEF Vc
  <2>2. CASE Waiting(r, q)
    <3>1. q # p
      BY <1>1, <1>4, <2>2 DEF Waiting
    <3> QED
      BY <1>1, <1>5, <1>6, <2>1, <2>2, <3>1 DEF Waiting, Fresh
  <2>3. CASE Asked(r, q) /\ q = p /\ Fresh(r, q)
    <3>1. Tells(p, m)
      BY <1>4, <2>3 DEF Tells, Fresh
    <3> QED
      BY <1>5, <1>7, <1>8, <2>3, <3>1 DEF Asked
  <2>4. CASE Asked(r, q) /\ q # p
    BY <1>1, <1>5, <1>6, <1>8, <2>1, <2>4 DEF Asked, Fresh
  <2>5. CASE Asked(r, q) /\ ~Fresh(r, q)
    BY <1>5, <1>8, <2>5 DEF Asked
  <2>6. CASE Answered(r, q)
    BY <1>5, <2>6 DEF Answered
  <2> QED
    BY <2>2, <2>3, <2>4, <2>5, <2>6 DEF Flow, Under
<1>12. Arrived(r, R)'
  <2>1. Heard(r) => Heard(r)'
    BY <1>1, <1>4 DEF Heard
  <2>2. Held(r.sender, <<"RETURN", r.op>>)' = Held(r.sender, <<"RETURN", r.op>>)
    BY <1>5 DEF Held
  <2> QED
    BY <2>1, <2>2 DEF Flow, Arrived
<1> QED
  BY <1>10, <1>11, <1>12 DEF Flow

(* An answer that another peer of the cluster has counted goes no further. *)
LEMMA FlowPass ==
    ASSUME TypeOK, NEW r \in Messages, r.kind = "REQUEST",
           NEW R \in SUBSET Peers, Flow(r, R), waits[r.sender][r.op] # None,
           NEW p \in Peers, NEW m \in Messages, Pass(p, m)
    PROVE  Flow(r, R)'
<1>1. /\ <<p, m>> \in DOMAIN events
      /\ DOMAIN events' \subseteq DOMAIN events
      /\ DOMAIN events \ {<<p, m>>} \subseteq DOMAIN events'
  BY TakeEventSets DEF Pass
<1>2. <<p, m>>[1] = p /\ <<p, m>>[2] = m
  OBVIOUS
<1>3. ClusterOf[p] = ClusterOf[r.sender] /\ Mine(r, m)
  BY <1>1, <1>2 DEF Flow, Alone
<1>4. m.kind = "RETURN" /\ p # r.sender /\ m.op = r.op
  BY <1>3 DEF Pass, Mine, Awaited
<1>5. UNCHANGED <<flight, rounds, reqs, store>>
  BY DEF Pass
<1>6. DOMAIN serving \subseteq DOMAIN serving' /\ DOMAIN serving' \subseteq DOMAIN serving \cup {<<p, m>>}
  <2>1. serving' = IF Returned(p, m) THEN serving ELSE serving (+) SetToBag({<<p, m>>})
    BY DEF Pass
  <2>2. DOMAIN (serving (+) SetToBag({<<p, m>>})) = DOMAIN serving \cup {<<p, m>>}
    BY BagAndOne DEF TypeOK
  <2> QED
    BY <2>1, <2>2
<1>7. Alone(r)'
  <2>1. ASSUME NEW e \in DOMAIN serving'
        PROVE  ClusterOf[e[1]] = ClusterOf[r.sender] /\ e[2].op = r.op
    BY <1>3, <1>4, <1>6 DEF Flow, Alone
  <2> QED
    BY <1>1, <1>5, <2>1 DEF Flow, Alone
<1>8. Under(r, R)'
  <2> SUFFICES ASSUME NEW q \in Vc(ClusterOf[r.sender])
               PROVE  Waiting(r, q)' \/ Asked(r, q)' \/ Answered(r, q)' \/ q \in R
    BY DEF Under, Vc
  <2>1. <<q, r>> \in DOMAIN events <=> <<q, r>> \in DOMAIN events'
    BY <1>1, <1>4
  <2> QED
    BY <1>5, <1>6, <2>1 DEF Flow, Under, Waiting, Asked, Answered, Fresh
<1>9. Arrived(r, R)'
  <2>1. Heard(r) => Heard(r)'
    BY <1>1, <1>4 DEF Heard
  <2>2. Held(r.sender, <<"RETURN", r.op>>)' = Held(r.sender, <<"RETURN", r.op>>)
    BY <1>5 DEF Held
  <2> QED
    BY <2>1, <2>2 DEF Flow, Arrived
<1> QED
  BY <1>7, <1>8, <1>9 DEF Flow

(* A peer answers. *)
LEMMA FlowAnswer ==
    ASSUME TypeOK, NEW r \in Messages, r.op \in {"PUT", "LOOKUP"},
           NEW R \in SUBSET Peers, Flow(r, R),
           NEW p \in Peers, NEW m \in Messages, Answer(p, m)
    PROVE  Flow(r, R)'
<1> DEFINE a == NewReturn(p, m.op, m.data, r.sender)
<1>1. /\ <<p, m>> \in DOMAIN serving
      /\ DOMAIN serving' \subseteq DOMAIN serving
      /\ DOMAIN serving \ {<<p, m>>} \subseteq DOMAIN serving'
      /\ DOMAIN flight' = IF Silent(m) THEN DOMAIN flight
                          ELSE DOMAIN flight \cup DOMAIN Returns(p, m)
      /\ \A e \in DOMAIN Returns(p, m) :
           \E q \in reqs[p][m.op] :
              e[1] \in Vc(ClusterOf[q]) /\ e[2] = NewReturn(p, m.op, m.data, q)
      /\ \A q \in reqs[p][m.op] : \A s \in Vc(ClusterOf[q]) :
           <<s, NewReturn(p, m.op, m.data, q)>> \in DOMAIN Returns(p, m)
  BY AnswerSets
<1>2. <<p, m>>[1] = p /\ <<p, m>>[2] = m
  OBVIOUS
<1>3. ClusterOf[p] = ClusterOf[r.sender] /\ m.op = r.op
  BY <1>1, <1>2 DEF Flow, Alone
<1>4. DOMAIN flight' = DOMAIN flight \cup DOMAIN Returns(p, m)
  BY <1>1, <1>3 DEF Silent
<1>5. UNCHANGED <<events, rounds, store>> /\ reqs' = FlushReqs(p, m.op)
  BY DEF Answer
<1>6. m.op \in Ops /\ m.data \in Data /\ r.sender \in Peers
  BY MessageFields
<1>7. \A q \in Peers, op \in Ops :
        reqs'[q][op] = IF q = p /\ op = m.op THEN {} ELSE reqs[q][op]
  BY <1>5, <1>6 DEF FlushReqs, TypeOK
<1>8. /\ a \in Messages /\ a.kind = "RETURN" /\ a.sender = p /\ a.op = m.op
      /\ a.target = r.sender
  BY <1>6, ReturnType DEF NewReturn
<1>9. Mine(r, a)
  BY <1>3, <1>8 DEF Mine
<1>10. \A e \in DOMAIN Returns(p, m) : e[1] \in Vc(ClusterOf[r.sender]) /\ e[2] = a
  <2>1. reqs[p][m.op] \subseteq {r.sender}
    BY <1>6 DEF Flow, Alone
  <2> QED
    BY <1>1, <2>1
<1>11. r.sender \in reqs[p][r.op] => <<r.sender, a>> \in DOMAIN flight'
  BY <1>1, <1>3, <1>4, <1>6 DEF Vc
<1> HIDE DEF a
<1>12. Alone(r)'
  <2>1. ASSUME NEW e \in DOMAIN flight' \cup DOMAIN events'
        PROVE  ClusterOf[e[1]] = ClusterOf[r.sender] /\ Mine(r, e[2])
    <3>1. CASE e \in DOMAIN flight \cup DOMAIN events
      BY <3>1 DEF Flow, Alone
    <3>2. CASE e \in DOMAIN Returns(p, m)
      BY <1>9, <1>10, <3>2 DEF Vc
    <3> QED
      BY <1>4, <1>5, <3>1, <3>2
  <2>2. ASSUME NEW q \in Peers, NEW op \in Ops PROVE reqs'[q][op] \subseteq {r.sender}
    <3>1. reqs[q][op] \subseteq {r.sender}
      BY DEF Flow, Alone
    <3>2. reqs'[q][op] \subseteq reqs[q][op]
      BY <1>7
    <3> QED
      BY <3>1, <3>2
  <2> QED
    BY <1>1, <1>5, <2>1, <2>2 DEF Flow, Alone
<1>13. Under(r, R)'
  <2> SUFFICES ASSUME NEW q \in Vc(ClusterOf[r.sender])
               PROVE  Waiting(r, q)' \/ Asked(r, q)' \/ Answered(r, q)' \/ q \in R
    BY DEF Under, Vc
  <2>1. q \in Peers /\ r.op \in Ops
    BY <1>3, <1>6 DEF Vc
  <2>2. CASE Waiting(r, q)
    BY <1>4, <1>5, <2>2 DEF Waiting, Fresh
  <2>3. CASE Asked(r, q) /\ q = p
    BY <1>8, <1>11, <2>3 DEF Asked, Answered
  <2>4. CASE Asked(r, q) /\ q # p
    BY <1>1, <1>5, <1>7, <2>1, <2>4 DEF Asked, Fresh
  <2>5. CASE Answered(r, q)
    BY <1>4, <2>5 DEF Answered
  <2> QED
    BY <2>2, <2>3, <2>4, <2>5 DEF Flow, Under
<1>14. Arrived(r, R)'
  BY <1>5 DEF Flow, Arrived, Heard, Held
<1> QED
  BY <1>12, <1>13, <1>14 DEF Flow

(* No request leaves the cluster. *)
LEMMA FlowForward ==
    ASSUME TypeOK, NEW r \in Messages, NEW R \in SUBSET Peers, Flow(r, R), AtHome(r.sender),
           NEW p \in Peers, NEW m \in Messages, Forward(p, m)
    PROVE  FALSE
<1>1. <<p, m>> \in DOMAIN events /\ ~AtHome(p)
  BY TakeEventSets DEF Forward
<1>2. <<p, m>>[1] = p
  OBVIOUS
<1>3. ClusterOf[p] = ClusterOf[r.sender]
  BY <1>1, <1>2 DEF Flow, Alone
<1> QED
  BY <1>1, <1>3 DEF AtHome

(* The caller takes the answer. *)
LEMMA FlowAccept ==
    ASSUME TypeOK, NEW r \in Messages, NEW R \in SUBSET Peers, Flow(r, R),
           NEW c \in Calls, waits[r.sender][r.op] = c,
           NEW p \in Peers, NEW m \in Messages, Accept(p, m)
    PROVE  offers'[c] # None
<1>1. <<p, m>> \in DOMAIN events
  BY TakeEventSets DEF Accept
<1>2. <<p, m>>[2] = m
  OBVIOUS
<1>3. Mine(r, m)
  BY <1>1, <1>2 DEF Flow, Alone
<1>4. p = r.sender /\ m.op = r.op
  BY <1>3 DEF Accept, Awaited, Mine
<1>5. offers'[c] = m.data
  BY <1>4 DEF Accept, TypeOK
<1>6. m.data \in Values \cup {Absent}
  BY MessageFields DEF Data
<1> QED
  BY <1>5, <1>6, ValuesAssumption

LEMMA FirstInit == Init => FirstInv /\ Quiet
<1> SUFFICES ASSUME Init PROVE FirstInv /\ Quiet
  OBVIOUS
<1>1. Begun = {}
  <2>1. ASSUME NEW c \in Calls PROVE ~(c[2] <= calls[c[1]])
    <3>1. c[1] \in Clients /\ c[2] \in Nat \ {0}
      BY CallsStartAtOne
    <3>2. calls[c[1]] = 0
      BY <3>1 DEF Init
    <3> QED
      BY <3>1, <3>2
  <2> QED
    BY <2>1 DEF Begun
<1>2. Quiet
  BY BagOfNone DEF Init, Quiet
<1> QED
  BY <1>1, <1>2 DEF FirstInv

(* What the caller has got, it keeps. *)
LEMMA OffersStay ==
    ASSUME TypeOK, [Next]_vars, NEW c \in Calls, offers[c] # None
    PROVE  offers'[c] # None
<1>1. ASSUME NEW p \in Peers, NEW m \in Messages, Accept(p, m) PROVE offers'[c] # None
  <2>1. offers' = [offers EXCEPT ![waits[p][m.op]] = m.data]
    BY <1>1 DEF Accept
  <2>2. m.data \in Values \cup {Absent}
    BY MessageFields DEF Data
  <2> QED
    BY <2>1, <2>2, ValuesAssumption DEF TypeOK
<1>2. ASSUME UNCHANGED offers PROVE offers'[c] # None
  BY <1>2
<1>3. ASSUME NEW x \in Clients, Begin(x) \/ TakeData(x) \/ TakeError(x) \/ GiveUp(x)
      PROVE  offers'[c] # None
  BY <1>2, <1>3 DEF Begin, TakeData, TakeError, GiveUp
<1>4. ASSUME NEW e, Lose(e) PROVE offers'[c] # None
  BY <1>2, <1>4 DEF Lose, clientVars
<1>5. ASSUME NEW p, NEW k, TimeOut(p, k) PROVE offers'[c] # None
  BY <1>2, <1>5 DEF TimeOut, clientVars
<1>6. ASSUME NEW p \in Peers, NEW m \in Messages,
             Receive(p, m) \/ Answer(p, m) \/ Forward(p, m) \/ Apply(p, m) \/ Pass(p, m)
      PROVE  offers'[c] # None
  BY <1>2, <1>6 DEF Receive, Answer, Forward, Apply, Pass, clientVars
<1>7. UNCHANGED vars => offers'[c] # None
  BY <1>2 DEF vars, clientVars
<1> QED
  BY <1>1, <1>3, <1>4, <1>5, <1>6, <1>7, NextCases

(* The first call begins. *)
LEMMA FirstBegin ==
    ASSUME TypeOK, Quiet, NEW x \in Clients, Begin(x), NEW d \in Begun', First(d)'
    PROVE  /\ chan'[d[1]] = d /\ waits'[CallOf(d)'.peer][CallOf(d)'.op] = d
           /\ \E R \in SUBSET Peers : Flow(Asks(d), R)'
<1>1. PICK c \in Calls, p \in Peers, op \in Ops, data \in Data :
             /\ Begun' = Begun \cup {c} /\ c \notin Begun /\ c[1] = x
             /\ CallOf(c).peer = p /\ CallOf(c).op = op /\ CallOf(c).data = data
             /\ op = "PUT" => data # Absent
             /\ DOMAIN flight' =
                  DOMAIN flight \cup {<<q, NewRequest(p, op, data, p)>> : q \in Vc(ClusterOf[p])}
             /\ waits' = [waits EXCEPT ![p][op] = AddWait(p, op, c)]
             /\ chan' = [chan EXCEPT ![x] = AddWait(p, op, c)]
             /\ UNCHANGED <<rounds, events, serving, reqs, store, offers, script, faults>>
  BY BeginSets
<1>2. Begun = {} /\ c = d
  BY <1>1 DEF First
<1>3. waits[p][op] = None
  BY <1>2 DEF Quiet
<1>4. chan'[d[1]] = d /\ waits'[p][op] = d
  BY <1>1, <1>2, <1>3 DEF AddWait, TypeOK
<1>5. CallOf(d)' = CallOf(d)
  BY <1>1 DEF CallOf
<1>6. PICK r : r = NewRequest(p, op, data, p)
  OBVIOUS
<1>7. r \in Messages
  BY <1>6, RequestType
<1>8. r.kind = "REQUEST" /\ r.sender = p /\ r.op = op /\ r.data = data
  BY <1>6 DEF NewRequest
<1>9. Flow(r, {})'
  BY <1>1, <1>2, <1>6, <1>7, <1>8, FlowBegin
<1>10. Asks(d)' = r
  BY <1>1, <1>2, <1>5, <1>6 DEF Asks
<1> QED
  BY <1>1, <1>2, <1>4, <1>5, <1>9, <1>10

(* All steps, from when it has begun. *)
LEMMA FirstStep ==
    ASSUME Inv, TraceInv, Quiet, FirstInv, [Next]_vars
    PROVE  FirstInv'
<1>1. TypeOK
  BY DEF Inv
<1>2. SUFFICES ASSUME NEW c \in Begun', First(c)'
               PROVE  /\ chan'[c[1]] = c
                      /\ \/ offers'[c] # None
                         \/ /\ waits'[CallOf(c)'.peer][CallOf(c)'.op] = c
                            /\ \E R \in SUBSET Peers : Flow(Asks(c), R)'
  BY DEF FirstInv
<1>3. ASSUME NEW x \in Clients, Begin(x)
      PROVE  /\ chan'[c[1]] = c /\ waits'[CallOf(c)'.peer][CallOf(c)'.op] = c
             /\ \E R \in SUBSET Peers : Flow(Asks(c), R)'
  BY <1>1, <1>2, <1>3, FirstBegin
<1>4. CASE \A x \in Clients : ~Begin(x)
  <2>1. UNCHANGED <<script, calls, chan>>
    <3>1. ASSUME NEW x \in Clients, TakeData(x) \/ TakeError(x) \/ GiveUp(x)
          PROVE  UNCHANGED <<script, calls, chan>>
      BY <3>1 DEF TakeData, TakeError, GiveUp
    <3>2. ASSUME NEW e, Lose(e) PROVE UNCHANGED <<script, calls, chan>>
      BY <3>2 DEF Lose, clientVars
    <3>3. ASSUME NEW p, NEW k, TimeOut(p, k) PROVE UNCHANGED <<script, calls, chan>>
      BY <3>3 DEF TimeOut, clientVars
    <3>4. ASSUME NEW p, NEW m,
                 \/ Receive(p, m) \/ Answer(p, m)
                 \/ Forward(p, m) \/ Apply(p, m) \/ Accept(p, m) \/ Pass(p, m)
          PROVE  UNCHANGED <<script, calls, chan>>
      BY <3>4 DEF Receive, Answer, Forward, Apply, Accept, Pass, clientVars
    <3>5. UNCHANGED vars => UNCHANGED <<script, calls, chan>>
      BY DEF vars, clientVars
    <3> QED
      BY <1>1, <1>4, <3>1, <3>2, <3>3, <3>4, <3>5, NextCases
  <2>2. Begun' = Begun /\ CallOf(c)' = CallOf(c)
    BY <2>1, SameCalls
  <2>3. First(c) /\ c \in Begun /\ c \in Calls
    BY <1>1, <1>2, <2>2, GrowingHistory DEF First, AtHome, Begun
  <2>4. PICK r : r = Asks(c)
    OBVIOUS
  <2>5. Asks(c)' = r
    BY <2>2, <2>4 DEF Asks
  <2>6. /\ r \in Messages
        /\ r.kind = "REQUEST" /\ r.op = CallOf(c).op /\ r.op \in {"PUT", "LOOKUP"}
        /\ r.sender = CallOf(c).peer /\ r.origin = CallOf(c).peer
    BY <1>1, <2>3, <2>4, AsksIs DEF First
  <2>7. chan'[c[1]] = c
    BY <2>1, <2>3 DEF FirstInv
  <2>8. CASE offers[c] # None
    BY <1>1, <2>3, <2>7, <2>8, OffersStay
  <2>9. CASE offers[c] = None
    <3>1. PICK R \in SUBSET Peers : Flow(r, R)
      BY <2>3, <2>4, <2>9 DEF FirstInv
    <3>2. waits[r.sender][r.op] = c /\ c # None /\ r.sender \in Peers /\ r.op \in Ops
      BY <2>3, <2>6, <2>9, MessageFields, NoneAssumption DEF FirstInv
    <3>3. AtHome(r.sender)
      BY <2>3, <2>6 DEF First
    <3>4. faults' = 0
      BY <1>2 DEF First
    <3> SUFFICES \/ offers'[c] # None
                 \/ waits'[r.sender][r.op] = c /\ \E R2 \in SUBSET Peers : Flow(r, R2)'
      BY <2>2, <2>5, <2>6, <2>7
    <3>5. ASSUME UNCHANGED <<peerVars, waits>> PROVE waits'[r.sender][r.op] = c /\ Flow(r, R)'
      BY <3>1, <3>2, <3>5
         DEF peerVars, Flow, Alone, Under, Arrived, Waiting, Asked, Answered, Fresh, Heard, Held
    <3>6. ASSUME NEW x \in Clients, TakeData(x) \/ TakeError(x) \/ GiveUp(x)
          PROVE  waits'[r.sender][r.op] = c /\ Flow(r, R)'
      BY <3>5, <3>6 DEF TakeData, TakeError, GiveUp
    <3>7. UNCHANGED vars => waits'[r.sender][r.op] = c /\ Flow(r, R)'
      BY <3>5 DEF vars, clientVars
    <3>8. ASSUME NEW p \in Peers, NEW m \in Messages, Receive(p, m)
          PROVE  waits'[r.sender][r.op] = c /\ \E R2 \in SUBSET Peers : Flow(r, R2)'
      <4>1. \E R2 \in SUBSET Peers : Flow(r, R2)'
        BY <1>1, <2>6, <3>1, <3>8, FlowReceive
      <4> QED
        BY <3>2, <3>8, <4>1 DEF Receive, clientVars
    <3>9. ASSUME NEW p \in Peers, NEW m \in Messages, Apply(p, m) \/ Answer(p, m) \/ Pass(p, m)
          PROVE  waits'[r.sender][r.op] = c /\ Flow(r, R)'
      <4>1. Flow(r, R)'
        BY <1>1, <2>6, <3>1, <3>2, <3>9, FlowApply, FlowAnswer, FlowPass
      <4> QED
        BY <3>2, <3>9, <4>1 DEF Apply, Answer, Pass, clientVars
    <3>10. ASSUME NEW p \in Peers, NEW m \in Messages, Accept(p, m) PROVE offers'[c] # None
      BY <1>1, <2>3, <2>6, <3>1, <3>2, <3>10, FlowAccept
    <3>11. ASSUME NEW p \in Peers, NEW m \in Messages, Forward(p, m) PROVE FALSE
      BY <1>1, <2>6, <3>1, <3>3, <3>11, FlowForward
    <3> QED
      BY <1>1, <1>4, <3>4, <3>6, <3>7, <3>8, <3>9, <3>10, <3>11, NextCases, GrowingHistory
  <2> QED
    BY <2>8, <2>9
<1> QED
  BY <1>3, <1>4

(***************************************************************************)
(* When all is quiet, the caller has received an answer from each peer of  *)
(* its cluster, and these are more than can be left over in its round.     *)
(***************************************************************************)
LEMMA FlowEnds ==
    ASSUME TypeOK, Settled, NEW r \in Messages, NEW R \in SUBSET Peers, Flow(r, R)
    PROVE  FALSE
<1> DEFINE k == <<"RETURN", r.op>>
<1>1. DOMAIN flight = {} /\ DOMAIN events = {} /\ DOMAIN serving = {}
  BY BagOfNone DEF Settled
<1>2. Vc(ClusterOf[r.sender]) \subseteq R
  BY <1>1 DEF Flow, Under, Waiting, Asked, Answered
<1>3. r.sender \in Peers /\ k \in Hashes
  BY MessageFields DEF Hashes
<1>4. Cardinality(R) <= Held(r.sender, k)
  BY <1>1 DEF Flow, Arrived, Heard
<1>5. IsFiniteSet(R) /\ Cardinality(R) \in Nat
  BY SizesAssumption, FS_Subset, FS_CardinalityType
<1>6. /\ Cardinality(Vc(ClusterOf[r.sender])) <= Cardinality(R)
      /\ Cardinality(Vc(ClusterOf[r.sender])) \in Nat
  BY <1>2, <1>5, FS_Subset, FS_CardinalityType
<1>7. Cardinality(Vc(ClusterOf[r.sender])) > SafteyValue
  <2>1. ClusterOf[r.sender] \in Clusters
    BY <1>3, ClustersAssumption
  <2> QED
    BY <2>1, SizesAssumption DEF Vc
<1>8. Held(r.sender, k) \in 0..SafteyValue
  BY <1>3, SafteyAssumption DEF Held, TypeOK
<1> HIDE DEF k
<1> QED
  BY <1>4, <1>5, <1>6, <1>7, <1>8, SafteyAssumption

(***************************************************************************)
(* The first call, when it is a put or a lookup at the home of the key,    *)
(* is answered when nothing is lost and nothing is late.                   *)
(***************************************************************************)
THEOREM FirstCall == Spec => []FirstCallAnswered
<1>1. Init => Inv /\ TraceInv /\ Quiet /\ FirstInv
  BY InvInit, TraceInit, FirstInit
<1>2. Inv /\ TraceInv /\ Quiet /\ FirstInv /\ [Next]_vars
          => (Inv /\ TraceInv /\ Quiet /\ FirstInv)'
  BY InvStep, TraceStep, QuietStep, FirstStep DEF Inv
<1>3. Inv /\ FirstInv => FirstCallAnswered
  <2> SUFFICES ASSUME Inv, FirstInv, NEW c \in Begun,
                      CallOf(c).op \in {"PUT", "LOOKUP"}, AtHome(CallOf(c).peer),
                      Begun = {c}, Calm, Settled
               PROVE  offers[chan[c[1]]] # None
    BY DEF FirstCallAnswered, AnsweredFirst
  <2>1. TypeOK /\ First(c)
    BY DEF Inv, First, Calm
  <2>2. Asks(c) \in Messages
    BY <2>1, AsksIs
  <2>3. ~\E R \in SUBSET Peers : Flow(Asks(c), R)
    BY <2>1, <2>2, FlowEnds
  <2> QED
    BY <2>1, <2>3 DEF FirstInv
<1> QED
  BY <1>1, <1>2, <1>3, PTL DEF Spec
=============================================================================
