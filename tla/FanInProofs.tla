----------------------------- MODULE FanInProofs -----------------------------
(***************************************************************************)
(* The safety properties of FanIn, for any messages, workers, quorum size  *)
(* and queue size.  They all follow from one inductive invariant, Inv:     *)
(* TypeCorrect and one lemma per part say that each step keeps it.         *)
(***************************************************************************)
EXTENDS FanIn, FiniteSetTheorems, TLAPS

(* A received message is pushed or registered first. *)
LEMMA FirstStepType == \A m : FirstStep(m) \subseteq {"push", "register"}
BY DEF FirstStep

(* Every message has its hash. *)
LEMMA HashType == \A m \in Messages : Hash(m) \in Hashes
BY DEF Hashes

(* The initial values have their types. *)
LEMMA TypeInit == Init => TypeOK
BY BoundsAssumption DEF Init, TypeOK

(* Every step keeps the variables in their types. *)
LEMMA TypeStep == Inv /\ [Next]_vars => TypeOK'
<1> SUFFICES ASSUME Inv, [Next]_vars PROVE TypeOK'
  OBVIOUS
<1> USE BoundsAssumption DEF Inv, TypeOK
<1>1. ASSUME NEW m \in Messages, Lose(m) PROVE TypeOK'
  BY <1>1 DEF Lose, registryVars, handlerVars, historyVars
<1>2. ASSUME NEW w \in Workers, Receive(w) PROVE TypeOK'
  BY <1>2, FirstStepType DEF Receive, registryVars, handlerVars, historyVars
<1>3. ASSUME NEW w \in Workers, PushDirect(w) PROVE TypeOK'
  <2>1. cur[w] \in Messages
    BY <1>3 DEF PushDirect, WorkersInv
  <2>2. eventq' \in Seq([msg : Messages, quorum : BOOLEAN])
    BY <1>3, <2>1 DEF PushDirect
  <2> QED
    BY <1>3, <2>2 DEF PushDirect, Idle, registryVars, handlerVars, historyVars
<1>4. ASSUME NEW w \in Workers, Register(w) PROVE TypeOK'
  <2>1. cur[w] \in Messages /\ Hash(cur[w]) \in Hashes
    BY <1>4, HashType DEF Register, WorkersInv
  <2>2. handlers' \in [Hashes -> Messages \cup {None}] /\ wg' \in [Messages -> Int]
    <3>1. CASE UNCHANGED <<handlers, wg>>
      BY <3>1
    <3>2. CASE /\ handlers' = [handlers EXCEPT ![Hash(cur[w])] = cur[w]]
               /\ wg' = [wg EXCEPT ![cur[w]] = 1]
      BY <2>1, <3>2
    <3> QED
      BY <1>4, <3>1, <3>2 DEF Register
  <2>3. born' \subseteq Messages /\ timer' \subseteq Messages /\ heard' \subseteq Messages
    BY <1>4, <2>1 DEF Register
  <2>4. pc' \in [Workers -> {"idle", "push", "register", "check", "trigger", "exec"}]
    BY <1>4 DEF Register
  <2>5. UNCHANGED <<flight, cur, mutex, sema, done, quit, fire, cleaning, eventq,
                    counted, emitted>>
    BY <1>4 DEF Register, historyVars
  <2> QED
    BY <2>2, <2>3, <2>4, <2>5
<1>5. ASSUME NEW w \in Workers, Check(w) PROVE TypeOK'
  BY <1>5 DEF Check, Idle, handlerVars, historyVars
<1>6. ASSUME NEW w \in Workers, Trigger(w) PROVE TypeOK'
  <2>1. cur[w] \in Messages /\ Hash(cur[w]) \in Hashes
    BY <1>6, HashType, ZenonT(60) DEF Trigger, Full, Decided, WorkersInv
  <2>2. handlers[Hash(cur[w])] \in Messages
    BY <1>6, <2>1 DEF Trigger, Full, Decided, MutexInv
  <2> DEFINE h == handlers[Hash(cur[w])]
  <2>3. sema' \in [Messages -> 0..SafteyValue]
    <3>1. CASE UNCHANGED sema
      BY <3>1
    <3>2. CASE sema[h] < SafteyValue /\ sema' = [sema EXCEPT ![h] = @ + 1]
      BY <3>2, <2>2
    <3> QED
      BY <1>6, <3>1, <3>2 DEF Trigger, Full, Decided
  <2>4. /\ fire' \in [Messages -> {"none", "ready", "acting", "over"}]
        /\ done' \subseteq Messages
        /\ cleaning' \subseteq Messages
    BY <1>6, <2>2, ZenonT(60) DEF Trigger, Full, Decided
  <2>5. counted' \in [Messages -> SUBSET Messages]
    <3>1. CASE UNCHANGED counted
      BY <3>1
    <3>2. CASE counted' = [counted EXCEPT ![h] = @ \cup {cur[w]}]
      BY <2>1, <2>2, <3>2
    <3> QED
      BY <1>6, <3>1, <3>2 DEF Trigger, Full, Decided
  <2>6. /\ pc' \in [Workers -> {"idle", "push", "register", "check", "trigger", "exec"}]
        /\ cur' \in [Workers -> Messages \cup {None}]
        /\ mutex' \in Workers \cup {None}
    BY <1>6 DEF Trigger, Full, Decided, Idle
  <2>7. UNCHANGED <<flight, handlers, born, quit, timer, wg, eventq, emitted, heard>>
    BY <1>6 DEF Trigger, Full, Decided
  <2> QED
    BY <2>3, <2>4, <2>5, <2>6, <2>7
<1>7. ASSUME NEW w \in Workers, TakeEvent(w) PROVE TypeOK'
  BY <1>7 DEF TakeEvent, registryVars, handlerVars, historyVars
<1>8. ASSUME NEW w \in Workers, EndEvent(w) PROVE TypeOK'
  BY <1>8 DEF EndEvent, registryVars, handlerVars, historyVars
<1>9. ASSUME NEW h \in Messages, StartAct(h) PROVE TypeOK'
  BY <1>9 DEF StartAct, registryVars, historyVars
<1>10. ASSUME NEW h \in Messages, Act(h) PROVE TypeOK'
  <2>1. eventq' \in Seq([msg : Messages, quorum : BOOLEAN])
    <3>1. CASE UNCHANGED eventq
      BY <3>1
    <3>2. CASE eventq' = Append(eventq, [msg |-> h, quorum |-> TRUE])
      BY <3>2
    <3> QED
      BY <1>10, <3>1, <3>2 DEF Act, Release
  <2>2. wg' \in [Messages -> Int]
    BY <1>10 DEF Act, Release
  <2>3. /\ fire' \in [Messages -> {"none", "ready", "acting", "over"}]
        /\ emitted' \subseteq Messages
    BY <1>10 DEF Act, Release
  <2>4. UNCHANGED <<flight, pc, cur, handlers, mutex, born, sema, done, quit, timer,
                    cleaning, counted, heard>>
    BY <1>10 DEF Act, Release, registryVars
  <2> QED
    BY <2>1, <2>2, <2>3, <2>4
<1>11. ASSUME NEW h \in Messages, TimeOut(h) PROVE TypeOK'
  BY <1>11 DEF TimeOut, Release, registryVars, historyVars
<1>12. ASSUME NEW h \in Messages, CleanUp(h) PROVE TypeOK'
  BY <1>12, HashType DEF CleanUp, historyVars
<1>13. CASE UNCHANGED vars
  BY <1>13 DEF vars, registryVars, handlerVars, historyVars
<1> QED
  BY <1>1, <1>2, <1>3, <1>4, <1>5, <1>6, <1>7, <1>8, <1>9, <1>10, <1>11, <1>12, <1>13
     DEF Next, Serve, Handler
-----------------------------------------------------------------------------
(* What the goroutines of the handlers leave alone. *)
LEMMA HandlerFrame ==
    ASSUME NEW h \in Messages, Handler(h)
    PROVE  UNCHANGED <<flight, pc, cur, mutex, born, sema, done, counted, heard>> /\ quit \subseteq quit'
BY DEF Handler, StartAct, Act, TimeOut, Release, CleanUp, registryVars, historyVars

(* Where the messages are. *)
LEMMA WorkersStep == Inv /\ [Next]_vars => WorkersInv'
<1> SUFFICES ASSUME Inv, [Next]_vars PROVE WorkersInv'
  OBVIOUS
<1> USE MessagesAssumption DEF Inv, TypeOK, WorkersInv
<1>1. ASSUME NEW m \in Messages, Lose(m) PROVE WorkersInv'
  BY <1>1 DEF Lose
<1>2. ASSUME NEW w \in Workers, Receive(w) PROVE WorkersInv'
  <2>1. PICK m \in flight :
          /\ flight' = flight \ {m}
          /\ cur' = [cur EXCEPT ![w] = m]
          /\ \E step \in FirstStep(m) : pc' = [pc EXCEPT ![w] = step]
    BY <1>2 DEF Receive
  <2>2. PICK step \in {"push", "register"} : pc' = [pc EXCEPT ![w] = step]
    BY <2>1, FirstStepType
  <2>3. m \in Messages /\ m # None
    BY <2>1
  <2>4. \A v \in Workers : cur[v] # m
    BY <2>1
  <2> QED
    BY <2>1, <2>2, <2>3, <2>4
<1>3. ASSUME NEW w \in Workers, PushDirect(w) PROVE WorkersInv'
  <2>1. UNCHANGED flight
    BY <1>3 DEF PushDirect
  <2>2. CASE pc' = [pc EXCEPT ![w] = "idle"] /\ cur' = [cur EXCEPT ![w] = None]
    BY <2>1, <2>2
  <2>3. CASE pc' = [pc EXCEPT ![w] = "register"] /\ UNCHANGED cur
    BY <1>3, <2>1, <2>3 DEF PushDirect
  <2> QED
    BY <1>3, <2>2, <2>3 DEF PushDirect, Idle
<1>4. ASSUME NEW w \in Workers, Register(w) PROVE WorkersInv'
  BY <1>4 DEF Register
<1>5. ASSUME NEW w \in Workers, Check(w) PROVE WorkersInv'
  <2>1. UNCHANGED flight
    BY <1>5 DEF Check
  <2>2. CASE pc' = [pc EXCEPT ![w] = "idle"] /\ cur' = [cur EXCEPT ![w] = None]
    BY <2>1, <2>2
  <2>3. CASE pc' = [pc EXCEPT ![w] = "trigger"] /\ UNCHANGED cur
    BY <1>5, <2>1, <2>3 DEF Check
  <2> QED
    BY <1>5, <2>2, <2>3 DEF Check, Idle
<1>6. ASSUME NEW w \in Workers, Trigger(w) PROVE WorkersInv'
  <2>1. /\ pc' = [pc EXCEPT ![w] = "idle"]
        /\ cur' = [cur EXCEPT ![w] = None]
        /\ flight' = flight
    BY <1>6 DEF Trigger, Full, Decided, Idle
  <2> QED
    BY <2>1
<1>7. ASSUME NEW w \in Workers, TakeEvent(w) PROVE WorkersInv'
  BY <1>7 DEF TakeEvent
<1>8. ASSUME NEW w \in Workers, EndEvent(w) PROVE WorkersInv'
  BY <1>8 DEF EndEvent
<1>9. ASSUME NEW h \in Messages, Handler(h) PROVE WorkersInv'
  BY <1>9, HandlerFrame
<1>10. CASE UNCHANGED vars
  BY <1>10 DEF vars
<1> QED
  BY <1>1, <1>2, <1>3, <1>4, <1>5, <1>6, <1>7, <1>8, <1>9, <1>10 DEF Next, Serve

(* A message creates a handler, and counts, once. *)
LEMMA FreshStep == Inv /\ [Next]_vars => FreshInv'
<1> SUFFICES ASSUME Inv, [Next]_vars PROVE FreshInv'
  OBVIOUS
<1> USE MessagesAssumption DEF Inv, TypeOK, FreshInv
<1>1. ASSUME NEW m \in Messages, Lose(m) PROVE FreshInv'
  BY <1>1 DEF Lose, historyVars
<1>2. ASSUME NEW w \in Workers, Receive(w) PROVE FreshInv'
  <2>1. PICK m \in flight :
          /\ flight' = flight \ {m}
          /\ cur' = [cur EXCEPT ![w] = m]
          /\ \E step \in FirstStep(m) : pc' = [pc EXCEPT ![w] = step]
    BY <1>2 DEF Receive
  <2>2. UNCHANGED <<born, counted>>
    BY <1>2 DEF Receive, historyVars
  <2> QED
    BY <2>1, <2>2
<1>3. ASSUME NEW w \in Workers, PushDirect(w) PROVE FreshInv'
  <2>1. UNCHANGED <<flight, born, counted>>
    BY <1>3 DEF PushDirect, historyVars
  <2>2. CASE pc' = [pc EXCEPT ![w] = "idle"] /\ cur' = [cur EXCEPT ![w] = None]
    BY <2>1, <2>2
  <2>3. CASE pc' = [pc EXCEPT ![w] = "register"] /\ UNCHANGED cur
    BY <1>3, <2>1, <2>3 DEF PushDirect
  <2> QED
    BY <1>3, <2>2, <2>3 DEF PushDirect, Idle
<1>4. ASSUME NEW w \in Workers, Register(w) PROVE FreshInv'
  <2>1. born' \subseteq born \cup {cur[w]}
    BY <1>4 DEF Register
  <2>2. pc' = [pc EXCEPT ![w] = "check"] /\ UNCHANGED <<flight, cur, counted>>
    BY <1>4 DEF Register, historyVars
  <2>3. pc[w] = "register" /\ cur[w] # None /\ cur[w] \notin flight
    BY <1>4 DEF Register, WorkersInv
  <2>4. \A v \in Workers : pc'[v] \in {"push", "register"} => cur[v] # cur[w]
    BY <2>2, <2>3 DEF WorkersInv
  <2> QED
    BY <2>1, <2>2, <2>3, <2>4
<1>5. ASSUME NEW w \in Workers, Check(w) PROVE FreshInv'
  <2>1. UNCHANGED <<flight, born, counted>>
    BY <1>5 DEF Check, historyVars
  <2>2. CASE pc' = [pc EXCEPT ![w] = "idle"] /\ cur' = [cur EXCEPT ![w] = None]
    BY <2>1, <2>2
  <2>3. CASE pc' = [pc EXCEPT ![w] = "trigger"] /\ UNCHANGED cur
    BY <1>5, <2>1, <2>3 DEF Check
  <2> QED
    BY <1>5, <2>2, <2>3 DEF Check, Idle
<1>6. ASSUME NEW w \in Workers, Trigger(w) PROVE FreshInv'
  <2> DEFINE h == handlers[Hash(cur[w])]
  <2>1. /\ pc' = [pc EXCEPT ![w] = "idle"]
        /\ cur' = [cur EXCEPT ![w] = None]
        /\ UNCHANGED <<flight, born>>
    BY <1>6 DEF Trigger, Full, Decided, Idle
  <2>2. counted' = counted \/ counted' = [counted EXCEPT ![h] = @ \cup {cur[w]}]
    BY <1>6 DEF Trigger, Full, Decided
  <2>3. \A g \in Messages : counted'[g] \subseteq counted[g] \cup {cur[w]}
    <3>1. CASE counted' = counted
      BY <3>1
    <3>2. CASE counted' = [counted EXCEPT ![h] = @ \cup {cur[w]}]
      BY <3>2
    <3> QED
      BY <2>2, <3>1, <3>2
  <2>4. cur[w] \in Messages /\ cur[w] # None /\ cur[w] \notin flight
    BY <1>6 DEF Trigger, Full, Decided, WorkersInv
  <2>5. \A v \in Workers : cur'[v] # cur[w]
    BY <2>1, <2>4 DEF WorkersInv
  <2>6. \A g \in Messages : \A m \in counted'[g] :
          m \notin flight' /\ \A v \in Workers : cur'[v] # m
    BY <2>1, <2>3, <2>4, <2>5
  <2> QED
    BY <2>1, <2>6
<1>7. ASSUME NEW w \in Workers, TakeEvent(w) PROVE FreshInv'
  BY <1>7 DEF TakeEvent, historyVars
<1>8. ASSUME NEW w \in Workers, EndEvent(w) PROVE FreshInv'
  BY <1>8 DEF EndEvent, historyVars
<1>9. ASSUME NEW h \in Messages, Handler(h) PROVE FreshInv'
  BY <1>9, HandlerFrame
<1>10. CASE UNCHANGED vars
  BY <1>10 DEF vars, historyVars
<1> QED
  BY <1>1, <1>2, <1>3, <1>4, <1>5, <1>6, <1>7, <1>8, <1>9, <1>10 DEF Next, Serve

(* The mutex of the registry. *)
LEMMA MutexStep == Inv /\ [Next]_vars => MutexInv'
<1> SUFFICES ASSUME Inv, [Next]_vars PROVE MutexInv'
  OBVIOUS
<1> USE MessagesAssumption, WorkersAssumption DEF Inv, TypeOK, MutexInv
<1>1. ASSUME NEW m \in Messages, Lose(m) PROVE MutexInv'
  BY <1>1 DEF Lose, registryVars
<1>2. ASSUME NEW w \in Workers, Receive(w) PROVE MutexInv'
  <2>1. PICK m \in flight :
          /\ cur' = [cur EXCEPT ![w] = m]
          /\ \E step \in FirstStep(m) : pc' = [pc EXCEPT ![w] = step]
    BY <1>2 DEF Receive
  <2>2. PICK step \in {"push", "register"} : pc' = [pc EXCEPT ![w] = step]
    BY <2>1, FirstStepType
  <2>3. pc[w] = "idle" /\ UNCHANGED <<mutex, handlers>>
    BY <1>2 DEF Receive, registryVars
  <2> QED
    BY <2>1, <2>2, <2>3
<1>3. ASSUME NEW w \in Workers, PushDirect(w) PROVE MutexInv'
  BY <1>3 DEF PushDirect, Idle, registryVars
<1>4. ASSUME NEW w \in Workers, Register(w) PROVE MutexInv'
  <2>1. /\ pc[w] = "register" /\ mutex = None
        /\ pc' = [pc EXCEPT ![w] = "check"]
        /\ mutex' = mutex
    BY <1>4 DEF Register
  <2> QED
    BY <2>1
<1>5. ASSUME NEW w \in Workers, Check(w) PROVE MutexInv'
  BY <1>5 DEF Check, Idle
<1>6. ASSUME NEW w \in Workers, Trigger(w) PROVE MutexInv'
  <2>1. /\ pc' = [pc EXCEPT ![w] = "idle"]
        /\ cur' = [cur EXCEPT ![w] = None]
        /\ mutex' = None
        /\ pc[w] = "trigger"
        /\ handlers' = handlers
    BY <1>6 DEF Trigger, Full, Decided, Idle
  <2> QED
    BY <2>1
<1>7. ASSUME NEW w \in Workers, TakeEvent(w) PROVE MutexInv'
  BY <1>7 DEF TakeEvent, registryVars
<1>8. ASSUME NEW w \in Workers, EndEvent(w) PROVE MutexInv'
  BY <1>8 DEF EndEvent, registryVars
<1>9. ASSUME NEW h \in Messages, Handler(h) PROVE MutexInv'
  <2>1. UNCHANGED <<pc, cur, mutex>>
    BY <1>9, HandlerFrame
  <2>2. UNCHANGED handlers \/ mutex = None
    BY <1>9 DEF Handler, StartAct, Act, TimeOut, Release, CleanUp, registryVars
  <2> QED
    BY <2>1, <2>2
<1>10. CASE UNCHANGED vars
  BY <1>10 DEF vars, registryVars
<1> QED
  BY <1>1, <1>2, <1>3, <1>4, <1>5, <1>6, <1>7, <1>8, <1>9, <1>10 DEF Next, Serve
-----------------------------------------------------------------------------
(* A worker that triggers has found a pending handler of its message's hash. *)
LEMMA Triggered ==
    ASSUME Inv, NEW w \in Workers, pc[w] = "trigger"
    PROVE  LET h == handlers[Hash(cur[w])] IN
           /\ cur[w] \in Messages
           /\ h \in Messages /\ h \in born /\ h \in Pending
           /\ Hash(h) = Hash(cur[w])
<1>1. cur[w] \in Messages /\ Hash(cur[w]) \in Hashes
  BY HashType DEF Inv, TypeOK, WorkersInv
<1>2. handlers[Hash(cur[w])] # None
  BY DEF Inv, MutexInv
<1> QED
  BY <1>1, <1>2 DEF Inv, TypeOK, RegistryInv, Pending

(* The steps that leave registry and handlers alone. *)
Elsewhere ==
    \/ \E m \in Messages : Lose(m)
    \/ \E w \in Workers : \/ Receive(w) \/ PushDirect(w) \/ Check(w)
                          \/ TakeEvent(w) \/ EndEvent(w)
    \/ UNCHANGED vars

(* What they leave alone. *)
LEMMA ElsewhereFrame ==
    Elsewhere => UNCHANGED <<handlers, born, handlerVars, historyVars>>
BY DEF Elsewhere, Lose, Receive, PushDirect, Check, TakeEvent, EndEvent, Idle,
       registryVars, handlerVars, historyVars, vars

(* The steps, sorted by what they do to registry and handlers. *)
LEMMA NextCases ==
    [Next]_vars =>
        \/ Elsewhere
        \/ \E w \in Workers : Register(w) \/ Trigger(w)
        \/ \E h \in Messages : StartAct(h) \/ Act(h) \/ TimeOut(h) \/ CleanUp(h)
BY DEF Next, Serve, Handler, Elsewhere

(* The registry and the pending handlers. *)
LEMMA RegistryStep == Inv /\ [Next]_vars => RegistryInv'
<1> SUFFICES ASSUME Inv, [Next]_vars PROVE RegistryInv'
  OBVIOUS
<1> USE MessagesAssumption, HashType DEF Inv, TypeOK, RegistryInv
<1>1. CASE Elsewhere
  BY <1>1, ElsewhereFrame DEF handlerVars, Pending
<1>2. ASSUME NEW w \in Workers, Register(w) PROVE RegistryInv'
  <2> DEFINE m == cur[w]
  <2>1. m \in Messages /\ Hash(m) \in Hashes
    BY <1>2 DEF Register, WorkersInv
  <2>2. UNCHANGED <<done, quit, cleaning>>
    BY <1>2 DEF Register
  <2>3. CASE UNCHANGED <<handlers, born>>
    BY <2>2, <2>3 DEF Pending
  <2>4. CASE /\ handlers[Hash(m)] = None
             /\ handlers' = [handlers EXCEPT ![Hash(m)] = m]
             /\ born' = born \cup {m}
    <3>1. m \notin born /\ m \notin done \cup quit
      BY <1>2 DEF Register, FreshInv, HandlersInv
    <3>2. Pending' = Pending \cup {m}
      BY <2>2, <2>4, <3>1 DEF Pending
    <3>3. \A h \in Pending : h \in Messages /\ Hash(h) # Hash(m)
      BY <2>4 DEF Pending
    <3> QED
      BY <2>1, <2>4, <3>2, <3>3
  <2> QED
    BY <1>2, <2>3, <2>4 DEF Register
<1>3. ASSUME NEW w \in Workers, Trigger(w) PROVE RegistryInv'
  <2> DEFINE h == handlers[Hash(cur[w])]
  <2>1. UNCHANGED <<handlers, born, quit>>
    BY <1>3 DEF Trigger, Full, Decided
  <2>2. \/ UNCHANGED <<done, cleaning>>
        \/ done' = done \cup {h} /\ cleaning' = cleaning \cup {h}
    BY <1>3 DEF Trigger, Full, Decided
  <2>3. h \in Pending
    BY <1>3, Triggered DEF Trigger, Full, Decided
  <2>4. Pending' = Pending
    BY <2>1, <2>2, <2>3 DEF Pending
  <2> QED
    BY <2>1, <2>4
<1>4. ASSUME NEW h \in Messages, StartAct(h) \/ Act(h) PROVE RegistryInv'
  BY <1>4 DEF StartAct, Act, Release, Pending, registryVars
<1>5. ASSUME NEW h \in Messages, TimeOut(h) PROVE RegistryInv'
  <2>1. UNCHANGED <<handlers, born, done>>
    BY <1>5 DEF TimeOut, Release, registryVars
  <2>2. \/ UNCHANGED <<quit, cleaning>>
        \/ quit' = quit \cup {h} /\ cleaning' = cleaning \cup {h} /\ h \notin done
    BY <1>5 DEF TimeOut, Release
  <2>3. h \in born \ quit
    BY <1>5 DEF TimeOut, Release, HandlersInv
  <2>4. Pending' = Pending
    BY <2>1, <2>2, <2>3 DEF Pending
  <2> QED
    BY <2>1, <2>4
<1>6. ASSUME NEW h \in Messages, CleanUp(h) PROVE RegistryInv'
  <2>1. /\ handlers' = [handlers EXCEPT ![Hash(h)] = None]
        /\ cleaning' = cleaning \ {h}
        /\ UNCHANGED <<born, done, quit>>
    BY <1>6 DEF CleanUp
  <2>2. h \in cleaning /\ h \in done \cup quit /\ h \in born
    BY <1>6 DEF CleanUp, HandlersInv
  <2>3. h \in Pending /\ handlers[Hash(h)] = h
    BY <2>2 DEF Pending
  <2>4. Pending' = Pending \ {h}
    BY <2>1, <2>2 DEF Pending
  <2>5. \A g \in Pending \ {h} : Hash(g) # Hash(h)
    BY <2>3
  <2>6. \A g \in Pending : g \in Messages
    BY DEF Pending
  <2> QED
    BY <2>1, <2>3, <2>4, <2>5, <2>6
<1> QED
  BY <1>1, <1>2, <1>3, <1>4, <1>5, <1>6, NextCases

(* The flags, goroutines and wait group of each handler. *)
LEMMA HandlersStep == Inv /\ [Next]_vars => HandlersInv'
<1> SUFFICES ASSUME Inv, [Next]_vars PROVE HandlersInv'
  OBVIOUS
<1> USE MessagesAssumption DEF Inv, TypeOK, HandlersInv
<1>1. CASE Elsewhere
  BY <1>1, ElsewhereFrame DEF handlerVars, historyVars
<1>2. ASSUME NEW w \in Workers, Register(w) PROVE HandlersInv'
  <2> DEFINE m == cur[w]
  <2>1. m \in Messages /\ m \notin born
    BY <1>2, ZenonT(60) DEF Register, WorkersInv, FreshInv
  <2>2. UNCHANGED <<done, quit, cleaning, fire, emitted>>
    BY <1>2 DEF Register, historyVars
  <2>3. CASE UNCHANGED <<born, timer, wg>>
    BY <2>2, <2>3
  <2>4. CASE /\ born' = born \cup {m}
             /\ timer' = timer \cup {m}
             /\ wg' = [wg EXCEPT ![m] = 1]
    <3>1. m \notin done \cup quit /\ m \notin emitted
      BY <2>1
    <3> QED
      BY <2>1, <2>2, <2>4, <3>1
  <2> QED
    BY <1>2, <2>3, <2>4 DEF Register
<1>3. ASSUME NEW w \in Workers, Trigger(w) PROVE HandlersInv'
  <2> DEFINE h == handlers[Hash(cur[w])]
  <2>1. UNCHANGED <<born, quit, timer, wg, emitted>>
    BY <1>3 DEF Trigger, Full, Decided
  <2>2. h \in Messages /\ h \in born
    BY <1>3, Triggered DEF Trigger, Full, Decided
  <2>3. CASE UNCHANGED <<done, fire, cleaning>>
    BY <2>1, <2>3
  <2>4. CASE /\ h \notin quit \cup done
             /\ done' = done \cup {h}
             /\ fire' = [fire EXCEPT ![h] = "ready"]
             /\ cleaning' = cleaning \cup {h}
    BY <2>1, <2>2, <2>4
  <2> QED
    BY <1>3, <2>3, <2>4 DEF Trigger, Full, Decided
<1>4. ASSUME NEW h \in Messages, StartAct(h) PROVE HandlersInv'
  BY <1>4 DEF StartAct, historyVars
<1>5. ASSUME NEW h \in Messages, Act(h) PROVE HandlersInv'
  <2>1. h \in done /\ h \notin quit /\ h \in born /\ h \notin emitted
    BY <1>5 DEF Act, Release
  <2>2. /\ fire' = [fire EXCEPT ![h] = "over"]
        /\ wg' = [wg EXCEPT ![h] = @ - 1]
        /\ emitted' = emitted \cup {h}
        /\ UNCHANGED <<born, done, quit, timer, cleaning>>
    BY <1>5, <2>1 DEF Act, Release
  <2> QED
    BY <2>1, <2>2
<1>6. ASSUME NEW h \in Messages, TimeOut(h) PROVE HandlersInv'
  <2>1. /\ h \in timer /\ h \in born /\ h \notin quit
        /\ timer' = timer \ {h}
        /\ UNCHANGED <<born, done, fire, emitted>>
    BY <1>6 DEF TimeOut, Release, historyVars
  <2>2. CASE h \in done /\ UNCHANGED <<quit, cleaning, wg>>
    BY <2>1, <2>2
  <2>3. CASE /\ h \notin done
             /\ quit' = quit \cup {h}
             /\ cleaning' = cleaning \cup {h}
             /\ wg' = [wg EXCEPT ![h] = @ - 1]
    <3>1. h \notin emitted
      BY <2>3
    <3> QED
      BY <2>1, <2>3, <3>1
  <2> QED
    BY <1>6, <2>2, <2>3 DEF TimeOut, Release
<1>7. ASSUME NEW h \in Messages, CleanUp(h) PROVE HandlersInv'
  BY <1>7 DEF CleanUp, historyVars
<1> QED
  BY <1>1, <1>2, <1>3, <1>4, <1>5, <1>6, <1>7, NextCases

(* What the handlers have counted. *)
LEMMA CountStep == Inv /\ [Next]_vars => CountInv'
<1> SUFFICES ASSUME Inv, [Next]_vars PROVE CountInv'
  OBVIOUS
<1> USE MessagesAssumption, BoundsAssumption DEF Inv, TypeOK, CountInv, SpentOnce
<1>1. CASE Elsewhere
  BY <1>1, ElsewhereFrame DEF handlerVars, historyVars
<1>2. ASSUME NEW w \in Workers, Register(w) PROVE CountInv'
  <2>1. UNCHANGED <<sema, done, counted>>
    BY <1>2 DEF Register, historyVars
  <2>2. born \subseteq born'
    BY <1>2 DEF Register
  <2> QED
    BY <2>1, <2>2
<1>3. ASSUME NEW w \in Workers, Trigger(w) PROVE CountInv'
  <2> DEFINE m == cur[w]
             h == handlers[Hash(m)]
  <2>1. m \in Messages /\ h \in Messages /\ h \in born /\ Hash(h) = Hash(m)
    BY <1>3, Triggered DEF Trigger, Full, Decided
  <2>2. UNCHANGED born
    BY <1>3 DEF Trigger, Full, Decided
  <2>3. CASE UNCHANGED <<sema, done, counted>>
    BY <2>2, <2>3
  <2>4. CASE /\ h \notin quit \cup done
             /\ counted' = [counted EXCEPT ![h] = @ \cup {m}]
             /\ \/ /\ sema[h] < SafteyValue
                   /\ sema' = [sema EXCEPT ![h] = @ + 1]
                   /\ UNCHANGED done
                \/ /\ sema[h] = SafteyValue
                   /\ done' = done \cup {h}
                   /\ UNCHANGED sema
    <3>1. \A g \in Messages : m \notin counted[g]
      BY <1>3, <2>1 DEF Trigger, Full, Decided, FreshInv
    <3>2. IsFiniteSet(counted[h])
      BY <2>1, FS_Subset
    <3>3. Cardinality(counted[h] \cup {m}) = Cardinality(counted[h]) + 1
      BY <3>1, <3>2, <2>1, FS_AddElement
    <3>4. Cardinality(counted'[h]) = IF h \in done' THEN SafteyValue + 1 ELSE sema'[h]
      <4>1. Cardinality(counted'[h]) = sema[h] + 1
        <5>1. counted'[h] = counted[h] \cup {m}
          BY <2>1, <2>4
        <5>2. Cardinality(counted[h]) = sema[h]
          BY <2>1, <2>4
        <5> QED
          BY <3>3, <5>1, <5>2
      <4>2. CASE sema' = [sema EXCEPT ![h] = @ + 1] /\ UNCHANGED done
        BY <2>1, <2>4, <4>1, <4>2
      <4>3. CASE sema[h] = SafteyValue /\ done' = done \cup {h}
        BY <4>1, <4>3
      <4> QED
        BY <2>4, <4>2, <4>3
    <3>5. \A g \in Messages \ {h} : counted'[g] = counted[g] /\ sema'[g] = sema[g]
                                    /\ (g \in done' <=> g \in done)
      BY <2>4
    <3>6. \A g \in Messages : Cardinality(counted'[g]) =
                                IF g \in done' THEN SafteyValue + 1 ELSE sema'[g]
      <4> TAKE g \in Messages
      <4>1. CASE g = h
        BY <3>4, <4>1
      <4>2. CASE g # h
        <5>1. Cardinality(counted[g]) = IF g \in done THEN SafteyValue + 1 ELSE sema[g]
          OBVIOUS
        <5>2. counted'[g] = counted[g] /\ sema'[g] = sema[g] /\ (g \in done' <=> g \in done)
          BY <3>5, <4>2
        <5> QED
          BY <5>1, <5>2
      <4> QED
        BY <4>1, <4>2
    <3>7. \A g \in Messages : \A n \in counted'[g] : Hash(n) = Hash(g)
      BY <2>1, <2>4
    <3>8. \A g \in Messages : g \in done' => sema'[g] = SafteyValue
      BY <2>1, <2>4, <3>5
    <3>9. \A g \in Messages : counted'[g] # {} => g \in born'
      BY <2>1, <2>2, <2>4
    <3>10. SpentOnce'
      BY <2>1, <2>4, <3>1
    <3> QED
      BY <3>6, <3>7, <3>8, <3>9, <3>10
  <2> QED
    BY <1>3, <2>3, <2>4, SMTT(30) DEF Trigger, Full, Decided
<1>4. ASSUME NEW h \in Messages, StartAct(h) \/ Act(h) \/ TimeOut(h) \/ CleanUp(h)
      PROVE  CountInv'
  <2>1. UNCHANGED <<born, sema, done, counted>>
    BY <1>4, HandlerFrame DEF Handler
  <2> QED
    BY <2>1
<1> QED
  BY <1>1, <1>2, <1>3, <1>4, NextCases

(* Who has passed Register has been counted or turned away, or is at hand. *)
LEMMA HeardStep == Inv /\ [Next]_vars => HeardInv'
<1> SUFFICES ASSUME Inv, [Next]_vars PROVE HeardInv'
  OBVIOUS
<1> USE MessagesAssumption DEF Inv, TypeOK, HeardInv
<1>1. ASSUME NEW m \in Messages, Lose(m) PROVE HeardInv'
  BY <1>1 DEF Lose, handlerVars, historyVars, Decided
<1>2. ASSUME NEW w \in Workers, Receive(w) PROVE HeardInv'
  <2>1. PICK m \in flight :
          /\ flight' = flight \ {m}
          /\ cur' = [cur EXCEPT ![w] = m]
          /\ \E step \in FirstStep(m) : pc' = [pc EXCEPT ![w] = step]
    BY <1>2 DEF Receive
  <2>2. PICK step \in {"push", "register"} : pc' = [pc EXCEPT ![w] = step]
    BY <2>1, FirstStepType
  <2>3. UNCHANGED <<born, done, quit, counted, heard>> /\ cur[w] = None
    BY <1>2 DEF Receive, WorkersInv, handlerVars, historyVars
  <2>4. m \notin heard /\ \A v \in Workers : v # w => cur'[v] = cur[v] /\ pc'[v] = pc[v]
    BY <2>1, <2>2
  <2>5. \A n \in heard : \A v \in Workers : cur[v] = n => cur'[v] = n
    <3>1. \A n \in heard : n # None
      OBVIOUS
    <3> QED
      BY <2>3, <2>4, <3>1
  <2>6. \A v \in Workers :
          /\ pc'[v] \in {"push", "register"} => cur'[v] \notin heard
          /\ pc'[v] \in {"check", "trigger"} => cur'[v] \in heard
    BY <2>1, <2>2, <2>4
  <2>7. \A h \in born : Decided(h) => Decided(h)'
    BY <2>3 DEF Decided
  <2>8. \A n \in heard :
          \/ \E v \in Workers : cur'[v] = n
          \/ \E h \in born : Hash(h) = Hash(n) /\ (n \in counted[h] \/ Decided(h)')
    BY <2>5, <2>7
  <2> QED
    BY <2>1, <2>3, <2>6, <2>8
<1>3. ASSUME NEW w \in Workers, PushDirect(w) PROVE HeardInv'
  <2>1. UNCHANGED <<flight, born, done, quit, counted, heard>> /\ cur[w] \notin heard
    BY <1>3 DEF PushDirect, handlerVars, historyVars
  <2>2. CASE pc' = [pc EXCEPT ![w] = "idle"] /\ cur' = [cur EXCEPT ![w] = None]
    <3>1. \A n \in heard : \A v \in Workers : cur[v] = n => cur'[v] = n
      BY <2>1, <2>2
    <3>2. \A v \in Workers : v # w => cur'[v] = cur[v] /\ pc'[v] = pc[v]
      BY <2>2
    <3> QED
      BY <2>1, <2>2, <3>1, <3>2 DEF Decided
  <2>3. CASE pc' = [pc EXCEPT ![w] = "register"] /\ UNCHANGED cur
    BY <2>1, <2>3 DEF Decided
  <2> QED
    BY <1>3, <2>2, <2>3 DEF PushDirect, Idle
<1>4. ASSUME NEW w \in Workers, Register(w) PROVE HeardInv'
  <2> DEFINE m == cur[w]
  <2>1. /\ m \in Messages /\ Hash(m) \in Hashes
        /\ m \notin flight /\ \A v \in Workers : v # w => cur[v] # m
    BY <1>4, HashType DEF Register, WorkersInv
  <2>2. /\ heard' = heard \cup {m} /\ pc' = [pc EXCEPT ![w] = "check"]
        /\ UNCHANGED <<flight, cur, done, quit, counted>>
    BY <1>4 DEF Register
  <2>3. born \subseteq born' /\ born' \subseteq born \cup {m}
    BY <1>4 DEF Register
  <2>4. \E h \in born' : Hash(h) = Hash(m)
    <3>1. CASE handlers[Hash(m)] = None
      BY <1>4, <3>1 DEF Register
    <3>2. CASE handlers[Hash(m)] # None
      BY <2>1, <2>3, <3>2 DEF RegistryInv, Pending
    <3> QED
      BY <3>1, <3>2
  <2> QED
    BY <2>1, <2>2, <2>3, <2>4 DEF Decided
<1>5. ASSUME NEW w \in Workers, Check(w) PROVE HeardInv'
  <2>1. /\ UNCHANGED <<flight, born, done, quit, counted, heard>>
        /\ cur[w] \in heard /\ cur[w] \in Messages /\ Hash(cur[w]) \in Hashes
    BY <1>5, HashType DEF Check, handlerVars, historyVars
  <2>2. CASE /\ handlers[Hash(cur[w])] = None
             /\ pc' = [pc EXCEPT ![w] = "idle"] /\ cur' = [cur EXCEPT ![w] = None]
    <3>1. PICK h \in born : Hash(h) = Hash(cur[w])
      BY <2>1
    <3>2. Decided(h)
      BY <2>2, <3>1 DEF RegistryInv, Pending, Decided
    <3> QED
      BY <2>1, <2>2, <3>1, <3>2 DEF Decided
  <2>3. CASE pc' = [pc EXCEPT ![w] = "trigger"] /\ UNCHANGED cur
    BY <2>1, <2>3 DEF Decided
  <2> QED
    BY <1>5, <2>2, <2>3 DEF Check, Idle
<1>6. ASSUME NEW w \in Workers, Trigger(w) PROVE HeardInv'
  <2> DEFINE m == cur[w]
             h == handlers[Hash(m)]
  <2>1. m \in heard /\ m \in Messages /\ h \in Messages /\ h \in born /\ Hash(h) = Hash(m)
    BY <1>6, Triggered DEF Trigger
  <2>2. /\ pc' = [pc EXCEPT ![w] = "idle"] /\ cur' = [cur EXCEPT ![w] = None]
        /\ UNCHANGED <<flight, born, quit, heard>> /\ done \subseteq done'
    BY <1>6 DEF Trigger, Full, Decided, Idle
  <2>3. \/ counted' = counted /\ Decided(h)
        \/ counted' = [counted EXCEPT ![h] = @ \cup {m}]
    BY <1>6 DEF Trigger
  <2>4. /\ \A g \in Messages : counted[g] \subseteq counted'[g]
                              /\ counted'[g] \subseteq counted[g] \cup {m}
        /\ m \in counted'[h] \/ Decided(h)
    <3>1. CASE counted' = counted /\ Decided(h)
      BY <3>1
    <3>2. CASE counted' = [counted EXCEPT ![h] = @ \cup {m}]
      <4>1. counted'[h] = counted[h] \cup {m}
        BY <2>1, <3>2
      <4>2. \A g \in Messages : g # h => counted'[g] = counted[g]
        BY <3>2
      <4> QED
        BY <4>1, <4>2
    <3> QED
      BY <2>3, <3>1, <3>2
  <2>5. \A g \in born : Decided(g) => Decided(g)'
    BY <2>2 DEF Decided
  <2>6. \A v \in Workers : v # w => cur'[v] = cur[v] /\ pc'[v] = pc[v]
    BY <2>2
  <2>7. \A n \in heard :
          \/ \E v \in Workers : cur'[v] = n
          \/ \E g \in born : Hash(g) = Hash(n) /\ (n \in counted'[g] \/ Decided(g)')
    <3> TAKE n \in heard
    <3>1. CASE n = m
      BY <2>1, <2>4, <2>5, <3>1
    <3>2. CASE n # m /\ \E v \in Workers : cur[v] = n
      BY <2>6, <3>2
    <3>3. CASE \E g \in born : Hash(g) = Hash(n) /\ (n \in counted[g] \/ Decided(g))
      BY <2>4, <2>5, <3>3
    <3> QED
      BY <3>1, <3>2, <3>3
  <2>8. \A g \in Messages : counted'[g] \subseteq heard
    <3> TAKE g \in Messages
    <3>1. counted'[g] \subseteq counted[g] \cup {m} /\ counted[g] \subseteq heard
      BY <2>4
    <3> QED
      BY <2>1, <3>1
  <2>9. \A v \in Workers :
          /\ pc'[v] \in {"push", "register"} => cur'[v] \notin heard
          /\ pc'[v] \in {"check", "trigger"} => cur'[v] \in heard
    BY <2>2, <2>6
  <2> QED
    BY <2>2, <2>7, <2>8, <2>9
<1>7. ASSUME NEW w \in Workers, TakeEvent(w) PROVE HeardInv'
  BY <1>7 DEF TakeEvent, handlerVars, historyVars, Decided
<1>8. ASSUME NEW w \in Workers, EndEvent(w) PROVE HeardInv'
  BY <1>8 DEF EndEvent, handlerVars, historyVars, Decided
<1>9. ASSUME NEW h \in Messages, Handler(h) PROVE HeardInv'
  BY <1>9, HandlerFrame DEF Decided
<1>10. CASE UNCHANGED vars
  BY <1>10 DEF vars, handlerVars, historyVars, Decided
<1> QED
  BY <1>1, <1>2, <1>3, <1>4, <1>5, <1>6, <1>7, <1>8, <1>9, <1>10 DEF Next, Serve

(* What is queued. *)
LEMMA QueueStep == Inv /\ [Next]_vars => QueueInv'
<1> SUFFICES ASSUME Inv, [Next]_vars PROVE QueueInv'
  OBVIOUS
<1> USE DEF Inv, TypeOK, QueueInv
<1>1. CASE UNCHANGED <<eventq, emitted>>
  BY <1>1
<1>2. ASSUME NEW w \in Workers, PushDirect(w) PROVE QueueInv'
  <2>1. eventq' = Append(eventq, [msg |-> cur[w], quorum |-> FALSE]) /\ emitted' = emitted
    BY <1>2 DEF PushDirect, historyVars
  <2> QED
    BY <2>1
<1>3. ASSUME NEW w \in Workers, TakeEvent(w) PROVE QueueInv'
  <2>1. eventq # <<>> /\ eventq' = Tail(eventq) /\ emitted' = emitted
    BY <1>3 DEF TakeEvent, historyVars
  <2>2. \A i \in DOMAIN eventq' : i + 1 \in DOMAIN eventq /\ eventq'[i] = eventq[i + 1]
    BY <2>1
  <2> QED
    BY <2>1, <2>2
<1>4. ASSUME NEW h \in Messages, Act(h), h \notin quit PROVE QueueInv'
  <2>1. eventq' = Append(eventq, [msg |-> h, quorum |-> TRUE]) /\ emitted' = emitted \cup {h}
    BY <1>4 DEF Act, Release
  <2> QED
    BY <2>1
<1>5. [Next]_vars =>
        \/ UNCHANGED <<eventq, emitted>>
        \/ \E w \in Workers : PushDirect(w) \/ TakeEvent(w)
        \/ \E h \in Messages : Act(h) /\ h \notin quit
  BY DEF Next, Serve, Handler, Lose, Receive, Register, Check, Trigger, Full, Decided,
         EndEvent, StartAct,
         Act, TimeOut, Release, CleanUp, vars, historyVars
<1> QED
  BY <1>1, <1>2, <1>3, <1>4, <1>5
-----------------------------------------------------------------------------
(* Nothing has happened yet. *)
LEMMA InvInit == Init => Inv
<1> SUFFICES ASSUME Init PROVE Inv
  OBVIOUS
<1> USE MessagesAssumption, WorkersAssumption, BoundsAssumption DEF Init
<1>1. TypeOK
  BY TypeInit
<1>2. WorkersInv /\ FreshInv /\ MutexInv
  BY DEF WorkersInv, FreshInv, MutexInv
<1>3. RegistryInv /\ HandlersInv
  BY HashType DEF RegistryInv, HandlersInv, Pending
<1>4. CountInv
  BY FS_EmptySet DEF CountInv, SpentOnce
<1>5. QueueInv
  BY DEF QueueInv
<1>6. HeardInv
  BY DEF HeardInv
<1> QED
  BY <1>1, <1>2, <1>3, <1>4, <1>5, <1>6 DEF Inv

(* Inv holds in every reachable state. *)
THEOREM Invariant == Spec => []Inv
<1>1. Inv /\ [Next]_vars => Inv'
  BY TypeStep, WorkersStep, FreshStep, MutexStep, RegistryStep, HandlersStep,
     CountStep, HeardStep, QueueStep DEF Inv
<1> QED
  BY InvInit, <1>1, PTL DEF Spec

(* The variables keep their types. *)
THEOREM TypeCorrect == Spec => []TypeOK
<1>1. Inv => TypeOK
  BY DEF Inv
<1> QED
  BY Invariant, <1>1, PTL

(* Clean-up never removes the handler of a later round. *)
THEOREM RegistryIsExact == Spec => []RegistryExact
<1>1. Inv => RegistryExact
  <2> SUFFICES ASSUME Inv, NEW k \in Hashes
               PROVE  {h \in Pending : Hash(h) = k} = {handlers[k]} \ {None}
    BY DEF RegistryExact
  <2> USE MessagesAssumption DEF Inv, TypeOK, RegistryInv, Pending
  <2>1. CASE handlers[k] = None
    BY <2>1
  <2>2. CASE handlers[k] # None
    BY <2>2
  <2> QED
    BY <2>1, <2>2
<1> QED
  BY Invariant, <1>1, PTL

(* No message counts towards two events. *)
THEOREM MessagesSpentOnce == Spec => []SpentOnce
<1>1. Inv => SpentOnce
  BY DEF Inv, CountInv
<1> QED
  BY Invariant, <1>1, PTL

(* A quorum event is backed by SafteyValue + 1 messages of its hash. *)
THEOREM EventsAreBacked == Spec => []QuorumBacked
<1>1. Inv => QuorumBacked
  <2> SUFFICES ASSUME Inv, NEW i \in DOMAIN eventq, eventq[i].quorum
               PROVE  LET h == eventq[i].msg IN
                      /\ Cardinality(counted[h]) = SafteyValue + 1
                      /\ \A m \in counted[h] : Hash(m) = Hash(h)
    BY DEF QuorumBacked
  <2>1. eventq[i].msg \in emitted /\ eventq[i].msg \in Messages
    BY DEF Inv, QueueInv, TypeOK
  <2>2. eventq[i].msg \in done
    BY <2>1 DEF Inv, HandlersInv
  <2> QED
    BY <2>1, <2>2 DEF Inv, CountInv
<1> QED
  BY Invariant, <1>1, PTL

(***************************************************************************)
(* More than SafteyValue copies that nobody is at any more have a round    *)
(* that fired or timed out: in an undecided one, which they would all have *)
(* been counted in, there is no room for them.                             *)
(***************************************************************************)
THEOREM QuorumsAreNotLost == Spec => []NoQuorumLost
<1>1. Inv => NoQuorumLost
  <2> SUFFICES ASSUME Inv, NEW k \in Hashes,
                      Cardinality({m \in heard : Hash(m) = k}) > SafteyValue,
                      \A w \in Workers : cur[w] \notin {m \in heard : Hash(m) = k},
                      \A h \in born : Hash(h) = k => h \notin done \cup quit
               PROVE  FALSE
    BY DEF NoQuorumLost
  <2> USE MessagesAssumption, BoundsAssumption DEF Inv, TypeOK
  <2> DEFINE copies == {m \in heard : Hash(m) = k}
             h == handlers[k]
  <2>1. \A g \in born : Hash(g) = k => g = h
    BY DEF RegistryInv, Pending
  <2>2. \A m \in copies : h \in born /\ Hash(h) = k /\ m \in counted[h]
    <3> TAKE m \in copies
    <3>1. m \in heard /\ Hash(m) = k /\ \A w \in Workers : cur[w] # m
      OBVIOUS
    <3>2. PICK g \in born : Hash(g) = Hash(m) /\ (m \in counted[g] \/ Decided(g))
      BY <3>1 DEF HeardInv
    <3> QED
      BY <2>1, <3>1, <3>2 DEF Decided
  <2>3. copies \subseteq Messages /\ Cardinality(copies) > SafteyValue
    OBVIOUS
  <2>4. \A g \in born :
          /\ g \in Messages /\ counted[g] \subseteq Messages /\ sema[g] \in 0..SafteyValue
          /\ Hash(g) = k => Cardinality(counted[g]) = sema[g]
    BY DEF CountInv
  <2> HIDE DEF copies, h, Inv, TypeOK
  <2>5. IsFiniteSet(copies) /\ Cardinality(copies) \in Nat
    BY <2>3, FS_Subset, FS_CardinalityType
  <2>6. PICK m : m \in copies
    BY <2>3, FS_EmptySet
  <2>7. h \in born /\ Hash(h) = k /\ copies \subseteq counted[h]
    BY <2>2, <2>6
  <2>8. Cardinality(copies) <= Cardinality(counted[h])
    <3>1. IsFiniteSet(counted[h])
      BY <2>4, <2>7, FS_Subset
    <3> QED
      BY <2>7, <3>1, FS_Subset
  <2> QED
    BY <2>3, <2>4, <2>5, <2>7, <2>8
<1> QED
  BY Invariant, <1>1, PTL

(* A round is decided once, and releases its wait group once. *)
THEOREM RoundsAreDecidedOnce == Spec => []DecidedOnce
<1>1. Inv => DecidedOnce
  BY DEF Inv, TypeOK, HandlersInv, DecidedOnce
<1> QED
  BY Invariant, <1>1, PTL

(* A handler queues its event once. *)
THEOREM EventsAreQueuedOnce == Spec => QueuedOnce
<1>1. Inv /\ [Next]_vars =>
        [\A h \in Messages :
            eventq' = Append(eventq, [msg |-> h, quorum |-> TRUE]) =>
                h \notin emitted /\ h \in emitted']_vars
  <2> SUFFICES ASSUME Inv, [Next]_vars, NEW h \in Messages,
                      eventq' = Append(eventq, [msg |-> h, quorum |-> TRUE])
               PROVE  h \notin emitted /\ h \in emitted'
    OBVIOUS
  <2> DEFINE e == [msg |-> h, quorum |-> TRUE]
  <2> USE DEF Inv, TypeOK
  <2>1. Len(eventq') = Len(eventq) + 1 /\ eventq'[Len(eventq) + 1] = e
    OBVIOUS
  <2>2. CASE UNCHANGED eventq
    BY <2>1, <2>2
  <2>3. ASSUME NEW w \in Workers, PushDirect(w) PROVE FALSE
    <3>1. eventq' = Append(eventq, [msg |-> cur[w], quorum |-> FALSE])
      BY <2>3 DEF PushDirect
    <3>2. eventq'[Len(eventq) + 1] = [msg |-> cur[w], quorum |-> FALSE]
      BY <3>1
    <3> QED
      BY <2>1, <3>2
  <2>4. ASSUME NEW w \in Workers, TakeEvent(w) PROVE FALSE
    <3>1. Len(eventq') = Len(eventq) - 1
      BY <2>4 DEF TakeEvent
    <3> QED
      BY <2>1, <3>1
  <2>5. ASSUME NEW g \in Messages, Act(g), g \notin quit
        PROVE  h \notin emitted /\ h \in emitted'
    <3>1. eventq' = Append(eventq, [msg |-> g, quorum |-> TRUE])
      BY <2>5 DEF Act, Release
    <3>2. eventq'[Len(eventq) + 1] = [msg |-> g, quorum |-> TRUE]
      BY <3>1
    <3>3. g = h
      BY <2>1, <3>2
    <3>4. fire[h] = "acting" /\ emitted' = emitted \cup {h}
      BY <2>5, <3>3 DEF Act, Release
    <3> QED
      BY <3>4 DEF HandlersInv
  <2>6. \/ UNCHANGED eventq
        \/ \E w \in Workers : PushDirect(w) \/ TakeEvent(w)
        \/ \E g \in Messages : Act(g) /\ g \notin quit
    BY DEF Next, Serve, Handler, Lose, Receive, Register, Check, Trigger, Full, Decided,
           EndEvent, StartAct,
           Act, TimeOut, Release, CleanUp, vars
  <2> QED
    BY <2>2, <2>3, <2>4, <2>5, <2>6
<1> QED
  BY Invariant, <1>1, PTL DEF Spec, QueuedOnce
-----------------------------------------------------------------------------
(* The abstract specification counts as this one does. *)
LEMMA GateCardinality == \A S : Gate!Cardinality(S) = Cardinality(S)
BY DEF Gate!Cardinality, Cardinality

(***************************************************************************)
(* The peer's fan-in does what QuorumGate promises: Register opens a       *)
(* batch, Trigger credits it, Act emits it, CleanUp closes it, and         *)
(* everything else is invisible.                                           *)
(***************************************************************************)
LEMMA GateStep == Inv /\ [Next]_vars => [Gate!Next]_(Gate!gateVars)
<1> SUFFICES ASSUME Inv, [Next]_vars
             PROVE  Gate!Next \/ UNCHANGED <<counted, Pending, emitted>>
  BY DEF Gate!gateVars
<1> USE MessagesAssumption, HashType, BoundsAssumption DEF Inv, TypeOK
<1>1. CASE Elsewhere
  BY <1>1, ElsewhereFrame DEF handlerVars, historyVars, Pending
<1>2. ASSUME NEW w \in Workers, Register(w)
      PROVE  Gate!Next \/ UNCHANGED <<counted, Pending, emitted>>
  <2> DEFINE m == cur[w]
  <2>1. m \in Messages /\ Hash(m) \in Hashes /\ m \notin born
    BY <1>2 DEF Register, WorkersInv, FreshInv
  <2>2. UNCHANGED <<done, quit, cleaning, counted, emitted>>
    BY <1>2 DEF Register, historyVars
  <2>3. CASE UNCHANGED born
    BY <2>2, <2>3 DEF Pending
  <2>4. CASE handlers[Hash(m)] = None /\ born' = born \cup {m}
    <3>1. m \notin Pending /\ m \notin done \cup quit /\ counted[m] = {}
      BY <2>1 DEF Pending, HandlersInv, CountInv
    <3>2. Pending' = Pending \cup {m}
      BY <2>2, <2>4, <3>1 DEF Pending
    <3>3. \A c \in Pending : Hash(c) # Hash(m)
      BY <2>4 DEF RegistryInv, Pending
    <3>4. Gate!Open(m)
      BY <2>2, <3>1, <3>2, <3>3 DEF Gate!Open
    <3> QED
      BY <2>1, <3>4 DEF Gate!Next
  <2> QED
    BY <1>2, <2>3, <2>4 DEF Register
<1>3. ASSUME NEW w \in Workers, Trigger(w)
      PROVE  Gate!Next \/ UNCHANGED <<counted, Pending, emitted>>
  <2> DEFINE m == cur[w]
             h == handlers[Hash(m)]
  <2>1. m \in Messages /\ h \in Messages /\ h \in born /\ h \in Pending /\ Hash(h) = Hash(m)
    BY <1>3, Triggered DEF Trigger, Full, Decided
  <2>2. UNCHANGED <<born, quit, emitted>>
    BY <1>3 DEF Trigger, Full, Decided
  <2>3. CASE UNCHANGED <<done, cleaning, counted>>
    BY <2>2, <2>3 DEF Pending
  <2>4. CASE /\ h \notin quit \cup done
             /\ counted' = [counted EXCEPT ![h] = @ \cup {m}]
             /\ \/ UNCHANGED <<done, cleaning>>
                \/ done' = done \cup {h} /\ cleaning' = cleaning \cup {h}
    <3>1. Pending' = Pending
      BY <2>1, <2>2, <2>4 DEF Pending
    <3>2. \A g \in Messages : m \notin counted[g]
      BY <1>3, <2>1 DEF Trigger, Full, Decided, FreshInv
    <3>3. Cardinality(counted[h]) < SafteyValue + 1
      <4>1. Cardinality(counted[h]) = sema[h]
        BY <2>1, <2>4 DEF CountInv
      <4> QED
        BY <2>1, <4>1
    <3>4. Gate!Credit(h, m)
      BY <2>1, <2>2, <2>4, <3>1, <3>2, <3>3, GateCardinality DEF Gate!Credit, Gate!Credited
    <3> QED
      BY <2>1, <3>4 DEF Gate!Next
  <2> QED
    BY <1>3, <2>3, <2>4 DEF Trigger, Full, Decided
<1>4. ASSUME NEW h \in Messages, StartAct(h)
      PROVE  UNCHANGED <<counted, Pending, emitted>>
  BY <1>4 DEF StartAct, Pending, historyVars
<1>5. ASSUME NEW h \in Messages, Act(h) PROVE Gate!Next
  <2>1. h \in done /\ h \notin quit /\ h \notin emitted
    BY <1>5 DEF Act, Release, HandlersInv
  <2>2. emitted' = emitted \cup {h} /\ UNCHANGED <<counted, born, done, quit, cleaning>>
    BY <1>5, <2>1 DEF Act, Release
  <2>3. Pending' = Pending
    BY <2>2 DEF Pending
  <2>4. Cardinality(counted[h]) = SafteyValue + 1
    BY <2>1 DEF CountInv
  <2>5. Gate!Emit(h)
    BY <2>1, <2>2, <2>3, <2>4, GateCardinality DEF Gate!Emit
  <2> QED
    BY <2>5 DEF Gate!Next
<1>6. ASSUME NEW h \in Messages, TimeOut(h)
      PROVE  UNCHANGED <<counted, Pending, emitted>>
  <2>1. UNCHANGED <<born, done, counted, emitted>>
    BY <1>6 DEF TimeOut, Release, historyVars
  <2>2. \/ UNCHANGED <<quit, cleaning>>
        \/ quit' = quit \cup {h} /\ cleaning' = cleaning \cup {h} /\ h \notin done
    BY <1>6 DEF TimeOut, Release
  <2>3. h \in born \ quit
    BY <1>6 DEF TimeOut, Release, HandlersInv
  <2> QED
    BY <2>1, <2>2, <2>3 DEF Pending
<1>7. ASSUME NEW h \in Messages, CleanUp(h) PROVE Gate!Next
  <2>1. cleaning' = cleaning \ {h} /\ UNCHANGED <<born, done, quit, counted, emitted>>
    BY <1>7 DEF CleanUp, historyVars
  <2>2. h \in cleaning /\ h \in done \cup quit /\ h \in born
    BY <1>7 DEF CleanUp, HandlersInv
  <2>3. h \in Pending /\ Pending' = Pending \ {h}
    BY <2>1, <2>2 DEF Pending
  <2>4. Gate!Close(h)
    BY <2>1, <2>3 DEF Gate!Close
  <2> QED
    BY <2>4 DEF Gate!Next
<1> QED
  BY <1>1, <1>2, <1>3, <1>4, <1>5, <1>6, <1>7, NextCases

(* FanIn implements QuorumGate. *)
THEOREM FanInImplementsGate == Spec => ImplementsGate
<1>1. Init => Gate!Init
  BY DEF Init, Gate!Init, Pending
<1> QED
  BY Invariant, <1>1, GateStep, PTL DEF Spec, ImplementsGate, Gate!Spec
=============================================================================
