-------------------------------- MODULE FanIn --------------------------------
(***************************************************************************)
(* How one peer of package simulation turns the messages it receives into  *)
(* events: the workers of stdPeer.serve, the registry of pending handlers  *)
(* (msgcount) and the fan-in handlers (FanInHandler), each with its timer, *)
(* fire and clean-up goroutines.                                           *)
(*                                                                         *)
(* A handler collects messages with one hash.  SafteyValue of them fill    *)
(* its semaphore and the next one fires its event, once; or its timer runs *)
(* out first and it quits.  Either way a clean-up goroutine takes it out   *)
(* of the registry, and the next message with that hash opens a new one.   *)
(*                                                                         *)
(* A handler is named by the message that registered it: Register runs at  *)
(* most once for a message, and the event of the handler is the event of   *)
(* that message.                                                           *)
(***************************************************************************)
EXTENDS Integers, Sequences, FiniteSets

CONSTANTS
    Messages,       \* the messages sent to this peer, each delivered at most once
    Workers,        \* the goroutines started by serve
    SafteyValue,    \* capacity of a handler's semaphore (sic, globals.go)
    QueueSize,      \* capacity of eventq
    None            \* no message, no worker

(***************************************************************************)
(* A message carries its type (REQ stands for PUT, LOOKUP and DELETE,      *)
(* RETURN for their answers), the key it is about (the joining peer, for   *)
(* JOIN and SPARE), what the hash leaves out (data: the value and the      *)
(* request it belongs to), the peer it was first sent by and the peer that *)
(* sent this copy.                                                         *)
(***************************************************************************)
ASSUME MessagesAssumption ==
    /\ IsFiniteSet(Messages)
    /\ None \notin Messages
    /\ \A m \in Messages :
         /\ DOMAIN m = {"type", "key", "data", "origin", "sender"}
         /\ m.type \in {"REQ", "RETURN", "JOIN", "SPARE"}

ASSUME WorkersAssumption == None \notin Workers

ASSUME BoundsAssumption == SafteyValue \in Nat /\ QueueSize \in Nat \ {0}

(***************************************************************************)
(* All hashes are of this form: a request and its answer are told apart by *)
(* their type (msg.go:54, 87, 118, 151, 181 and 214), and so are the joins *)
(* (243, 272 and 306), whose key is the origin.                            *)
(***************************************************************************)
Hash(m) == <<m.type, m.key>>

Hashes == {Hash(m) : m \in Messages}

(***************************************************************************)
(* A request straight from its origin is answered without a quorum, and    *)
(* so is a join from a peer that has no type yet.                          *)
(***************************************************************************)
FromOrigin(m) == m.sender = m.origin

VARIABLES
    flight,     \* messages sent to this peer that no worker has received
    pc,         \* where each worker is
    cur,        \* the message each worker handles
    mutex,      \* the worker that holds msgcount.mutex across a wait
    handlers,   \* msgcount.handlers
    born,       \* the handlers ever created
    sema,       \* messages in a handler's semaphore
    done,       \* handlers whose done flag is set
    quit,       \* handlers whose quit flag is set
    timer,      \* handlers whose timer goroutine still runs
    fire,       \* the fire goroutine of each handler
    cleaning,   \* handlers with a clean-up goroutine that still runs
    wg,         \* the handler's wait group
    eventq,     \* the events queued, each with what backs it
    counted,    \* history: the messages a handler accepted
    emitted,    \* history: the handlers that queued their event
    heard       \* history: the messages that have passed Register

registryVars == <<handlers, mutex>>
handlerVars  == <<sema, done, quit, timer, fire, cleaning, wg>>
historyVars  == <<counted, emitted, heard>>
vars == <<flight, pc, cur, registryVars, born, handlerVars, eventq, historyVars>>

TypeOK ==
    /\ flight \subseteq Messages
    /\ pc \in [Workers -> {"idle", "push", "register", "check", "trigger", "exec"}]
    /\ cur \in [Workers -> Messages \cup {None}]
    /\ mutex \in Workers \cup {None}
    /\ handlers \in [Hashes -> Messages \cup {None}]
    /\ born \subseteq Messages
    /\ sema \in [Messages -> 0..SafteyValue]
    /\ done \subseteq Messages
    /\ quit \subseteq Messages
    /\ timer \subseteq Messages
    /\ fire \in [Messages -> {"none", "ready", "acting", "over"}]
    /\ cleaning \subseteq Messages
    /\ wg \in [Messages -> Int]
    /\ eventq \in Seq([msg : Messages, quorum : BOOLEAN])
    /\ counted \in [Messages -> SUBSET Messages]
    /\ emitted \subseteq Messages
    /\ heard \subseteq Messages

Init ==
    /\ flight = Messages
    /\ pc = [w \in Workers |-> "idle"]
    /\ cur = [w \in Workers |-> None]
    /\ mutex = None
    /\ handlers = [k \in Hashes |-> None]
    /\ born = {}
    /\ sema = [h \in Messages |-> 0]
    /\ done = {}
    /\ quit = {}
    /\ timer = {}
    /\ fire = [h \in Messages |-> "none"]
    /\ cleaning = {}
    /\ wg = [h \in Messages |-> 0]
    /\ eventq = <<>>
    /\ counted = [h \in Messages |-> {}]
    /\ emitted = {}
    /\ heard = {}
-----------------------------------------------------------------------------
(* A copy is lost with probability Mu, or msgq stays full for too long. *)
Lose(m) ==
    /\ m \in flight
    /\ flight' = flight \ {m}
    /\ UNCHANGED <<pc, cur, registryVars, born, handlerVars, eventq, historyVars>>

(***************************************************************************)
(* An idle worker receives a message.  What it does first depends on where *)
(* the message comes from; a join sent by the joining peer itself is taken *)
(* directly only while that peer has no type, which another worker or peer *)
(* may have given it by now.  (addPutReq and its siblings, which remember  *)
(* whom to answer, touch nothing of what is modelled here.)                *)
(***************************************************************************)
FirstStep(m) ==
    IF ~FromOrigin(m) \/ m.type \in {"RETURN", "SPARE"} THEN {"register"}
    ELSE IF m.type = "JOIN" THEN {"push", "register"}
    ELSE {"push"}

(* Mutant of Receive: the message stays, and is delivered again. *)
ReceiveKept(w) ==
    /\ pc[w] = "idle"
    /\ \E m \in flight :
         /\ cur' = [cur EXCEPT ![w] = m]
         /\ \E step \in FirstStep(m) : pc' = [pc EXCEPT ![w] = step]
    /\ UNCHANGED <<flight, registryVars, born, handlerVars, eventq, historyVars>>

Receive(w) ==
    /\ pc[w] = "idle"
    /\ \E m \in flight :
         /\ flight' = flight \ {m}
         /\ cur' = [cur EXCEPT ![w] = m]
         /\ \E step \in FirstStep(m) : pc' = [pc EXCEPT ![w] = step]
    /\ UNCHANGED <<registryVars, born, handlerVars, eventq, historyVars>>

(* Back to the select of the loop in serve. *)
Idle(w) ==
    /\ pc' = [pc EXCEPT ![w] = "idle"]
    /\ cur' = [cur EXCEPT ![w] = None]

(* p.eventq <- msg.getEvent(): waits while the queue is full. *)
PushDirect(w) ==
    /\ pc[w] = "push"
    /\ Len(eventq) < QueueSize
    /\ eventq' = Append(eventq, [msg |-> cur[w], quorum |-> FALSE])
    /\ IF cur[w].type = "JOIN"
       THEN Idle(w)
       ELSE /\ pc' = [pc EXCEPT ![w] = "register"]
            /\ UNCHANGED cur
    /\ UNCHANGED <<flight, registryVars, born, handlerVars, historyVars>>

(* Mutant of Register: it does not look whether a handler is pending. *)
RegisterOver(w) ==
    /\ pc[w] = "register"
    /\ mutex = None
    /\ handlers' = [handlers EXCEPT ![Hash(cur[w])] = cur[w]]
    /\ born' = born \cup {cur[w]}
    /\ timer' = timer \cup {cur[w]}
    /\ wg' = [wg EXCEPT ![cur[w]] = 1]
    /\ pc' = [pc EXCEPT ![w] = "check"]
    /\ heard' = heard \cup {cur[w]}
    /\ UNCHANGED <<flight, cur, mutex, sema, done, quit, fire, cleaning, eventq,
                   counted, emitted>>

(***************************************************************************)
(* Register, one critical section of msgcount.mutex: creates the handler   *)
(* and starts its timer, unless one with that hash is pending.             *)
(***************************************************************************)
Register(w) ==
    LET m == cur[w] IN
    /\ pc[w] = "register"
    /\ mutex = None
    /\ IF handlers[Hash(m)] = None
       THEN /\ handlers' = [handlers EXCEPT ![Hash(m)] = m]
            /\ born' = born \cup {m}
            /\ timer' = timer \cup {m}
            /\ wg' = [wg EXCEPT ![m] = 1]
       ELSE UNCHANGED <<handlers, born, timer, wg>>
    /\ pc' = [pc EXCEPT ![w] = "check"]
    /\ heard' = heard \cup {cur[w]}
    /\ UNCHANGED <<flight, cur, mutex, sema, done, quit, fire, cleaning, eventq,
                   counted, emitted>>

(***************************************************************************)
(* Check looks the handler up again.  It may be gone by now: the message   *)
(* is then dropped.  If it is there, Check calls Trigger and keeps         *)
(* msgcount.mutex while it waits for the mutex of the handler.             *)
(***************************************************************************)
Check(w) ==
    /\ pc[w] = "check"
    /\ mutex = None
    /\ IF handlers[Hash(cur[w])] = None
       THEN /\ Idle(w)
            /\ UNCHANGED mutex
       ELSE /\ pc' = [pc EXCEPT ![w] = "trigger"]
            /\ mutex' = w
            /\ UNCHANGED cur
    /\ UNCHANGED <<flight, handlers, born, handlerVars, eventq, historyVars>>

(* Mutant of Decided: Trigger forgets about done. *)
DecidedByTimer(h) == h \in quit

(* The done or quit flag is set, which Trigger heeds without counting anything. *)
Decided(h) == h \in quit \cup done

(* Mutant of Full: one message too many. *)
FullLate(h) == sema[h] = SafteyValue + 1

(* The semaphore takes no more: this message is the last that was missing. *)
Full(h) == sema[h] = SafteyValue

(***************************************************************************)
(* FanInHandler.Trigger, and the end of Check.  The handler's mutex is     *)
(* held across a wait only by act.                                         *)
(***************************************************************************)
Trigger(w) ==
    LET m == cur[w]
        h == handlers[Hash(m)]
    IN
    /\ pc[w] = "trigger"
    /\ fire[h] # "acting"
    /\ \/ /\ Decided(h)
          /\ UNCHANGED <<sema, done, fire, cleaning, counted>>
       \/ /\ ~Decided(h)
          /\ counted' = [counted EXCEPT ![h] = @ \cup {m}]
          /\ \/ /\ ~Full(h)
                /\ sema' = [sema EXCEPT ![h] = @ + 1]
                /\ UNCHANGED <<done, fire, cleaning>>
             \/ /\ Full(h)
                /\ done' = done \cup {h}
                /\ fire' = [fire EXCEPT ![h] = "ready"]
                /\ cleaning' = cleaning \cup {h}
                /\ UNCHANGED sema
    /\ mutex' = None
    /\ Idle(w)
    /\ UNCHANGED <<flight, handlers, born, quit, timer, wg, eventq, emitted, heard>>

(***************************************************************************)
(* An idle worker takes an event and starts event.fire, which ends, or is  *)
(* abandoned when its timeout is over; the worker then is idle again.      *)
(***************************************************************************)
TakeEvent(w) ==
    /\ pc[w] = "idle"
    /\ eventq # <<>>
    /\ eventq' = Tail(eventq)
    /\ pc' = [pc EXCEPT ![w] = "exec"]
    /\ UNCHANGED <<flight, cur, registryVars, born, handlerVars, historyVars>>

EndEvent(w) ==
    /\ pc[w] = "exec"
    /\ pc' = [pc EXCEPT ![w] = "idle"]
    /\ UNCHANGED <<flight, cur, registryVars, born, handlerVars, eventq, historyVars>>
-----------------------------------------------------------------------------
(* Mutant of Release: wg.Done is not called. *)
ReleaseNot(h) == UNCHANGED wg

(* wg.Done, which lets go whoever waits for the handler. *)
Release(h) == wg' = [wg EXCEPT ![h] = @ - 1]

(* act, in the fire goroutine: takes the handler's mutex ...  *)
StartAct(h) ==
    /\ fire[h] = "ready"
    /\ fire' = [fire EXCEPT ![h] = "acting"]
    /\ UNCHANGED <<flight, pc, cur, registryVars, born, sema, done, quit, timer,
                   cleaning, wg, eventq, historyVars>>

(* Mutant of Act: the goroutine does not return after act. *)
ActAgain(h) ==
    /\ fire[h] = "acting"
    /\ h \notin quit
    /\ Len(eventq) < QueueSize
    /\ eventq' = Append(eventq, [msg |-> h, quorum |-> TRUE])
    /\ emitted' = emitted \cup {h}
    /\ fire' = [fire EXCEPT ![h] = "ready"]
    /\ UNCHANGED <<flight, pc, cur, registryVars, born, sema, done, quit, timer,
                   cleaning, wg, counted, heard>>

(* ... and queues the event while it holds it, waiting while the queue is full. *)
Act(h) ==
    /\ fire[h] = "acting"
    /\ \/ /\ h \notin quit
          /\ Len(eventq) < QueueSize
          /\ eventq' = Append(eventq, [msg |-> h, quorum |-> TRUE])
          /\ emitted' = emitted \cup {h}
       \/ /\ h \in quit
          /\ UNCHANGED <<eventq, emitted>>
    /\ fire' = [fire EXCEPT ![h] = "over"]
    /\ Release(h)
    /\ UNCHANGED <<flight, pc, cur, registryVars, born, sema, done, quit, timer,
                   cleaning, counted, heard>>

(* Mutant of TimeOut: it quits a handler that is done, too. *)
TimeOutAlways(h) ==
    /\ h \in timer
    /\ fire[h] # "acting"
    /\ timer' = timer \ {h}
    /\ quit' = quit \cup {h}
    /\ cleaning' = cleaning \cup {h}
    /\ Release(h)
    /\ UNCHANGED <<flight, pc, cur, registryVars, born, sema, done, fire, eventq,
                   historyVars>>

(* The timer goroutine, once its time is over: quits the handler unless it is done. *)
TimeOut(h) ==
    /\ h \in timer
    /\ fire[h] # "acting"
    /\ timer' = timer \ {h}
    /\ IF h \in done
       THEN UNCHANGED <<quit, cleaning, wg>>
       ELSE /\ quit' = quit \cup {h}
            /\ cleaning' = cleaning \cup {h}
            /\ Release(h)
    /\ UNCHANGED <<flight, pc, cur, registryVars, born, sema, done, fire, eventq,
                   historyVars>>

(***************************************************************************)
(* cleanUp, in a goroutine of its own: deletes whatever the registry has   *)
(* under the hash.                                                         *)
(***************************************************************************)
CleanUp(h) ==
    /\ h \in cleaning
    /\ mutex = None
    /\ handlers' = [handlers EXCEPT ![Hash(h)] = None]
    /\ cleaning' = cleaning \ {h}
    /\ UNCHANGED <<flight, pc, cur, mutex, born, sema, done, quit, timer, fire, wg,
                   eventq, historyVars>>
-----------------------------------------------------------------------------
Serve(w) ==
    \/ Receive(w)
    \/ PushDirect(w)
    \/ Register(w)
    \/ Check(w)
    \/ Trigger(w)
    \/ TakeEvent(w)
    \/ EndEvent(w)

Handler(h) ==
    \/ StartAct(h)
    \/ Act(h)
    \/ TimeOut(h)
    \/ CleanUp(h)

Next ==
    \/ \E m \in Messages : Lose(m)
    \/ \E w \in Workers : Serve(w)
    \/ \E h \in Messages : Handler(h)

(***************************************************************************)
(* Every goroutine that can run is run, and every timer runs out.  Nothing *)
(* has to be lost.  An idle worker that is always offered both a message   *)
(* and an event takes each sooner or later, since Go's select picks at     *)
(* random; the messages are finitely many, so weak fairness is enough.     *)
(***************************************************************************)
Fairness ==
    /\ \A w \in Workers : WF_vars(Serve(w))
    /\ \A h \in Messages :
         /\ WF_vars(StartAct(h))
         /\ WF_vars(Act(h))
         /\ WF_vars(TimeOut(h))
         /\ WF_vars(CleanUp(h))

Spec == Init /\ [][Next]_vars

FairSpec == Spec /\ Fairness
-----------------------------------------------------------------------------
(* The handlers a hash can still find, or that no goroutine has removed yet. *)
Pending == {h \in born : h \notin done \cup quit \/ h \in cleaning}

(***************************************************************************)
(* The registry holds exactly the pending handlers, each under its hash.   *)
(* Clean-up deletes by hash without looking at what it deletes: this says  *)
(* that it never takes away the handler of a later round, and that no      *)
(* handler is left behind to swallow messages for ever.                    *)
(***************************************************************************)
RegistryExact ==
    \A k \in Hashes :
        {h \in Pending : Hash(h) = k} = {handlers[k]} \ {None}

(***************************************************************************)
(* No message is counted towards two events, however the rounds of one     *)
(* hash follow one another.                                                *)
(***************************************************************************)
SpentOnce ==
    \A g, h \in Messages : counted[g] \cap counted[h] # {} => g = h

(***************************************************************************)
(* A quorum event in the queue is backed by SafteyValue + 1 messages that  *)
(* have its hash, however many workers trigger the handler at once.        *)
(***************************************************************************)
QuorumBacked ==
    \A i \in DOMAIN eventq :
        LET h == eventq[i].msg IN
        eventq[i].quorum =>
            /\ Cardinality(counted[h]) = SafteyValue + 1
            /\ \A m \in counted[h] : Hash(m) = Hash(h)

(***************************************************************************)
(* A round is decided once: it does not both time out and fire, and its    *)
(* wait group is released once (a second Done would panic).                *)
(***************************************************************************)
DecidedOnce ==
    \A h \in born :
        /\ ~(h \in done /\ h \in quit)
        /\ wg[h] = IF h \in quit \/ fire[h] = "over" THEN 0 ELSE 1

(* A handler queues its event at most once. *)
QueuedOnce ==
    [][ \A h \in Messages :
          eventq' = Append(eventq, [msg |-> h, quorum |-> TRUE]) =>
              h \notin emitted /\ h \in emitted' ]_vars

(***************************************************************************)
(* No quorum is lost: once more than SafteyValue copies with one hash have *)
(* passed Register, and no worker is at one of them any more, one of their *)
(* handlers has fired, or one has run out of time.  Register and Check     *)
(* take the registry's mutex one after the other (stdPeer.go:112), and a   *)
(* copy whose handler is removed in between is dropped; but then the       *)
(* handler was one that had fired or quit.  A copy may be counted in a     *)
(* later round than the others, or in none, but not for that reason.       *)
(***************************************************************************)
NoQuorumLost ==
    \A k \in Hashes :
        LET copies == {m \in heard : Hash(m) = k}
            rounds == {h \in born : Hash(h) = k}
        IN  /\ Cardinality(copies) > SafteyValue
            /\ \A w \in Workers : cur[w] \notin copies
            => rounds \cap (done \cup quit) # {}

(* The handler's fan-in, abstractly: see QuorumGate. *)
Gate == INSTANCE QuorumGate
            WITH Class <- Hash, Threshold <- SafteyValue + 1,
                 batch <- counted, open <- Pending

ImplementsGate == Gate!Spec

(***************************************************************************)
(* Nothing is left to do.                                                  *)
(***************************************************************************)
Quiet ==
    /\ flight = {}
    /\ eventq = <<>>
    /\ \A w \in Workers : pc[w] = "idle"
    /\ timer = {} /\ cleaning = {}
    /\ \A h \in Messages : fire[h] \in {"none", "over"}

(***************************************************************************)
(* Every worker waits for room in eventq, which only workers empty, or for *)
(* a lock whose holder does.                                               *)
(***************************************************************************)
Blocked(w) ==
    \/ pc[w] = "push"
    \/ pc[w] \in {"register", "check"} /\ mutex # None
    \/ pc[w] = "trigger" /\ fire[handlers[Hash(cur[w])]] = "acting"

Wedged == Len(eventq) = QueueSize /\ \A w \in Workers : Blocked(w)

(***************************************************************************)
(* The peer comes to rest with everything handled, or it is wedged on a    *)
(* full eventq: no other way to get stuck.                                 *)
(***************************************************************************)
RestsOrWedges == <>[](Quiet \/ Wedged)

(* With room in eventq for every event, the peer always comes to rest. *)
Rests == <>[]Quiet

(* A handler that fired or quit leaves the registry, and its waiters are released. *)
HandlerResolved ==
    \A h \in Messages :
        h \in born ~> h \notin Pending /\ wg[h] = 0
-----------------------------------------------------------------------------
(***************************************************************************)
(* The inductive invariant behind these properties, in parts.              *)
(***************************************************************************)

(* A message is in flight, or with one worker, or has been dealt with. *)
WorkersInv ==
    /\ \A w \in Workers :
         /\ cur[w] = None <=> pc[w] \in {"idle", "exec"}
         /\ cur[w] \notin flight
    /\ \A v, w \in Workers : cur[v] = cur[w] /\ cur[w] # None => v = w

(* It has created no handler before Register, and counts for none before Trigger. *)
FreshInv ==
    /\ \A m \in flight : m \notin born
    /\ \A w \in Workers : pc[w] \in {"push", "register"} => cur[w] \notin born
    /\ \A h \in Messages : \A m \in counted[h] :
         m \notin flight /\ \A w \in Workers : cur[w] # m

(* Whoever holds the registry's mutex triggers a handler that is still there. *)
MutexInv ==
    \A w \in Workers :
        /\ mutex = w <=> pc[w] = "trigger"
        /\ pc[w] = "trigger" => handlers[Hash(cur[w])] # None

(* The registry and the pending handlers, as in RegistryExact. *)
RegistryInv ==
    /\ \A k \in Hashes : handlers[k] # None => handlers[k] \in Pending /\ Hash(handlers[k]) = k
    /\ \A h \in Pending : handlers[Hash(h)] = h

(* The flags and goroutines of a handler, which has none of them before it is created. *)
HandlersInv ==
    /\ done \cup quit \subseteq born
    /\ done \cap quit = {}
    /\ cleaning \subseteq done \cup quit
    /\ timer \subseteq born \ quit
    /\ born \ (done \cup quit) \subseteq timer
    /\ \A h \in Messages : fire[h] # "none" <=> h \in done
    /\ \A h \in Messages : fire[h] = "over" <=> h \in emitted
    /\ \A h \in Messages :
         wg[h] = IF h \in born /\ h \notin quit /\ h \notin emitted THEN 1 ELSE 0

(* What a handler has counted. *)
CountInv ==
    /\ \A h \in Messages :
         /\ counted[h] # {} => h \in born
         /\ \A m \in counted[h] : Hash(m) = Hash(h)
         /\ h \in done => sema[h] = SafteyValue
         /\ Cardinality(counted[h]) = IF h \in done THEN SafteyValue + 1 ELSE sema[h]
    /\ SpentOnce

(***************************************************************************)
(* Who has passed Register has found a handler, or is one; and unless a    *)
(* worker is still at it, it has been counted by a handler or has been     *)
(* turned away by one that is decided.                                     *)
(***************************************************************************)
HeardInv ==
    /\ born \subseteq heard
    /\ \A h \in Messages : counted[h] \subseteq heard
    /\ \A m \in heard : m \notin flight
    /\ \A w \in Workers :
         /\ pc[w] \in {"push", "register"} => cur[w] \notin heard
         /\ pc[w] \in {"check", "trigger"} => cur[w] \in heard
    /\ \A m \in heard : \E h \in born : Hash(h) = Hash(m)
    /\ \A m \in heard :
         \/ \E w \in Workers : cur[w] = m
         \/ \E h \in born : Hash(h) = Hash(m) /\ (m \in counted[h] \/ Decided(h))

QueueInv == \A i \in DOMAIN eventq : eventq[i].quorum => eventq[i].msg \in emitted

Inv ==
    /\ TypeOK
    /\ WorkersInv
    /\ FreshInv
    /\ MutexInv
    /\ RegistryInv
    /\ HandlersInv
    /\ CountInv
    /\ HeardInv
    /\ QueueInv
=============================================================================
