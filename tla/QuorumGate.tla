------------------------------ MODULE QuorumGate ------------------------------
(***************************************************************************)
(* What the fan-in of a peer promises, without workers, locks, timers or   *)
(* queues.  Messages are credited to batches, one open batch for a class   *)
(* of messages; a message is credited once, a batch takes no more than     *)
(* Threshold messages, and only a batch of Threshold messages emits its    *)
(* event, once.  A batch may be closed at any time, full or not.           *)
(***************************************************************************)
EXTENDS Naturals, FiniteSets

CONSTANTS
    Messages,       \* also the names of the batches
    Class(_),       \* what is counted together
    Threshold       \* the messages an event needs

VARIABLES
    batch,          \* the messages credited to each batch
    open,           \* the batches that may be credited
    emitted         \* the batches that emitted their event

gateVars == <<batch, open, emitted>>

Credited == UNION {batch[b] : b \in Messages}

Init ==
    /\ batch = [b \in Messages |-> {}]
    /\ open = {}
    /\ emitted = {}

(* A batch is opened once, when no batch of its class is open. *)
Open(b) ==
    /\ b \notin open
    /\ batch[b] = {}
    /\ \A c \in open : Class(c) # Class(b)
    /\ open' = open \cup {b}
    /\ UNCHANGED <<batch, emitted>>

Credit(b, m) ==
    /\ b \in open
    /\ Class(m) = Class(b)
    /\ m \notin Credited
    /\ Cardinality(batch[b]) < Threshold
    /\ batch' = [batch EXCEPT ![b] = @ \cup {m}]
    /\ UNCHANGED <<open, emitted>>

Emit(b) ==
    /\ Cardinality(batch[b]) = Threshold
    /\ b \notin emitted
    /\ emitted' = emitted \cup {b}
    /\ UNCHANGED <<batch, open>>

Close(b) ==
    /\ b \in open
    /\ open' = open \ {b}
    /\ UNCHANGED <<batch, emitted>>

Next ==
    \E b \in Messages :
        \/ Open(b)
        \/ \E m \in Messages : Credit(b, m)
        \/ Emit(b)
        \/ Close(b)

Spec == Init /\ [][Next]_gateVars
=============================================================================
