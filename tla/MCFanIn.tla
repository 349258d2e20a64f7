------------------------------- MODULE MCFanIn -------------------------------
(* Message sets for the model checker: see README.md for what each run is for. *)
EXTENDS FanIn, TLC

(* The workers are alike. *)
WorkerSymmetry == Permutations(Workers)

Msg(type, key, data, origin, sender) ==
    [type |-> type, key |-> key, data |-> data, origin |-> origin, sender |-> sender]

Copies(type, key, data, origin, senders) ==
    {Msg(type, key, data, origin, s) : s \in senders}

(* Two requests for one key, each from two peers, one of them its origin itself. *)
MixedMessages ==
    Copies("REQ", "k1", "v1", "o1", {"s1", "s2"})
        \cup Copies("REQ", "k1", "v2", "o2", {"s1", "o2"})

(* One request relayed by three peers and an answer. *)
FewMessages ==
    Copies("REQ", "k1", "v1", "o1", {"s1", "s2", "s3"})
        \cup Copies("RETURN", "k1", "v1", "o1", {"s1"})

(* A request and a join, both also straight from their origins. *)
FloodMessages ==
    Copies("REQ", "k1", "v1", "o1", {"o1", "s1", "s2"})
        \cup Copies("JOIN", "p1", "none", "p1", {"p1"})
=============================================================================
