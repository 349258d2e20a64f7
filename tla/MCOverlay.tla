------------------------------ MODULE MCOverlay ------------------------------
(***************************************************************************)
(* Peers, orders of joins and fewer interleavings for the model checker    *)
(* (README.md says which).  What a peer can heed is heeded at once, by     *)
(* Rank, but for messages with some hashes to some peers (held): these     *)
(* take effect at any time, or at any time after the joins (last).  A      *)
(* handler that has fired is removed at once, or after it has lost all     *)
(* copies that are left (tidy), and the driver goes on when only held      *)
(* messages are left.                                                      *)
(***************************************************************************)
EXTENDS Overlay, TLC

CONSTANTS p0, p1, p2, p3, p4, p5, p6, p7, p8, p9, pA, pB, pC

Bits(n) == [i \in 1..M |-> (n \div 2^(M - i)) % 2]

(* The peers p0 to p7 are in the halves and quarters of the hypercube in equal numbers. *)
Even ==
    p0 :> Bits(0) @@ p1 :> Bits(2) @@ p2 :> Bits(4) @@ p3 :> Bits(6) @@ p4 :> Bits(8)
    @@ p5 :> Bits(10) @@ p6 :> Bits(12) @@ p7 :> Bits(14) @@ p8 :> Bits(1)
    @@ p9 :> Bits(3) @@ pA :> Bits(5) @@ pB :> Bits(7) @@ pC :> Bits(9)

(* The hashes of the messages that tell a peer to be core of the half with this label. *)
Splits(label) == {<<"SPLIT", "CORE", label, n, Len(label)>> : n \in 0..3}

(***************************************************************************)
(* Two splits; one split while messages are late; a join that is sent on   *)
(* after it; and joins that get to peers that have not been told yet that  *)
(* they are core.                                                          *)
(***************************************************************************)
EvenSchedules ==
    LET split == <<"SPLIT", "CORE", <<0>>, 1, 1>>
        ack   == <<"JOINACK", "CORE", <<0>>, 1, 1>>
    IN
    [order : {<<p1, p3, p5, p7, p8, p9, pA, pB, pC>>},
     held  : {{}, {p8, p9} \X Splits(<<0, 0>>)}, last : {TRUE}]
    \cup [order : {<<p5, p7, p3, p1, p8>>}, held : {{p3} \X Splits(<<0>>)}, last : {TRUE}]
    \cup [order : {<<p5, p7, p3, p1>>}, last : {FALSE},
          held  : {{}, {<<p1, split>>, <<p1, ack>>}, {<<p3, split>>, <<p3, <<"CONNECT", <<1>>>>>>},
                   {<<p4, <<"JOIN", p1>>>>, <<p6, <<"JOIN", p1>>>>},
                   {<<p2, <<"JOINSPARE", p1>>>>}, {<<p0, <<"JOINSPARE", p3>>>>},
                   {<<p0, <<"CONNECT", <<1>>>>>>, <<p4, <<"DISCONNECT", <<0>>>>>>}}]
    \cup [order : {<<p7, p5, p3, p1, pC>>}, last : {FALSE},
          held  : {{<<p0, <<"JOIN", pC>>>>, <<p4, <<"JOINSPARE", pC>>>>}}]

(* Three peers in each quarter, and one more. *)
Quarters ==
    p0 :> Bits(0) @@ p1 :> Bits(1) @@ p2 :> Bits(2) @@ p3 :> Bits(4) @@ p4 :> Bits(5)
    @@ p5 :> Bits(6) @@ p6 :> Bits(8) @@ p7 :> Bits(9) @@ p8 :> Bits(10)
    @@ p9 :> Bits(12) @@ pA :> Bits(13) @@ pB :> Bits(14) @@ pC :> Bits(3)

(* Two core peers get to the last join after the split that it leads to. *)
JoinLate ==
    {[order |-> <<p1, p2, p4, p5, p7, p8, pA, pB>>,
      held  |-> {<<p0, <<"JOIN", pB>>>>, <<p6, <<"JOIN", pB>>>>}, last |-> FALSE]}

(* Which messages are heeded first. *)
Rank == [SPLIT |-> 1, DISCONNECT |-> 2, CONNECT |-> 3, JOIN |-> 4, JOINTEMP |-> 5,
         JOINSPARE |-> 6, JOINACK |-> 7]

VARIABLES
    held,       \* the hashes of messages, each with a peer, that may be late
    last,       \* whether these wait until all joins are over
    tidy        \* whether copies are lost before their handler is removed

CONSTANT Schedules

MCOrders == {s.order : s \in Schedules}

MCInit ==
    /\ Init
    /\ \E s \in Schedules : order = s.order /\ held = s.held /\ last = s.last
    /\ tidy \in BOOLEAN

Late(p, m) == <<p, Hash(m)>> \in held

(* The messages that are heeded at once. *)
Prompt(p) == {m \in DOMAIN msgq[p] : ~Late(p, m) /\ (Spent(p, m) \/ Rounds(p, m) # {})}

(* The handlers that are removed at once. *)
Removed(p) == {h \in full[p] : tidy => \A m \in Prompt(p) : Hash(m) # h}

MCNext ==
    /\ LET removed == UNION {{p} \X Removed(p) : p \in Peers}
           old     == CHOOSE r \in removed : TRUE
           prompt  == UNION {{p} \X Prompt(p) : p \in Peers}
           next    == CHOOSE t \in prompt : \A u \in prompt : Rank[u[2].kind] >= Rank[t[2].kind]
       IN
       IF removed # {} THEN CleanUp(old[1], old[2])
       ELSE \/ IF prompt # {} THEN Deliver(next[1], next[2]) \/ Swallow(next[1], next[2])
               ELSE \E n \in DOMAIN order : JoinByID(n)
            \/ /\ last => \A n \in DOMAIN order : joining[order[n]] = "over"
               /\ \E p \in Peers : \E m \in DOMAIN msgq[p] : Late(p, m) /\ Deliver(p, m)
    /\ UNCHANGED <<held, last, tidy>>

MCSpec == MCInit /\ [][MCNext]_<<vars, held, last, tidy>>
=============================================================================
