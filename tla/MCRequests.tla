----------------------------- MODULE MCRequests -----------------------------
(* Clusters and calls for the model checker: see README.md for what each run is for. *)
EXTENDS Requests, TLC

CONSTANTS a1, a2, h1, h2, A, H, v1, v2, x, y

(* Two clusters next to each other, with as many peers as a quorum has. *)
TwoClusters == a1 :> A @@ a2 :> A @@ h1 :> H @@ h2 :> H

TwoHops == A :> (A :> A @@ H :> H) @@ H :> (A :> A @@ H :> H)

PutAt(p, v) == [peer |-> p, op |-> "PUT", data |-> v]
GetAt(p)    == [peer |-> p, op |-> "LOOKUP", data |-> Absent]
DeleteAt(p) == [peer |-> p, op |-> "DELETE", data |-> Absent]

Scenario(callsX, callsY, waiting, lost, busy) ==
    [calls |-> x :> callsX @@ y :> callsY, patient |-> waiting, faults |-> lost,
     backlog |-> busy]

(***************************************************************************)
(* A put through another cluster; a put, then a lookup or a delete; calls  *)
(* side by side, of one peer and of two; calls with a copy or a round lost.*)
(***************************************************************************)
MixedScripts ==
    {Scenario(<<PutAt(a1, v1)>>, <<>>, FALSE, 0, 0),
     Scenario(<<GetAt(h1), PutAt(h1, v1), GetAt(h1)>>, <<>>, TRUE, 0, 0),
     Scenario(<<PutAt(h1, v1), DeleteAt(h1)>>, <<>>, FALSE, 0, 2),
     Scenario(<<GetAt(h1)>>, <<GetAt(h1)>>, TRUE, 0, 0),
     Scenario(<<PutAt(h1, v1)>>, <<GetAt(h2)>>, FALSE, 0, 1),
     Scenario(<<PutAt(h1, v1)>>, <<>>, FALSE, 2, 2),
     Scenario(<<GetAt(h1)>>, <<>>, FALSE, 2, 2)}

(* A lookup through another cluster. *)
LookupScripts == {Scenario(<<GetAt(a1)>>, <<>>, TRUE, 0, 0)}
=============================================================================
