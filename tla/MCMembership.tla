---------------------------- MODULE MCMembership ----------------------------
(* Small populations for Membership, IDs of three bits. *)
EXTENDS Membership

(* Two core peers, one for each half. *)
TwoBoot == {<<0, 0, 0>>, <<1, 0, 0>>}

(* The same, with core peers that are not the smallest of their halves ... *)
InnerBoot == {<<0, 1, 0>>, <<1, 1, 0>>}

(* ... and all other IDs: both halves can split again. *)
OtherJoiners == BitStrings(3) \ InnerBoot

(* Enough for one split, and one peer more that is then spare. *)
TwoJoiners == {<<0, 0, 1>>, <<1, 0, 1>>}
SpareZero == TwoJoiners \cup {<<0, 1, 1>>}

(* The half with bit 0 can split again and then no cluster has a spare peer. *)
FourJoiners == SpareZero \cup {<<0, 1, 0>>}

NoKeys == {}
OneKey == {<<0, 0, 0>>}
=============================================================================
