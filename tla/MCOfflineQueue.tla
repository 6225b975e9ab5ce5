--------------------------- MODULE MCOfflineQueue ---------------------------
(* Instances of OfflineQueue for TLC.                                      *)
EXTENDS OfflineQueue, TLC

CONSTANTS p1, p2, p3    \* packets, by seq

Three == {p1, p2, p3}
ThreeSeqs == (p1 :> 1) @@ (p2 :> 2) @@ (p3 :> 3)

(* Past every seq; used by a packet without one.                           *)
Millis == {5}

Alike == Permutations(Enqueuers) \union Permutations(Devices)
=============================================================================
