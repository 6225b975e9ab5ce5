-------------------------------- MODULE MCHub --------------------------------
(* Instances of Hub for TLC.                                               *)
EXTENDS Hub, TLC

CONSTANTS u1, u2, r1, r2

(* A batch for two users, in which a user comes back, and a single push    *)
(* beside it.                                                              *)
Two == {u1, u2}
TwoPushes == {r1, r2}
BatchAndSingle == r1 :> <<u1, u2, u1>> @@ r2 :> <<u1>>

(* A single push alone.                                                    *)
One == {u1}
OnePush == {r1}
Single == r1 :> <<u1>>
=============================================================================
