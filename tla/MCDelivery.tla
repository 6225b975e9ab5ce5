------------------------------ MODULE MCDelivery ------------------------------
(* Instances of Delivery for TLC.                                          *)
EXTENDS Delivery, TLC

CONSTANTS m1, m2, u1, u2, k1, k2

(* A message to two users and one to one of them: with batches of two, a   *)
(* flush may have one item, a full chunk, or a chunk and a rest.           *)
TwoMsgs == {m1, m2}
OneCopyEach == (k1 :> m1) @@ (k2 :> m2)
Listed == (m1 :> <<u1, u2>>) @@ (m2 :> <<u2>>)
Both == {u1, u2}
=============================================================================
