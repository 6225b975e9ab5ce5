---------------------------- MODULE MCSyncReader ----------------------------
(* Instances of SyncReader for TLC.                                        *)
EXTENDS SyncReader, TLC

(* Used in runs without liveness properties only.                          *)
Interchangeable == Permutations(Handlers) \union Permutations(Conns)
                   \union Permutations(Convs)

(* Negative, missing, above one cap, and above both.                       *)
AnyLimits == {-1, 0, 3, 4}
=============================================================================
