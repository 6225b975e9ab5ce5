----------------------------- MODULE MCSendPath -----------------------------
(* Instances of SendPath for TLC.                                          *)
EXTENDS SendPath, TLC

(* Requests, connections, conversations and client ids are interchangeable;*)
(* used in runs without liveness properties only.                          *)
Interchangeable == Permutations(Handlers) \union Permutations(Conns)
                   \union Permutations(Convs) \union Permutations(Cids)
=============================================================================
