-------------------------- MODULE MCStorageBoundary --------------------------
(***************************************************************************)
(* One source for TLC, with a turn t1 that V1 has and a turn t2 that only  *)
(* a sync can bring.                                                       *)
(***************************************************************************)
EXTENDS StorageBoundary, TLC

CONSTANTS s, t1, t2, p1, p2

SourceOfTurn == [t \in Turn |-> s]
Listed == <<s>>
=============================================================================
