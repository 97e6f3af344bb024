----------------------------- MODULE MCTieredCache -----------------------------
(* Small instances of TieredCache: two processes, one of them read. *)
EXTENDS TieredCache

CONSTANTS p1, p2, r1

OneReader == [g \in {r1} |-> p1]
================================================================================
