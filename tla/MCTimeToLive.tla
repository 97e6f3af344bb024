------------------------------ MODULE MCTimeToLive ------------------------------
(* A small instance of TimeToLive. *)
EXTENDS TimeToLive, TLC

CONSTANTS g1, g2

(* Lifetimes of one and two seconds fit MaxDuration; the others do not. *)
AnySeconds == -1..4

Readers == Permutations(Reader)
================================================================================
