----------------------------- MODULE MCMemoryCache -----------------------------
(* Small instances of MemoryCache. *)
EXTENDS MemoryCache, CounterArithmetic, TLC

CONSTANTS c1, c2

(* One shard per key. *)
ShardPerKey == [k \in Key |-> IF k = "k1" THEN 1 ELSE 2]

(* An entry with value v takes v bytes. *)
ValueBytes == [v \in 1..MaxValue |-> v]

(* Goroutines are interchangeable. *)
Goroutines == Permutations(Client)

Singles == {{k} : k \in Key}
Batches == (SUBSET Key) \ {{}}
================================================================================
