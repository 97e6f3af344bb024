------------------------------- MODULE LossyStore -------------------------------
(***************************************************************************)
(* What the tiered cache relies on in its L1 (cache.Cache, as MemoryCache    *)
(* keeps it): a map whose operations take effect at one moment between call  *)
(* and return, key by key, and which may refuse a write and drop an entry at *)
(* any time.  It never answers with a value that is not the current one.     *)
(***************************************************************************)
EXTENDS Naturals

CONSTANTS
    Client,     \* goroutines
    Key,
    NoKey,      \* stands for every key in a call of Flush
    MaxValue    \* values are 1 .. MaxValue, 0 is "no entry"

VARIABLES
    store,      \* the value of each key
    call        \* the call of each client: keys it has still to handle, last result

vars == <<store, call>>

Idle == [kind |-> "idle", todo |-> {}, val |-> 0, res |-> 0]

Ops == {"get", "set", "add", "counter", "forget", "touch", "flush"}

KeysFor(kind) == CASE kind = "flush"          -> {{NoKey}}
                   [] kind \in {"get", "set"} -> (SUBSET Key) \ {{}}
                   [] OTHER                   -> {{k} : k \in Key}

ValuesFor(kind) == IF kind \in {"set", "add"} THEN 1..MaxValue ELSE {0}

Init ==
    /\ store = [k \in Key |-> 0]
    /\ call = [c \in Client |-> Idle]

Invoke(c) ==
    /\ call[c].kind = "idle"
    /\ UNCHANGED store
    /\ \E kind \in Ops : \E todo \in KeysFor(kind), val \in ValuesFor(kind) :
         call' = [call EXCEPT ![c] = [kind |-> kind, todo |-> todo, val |-> val, res |-> 0]]

Pending(c, kind, k) == call[c].kind = kind /\ k \in call[c].todo

Answer(c, k, res) ==
    call' = [call EXCEPT ![c].todo = @ \ {k}, ![c].res = res]

(* The entry a write leaves may be dropped at once. *)
Put(k, v) == \E kept \in {0, v} : store' = [store EXCEPT ![k] = kept]

Get(c, k) ==
    /\ Pending(c, "get", k)
    /\ Answer(c, k, store[k])
    /\ UNCHANGED store

Set(c, k) ==
    /\ Pending(c, "set", k)
    /\ Put(k, call[c].val)
    /\ Answer(c, k, 1)

Add(c, k) ==
    /\ Pending(c, "add", k)
    /\ \/ store[k] = 0 /\ Put(k, call[c].val) /\ Answer(c, k, 1)
       \/ store[k] # 0 /\ UNCHANGED store /\ Answer(c, k, 0)

Counter(c, k) ==
    /\ Pending(c, "counter", k)
    /\ store[k] < MaxValue
    /\ Put(k, store[k] + 1)
    /\ Answer(c, k, store[k] + 1)

Forget(c, k) ==
    /\ Pending(c, "forget", k)
    /\ Answer(c, k, IF store[k] = 0 THEN 0 ELSE 1)
    /\ store' = [store EXCEPT ![k] = 0]

Touch(c, k) ==
    /\ Pending(c, "touch", k)
    /\ Answer(c, k, IF store[k] = 0 THEN 0 ELSE 1)
    /\ UNCHANGED store

Flush(c) ==
    /\ Pending(c, "flush", NoKey)
    /\ Answer(c, NoKey, 1)
    /\ store' = [k \in Key |-> 0]

(* A write is refused, and the keys of a batch that are left with it. *)
Refuse(c) ==
    /\ call[c].kind \in {"set", "add", "counter"} /\ call[c].todo # {}
    /\ call' = [call EXCEPT ![c].todo = {}, ![c].res = 0]
    /\ UNCHANGED store

Return(c) ==
    /\ call[c].kind # "idle" /\ call[c].todo = {}
    /\ call' = [call EXCEPT ![c] = Idle]
    /\ UNCHANGED store

(* Entries expire and are evicted. *)
Drop ==
    /\ UNCHANGED call
    /\ \E gone \in SUBSET Key : store' = [k \in Key |-> IF k \in gone THEN 0 ELSE store[k]]

Next ==
    \/ \E c \in Client :
         \/ \E k \in Key :
              \/ Get(c, k) \/ Set(c, k) \/ Add(c, k) \/ Counter(c, k)
              \/ Forget(c, k) \/ Touch(c, k)
         \/ Flush(c) \/ Refuse(c) \/ Return(c) \/ Invoke(c)
    \/ Drop

Spec == Init /\ [][Next]_vars
================================================================================
