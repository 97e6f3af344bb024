------------------------------- MODULE MemoryCache -------------------------------
(***************************************************************************)
(* internal/cache/memory: a sharded map under a byte budget.  Every shard    *)
(* has a lock; `current` is the budget, an atomic counter that writers of     *)
(* any shard reserve from; evictionMu serialises eviction and Flush.         *)
(*                                                                         *)
(* A value is a small number and Cost gives the bytes of the entry that      *)
(* holds it.  The identity of an entry is its id, as that of a *memoryEntry  *)
(* is its address: an id is used again only when nobody refers to it.  The   *)
(* access clock is left out: any entry may be the one eviction samples.      *)
(***************************************************************************)
EXTENDS Integers, FiniteSets, FiniteSetsExt

CONSTANTS
    Client,         \* goroutines that call the cache
    Key, NoKey,
    Shards,         \* number of shards
    ShardOf,        \* the shard of each key
    MaxValue,       \* values are 1 .. MaxValue; a counter overflows above it
    Cost,           \* len(key) + cap(value) of the entry that holds a value
    MaxMemory, MaxItemSize, LowWater,
    MaxEvictionRetries,
    TTLs,           \* lifetimes callers ask for, 0 is Forever
    Kinds,          \* the operations callers use
    KeySets,        \* the sets of keys of GetMany and SetMany calls
    MaxCalls,       \* bound: calls begun
    MaxTime,        \* bound: the clock
    NoClient

AllKinds == {"get", "set", "add", "counter", "forget", "touch", "flush"}

Value == 1..MaxValue

ASSUME MemoryAssumption ==
    /\ IsFiniteSet(Key) /\ IsFiniteSet(Client)
    /\ Shards \in Nat \ {0} /\ ShardOf \in [Key -> 1..Shards]
    /\ MaxValue \in Nat \ {0} /\ Cost \in [Value -> Nat]
    /\ MaxMemory \in Nat /\ MaxItemSize \in 0..MaxMemory /\ LowWater \in 0..MaxMemory
    /\ MaxEvictionRetries \in Nat \ {0}
    /\ TTLs \subseteq Nat /\ Kinds \subseteq AllKinds
    /\ KeySets \subseteq SUBSET Key
    /\ MaxCalls \in Nat /\ MaxTime \in Nat
    /\ NoKey \notin Key /\ NoClient \notin Client

VARIABLES
    entries,        \* the entry of each key; its id is 0 when there is none
    current,        \* bytes reserved
    count,          \* number of entries
    call,           \* where each client is
    ev,             \* the eviction or Flush that holds evictionMu
    maint,          \* the maintenance goroutine
    now, calls      \* the clock, and a bound

vars == <<entries, current, count, call, ev, maint, now, calls>>

None == [id |-> 0, val |-> 0, exp |-> 0]

CallIdle == [pc |-> "idle", kind |-> "get", key |-> NoKey, left |-> {}, val |-> 0, ttl |-> 0,
             need |-> 0, now |-> 0, id |-> 0, res |-> 0, alone |-> FALSE]
EvIdle == [owner |-> NoClient, pc |-> "free", at |-> 1, now |-> 0, failed |-> 0, before |-> 0,
           key |-> NoKey, id |-> 0]
MaintIdle == [now |-> 0, found |-> {}]

--------------------------------------------------------------------------------
(* Entries. *)

Live(e, t) == e.id # 0 /\ (e.exp = 0 \/ e.exp > t)

(* Mutant: an entry lives one instant too long. *)
ExpiredLate(e, t) == e.id # 0 /\ e.exp # 0 /\ e.exp < t

Expired(e, t) == e.id # 0 /\ e.exp # 0 /\ e.exp <= t

CostOf(e) == IF e.id = 0 THEN 0 ELSE Cost[e.val]

(* Mutant: a loop over the shards leaves the last one out. *)
LastButOne(s) == s + 1 >= Shards

(* Mutant: a loop over the shards goes one too far. *)
LastPassed(s) == s > Shards

Last(s) == s = Shards

KeysOf(s) == {k \in Key : ShardOf[k] = s}

Present(s) == {k \in KeysOf(s) : entries[k].id # 0}

(* Somebody still points to the entry. *)
Referenced(id) ==
    \/ \E k \in Key : entries[k].id = id
    \/ \E c \in Client : call[c].id = id
    \/ ev.id = id
    \/ \E f \in maint.found : f[2] = id

FreshId == CHOOSE id \in 1..(2 * Cardinality(Key) + Cardinality(Client) + 2) : ~Referenced(id)

(* delete(shard.entries, key), with the two counters. *)
Remove(k) ==
    /\ entries' = [entries EXCEPT ![k] = None]
    /\ current' = current - CostOf(entries[k])
    /\ count' = count - (IF entries[k].id = 0 THEN 0 ELSE 1)

(* A shard is locked over several steps by a writer that has reserved its   *)
(* bytes, by the purge of an eviction, and by Flush; every other section is  *)
(* one step.                                                                 *)
EvHolds(s) ==
    CASE ev.pc = "purging"           -> s = ev.at
      [] ev.pc = "lock"              -> s < ev.at
      [] ev.pc \in {"clear", "zero"} -> TRUE
      [] ev.pc = "unlock"            -> s <= ev.at
      [] OTHER                       -> FALSE

Free(s) ==
    /\ ~EvHolds(s)
    /\ \A c \in Client : call[c].pc = "insert" => ShardOf[call[c].key] # s

CallSet(c, r) == call' = [call EXCEPT ![c] = r]

Done(c, res) ==
    CallSet(c, [call[c] EXCEPT !.pc = "done", !.key = NoKey, !.id = 0, !.need = 0, !.now = 0,
                               !.res = res])

(* The key of the call is handled with result res: GetMany and SetMany take *)
(* the next one.                                                            *)
Answer(c, res) ==
    \/ call[c].left = {} /\ Done(c, res)
    \/ \E k \in call[c].left :
         CallSet(c, [call[c] EXCEPT !.pc = "lock", !.key = k, !.left = @ \ {k}, !.id = 0,
                                    !.need = 0, !.now = 0, !.res = res])

(* A batch ends with the first write that is refused. *)
Refuse(c) ==
    CallSet(c, [call[c] EXCEPT !.pc = "done", !.key = NoKey, !.left = {}, !.need = 0, !.res = 0])

At(c, pc, kinds) == call[c].pc = pc /\ call[c].kind \in kinds

--------------------------------------------------------------------------------
(* Calls. *)

KeysFor(kind) == CASE kind = "flush"          -> {{NoKey}}
                   [] kind \in {"get", "set"} -> KeySets
                   [] OTHER                   -> {{k} : k \in Key}

(* `alone`, a history field, holds until another call begins. *)
Call(c) ==
    /\ call[c].pc = "idle"
    /\ calls < MaxCalls
    /\ calls' = calls + 1
    /\ \E kind \in Kinds : \E keys \in KeysFor(kind) : \E k \in keys :
       \E val \in (IF kind \in {"set", "add"} THEN Value ELSE {0}) :
       \E ttl \in (CASE kind = "set"             -> TTLs
                     [] kind \in {"add", "touch"} -> TTLs \ {0}
                     [] OTHER                    -> {0}) :
         call' = [d \in Client |->
           IF d = c THEN [CallIdle EXCEPT !.pc = "lock", !.kind = kind, !.key = k,
                            !.left = keys \ {k}, !.val = val, !.ttl = ttl,
                            !.alone = kind = "set" /\ \A b \in Client : call[b].pc = "idle"]
           ELSE [call[d] EXCEPT !.alone = FALSE]]
    /\ UNCHANGED <<entries, current, count, ev, maint, now>>

Return(c) ==
    /\ call[c].pc = "done"
    /\ CallSet(c, CallIdle)
    /\ UNCHANGED <<entries, current, count, ev, maint, now, calls>>

(* Get, under the read lock; the clock is read only if there is an entry. *)
Get(c) ==
    LET k == call[c].key IN
    /\ At(c, "lock", {"get"})
    /\ Free(ShardOf[k])
    /\ IF Expired(entries[k], now)
       THEN CallSet(c, [call[c] EXCEPT !.pc = "expired", !.id = entries[k].id, !.now = now])
       ELSE Answer(c, entries[k].val)
    /\ UNCHANGED <<entries, current, count, ev, maint, now, calls>>

(* Mutant: the entry found later is taken for the one seen before. *)
ExpiredUnchecked(k, id, t) == entries[k].id # 0

(* deleteExpired removes the entry that was seen, if it is still expired. *)
StillExpired(k, id, t) == entries[k].id = id /\ Expired(entries[k], t)

DeleteExpired(k, id, t) ==
    IF StillExpired(k, id, t) THEN Remove(k) ELSE UNCHANGED <<entries, current, count>>

GetExpired(c) ==
    LET k == call[c].key IN
    /\ At(c, "expired", {"get"})
    /\ Free(ShardOf[k])
    /\ DeleteExpired(k, call[c].id, call[c].now)
    /\ Answer(c, 0)
    /\ UNCHANGED <<ev, maint, now, calls>>

Forget(c) ==
    LET k == call[c].key IN
    /\ At(c, "lock", {"forget"})
    /\ Free(ShardOf[k])
    /\ Remove(k)
    /\ Done(c, IF Live(entries[k], now) THEN 1 ELSE 0)
    /\ UNCHANGED <<ev, maint, now, calls>>

Touch(c) ==
    LET k == call[c].key IN
    /\ At(c, "lock", {"touch"})
    /\ Free(ShardOf[k])
    /\ \/ /\ Live(entries[k], now)
          /\ entries' = [entries EXCEPT ![k].exp = now + call[c].ttl]
          /\ Done(c, 1)
          /\ UNCHANGED <<current, count>>
       \/ /\ ~Live(entries[k], now)
          /\ Remove(k)
          /\ Done(c, 0)
    /\ UNCHANGED <<ev, maint, now, calls>>

--------------------------------------------------------------------------------
(* Writes: Set and Forever, SetMany, Add, Increment and Decrement.  The      *)
(* section under the shard lock is split where the bytes are reserved.       *)

Smaller(a, b) == IF a < b THEN a ELSE b

NewValue(c, old) == IF call[c].kind = "counter" THEN old.val + 1 ELSE call[c].val

Delta(c, old) == Cost[NewValue(c, old)] - CostOf(old)

(* Add and the counters delete an expired entry first; Set replaces it. *)
Discards(c) == call[c].kind # "set" /\ Expired(entries[call[c].key], now)

Old(c) == IF Discards(c) THEN None ELSE entries[call[c].key]

(* Mutant: the bytes to add are not looked at. *)
HasRoomNow(base, bytes) == base <= MaxMemory

(* tryReserve *)
HasRoom(base, bytes) == base + bytes <= MaxMemory

AddExists(c) ==
    LET k == call[c].key IN
    /\ At(c, "lock", {"add"})
    /\ Free(ShardOf[k])
    /\ Live(entries[k], now)
    /\ Done(c, 0)
    /\ UNCHANGED <<entries, current, count, ev, maint, now, calls>>

(* The item is too large, or the counter would overflow. *)
Invalid(c, old) ==
    NewValue(c, old) <= MaxValue => Cost[NewValue(c, old)] > MaxItemSize

WriteInvalid(c) ==
    /\ At(c, "lock", {"set", "add", "counter"})
    /\ Invalid(c, Old(c))
    /\ IF call[c].kind = "counter"
       THEN /\ Free(ShardOf[call[c].key])
            /\ IF Discards(c) THEN Remove(call[c].key) ELSE UNCHANGED <<entries, current, count>>
       ELSE UNCHANGED <<entries, current, count>>
    /\ Refuse(c)
    /\ UNCHANGED <<ev, maint, now, calls>>

(* The lock is taken; it is kept only if the bytes could be reserved. *)
WriteReserve(c) ==
    LET k     == call[c].key
        base  == current - (IF Discards(c) THEN CostOf(entries[k]) ELSE 0)
        delta == Delta(c, Old(c))
    IN
    /\ At(c, "lock", {"set", "add", "counter"})
    /\ Free(ShardOf[k])
    /\ ~Invalid(c, Old(c))
    /\ call[c].kind = "add" => ~Live(entries[k], now)
    /\ entries' = [entries EXCEPT ![k] = Old(c)]
    /\ count' = count - (IF Discards(c) THEN 1 ELSE 0)
    /\ \/ /\ delta <= 0 \/ HasRoom(base, delta)
          /\ current' = base + (IF delta > 0 THEN delta ELSE 0)
          /\ CallSet(c, [call[c] EXCEPT !.pc = "insert", !.now = now])
       \/ /\ delta > 0 /\ ~HasRoom(base, delta)
          /\ current' = base
          /\ CallSet(c, [call[c] EXCEPT !.pc = "evict", !.need = delta])
    /\ UNCHANGED <<ev, maint, now, calls>>

(* Add counts the lifetime from when it looked, Set from now; a counter      *)
(* keeps the deadline it has.                                                *)
Deadline(c, old) ==
    CASE call[c].kind = "counter" -> old.exp
      [] call[c].kind = "add"     -> call[c].now + call[c].ttl
      [] call[c].kind = "set"     -> IF call[c].ttl = 0 THEN 0 ELSE now + call[c].ttl

(* Mutant: the bytes of a larger entry are not given back. *)
NothingBack(delta) == 0

GivenBack(delta) == IF delta < 0 THEN -delta ELSE 0

Insert(c) ==
    LET k   == call[c].key
        old == entries[k]
    IN
    /\ call[c].pc = "insert"
    /\ entries' = [entries EXCEPT ![k] = [id |-> FreshId, val |-> NewValue(c, old),
                                          exp |-> Deadline(c, old)]]
    /\ count' = count + (IF old.id = 0 THEN 1 ELSE 0)
    /\ current' = current - GivenBack(Delta(c, old))
    /\ Answer(c, IF call[c].kind = "counter" THEN NewValue(c, old) ELSE 1)
    /\ UNCHANGED <<ev, maint, now, calls>>

--------------------------------------------------------------------------------
(* evictFor, with evictionMu held by ev.owner. *)

EvGoto(pc) == ev' = [ev EXCEPT !.pc = pc]

EvBegin(c) ==
    /\ call[c].pc = "evict" /\ ev.owner = NoClient
    /\ IF HasRoom(current, call[c].need)
       THEN CallSet(c, [call[c] EXCEPT !.pc = "lock", !.need = 0]) /\ UNCHANGED ev
       ELSE /\ CallSet(c, [call[c] EXCEPT !.pc = "evicting"])
            /\ ev' = [EvIdle EXCEPT !.owner = c, !.pc = "purge", !.now = now]
    /\ UNCHANGED <<entries, current, count, maint, now, calls>>

EvPurgeLock ==
    /\ ev.pc = "purge" /\ Free(ev.at)
    /\ EvGoto("purging")
    /\ UNCHANGED <<entries, current, count, call, maint, now, calls>>

EvPurgeKey ==
    /\ ev.pc = "purging"
    /\ \E k \in KeysOf(ev.at) : Expired(entries[k], ev.now) /\ Remove(k)
    /\ UNCHANGED <<call, ev, maint, now, calls>>

EvPurged ==
    /\ ev.pc = "purging"
    /\ \A k \in KeysOf(ev.at) : ~Expired(entries[k], ev.now)
    /\ ev' = IF Last(ev.at) THEN [ev EXCEPT !.pc = "room", !.at = 1]
             ELSE [ev EXCEPT !.pc = "purge", !.at = @ + 1]
    /\ UNCHANGED <<entries, current, count, call, maint, now, calls>>

Need == call[ev.owner].need

Target == Smaller(MaxMemory - Need, LowWater)

EvRoom ==
    /\ ev.pc = "room"
    /\ ev' = IF current <= Target THEN [ev EXCEPT !.pc = "finish"]
             ELSE [ev EXCEPT !.pc = "sample", !.before = current]
    /\ UNCHANGED <<entries, current, count, call, maint, now, calls>>

Candidate(k) == ev' = [ev EXCEPT !.pc = "try", !.key = k, !.id = entries[k].id, !.at = 1]

(* Random shards are sampled; they may all be empty. *)
EvSample ==
    /\ ev.pc = "sample"
    /\ \/ \E k \in Key : Free(ShardOf[k]) /\ entries[k].id # 0 /\ Candidate(k)
       \/ \E s \in 1..Shards : Free(s) /\ Present(s) = {} /\ EvGoto("scan")
    /\ UNCHANGED <<entries, current, count, call, maint, now, calls>>

Failure == ev' = IF current < ev.before THEN [ev EXCEPT !.pc = "room", !.failed = 0,
                                                        !.key = NoKey, !.id = 0, !.at = 1]
                 ELSE [ev EXCEPT !.pc = IF ev.failed + 1 >= MaxEvictionRetries THEN "finish"
                                        ELSE "room",
                                 !.failed = @ + 1, !.key = NoKey, !.id = 0, !.at = 1]

(* Mutant: no second look when the samples were empty. *)
ScanNothing ==
    /\ ev.pc = "scan"
    /\ Failure
    /\ UNCHANGED <<entries, current, count, call, maint, now, calls>>

EvScan ==
    /\ ev.pc = "scan" /\ Free(ev.at)
    /\ \/ \E k \in Present(ev.at) : Candidate(k)
       \/ Present(ev.at) = {} /\ ~Last(ev.at) /\ ev' = [ev EXCEPT !.at = @ + 1]
       \/ Present(ev.at) = {} /\ Last(ev.at) /\ Failure
    /\ UNCHANGED <<entries, current, count, call, maint, now, calls>>

(* tryEvictCandidate: only the entry that was sampled. *)
EvTry ==
    /\ ev.pc = "try" /\ Free(ShardOf[ev.key])
    /\ IF entries[ev.key].id = ev.id
       THEN /\ Remove(ev.key)
            /\ ev' = [ev EXCEPT !.pc = "room", !.failed = 0, !.key = NoKey, !.id = 0]
       ELSE /\ Failure
            /\ UNCHANGED <<entries, current, count>>
    /\ UNCHANGED <<call, maint, now, calls>>

(* Mutant: evictionMu is not unlocked. *)
StillOwned == [EvIdle EXCEPT !.owner = ev.owner]

Released == EvIdle

EvFinish ==
    /\ ev.pc = "finish"
    /\ IF HasRoom(current, Need)
       THEN CallSet(ev.owner, [call[ev.owner] EXCEPT !.pc = "lock", !.need = 0])
       ELSE Refuse(ev.owner)
    /\ ev' = Released
    /\ UNCHANGED <<entries, current, count, maint, now, calls>>

--------------------------------------------------------------------------------
(* Flush: evictionMu, every shard in order, and only then the maps. *)

FlBegin(c) ==
    /\ At(c, "lock", {"flush"}) /\ ev.owner = NoClient
    /\ CallSet(c, [call[c] EXCEPT !.pc = "flushing"])
    /\ ev' = [EvIdle EXCEPT !.owner = c, !.pc = "lock"]
    /\ UNCHANGED <<entries, current, count, maint, now, calls>>

FlLock ==
    /\ ev.pc = "lock" /\ Free(ev.at)
    /\ ev' = IF Last(ev.at) THEN [ev EXCEPT !.pc = "clear", !.at = 1]
             ELSE [ev EXCEPT !.at = @ + 1]
    /\ UNCHANGED <<entries, current, count, call, maint, now, calls>>

FlClear ==
    /\ ev.pc = "clear"
    /\ entries' = [k \in Key |-> None]
    /\ EvGoto("zero")
    /\ UNCHANGED <<current, count, call, maint, now, calls>>

FlZero ==
    /\ ev.pc = "zero"
    /\ current' = 0 /\ count' = 0
    /\ ev' = [ev EXCEPT !.pc = "unlock", !.at = Shards]
    /\ UNCHANGED <<entries, call, maint, now, calls>>

FlUnlock ==
    /\ ev.pc = "unlock"
    /\ IF ev.at = 1 THEN ev' = Released /\ Done(ev.owner, 1)
       ELSE ev' = [ev EXCEPT !.at = @ - 1] /\ UNCHANGED call
    /\ UNCHANGED <<entries, current, count, maint, now, calls>>

--------------------------------------------------------------------------------
(* The maintenance goroutine: expired entries of some shard are noted under  *)
(* the read lock, then deleted one by one.                                   *)

MtSample ==
    /\ maint.found = {}
    /\ \E s \in 1..Shards : \E keys \in (SUBSET KeysOf(s)) \ {{}} :
         /\ Free(s)
         /\ \A k \in keys : Expired(entries[k], now)
         /\ maint' = [found |-> {<<k, entries[k].id>> : k \in keys}, now |-> now]
    /\ UNCHANGED <<entries, current, count, call, ev, now, calls>>

MtDelete ==
    /\ \E f \in maint.found :
         /\ Free(ShardOf[f[1]])
         /\ DeleteExpired(f[1], f[2], maint.now)
         /\ maint' = IF maint.found = {f} THEN MaintIdle ELSE [maint EXCEPT !.found = @ \ {f}]
    /\ UNCHANGED <<call, ev, now, calls>>

Tick ==
    /\ now < MaxTime
    /\ now' = now + 1
    /\ UNCHANGED <<entries, current, count, call, ev, maint, calls>>

--------------------------------------------------------------------------------
Init ==
    /\ entries = [k \in Key |-> None]
    /\ current = 0 /\ count = 0
    /\ call = [c \in Client |-> CallIdle]
    /\ ev = EvIdle
    /\ maint = MaintIdle
    /\ now = 0 /\ calls = 0

CallStep(c) ==
    \/ Return(c) \/ Get(c) \/ GetExpired(c) \/ Forget(c) \/ Touch(c)
    \/ AddExists(c) \/ WriteInvalid(c) \/ WriteReserve(c) \/ Insert(c)
    \/ EvBegin(c) \/ FlBegin(c)

(* The owner of evictionMu goes on. *)
OwnerStep ==
    \/ EvPurgeLock \/ EvPurgeKey \/ EvPurged \/ EvRoom \/ EvSample \/ EvScan
    \/ EvTry \/ EvFinish \/ FlLock \/ FlClear \/ FlZero \/ FlUnlock

Next ==
    \/ \E c \in Client : Call(c) \/ CallStep(c)
    \/ OwnerStep
    \/ MtSample \/ MtDelete \/ Tick

Spec == Init /\ [][Next]_vars

(* Goroutines that can go on do, and sync.Mutex lets nobody starve. *)
Fairness == (\A c \in Client : WF_vars(CallStep(c))) /\ WF_vars(OwnerStep) /\ WF_vars(MtDelete)

FairSpec == Spec /\ Fairness

--------------------------------------------------------------------------------
Id == 0..(2 * Cardinality(Key) + Cardinality(Client) + 2)

CallPc == {"idle", "lock", "expired", "insert", "evict", "evicting", "flushing", "done"}
EvPc == {"free", "purge", "purging", "room", "sample", "scan", "try", "finish",
         "lock", "clear", "zero", "unlock"}

EntryType == [id : Id, val : 0..MaxValue, exp : Nat]
CallType == [pc : CallPc, kind : AllKinds, key : Key \cup {NoKey}, left : SUBSET (Key \cup {NoKey}),
             val : 0..MaxValue, ttl : Nat, need : Nat, now : Nat, id : Id, res : 0..MaxValue,
             alone : BOOLEAN]
EvType == [owner : Client \cup {NoClient}, pc : EvPc, at : 1..Shards, now : Nat, failed : Nat,
           before : Int, key : Key \cup {NoKey}, id : Id]
MaintType == [now : Nat, found : SUBSET (Key \X Id)]

(* The state has the shape the declarations of MemoryCache give it. *)
TypeOK ==
    /\ entries \in [Key -> EntryType]
    /\ current \in Int /\ count \in Int
    /\ call \in [Client -> CallType]
    /\ ev \in EvType
    /\ maint \in MaintType
    /\ now \in Nat /\ calls \in Nat

(* Bytes reserved for entries that are not in the map yet. *)
Reserved(c) ==
    LET delta == Delta(c, entries[call[c].key])
    IN  IF call[c].pc = "insert" /\ delta > 0 THEN delta ELSE 0

StoredBytes == SumFunction([k \in Key |-> CostOf(entries[k])])

ReservedBytes == SumFunction([c \in Client |-> Reserved(c)])

(* The atomic counters agree with the maps although no lock covers both: all *)
(* bytes reserved are those of an entry or of a write about to insert one.   *)
Accounting ==
    ev.pc # "zero" =>
        /\ current = StoredBytes + ReservedBytes
        /\ count = Cardinality({k \in Key : entries[k].id # 0})

(* The entries never outgrow the budget, whoever writes at the same time. *)
WithinBudget == StoredBytes + ReservedBytes <= MaxMemory

(* The keys some caller forgets in this step. *)
Forgotten == {call[c].key : c \in {d \in Client : call[d].kind = "forget" /\ call'[d].pc = "done"}}

(* The removal of expired entries never takes a live one: an entry written   *)
(* since another was seen to be expired stays.                               *)
ExpiryKeepsLive ==
    [][\A k \in Key :
         Live(entries[k], now) /\ entries'[k].id = 0
         => ev.pc \in {"try", "clear"} \/ k \in Forgotten]_vars

(* Live entries are evicted only once all that had expired are gone. *)
PurgesFirst ==
    ev.pc \in {"room", "sample", "scan", "try"} =>
        \A k \in Key : ~Expired(entries[k], ev.now)

(* A valid write that no other call overlaps is never refused: eviction       *)
(* always finds what it needs, whatever the samples met (cache.go:583).      *)
AloneIsStored ==
    \A c \in Client :
        /\ call[c].pc = "done" /\ call[c].kind = "set" /\ call[c].alone
        /\ Cost[call[c].val] <= MaxItemSize
        => call[c].res = 1

(* Every call returns: eviction ends, and nobody waits for ever. *)
CallsReturn == \A c \in Client : call[c].pc # "idle" ~> call[c].pc = "idle"

--------------------------------------------------------------------------------
(* What the callers see: the entry a writer is about to insert is in force   *)
(* from the moment its bytes are reserved, for the shard stays locked.       *)
Inserting(k) == {c \in Client : call[c].pc = "insert" /\ call[c].key = k}

Visible(k) ==
    IF Inserting(k) # {}
    THEN LET c == CHOOSE c \in Inserting(k) : TRUE
             deadline == Deadline(c, entries[k])
         IN  IF deadline = 0 \/ deadline > now THEN NewValue(c, entries[k]) ELSE 0
    ELSE IF Live(entries[k], now) THEN entries[k].val ELSE 0

(* The key of the call has taken effect. *)
Effective(c) ==
    \/ call[c].pc \in {"idle", "done", "insert", "expired"}
    \/ call[c].pc = "flushing" /\ ev.pc \in {"zero", "unlock"}

Seen(c) ==
    [kind |-> IF call[c].pc = "idle" THEN "idle" ELSE call[c].kind,
     todo |-> call[c].left \cup (IF Effective(c) THEN {} ELSE {call[c].key}),
     val  |-> call[c].val,
     res  |-> CASE call[c].pc = "insert"   -> IF call[c].kind = "counter" THEN
                                                 NewValue(c, entries[call[c].key]) ELSE 1
                [] call[c].pc = "expired"  -> 0
                [] call[c].pc = "flushing" -> IF Effective(c) THEN 1 ELSE 0
                [] OTHER                   -> call[c].res]

L1 == INSTANCE LossyStore WITH store <- [k \in Key |-> Visible(k)],
                               call  <- [c \in Client |-> Seen(c)]

(* The cache is a LossyStore: each operation takes effect at one moment, and *)
(* a read never returns an entry that was replaced, forgotten, flushed or    *)
(* has expired.                                                              *)
ImplementsLossyStore == L1!Spec

================================================================================
