---------------------------- MODULE MemoryCacheProofs ----------------------------
(* Theorems about MemoryCache, for every value of its constants: the counters *)
(* agree with the maps, the entries stay within the budget, eviction purges   *)
(* first, expiry takes no live entry, and a write that no other call overlaps *)
(* is stored.  The arithmetic of the counters is exact.                      *)
EXTENDS MemoryCache, CounterArithmetic, FiniteSums

(***************************************************************************)
(* The shape of the state.                                                 *)
(***************************************************************************)

EvictPc == {"purge", "purging", "room", "sample", "scan", "try", "finish"}
FlushPc == {"lock", "clear", "zero", "unlock"}

EntryFormed(e) ==
    /\ e.id = 0 => e = None
    /\ e.id # 0 => e.val \in Value

(* What the fields of a call say of one another. *)
CallFormed(r) ==
    /\ r.left \subseteq Key
    /\ r.pc \in {"lock", "expired", "insert", "evict", "evicting"} /\ r.kind # "flush" => r.key \in Key
    /\ r.pc = "expired" => r.kind = "get"
    /\ r.pc \in {"insert", "evict", "evicting"} => r.kind \in {"set", "add", "counter"}
    /\ r.pc = "flushing" => r.kind = "flush"
    /\ r.kind \in {"set", "add"} => r.val \in Value
    /\ r.kind \in {"add", "touch"} => r.ttl > 0
    /\ r.alone => r.kind = "set"

(* evictionMu has an owner while somebody evicts or flushes, and no other     *)
(* call is in one of these sections.                                         *)
EvFormed ==
    /\ ev.pc = "free" <=> ev.owner = NoClient
    /\ ev.pc \in EvictPc => ev.owner \in Client /\ call[ev.owner].pc = "evicting"
    /\ ev.pc \in FlushPc => ev.owner \in Client /\ call[ev.owner].pc = "flushing"
    /\ \A c \in Client : call[c].pc \in {"evicting", "flushing"} => ev.owner = c
    /\ ev.pc = "try" => ev.key \in Key

(* The maintenance goroutine has noted at most one entry of a key. *)
MaintFormed == \A f, g \in maint.found : f[1] = g[1] => f = g

(* All clocks read lie in the past. *)
ClocksFormed ==
    /\ ev.now <= now /\ maint.now <= now
    /\ \A c \in Client : call[c].now <= now

(* A shard is held by one writer, or by the owner of evictionMu. *)
LocksHeld ==
    /\ \A c, d \in Client :
         /\ call[c].pc = "insert" /\ call[d].pc = "insert"
         /\ ShardOf[call[c].key] = ShardOf[call[d].key]
         => c = d
    /\ \A c \in Client : call[c].pc = "insert" => ~EvHolds(ShardOf[call[c].key])

(* What a writer has found acceptable stays so. *)
InsertsValid == \A c \in Client : call[c].pc = "insert" => ~Invalid(c, entries[call[c].key])

Shape ==
    /\ TypeOK
    /\ \A k \in Key : EntryFormed(entries[k])
    /\ \A c \in Client : CallFormed(call[c])
    /\ EvFormed /\ MaintFormed /\ ClocksFormed /\ LocksHeld /\ InsertsValid

(***************************************************************************)
(* The identity of a new entry.                                            *)
(***************************************************************************)

(* There is always an identity nobody refers to. *)
LEMMA FreshIdIs ==
  ASSUME TypeOK, MaintFormed
  PROVE  FreshId \in Id \ {0} /\ ~Referenced(FreshId)
<1> DEFINE K == Cardinality(Key)
           C == Cardinality(Client)
           N == 2 * K + C + 2
           A == {entries[k].id : k \in Key}
           B == {call[c].id : c \in Client}
           D == {f[2] : f \in maint.found}
           Refs == ((A \cup B) \cup D) \cup {ev.id}
<1>1. IsFiniteSet(Key) /\ IsFiniteSet(Client) /\ K \in Nat /\ C \in Nat
  BY MemoryAssumption, FS_CardinalityType
<1>2. IsFiniteSet(A) /\ Cardinality(A) \in Nat /\ Cardinality(A) <= K
  <2> DEFINE f == [k \in Key |-> entries[k].id]
  <2>1. DOMAIN f = Key /\ A = {f[k] : k \in Key}
    OBVIOUS
  <2> HIDE DEF f, A
  <2> QED
    BY <1>1, <2>1, FewValues
<1>3. IsFiniteSet(B) /\ Cardinality(B) \in Nat /\ Cardinality(B) <= C
  <2> DEFINE f == [c \in Client |-> call[c].id]
  <2>1. DOMAIN f = Client /\ B = {f[c] : c \in Client}
    OBVIOUS
  <2> HIDE DEF f, B
  <2> QED
    BY <1>1, <2>1, FewValues
<1>4. IsFiniteSet(D) /\ Cardinality(D) \in Nat /\ Cardinality(D) <= K
  <2> DEFINE F == maint.found
             f == [g \in F |-> g[2]]
  <2>1. F \in SUBSET (Key \X Id) /\ \A x, y \in F : x[1] = y[1] => x = y
    BY DEF TypeOK, MaintType, MaintFormed
  <2>2. DOMAIN f = F /\ D = {f[x] : x \in F}
    OBVIOUS
  <2> HIDE DEF F, f, D
  <2>3. IsFiniteSet(F) /\ Cardinality(F) \in Nat /\ Cardinality(F) <= K
    BY <1>1, <2>1, FewFound
  <2>4. IsFiniteSet(D) /\ Cardinality(D) \in Nat /\ Cardinality(D) <= Cardinality(F)
    BY <2>2, <2>3, FewValues
  <2> QED
    BY <1>1, <2>3, <2>4
<1>5. IsFiniteSet({ev.id}) /\ Cardinality({ev.id}) = 1
  BY FS_Singleton
<1>6. IsFiniteSet(Refs) /\ Cardinality(Refs) \in Nat /\ Cardinality(Refs) <= 2 * K + C + 1
  <2> HIDE DEF A, B, D, K, C
  <2>1. IsFiniteSet(A \cup B) /\ Cardinality(A \cup B) \in Nat /\ Cardinality(A \cup B) <= K + C
    BY <1>1, <1>2, <1>3, UnionCount
  <2>2. /\ IsFiniteSet((A \cup B) \cup D) /\ Cardinality((A \cup B) \cup D) \in Nat
        /\ Cardinality((A \cup B) \cup D) <= K + C + K
    BY <1>1, <1>4, <2>1, UnionCount
  <2> QED
    BY <1>1, <1>5, <2>2, UnionCount
<1>7. N \in Nat /\ IsFiniteSet(1..N) /\ Cardinality(1..N) = N
  <2>1. N \in Nat /\ N > 0 /\ N \in Int /\ 1 \in Int
    BY <1>1
  <2> HIDE DEF N
  <2> QED
    BY <2>1, FS_Interval
<1>8. ~(1..N \subseteq Refs)
  <2> SUFFICES ASSUME 1..N \subseteq Refs PROVE FALSE
    OBVIOUS
  <2>1. Cardinality(1..N) <= Cardinality(Refs)
    <3> HIDE DEF Refs, N
    <3> QED
      BY <1>6, FS_Subset
  <2> HIDE DEF Refs
  <2> QED
    BY <1>1, <1>6, <1>7, <2>1
<1>9. PICK id \in 1..N : id \notin Refs
  BY <1>8
<1>10. ~Referenced(id)
  BY <1>9 DEF Referenced
<1>11. FreshId \in 1..N /\ ~Referenced(FreshId)
  BY <1>10 DEF FreshId
<1>12. Id = 0..N
  BY DEF Id
<1> HIDE DEF N
<1> QED
  BY <1>7, <1>11, <1>12

(***************************************************************************)
(* What a step does to the calls.                                          *)
(***************************************************************************)

(* Only the call of c goes on. *)
Moved(c) ==
    /\ call' \in [Client -> CallType]
    /\ CallFormed(call'[c]) /\ call'[c].now <= now
    /\ \A d \in Client \ {c} : call'[d] = call[d]

(* The fields that say what was asked for. *)
SameQuestion(r, s) == r.kind = s.kind /\ r.val = s.val /\ r.ttl = s.ttl /\ r.alone = s.alone

LEMMA MovedBy ==
  ASSUME TypeOK, NEW c \in Client, NEW r \in CallType, CallSet(c, r),
         CallFormed(r), r.now <= now
  PROVE  Moved(c) /\ call'[c] = r
<1>1. call \in [Client -> CallType] /\ call' = [call EXCEPT ![c] = r]
  BY DEF TypeOK, CallSet
<1> QED
  BY <1>1 DEF Moved

LEMMA IdsTyped ==
  /\ 0 \in Id /\ 0 \in 0..MaxValue /\ None \in EntryType
  /\ NoKey \notin Key /\ NoClient \notin Client
  /\ MaxValue \in Nat /\ 1 \in 0..MaxValue /\ 1 \in 1..Shards /\ Shards \in Nat /\ Shards \in 1..Shards
  /\ \A k \in Key : ShardOf[k] \in 1..Shards
<1>1. Cardinality(Key) \in Nat /\ Cardinality(Client) \in Nat
  BY MemoryAssumption, FS_CardinalityType
<1>2. 0 \in Id
  BY <1>1 DEF Id
<1> QED
  BY <1>2, MemoryAssumption DEF EntryType, None

LEMMA AnswerMoves ==
  ASSUME TypeOK, NEW c \in Client, CallFormed(call[c]), NEW res \in 0..MaxValue,
         Answer(c, res), now \in Nat
  PROVE  /\ Moved(c) /\ call'[c].pc \in {"lock", "done"} /\ SameQuestion(call'[c], call[c])
         /\ call'[c].res = res
<1> DEFINE r == call[c]
<1>0. r \in CallType
  BY DEF TypeOK
<1> HIDE DEF r
<1>1. CASE Done(c, res)
  <2> DEFINE s == [r EXCEPT !.pc = "done", !.key = NoKey, !.id = 0, !.need = 0, !.now = 0,
                            !.res = res]
  <2>1. CallSet(c, s)
    BY <1>1 DEF Done, r
  <2>2. s \in CallType
    BY <1>0, IdsTyped DEF CallType, CallPc
  <2>3. s.pc = "done" /\ SameQuestion(s, r) /\ s.res = res /\ s.now = 0 /\ s.left = r.left
    BY <1>0 DEF CallType, SameQuestion
  <2> HIDE DEF s
  <2>4. CallFormed(s)
    BY <2>3 DEF CallFormed, SameQuestion, r
  <2>5. Moved(c) /\ call'[c] = s
    BY <2>1, <2>2, <2>3, <2>4, MovedBy
  <2> QED
    BY <2>3, <2>5 DEF r
<1>2. ASSUME NEW k \in call[c].left,
             CallSet(c, [call[c] EXCEPT !.pc = "lock", !.key = k, !.left = @ \ {k}, !.id = 0,
                                        !.need = 0, !.now = 0, !.res = res])
      PROVE  /\ Moved(c) /\ call'[c].pc \in {"lock", "done"} /\ SameQuestion(call'[c], call[c])
             /\ call'[c].res = res
  <2> DEFINE s == [r EXCEPT !.pc = "lock", !.key = k, !.left = r.left \ {k}, !.id = 0,
                            !.need = 0, !.now = 0, !.res = res]
  <2>1. CallSet(c, s)
    BY <1>2 DEF r
  <2>0. k \in Key
    BY <1>2 DEF CallFormed
  <2>2. s \in CallType
    BY <1>0, <2>0, IdsTyped DEF CallType, CallPc
  <2>3. /\ s.pc = "lock" /\ SameQuestion(s, r) /\ s.res = res /\ s.now = 0 /\ s.key = k
        /\ s.left \subseteq r.left
    BY <1>0 DEF CallType, SameQuestion
  <2> HIDE DEF s
  <2>4. CallFormed(s)
    BY <2>0, <2>3 DEF CallFormed, SameQuestion, r
  <2>5. Moved(c) /\ call'[c] = s
    BY <2>1, <2>2, <2>3, <2>4, MovedBy
  <2> QED
    BY <2>3, <2>5 DEF r
<1> QED
  BY <1>1, <1>2 DEF Answer

LEMMA DoneMoves ==
  ASSUME TypeOK, NEW c \in Client, CallFormed(call[c]), NEW res \in 0..MaxValue, Done(c, res)
  PROVE  /\ Moved(c) /\ call'[c].pc = "done" /\ SameQuestion(call'[c], call[c])
         /\ call'[c].res = res
<1> DEFINE r == call[c]
           s == [r EXCEPT !.pc = "done", !.key = NoKey, !.id = 0, !.need = 0, !.now = 0,
                          !.res = res]
<1>0. r \in CallType /\ now \in Nat
  BY DEF TypeOK
<1> HIDE DEF r
<1>1. CallSet(c, s)
  BY DEF Done, r
<1>2. s \in CallType
  BY <1>0, IdsTyped DEF CallType, CallPc
<1>3. s.pc = "done" /\ SameQuestion(s, r) /\ s.res = res /\ s.now = 0 /\ s.left = r.left
  BY <1>0 DEF CallType, SameQuestion
<1> HIDE DEF s
<1>4. CallFormed(s)
  BY <1>3 DEF CallFormed, SameQuestion, r
<1>5. Moved(c) /\ call'[c] = s
  BY <1>0, <1>1, <1>2, <1>3, <1>4, MovedBy
<1> QED
  BY <1>3, <1>5 DEF r

LEMMA RefuseMoves ==
  ASSUME TypeOK, NEW c \in Client, CallFormed(call[c]), call[c].now <= now, Refuse(c)
  PROVE  Moved(c) /\ call'[c].pc = "done" /\ SameQuestion(call'[c], call[c])
<1> DEFINE r == call[c]
           s == [r EXCEPT !.pc = "done", !.key = NoKey, !.left = {}, !.need = 0, !.res = 0]
<1>0. r \in CallType /\ now \in Nat /\ r.now <= now
  BY DEF TypeOK
<1>1. CallSet(c, s)
  BY DEF Refuse
<1> HIDE DEF r
<1>2. s \in CallType
  BY <1>0, IdsTyped DEF CallType, CallPc
<1>3. s.pc = "done" /\ SameQuestion(s, r) /\ s.now = r.now /\ s.left = {}
  BY <1>0 DEF CallType, SameQuestion
<1> HIDE DEF s
<1>4. CallFormed(s)
  BY <1>3 DEF CallFormed, SameQuestion, r
<1>5. Moved(c) /\ call'[c] = s
  BY <1>0, <1>1, <1>2, <1>3, <1>4, MovedBy
<1> QED
  BY <1>3, <1>5 DEF r

(* Where a client's step takes its call, and from where. *)
ClientStep(c) ==
    /\ Moved(c)
    /\ call'[c].pc # "idle" => SameQuestion(call'[c], call[c])
    /\ call[c].pc \in {"lock", "expired", "insert", "evict", "done"}
    /\ call[c].pc = "insert" => Insert(c)
    /\ call'[c].pc = "insert" => WriteReserve(c)
    /\ call'[c].pc = "evicting" => EvBegin(c)
    /\ call'[c].pc = "flushing" => FlBegin(c)

(* The numbers a write is made of. *)
LEMMA WriteNumbers ==
  ASSUME TypeOK, NEW c \in Client, CallFormed(call[c]),
         call[c].kind \in {"set", "add", "counter"},
         NEW e \in EntryType, EntryFormed(e), ~Invalid(c, e)
  PROVE  /\ NewValue(c, e) \in Value /\ Cost[NewValue(c, e)] \in Nat
         /\ Cost[NewValue(c, e)] <= MaxItemSize
         /\ CostOf(e) \in Nat /\ Delta(c, e) \in Int
         /\ Delta(c, e) = Cost[NewValue(c, e)] - CostOf(e)
<1>1. e.val \in 0..MaxValue /\ MaxValue \in Nat /\ call[c].val \in 0..MaxValue
  BY MemoryAssumption DEF EntryType, TypeOK, CallType
<1>2. NewValue(c, e) \in Value
  <2>1. CASE call[c].kind = "counter"
    <3>1. NewValue(c, e) = e.val + 1 /\ NewValue(c, e) <= MaxValue
      BY <2>1 DEF NewValue, Invalid
    <3> QED
      BY <1>1, <3>1 DEF Value
  <2>2. CASE call[c].kind # "counter"
    BY <1>1, <2>2 DEF NewValue, CallFormed
  <2> QED
    BY <2>1, <2>2
<1>3. Cost \in [Value -> Nat] /\ MaxItemSize \in Nat
  BY MemoryAssumption
<1>4. Cost[NewValue(c, e)] <= MaxItemSize
  <2>1. NewValue(c, e) <= MaxValue /\ Cost[NewValue(c, e)] \in Nat
    BY <1>1, <1>2, <1>3 DEF Value
  <2> QED
    BY <1>3, <2>1 DEF Invalid
<1>5. CostOf(e) \in Nat
  BY <1>3 DEF CostOf, EntryFormed
<1> QED
  BY <1>2, <1>3, <1>4, <1>5 DEF Delta

LEMMA OldFormed ==
  ASSUME TypeOK, NEW c \in Client, call[c].key \in Key, EntryFormed(entries[call[c].key])
  PROVE  Old(c) \in EntryType /\ EntryFormed(Old(c))
  BY IdsTyped DEF Old, TypeOK, EntryFormed, None

LEMMA ReturnMoves ==
  ASSUME Shape, NEW c \in Client, Return(c)
  PROVE  ClientStep(c)
<1>1. CallIdle \in CallType /\ CallFormed(CallIdle) /\ CallIdle.now <= now /\ CallIdle.pc = "idle"
  BY IdsTyped DEF CallIdle, CallType, CallPc, AllKinds, CallFormed, Shape, TypeOK
<1>2. Moved(c) /\ call'[c] = CallIdle
  BY <1>1, MovedBy DEF Return, Shape
<1>3. call'[c].pc = "idle"
  BY <1>1, <1>2
<1>4. call[c].pc = "done"
  BY DEF Return
<1> QED
  BY <1>2, <1>3, <1>4 DEF ClientStep

LEMMA ReadMoves ==
  ASSUME Shape, NEW c \in Client, Get(c) \/ GetExpired(c)
  PROVE  ClientStep(c)
<1> DEFINE r == call[c]
<1>0. /\ r \in CallType /\ now \in Nat /\ TypeOK /\ CallFormed(r) /\ r.now <= now
      /\ entries \in [Key -> EntryType]
  BY DEF Shape, TypeOK, ClocksFormed
<1>1. CASE Get(c)
  <2>1. r.pc = "lock" /\ r.kind = "get" /\ r.key \in Key
    BY <1>0, <1>1 DEF Get, At, CallFormed
  <2>2. CASE Expired(entries[r.key], now)
    <3> DEFINE s == [r EXCEPT !.pc = "expired", !.id = entries[r.key].id, !.now = now]
    <3>1. CallSet(c, s)
      BY <1>1, <2>2 DEF Get
    <3>2. entries[r.key].id \in Id
      BY <1>0, <2>1 DEF EntryType
    <3> HIDE DEF r
    <3>3. s \in CallType
      BY <1>0, <3>2 DEF CallType, CallPc
    <3>4. /\ s.pc = "expired" /\ SameQuestion(s, r) /\ s.now = now /\ s.left = r.left
          /\ s.key = r.key
      BY <1>0 DEF CallType, SameQuestion
    <3> HIDE DEF s
    <3>5. CallFormed(s)
      BY <1>0, <2>1, <3>4 DEF CallFormed, SameQuestion
    <3>6. Moved(c) /\ call'[c] = s
      BY <1>0, <3>1, <3>3, <3>4, <3>5, MovedBy
    <3> QED
      BY <2>1, <3>4, <3>6 DEF ClientStep, r
  <2>3. CASE Answer(c, entries[r.key].val)
    <3>1. entries[r.key].val \in 0..MaxValue
      BY <1>0, <2>1 DEF EntryType
    <3> QED
      BY <1>0, <2>1, <2>3, <3>1, AnswerMoves DEF ClientStep
  <2> QED
    BY <1>1, <2>2, <2>3 DEF Get
<1>2. CASE GetExpired(c)
  <2>1. r.pc = "expired" /\ Answer(c, 0)
    BY <1>2 DEF GetExpired, At
  <2> QED
    BY <1>0, <2>1, IdsTyped, AnswerMoves DEF ClientStep
<1> QED
  BY <1>1, <1>2

LEMMA ShortMoves ==
  ASSUME Shape, NEW c \in Client, Forget(c) \/ Touch(c) \/ AddExists(c) \/ WriteInvalid(c)
  PROVE  ClientStep(c)
<1>1. /\ TypeOK /\ CallFormed(call[c]) /\ call[c].now <= now /\ call[c].pc = "lock"
  BY DEF Shape, ClocksFormed, Forget, Touch, AddExists, WriteInvalid, At
<1>2. Done(c, 0) \/ Done(c, 1) \/ Refuse(c)
  BY DEF Forget, Touch, AddExists, WriteInvalid
<1>3. 0 \in 0..MaxValue /\ 1 \in 0..MaxValue
  BY IdsTyped
<1>4. Moved(c) /\ call'[c].pc = "done" /\ SameQuestion(call'[c], call[c])
  BY <1>1, <1>2, <1>3, DoneMoves, RefuseMoves
<1> QED
  BY <1>1, <1>4 DEF ClientStep

LEMMA ReserveMoves ==
  ASSUME Shape, NEW c \in Client, WriteReserve(c)
  PROVE  /\ ClientStep(c) /\ call[c].pc = "lock" /\ call[c].key \in Key
         /\ call'[c].pc \in {"insert", "evict"} /\ call'[c].key = call[c].key
         /\ call'[c].left = call[c].left
         /\ call'[c].pc = "insert" => call'[c].now = now
         /\ call'[c].pc = "evict" =>
              call'[c].need = Delta(c, Old(c)) /\ Delta(c, Old(c)) > 0
<1> DEFINE r == call[c]
           delta == Delta(c, Old(c))
           ins == [r EXCEPT !.pc = "insert", !.now = now]
           evi == [r EXCEPT !.pc = "evict", !.need = delta]
<1>0. /\ r \in CallType /\ now \in Nat /\ TypeOK /\ CallFormed(r) /\ r.now <= now
      /\ entries \in [Key -> EntryType]
  BY DEF Shape, TypeOK, ClocksFormed
<1>1. /\ r.pc = "lock" /\ r.kind \in {"set", "add", "counter"} /\ ~Invalid(c, Old(c))
      /\ CallSet(c, ins) \/ (delta > 0 /\ CallSet(c, evi))
  BY DEF WriteReserve, At
<1>2. r.key \in Key
  BY <1>0, <1>1 DEF CallFormed
<1>3. Old(c) \in EntryType /\ EntryFormed(Old(c))
  BY <1>0, <1>2, OldFormed DEF Shape
<1>4. delta \in Int
  BY <1>0, <1>1, <1>3, WriteNumbers
<1> HIDE DEF r, delta
<1>5. CASE CallSet(c, ins)
  <2>1. ins \in CallType
    BY <1>0 DEF CallType, CallPc
  <2>2. /\ ins.pc = "insert" /\ SameQuestion(ins, r) /\ ins.now = now /\ ins.left = r.left
        /\ ins.key = r.key
    BY <1>0 DEF CallType, SameQuestion
  <2> HIDE DEF ins
  <2>3. CallFormed(ins)
    BY <1>0, <1>1, <1>2, <2>2 DEF CallFormed, SameQuestion
  <2>4. Moved(c) /\ call'[c] = ins
    BY <1>0, <1>5, <2>1, <2>2, <2>3, MovedBy
  <2> QED
    BY <1>1, <1>2, <2>2, <2>4 DEF ClientStep, r
<1>6. CASE delta > 0 /\ CallSet(c, evi)
  <2>0. delta \in Nat
    BY <1>4, <1>6
  <2>1. evi \in CallType
    BY <1>0, <2>0 DEF CallType, CallPc
  <2>2. /\ evi.pc = "evict" /\ SameQuestion(evi, r) /\ evi.now = r.now /\ evi.left = r.left
        /\ evi.key = r.key /\ evi.need = delta
    BY <1>0 DEF CallType, SameQuestion
  <2> HIDE DEF evi
  <2>3. CallFormed(evi)
    BY <1>0, <1>1, <1>2, <2>2 DEF CallFormed, SameQuestion
  <2>4. Moved(c) /\ call'[c] = evi
    BY <1>0, <1>6, <2>1, <2>2, <2>3, MovedBy
  <2> QED
    BY <1>1, <1>2, <1>6, <2>2, <2>4 DEF ClientStep, r, delta
<1> QED
  BY <1>1, <1>5, <1>6

LEMMA InsertMoves ==
  ASSUME Shape, NEW c \in Client, Insert(c)
  PROVE  /\ ClientStep(c) /\ call[c].pc = "insert" /\ call[c].key \in Key
         /\ call'[c].pc \in {"lock", "done"}
         /\ call[c].kind = "set" => call'[c].res = 1
<1>0. /\ TypeOK /\ CallFormed(call[c]) /\ now \in Nat /\ entries \in [Key -> EntryType]
      /\ call[c].pc = "insert"
  BY DEF Shape, TypeOK, Insert
<1>1. call[c].key \in Key /\ call[c].kind \in {"set", "add", "counter"}
  BY <1>0 DEF CallFormed
<1> DEFINE e == entries[call[c].key]
           res == IF call[c].kind = "counter" THEN NewValue(c, e) ELSE 1
<1>2. e \in EntryType /\ EntryFormed(e) /\ ~Invalid(c, e)
  BY <1>0, <1>1 DEF Shape, InsertsValid
<1> HIDE DEF e
<1>3. NewValue(c, e) \in Value
  BY <1>0, <1>1, <1>2, WriteNumbers
<1>4. res \in 0..MaxValue
  BY <1>3, IdsTyped DEF Value
<1>5. Answer(c, res)
  BY DEF Insert, e
<1>6. call[c].kind = "set" => res = 1
  OBVIOUS
<1> HIDE DEF res
<1>7. /\ Moved(c) /\ call'[c].pc \in {"lock", "done"} /\ SameQuestion(call'[c], call[c])
      /\ call'[c].res = res
  BY <1>0, <1>4, <1>5, AnswerMoves
<1> QED
  BY <1>0, <1>1, <1>6, <1>7 DEF ClientStep

LEMMA QueueMoves ==
  ASSUME Shape, NEW c \in Client, EvBegin(c) \/ FlBegin(c)
  PROVE  /\ ClientStep(c) /\ ev.owner = NoClient
         /\ \/ /\ call[c].pc = "evict" /\ call'[c].pc = "lock" /\ UNCHANGED ev
            \/ /\ call[c].pc = "evict" /\ call'[c].pc = "evicting" /\ call'[c].need = call[c].need
               /\ ev' = [EvIdle EXCEPT !.owner = c, !.pc = "purge", !.now = now]
            \/ /\ call[c].pc = "lock" /\ call'[c].pc = "flushing"
               /\ ev' = [EvIdle EXCEPT !.owner = c, !.pc = "lock"]
<1> DEFINE r == call[c]
<1>0. r \in CallType /\ now \in Nat /\ TypeOK /\ CallFormed(r) /\ r.now <= now
  BY DEF Shape, TypeOK, ClocksFormed
<1>1. CASE EvBegin(c) /\ UNCHANGED ev
  <2> DEFINE s == [r EXCEPT !.pc = "lock", !.need = 0]
  <2>1. CallSet(c, s) /\ r.pc = "evict" /\ ev.owner = NoClient
    <3>1. EvIdle.owner = NoClient
      BY DEF EvIdle
    <3>2. [EvIdle EXCEPT !.owner = c, !.pc = "purge", !.now = now].owner = c
      BY DEF EvIdle
    <3> QED
      BY <1>1, <3>2, IdsTyped DEF EvBegin
  <2> HIDE DEF r
  <2>2. s \in CallType
    BY <1>0 DEF CallType, CallPc
  <2>3. /\ s.pc = "lock" /\ SameQuestion(s, r) /\ s.now = r.now /\ s.left = r.left
        /\ s.key = r.key
    BY <1>0 DEF CallType, SameQuestion
  <2> HIDE DEF s
  <2>4. CallFormed(s)
    BY <1>0, <2>1, <2>3 DEF CallFormed, SameQuestion
  <2>5. Moved(c) /\ call'[c] = s
    BY <1>0, <2>1, <2>2, <2>3, <2>4, MovedBy
  <2> QED
    BY <1>1, <2>1, <2>3, <2>5 DEF ClientStep, r
<1>2. CASE EvBegin(c) /\ ev' = [EvIdle EXCEPT !.owner = c, !.pc = "purge", !.now = now]
  <2> DEFINE s == [r EXCEPT !.pc = "evicting"]
  <2>1. CallSet(c, s) /\ r.pc = "evict" /\ ev.owner = NoClient
    <3>1. [EvIdle EXCEPT !.owner = c, !.pc = "purge", !.now = now].owner = c
      BY DEF EvIdle
    <3> QED
      BY <1>2, <3>1, IdsTyped DEF EvBegin
  <2> HIDE DEF r
  <2>2. s \in CallType
    BY <1>0 DEF CallType, CallPc
  <2>3. /\ s.pc = "evicting" /\ SameQuestion(s, r) /\ s.now = r.now /\ s.left = r.left
        /\ s.key = r.key /\ s.need = r.need
    BY <1>0 DEF CallType, SameQuestion
  <2> HIDE DEF s
  <2>4. CallFormed(s)
    BY <1>0, <2>1, <2>3 DEF CallFormed, SameQuestion
  <2>5. Moved(c) /\ call'[c] = s
    BY <1>0, <2>1, <2>2, <2>3, <2>4, MovedBy
  <2> QED
    BY <1>2, <2>1, <2>3, <2>5 DEF ClientStep, r
<1>3. CASE FlBegin(c)
  <2> DEFINE s == [r EXCEPT !.pc = "flushing"]
  <2>1. /\ CallSet(c, s) /\ r.pc = "lock" /\ r.kind = "flush" /\ ev.owner = NoClient
        /\ ev' = [EvIdle EXCEPT !.owner = c, !.pc = "lock"]
    BY <1>3 DEF FlBegin, At
  <2> HIDE DEF r
  <2>2. s \in CallType
    BY <1>0 DEF CallType, CallPc
  <2>3. /\ s.pc = "flushing" /\ SameQuestion(s, r) /\ s.now = r.now /\ s.left = r.left
        /\ s.key = r.key
    BY <1>0 DEF CallType, SameQuestion
  <2> HIDE DEF s
  <2>4. CallFormed(s)
    BY <1>0, <2>1, <2>3 DEF CallFormed, SameQuestion
  <2>5. Moved(c) /\ call'[c] = s
    BY <1>0, <2>1, <2>2, <2>3, <2>4, MovedBy
  <2> QED
    BY <1>3, <2>1, <2>3, <2>5 DEF ClientStep, r
<1> QED
  BY <1>1, <1>2, <1>3 DEF EvBegin

LEMMA ClientSteps ==
  ASSUME Shape, NEW c \in Client, CallStep(c)
  PROVE  /\ ClientStep(c) /\ UNCHANGED <<maint, now, calls>>
         /\ EvBegin(c) \/ FlBegin(c) \/ UNCHANGED ev
<1>1. ClientStep(c)
  BY ReturnMoves, ReadMoves, ShortMoves, ReserveMoves, InsertMoves, QueueMoves DEF CallStep
<1>2. UNCHANGED <<maint, now, calls>> /\ (EvBegin(c) \/ FlBegin(c) \/ UNCHANGED ev)
  BY DEF CallStep, Return, Get, GetExpired, Forget, Touch, AddExists, WriteInvalid, WriteReserve,
         Insert, EvBegin, FlBegin
<1> QED
  BY <1>1, <1>2

(* A call begins. *)
LEMMA CallBegins ==
  ASSUME Shape, NEW c \in Client, Call(c)
  PROVE  /\ call' \in [Client -> CallType] /\ calls' \in Nat
         /\ \A d \in Client : CallFormed(call'[d]) /\ call'[d].now <= now
         /\ call[c].pc = "idle" /\ call'[c].pc = "lock"
         /\ \A d \in Client \ {c} : call'[d] = [call[d] EXCEPT !.alone = FALSE]
         /\ call'[c].alone => \A d \in Client : call[d].pc = "idle"
         /\ UNCHANGED <<entries, current, count, ev, maint, now>>
<1>0. /\ call \in [Client -> CallType] /\ now \in Nat /\ calls \in Nat
      /\ \A d \in Client : CallFormed(call[d]) /\ call[d].now <= now
  BY DEF Shape, TypeOK, ClocksFormed
<1>1. PICK kind \in Kinds : \E keys \in KeysFor(kind) : \E k \in keys :
       \E val \in (IF kind \in {"set", "add"} THEN Value ELSE {0}) :
       \E ttl \in (CASE kind = "set"             -> TTLs
                     [] kind \in {"add", "touch"} -> TTLs \ {0}
                     [] OTHER                    -> {0}) :
         call' = [d \in Client |->
           IF d = c THEN [CallIdle EXCEPT !.pc = "lock", !.kind = kind, !.key = k,
                            !.left = keys \ {k}, !.val = val, !.ttl = ttl,
                            !.alone = kind = "set" /\ \A b \in Client : call[b].pc = "idle"]
           ELSE [call[d] EXCEPT !.alone = FALSE]]
  BY DEF Call
<1>2. PICK keys \in KeysFor(kind) : \E k \in keys :
       \E val \in (IF kind \in {"set", "add"} THEN Value ELSE {0}) :
       \E ttl \in (CASE kind = "set"             -> TTLs
                     [] kind \in {"add", "touch"} -> TTLs \ {0}
                     [] OTHER                    -> {0}) :
         call' = [d \in Client |->
           IF d = c THEN [CallIdle EXCEPT !.pc = "lock", !.kind = kind, !.key = k,
                            !.left = keys \ {k}, !.val = val, !.ttl = ttl,
                            !.alone = kind = "set" /\ \A b \in Client : call[b].pc = "idle"]
           ELSE [call[d] EXCEPT !.alone = FALSE]]
  BY <1>1
<1>3. PICK k \in keys, val \in (IF kind \in {"set", "add"} THEN Value ELSE {0}),
           ttl \in (CASE kind = "set"             -> TTLs
                     [] kind \in {"add", "touch"} -> TTLs \ {0}
                     [] OTHER                    -> {0}) :
         call' = [d \in Client |->
           IF d = c THEN [CallIdle EXCEPT !.pc = "lock", !.kind = kind, !.key = k,
                            !.left = keys \ {k}, !.val = val, !.ttl = ttl,
                            !.alone = kind = "set" /\ \A b \in Client : call[b].pc = "idle"]
           ELSE [call[d] EXCEPT !.alone = FALSE]]
  BY <1>2
<1> DEFINE alone == kind = "set" /\ \A b \in Client : call[b].pc = "idle"
           s == [CallIdle EXCEPT !.pc = "lock", !.kind = kind, !.key = k, !.left = keys \ {k},
                   !.val = val, !.ttl = ttl, !.alone = alone]
<1>4. /\ kind \in AllKinds /\ val \in 0..MaxValue /\ ttl \in Nat
      /\ kind \in {"set", "add"} => val \in Value
      /\ kind \in {"add", "touch"} => ttl > 0
  <2>1. kind \in AllKinds /\ TTLs \subseteq Nat /\ MaxValue \in Nat
    BY MemoryAssumption
  <2>2. val \in 0..MaxValue /\ (kind \in {"set", "add"} => val \in Value)
    BY <2>1 DEF Value
  <2>3. CASE kind = "set"
    BY <2>1, <2>2, <2>3
  <2>4. CASE kind \in {"add", "touch"}
    <3>1. ttl \in TTLs \ {0}
      BY <2>4
    <3> QED
      BY <2>1, <2>2, <3>1
  <2>5. CASE kind \notin {"set", "add", "touch"}
    <3>1. ttl = 0
      BY <2>5
    <3> QED
      BY <2>1, <2>2, <2>5, <3>1
  <2> QED
    BY <2>3, <2>4, <2>5
<1>5. /\ k \in Key \cup {NoKey} /\ keys \ {k} \subseteq Key
      /\ kind # "flush" => k \in Key
  <2>1. KeySets \subseteq SUBSET Key
    BY MemoryAssumption
  <2>2. CASE kind = "flush"
    <3>1. keys = {NoKey}
      BY <2>2 DEF KeysFor
    <3> QED
      BY <2>2, <3>1
  <2>3. CASE kind \in {"get", "set"}
    <3>1. keys \in KeySets
      BY <2>3 DEF KeysFor
    <3> QED
      BY <2>1, <3>1
  <2>4. CASE kind \notin {"flush", "get", "set"}
    <3>1. keys \in {{j} : j \in Key}
      BY <2>4 DEF KeysFor
    <3> QED
      BY <3>1
  <2> QED
    BY <2>2, <2>3, <2>4
<1>6. alone \in BOOLEAN /\ (alone => kind = "set" /\ \A b \in Client : call[b].pc = "idle")
  OBVIOUS
<1>7. call' = [d \in Client |-> IF d = c THEN s ELSE [call[d] EXCEPT !.alone = FALSE]]
  BY <1>3
<1> HIDE DEF alone
<1>8. s \in CallType
  BY <1>4, <1>5, <1>6, IdsTyped DEF CallType, CallIdle, CallPc
<1>9. /\ s.pc = "lock" /\ s.kind = kind /\ s.key = k /\ s.left = keys \ {k} /\ s.val = val
      /\ s.ttl = ttl /\ s.alone = alone /\ s.now = 0
  BY DEF CallIdle
<1> HIDE DEF s
<1>10. CallFormed(s)
  BY <1>4, <1>5, <1>6, <1>9 DEF CallFormed
<1>11. ASSUME NEW r \in CallType, CallFormed(r)
       PROVE  /\ [r EXCEPT !.alone = FALSE] \in CallType
              /\ CallFormed([r EXCEPT !.alone = FALSE])
              /\ [r EXCEPT !.alone = FALSE].now = r.now
  <2> DEFINE t == [r EXCEPT !.alone = FALSE]
  <2>1. t \in CallType
    BY DEF CallType
  <2>2. /\ t.pc = r.pc /\ t.kind = r.kind /\ t.key = r.key /\ t.left = r.left /\ t.val = r.val
        /\ t.ttl = r.ttl /\ t.now = r.now /\ t.alone = FALSE
    BY DEF CallType
  <2> HIDE DEF t
  <2>3. CallFormed(t)
    BY <1>11, <2>2 DEF CallFormed
  <2> QED
    BY <2>1, <2>2, <2>3 DEF t
<1>12. call' \in [Client -> CallType]
  BY <1>0, <1>7, <1>8, <1>11
<1>13. ASSUME NEW d \in Client PROVE CallFormed(call'[d]) /\ call'[d].now <= now
  BY <1>0, <1>7, <1>9, <1>10, <1>11
<1>14. call[c].pc = "idle" /\ calls' = calls + 1 /\ UNCHANGED <<entries, current, count, ev, maint, now>>
  BY DEF Call
<1>15. call'[c] = s /\ \A d \in Client \ {c} : call'[d] = [call[d] EXCEPT !.alone = FALSE]
  BY <1>7
<1> QED
  BY <1>0, <1>6, <1>9, <1>12, <1>13, <1>14, <1>15

(***************************************************************************)
(* What a step does to evictionMu and to the entries.                      *)
(***************************************************************************)

(* The owner of evictionMu goes on. *)
OwnerGoesOn ==
    /\ UNCHANGED call /\ ev'.owner = ev.owner /\ ev'.now = ev.now
    /\ \/ ev.pc \in EvictPc /\ ev'.pc \in EvictPc
       \/ ev.pc \in FlushPc /\ ev'.pc \in FlushPc
    /\ ev'.pc = "try" => ev'.key \in Key

(* It is done. *)
OwnerReturns ==
    /\ EvFinish \/ FlUnlock
    /\ ev.pc \in {"finish", "unlock"} /\ ev' = EvIdle /\ ev.owner \in Client
    /\ Moved(ev.owner) /\ call'[ev.owner].pc \in {"lock", "done"}
    /\ SameQuestion(call'[ev.owner], call[ev.owner])

LEMMA EvIdleTyped ==
  /\ EvIdle \in EvType /\ EvIdle.owner = NoClient /\ EvIdle.pc = "free" /\ EvIdle.now = 0
  /\ EvIdle.at = 1
  BY IdsTyped DEF EvIdle, EvType, EvPc

LEMMA FailureIs ==
  ASSUME TypeOK, Failure
  PROVE  /\ ev' \in EvType /\ ev'.owner = ev.owner /\ ev'.now = ev.now
         /\ ev'.pc \in {"room", "finish"} /\ ev'.at = 1
         /\ ev'.pc = "finish" => ev.before <= current /\ ev.failed + 1 >= MaxEvictionRetries
<1>0. ev \in EvType /\ current \in Int /\ MaxEvictionRetries \in Nat
  BY MemoryAssumption DEF TypeOK
<1>1. CASE current < ev.before
  <2>1. ev' = [ev EXCEPT !.pc = "room", !.failed = 0, !.key = NoKey, !.id = 0, !.at = 1]
    BY <1>1 DEF Failure
  <2> QED
    BY <1>0, <2>1, IdsTyped DEF EvType, EvPc
<1>2. CASE ~(current < ev.before)
  <2> DEFINE pc == IF ev.failed + 1 >= MaxEvictionRetries THEN "finish" ELSE "room"
  <2>1. ev' = [ev EXCEPT !.pc = pc, !.failed = ev.failed + 1, !.key = NoKey, !.id = 0, !.at = 1]
    BY <1>2 DEF Failure
  <2>2. /\ pc \in {"room", "finish"} /\ ev.failed + 1 \in Nat
        /\ pc = "finish" => ev.failed + 1 >= MaxEvictionRetries
    BY <1>0 DEF EvType
  <2>3. ev.before <= current
    BY <1>0, <1>2 DEF EvType
  <2> HIDE DEF pc
  <2> QED
    BY <1>0, <2>1, <2>2, <2>3, IdsTyped DEF EvType, EvPc
<1> QED
  BY <1>1, <1>2

LEMMA CandidateIs ==
  ASSUME TypeOK, NEW k \in Key, Candidate(k)
  PROVE  /\ ev' \in EvType /\ ev'.owner = ev.owner /\ ev'.now = ev.now
         /\ ev'.pc = "try" /\ ev'.key = k /\ ev'.id = entries[k].id /\ ev'.before = ev.before
<1>1. ev \in EvType /\ entries[k].id \in Id
  BY DEF TypeOK, EntryType
<1>2. ev' = [ev EXCEPT !.pc = "try", !.key = k, !.id = entries[k].id, !.at = 1]
  BY DEF Candidate
<1> QED
  BY <1>1, <1>2, IdsTyped DEF EvType, EvPc

LEMMA OwnerMoves ==
  ASSUME Shape, OwnerStep
  PROVE  /\ ev' \in EvType /\ UNCHANGED <<maint, now, calls>>
         /\ OwnerGoesOn \/ OwnerReturns
<1>0. /\ ev \in EvType /\ TypeOK /\ EvFormed /\ current \in Int /\ now \in Nat
      /\ \A c \in Client : CallFormed(call[c]) /\ call[c].now <= now
  BY DEF Shape, TypeOK, ClocksFormed
<1>1. UNCHANGED <<maint, now, calls>>
  BY DEF OwnerStep, EvPurgeLock, EvPurgeKey, EvPurged, EvRoom, EvSample, EvScan, EvTry, EvFinish,
         FlLock, FlClear, FlZero, FlUnlock
<1>2. CASE EvPurgeLock
  <2>1. ev.pc = "purge" /\ ev' = [ev EXCEPT !.pc = "purging"] /\ UNCHANGED call
    BY <1>2 DEF EvPurgeLock, EvGoto
  <2> QED
    BY <1>0, <1>1, <2>1 DEF EvType, EvPc, OwnerGoesOn, EvictPc
<1>3. CASE EvPurgeKey
  <2>1. ev.pc = "purging" /\ UNCHANGED <<call, ev>>
    BY <1>3 DEF EvPurgeKey
  <2> QED
    BY <1>0, <1>1, <2>1 DEF OwnerGoesOn, EvictPc
<1>4. CASE EvPurged
  <2>1. /\ ev.pc = "purging" /\ UNCHANGED call
        /\ ev' = IF Last(ev.at) THEN [ev EXCEPT !.pc = "room", !.at = 1]
                 ELSE [ev EXCEPT !.pc = "purge", !.at = ev.at + 1]
    BY <1>4 DEF EvPurged
  <2>2. ~Last(ev.at) => ev.at + 1 \in 1..Shards
    BY <1>0, IdsTyped DEF Last, EvType
  <2> QED
    BY <1>0, <1>1, <2>1, <2>2, IdsTyped DEF EvType, EvPc, OwnerGoesOn, EvictPc
<1>5. CASE EvRoom
  <2>1. /\ ev.pc = "room" /\ UNCHANGED call
        /\ \/ ev' = [ev EXCEPT !.pc = "finish"]
           \/ ev' = [ev EXCEPT !.pc = "sample", !.before = current]
    BY <1>5 DEF EvRoom
  <2> QED
    BY <1>0, <1>1, <2>1 DEF EvType, EvPc, OwnerGoesOn, EvictPc
<1>6. CASE EvSample
  <2>0. ev.pc = "sample" /\ UNCHANGED call
    BY <1>6 DEF EvSample
  <2>1. ASSUME NEW k \in Key, Candidate(k)
        PROVE  ev' \in EvType /\ OwnerGoesOn
    BY <1>0, <2>0, <2>1, CandidateIs DEF OwnerGoesOn, EvictPc
  <2>2. CASE ev' = [ev EXCEPT !.pc = "scan"]
    BY <1>0, <1>1, <2>0, <2>2 DEF EvType, EvPc, OwnerGoesOn, EvictPc
  <2> QED
    BY <1>1, <1>6, <2>1, <2>2 DEF EvSample, EvGoto
<1>7. CASE EvScan
  <2>0. ev.pc = "scan" /\ UNCHANGED call
    BY <1>7 DEF EvScan
  <2>1. ASSUME NEW k \in Present(ev.at), Candidate(k)
        PROVE  ev' \in EvType /\ OwnerGoesOn
    <3>1. k \in Key
      BY DEF Present, KeysOf
    <3> QED
      BY <1>0, <2>0, <2>1, <3>1, CandidateIs DEF OwnerGoesOn, EvictPc
  <2>2. CASE ~Last(ev.at) /\ ev' = [ev EXCEPT !.at = @ + 1]
    <3>1. ev.at + 1 \in 1..Shards
      BY <1>0, <2>2, IdsTyped DEF Last, EvType
    <3> QED
      BY <1>0, <1>1, <2>0, <2>2, <3>1 DEF EvType, EvPc, OwnerGoesOn, EvictPc
  <2>3. CASE Failure
    BY <1>0, <1>1, <2>0, <2>3, FailureIs DEF OwnerGoesOn, EvictPc
  <2> QED
    BY <1>1, <1>7, <2>1, <2>2, <2>3 DEF EvScan
<1>8. CASE EvTry
  <2>0. ev.pc = "try" /\ UNCHANGED call
    BY <1>8 DEF EvTry
  <2>1. CASE ev' = [ev EXCEPT !.pc = "room", !.failed = 0, !.key = NoKey, !.id = 0]
    BY <1>0, <1>1, <2>0, <2>1, IdsTyped DEF EvType, EvPc, OwnerGoesOn, EvictPc
  <2>2. CASE Failure
    BY <1>0, <1>1, <2>0, <2>2, FailureIs DEF OwnerGoesOn, EvictPc
  <2> QED
    BY <1>1, <1>8, <2>1, <2>2 DEF EvTry
<1>9. CASE EvFinish
  <2> DEFINE o == ev.owner
             r == call[o]
             s == [r EXCEPT !.pc = "lock", !.need = 0]
  <2>1. o \in Client /\ r.pc = "evicting" /\ ev.pc = "finish" /\ ev' = EvIdle
    BY <1>0, <1>9 DEF EvFinish, EvFormed, EvictPc, Released
  <2>2. r \in CallType /\ CallFormed(r) /\ r.now <= now
    BY <1>0, <2>1 DEF TypeOK
  <2>3. CASE Refuse(o)
    BY <1>0, <1>1, <1>9, <2>1, <2>2, <2>3, RefuseMoves, EvIdleTyped DEF OwnerReturns
  <2>4. CASE CallSet(o, s)
    <3> HIDE DEF r, o
    <3>1. s \in CallType
      BY <2>2 DEF CallType, CallPc
    <3>2. /\ s.pc = "lock" /\ SameQuestion(s, r) /\ s.now = r.now /\ s.left = r.left
          /\ s.key = r.key
      BY <2>2 DEF CallType, SameQuestion
    <3> HIDE DEF s
    <3>3. CallFormed(s)
      BY <2>1, <2>2, <3>2 DEF CallFormed, SameQuestion
    <3>4. Moved(o) /\ call'[o] = s
      BY <1>0, <2>1, <2>2, <2>4, <3>1, <3>2, <3>3, MovedBy
    <3> QED
      BY <1>1, <1>9, <2>1, <3>2, <3>4, EvIdleTyped DEF OwnerReturns, r, o
  <2> QED
    BY <1>9, <2>3, <2>4 DEF EvFinish
<1>10. CASE FlLock
  <2>1. /\ ev.pc = "lock" /\ UNCHANGED call
        /\ ev' = IF Last(ev.at) THEN [ev EXCEPT !.pc = "clear", !.at = 1]
                 ELSE [ev EXCEPT !.at = ev.at + 1]
    BY <1>10 DEF FlLock
  <2>2. ~Last(ev.at) => ev.at + 1 \in 1..Shards
    BY <1>0, IdsTyped DEF Last, EvType
  <2> QED
    BY <1>0, <1>1, <2>1, <2>2, IdsTyped DEF EvType, EvPc, OwnerGoesOn, FlushPc
<1>11. CASE FlClear \/ FlZero
  <2>1. /\ ev.pc \in {"clear", "zero"} /\ UNCHANGED call
        /\ \/ ev' = [ev EXCEPT !.pc = "zero"]
           \/ ev' = [ev EXCEPT !.pc = "unlock", !.at = Shards]
    BY <1>11 DEF FlClear, FlZero, EvGoto
  <2> QED
    BY <1>0, <1>1, <2>1, IdsTyped DEF EvType, EvPc, OwnerGoesOn, FlushPc
<1>12. CASE FlUnlock
  <2>1. CASE ev.at # 1
    <3>1. ev.pc = "unlock" /\ UNCHANGED call /\ ev' = [ev EXCEPT !.at = ev.at - 1]
      BY <1>12, <2>1 DEF FlUnlock
    <3>2. ev.at - 1 \in 1..Shards
      BY <1>0, <2>1, IdsTyped DEF EvType
    <3> QED
      BY <1>0, <1>1, <3>1, <3>2 DEF EvType, EvPc, OwnerGoesOn, FlushPc
  <2>2. CASE ev.at = 1
    <3>1. /\ ev.owner \in Client /\ ev.pc = "unlock" /\ ev' = EvIdle /\ Done(ev.owner, 1)
      BY <1>0, <1>12, <2>2 DEF FlUnlock, EvFormed, FlushPc, Released
    <3> QED
      BY <1>0, <1>1, <1>12, <3>1, DoneMoves, IdsTyped, EvIdleTyped DEF OwnerReturns
  <2> QED
    BY <2>1, <2>2
<1> QED
  BY <1>2, <1>3, <1>4, <1>5, <1>6, <1>7, <1>8, <1>9, <1>10, <1>11, <1>12 DEF OwnerStep

(* No writer has bytes reserved for the shard. *)
NoWriter(s) == \A c \in Client : call[c].pc = "insert" => ShardOf[call[c].key] # s

Removal == \E k \in Key : Remove(k) /\ NoWriter(ShardOf[k])

Prolonged ==
    /\ \E k \in Key, t \in Nat :
         /\ entries[k].id # 0 /\ t > now /\ NoWriter(ShardOf[k])
         /\ entries' = [entries EXCEPT ![k].exp = t]
    /\ UNCHANGED <<current, count>>

(* What a step does to the entries and the counters. *)
Effect ==
    \/ UNCHANGED <<entries, current, count>>
    \/ Removal \/ Prolonged
    \/ \E c \in Client : WriteReserve(c) \/ Insert(c)
    \/ FlClear \/ FlZero

LEMMA Effects ==
  ASSUME Shape, [Next]_vars
  PROVE  Effect
<1>0. \A s : Free(s) => NoWriter(s)
  BY DEF Free, NoWriter
<1>1. ASSUME NEW c \in Client, Call(c) \/ Return(c) \/ Get(c) \/ AddExists(c) \/ EvBegin(c) \/ FlBegin(c)
      PROVE  Effect
  BY <1>1 DEF Effect, Call, Return, Get, AddExists, EvBegin, FlBegin
<1>2. ASSUME NEW k \in Key, Free(ShardOf[k]), Remove(k) PROVE Effect
  BY <1>0, <1>2 DEF Effect, Removal
<1>3. ASSUME NEW c \in Client, GetExpired(c) \/ Forget(c) \/ Touch(c) \/ WriteInvalid(c) PROVE Effect
  <2>0. \/ call[c].pc = "expired" /\ call[c].kind = "get"
        \/ call[c].pc = "lock" /\ call[c].kind \in {"forget", "touch", "set", "add", "counter"}
    BY <1>3 DEF GetExpired, Forget, Touch, WriteInvalid, At
  <2>1. call[c].key \in Key /\ TypeOK /\ CallFormed(call[c])
    BY <2>0 DEF Shape, CallFormed
  <2>2. CASE GetExpired(c) \/ Forget(c) \/ WriteInvalid(c)
    BY <1>2, <2>1, <2>2 DEF GetExpired, DeleteExpired, Forget, WriteInvalid, Effect
  <2>3. CASE Touch(c)
    <3>1. CASE Remove(call[c].key)
      BY <1>2, <2>1, <2>3, <3>1 DEF Touch
    <3>2. CASE /\ Live(entries[call[c].key], now)
               /\ entries' = [entries EXCEPT ![call[c].key].exp = now + call[c].ttl]
               /\ UNCHANGED <<current, count>>
      <4>1. now + call[c].ttl \in Nat /\ now + call[c].ttl > now
        <5>1. call[c].ttl \in Nat /\ now \in Nat /\ call[c].kind = "touch"
          BY <2>1, <2>3 DEF TypeOK, CallType, Touch, At
        <5> QED
          BY <2>1, <5>1 DEF CallFormed
      <4>2. NoWriter(ShardOf[call[c].key])
        BY <1>0, <2>3 DEF Touch
      <4>3. entries[call[c].key].id # 0
        BY <3>2 DEF Live
      <4> QED
        BY <2>1, <3>2, <4>1, <4>2, <4>3 DEF Effect, Prolonged
    <3> QED
      BY <2>3, <3>1, <3>2 DEF Touch
  <2> QED
    BY <1>3, <2>2, <2>3
<1>4. ASSUME NEW c \in Client, WriteReserve(c) \/ Insert(c) PROVE Effect
  BY <1>4 DEF Effect
<1>5. CASE EvPurgeKey
  <2>1. PICK k \in KeysOf(ev.at) : Remove(k)
    BY <1>5 DEF EvPurgeKey
  <2>2. k \in Key /\ ShardOf[k] = ev.at
    BY DEF KeysOf
  <2>3. EvHolds(ev.at)
    BY <1>5 DEF EvPurgeKey, EvHolds
  <2>4. NoWriter(ev.at)
    BY <2>3 DEF Shape, LocksHeld, NoWriter
  <2> QED
    BY <2>1, <2>2, <2>4 DEF Effect, Removal
<1>6. CASE EvTry
  <2>1. ev.key \in Key
    BY <1>6 DEF EvTry, Shape, EvFormed
  <2> QED
    BY <1>2, <1>6, <2>1 DEF EvTry, Effect
<1>7. CASE EvPurgeLock \/ EvPurged \/ EvRoom \/ EvSample \/ EvScan \/ EvFinish \/ FlLock \/ FlUnlock
           \/ MtSample \/ Tick \/ UNCHANGED vars
  BY <1>7 DEF Effect, EvPurgeLock, EvPurged, EvRoom, EvSample, EvScan, EvFinish, FlLock, FlUnlock,
              MtSample, Tick, vars
<1>8. CASE FlClear \/ FlZero
  BY <1>8 DEF Effect
<1>9. CASE MtDelete
  <2>1. PICK f \in maint.found : Free(ShardOf[f[1]]) /\ DeleteExpired(f[1], f[2], maint.now)
    BY <1>9 DEF MtDelete
  <2>2. f[1] \in Key
    BY DEF Shape, TypeOK, MaintType
  <2> QED
    BY <1>2, <2>1, <2>2 DEF DeleteExpired, Effect
<1> QED
  BY <1>1, <1>3, <1>4, <1>5, <1>6, <1>7, <1>8, <1>9 DEF Next, CallStep, OwnerStep

(***************************************************************************)
(* The shape is kept.                                                      *)
(***************************************************************************)

(* The entry a writer inserts. *)
NewEntry(c) == [id |-> FreshId, val |-> NewValue(c, entries[call[c].key]),
                exp |-> Deadline(c, entries[call[c].key])]

LEMMA NewEntryIs ==
  ASSUME Shape, NEW c \in Client, Insert(c)
  PROVE  /\ NewEntry(c) \in EntryType /\ EntryFormed(NewEntry(c)) /\ NewEntry(c).id # 0
         /\ entries' = [entries EXCEPT ![call[c].key] = NewEntry(c)]
<1>0. /\ TypeOK /\ CallFormed(call[c]) /\ call[c] \in CallType /\ entries \in [Key -> EntryType]
      /\ now \in Nat /\ call[c].pc = "insert" /\ MaintFormed
  BY DEF Shape, TypeOK, Insert
<1>1. call[c].key \in Key /\ call[c].kind \in {"set", "add", "counter"}
  BY <1>0 DEF CallFormed
<1> DEFINE e == entries[call[c].key]
<1>2. e \in EntryType /\ EntryFormed(e) /\ ~Invalid(c, e)
  BY <1>0, <1>1 DEF Shape, InsertsValid
<1>3. entries' = [entries EXCEPT ![call[c].key] = NewEntry(c)]
  BY DEF Insert, NewEntry
<1>4. Deadline(c, e) \in Nat
  <2>1. call[c].now \in Nat /\ call[c].ttl \in Nat /\ e.exp \in Nat
    BY <1>0, <1>2 DEF CallType, EntryType
  <2> HIDE DEF e
  <2> QED
    BY <1>0, <1>1, <2>1 DEF Deadline
<1>5. NewEntry(c) = [id |-> FreshId, val |-> NewValue(c, e), exp |-> Deadline(c, e)]
  BY DEF NewEntry
<1> HIDE DEF e
<1>6. NewValue(c, e) \in Value /\ FreshId \in Id \ {0}
  BY <1>0, <1>1, <1>2, WriteNumbers, FreshIdIs
<1>7. NewEntry(c) \in EntryType /\ NewEntry(c).id # 0 /\ NewEntry(c).val \in Value
  BY <1>4, <1>5, <1>6 DEF EntryType, Value
<1> QED
  BY <1>3, <1>7 DEF EntryFormed

LEMMA CostsTyped ==
  ASSUME NEW e \in EntryType, EntryFormed(e)
  PROVE  CostOf(e) \in Nat
  BY MemoryAssumption DEF CostOf, EntryFormed

LEMMA EntriesNext ==
  ASSUME Shape, Effect
  PROVE  /\ entries' \in [Key -> EntryType] /\ current' \in Int /\ count' \in Int
         /\ \A k \in Key : EntryFormed(entries'[k])
<1>0. /\ TypeOK /\ entries \in [Key -> EntryType] /\ current \in Int /\ count \in Int
      /\ \A k \in Key : EntryFormed(entries[k]) /\ CostOf(entries[k]) \in Int
  BY CostsTyped DEF Shape, TypeOK
<1>n. None \in EntryType /\ EntryFormed(None)
  BY IdsTyped DEF EntryFormed, None
<1>1. CASE UNCHANGED <<entries, current, count>>
  BY <1>0, <1>1
<1>2. CASE Removal
  <2>1. PICK k \in Key : Remove(k)
    BY <1>2 DEF Removal
  <2> QED
    BY <1>0, <1>n, <2>1 DEF Remove
<1>3. CASE Prolonged
  <2>1. PICK k \in Key, t \in Nat : entries[k].id # 0 /\ entries' = [entries EXCEPT ![k].exp = t]
    BY <1>3 DEF Prolonged
  <2>2. [entries[k] EXCEPT !.exp = t] \in EntryType /\ EntryFormed([entries[k] EXCEPT !.exp = t])
    BY <1>0, <2>1 DEF EntryType, EntryFormed
  <2> QED
    BY <1>0, <1>3, <2>1, <2>2 DEF Prolonged
<1>4. ASSUME NEW c \in Client, WriteReserve(c)
      PROVE  /\ entries' \in [Key -> EntryType] /\ current' \in Int /\ count' \in Int
             /\ \A k \in Key : EntryFormed(entries'[k])
  <2> DEFINE k == call[c].key
             base == current - (IF Discards(c) THEN CostOf(entries[k]) ELSE 0)
             delta == Delta(c, Old(c))
  <2>1. k \in Key /\ call[c].kind \in {"set", "add", "counter"} /\ ~Invalid(c, Old(c))
    BY <1>4, ReserveMoves DEF WriteReserve, At
  <2>2. Old(c) \in EntryType /\ EntryFormed(Old(c))
    BY <1>0, <2>1, OldFormed
  <2>3. delta \in Int /\ base \in Int
    BY <1>0, <2>1, <2>2, WriteNumbers DEF Shape
  <2>4. /\ entries' = [entries EXCEPT ![k] = Old(c)]
        /\ count' = count - (IF Discards(c) THEN 1 ELSE 0)
        /\ current' \in {base + (IF delta > 0 THEN delta ELSE 0), base}
    BY <1>4 DEF WriteReserve
  <2> HIDE DEF k, base, delta
  <2> QED
    BY <1>0, <2>1, <2>2, <2>3, <2>4
<1>5. ASSUME NEW c \in Client, Insert(c)
      PROVE  /\ entries' \in [Key -> EntryType] /\ current' \in Int /\ count' \in Int
             /\ \A k \in Key : EntryFormed(entries'[k])
  <2> DEFINE k == call[c].key
             delta == Delta(c, entries[k])
  <2>1. /\ k \in Key /\ call[c].kind \in {"set", "add", "counter"} /\ ~Invalid(c, entries[k])
        /\ CallFormed(call[c])
    <3>1. call[c].pc = "insert" /\ CallFormed(call[c])
      BY <1>5 DEF Insert, Shape
    <3> QED
      BY <3>1 DEF CallFormed, Shape, InsertsValid
  <2>2. delta \in Int
    BY <1>0, <2>1, WriteNumbers
  <2>3. /\ count' = count + (IF entries[k].id = 0 THEN 1 ELSE 0)
        /\ current' = current - GivenBack(delta)
    BY <1>5 DEF Insert
  <2> HIDE DEF delta
  <2>4. GivenBack(delta) \in Int
    BY <2>2 DEF GivenBack
  <2> QED
    BY <1>0, <1>5, <2>1, <2>3, <2>4, NewEntryIs
<1>6. CASE FlClear
  BY <1>0, <1>6, <1>n DEF FlClear
<1>7. CASE FlZero
  BY <1>0, <1>7 DEF FlZero
<1> QED
  BY <1>1, <1>2, <1>3, <1>4, <1>5, <1>6, <1>7 DEF Effect

(* What a step does to the call of d. *)
CallEffect(d) ==
    \/ call'[d] = call[d]
    \/ call'[d] = [call[d] EXCEPT !.alone = FALSE] /\ UNCHANGED <<entries, ev, now>>
    \/ Call(d)
    \/ CallStep(d) /\ ClientStep(d)
    \/ OwnerStep /\ OwnerReturns /\ ev.owner = d

LEMMA CallEffects ==
  ASSUME Shape, [Next]_vars, NEW d \in Client
  PROVE  CallEffect(d)
<1>1. ASSUME NEW c \in Client, Call(c) PROVE CallEffect(d)
  BY <1>1, CallBegins DEF CallEffect
<1>2. ASSUME NEW c \in Client, CallStep(c) PROVE CallEffect(d)
  BY <1>2, ClientSteps DEF CallEffect, ClientStep, Moved
<1>3. CASE OwnerStep
  BY <1>3, OwnerMoves DEF CallEffect, OwnerGoesOn, OwnerReturns, Moved
<1>4. CASE MtSample \/ MtDelete \/ Tick \/ UNCHANGED vars
  BY <1>4 DEF CallEffect, MtSample, MtDelete, Tick, vars
<1> QED
  BY <1>1, <1>2, <1>3, <1>4 DEF Next

LEMMA CallsNext ==
  ASSUME Shape, [Next]_vars
  PROVE  /\ call' \in [Client -> CallType] /\ now' \in Nat /\ calls' \in Nat
         /\ \A c \in Client : CallFormed(call'[c]) /\ call'[c].now <= now'
         /\ now' >= now
<1>0. /\ call \in [Client -> CallType] /\ now \in Nat /\ calls \in Nat
      /\ \A c \in Client : CallFormed(call[c]) /\ call[c].now <= now /\ call[c].now \in Nat
  BY DEF Shape, TypeOK, ClocksFormed, CallType
<1>1. ASSUME NEW c \in Client, Call(c)
      PROVE  /\ call' \in [Client -> CallType] /\ now' = now /\ calls' \in Nat
             /\ \A d \in Client : CallFormed(call'[d]) /\ call'[d].now <= now
  BY <1>1, CallBegins
<1>2. ASSUME NEW c \in Client, CallStep(c)
      PROVE  /\ call' \in [Client -> CallType] /\ UNCHANGED <<now, calls>>
             /\ \A d \in Client : CallFormed(call'[d]) /\ call'[d].now <= now
  BY <1>0, <1>2, ClientSteps DEF ClientStep, Moved
<1>3. CASE OwnerStep
  BY <1>0, <1>3, OwnerMoves DEF OwnerGoesOn, OwnerReturns, Moved
<1>4. CASE MtSample \/ MtDelete \/ UNCHANGED vars
  BY <1>0, <1>4 DEF MtSample, MtDelete, vars
<1>5. CASE Tick
  <2>1. UNCHANGED <<call, calls>> /\ now' = now + 1
    BY <1>5 DEF Tick
  <2>2. \A c \in Client : call[c].now <= now + 1
    BY <1>0
  <2> QED
    BY <1>0, <2>1, <2>2
<1> QED
  BY <1>0, <1>1, <1>2, <1>3, <1>4, <1>5 DEF Next

(* A writer that holds its shard finds it as it left it. *)
LEMMA WritersKept ==
  ASSUME Shape, [Next]_vars, NEW d \in Client, call'[d].pc = "insert"
  PROVE  \/ WriteReserve(d)
         \/ /\ call[d].pc = "insert" /\ call'[d] \in {call[d], [call[d] EXCEPT !.alone = FALSE]}
            /\ call[d].key \in Key /\ entries'[call[d].key] = entries[call[d].key]
<1>0. /\ TypeOK /\ call[d] \in CallType /\ CallFormed(call[d]) /\ entries \in [Key -> EntryType]
  BY DEF Shape, TypeOK
<1>1. CASE call'[d] \in {call[d], [call[d] EXCEPT !.alone = FALSE]}
  <2>1. call[d].pc = "insert"
    BY <1>0, <1>1 DEF CallType
  <2>2. call[d].key \in Key
    BY <1>0, <2>1 DEF CallFormed
  <2> DEFINE s == ShardOf[call[d].key]
  <2>3. ~NoWriter(s) /\ ~EvHolds(s) /\ ~Free(s)
    BY <2>1 DEF NoWriter, Shape, LocksHeld, Free
  <2>4. entries'[call[d].key] = entries[call[d].key]
    <3>1. CASE UNCHANGED <<entries, current, count>> \/ FlZero
      BY <3>1 DEF FlZero
    <3>2. CASE Removal
      BY <1>0, <2>2, <2>3, <3>2 DEF Removal, Remove
    <3>3. CASE Prolonged
      BY <1>0, <2>2, <2>3, <3>3 DEF Prolonged
    <3>4. ASSUME NEW c \in Client, WriteReserve(c) PROVE entries'[call[d].key] = entries[call[d].key]
      BY <1>0, <2>2, <2>3, <3>4 DEF WriteReserve
    <3>5. ASSUME NEW c \in Client, Insert(c) PROVE entries'[call[d].key] = entries[call[d].key]
      <4>1. c # d
        BY <3>5, <1>1, <2>1, InsertMoves DEF CallType, ClientStep
      <4>2. call[c].pc = "insert" /\ ShardOf[call[c].key] # s
        BY <2>1, <3>5, <4>1 DEF Insert, Shape, LocksHeld
      <4> QED
        BY <1>0, <2>2, <3>5, <4>2 DEF Insert
    <3>6. CASE FlClear
      BY <2>3, <3>6 DEF FlClear, EvHolds
    <3> QED
      BY <3>1, <3>2, <3>3, <3>4, <3>5, <3>6, Effects DEF Effect
  <2> QED
    BY <1>1, <2>1, <2>2, <2>4
<1>2. CASE Call(d)
  BY <1>2, CallBegins
<1>3. CASE CallStep(d) /\ ClientStep(d)
  BY <1>3 DEF ClientStep
<1>4. CASE OwnerReturns /\ ev.owner = d
  BY <1>4 DEF OwnerReturns
<1> QED
  BY <1>1, <1>2, <1>3, <1>4, CallEffects DEF CallEffect

(* evictionMu is as it was, is taken, or its owner goes on. *)
LEMMA EvEffects ==
  ASSUME Shape, [Next]_vars
  PROVE  \/ UNCHANGED ev /\ ~OwnerStep
         \/ \E c \in Client : (EvBegin(c) \/ FlBegin(c)) /\ CallStep(c)
         \/ OwnerStep
<1>1. ASSUME NEW c \in Client, Call(c) PROVE UNCHANGED ev
  BY <1>1 DEF Call
<1>2. ASSUME NEW c \in Client, CallStep(c) PROVE UNCHANGED ev \/ EvBegin(c) \/ FlBegin(c)
  BY <1>2, ClientSteps
<1>3. CASE MtSample \/ MtDelete \/ Tick \/ UNCHANGED vars
  BY <1>3 DEF MtSample, MtDelete, Tick, vars
<1> QED
  BY <1>1, <1>2, <1>3 DEF Next

LEMMA EvNext ==
  ASSUME Shape, [Next]_vars
  PROVE  ev' \in EvType /\ EvFormed' /\ ev'.now <= now'
<1>0. /\ ev \in EvType /\ EvFormed /\ ev.now <= now /\ now \in Nat /\ now' \in Nat /\ now' >= now
      /\ ev.now \in Nat
  BY CallsNext DEF Shape, TypeOK, ClocksFormed, EvType
<1>1. CASE UNCHANGED ev
  <2>1. ASSUME NEW d \in Client
        PROVE  \/ call'[d].pc = call[d].pc
               \/ /\ call[d].pc \notin {"evicting", "flushing"}
                  /\ call'[d].pc \notin {"evicting", "flushing"}
    <3>1. call[d] \in CallType
      BY DEF Shape, TypeOK
    <3>2. CASE call'[d] = call[d] \/ call'[d] = [call[d] EXCEPT !.alone = FALSE]
      BY <3>1, <3>2 DEF CallType
    <3>3. CASE Call(d)
      BY <3>3, CallBegins
    <3>4. CASE CallStep(d) /\ ClientStep(d)
      <4>1. ASSUME EvBegin(d) \/ FlBegin(d)
            PROVE  call'[d].pc = "lock" \/ ev'.owner = d
        <5>1. /\ [EvIdle EXCEPT !.owner = d, !.pc = "purge", !.now = now].owner = d
              /\ [EvIdle EXCEPT !.owner = d, !.pc = "lock"].owner = d
          BY DEF EvIdle
        <5> QED
          BY <4>1, <5>1, QueueMoves
      <4>2. EvBegin(d) \/ FlBegin(d) => ev.owner = NoClient
        BY QueueMoves
      <4> QED
        BY <1>1, <3>4, <4>1, <4>2, IdsTyped DEF ClientStep
    <3>5. CASE OwnerStep /\ OwnerReturns
      BY <1>1, <3>5, EvIdleTyped, IdsTyped DEF OwnerReturns
    <3> QED
      BY <3>2, <3>3, <3>4, <3>5, CallEffects DEF CallEffect
  <2>2. EvFormed'
    BY <1>0, <1>1, <2>1 DEF EvFormed, EvictPc, FlushPc
  <2> QED
    BY <1>0, <1>1, <2>2
<1>2. ASSUME NEW c \in Client, EvBegin(c) \/ FlBegin(c), CallStep(c)
      PROVE  ev' \in EvType /\ EvFormed' /\ ev'.now <= now'
  <2>1. Moved(c) /\ ev.owner = NoClient /\ now' = now /\ c # NoClient
    BY <1>2, QueueMoves, ClientSteps, IdsTyped DEF ClientStep
  <2>2. CASE call'[c].pc = "lock" /\ UNCHANGED ev
    BY <1>1, <2>2
  <2>3. ASSUME /\ ev' \in EvType /\ ev'.owner = c /\ ev'.now <= now
               /\ \/ ev'.pc = "purge" /\ call'[c].pc = "evicting"
                  \/ ev'.pc = "lock" /\ call'[c].pc = "flushing"
        PROVE  ev' \in EvType /\ EvFormed' /\ ev'.now <= now'
    <3>1. \A d \in Client \ {c} : call'[d].pc \notin {"evicting", "flushing"}
      BY <1>0, <2>1, IdsTyped DEF Moved, EvFormed
    <3>2. EvFormed'
      BY <2>1, <2>3, <3>1 DEF EvFormed, EvictPc, FlushPc
    <3> QED
      BY <2>1, <2>3, <3>2
  <2>4. CASE /\ call'[c].pc = "evicting"
             /\ ev' = [EvIdle EXCEPT !.owner = c, !.pc = "purge", !.now = now]
    <3>1. ev' \in EvType /\ ev'.owner = c /\ ev'.now = now /\ ev'.pc = "purge"
      BY <1>0, <2>4, EvIdleTyped DEF EvType, EvPc
    <3> QED
      BY <1>0, <2>3, <2>4, <3>1
  <2>5. CASE call'[c].pc = "flushing" /\ ev' = [EvIdle EXCEPT !.owner = c, !.pc = "lock"]
    <3>1. ev' \in EvType /\ ev'.owner = c /\ ev'.now = 0 /\ ev'.pc = "lock"
      BY <1>0, <2>5, EvIdleTyped DEF EvType, EvPc
    <3> QED
      BY <1>0, <2>3, <2>5, <3>1
  <2> QED
    BY <1>2, <2>2, <2>4, <2>5, QueueMoves
<1>3. CASE OwnerStep
  <2>1. ev' \in EvType /\ now' = now
    BY <1>3, OwnerMoves
  <2>2. CASE OwnerGoesOn
    BY <1>0, <2>1, <2>2, IdsTyped DEF OwnerGoesOn, EvFormed, EvictPc, FlushPc
  <2>3. CASE OwnerReturns
    BY <1>0, <2>1, <2>3, EvIdleTyped DEF OwnerReturns, EvFormed, EvictPc, FlushPc, Moved
  <2> QED
    BY <1>3, <2>2, <2>3, OwnerMoves
<1> QED
  BY <1>1, <1>2, <1>3, EvEffects

LEMMA MaintNext ==
  ASSUME Shape, [Next]_vars
  PROVE  maint' \in MaintType /\ MaintFormed' /\ maint'.now <= now'
<1>0. /\ maint \in MaintType /\ MaintFormed /\ maint.now <= now /\ now \in Nat /\ now' \in Nat
      /\ now' >= now /\ maint.now \in Nat /\ entries \in [Key -> EntryType]
  BY CallsNext DEF Shape, TypeOK, ClocksFormed, MaintType
<1>1. CASE UNCHANGED maint
  BY <1>0, <1>1 DEF MaintFormed
<1>2. CASE MtSample
  <2>1. PICK s \in 1..Shards : \E keys \in (SUBSET KeysOf(s)) \ {{}} :
          maint' = [found |-> {<<k, entries[k].id>> : k \in keys}, now |-> now]
    BY <1>2 DEF MtSample
  <2>2. PICK keys \in (SUBSET KeysOf(s)) \ {{}} :
          maint' = [found |-> {<<k, entries[k].id>> : k \in keys}, now |-> now]
    BY <2>1
  <2>3. keys \subseteq Key
    BY DEF KeysOf
  <2>4. {<<k, entries[k].id>> : k \in keys} \in SUBSET (Key \X Id)
    BY <1>0, <2>3 DEF EntryType
  <2>5. maint'.found = {<<k, entries[k].id>> : k \in keys} /\ maint'.now = now
    BY <2>2
  <2>6. MaintFormed'
    BY <2>5 DEF MaintFormed
  <2>7. maint' \in MaintType
    BY <1>0, <2>2, <2>4 DEF MaintType
  <2> QED
    BY <1>0, <2>5, <2>6, <2>7
<1>3. CASE MtDelete
  <2>1. PICK f \in maint.found :
          maint' = IF maint.found = {f} THEN MaintIdle
                   ELSE [maint EXCEPT !.found = maint.found \ {f}]
    BY <1>3 DEF MtDelete
  <2>2. CASE maint' = MaintIdle
    BY <1>0, <2>2 DEF MaintIdle, MaintType, MaintFormed
  <2>3. CASE maint' = [maint EXCEPT !.found = maint.found \ {f}]
    BY <1>0, <2>3 DEF MaintType, MaintFormed
  <2> QED
    BY <2>1, <2>2, <2>3
<1>4. ASSUME NEW c \in Client, Call(c) \/ CallStep(c) PROVE UNCHANGED maint
  BY <1>4, ClientSteps DEF Call
<1>5. CASE OwnerStep
  BY <1>1, <1>5, OwnerMoves
<1>6. CASE Tick \/ UNCHANGED vars
  BY <1>1, <1>6 DEF Tick, vars
<1> QED
  BY <1>1, <1>2, <1>3, <1>4, <1>5, <1>6 DEF Next

(* The owner of evictionMu does not take the shard of a writer. *)
LEMMA HeldNext ==
  ASSUME Shape, OwnerStep, NEW s \in 1..Shards, ~NoWriter(s), ~EvHolds(s)
  PROVE  ~EvHolds(s)'
<1>0. /\ ev \in EvType /\ ev' \in EvType /\ s \in Nat /\ ev.at \in Nat /\ Shards \in Nat
      /\ ev.at <= Shards /\ 1 <= s /\ s <= Shards /\ ~Free(s)
  BY OwnerMoves, IdsTyped DEF Shape, TypeOK, EvType, Free, NoWriter
<1>1. ev'.pc \notin {"purging", "lock", "clear", "zero", "unlock"} => ~EvHolds(s)'
  BY DEF EvHolds
<1>2. CASE EvPurgeLock
  <2>1. s # ev.at /\ ev'.pc = "purging" /\ ev'.at = ev.at
    BY <1>0, <1>2 DEF EvPurgeLock, EvGoto, EvType
  <2> QED
    BY <2>1 DEF EvHolds
<1>3. CASE EvPurgeKey
  BY <1>3 DEF EvPurgeKey, EvHolds
<1>4. CASE EvPurged
  <2>1. ev'.pc \in {"room", "purge"}
    BY <1>0, <1>4 DEF EvPurged, EvType
  <2> QED
    BY <1>1, <2>1
<1>5. CASE EvRoom \/ EvSample \/ EvScan \/ EvTry
  <2>1. Failure => ev'.pc \in {"room", "finish"}
    BY FailureIs DEF Shape
  <2>2. \A k : Candidate(k) => ev'.pc = "try"
    BY <1>0 DEF Candidate, EvType
  <2>3. EvScan => ev'.pc \in {"scan", "try", "room", "finish"}
    BY <1>0, <2>1, <2>2 DEF EvScan, EvType
  <2>4. EvSample => ev'.pc \in {"scan", "try"}
    BY <1>0, <2>2 DEF EvSample, EvType, EvGoto
  <2>5. EvRoom => ev'.pc \in {"finish", "sample"}
    BY <1>0 DEF EvRoom, EvType
  <2>6. EvTry => ev'.pc \in {"room", "finish"}
    BY <1>0, <2>1 DEF EvTry, EvType
  <2> QED
    BY <1>1, <1>5, <2>3, <2>4, <2>5, <2>6
<1>6. CASE EvFinish
  BY <1>1, <1>6, EvIdleTyped DEF EvFinish, Released
<1>7. CASE FlLock
  <2>1. s # ev.at /\ ev.pc = "lock" /\ ~(s < ev.at)
    BY <1>0, <1>7 DEF FlLock, EvHolds
  <2>2. CASE Last(ev.at)
    BY <1>0, <2>1, <2>2 DEF Last
  <2>3. CASE ~Last(ev.at)
    <3>1. ev'.pc = "lock" /\ ev'.at = ev.at + 1
      BY <1>0, <1>7, <2>3 DEF FlLock, EvType
    <3>2. ~(s < ev.at + 1)
      BY <1>0, <2>1
    <3> QED
      BY <3>1, <3>2 DEF EvHolds
  <2> QED
    BY <2>2, <2>3
<1>8. CASE FlClear \/ FlZero
  BY <1>8 DEF FlClear, FlZero, EvHolds
<1>9. CASE FlUnlock
  <2>1. ev.pc = "unlock" /\ ~(s <= ev.at)
    BY <1>9 DEF FlUnlock, EvHolds
  <2>2. CASE ev.at = 1
    BY <1>1, <1>9, <2>2, EvIdleTyped DEF FlUnlock, Released
  <2>3. CASE ev.at # 1
    <3>1. ev'.pc = "unlock" /\ ev'.at = ev.at - 1
      BY <1>0, <1>9, <2>1, <2>3 DEF FlUnlock, EvType
    <3>2. ~(s <= ev.at - 1)
      BY <1>0, <2>1
    <3> QED
      BY <3>1, <3>2 DEF EvHolds
  <2> QED
    BY <2>2, <2>3
<1> QED
  BY <1>2, <1>3, <1>4, <1>5, <1>6, <1>7, <1>8, <1>9 DEF OwnerStep

LEMMA LocksNext ==
  ASSUME Shape, [Next]_vars
  PROVE  LocksHeld'
<1>1. ASSUME NEW c \in Client, call'[c].pc = "insert"
      PROVE  call'[c].key = call[c].key /\ call[c].key \in Key
  <2>1. call[c] \in CallType
    BY DEF Shape, TypeOK
  <2> QED
    BY <1>1, <2>1, WritersKept, ReserveMoves DEF CallType
<1>2. ASSUME NEW c \in Client, NEW d \in Client, call'[c].pc = "insert", call'[d].pc = "insert",
             ShardOf[call[c].key] = ShardOf[call[d].key], c # d, WriteReserve(c)
      PROVE  FALSE
  <2>1. Moved(c) /\ Free(ShardOf[call[c].key])
    BY <1>2, ReserveMoves DEF WriteReserve, ClientStep
  <2>2. call[d].pc = "insert"
    BY <1>2, <2>1 DEF Moved
  <2> QED
    BY <1>2, <2>1, <2>2 DEF Free
<1>3. ASSUME NEW c \in Client, NEW d \in Client, call'[c].pc = "insert", call'[d].pc = "insert",
             ShardOf[call'[c].key] = ShardOf[call'[d].key]
      PROVE  c = d
  BY <1>1, <1>2, <1>3, WritersKept DEF Shape, LocksHeld
<1>4. ASSUME NEW c \in Client, call'[c].pc = "insert"
      PROVE  ~EvHolds(ShardOf[call[c].key])'
  <2>0. PICK s \in 1..Shards : s = ShardOf[call[c].key] /\ s = ShardOf[call'[c].key]
    BY <1>1, <1>4, IdsTyped
  <2>1. CASE WriteReserve(c)
    <3>1. UNCHANGED ev /\ ~EvHolds(s)
      BY <2>0, <2>1 DEF WriteReserve, Free
    <3> QED
      BY <2>0, <3>1 DEF EvHolds
  <2>2. CASE call[c].pc = "insert"
    <3>1. ~NoWriter(s) /\ ~EvHolds(s)
      BY <2>0, <2>2 DEF NoWriter, Shape, LocksHeld
    <3>2. ASSUME UNCHANGED ev PROVE ~EvHolds(s)'
      BY <2>0, <3>1, <3>2 DEF EvHolds
    <3>3. ASSUME NEW d \in Client, EvBegin(d) \/ FlBegin(d), ~UNCHANGED ev PROVE ~EvHolds(s)'
      <4>1. ev'.pc = "purge" \/ (ev'.pc = "lock" /\ ev'.at = 1)
        BY <3>3, QueueMoves, EvIdleTyped DEF EvType
      <4>2. ~(s < 1)
        BY <2>0, IdsTyped
      <4> QED
        BY <4>1, <4>2 DEF EvHolds
    <3>4. ASSUME OwnerStep PROVE ~EvHolds(s)'
      BY <2>0, <3>1, <3>4, HeldNext
    <3>5. ~EvHolds(s)'
      BY <3>2, <3>3, <3>4, EvEffects
    <3> QED
      BY <2>0, <3>5 DEF EvHolds
  <2> QED
    BY <1>4, <2>1, <2>2, WritersKept
<1> QED
  BY <1>3, <1>4 DEF LocksHeld

LEMMA InsertsNext ==
  ASSUME Shape, [Next]_vars
  PROVE  InsertsValid'
<1> SUFFICES ASSUME NEW c \in Client, call'[c].pc = "insert"
             PROVE  ~Invalid(c, entries[call[c].key])'
  BY DEF InsertsValid
<1>0. call[c] \in CallType /\ entries \in [Key -> EntryType]
  BY DEF Shape, TypeOK
<1>1. CASE WriteReserve(c)
  <2>1. /\ call'[c].key = call[c].key /\ call[c].key \in Key /\ ~Invalid(c, Old(c))
        /\ entries' = [entries EXCEPT ![call[c].key] = Old(c)]
        /\ SameQuestion(call'[c], call[c])
    BY <1>1, ReserveMoves DEF WriteReserve, ClientStep
  <2>2. entries'[call'[c].key] = Old(c)
    BY <1>0, <2>1
  <2> QED
    BY <2>1, <2>2 DEF Invalid, NewValue, SameQuestion
<1>2. CASE /\ call[c].pc = "insert" /\ call'[c] \in {call[c], [call[c] EXCEPT !.alone = FALSE]}
           /\ call[c].key \in Key /\ entries'[call[c].key] = entries[call[c].key]
  <2>1. /\ call'[c].key = call[c].key /\ call'[c].kind = call[c].kind
        /\ call'[c].val = call[c].val /\ ~Invalid(c, entries[call[c].key])
    BY <1>0, <1>2 DEF CallType, Shape, InsertsValid
  <2> QED
    BY <1>2, <2>1 DEF Invalid, NewValue
<1> QED
  BY <1>1, <1>2, WritersKept

LEMMA ShapeNext ==
  ASSUME Shape, [Next]_vars
  PROVE  Shape'
<1>1. Effect
  BY Effects
<1>2. TypeOK'
  BY <1>1, EntriesNext, CallsNext, EvNext, MaintNext DEF TypeOK
<1>3. \A k \in Key : EntryFormed(entries'[k])
  BY <1>1, EntriesNext
<1>4. \A c \in Client : CallFormed(call'[c])
  BY CallsNext
<1>5. ClocksFormed'
  BY CallsNext, EvNext, MaintNext DEF ClocksFormed
<1> QED
  BY <1>2, <1>3, <1>4, <1>5, EvNext, MaintNext, LocksNext, InsertsNext DEF Shape

LEMMA ShapeInit ==
  ASSUME Init
  PROVE  Shape
<1>1. /\ CallIdle \in CallType /\ CallFormed(CallIdle) /\ CallIdle.now = 0
      /\ CallIdle.pc = "idle"
  BY IdsTyped DEF CallIdle, CallType, CallPc, AllKinds, CallFormed
<1>2. TypeOK
  BY <1>1, EvIdleTyped, IdsTyped DEF Init, TypeOK, MaintIdle, MaintType
<1>3. \A k \in Key : EntryFormed(entries[k])
  BY DEF Init, EntryFormed, None
<1>4. EvFormed /\ MaintFormed /\ ClocksFormed
  BY <1>1, EvIdleTyped DEF Init, EvFormed, MaintFormed, ClocksFormed, MaintIdle, EvictPc, FlushPc
<1>5. LocksHeld /\ InsertsValid
  BY <1>1 DEF Init, LocksHeld, InsertsValid
<1>6. \A c \in Client : CallFormed(call[c])
  BY <1>1 DEF Init
<1> QED
  BY <1>2, <1>3, <1>4, <1>5, <1>6 DEF Shape

LEMMA ShapeInvariant == Spec => []Shape
<1> QED
  BY ShapeInit, ShapeNext, PTL DEF Spec

(* For any number of clients, keys and shards, any costs and any budget the   *)
(* state of the memory cache has the types TypeOK gives it: a counter never   *)
(* holds a value that overflows, and there is always an identity for a new    *)
(* entry that nobody refers to.                                               *)
THEOREM MemoryTyped == Spec => []TypeOK
<1>1. Shape => TypeOK
  BY DEF Shape
<1> QED
  BY <1>1, ShapeInvariant, PTL

(***************************************************************************)
(* The accounting.                                                         *)
(***************************************************************************)

(* Between the moment Flush drops the maps and the moment it zeroes the       *)
(* counters there is nothing to count; at any other time they agree.          *)
Books ==
    /\ ev.pc = "zero" => \A k \in Key : entries[k] = None
    /\ Accounting /\ WithinBudget

LEMMA CostsChange ==
  ASSUME Shape, Shape', NEW k \in Key, \A j \in Key \ {k} : entries'[j] = entries[j]
  PROVE  /\ StoredBytes \in Nat /\ StoredBytes' \in Nat
         /\ StoredBytes' = StoredBytes + CostOf(entries'[k]) - CostOf(entries[k])
<1> DEFINE f == [j \in Key |-> CostOf(entries[j])]
           g == [j \in Key |-> CostOf(entries'[j])]
<1>1. IsFiniteSet(Key)
  BY MemoryAssumption
<1>2. \A j \in Key : f[j] \in Nat /\ g[j] \in Nat
  BY CostsTyped DEF Shape, TypeOK
<1>3. \A j \in Key \ {k} : g[j] = f[j]
  OBVIOUS
<1>4. /\ DOMAIN f = Key /\ DOMAIN g = Key /\ f[k] = CostOf(entries[k])
      /\ g[k] = CostOf(entries'[k])
  OBVIOUS
<1>5. StoredBytes = SumFunction(f) /\ StoredBytes' = SumFunction(g)
  BY DEF StoredBytes, CostOf
<1> DEFINE S == DOMAIN f
<1>t. f \in [S -> Nat] /\ g \in [S -> Nat] /\ f \in [S -> Int] /\ g \in [S -> Int]
  BY <1>2
<1> HIDE DEF f, g, S
<1>6. /\ SumFunction(f) \in Nat /\ SumFunction(g) \in Nat
      /\ SumFunction(g) = SumFunction(f) + g[k] - f[k]
  BY <1>1, <1>3, <1>4, <1>t, SumNat, SumChange DEF S
<1> QED
  BY <1>4, <1>5, <1>6

LEMMA ReservedTyped ==
  ASSUME Shape, NEW c \in Client
  PROVE  /\ Reserved(c) \in Nat
         /\ call[c].pc # "insert" => Reserved(c) = 0
         /\ call[c].pc = "insert" =>
              Reserved(c) = IF Delta(c, entries[call[c].key]) > 0
                            THEN Delta(c, entries[call[c].key]) ELSE 0
<1>1. CASE call[c].pc = "insert"
  <2>1. /\ call[c].key \in Key /\ call[c].kind \in {"set", "add", "counter"} /\ TypeOK
        /\ CallFormed(call[c]) /\ ~Invalid(c, entries[call[c].key])
    BY <1>1 DEF Shape, CallFormed, InsertsValid
  <2>2. entries[call[c].key] \in EntryType /\ EntryFormed(entries[call[c].key])
    BY <2>1 DEF Shape, TypeOK
  <2>3. Delta(c, entries[call[c].key]) \in Int
    BY <2>1, <2>2, WriteNumbers
  <2> QED
    BY <1>1, <2>3 DEF Reserved
<1>2. CASE call[c].pc # "insert"
  BY <1>2 DEF Reserved
<1> QED
  BY <1>1, <1>2

LEMMA ReservesChange ==
  ASSUME Shape, NEW c \in Client, \A d \in Client \ {c} : Reserved(d)' = Reserved(d),
         Reserved(c)' \in Nat
  PROVE  /\ ReservedBytes \in Nat /\ ReservedBytes' \in Nat
         /\ ReservedBytes' = ReservedBytes + Reserved(c)' - Reserved(c)
<1> DEFINE f == [d \in Client |-> Reserved(d)]
           g == [d \in Client |-> Reserved(d)']
<1>1. IsFiniteSet(Client)
  BY MemoryAssumption
<1>2. \A d \in Client : f[d] \in Nat /\ g[d] \in Nat
  BY ReservedTyped
<1>3. \A d \in Client \ {c} : g[d] = f[d]
  OBVIOUS
<1>4. /\ DOMAIN f = Client /\ DOMAIN g = Client /\ f[c] = Reserved(c) /\ g[c] = Reserved(c)'
  OBVIOUS
<1>5. ReservedBytes = SumFunction(f) /\ ReservedBytes' = SumFunction(g)
  BY DEF ReservedBytes
<1> DEFINE S == DOMAIN f
<1>t. f \in [S -> Nat] /\ g \in [S -> Nat] /\ f \in [S -> Int] /\ g \in [S -> Int]
  BY <1>2
<1> HIDE DEF f, g, S
<1>6. /\ SumFunction(f) \in Nat /\ SumFunction(g) \in Nat
      /\ SumFunction(g) = SumFunction(f) + g[c] - f[c]
  BY <1>1, <1>3, <1>4, <1>t, SumNat, SumChange DEF S
<1> QED
  BY <1>4, <1>5, <1>6

(* Only a client that reserves or inserts changes what is reserved for it. *)
LEMMA ReservesKept ==
  ASSUME Shape, [Next]_vars, NEW d \in Client, ~WriteReserve(d), ~Insert(d)
  PROVE  Reserved(d)' = Reserved(d)
<1>0. call[d] \in CallType /\ EvFormed
  BY DEF Shape, TypeOK
<1>1. CASE call'[d].pc = "insert"
  <2>1. /\ call[d].pc = "insert" /\ call'[d].key = call[d].key /\ call'[d].kind = call[d].kind
        /\ call'[d].val = call[d].val /\ entries'[call[d].key] = entries[call[d].key]
    BY <1>0, <1>1, WritersKept DEF CallType
  <2> QED
    BY <1>1, <2>1 DEF Reserved, Delta, NewValue, CostOf
<1>2. CASE call'[d].pc # "insert"
  <2>1. call[d].pc # "insert"
    <3>1. CASE call'[d] = call[d] \/ call'[d] = [call[d] EXCEPT !.alone = FALSE]
      BY <1>0, <1>2, <3>1 DEF CallType
    <3>2. CASE Call(d)
      BY <3>2, CallBegins
    <3>3. CASE CallStep(d) /\ ClientStep(d)
      BY <3>3 DEF ClientStep
    <3>4. CASE OwnerReturns /\ ev.owner = d
      BY <1>0, <3>4 DEF OwnerReturns, EvFormed, EvictPc, FlushPc
    <3> QED
      BY <3>1, <3>2, <3>3, <3>4, CallEffects DEF CallEffect
  <2> QED
    BY <1>2, <2>1 DEF Reserved
<1> QED
  BY <1>1, <1>2

LEMMA CountChange ==
  ASSUME Shape, Shape', NEW k \in Key, \A j \in Key \ {k} : entries'[j] = entries[j]
  PROVE  /\ Cardinality({j \in Key : entries[j].id # 0}) \in Nat
         /\ Cardinality({j \in Key : entries'[j].id # 0})
              = Cardinality({j \in Key : entries[j].id # 0})
                + (IF entries'[k].id # 0 THEN 1 ELSE 0) - (IF entries[k].id # 0 THEN 1 ELSE 0)
<1> DEFINE E == {j \in Key : entries[j].id # 0}
           F == {j \in Key : entries'[j].id # 0}
           n == Cardinality(E)
           m == Cardinality(F)
<1>1. IsFiniteSet(E)
  BY MemoryAssumption, FS_Subset
<1>2. n \in Nat
  BY <1>1, FS_CardinalityType
<1>3. CASE entries'[k].id # 0 /\ entries[k].id = 0
  <2>1. F = E \cup {k} /\ k \notin E
    BY <1>3
  <2>2. m = n + 1
    <3> HIDE DEF E, F
    <3> QED
      BY <1>1, <2>1, FS_AddElement
  <2> HIDE DEF m, n
  <2> QED
    BY <1>2, <1>3, <2>2 DEF m, n
<1>4. CASE entries'[k].id = 0 /\ entries[k].id # 0
  <2>1. F = E \ {k} /\ k \in E
    BY <1>4
  <2>2. m = n - 1
    <3> HIDE DEF E, F
    <3> QED
      BY <1>1, <2>1, FS_RemoveElement
  <2> HIDE DEF m, n
  <2> QED
    BY <1>2, <1>4, <2>2 DEF m, n
<1>5. CASE (entries'[k].id = 0) <=> (entries[k].id = 0)
  <2>1. F = E
    BY <1>5
  <2>2. m = n
    BY <2>1
  <2> HIDE DEF m, n
  <2> QED
    BY <1>2, <1>5, <2>2 DEF m, n
<1> QED
  BY <1>3, <1>4, <1>5

LEMMA ZeroSteps ==
  ASSUME Shape, [Next]_vars
  PROVE  /\ ev.pc = "zero" => FlZero \/ UNCHANGED ev
         /\ ev'.pc = "zero" => FlClear \/ UNCHANGED ev
<1>0. ev \in EvType
  BY DEF Shape, TypeOK
<1>1. ASSUME NEW c \in Client, EvBegin(c) \/ FlBegin(c)
      PROVE  /\ ev.pc # "zero"
             /\ ev'.pc # "zero" \/ UNCHANGED ev
  BY <1>1, QueueMoves, EvIdleTyped, IdsTyped DEF EvType, Shape, EvFormed, FlushPc
<1>2. CASE OwnerStep
  <2>1. Failure => ev'.pc # "zero"
    BY FailureIs DEF Shape
  <2>2. \A k : Candidate(k) => ev'.pc = "try"
    BY <1>0 DEF Candidate, EvType
  <2>3. CASE EvPurgeLock \/ EvPurgeKey \/ EvPurged \/ EvRoom
    BY <1>0, <2>3 DEF EvPurgeLock, EvPurgeKey, EvPurged, EvRoom, EvGoto, EvType
  <2>4. CASE EvSample \/ EvScan \/ EvTry
    BY <1>0, <2>1, <2>2, <2>4 DEF EvSample, EvScan, EvTry, EvGoto, EvType
  <2>5. CASE EvFinish \/ FlUnlock
    BY <1>0, <2>5, EvIdleTyped DEF EvFinish, FlUnlock, Released, EvType
  <2>6. CASE FlLock \/ FlClear \/ FlZero
    BY <1>0, <2>6 DEF FlLock, FlClear, FlZero, EvGoto, EvType
  <2> QED
    BY <1>2, <2>3, <2>4, <2>5, <2>6 DEF OwnerStep
<1> QED
  BY <1>1, <1>2, EvEffects

(* What a write reserves, and what it stores. *)
LEMMA ReserveBooks ==
  ASSUME Shape, [Next]_vars, Books, NEW c \in Client, WriteReserve(c)
  PROVE  Books'
<1> DEFINE k == call[c].key
           base == current - (IF Discards(c) THEN CostOf(entries[k]) ELSE 0)
           delta == Delta(c, Old(c))
           full == IF delta > 0 THEN delta ELSE 0
<1>0. Shape' /\ TypeOK /\ entries \in [Key -> EntryType] /\ current \in Int /\ count \in Int
  BY ShapeNext DEF Shape, TypeOK
<1>1. /\ k \in Key /\ call[c].pc = "lock" /\ call'[c].key = k /\ call'[c].pc \in {"insert", "evict"}
      /\ SameQuestion(call'[c], call[c]) /\ Moved(c) /\ CallFormed(call[c])
      /\ call[c].kind \in {"set", "add", "counter"} /\ ~Invalid(c, Old(c))
  BY ReserveMoves DEF ClientStep, WriteReserve, At, Shape
<1>2. /\ UNCHANGED ev /\ ev.pc # "zero" /\ entries' = [entries EXCEPT ![k] = Old(c)]
      /\ count' = count - (IF Discards(c) THEN 1 ELSE 0)
  BY DEF WriteReserve, Free, EvHolds
<1>3. /\ current = StoredBytes + ReservedBytes
      /\ count = Cardinality({j \in Key : entries[j].id # 0})
      /\ StoredBytes + ReservedBytes <= MaxMemory
  BY <1>2 DEF Books, Accounting, WithinBudget
<1>4. /\ Old(c) \in EntryType /\ EntryFormed(Old(c)) /\ entries[k] \in EntryType
      /\ EntryFormed(entries[k])
  BY <1>0, <1>1, OldFormed DEF Shape
<1>5. CostOf(entries[k]) \in Nat /\ CostOf(Old(c)) \in Nat /\ delta \in Int
  BY <1>0, <1>1, <1>4, CostsTyped, WriteNumbers
<1>6. /\ entries'[k] = Old(c) /\ \A j \in Key \ {k} : entries'[j] = entries[j]
  BY <1>0, <1>1, <1>2
<1>7. /\ Discards(c) => CostOf(Old(c)) = 0 /\ Old(c).id = 0 /\ entries[k].id # 0
      /\ ~Discards(c) => Old(c) = entries[k]
  BY DEF Discards, Old, CostOf, None, Expired
<1>8. \A d \in Client \ {c} : Reserved(d)' = Reserved(d)
  <2> TAKE d \in Client \ {c}
  <2>1. ~WriteReserve(d) /\ ~Insert(d)
    <3>1. call'[d] = call[d]
      BY <1>1 DEF Moved
    <3> QED
      BY <3>1, ReserveMoves, InsertMoves
  <2> QED
    BY <2>1, ReservesKept
<1>9. Reserved(c) = 0
  BY <1>1 DEF Reserved
<1>10. Reserved(c)' = IF call'[c].pc = "insert" THEN full ELSE 0
  <2>1. Delta(c, entries[call[c].key])' = delta
    BY <1>1, <1>6 DEF Delta, NewValue, SameQuestion, CostOf
  <2> QED
    BY <1>1, <2>1 DEF Reserved
<1>11. /\ current' = IF call'[c].pc = "insert" THEN base + full ELSE base
       /\ call'[c].pc = "insert" => delta <= 0 \/ base + delta <= MaxMemory
  <2>0. call[c] \in CallType /\ call \in [Client -> CallType]
    BY <1>0 DEF TypeOK
  <2>1. CASE /\ delta <= 0 \/ HasRoom(base, delta)
             /\ current' = base + full
             /\ CallSet(c, [call[c] EXCEPT !.pc = "insert", !.now = now])
    <3>1. call'[c].pc = "insert"
      BY <2>0, <2>1 DEF CallSet, CallType
    <3> QED
      BY <2>1, <3>1 DEF HasRoom
  <2>2. CASE current' = base /\ CallSet(c, [call[c] EXCEPT !.pc = "evict", !.need = delta])
    <3>1. call'[c].pc = "evict"
      BY <2>0, <2>2 DEF CallSet, CallType
    <3> QED
      BY <2>2, <3>1
  <2> QED
    BY <2>1, <2>2 DEF WriteReserve
<1>12. full \in Nat /\ base \in Int /\ MaxMemory \in Nat
  BY <1>0, <1>5, MemoryAssumption
<1>13. Reserved(c)' \in Nat
  BY <1>10, <1>12
<1>14. /\ StoredBytes \in Nat /\ StoredBytes' \in Nat
       /\ StoredBytes' = StoredBytes + CostOf(Old(c)) - CostOf(entries[k])
  BY <1>0, <1>1, <1>6, CostsChange
<1>15. /\ ReservedBytes \in Nat /\ ReservedBytes' \in Nat
       /\ ReservedBytes' = ReservedBytes + Reserved(c)'
  BY <1>8, <1>9, <1>13, ReservesChange
<1>16. base = StoredBytes' + ReservedBytes /\ base <= current
  <2> HIDE DEF k
  <2> QED
    BY <1>0, <1>3, <1>5, <1>7, <1>14, <1>15
<1>17. current' = StoredBytes' + ReservedBytes' /\ StoredBytes' + ReservedBytes' <= MaxMemory
  <2> HIDE DEF base, delta
  <2> QED
    BY <1>0, <1>3, <1>5, <1>10, <1>11, <1>12, <1>14, <1>15, <1>16
<1>18. count' = Cardinality({j \in Key : entries'[j].id # 0})
  <2> DEFINE n == Cardinality({j \in Key : entries[j].id # 0})
             m == Cardinality({j \in Key : entries'[j].id # 0})
  <2>1. n \in Nat /\ m = n + (IF Old(c).id # 0 THEN 1 ELSE 0) - (IF entries[k].id # 0 THEN 1 ELSE 0)
    BY <1>0, <1>1, <1>6, CountChange
  <2>2. count = n
    BY <1>3
  <2> HIDE DEF n, m, k
  <2>3. count' = m
    BY <1>2, <1>7, <2>1, <2>2
  <2> QED
    BY <2>3 DEF m
<1> QED
  BY <1>2, <1>17, <1>18 DEF Books, Accounting, WithinBudget

LEMMA InsertBooks ==
  ASSUME Shape, [Next]_vars, Books, NEW c \in Client, Insert(c)
  PROVE  Books'
<1> DEFINE k == call[c].key
           delta == Delta(c, entries[k])
<1>0. Shape' /\ TypeOK /\ entries \in [Key -> EntryType] /\ current \in Int /\ count \in Int
  BY ShapeNext DEF Shape, TypeOK
<1>1. /\ k \in Key /\ call[c].pc = "insert" /\ call'[c].pc \in {"lock", "done"}
      /\ Moved(c) /\ CallFormed(call[c])
      /\ call[c].kind \in {"set", "add", "counter"} /\ ~Invalid(c, entries[k])
  <2>1. /\ k \in Key /\ call[c].pc = "insert" /\ call'[c].pc \in {"lock", "done"} /\ Moved(c)
    BY InsertMoves DEF ClientStep
  <2> QED
    BY <2>1 DEF Shape, CallFormed, InsertsValid
<1>2. /\ UNCHANGED ev /\ ev.pc # "zero"
      /\ count' = count + (IF entries[k].id = 0 THEN 1 ELSE 0)
      /\ current' = current - GivenBack(delta)
  <2>1. ~EvHolds(ShardOf[k])
    BY <1>1 DEF Shape, LocksHeld
  <2> QED
    BY <2>1 DEF Insert, EvHolds
<1>3. /\ current = StoredBytes + ReservedBytes
      /\ count = Cardinality({j \in Key : entries[j].id # 0})
      /\ StoredBytes + ReservedBytes <= MaxMemory
  BY <1>2 DEF Books, Accounting, WithinBudget
<1>4. entries[k] \in EntryType /\ EntryFormed(entries[k])
  BY <1>0, <1>1 DEF Shape
<1>5. /\ CostOf(entries[k]) \in Nat /\ Cost[NewValue(c, entries[k])] \in Nat /\ delta \in Int
      /\ delta = Cost[NewValue(c, entries[k])] - CostOf(entries[k])
  BY <1>0, <1>1, <1>4, WriteNumbers
<1>6. /\ entries'[k] = NewEntry(c) /\ NewEntry(c).id # 0
      /\ CostOf(entries'[k]) = Cost[NewValue(c, entries[k])]
      /\ \A j \in Key \ {k} : entries'[j] = entries[j]
  <2>1. /\ NewEntry(c).id # 0 /\ entries' = [entries EXCEPT ![k] = NewEntry(c)]
    BY NewEntryIs
  <2>2. NewEntry(c).val = NewValue(c, entries[k])
    BY DEF NewEntry
  <2> QED
    BY <1>0, <1>1, <2>1, <2>2 DEF CostOf
<1>8. \A d \in Client \ {c} : Reserved(d)' = Reserved(d)
  <2> TAKE d \in Client \ {c}
  <2>1. ~WriteReserve(d) /\ ~Insert(d)
    <3>1. call'[d] = call[d]
      BY <1>1 DEF Moved
    <3> QED
      BY <3>1, ReserveMoves, InsertMoves
  <2> QED
    BY <2>1, ReservesKept
<1>9. Reserved(c)' = 0
  BY <1>1 DEF Reserved
<1>10. Reserved(c) \in Nat /\ Reserved(c) = IF delta > 0 THEN delta ELSE 0
  BY <1>1, ReservedTyped
<1>11. /\ StoredBytes \in Nat /\ StoredBytes' \in Nat
       /\ StoredBytes' = StoredBytes + delta
  <2>1. /\ StoredBytes \in Nat /\ StoredBytes' \in Nat
        /\ StoredBytes' = StoredBytes + CostOf(entries'[k]) - CostOf(entries[k])
    BY <1>0, <1>1, <1>6, CostsChange
  <2> HIDE DEF delta, k
  <2> QED
    BY <1>5, <1>6, <2>1
<1>12. /\ ReservedBytes \in Nat /\ ReservedBytes' \in Nat
       /\ ReservedBytes' = ReservedBytes - Reserved(c)
  <2>1. Reserved(c)' \in Nat
    BY <1>9
  <2>2. /\ ReservedBytes \in Nat /\ ReservedBytes' \in Nat
        /\ ReservedBytes' = ReservedBytes + Reserved(c)' - Reserved(c)
    BY <1>8, <2>1, ReservesChange
  <2> QED
    BY <1>9, <1>10, <2>2
<1>13. current' = StoredBytes' + ReservedBytes' /\ StoredBytes' + ReservedBytes' <= MaxMemory
  <2>1. MaxMemory \in Nat
    BY MemoryAssumption
  <2>2. delta \in Int /\ current = StoredBytes + ReservedBytes
    BY <1>3, <1>5
  <2>3. StoredBytes + ReservedBytes <= MaxMemory
    BY <1>3
  <2> HIDE DEF delta
  <2>4. /\ current' = current - (IF delta < 0 THEN -delta ELSE 0)
        /\ ReservedBytes' = ReservedBytes - (IF delta > 0 THEN delta ELSE 0)
    BY <1>2, <1>10, <1>12 DEF GivenBack
  <2>5. ReservedBytes' + StoredBytes' = current'
    BY <1>11, <1>12, <2>2, <2>4
  <2> QED
    BY <1>11, <1>12, <2>1, <2>2, <2>3, <2>4, <2>5
<1>14. count' = Cardinality({j \in Key : entries'[j].id # 0})
  <2> DEFINE n == Cardinality({j \in Key : entries[j].id # 0})
             m == Cardinality({j \in Key : entries'[j].id # 0})
  <2>1. n \in Nat /\ m = n + (IF entries'[k].id # 0 THEN 1 ELSE 0) - (IF entries[k].id # 0 THEN 1 ELSE 0)
    BY <1>0, <1>1, <1>6, CountChange
  <2>2. count = n
    BY <1>3
  <2> HIDE DEF n, m, k
  <2>3. count' = m
    BY <1>2, <1>6, <2>1, <2>2
  <2> QED
    BY <2>3 DEF m
<1> QED
  BY <1>2, <1>13, <1>14 DEF Books, Accounting, WithinBudget

(* An entry goes, with its bytes. *)
LEMMA RemovalBooks ==
  ASSUME Shape, [Next]_vars, Books, NEW k \in Key, Remove(k), ev.pc # "zero", ev'.pc # "zero",
         \A d \in Client : Reserved(d)' = Reserved(d), ReservedBytes' = ReservedBytes,
         ReservedBytes \in Nat
  PROVE  Books'
<1>0. Shape' /\ TypeOK /\ entries \in [Key -> EntryType] /\ current \in Int /\ count \in Int
  BY ShapeNext DEF Shape, TypeOK
<1>1. /\ entries'[k] = None /\ \A j \in Key \ {k} : entries'[j] = entries[j]
      /\ current' = current - CostOf(entries[k])
      /\ count' = count - (IF entries[k].id = 0 THEN 0 ELSE 1)
  BY <1>0 DEF Remove
<1>2. CostOf(None) = 0 /\ None.id = 0 /\ CostOf(entries[k]) \in Nat
  BY <1>0, CostsTyped DEF CostOf, None, Shape
<1>3. /\ current = StoredBytes + ReservedBytes
      /\ count = Cardinality({j \in Key : entries[j].id # 0})
      /\ StoredBytes + ReservedBytes <= MaxMemory
  BY DEF Books, Accounting, WithinBudget
<1>4. /\ StoredBytes \in Nat /\ StoredBytes' \in Nat
      /\ StoredBytes' = StoredBytes - CostOf(entries[k])
  <2>1. /\ StoredBytes \in Nat /\ StoredBytes' \in Nat
        /\ StoredBytes' = StoredBytes + CostOf(entries'[k]) - CostOf(entries[k])
    BY <1>0, <1>1, CostsChange
  <2>2. CostOf(entries'[k]) = 0
    BY <1>1, <1>2
  <2> QED
    BY <1>2, <2>1, <2>2
<1>5. current' = StoredBytes' + ReservedBytes' /\ StoredBytes' + ReservedBytes' <= MaxMemory
  BY <1>0, <1>1, <1>2, <1>3, <1>4, MemoryAssumption
<1>6. count' = Cardinality({j \in Key : entries'[j].id # 0})
  <2> DEFINE n == Cardinality({j \in Key : entries[j].id # 0})
             m == Cardinality({j \in Key : entries'[j].id # 0})
  <2>1. n \in Nat /\ m = n + (IF entries'[k].id # 0 THEN 1 ELSE 0) - (IF entries[k].id # 0 THEN 1 ELSE 0)
    BY <1>0, <1>1, CountChange
  <2>2. count = n
    BY <1>3
  <2> HIDE DEF n, m
  <2>3. count' = m
    BY <1>1, <1>2, <2>1, <2>2
  <2> QED
    BY <2>3 DEF m
<1> QED
  BY <1>5, <1>6 DEF Books, Accounting, WithinBudget

LEMMA BooksNext ==
  ASSUME Shape, Books, [Next]_vars
  PROVE  Books'
<1>0. Shape' /\ TypeOK /\ entries \in [Key -> EntryType] /\ current \in Int /\ count \in Int
  BY ShapeNext DEF Shape, TypeOK
<1>1. ASSUME NEW c \in Client, WriteReserve(c) \/ Insert(c) PROVE Books'
  BY <1>1, ReserveBooks, InsertBooks
<1>2. CASE \A c \in Client : ~WriteReserve(c) /\ ~Insert(c)
  <2>1. \A d \in Client : Reserved(d)' = Reserved(d)
    BY <1>2, ReservesKept
  <2>2. ReservedBytes' = ReservedBytes
    BY <2>1 DEF ReservedBytes
  <2>3. ReservedBytes \in Nat
    <3> DEFINE f == [c \in Client |-> Reserved(c)]
    <3>1. f \in [Client -> Nat] /\ IsFiniteSet(Client)
      BY ReservedTyped, MemoryAssumption
    <3> HIDE DEF f
    <3>2. SumFunction(f) \in Nat
      BY <3>1, SumNat
    <3> QED
      BY <3>2 DEF f, ReservedBytes
  <2>4. CASE FlClear
    <3>1. /\ ev.pc = "clear" /\ ev' = [ev EXCEPT !.pc = "zero"]
          /\ \A k \in Key : entries'[k] = None
      BY <2>4 DEF FlClear, EvGoto
    <3>2. ev'.pc = "zero"
      BY <3>1 DEF Shape, TypeOK, EvType
    <3>3. \A s : EvHolds(s)
      BY <3>1 DEF EvHolds
    <3>4. \A c \in Client : call[c].pc # "insert"
      BY <3>3 DEF Shape, LocksHeld
    <3>5. ReservedBytes = 0
      <4> DEFINE f == [c \in Client |-> Reserved(c)]
      <4>1. f \in [Client -> Int] /\ IsFiniteSet(Client) /\ \A c \in Client : f[c] = 0
        BY <3>4, ReservedTyped, MemoryAssumption
      <4> HIDE DEF f
      <4>2. SumFunction(f) = 0
        BY <4>1, SumZero
      <4> QED
        BY <4>2 DEF f, ReservedBytes
    <3>6. StoredBytes' = 0
      <4> DEFINE f == [k \in Key |-> CostOf(entries'[k])]
      <4>1. f \in [Key -> Int] /\ IsFiniteSet(Key) /\ \A k \in Key : f[k] = 0
        BY <3>1, MemoryAssumption DEF CostOf, None
      <4> HIDE DEF f
      <4>2. SumFunction(f) = 0
        BY <4>1, SumZero
      <4> QED
        BY <4>2 DEF f, StoredBytes, CostOf
    <3>7. StoredBytes' + ReservedBytes' <= MaxMemory
      BY <2>2, <3>5, <3>6, MemoryAssumption
    <3> QED
      BY <3>1, <3>2, <3>7 DEF Books, Accounting, WithinBudget
  <2>5. CASE FlZero
    <3>1. /\ ev.pc = "zero" /\ ev' = [ev EXCEPT !.pc = "unlock", !.at = Shards]
          /\ current' = 0 /\ count' = 0 /\ UNCHANGED entries
      BY <2>5 DEF FlZero
    <3>2. ev'.pc = "unlock"
      BY <3>1 DEF Shape, TypeOK, EvType
    <3>3. \A k \in Key : entries[k] = None
      BY <3>1 DEF Books
    <3>4. \A s : EvHolds(s)
      BY <3>1 DEF EvHolds
    <3>5. \A c \in Client : call[c].pc # "insert"
      BY <3>4 DEF Shape, LocksHeld
    <3>6. ReservedBytes = 0
      <4> DEFINE f == [c \in Client |-> Reserved(c)]
      <4>1. f \in [Client -> Int] /\ IsFiniteSet(Client) /\ \A c \in Client : f[c] = 0
        BY <3>5, ReservedTyped, MemoryAssumption
      <4> HIDE DEF f
      <4>2. SumFunction(f) = 0
        BY <4>1, SumZero
      <4> QED
        BY <4>2 DEF f, ReservedBytes
    <3>7. StoredBytes = 0 /\ StoredBytes' = StoredBytes
      <4> DEFINE f == [k \in Key |-> CostOf(entries[k])]
      <4>1. f \in [Key -> Int] /\ IsFiniteSet(Key) /\ \A k \in Key : f[k] = 0
        BY <3>3, MemoryAssumption DEF CostOf, None
      <4> HIDE DEF f
      <4>2. SumFunction(f) = 0
        BY <4>1, SumZero
      <4> QED
        BY <3>1, <4>2 DEF f, StoredBytes, CostOf
    <3>8. Cardinality({k \in Key : entries'[k].id # 0}) = 0
      <4>1. {k \in Key : entries'[k].id # 0} = {}
        BY <3>1, <3>3 DEF None
      <4> QED
        BY <4>1, FS_EmptySet
    <3> QED
      BY <2>2, <3>1, <3>2, <3>6, <3>7, <3>8, MemoryAssumption DEF Books, Accounting, WithinBudget
  <2>6. CASE ~FlClear /\ ~FlZero
    <3>1. ev.pc = "zero" <=> ev'.pc = "zero"
      BY <2>6, ZeroSteps
    <3>2. CASE UNCHANGED <<entries, current, count>>
      <4>1. StoredBytes' = StoredBytes
        BY <3>2 DEF StoredBytes, CostOf
      <4> QED
        BY <2>2, <3>1, <3>2, <4>1 DEF Books, Accounting, WithinBudget
    <3>3. CASE Removal
      <4>1. PICK k \in Key : Remove(k)
        BY <3>3 DEF Removal
      <4>2. CASE ev.pc # "zero"
        BY <2>1, <2>2, <2>3, <3>1, <4>1, <4>2, RemovalBooks
      <4>3. CASE ev.pc = "zero"
        <5>1. UNCHANGED entries
          BY <1>0, <4>1, <4>3 DEF Remove, Books
        <5>2. StoredBytes' = StoredBytes
          BY <5>1 DEF StoredBytes, CostOf
        <5> QED
          BY <2>2, <3>1, <4>3, <5>1, <5>2 DEF Books, Accounting, WithinBudget
      <4> QED
        BY <4>2, <4>3
    <3>4. CASE Prolonged
      <4>1. PICK k \in Key, t \in Nat : /\ entries[k].id # 0
                                        /\ entries' = [entries EXCEPT ![k].exp = t]
        BY <3>4 DEF Prolonged
      <4>2. \A j \in Key : entries'[j].id = entries[j].id /\ entries'[j].val = entries[j].val
        BY <1>0, <4>1 DEF EntryType
      <4>3. StoredBytes' = StoredBytes
        BY <4>2 DEF StoredBytes, CostOf
      <4>4. {j \in Key : entries'[j].id # 0} = {j \in Key : entries[j].id # 0}
        BY <4>2
      <4>5. ev.pc # "zero" /\ UNCHANGED <<current, count>>
        BY <3>4, <4>1 DEF Books, None, Prolonged
      <4> QED
        BY <2>2, <3>1, <4>3, <4>4, <4>5 DEF Books, Accounting, WithinBudget
    <3> QED
      BY <1>2, <2>6, <3>2, <3>3, <3>4, Effects DEF Effect
  <2> QED
    BY <2>4, <2>5, <2>6
<1> QED
  BY <1>1, <1>2

LEMMA BooksInit ==
  ASSUME Init
  PROVE  Books
<1>1. Shape /\ \A k \in Key : entries[k] = None
  BY ShapeInit DEF Init
<1>2. StoredBytes = 0
  <2> DEFINE f == [k \in Key |-> CostOf(entries[k])]
  <2>1. f \in [Key -> Int] /\ IsFiniteSet(Key) /\ \A k \in Key : f[k] = 0
    BY <1>1, MemoryAssumption DEF CostOf, None
  <2> HIDE DEF f
  <2>2. SumFunction(f) = 0
    BY <2>1, SumZero
  <2> QED
    BY <2>2 DEF f, StoredBytes
<1>3. ReservedBytes = 0
  <2> DEFINE f == [c \in Client |-> Reserved(c)]
  <2>1. f \in [Client -> Int] /\ IsFiniteSet(Client) /\ \A c \in Client : f[c] = 0
    BY <1>1, ReservedTyped, MemoryAssumption DEF Init, CallIdle
  <2> HIDE DEF f
  <2>2. SumFunction(f) = 0
    BY <2>1, SumZero
  <2> QED
    BY <2>2 DEF f, ReservedBytes
<1>4. Cardinality({k \in Key : entries[k].id # 0}) = 0
  <2>1. {k \in Key : entries[k].id # 0} = {}
    BY <1>1 DEF None
  <2> QED
    BY <2>1, FS_EmptySet
<1> QED
  BY <1>1, <1>2, <1>3, <1>4, MemoryAssumption DEF Books, Accounting, WithinBudget, Init

LEMMA BooksInvariant == Spec => []Books
<1>1. Init => Books
  BY BooksInit
<1>2. Books /\ Shape /\ [Next]_vars => Books'
  BY BooksNext
<1> QED
  BY <1>1, <1>2, ShapeInvariant, PTL DEF Spec

(* The two atomic counters agree with the sharded maps at any moment, except  *)
(* while Flush has dropped the maps and not yet zeroed them, although no lock  *)
(* covers both: whoever writes, evicts, expires or flushes at the same time,   *)
(* every byte reserved is that of an entry or of a write about to insert one.  *)
THEOREM CountersAgree == Spec => []Accounting
<1>1. Books => Accounting
  BY DEF Books
<1> QED
  BY <1>1, BooksInvariant, PTL

(* The cache never holds more than its budget, however many writers reserve   *)
(* from it at once.                                                           *)
THEOREM BudgetHolds == Spec => []WithinBudget
<1>1. Books => WithinBudget
  BY DEF Books
<1> QED
  BY <1>1, BooksInvariant, PTL

(***************************************************************************)
(* Expired entries.                                                        *)
(***************************************************************************)

LEMMA ExpiredStays ==
  ASSUME NEW e \in EntryType, NEW t \in Nat, NEW u \in Nat, t <= u, Expired(e, t)
  PROVE  Expired(e, u) /\ ~Live(e, u)
<1>1. e.exp \in Nat
  BY DEF EntryType
<1> QED
  BY <1>1 DEF Expired, Live

(* What is seen to be expired stays so until somebody writes the key: the     *)
(* removals of Get, of the writers, of the purge and of maintenance leave     *)
(* every live entry alone, however long ago they looked.                      *)
THEOREM ExpiryTakesNoLive == Spec => ExpiryKeepsLive
<1> DEFINE Kept == \A k \in Key : Live(entries[k], now) /\ entries'[k].id = 0
                                  => ev.pc \in {"try", "clear"} \/ k \in Forgotten
<1>1. ASSUME Shape, [Next]_vars PROVE Kept
  <2> SUFFICES ASSUME NEW k \in Key, Live(entries[k], now), entries'[k].id = 0,
                      ev.pc \notin {"try", "clear"}
               PROVE  k \in Forgotten
    OBVIOUS
  <2>0. /\ entries \in [Key -> EntryType] /\ now \in Nat /\ ev.now \in Nat /\ maint.now \in Nat
        /\ ev.now <= now /\ maint.now <= now /\ entries[k].id # 0 /\ ~Expired(entries[k], now)
        /\ \A c \in Client : call[c].now \in Nat /\ call[c].now <= now
    BY <1>1 DEF Shape, TypeOK, ClocksFormed, EvType, MaintType, CallType, Live, Expired, EntryType
  <2>1. \A t \in Nat : t <= now => ~Expired(entries[k], t)
    BY <2>0, ExpiredStays
  <2>2. \A j : Remove(j) => entries' = [entries EXCEPT ![j] = None]
    BY DEF Remove
  <2>3. entries'[k] # entries[k]
    BY <2>0
  <2>4. ASSUME NEW j, Remove(j) PROVE j = k
    BY <2>0, <2>2, <2>3, <2>4
  <2>5. ASSUME NEW c \in Client, Forget(c) PROVE k \in Forgotten
    <3>1. call[c].key = k /\ call[c].kind = "forget" /\ call[c].pc = "lock"
      BY <2>4, <2>5 DEF Forget, At
    <3>2. call'[c].pc = "done"
      <4>1. \E res : call' = [call EXCEPT ![c] = [call[c] EXCEPT !.pc = "done", !.key = NoKey,
                               !.id = 0, !.need = 0, !.now = 0, !.res = res]]
        BY <2>5 DEF Forget, Done, CallSet
      <4>2. call \in [Client -> CallType]
        BY <1>1 DEF Shape, TypeOK
      <4> QED
        BY <4>1, <4>2 DEF CallType
    <3> QED
      BY <3>1, <3>2 DEF Forgotten
  <2>6. ASSUME NEW c \in Client, GetExpired(c) PROVE FALSE
    <3>1. Remove(call[c].key) /\ Expired(entries[call[c].key], call[c].now)
      BY <2>3, <2>6 DEF GetExpired, DeleteExpired, StillExpired
    <3> QED
      BY <2>0, <2>1, <2>4, <3>1
  <2>7. ASSUME NEW c \in Client, Touch(c) PROVE FALSE
    <3>1. CASE ~Live(entries[call[c].key], now) /\ Remove(call[c].key)
      BY <2>4, <3>1
    <3>2. CASE entries' = [entries EXCEPT ![call[c].key].exp = now + call[c].ttl]
      BY <2>0, <3>2 DEF EntryType
    <3> QED
      BY <2>7, <3>1, <3>2 DEF Touch
  <2>8. ASSUME NEW c \in Client, WriteInvalid(c) PROVE FALSE
    <3>1. Discards(c) /\ Remove(call[c].key)
      BY <2>3, <2>8 DEF WriteInvalid
    <3> QED
      BY <2>0, <2>4, <3>1 DEF Discards
  <2>9. ASSUME NEW c \in Client, WriteReserve(c) PROVE FALSE
    <3>1. entries' = [entries EXCEPT ![call[c].key] = Old(c)]
      BY <2>9 DEF WriteReserve
    <3>2. Discards(c) /\ call[c].key = k
      BY <2>0, <2>3, <3>1 DEF Old
    <3> QED
      BY <2>0, <3>2 DEF Discards
  <2>10. ASSUME NEW c \in Client, Insert(c) PROVE FALSE
    <3>1. entries' = [entries EXCEPT ![call[c].key] = NewEntry(c)] /\ NewEntry(c).id # 0
      BY <1>1, <2>10, NewEntryIs
    <3> QED
      BY <2>0, <3>1
  <2>11. CASE EvPurgeKey
    <3>1. PICK j \in KeysOf(ev.at) : Expired(entries[j], ev.now) /\ Remove(j)
      BY <2>11 DEF EvPurgeKey
    <3> QED
      BY <2>0, <2>1, <2>4, <3>1
  <2>12. CASE MtDelete
    <3>1. PICK f \in maint.found : Remove(f[1]) /\ Expired(entries[f[1]], maint.now)
      BY <2>3, <2>12 DEF MtDelete, DeleteExpired, StillExpired
    <3> QED
      BY <2>0, <2>1, <2>4, <3>1
  <2>13. CASE EvTry \/ FlClear
    BY <2>13 DEF EvTry, FlClear
  <2>14. ASSUME NEW c \in Client, Call(c) \/ Return(c) \/ Get(c) \/ AddExists(c) \/ EvBegin(c) \/ FlBegin(c)
         PROVE  FALSE
    BY <2>3, <2>14 DEF Call, Return, Get, AddExists, EvBegin, FlBegin
  <2>15. CASE EvPurgeLock \/ EvPurged \/ EvRoom \/ EvSample \/ EvScan \/ EvFinish \/ FlLock \/ FlZero
              \/ FlUnlock \/ MtSample \/ Tick \/ UNCHANGED vars
    BY <2>3, <2>15 DEF EvPurgeLock, EvPurged, EvRoom, EvSample, EvScan, EvFinish, FlLock, FlZero,
                       FlUnlock, MtSample, Tick, vars
  <2> QED
    BY <1>1, <2>5, <2>6, <2>7, <2>8, <2>9, <2>10, <2>11, <2>12, <2>13, <2>14, <2>15
       DEF Next, CallStep, OwnerStep
<1>2. Shape /\ [Next]_vars => [Kept]_vars
  BY <1>1
<1> QED
  BY <1>2, ShapeInvariant, PTL DEF Spec, ExpiryKeepsLive

(***************************************************************************)
(* The purge.                                                              *)
(***************************************************************************)

(* The eviction has purged shard s. *)
PurgedShard(s) ==
    \/ ev.pc \in {"purge", "purging"} /\ s < ev.at
    \/ ev.pc \in {"room", "sample", "scan", "try", "finish"}

(* No entry that had expired when the eviction began is left there, and what  *)
(* is written there was looked up since.                                      *)
Purged ==
    /\ \A k \in Key : PurgedShard(ShardOf[k]) => ~Expired(entries[k], ev.now)
    /\ \A c \in Client :
         call[c].pc = "insert" /\ PurgedShard(ShardOf[call[c].key]) => call[c].now >= ev.now

LEMMA FreshKept ==
  ASSUME Shape, [Next]_vars, Purged, NEW k \in Key, PurgedShard(ShardOf[k])
  PROVE  ~Expired(entries'[k], ev.now)
<1>0. /\ entries \in [Key -> EntryType] /\ now \in Nat /\ ev.now \in Nat /\ ev.now <= now
      /\ ~Expired(entries[k], ev.now) /\ ~Expired(None, ev.now)
  BY DEF Shape, TypeOK, ClocksFormed, EvType, Purged, Expired, None
<1>1. CASE UNCHANGED <<entries, current, count>> \/ FlZero
  BY <1>0, <1>1 DEF FlZero
<1>2. CASE Removal
  BY <1>0, <1>2 DEF Removal, Remove
<1>3. CASE Prolonged
  <2>1. PICK j \in Key, t \in Nat : t > now /\ entries' = [entries EXCEPT ![j].exp = t]
    BY <1>3 DEF Prolonged
  <2> QED
    BY <1>0, <2>1 DEF EntryType, Expired
<1>4. ASSUME NEW c \in Client, WriteReserve(c) PROVE ~Expired(entries'[k], ev.now)
  <2>1. entries' = [entries EXCEPT ![call[c].key] = Old(c)]
    BY <1>4 DEF WriteReserve
  <2> QED
    BY <1>0, <2>1 DEF Old
<1>5. ASSUME NEW c \in Client, Insert(c) PROVE ~Expired(entries'[k], ev.now)
  <2>1. CASE k = call[c].key
    <3>1. /\ call[c].pc = "insert" /\ call[c].kind \in {"set", "add", "counter"}
          /\ CallFormed(call[c]) /\ call[c] \in CallType /\ call[c].now >= ev.now
      BY <1>5, <2>1 DEF Shape, TypeOK, Insert, CallFormed, Purged
    <3>2. entries'[k] = NewEntry(c) /\ NewEntry(c).exp = Deadline(c, entries[k])
      BY <1>0, <1>5, <2>1, NewEntryIs DEF NewEntry
    <3>3. EntryFormed(entries[k]) /\ entries[k] \in EntryType
      BY <1>0 DEF Shape
    <3>4. CASE call[c].kind = "counter"
      <4>1. Deadline(c, entries[k]) = entries[k].exp
        BY <3>4 DEF Deadline
      <4>2. entries[k].exp = 0 \/ ~(entries[k].exp <= ev.now)
        BY <1>0, <3>3 DEF EntryFormed, None, Expired
      <4> QED
        BY <3>2, <4>1, <4>2 DEF Expired
    <3>5. CASE call[c].kind = "add"
      <4>1. Deadline(c, entries[k]) = call[c].now + call[c].ttl
        BY <3>5 DEF Deadline
      <4>2. call[c].ttl > 0 /\ call[c].ttl \in Nat /\ call[c].now \in Nat
        BY <3>1, <3>5 DEF CallFormed, CallType
      <4>3. ~(call[c].now + call[c].ttl <= ev.now)
        BY <1>0, <3>1, <4>2
      <4> QED
        BY <3>2, <4>1, <4>3 DEF Expired
    <3>6. CASE call[c].kind = "set"
      <4>1. Deadline(c, entries[k]) = IF call[c].ttl = 0 THEN 0 ELSE now + call[c].ttl
        BY <3>6 DEF Deadline
      <4>2. call[c].ttl \in Nat
        BY <3>1 DEF CallType
      <4>3. call[c].ttl # 0 => ~(now + call[c].ttl <= ev.now)
        BY <1>0, <4>2
      <4> QED
        BY <3>2, <4>1, <4>3 DEF Expired
    <3> QED
      BY <3>1, <3>4, <3>5, <3>6
  <2>2. CASE k # call[c].key
    BY <1>0, <1>5, <2>2 DEF Insert
  <2> QED
    BY <2>1, <2>2
<1>6. CASE FlClear
  BY <1>0, <1>6 DEF FlClear
<1> QED
  BY <1>1, <1>2, <1>3, <1>4, <1>5, <1>6, Effects DEF Effect

LEMMA ShardsPurged ==
  ASSUME Shape, [Next]_vars, NEW s \in 1..Shards, PurgedShard(s)'
  PROVE  /\ ev'.now = ev.now
         /\ PurgedShard(s) \/ (EvPurged /\ s = ev.at)
<1>0. ev \in EvType /\ s \in Nat /\ s <= Shards /\ s >= 1 /\ Shards \in Nat /\ ev.at \in Nat
  BY IdsTyped DEF Shape, TypeOK, EvType
<1>1. CASE UNCHANGED ev
  BY <1>1 DEF PurgedShard
<1>2. ASSUME NEW c \in Client, EvBegin(c) \/ FlBegin(c), ~UNCHANGED ev PROVE FALSE
  <2>1. ev'.pc = "lock" \/ (ev'.pc = "purge" /\ ev'.at = 1)
    BY <1>2, QueueMoves, EvIdleTyped DEF EvType
  <2> QED
    BY <1>0, <2>1 DEF PurgedShard
<1>3. CASE OwnerStep
  <2>1. Failure => ev'.now = ev.now
    BY FailureIs DEF Shape
  <2>2. \A k : Candidate(k) => ev'.now = ev.now
    BY <1>0 DEF Candidate, EvType
  <2>3. CASE EvPurgeLock
    BY <1>0, <2>3 DEF EvPurgeLock, EvGoto, EvType, PurgedShard
  <2>4. CASE EvPurgeKey
    BY <1>1, <2>4 DEF EvPurgeKey
  <2>5. CASE EvPurged
    <3>1. CASE Last(ev.at)
      BY <1>0, <2>5, <3>1 DEF EvPurged, Last, EvType, PurgedShard
    <3>2. CASE ~Last(ev.at)
      <4>1. ev'.pc = "purge" /\ ev'.at = ev.at + 1 /\ ev'.now = ev.now /\ ev.pc = "purging"
        BY <1>0, <2>5, <3>2 DEF EvPurged, EvType
      <4> QED
        BY <1>0, <2>5, <4>1 DEF PurgedShard
    <3> QED
      BY <3>1, <3>2
  <2>6. CASE EvRoom
    BY <1>0, <2>6 DEF EvRoom, EvType, PurgedShard
  <2>7. CASE EvSample \/ EvScan \/ EvTry
    BY <1>0, <2>1, <2>2, <2>7 DEF EvSample, EvScan, EvTry, EvGoto, EvType, PurgedShard
  <2>8. CASE EvFinish
    BY <2>8, EvIdleTyped DEF EvFinish, Released, PurgedShard
  <2>9. CASE FlLock \/ FlClear \/ FlZero
    BY <1>0, <2>9 DEF FlLock, FlClear, FlZero, EvGoto, EvType, PurgedShard
  <2>10. CASE FlUnlock
    BY <1>0, <2>10, EvIdleTyped DEF FlUnlock, Released, EvType, PurgedShard
  <2> QED
    BY <1>3, <2>3, <2>4, <2>5, <2>6, <2>7, <2>8, <2>9, <2>10 DEF OwnerStep
<1> QED
  BY <1>1, <1>2, <1>3, EvEffects

LEMMA PurgedNext ==
  ASSUME Shape, [Next]_vars, Purged
  PROVE  Purged'
<1>1. ASSUME NEW k \in Key, PurgedShard(ShardOf[k])' PROVE ~Expired(entries'[k], ev'.now)
  <2>1. ShardOf[k] \in 1..Shards
    BY IdsTyped
  <2>2. ev'.now = ev.now /\ (PurgedShard(ShardOf[k]) \/ (EvPurged /\ ShardOf[k] = ev.at))
    BY <1>1, <2>1, ShardsPurged
  <2>3. CASE EvPurged /\ ShardOf[k] = ev.at
    BY <2>2, <2>3 DEF EvPurged, KeysOf
  <2> QED
    BY <2>2, <2>3, FreshKept
<1>2. ASSUME NEW c \in Client, call'[c].pc = "insert", PurgedShard(ShardOf[call[c].key])'
      PROVE  call'[c].now >= ev'.now
  <2>0. /\ call[c] \in CallType /\ now \in Nat /\ ev.now \in Nat /\ ev.now <= now
    BY DEF Shape, TypeOK, ClocksFormed, EvType
  <2>1. CASE WriteReserve(c)
    <3>1. call'[c].now = now /\ UNCHANGED ev
      BY <1>2, <2>1, ReserveMoves DEF WriteReserve
    <3> QED
      BY <2>0, <3>1
  <2>2. CASE call[c].pc = "insert" /\ call'[c].key = call[c].key /\ call'[c].now = call[c].now
             /\ call[c].key \in Key
    <3>1. ShardOf[call[c].key] \in 1..Shards
      BY <2>2, IdsTyped
    <3>2. PICK s \in 1..Shards : s = ShardOf[call[c].key] /\ s = ShardOf[call'[c].key]
      BY <2>2, <3>1
    <3>3. PurgedShard(s)'
      BY <1>2, <3>2 DEF PurgedShard
    <3>4. ev'.now = ev.now /\ (PurgedShard(s) \/ (EvPurged /\ s = ev.at))
      BY <3>3, ShardsPurged
    <3>5. ~(EvPurged /\ s = ev.at)
      BY <2>2, <3>2 DEF EvPurged, EvHolds, Shape, LocksHeld
    <3> QED
      BY <2>2, <3>2, <3>4, <3>5 DEF Purged
  <2> QED
    BY <1>2, <2>0, <2>1, <2>2, WritersKept DEF CallType
<1> QED
  BY <1>1, <1>2 DEF Purged

(* No live entry is a candidate while an entry that had expired when the      *)
(* eviction began is left, although every shard is unlocked again before the  *)
(* next one is purged and writers go on.                                      *)
THEOREM EvictionPurgesFirst == Spec => []PurgesFirst
<1>1. Init => Purged
  BY EvIdleTyped, ShapeInit DEF Init, Purged, PurgedShard
<1>2. Purged /\ Shape /\ [Next]_vars => Purged'
  BY PurgedNext
<1>3. Purged => PurgesFirst
  BY DEF Purged, PurgesFirst, PurgedShard
<1> QED
  BY <1>1, <1>2, <1>3, ShapeInvariant, PTL DEF Spec

(***************************************************************************)
(* A write that no other call overlaps.                                    *)
(***************************************************************************)

(* The owner looks at the shards from the first one. *)
EvAtOne == ev.pc \in {"room", "sample", "try"} => ev.at = 1

(* While the write of c is the only call, only maintenance touches the map    *)
(* beside it, so the bytes in use never grow: they were above the target, and *)
(* so above 0, when the candidate was looked for; the search finds one unless *)
(* every shard is empty; and the one it found is still there unless its bytes *)
(* have been given back.                                                      *)
AloneFormed(c) ==
    /\ call[c].pc # "idle" /\ \A d \in Client \ {c} : call[d].pc = "idle"
    /\ call[c].pc = "done" /\ Cost[call[c].val] <= MaxItemSize => call[c].res = 1
    /\ call[c].pc \in {"evict", "evicting"} => call[c].need \in 1..MaxMemory
    /\ ev.pc \in {"sample", "scan", "try"} => current <= ev.before /\ 0 < ev.before
    /\ ev.pc = "scan" => \A k \in Key : ShardOf[k] < ev.at => entries[k].id = 0
    /\ ev.pc = "try" => ev.id # 0 /\ (entries[ev.key].id = ev.id \/ current < ev.before)
    /\ ev.pc = "finish" => HasRoom(current, call[c].need)

Alone == EvAtOne /\ \A c \in Client : call[c].alone => AloneFormed(c)

LEMMA AtOneNext ==
  ASSUME Shape, EvAtOne, [Next]_vars
  PROVE  EvAtOne'
<1>0. ev \in EvType
  BY DEF Shape, TypeOK
<1>1. CASE UNCHANGED ev
  BY <1>1 DEF EvAtOne
<1>2. ASSUME NEW c \in Client, EvBegin(c) \/ FlBegin(c), ~UNCHANGED ev PROVE EvAtOne'
  BY <1>2, QueueMoves, EvIdleTyped DEF EvType, EvAtOne
<1>3. CASE OwnerStep
  <2>1. Failure => ev'.at = 1
    BY FailureIs DEF Shape
  <2>2. \A k : Candidate(k) => ev'.at = 1
    BY <1>0 DEF Candidate, EvType
  <2>3. CASE EvPurgeLock \/ EvPurgeKey \/ EvPurged \/ EvRoom
    BY <1>0, <2>3 DEF EvPurgeLock, EvPurgeKey, EvPurged, EvRoom, EvGoto, EvType, EvAtOne
  <2>4. CASE EvSample \/ EvTry
    BY <1>0, <2>1, <2>2, <2>4 DEF EvSample, EvTry, EvGoto, EvType, EvAtOne
  <2>5. CASE EvScan
    <3>1. ev'.at = 1 \/ ev'.pc = "scan"
      BY <1>0, <2>1, <2>2, <2>5 DEF EvScan, EvType
    <3> QED
      BY <3>1 DEF EvAtOne
  <2>6. CASE EvFinish \/ FlUnlock
    BY <1>0, <2>6, EvIdleTyped DEF EvFinish, FlUnlock, Released, EvType, EvAtOne
  <2>7. CASE FlLock \/ FlClear \/ FlZero
    BY <1>0, <2>7 DEF FlLock, FlClear, FlZero, EvGoto, EvType, EvAtOne
  <2> QED
    BY <1>3, <2>3, <2>4, <2>5, <2>6, <2>7 DEF OwnerStep
<1> QED
  BY <1>1, <1>2, <1>3, EvEffects

(* While the write of c is the only call, its eviction is the only one. *)
LEMMA AloneOwner ==
  ASSUME Shape, NEW c \in Client, call[c].alone, AloneFormed(c)
  PROVE  /\ call[c].kind = "set" /\ CallFormed(call[c]) /\ call[c] \in CallType
         /\ call[c].val \in Value
         /\ ev.pc \in EvictPc => ev.owner = c /\ call[c].pc = "evicting"
         /\ ev.pc \notin FlushPc
<1>1. call[c].kind = "set" /\ CallFormed(call[c]) /\ call[c] \in CallType /\ call[c].val \in Value
  BY DEF Shape, TypeOK, CallFormed
<1>2. \A d \in Client : call[d].pc # "idle" => d = c
  BY DEF AloneFormed
<1>3. ev.pc \in EvictPc => ev.owner = c /\ call[c].pc = "evicting"
  BY <1>2 DEF Shape, EvFormed
<1>4. ev.pc \in FlushPc => call[c].pc = "flushing"
  BY <1>2 DEF Shape, EvFormed
<1> QED
  BY <1>1, <1>3, <1>4 DEF CallFormed

(* What the only call does. *)
LEMMA AloneCall ==
  ASSUME Shape, NEW c \in Client, call[c].alone, AloneFormed(c), CallStep(c), call'[c].alone
  PROVE  AloneFormed(c)'
<1>0. /\ call[c].kind = "set" /\ CallFormed(call[c]) /\ call[c] \in CallType
      /\ call[c].val \in Value /\ TypeOK /\ call \in [Client -> CallType]
  BY AloneOwner DEF Shape, TypeOK
<1>1. /\ Moved(c) /\ call[c].pc # "evicting" /\ ClientStep(c)
      /\ \A d \in Client \ {c} : call'[d].pc = "idle"
  BY ClientSteps DEF ClientStep, Moved, AloneFormed
<1>2. ev.pc \notin EvictPc
  BY <1>1, AloneOwner
<1>3. ev'.pc \notin {"sample", "scan", "try", "finish"}
  <2>1. CASE UNCHANGED ev
    BY <1>2, <2>1 DEF EvictPc
  <2>2. CASE EvBegin(c) \/ FlBegin(c)
    BY <1>2, <2>2, QueueMoves, EvIdleTyped DEF EvType, EvictPc
  <2> QED
    BY <2>1, <2>2, ClientSteps
<1>4. SUFFICES /\ call'[c].pc # "idle"
               /\ call'[c].pc = "done" /\ Cost[call'[c].val] <= MaxItemSize => call'[c].res = 1
               /\ call'[c].pc \in {"evict", "evicting"} => call'[c].need \in 1..MaxMemory
  BY <1>1, <1>3 DEF AloneFormed
<1>5. CASE Return(c)
  BY <1>0, <1>5 DEF Return, CallSet, CallIdle
<1>6. CASE WriteInvalid(c)
  <2>1. call'[c].pc = "done" /\ SameQuestion(call'[c], call[c])
    BY <1>0, <1>6, RefuseMoves DEF WriteInvalid, Shape, ClocksFormed
  <2>2. NewValue(c, Old(c)) = call[c].val /\ Invalid(c, Old(c))
    BY <1>0, <1>6 DEF WriteInvalid, NewValue
  <2>3. Cost[call[c].val] > MaxItemSize
    BY <1>0, <2>2 DEF Invalid, Value
  <2>4. ~(Cost[call[c].val] <= MaxItemSize)
    BY <1>0, <2>3, MemoryAssumption
  <2> QED
    BY <2>1, <2>4 DEF SameQuestion
<1>7. CASE WriteReserve(c)
  <2>1. /\ call[c].key \in Key /\ call'[c].pc \in {"insert", "evict"}
        /\ call'[c].pc = "evict" => call'[c].need = Delta(c, Old(c)) /\ Delta(c, Old(c)) > 0
    BY <1>7, ReserveMoves
  <2>2. Old(c) \in EntryType /\ EntryFormed(Old(c)) /\ ~Invalid(c, Old(c))
    BY <1>0, <1>7, <2>1, OldFormed DEF WriteReserve, Shape
  <2>3. /\ Cost[NewValue(c, Old(c))] \in Nat /\ Cost[NewValue(c, Old(c))] <= MaxItemSize
        /\ CostOf(Old(c)) \in Nat /\ Delta(c, Old(c)) \in Int
        /\ Delta(c, Old(c)) = Cost[NewValue(c, Old(c))] - CostOf(Old(c))
    BY <1>0, <2>2, WriteNumbers
  <2>4. MaxItemSize \in Nat /\ MaxMemory \in Nat /\ MaxItemSize <= MaxMemory
    BY MemoryAssumption
  <2>5. Delta(c, Old(c)) > 0 => Delta(c, Old(c)) \in 1..MaxMemory
    BY <2>3, <2>4
  <2> QED
    BY <2>1, <2>5
<1>8. CASE Insert(c)
  BY <1>0, <1>8, InsertMoves
<1>9. CASE EvBegin(c)
  <2>1. \/ call'[c].pc = "lock"
        \/ call[c].pc = "evict" /\ call'[c].pc = "evicting" /\ call'[c].need = call[c].need
    BY <1>9, QueueMoves DEF EvBegin
  <2> QED
    BY <2>1 DEF AloneFormed
<1>10. CASE Get(c) \/ GetExpired(c) \/ Forget(c) \/ Touch(c) \/ AddExists(c) \/ FlBegin(c)
  BY <1>0, <1>10 DEF Get, GetExpired, Forget, Touch, AddExists, FlBegin, At
<1> QED
  BY <1>5, <1>6, <1>7, <1>8, <1>9, <1>10 DEF CallStep

(* Its eviction finds the bytes it needs. *)
LEMMA AloneEviction ==
  ASSUME Shape, Books, EvAtOne, NEW c \in Client, call[c].alone, AloneFormed(c), OwnerStep
  PROVE  AloneFormed(c)'
<1>0. /\ ev \in EvType /\ TypeOK /\ current \in Int /\ entries \in [Key -> EntryType]
      /\ call \in [Client -> CallType] /\ call[c] \in CallType /\ Shards \in Nat
      /\ ev.at \in 1..Shards /\ ev.before \in Int
  BY IdsTyped DEF Shape, TypeOK, EvType
<1>1. /\ ev.pc \in EvictPc => ev.owner = c /\ call[c].pc = "evicting"
      /\ ev.pc \notin FlushPc
  BY AloneOwner
<1>2. ev.owner = c /\ call[c].pc = "evicting" /\ ev.pc \in EvictPc
  <2>1. OwnerGoesOn \/ OwnerReturns
    BY OwnerMoves
  <2>2. ev.pc \in EvictPc
    BY <1>1, <2>1 DEF OwnerGoesOn, OwnerReturns, EvictPc, FlushPc
  <2> QED
    BY <1>1, <2>2
<1>3. call[c].need \in Nat /\ 0 < call[c].need /\ call[c].need <= MaxMemory /\ Need = call[c].need
  BY <1>2, MemoryAssumption DEF AloneFormed, Need
<1>4. MaxMemory \in Nat /\ LowWater \in Nat
  BY MemoryAssumption
<1>5. Target \in Nat /\ Target + Need <= MaxMemory
  BY <1>3, <1>4 DEF Target, Smaller
<1>6. UNCHANGED call => (/\ call'[c].pc = "evicting" /\ call'[c].need = call[c].need
                         /\ \A d \in Client \ {c} : call'[d].pc = "idle"
                         /\ call'[c].need \in 1..MaxMemory)
  BY <1>2 DEF AloneFormed
<1>7. ASSUME UNCHANGED call, ev'.pc \in {"purge", "purging", "room"}
      PROVE  AloneFormed(c)'
  BY <1>6, <1>7 DEF AloneFormed
<1>8. CASE EvPurgeLock \/ EvPurgeKey \/ EvPurged
  BY <1>0, <1>7, <1>8 DEF EvPurgeLock, EvPurgeKey, EvPurged, EvGoto, EvType
<1>9. CASE EvRoom
  <2>1. CASE current <= Target
    <3>1. ev'.pc = "finish" /\ UNCHANGED <<call, current>>
      BY <1>0, <1>9, <2>1 DEF EvRoom, EvType
    <3>2. HasRoom(current, call[c].need)
      BY <1>0, <1>3, <1>4, <1>5, <2>1 DEF HasRoom
    <3> QED
      BY <1>6, <3>1, <3>2 DEF AloneFormed, HasRoom
  <2>2. CASE ~(current <= Target)
    <3>1. ev'.pc = "sample" /\ ev'.before = current /\ UNCHANGED <<call, current>>
      BY <1>0, <1>9, <2>2 DEF EvRoom, EvType
    <3>2. current <= current /\ 0 < current
      BY <1>0, <1>5, <2>2
    <3> QED
      BY <1>6, <3>1, <3>2 DEF AloneFormed
  <2> QED
    BY <2>1, <2>2
<1>10. ASSUME NEW k \in Key, Candidate(k), entries[k].id # 0, UNCHANGED <<call, entries, current>>,
              ev.pc \in {"sample", "scan"}
       PROVE  AloneFormed(c)'
  <2>1. ev'.pc = "try" /\ ev'.key = k /\ ev'.id = entries[k].id /\ ev'.before = ev.before
    BY <1>0, <1>10, CandidateIs
  <2>2. current <= ev.before /\ 0 < ev.before
    BY <1>10 DEF AloneFormed
  <2> QED
    BY <1>6, <1>10, <2>1, <2>2 DEF AloneFormed
<1>11. ASSUME Failure, current < ev.before, UNCHANGED call
       PROVE  AloneFormed(c)'
  <2>1. ev'.pc = "room"
    BY <1>0, <1>11 DEF Failure, EvType
  <2> QED
    BY <1>7, <1>11, <2>1
<1>12. CASE EvSample
  <2>1. ASSUME EvGoto("scan") PROVE AloneFormed(c)'
    <3>1. ev'.pc = "scan" /\ ev'.at = ev.at /\ ev'.before = ev.before
      BY <1>0, <2>1 DEF EvGoto, EvType
    <3>2. ev.at = 1 /\ current <= ev.before /\ 0 < ev.before
      BY <1>12 DEF EvSample, EvAtOne, AloneFormed
    <3>3. \A k \in Key : ~(ShardOf[k] < 1)
      BY IdsTyped
    <3> QED
      BY <1>6, <1>12, <3>1, <3>2, <3>3 DEF EvSample, AloneFormed
  <2> QED
    BY <1>10, <1>12, <2>1 DEF EvSample
<1>13. CASE EvScan
  <2>0. /\ ev.pc = "scan" /\ UNCHANGED <<call, entries, current>>
        /\ current <= ev.before /\ 0 < ev.before
        /\ \A k \in Key : ShardOf[k] < ev.at => entries[k].id = 0
    BY <1>13 DEF EvScan, AloneFormed
  <2>1. ASSUME NEW k \in Present(ev.at), Candidate(k) PROVE AloneFormed(c)'
    BY <1>10, <2>0, <2>1 DEF Present, KeysOf
  <2>2. ASSUME Present(ev.at) = {} PROVE \A k \in Key : ShardOf[k] <= ev.at => entries[k].id = 0
    <3> TAKE k \in Key
    <3>1. ShardOf[k] \in Nat /\ ev.at \in Nat
      BY <1>0, IdsTyped
    <3>2. ShardOf[k] = ev.at => entries[k].id = 0
      BY <2>2 DEF Present, KeysOf
    <3> QED
      BY <2>0, <3>1, <3>2
  <2>3. CASE Present(ev.at) = {} /\ ~Last(ev.at) /\ ev' = [ev EXCEPT !.at = @ + 1]
    <3>1. ev'.pc = "scan" /\ ev'.at = ev.at + 1 /\ ev'.before = ev.before
      BY <1>0, <2>0, <2>3 DEF EvType
    <3>2. \A k \in Key : ShardOf[k] < ev.at + 1 => entries[k].id = 0
      <4>1. \A k \in Key : ShardOf[k] \in Nat
        BY IdsTyped
      <4> QED
        BY <1>0, <2>2, <2>3, <4>1
    <3> QED
      BY <1>6, <2>0, <3>1, <3>2 DEF AloneFormed
  <2>4. CASE Present(ev.at) = {} /\ Last(ev.at) /\ Failure
    <3>1. \A k \in Key : entries[k].id = 0
      BY <2>2, <2>4, IdsTyped DEF Last
    <3>2. StoredBytes = 0
      <4> DEFINE f == [k \in Key |-> CostOf(entries[k])]
      <4>1. f \in [Key -> Int] /\ IsFiniteSet(Key) /\ \A k \in Key : f[k] = 0
        BY <3>1, MemoryAssumption DEF CostOf
      <4> HIDE DEF f
      <4>2. SumFunction(f) = 0
        BY <4>1, SumZero
      <4> QED
        BY <4>2 DEF f, StoredBytes
    <3>3. ReservedBytes = 0
      <4> DEFINE f == [d \in Client |-> Reserved(d)]
      <4>1. \A d \in Client : call[d].pc # "insert"
        BY <1>2 DEF AloneFormed
      <4>2. f \in [Client -> Int] /\ IsFiniteSet(Client) /\ \A d \in Client : f[d] = 0
        BY <4>1, ReservedTyped, MemoryAssumption
      <4> HIDE DEF f
      <4>3. SumFunction(f) = 0
        BY <4>2, SumZero
      <4> QED
        BY <4>3 DEF f, ReservedBytes
    <3>4. current = 0
      BY <2>0, <3>2, <3>3 DEF Books, Accounting
    <3> QED
      BY <1>11, <2>0, <2>4, <3>4
  <2> QED
    BY <1>13, <2>1, <2>3, <2>4 DEF EvScan
<1>14. CASE EvTry
  <2>1. CASE entries[ev.key].id = ev.id
    <3>1. ev'.pc = "room" /\ UNCHANGED call
      BY <1>0, <1>14, <2>1 DEF EvTry, EvType
    <3> QED
      BY <1>7, <3>1
  <2>2. CASE entries[ev.key].id # ev.id
    BY <1>11, <1>14, <2>2 DEF EvTry, AloneFormed
  <2> QED
    BY <2>1, <2>2
<1>15. CASE EvFinish
  <2> DEFINE r == call[c]
             s == [r EXCEPT !.pc = "lock", !.need = 0]
  <2>1. HasRoom(current, Need)
    BY <1>3, <1>15 DEF EvFinish, AloneFormed
  <2>2. call' = [call EXCEPT ![c] = s] /\ ev' = EvIdle
    BY <1>2, <1>15, <2>1 DEF EvFinish, CallSet, Released
  <2>3. s.pc = "lock"
    BY <1>0 DEF CallType
  <2> HIDE DEF s
  <2>4. call'[c].pc = "lock" /\ \A d \in Client \ {c} : call'[d].pc = "idle"
    BY <1>0, <2>2, <2>3 DEF AloneFormed
  <2> QED
    BY <2>2, <2>4, EvIdleTyped DEF AloneFormed
<1>16. CASE FlLock \/ FlClear \/ FlZero \/ FlUnlock
  BY <1>2, <1>16 DEF FlLock, FlClear, FlZero, FlUnlock, EvictPc
<1> QED
  BY <1>8, <1>9, <1>12, <1>13, <1>14, <1>15, <1>16 DEF OwnerStep

(* Maintenance gives the bytes of what it removes back. *)
LEMMA AloneMaintenance ==
  ASSUME Shape, \A v \in Value : Cost[v] > 0,
         NEW c \in Client, call[c].alone, AloneFormed(c), MtDelete
  PROVE  AloneFormed(c)'
<1>0. /\ ev \in EvType /\ current \in Int /\ entries \in [Key -> EntryType] /\ ev.before \in Int
      /\ UNCHANGED <<call, ev>> /\ call[c] \in CallType /\ ev.id \in Id
  BY DEF Shape, TypeOK, EvType, MtDelete
<1>1. CASE UNCHANGED <<entries, current, count>>
  BY <1>0, <1>1 DEF AloneFormed, HasRoom
<1>2. ASSUME NEW k \in Key, Remove(k) PROVE AloneFormed(c)'
  <2>0. CostOf(entries[k]) \in Nat /\ EntryFormed(entries[k])
    BY <1>0, CostsTyped DEF Shape
  <2>1. /\ entries' = [entries EXCEPT ![k] = None] /\ current' = current - CostOf(entries[k])
        /\ current' \in Int /\ current' <= current
    BY <1>0, <1>2, <2>0 DEF Remove
  <2>2. entries[k].id # 0 => current' < current
    <3>1. entries[k].id # 0 => CostOf(entries[k]) > 0
      BY <2>0 DEF CostOf, EntryFormed
    <3> QED
      BY <1>0, <2>0, <2>1, <3>1
  <2>3. ev.pc \in {"sample", "scan", "try"} => current' <= ev.before /\ 0 < ev.before
    BY <1>0, <2>1 DEF AloneFormed
  <2>4. ev.pc = "scan" => \A j \in Key : ShardOf[j] < ev.at => entries'[j].id = 0
    BY <1>0, <2>1 DEF AloneFormed, None
  <2>5. ev.pc = "try" => ev.id # 0 /\ (entries'[ev.key].id = ev.id \/ current' < ev.before)
    <3> SUFFICES ASSUME ev.pc = "try"
                 PROVE  ev.id # 0 /\ (entries'[ev.key].id = ev.id \/ current' < ev.before)
      OBVIOUS
    <3>1. /\ ev.id # 0 /\ (entries[ev.key].id = ev.id \/ current < ev.before)
          /\ current <= ev.before /\ ev.key \in Key
      BY DEF AloneFormed, Shape, EvFormed
    <3>2. CASE current < ev.before
      BY <1>0, <2>1, <3>1, <3>2
    <3>3. CASE entries[ev.key].id = ev.id /\ ev.key = k
      BY <1>0, <2>1, <2>2, <3>1, <3>3
    <3>4. CASE entries[ev.key].id = ev.id /\ ev.key # k
      BY <1>0, <2>1, <3>1, <3>4
    <3> QED
      BY <3>1, <3>2, <3>3, <3>4
  <2>6. ev.pc = "finish" => HasRoom(current', call[c].need)
    <3>1. call[c].need \in Nat /\ MaxMemory \in Nat
      BY <1>0, MemoryAssumption DEF CallType
    <3> QED
      BY <1>0, <2>1, <3>1 DEF AloneFormed, HasRoom
  <2> QED
    BY <1>0, <2>3, <2>4, <2>5, <2>6 DEF AloneFormed, HasRoom
<1>3. PICK f \in maint.found : DeleteExpired(f[1], f[2], maint.now)
  BY DEF MtDelete
<1>4. f[1] \in Key
  BY DEF Shape, TypeOK, MaintType
<1> QED
  BY <1>1, <1>2, <1>3, <1>4 DEF DeleteExpired

(* Only Return leaves a client idle. *)
LEMMA NotIdle ==
  ASSUME Shape, NEW c \in Client, CallStep(c), ~Return(c)
  PROVE  call'[c].pc # "idle"
<1>0. call[c] \in CallType /\ call \in [Client -> CallType]
  BY DEF Shape, TypeOK
<1>1. \A res : Answer(c, res) => call'[c].pc # "idle"
  <2> TAKE res
  <2>1. Done(c, res) => call'[c].pc # "idle"
    BY <1>0 DEF Done, CallSet, CallType
  <2>2. ASSUME NEW k,
               CallSet(c, [call[c] EXCEPT !.pc = "lock", !.key = k, !.left = @ \ {k}, !.id = 0,
                                          !.need = 0, !.now = 0, !.res = res])
        PROVE  call'[c].pc # "idle"
    <3> DEFINE r == call[c]
               s == [r EXCEPT !.pc = "lock", !.key = k, !.left = r.left \ {k}, !.id = 0,
                              !.need = 0, !.now = 0, !.res = res]
    <3>1. call'[c] = s
      BY <1>0, <2>2 DEF CallSet
    <3> HIDE DEF r
    <3>2. r \in CallType
      BY <1>0 DEF r
    <3>3. s.pc = "lock"
      BY <3>2 DEF CallType
    <3> QED
      BY <3>1, <3>3
  <2> QED
    BY <2>1, <2>2 DEF Answer
<1>2. \A res : Done(c, res) => call'[c].pc # "idle"
  BY <1>0 DEF Done, CallSet, CallType
<1>3. Refuse(c) => call'[c].pc # "idle"
  <2> DEFINE r == call[c]
             s == [r EXCEPT !.pc = "done", !.key = NoKey, !.left = {}, !.need = 0, !.res = 0]
  <2>1. Refuse(c) => call'[c] = s
    BY <1>0 DEF Refuse, CallSet
  <2> HIDE DEF r
  <2>2. r \in CallType
    BY <1>0 DEF r
  <2>3. s.pc = "done"
    BY <2>2 DEF CallType
  <2> QED
    BY <2>1, <2>3
<1>4. Get(c) => call'[c].pc # "idle"
  <2> DEFINE id == entries[call[c].key].id
             s == [call[c] EXCEPT !.pc = "expired", !.id = id, !.now = now]
  <2>1. Get(c) => CallSet(c, s) \/ \E res : Answer(c, res)
    BY DEF Get
  <2>2. CallSet(c, s) => call'[c].pc = "expired"
    BY <1>0 DEF CallSet, CallType
  <2> QED
    BY <1>1, <2>1, <2>2
<1>5. WriteReserve(c) => call'[c].pc # "idle"
  BY ReserveMoves
<1>6. EvBegin(c) \/ FlBegin(c) => call'[c].pc # "idle"
  BY QueueMoves
<1> QED
  BY <1>1, <1>2, <1>3, <1>4, <1>5, <1>6
     DEF CallStep, GetExpired, Forget, Touch, AddExists, WriteInvalid, Insert

LEMMA AloneNext ==
  ASSUME Shape, Books, Alone, [Next]_vars, \A v \in Value : Cost[v] > 0
  PROVE  Alone'
<1>0. EvAtOne' /\ EvAtOne /\ call \in [Client -> CallType]
  BY AtOneNext DEF Alone, Shape, TypeOK
<1> SUFFICES ASSUME NEW c \in Client, call'[c].alone PROVE AloneFormed(c)'
  BY <1>0 DEF Alone
<1>1. ASSUME NEW d \in Client, Call(d) PROVE AloneFormed(c)'
  <2>0. /\ call'[d].pc = "lock" /\ UNCHANGED ev
        /\ \A b \in Client \ {d} : call'[b] = [call[b] EXCEPT !.alone = FALSE]
        /\ call'[d].alone => \A b \in Client : call[b].pc = "idle"
    BY <1>1, CallBegins
  <2>1. c = d
    <3>1. call[c] \in CallType
      BY <1>0
    <3> QED
      BY <2>0, <3>1 DEF CallType
  <2>2. /\ \A b \in Client : call[b].pc = "idle"
        /\ \A b \in Client \ {d} : call'[b].pc = "idle"
    BY <1>0, <2>0, <2>1 DEF CallType
  <2>3. ev.pc \notin EvictPc
    BY <2>2 DEF Shape, EvFormed
  <2> QED
    BY <2>0, <2>1, <2>2, <2>3 DEF AloneFormed, EvictPc
<1>2. ASSUME call[c].alone, AloneFormed(c), UNCHANGED <<entries, current, call, ev>>
      PROVE  AloneFormed(c)'
  BY <1>2 DEF AloneFormed, HasRoom
<1>3. ASSUME NEW d \in Client, CallStep(d) PROVE AloneFormed(c)'
  <2>1. ClientStep(d)
    BY <1>3, ClientSteps
  <2>2. d = c
    <3>1. SUFFICES ASSUME d # c PROVE FALSE
      OBVIOUS
    <3>2. call'[c] = call[c]
      BY <2>1, <3>1 DEF ClientStep, Moved
    <3>3. AloneFormed(c) /\ call[d].pc = "idle"
      BY <3>1, <3>2 DEF Alone, AloneFormed
    <3> QED
      BY <2>1, <3>3 DEF ClientStep
  <2>3. call[c].alone
    <3>1. call'[c].pc # "idle" => call'[c].alone = call[c].alone
      BY <2>1, <2>2 DEF ClientStep, SameQuestion
    <3>2. CASE Return(c)
      BY <1>0, <3>2 DEF Return, CallSet, CallIdle
    <3>3. CASE ~Return(c)
      BY <1>3, <2>2, <3>1, <3>3, NotIdle
    <3> QED
      BY <3>2, <3>3
  <2> QED
    BY <1>3, <2>2, <2>3, AloneCall DEF Alone
<1>4. ASSUME OwnerStep PROVE AloneFormed(c)'
  <2>1. call[c].alone
    BY <1>4, OwnerMoves DEF OwnerGoesOn, OwnerReturns, Moved, SameQuestion
  <2> QED
    BY <1>0, <1>4, <2>1, AloneEviction DEF Alone
<1>5. ASSUME MtDelete PROVE AloneFormed(c)'
  <2>1. call[c].alone
    BY <1>5 DEF MtDelete
  <2> QED
    BY <1>5, <2>1, AloneMaintenance DEF Alone
<1>6. ASSUME MtSample \/ Tick \/ UNCHANGED vars PROVE AloneFormed(c)'
  BY <1>2, <1>6 DEF MtSample, Tick, vars, Alone
<1> QED
  BY <1>1, <1>3, <1>4, <1>5, <1>6 DEF Next

(* A write within the size limit that no other call overlaps is stored, never *)
(* refused: whatever the eviction samples and maintenance removes meanwhile,  *)
(* evictFor finds the bytes it needs.  Every entry is supposed to take a byte *)
(* at least, as each does but the empty value under the empty key.            *)
THEOREM AloneWritesAreStored ==
  ASSUME \A v \in Value : Cost[v] > 0
  PROVE  Spec => []AloneIsStored
<1>1. Init => Alone
  BY EvIdleTyped DEF Init, Alone, EvAtOne, CallIdle
<1>2. Alone /\ Books /\ Shape /\ [Next]_vars => Alone'
  BY AloneNext
<1>3. Alone => AloneIsStored
  BY DEF Alone, AloneIsStored, AloneFormed
<1> QED
  BY <1>1, <1>2, <1>3, ShapeInvariant, BooksInvariant, PTL DEF Spec

(***************************************************************************)
(* The arithmetic of the counters.                                         *)
(***************************************************************************)

(* CounterResult is exact, for integers of every width. *)
THEOREM CountersExact == CountersAreExact
<1> SUFFICES ASSUME NEW number \in Integer, NEW value \in Integer, NEW decrement \in BOOLEAN
             PROVE  CounterResult(number, value, decrement) = Exact(number, value, decrement)
  BY DEF CountersAreExact, Inexact
<1>m. MaxInt \in Nat
  BY CounterAssumption DEF CounterAssumption
<1> USE <1>m DEF Integer, MinInt
<1>1. ASSUME NEW v \in Integer
      PROVE  CheckedCounterAdd(number, v) =
               IF number + v \in Integer THEN Gives(number + v) ELSE Overflow
  <2>1. CASE v > 0
    <3>1. Wrap(MaxInt - v) = MaxInt - v
      BY <2>1 DEF Wrap
    <3>2. number + v \in Integer <=> ~(number > MaxInt - v)
      BY <2>1
    <3>3. number + v \in Integer => Wrap(number + v) = number + v
      BY DEF Wrap
    <3> QED BY <2>1, <3>1, <3>2, <3>3 DEF CheckedCounterAdd
  <2>2. CASE v < 0
    <3>1. Wrap(MinInt - v) = MinInt - v
      BY <2>2 DEF Wrap
    <3>2. number + v \in Integer <=> ~(number < MinInt - v)
      BY <2>2
    <3>3. number + v \in Integer => Wrap(number + v) = number + v
      BY DEF Wrap
    <3> QED BY <2>2, <3>1, <3>2, <3>3 DEF CheckedCounterAdd
  <2>3. CASE v = 0
    BY <2>3 DEF CheckedCounterAdd, Wrap
  <2> QED BY <2>1, <2>2, <2>3
<1>2. CASE ~decrement
  BY <1>1, <1>2 DEF CounterResult, Exact
<1>3. CASE decrement /\ value # MinInt
  <2>1. Wrap(-value) = -value /\ -value \in Integer
    BY <1>3 DEF Wrap
  <2>2. number + (-value) = number - value
    OBVIOUS
  <2> QED BY <1>1, <1>3, <2>1, <2>2 DEF CounterResult, Exact
<1>4. CASE decrement /\ value = MinInt
  <2>1. CASE number >= 0
    <3>1. number - value \notin Integer
      BY <1>4, <2>1
    <3> QED BY <1>4, <2>1, <3>1 DEF CounterResult, Exact
  <2>2. CASE ~(number >= 0)
    <3>1. /\ number - value \in Integer
          /\ Wrap(Wrap(MaxInt + number) + 1) = number - value
      BY <1>4, <2>2 DEF Wrap
    <3> QED BY <1>4, <2>2, <3>1 DEF CounterResult, Exact
  <2> QED BY <2>1, <2>2
<1> QED BY <1>2, <1>3, <1>4
================================================================================
