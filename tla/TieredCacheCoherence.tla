------------------------- MODULE TieredCacheCoherence -------------------------
(* Coherence of TieredCache, for every value of its constants: an instance    *)
(* that serves reads holds an outdated entry only while somebody is still due *)
(* to invalidate it, and so does a reader with an answer of Redis in hand; a  *)
(* batch of reads sees a batch of writes of its instance in whole or not.     *)
EXTENDS TieredCacheProofs

(***************************************************************************)
(* Who tells whom.                                                         *)
(***************************************************************************)

(* The keys q still has to publish an event for. *)
Telling(q) == Unannounced(q) \cup Owed(q)

(* p will apply what it is sent; until then everything in L1 is to be dropped. *)
Listening(p) == connected[p] /\ sub[p] \in {"flushed", "receive"}

(* An event for k waits in the subscription of p, or p will flush. *)
Heard(p, k) ==
    \/ ~Listening(p)
    \/ \E m \in inbox[p] : m.origin # p /\ k \in EventKeys(m)

(* p will be told of k by another instance, or nobody is left to do it. *)
Told(p, k) ==
    \/ Heard(p, k)
    \/ \E q \in Inst \ {p} : k \in Telling(q)
    \/ OrphanedBy(p, k, Inst)

(* Keys p has changed in Redis before it bumped its version. *)
Unbumped(p) == IF op[p].pc \in {"l2", "bump"} THEN Unapplied(p) ELSE {}

LEMMA WillHearIsTold ==
  ASSUME NEW p \in Inst, NEW k \in Key
  PROVE  WillHear(p, k) \/ OrphanedBy(p, k, Inst) <=> Told(p, k) \/ k \in Unapplied(p)
  BY DEF WillHear, Told, Heard, Listening, Telling

(* What the fields of a mutation say of the keys it has left. *)
OpForm(p) ==
    /\ op[p].pc = "l2" /\ op[p].kind # "flush" => op[p].keys \subseteq op[p].left
    /\ op[p].pc = "l2" /\ op[p].kind = "flush" => op[p].keys = Key
    /\ op[p].pc \in {"bump", "store"} =>
         /\ op[p].l1op = "flush" <=> op[p].kind = "flush"
         /\ op[p].l1op = "store" => op[p].kind # "touch"
         /\ op[p].l1op = "touch" => op[p].kind = "touch"
    /\ op[p].pc = "store" => op[p].left \subseteq op[p].keys
    /\ op[p].pc \in {"publish", "mark"} =>
         op[p].left \subseteq (IF op[p].kind = "flush" THEN {NoKey} ELSE op[p].keys)

(* What a mutation is about to store, and what it has stored, is current or   *)
(* somebody else has changed the key since.                                   *)
OpCoherent(p) ==
    /\ op[p].pc \in {"bump", "store"} /\ op[p].l1op = "store" =>
         \A k \in op[p].keys : op[p].at = redis[k] \/ Told(p, k)
    /\ op[p].pc = "store" /\ op[p].l1op # "flush" /\ ~op[p].refused =>
         \A k \in Changed(p) \ op[p].left : l1[p][k] \in {0, redis[k]} \/ Told(p, k)

L1Coherent(p) ==
    healthState[p] = "healthy" =>
        \A k \in Key : Stale(p, k) => Told(p, k) \/ k \in Unapplied(p)

(* Once a mutation of p has bumped the version it no longer excuses a reader. *)
ReadCoherent(g) ==
    /\ rd[g].ver <= mutationVersion[Home[g]]
    /\ rd[g].pc \in {"l1", "version", "l2"} => rd[g].l2 = NoEntries
    /\ rd[g].pc = "warm" /\ VersionCurrent(g) =>
         \A k \in Key : \/ rd[g].l2[k] \in {0, redis[k]}
                        \/ Told(Home[g], k)
                        \/ k \in Unbumped(Home[g])

CoherenceInv ==
    /\ \A p \in Inst : OpForm(p) /\ OpCoherent(p) /\ L1Coherent(p)
    /\ \A g \in Reader : ReadCoherent(g)

(***************************************************************************)
(* Events and debts.                                                       *)
(***************************************************************************)

LEMMA PublishTells ==
  ASSUME TypeOK, NEW p \in Inst \cup {NoOrigin}, NEW k \in Key \cup {NoKey}, Publish(p, k)
  PROVE  \A q \in Inst :
           /\ inbox[q] \subseteq inbox'[q]
           /\ connected[q] => [key |-> k, origin |-> p] \in inbox'[q]
  BY DEF Publish, TypeOK

LEMMA PublishFailsTells ==
  ASSUME TypeOK, NEW p \in Inst, NEW k \in Key \cup {NoKey}, PublishFails(p, k)
  PROVE  \A q \in Inst : inbox[q] \subseteq inbox'[q]
  BY PublishTells DEF PublishFails

(* An event that has reached every subscription is heard by all but its author. *)
LEMMA PublishHeard ==
  ASSUME TypeOK, NEW p \in Inst \cup {NoOrigin}, NEW j \in Key \cup {NoKey}, Publish(p, j),
         UNCHANGED connected,
         NEW q \in Inst \ {p}, NEW k \in Key, j = NoKey \/ j = k
  PROVE  Heard(q, k)'
<1>1. CASE connected[q]
  <2>1. [key |-> j, origin |-> p] \in inbox'[q]
    BY <1>1, PublishTells
  <2>2. k \in EventKeys([key |-> j, origin |-> p])
    BY DEF EventKeys
  <2> QED
    BY <2>1, <2>2 DEF Heard, EventKeys
<1>2. CASE ~connected[q]
  BY <1>2 DEF Heard, Listening
<1> QED
  BY <1>1, <1>2

(* Whoever takes no part in a step and loses no event is still told what it   *)
(* was to be told, if the instance that acts does not forget its debts.       *)
LEMMA ToldKept ==
  ASSUME NEW a \in Inst, NEW p \in Inst \ {a},
         sub'[p] = sub[p], connected'[p] = connected[p], inbox[p] \subseteq inbox'[p],
         \A q \in Inst \ {a} : Telling(q)' = Telling(q),
         \A k \in Telling(a) : k \in Telling(a)' \/ Heard(p, k)' \/ <<p, k, a>> \in orphan',
         \A k \in Key, q \in Inst : <<p, k, q>> \in orphan => <<p, k, q>> \in orphan'
  PROVE  \A k \in Key : Told(p, k) => Told(p, k)'
<1> SUFFICES ASSUME NEW k \in Key, Told(p, k) PROVE Told(p, k)'
  OBVIOUS
<1>1. CASE Heard(p, k)
  <2>1. Heard(p, k)'
    BY <1>1 DEF Heard, Listening, EventKeys
  <2> QED
    BY <2>1 DEF Told
<1>2. CASE \E q \in Inst \ {p} : k \in Telling(q)
  BY <1>2 DEF Told, OrphanedBy
<1>3. CASE OrphanedBy(p, k, Inst)
  BY <1>3 DEF Told, OrphanedBy
<1> QED
  BY <1>1, <1>2, <1>3 DEF Told
(* What every step of a mutation of p keeps: its shape, the events on their   *)
(* way, what p is to tell the others, and a trace of what it does to Redis.   *)
Announces(p) ==
    /\ \A q \in Inst : inbox[q] \subseteq inbox'[q]
    /\ \A q \in Inst \ {p} :
         /\ Owed(q)' = Owed(q)
         /\ \A k \in Telling(p) : k \in Telling(p)' \/ Heard(q, k)' \/ <<q, k, p>> \in orphan'
    /\ \A k \in Key, q \in Inst, r \in Inst :
         <<q, k, r>> \in orphan => <<q, k, r>> \in orphan' \/ (q = p /\ k \in Unbumped(p)')
    /\ \A k \in Key :
         redis'[k] # redis[k] => k \in Unbumped(p)' \/ \A q \in Inst : <<q, k, p>> \in orphan'

LEMMA AdoptKeeps ==
  ASSUME NEW p, NEW keys, Adopt(p, keys), NEW q, NEW k, NEW r, <<q, k, r>> \in orphan
  PROVE  <<q, k, r>> \in orphan' \/ (q = p /\ k \in keys)
  BY DEF Adopt

LEMMA AbandonLeaves ==
  ASSUME NEW p \in Inst, NEW keys \in SUBSET Key, Abandon(p, keys)
  PROVE  orphan \subseteq orphan' /\ \A q \in Inst, k \in keys : <<q, k, p>> \in orphan'
  BY DEF Abandon

LEMMA RedisStepTells ==
  ASSUME TypeOK, NEW p \in Inst, OpForm(p),
         L2Commit(p) \/ FlushScan(p) \/ FlushScanMarker(p) \/ FlushScanned(p)
  PROVE  OpForm(p)' /\ Announces(p)
<1> USE DEF OpUnchanged, localVars, cacheVars, healthVars, boundVars, historyVars, redisVars,
            messageVars, pendingVars
<1>a. /\ clock \in Nat /\ redis \in [Key -> Nat] /\ op \in [Inst -> OpType] /\ op[p] \in OpType
      /\ inbox \in [Inst -> SUBSET Message]
  BY DEF TypeOK
<1>b. op[p].keys \in SUBSET Key /\ op[p].left \in SUBSET (Key \cup {NoKey}) /\ NoKey \notin Key
  BY <1>a, TieredAssumption DEF OpType
<1>1. CASE L2Commit(p)
  <2>1. op'[p] = [op[p] EXCEPT !.pc = "bump", !.at = clock + 1, !.l1op = L1Op(p)]
    BY <1>1, <1>a DEF L2Commit, OpSet
  <2>2. /\ op'[p].pc = "bump" /\ op'[p].l1op = L1Op(p)
        /\ op'[p].kind = op[p].kind /\ op'[p].keys = op[p].keys
    BY <1>a, <2>1 DEF OpType
  <2>3. /\ op[p].pc = "l2" /\ op[p].kind # "flush"
        /\ redis' = Committed(p)
        /\ UNCHANGED <<inbox, pendingInvalidations, pendingFlush>>
        /\ IF op[p].kind = "touch" THEN UNCHANGED orphan ELSE Adopt(p, op[p].keys)
    BY <1>1 DEF L2Commit
  <2>4. Changed(p) = Changed(p)' /\ Unapplied(p) = {} /\ Unannounced(p) = {}
    BY <1>b, <2>2, <2>3 DEF OpForm, Changed, Unapplied, Unannounced
  <2>5. Unbumped(p)' = Changed(p)' /\ Changed(p)' = IF op[p].kind = "touch" THEN {} ELSE op[p].keys
    BY <2>2 DEF Unbumped, Unapplied, Changed
  <2>6. OpForm(p)'
    BY <2>2, <2>3 DEF OpForm, L1Op
  <2>7. \A k \in Key, q \in Inst, r \in Inst :
          <<q, k, r>> \in orphan => <<q, k, r>> \in orphan' \/ (q = p /\ k \in Unbumped(p)')
    BY <2>3, <2>5, AdoptKeeps
  <2>8. \A k \in Key : redis'[k] # redis[k] => k \in Unbumped(p)'
    BY <2>3, <2>5 DEF Committed
  <2>9. Owed(p)' = Owed(p) /\ Telling(p) \subseteq Telling(p)' /\ \A q \in Inst : Owed(q)' = Owed(q)
    BY <2>3, <2>4 DEF Telling, Owed
  <2> QED
    BY <2>3, <2>6, <2>7, <2>8, <2>9 DEF Announces
<1>2. CASE FlushScan(p)
  <2>1. PICK k \in op[p].left \cap Key :
          /\ redis' = [redis EXCEPT ![k] = 0]
          /\ OpSet(p, [op[p] EXCEPT !.left = @ \ {k}])
          /\ Adopt(p, {k})
    BY <1>2 DEF FlushScan
  <2>2. op'[p] = [op[p] EXCEPT !.left = @ \ {k}]
    BY <2>1, <1>a DEF OpSet
  <2>3. /\ op'[p].pc = "l2" /\ op'[p].kind = "flush" /\ op[p].pc = "l2" /\ op[p].kind = "flush"
        /\ op'[p].keys = op[p].keys /\ op'[p].left = op[p].left \ {k}
    BY <1>2, <1>a, <2>2 DEF OpType, FlushScan
  <2>4. UNCHANGED <<inbox, pendingInvalidations, pendingFlush>>
    BY <1>2 DEF FlushScan
  <2>5. /\ op[p].keys = Key /\ Changed(p) = Key /\ Changed(p)' = Key
        /\ Unapplied(p) = Key \ op[p].left /\ Unapplied(p)' = Key \ (op[p].left \ {k})
        /\ Unbumped(p)' = Unapplied(p)'
        /\ Unannounced(p) = Unapplied(p) /\ Unannounced(p)' = Unapplied(p)'
    BY <2>3 DEF OpForm, Changed, Unapplied, Unbumped, Unannounced
  <2>6. OpForm(p)'
    BY <2>3, <2>5 DEF OpForm
  <2>7. \A j \in Key, q \in Inst, r \in Inst :
          <<q, j, r>> \in orphan => <<q, j, r>> \in orphan' \/ (q = p /\ j \in Unbumped(p)')
    BY <2>1, <2>5, AdoptKeeps
  <2>8. \A j \in Key : redis'[j] # redis[j] => j \in Unbumped(p)'
    BY <1>a, <2>1, <2>5
  <2>9. Telling(p) \subseteq Telling(p)' /\ \A q \in Inst : Owed(q)' = Owed(q)
    BY <2>4, <2>5 DEF Telling, Owed
  <2> QED
    BY <2>4, <2>6, <2>7, <2>8, <2>9 DEF Announces
<1>3. CASE FlushScanMarker(p)
  <2>1. op'[p] = [op[p] EXCEPT !.left = @ \ {NoKey}]
    BY <1>3, <1>a DEF FlushScanMarker, OpSet
  <2>2. /\ op'[p].pc = "l2" /\ op'[p].kind = "flush" /\ op[p].pc = "l2" /\ op[p].kind = "flush"
        /\ op'[p].keys = op[p].keys /\ op'[p].left = op[p].left \ {NoKey}
    BY <1>3, <1>a, <2>1 DEF OpType, FlushScanMarker
  <2>3. UNCHANGED <<redis, orphan, pendingInvalidations, pendingFlush>>
    BY <1>3 DEF FlushScanMarker
  <2>4. \A q \in Inst : inbox[q] \subseteq inbox'[q]
    BY <1>3, <1>a DEF FlushScanMarker
  <2>5. /\ Unapplied(p)' = Unapplied(p)
        /\ Unannounced(p) = Unapplied(p) /\ Unannounced(p)' = Unapplied(p)'
    BY <1>b, <2>2 DEF Changed, Unapplied, Unannounced
  <2>6. OpForm(p)'
    BY <2>2 DEF OpForm
  <2>7. Telling(p) \subseteq Telling(p)' /\ \A q \in Inst : Owed(q)' = Owed(q)
    BY <2>3, <2>5 DEF Telling, Owed
  <2> QED
    BY <2>3, <2>4, <2>6, <2>7 DEF Announces
<1>4. CASE FlushScanned(p)
  <2>1. op'[p] = [op[p] EXCEPT !.pc = "bump", !.l1op = "flush"]
    BY <1>4, <1>a DEF FlushScanned, OpSet
  <2>2. /\ op'[p].pc = "bump" /\ op'[p].kind = "flush" /\ op'[p].l1op = "flush"
        /\ op[p].pc = "l2" /\ op[p].kind = "flush" /\ op[p].left = {}
        /\ op'[p].keys = op[p].keys
    BY <1>4, <1>a, <2>1 DEF OpType, FlushScanned
  <2>3. UNCHANGED <<redis, inbox, orphan, pendingInvalidations, pendingFlush>>
    BY <1>4 DEF FlushScanned
  <2>4. /\ Unapplied(p)' = Unapplied(p)
        /\ Unannounced(p) = Unapplied(p) /\ Unannounced(p)' = Unapplied(p)'
    BY <2>2 DEF Changed, Unapplied, Unannounced
  <2>5. OpForm(p)'
    BY <2>2 DEF OpForm
  <2>6. Telling(p) \subseteq Telling(p)' /\ \A q \in Inst : Owed(q)' = Owed(q)
    BY <2>3, <2>4 DEF Telling, Owed
  <2> QED
    BY <2>3, <2>5, <2>6 DEF Announces
<1> QED
  BY <1>1, <1>2, <1>3, <1>4

LEMMA GiveUpTells ==
  ASSUME TypeOK, NEW p \in Inst, OpForm(p), L2Reject(p) \/ L2Fail(p) \/ L2LostReply(p)
  PROVE  OpForm(p)' /\ Announces(p)
<1> USE DEF OpUnchanged, localVars, cacheVars, healthVars, boundVars, historyVars, redisVars,
            messageVars, pendingVars
<1>a. /\ op \in [Inst -> OpType] /\ op[p] \in OpType
      /\ op[p].keys \in SUBSET Key /\ op[p].left \in SUBSET (Key \cup {NoKey}) /\ NoKey \notin Key
  BY TieredAssumption DEF TypeOK, OpType
<1>b. op[p].pc = "l2"
  BY DEF L2Reject, L2Fail, L2LostReply
<1>1. op'[p] = OpIdle
  BY <1>a DEF L2Reject, L2Fail, L2LostReply, GiveUp, OpSet
<1>2. op'[p].pc = "idle"
  BY <1>1 DEF OpIdle
<1>3. OpForm(p)'
  BY <1>2 DEF OpForm
<1>4. UNCHANGED <<inbox, pendingInvalidations, pendingFlush>>
  BY DEF L2Reject, L2Fail, L2LostReply, GiveUp
<1>5. \A q \in Inst : Owed(q)' = Owed(q)
  BY <1>4 DEF Owed
<1>6. Unannounced(p) = Changed(p) \ op[p].left
  BY <1>b DEF Unannounced, Unapplied
<1>7. CASE L2Reject(p)
  <2>1. op[p].kind # "flush" /\ UNCHANGED <<redis, orphan>>
    BY <1>7 DEF L2Reject, Accepts
  <2>2. Unannounced(p) = {}
    BY <1>b, <1>6, <2>1 DEF OpForm, Changed
  <2> QED
    BY <1>3, <1>4, <1>5, <2>1, <2>2 DEF Announces, Telling
<1>8. CASE L2Fail(p)
  <2>1. Abandon(p, op[p].keys \ op[p].left) /\ UNCHANGED redis
    BY <1>8 DEF L2Fail
  <2>2. Unannounced(p) \subseteq op[p].keys \ op[p].left
    BY <1>6 DEF Changed
  <2>3. orphan \subseteq orphan' /\ \A q \in Inst, k \in op[p].keys \ op[p].left : <<q, k, p>> \in orphan'
    BY <1>a, <2>1, AbandonLeaves
  <2> QED
    BY <1>3, <1>4, <1>5, <2>1, <2>2, <2>3 DEF Announces, Telling
<1>9. CASE L2LostReply(p)
  <2>1. /\ op[p].kind # "flush" /\ redis' = Committed(p)
        /\ IF op[p].kind = "touch" THEN UNCHANGED orphan ELSE Abandon(p, op[p].keys)
    BY <1>9 DEF L2LostReply
  <2>2. Unannounced(p) = {}
    BY <1>b, <1>6, <2>1 DEF OpForm, Changed
  <2>3. orphan \subseteq orphan'
    BY <1>a, <2>1, AbandonLeaves
  <2>4. \A k \in Key : redis'[k] # redis[k] => \A q \in Inst : <<q, k, p>> \in orphan'
    BY <1>a, <2>1, AbandonLeaves DEF Committed
  <2> QED
    BY <1>3, <1>4, <1>5, <2>2, <2>3, <2>4 DEF Announces, Telling
<1> QED
  BY <1>7, <1>8, <1>9

LEMMA LocalStepTells ==
  ASSUME TypeOK, NEW p \in Inst, OpForm(p),
         Bump(p) \/ StoreKey(p) \/ Reconcile(p) \/ FlushStore(p)
  PROVE  OpForm(p)' /\ Announces(p)
<1> USE DEF OpUnchanged, localVars, cacheVars, healthVars, boundVars, historyVars, redisVars,
            messageVars, pendingVars
<1>a. /\ op \in [Inst -> OpType] /\ op[p] \in OpType
      /\ op[p].keys \in SUBSET Key /\ op[p].left \in SUBSET (Key \cup {NoKey}) /\ NoKey \notin Key
  BY TieredAssumption DEF TypeOK, OpType
<1>b. UNCHANGED <<redis, orphan, inbox, pendingInvalidations, pendingFlush>>
  BY DEF Bump, StoreKey, Reconcile, FlushStore
<1>c. \A q \in Inst : Owed(q)' = Owed(q)
  BY <1>b DEF Owed
<1>d. Unannounced(p) = Changed(p) /\ op[p].pc \in {"bump", "store"}
  BY DEF Bump, StoreKey, Reconcile, FlushStore, Unannounced, Unapplied
<1>e. ASSUME OpForm(p)', Changed(p) \subseteq Unannounced(p)'
      PROVE  OpForm(p)' /\ Announces(p)
  BY <1>b, <1>c, <1>d, <1>e DEF Announces, Telling
<1>1. CASE Bump(p)
  <2>1. PICK late \in BOOLEAN :
          OpSet(p, [op[p] EXCEPT !.pc = "store", !.left = op[p].keys,
                                 !.l1op = IF late /\ @ \in {"store", "touch"} THEN "forget" ELSE @])
    BY <1>1 DEF Bump
  <2>2. op'[p] = [op[p] EXCEPT !.pc = "store", !.left = op[p].keys,
                    !.l1op = IF late /\ @ \in {"store", "touch"} THEN "forget" ELSE @]
    BY <1>a, <2>1 DEF OpSet
  <2>3. /\ op'[p].pc = "store" /\ op'[p].kind = op[p].kind /\ op'[p].keys = op[p].keys
        /\ op'[p].left = op[p].keys
        /\ op'[p].l1op \in {op[p].l1op, "forget"}
        /\ op'[p].l1op = "forget" => op[p].l1op # "flush"
    BY <1>a, <2>2 DEF OpType
  <2>4. OpForm(p)'
    BY <1>d, <2>3 DEF OpForm
  <2> QED
    BY <1>e, <2>3, <2>4 DEF Unannounced, Unapplied, Changed
<1>2. CASE StoreKey(p)
  <2>1. PICK k \in op[p].left :
          \/ OpSet(p, [op[p] EXCEPT !.left = @ \ {k}])
          \/ OpSet(p, [op[p] EXCEPT !.left = @ \ {k}, !.refused = TRUE])
    BY <1>2 DEF StoreKey
  <2>2. \/ op'[p] = [op[p] EXCEPT !.left = @ \ {k}]
        \/ op'[p] = [op[p] EXCEPT !.left = @ \ {k}, !.refused = TRUE]
    BY <1>a, <2>1 DEF OpSet
  <2> DEFINE Shorter(r) == /\ r.pc = op[p].pc /\ r.kind = op[p].kind /\ r.keys = op[p].keys
                           /\ r.l1op = op[p].l1op /\ r.left \subseteq op[p].left
  <2>3. Shorter(op'[p])
    <3>1. op[p] \in OpType
      BY DEF TypeOK
    <3>2. Shorter([op[p] EXCEPT !.left = @ \ {k}])
      BY ONLY <3>1 DEF OpType
    <3>3. Shorter([op[p] EXCEPT !.left = @ \ {k}, !.refused = TRUE])
      BY ONLY <3>1 DEF OpType
    <3> HIDE DEF Shorter
    <3> QED
      BY <2>2, <3>2, <3>3
  <2>4. OpForm(p)'
    BY <1>d, <2>3 DEF OpForm
  <2> QED
    BY <1>d, <1>e, <2>3, <2>4 DEF Unannounced, Unapplied, Changed
<1>3. CASE Reconcile(p)
  <2>1. op'[p] = [op[p] EXCEPT !.pc = "publish", !.left = op[p].keys]
    BY <1>3, <1>a DEF Reconcile, OpSet
  <2>2. op'[p].pc = "publish" /\ op'[p].kind = op[p].kind /\ op'[p].keys = op[p].keys
        /\ op'[p].left = op[p].keys
    BY <1>a, <2>1 DEF OpType
  <2>3. op[p].kind # "flush"
    BY <1>3 DEF Reconcile, OpForm
  <2>4. OpForm(p)'
    BY <2>2, <2>3 DEF OpForm
  <2>5. Changed(p) \subseteq Unannounced(p)'
    BY <1>a, <2>2 DEF Unannounced, Changed
  <2> QED
    BY <1>e, <2>4, <2>5
<1>4. CASE FlushStore(p)
  <2>1. op'[p] = [op[p] EXCEPT !.pc = "publish", !.left = {NoKey}]
    BY <1>4, <1>a DEF FlushStore, OpSet
  <2>2. op'[p].pc = "publish" /\ op'[p].kind = op[p].kind /\ op'[p].left = {NoKey}
    BY <1>a, <2>1 DEF OpType
  <2>3. op[p].kind = "flush"
    BY <1>4 DEF FlushStore, OpForm
  <2>4. OpForm(p)'
    BY <2>2, <2>3 DEF OpForm
  <2>5. Changed(p) \subseteq Unannounced(p)'
    BY <1>a, <2>2 DEF Unannounced, Changed
  <2> QED
    BY <1>e, <2>4, <2>5
<1> QED
  BY <1>1, <1>2, <1>3, <1>4

LEMMA PublishStepTells ==
  ASSUME TypeOK, NEW p \in Inst, OpForm(p), OpPublish(p) \/ OpMark(p)
  PROVE  OpForm(p)' /\ Announces(p)
<1> USE DEF OpUnchanged, localVars, cacheVars, healthVars, boundVars, historyVars, redisVars,
            messageVars, pendingVars
<1>a. /\ op \in [Inst -> OpType] /\ op[p] \in OpType
      /\ op[p].keys \in SUBSET Key /\ op[p].left \in SUBSET (Key \cup {NoKey}) /\ NoKey \notin Key
      /\ pendingInvalidations \in [Inst -> SUBSET Key] /\ pendingFlush \in [Inst -> BOOLEAN]
  BY TieredAssumption DEF TypeOK, OpType
<1>b. UNCHANGED <<redis, orphan, connected>>
  BY DEF OpPublish, OpMark
<1>c. /\ op[p].pc \in {"publish", "mark"}
      /\ op[p].left \subseteq (IF op[p].kind = "flush" THEN {NoKey} ELSE op[p].keys)
  BY DEF OpPublish, OpMark, OpForm
<1>1. CASE OpPublish(p)
  <2>0. /\ \A q \in Inst : Owed(q)' = Owed(q)
        /\ op[p].pc = "publish"
    BY <1>1 DEF OpPublish, Owed
  <2>1. PICK k \in op[p].left :
          \/ /\ Publish(p, k)
             /\ OpSet(p, IF op[p].left = {k} THEN OpIdle ELSE [op[p] EXCEPT !.left = @ \ {k}])
          \/ /\ PublishFails(p, k)
             /\ OpSet(p, [op[p] EXCEPT !.pc = "mark"])
    BY <1>1 DEF OpPublish
  <2>2. CASE /\ Publish(p, k)
             /\ OpSet(p, IF op[p].left = {k} THEN OpIdle ELSE [op[p] EXCEPT !.left = @ \ {k}])
    <3>1. \A q \in Inst : inbox[q] \subseteq inbox'[q]
      BY <1>a, <2>2, PublishTells
    <3>2. op'[p] = IF op[p].left = {k} THEN OpIdle ELSE [op[p] EXCEPT !.left = @ \ {k}]
      BY <1>a, <2>2 DEF OpSet
    <3>3. \/ op[p].left = {k} /\ op'[p].pc = "idle"
          \/ /\ op'[p].pc = "publish" /\ op'[p].left = op[p].left \ {k}
             /\ op'[p].kind = op[p].kind /\ op'[p].keys = op[p].keys
      BY <1>a, <2>0, <3>2 DEF OpType, OpIdle
    <3>4. OpForm(p)'
      BY <1>c, <3>3 DEF OpForm
    <3>5. ASSUME NEW q \in Inst \ {p}, NEW j \in Unannounced(p)
          PROVE  j \in Unannounced(p)' \/ Heard(q, j)'
      <4>0. j \in Key
        BY <1>a DEF Unannounced, Unapplied, Changed
      <4>1. CASE k \in {NoKey, j}
        <5>1. Heard(q, j)'
          BY <1>a, <1>b, <2>2, <4>0, <4>1, PublishHeard
        <5> QED
          BY <5>1
      <4>2. CASE k \notin {NoKey, j}
        <5>1. NoKey \notin op[p].left
          BY <1>a, <1>c, <4>2
        <5>2. j \in Changed(p) \cap op[p].left
          BY <2>0, <5>1 DEF Unannounced
        <5>3. op'[p].pc = "publish" /\ op'[p].left = op[p].left \ {k}
              /\ op'[p].kind = op[p].kind /\ op'[p].keys = op[p].keys
          BY <3>3, <4>2, <5>2
        <5>4. j \in Changed(p)' \cap op'[p].left /\ NoKey \notin op'[p].left
          BY <4>2, <5>1, <5>2, <5>3 DEF Changed
        <5> QED
          BY <5>3, <5>4 DEF Unannounced
      <4> QED
        BY <4>1, <4>2
    <3>6. \A q \in Inst \ {p} : \A j \in Telling(p) : j \in Telling(p)' \/ Heard(q, j)'
      BY <2>0, <3>5 DEF Telling
    <3> QED
      BY <1>b, <2>0, <3>1, <3>4, <3>6 DEF Announces
  <2>3. CASE PublishFails(p, k) /\ OpSet(p, [op[p] EXCEPT !.pc = "mark"])
    <3>1. \A q \in Inst : inbox[q] \subseteq inbox'[q]
      BY <1>a, <2>3, PublishFailsTells
    <3>2. op'[p] = [op[p] EXCEPT !.pc = "mark"]
      BY <1>a, <2>3 DEF OpSet
    <3>3. op'[p].pc = "mark" /\ op'[p].left = op[p].left /\ op'[p].kind = op[p].kind
          /\ op'[p].keys = op[p].keys
      BY <1>a, <3>2 DEF OpType
    <3>4. OpForm(p)'
      BY <1>c, <3>3 DEF OpForm
    <3>5. Unannounced(p)' = Unannounced(p)
      BY <2>0, <3>3 DEF Unannounced, Changed
    <3> QED
      BY <1>b, <2>0, <3>1, <3>4, <3>5 DEF Announces, Telling
  <2> QED
    BY <2>1, <2>2, <2>3
<1>2. CASE OpMark(p)
  <2>1. op'[p] = OpIdle /\ op[p].pc = "mark" /\ MarkPending(p) /\ UNCHANGED inbox
    BY <1>2, <1>a DEF OpMark, OpSet
  <2>2. OpForm(p)'
    BY <2>1 DEF OpForm, OpIdle
  <2>3. Owed(p) \cup Unannounced(p) \subseteq Owed(p)'
    <3>1. CASE op[p].kind = "flush"
      <4>1. Owed(p)' = Key
        BY <1>a, <2>1, <3>1 DEF MarkPending, Owed
      <4> QED
        BY <1>a, <4>1 DEF Owed, Unannounced, Changed, Unapplied
    <3>2. CASE op[p].kind # "flush"
      <4>1. Unannounced(p) \subseteq op[p].keys
        BY <1>a, <1>c, <2>1, <3>2 DEF Unannounced, Changed
      <4>2. Owed(p)' = IF pendingFlush[p] THEN Key ELSE pendingInvalidations[p] \cup op[p].keys
        BY <1>a, <2>1, <3>2 DEF MarkPending, Owed
      <4> QED
        BY <1>a, <4>1, <4>2 DEF Owed
    <3> QED
      BY <3>1, <3>2
  <2>4. \A q \in Inst \ {p} : Owed(q)' = Owed(q)
    BY <1>a, <2>1 DEF MarkPending, Owed
  <2> QED
    BY <1>b, <2>1, <2>2, <2>3, <2>4 DEF Announces, Telling
<1> QED
  BY <1>1, <1>2

LEMMA OpTells ==
  ASSUME TypeOK, NEW p \in Inst, OpForm(p), OpStep(p)
  PROVE  OpForm(p)' /\ Announces(p)
  BY RedisStepTells, GiveUpTells, LocalStepTells, PublishStepTells DEF OpStep

(***************************************************************************)
(* What each step leaves to be told, to its own instance and to the others. *)
(***************************************************************************)

LEMMA UnbumpedTold ==
  ASSUME NEW p \in Inst
  PROVE  Unbumped(p) \subseteq Unapplied(p) /\ Unapplied(p) \subseteq Telling(p)
  BY DEF Unbumped, Telling, Unannounced, Unapplied

(* Nothing that was to be told to the others of a is forgotten, and a change  *)
(* of Redis is to be told to them.                                            *)
OthersTold(a) ==
    \A p \in Inst \ {a}, k \in Key :
        /\ Told(p, k) => Told(p, k)'
        /\ redis'[k] # redis[k] => Told(p, k)'

LEMMA OpOthers ==
  ASSUME TypeOK, NEW a \in Inst, OpForm(a), OpStep(a)
  PROVE  OthersTold(a)
<1> SUFFICES ASSUME NEW p \in Inst \ {a}
             PROVE  \A k \in Key : /\ Told(p, k) => Told(p, k)'
                                   /\ redis'[k] # redis[k] => Told(p, k)'
  BY DEF OthersTold
<1>1. Announces(a)
  BY OpTells
<1>2. /\ UNCHANGED <<sub, connected>>
      /\ \A q \in Inst \ {a} : op'[q] = op[q]
  BY OpFrame
<1>3. \A q \in Inst \ {a} : Telling(q)' = Telling(q)
  <2>1. \A q \in Inst \ {a} : Unannounced(q)' = Unannounced(q)
    BY <1>2 DEF Unannounced, Unapplied, Changed
  <2> QED
    BY <1>1, <2>1 DEF Telling, Announces
<1>4. \A k \in Key : Told(p, k) => Told(p, k)'
  BY <1>1, <1>2, <1>3, ToldKept DEF Announces
<1>5. ASSUME NEW k \in Key, redis'[k] # redis[k]
      PROVE  Told(p, k)'
  <2>1. CASE k \in Unbumped(a)'
    <3>1. k \in Telling(a)'
      BY <2>1 DEF Unbumped, Telling, Unannounced, Unapplied
    <3> QED
      BY <3>1 DEF Told
  <2>2. CASE \A q \in Inst : <<q, k, a>> \in orphan'
    BY <2>2 DEF Told, OrphanedBy
  <2> QED
    BY <1>1, <1>5, <2>1, <2>2 DEF Announces
<1> QED
  BY <1>4, <1>5

(* The instance itself is told what it was, unless it has just changed Redis. *)
LEMMA OpOwn ==
  ASSUME TypeOK, NEW p \in Inst, OpForm(p), OpStep(p), NEW k \in Key
  PROVE  /\ Told(p, k) => Told(p, k)' \/ k \in Unbumped(p)'
         /\ redis'[k] # redis[k] => Told(p, k)' \/ k \in Unbumped(p)'
<1>1. Announces(p)
  BY OpTells
<1>2. /\ UNCHANGED <<sub, connected>>
      /\ \A q \in Inst \ {p} : op'[q] = op[q]
  BY OpFrame
<1>3. \A q \in Inst \ {p} : Telling(q)' = Telling(q)
  <2>1. \A q \in Inst \ {p} : Unannounced(q)' = Unannounced(q)
    BY <1>2 DEF Unannounced, Unapplied, Changed
  <2> QED
    BY <1>1, <2>1 DEF Telling, Announces
<1>4. Heard(p, k) => Heard(p, k)'
  BY <1>1, <1>2 DEF Announces, Heard, Listening, EventKeys
<1>5. OrphanedBy(p, k, Inst) => OrphanedBy(p, k, Inst)' \/ k \in Unbumped(p)'
  BY <1>1 DEF Announces, OrphanedBy
<1>6. redis'[k] # redis[k] => OrphanedBy(p, k, Inst)' \/ k \in Unbumped(p)'
  BY <1>1 DEF Announces, OrphanedBy
<1> QED
  BY <1>3, <1>4, <1>5, <1>6 DEF Told

LEMMA BeginTold ==
  ASSUME TypeOK, NEW a \in Inst, OpBegin(a)
  PROVE  OpForm(a)' /\ \A p \in Inst, k \in Key : Told(p, k) => Told(p, k)'
<1> USE DEF OpUnchanged, messageVars, pendingVars, historyVars
<1>1. /\ UNCHANGED <<sub, connected, inbox, orphan, pendingInvalidations, pendingFlush>>
      /\ op[a].pc = "idle"
  BY DEF OpBegin, MutexFree
<1>2. \A q \in Inst \ {a} : op'[q] = op[q]
  BY BeginFrame
<1>3. Unannounced(a) = {}
  BY <1>1 DEF Unannounced, Unapplied
<1>4. \A q \in Inst : Telling(q) \subseteq Telling(q)'
  <2>1. \A q \in Inst \ {a} : Unannounced(q)' = Unannounced(q)
    BY <1>2 DEF Unannounced, Unapplied, Changed
  <2> QED
    BY <1>1, <1>3, <2>1 DEF Telling, Owed
<1>5. OpForm(a)'
  <2>0. PICK kind \in Kinds : \E keys \in KeySets(kind) :
          OpSet(a, [OpIdle EXCEPT !.pc = "l2", !.kind = kind, !.keys = keys,
                                  !.left = Matched(kind, keys), !.at = clock + 1])
    BY DEF OpBegin
  <2>1. PICK keys \in KeySets(kind) :
          OpSet(a, [OpIdle EXCEPT !.pc = "l2", !.kind = kind, !.keys = keys,
                                  !.left = Matched(kind, keys), !.at = clock + 1])
    BY <2>0
  <2>2. op'[a] = [OpIdle EXCEPT !.pc = "l2", !.kind = kind, !.keys = keys,
                                !.left = Matched(kind, keys), !.at = clock + 1]
    BY <2>1 DEF OpSet, TypeOK
  <2>3. op'[a].pc = "l2" /\ op'[a].kind = kind /\ op'[a].keys = keys /\ op'[a].left = Matched(kind, keys)
    BY <2>2 DEF OpIdle
  <2>4. kind = "flush" => keys = Key
    BY DEF KeySets
  <2> QED
    BY <2>3, <2>4 DEF OpForm, Matched
<1> QED
  BY <1>1, <1>4, <1>5 DEF Told, Heard, Listening, EventKeys, OrphanedBy

LEMMA RecTold ==
  ASSUME TypeOK, NEW a \in Inst, RecStep(a)
  PROVE  \A p \in Inst, k \in Key : Told(p, k) => Told(p, k)'
<1> USE DEF RecUnchanged, messageVars, pendingVars, historyVars
<1>a. /\ pendingInvalidations \in [Inst -> SUBSET Key] /\ pendingFlush \in [Inst -> BOOLEAN]
      /\ NoKey \notin Key
  BY TieredAssumption DEF TypeOK
<1>0. UNCHANGED <<op, sub, connected, orphan>>
  BY DEF RecStep, RecTick, RecProbe, RecPublishFlush, RecPublishKey, RecPublished, RecLock,
         RecFlush, RecEnter, RecHeal, RecStop
<1>b. \A q \in Inst : Unannounced(q)' = Unannounced(q)
  BY <1>0 DEF Unannounced, Unapplied, Changed
<1>c. ASSUME \A q \in Inst : inbox[q] \subseteq inbox'[q],
             \A q \in Inst \ {a} : Owed(q)' = Owed(q),
             \A q \in Inst \ {a}, k \in Owed(a) : k \in Owed(a)' \/ Heard(q, k)'
      PROVE  \A p \in Inst, k \in Key : Told(p, k) => Told(p, k)'
  <2>1. \A q \in Inst \ {a} : Telling(q)' = Telling(q)
    BY <1>b, <1>c DEF Telling
  <2>2. ASSUME NEW p \in Inst \ {a}
        PROVE  \A k \in Key : Told(p, k) => Told(p, k)'
    <3>1. \A k \in Telling(a) : k \in Telling(a)' \/ Heard(p, k)'
      BY <1>b, <1>c DEF Telling
    <3> QED
      BY <1>0, <1>c, <2>1, <3>1, ToldKept
  <2>3. \A k \in Key : Told(a, k) => Told(a, k)'
    BY <1>0, <1>c, <2>1 DEF Told, Heard, Listening, EventKeys, OrphanedBy
  <2> QED
    BY <2>2, <2>3
<1>1. CASE RecPublishFlush(a)
  <2>1. CASE Publish(a, NoKey) /\ pendingFlush' = [pendingFlush EXCEPT ![a] = FALSE]
             /\ UNCHANGED pendingInvalidations
    <3>1. \A q \in Inst : inbox[q] \subseteq inbox'[q]
      BY <2>1, PublishTells
    <3>2. \A q \in Inst \ {a} : Owed(q)' = Owed(q)
      BY <1>a, <2>1 DEF Owed
    <3>3. ASSUME NEW q \in Inst \ {a}, NEW k \in Owed(a) PROVE Heard(q, k)'
      <4>1. k \in Key
        BY <1>a DEF Owed
      <4> QED
        BY <1>0, <2>1, <4>1, PublishHeard
    <3> QED
      BY <1>c, <3>1, <3>2, <3>3
  <2>2. CASE PublishFails(a, NoKey) /\ UNCHANGED pendingVars
    <3>1. \A q \in Inst : inbox[q] \subseteq inbox'[q]
      BY <2>2, PublishFailsTells
    <3> QED
      BY <1>c, <2>2, <3>1 DEF Owed
  <2> QED
    BY <1>1, <2>1, <2>2 DEF RecPublishFlush
<1>2. CASE RecPublishKey(a)
  <2>1. PICK j \in pendingInvalidations[a] :
          \/ /\ Publish(a, j)
             /\ pendingInvalidations' = [pendingInvalidations EXCEPT ![a] = @ \ {j}]
             /\ UNCHANGED pendingFlush
          \/ PublishFails(a, j) /\ UNCHANGED pendingVars
    BY <1>2 DEF RecPublishKey
  <2>2. j \in Key /\ ~pendingFlush[a]
    BY <1>2, <1>a DEF RecPublishKey
  <2>3. CASE /\ Publish(a, j)
             /\ pendingInvalidations' = [pendingInvalidations EXCEPT ![a] = @ \ {j}]
             /\ UNCHANGED pendingFlush
    <3>1. \A q \in Inst : inbox[q] \subseteq inbox'[q]
      BY <2>2, <2>3, PublishTells
    <3>2. \A q \in Inst \ {a} : Owed(q)' = Owed(q)
      BY <1>a, <2>3 DEF Owed
    <3>3. Owed(a) \ {j} = Owed(a)'
      BY <1>a, <2>2, <2>3 DEF Owed
    <3>4. ASSUME NEW q \in Inst \ {a} PROVE Heard(q, j)'
      BY <1>0, <2>2, <2>3, PublishHeard
    <3> QED
      BY <1>c, <3>1, <3>2, <3>3, <3>4
  <2>4. CASE PublishFails(a, j) /\ UNCHANGED pendingVars
    <3>1. \A q \in Inst : inbox[q] \subseteq inbox'[q]
      BY <2>2, <2>4, PublishFailsTells
    <3> QED
      BY <1>c, <2>4, <3>1 DEF Owed
  <2> QED
    BY <2>1, <2>3, <2>4
<1>3. CASE UNCHANGED messageVars
  BY <1>c, <1>3 DEF Owed
<1> QED
  BY <1>1, <1>2, <1>3 DEF RecStep, RecTick, RecProbe, RecPublished, RecLock, RecFlush, RecEnter,
                          RecHeal, RecStop

(* What a dead instance had still to publish is orphaned. *)
LEMMA CrashTold ==
  ASSUME TypeOK, NEW a \in Inst, Crash(a)
  PROVE  OthersTold(a)
<1>a. /\ pendingInvalidations \in [Inst -> SUBSET Key] /\ pendingFlush \in [Inst -> BOOLEAN]
      /\ inbox \in [Inst -> SUBSET Message] /\ op \in [Inst -> OpType]
  BY DEF TypeOK
<1>0. op[a] \in OpType
  BY <1>a
<1>b. Telling(a) \subseteq Key
  BY <1>a, <1>0 DEF Telling, Owed, Unannounced, Unapplied, Changed, OpType
<1>1. /\ orphan' = {o \in orphan \cup (Inst \X (Unannounced(a) \cup Owed(a)) \X {a}) : o[1] # a}
      /\ pendingInvalidations' = [pendingInvalidations EXCEPT ![a] = {}]
      /\ pendingFlush' = [pendingFlush EXCEPT ![a] = FALSE]
      /\ inbox' = [inbox EXCEPT ![a] = {}]
  BY DEF Crash, Restarted, Unsubscribe
<1>2. /\ UNCHANGED redis
      /\ \A q \in Inst \ {a} : op'[q] = op[q] /\ sub'[q] = sub[q] /\ connected'[q] = connected[q]
  BY CrashFrame
<1>3. \A q \in Inst \ {a} : Telling(q)' = Telling(q) /\ inbox'[q] = inbox[q]
  <2>1. \A q \in Inst \ {a} : Unannounced(q)' = Unannounced(q)
    BY <1>2 DEF Unannounced, Unapplied, Changed
  <2>2. \A q \in Inst \ {a} : Owed(q)' = Owed(q)
    BY <1>a, <1>1 DEF Owed
  <2> QED
    BY <1>a, <1>1, <2>1, <2>2 DEF Telling
<1>4. \A p \in Inst \ {a}, k \in Telling(a) : <<p, k, a>> \in orphan'
  BY <1>1 DEF Telling
<1>5. \A p \in Inst \ {a}, k \in Key, q \in Inst : <<p, k, q>> \in orphan => <<p, k, q>> \in orphan'
  BY <1>1
<1>6. \A p \in Inst \ {a} : \A k \in Key : Told(p, k) => Told(p, k)'
  BY <1>2, <1>3, <1>4, <1>5, ToldKept
<1> QED
  BY <1>2, <1>6 DEF OthersTold

(* FLUSHDB is told to every instance that listens. *)
LEMMA ExternalTold ==
  ASSUME TypeOK, ExternalFlush
  PROVE  \A p \in Inst, k \in Key : Told(p, k)'
<1>1. Publish(NoOrigin, NoKey) /\ UNCHANGED connected
  BY DEF ExternalFlush
<1>2. \A p \in Inst : p \in Inst \ {NoOrigin}
  BY TieredAssumption
<1>3. \A p \in Inst, k \in Key : Heard(p, k)'
  BY <1>1, <1>2, PublishHeard
<1> QED
  BY <1>3 DEF Told

(* The subscriber removes from L1 what it stops waiting for, and bumps the     *)
(* version in the same step.                                                 *)
LEMMA SubTold ==
  ASSUME TypeOK, NEW a \in Inst, SubStep(a)
  PROVE  /\ OthersTold(a)
         /\ \A k \in Key : Told(a, k) => \/ Told(a, k)'
                                         \/ /\ MutexFree(a) /\ l1'[a][k] = 0
                                            /\ mutationVersion'[a] = mutationVersion[a] + 1
<1> USE DEF SubUnchanged, redisVars, cacheVars, busVars, pendingVars
<1>a. /\ inbox \in [Inst -> SUBSET Message] /\ connected \in [Inst -> BOOLEAN]
      /\ sub \in [Inst -> SubPc] /\ l1 \in [Inst -> [Key -> Nat]] /\ mutationVersion \in [Inst -> Nat]
  BY DEF TypeOK
<1>1. UNCHANGED <<redis, op, pendingInvalidations, pendingFlush>>
  BY DEF SubStep, SubSubscribe, SubSubscribeErr, SubLock, SubFlush, SubReady, SubIgnoreOwn,
         SubApply, SubReceiveErr, SubClose, SubDegrade, SubDegradeFlush, SubRetry, SubStop
<1>2. \A q \in Inst : Telling(q)' = Telling(q)
  BY <1>1 DEF Telling, Owed, Unannounced, Unapplied, Changed
<1>3. \A q \in Inst \ {a} : sub'[q] = sub[q] /\ connected'[q] = connected[q]
  BY SubFrame
<1>4. ASSUME \A q \in Inst \ {a} : inbox'[q] = inbox[q],
             \A q \in Inst \ {a}, k \in Key, r \in Inst : <<q, k, r>> \in orphan => <<q, k, r>> \in orphan'
      PROVE  OthersTold(a)
  <2>1. \A p \in Inst \ {a} : \A k \in Key : Told(p, k) => Told(p, k)'
    BY <1>2, <1>3, <1>4, ToldKept
  <2> QED
    BY <1>1, <2>1 DEF OthersTold
<1>b. ASSUME NEW pc, SubGoto(a, pc) PROVE sub'[a] = pc
  BY <1>a, <1>b DEF SubGoto
<1>c. ASSUME Unsubscribe(a)
      PROVE  connected'[a] = FALSE /\ \A q \in Inst \ {a} : inbox'[q] = inbox[q]
  BY <1>a, <1>c DEF Unsubscribe
<1>d. ASSUME BumpVersion(a) PROVE mutationVersion'[a] = mutationVersion[a] + 1
  BY <1>a, <1>d DEF BumpVersion
<1>e. ASSUME NEW keys, Adopt(a, keys)
      PROVE  \A q \in Inst \ {a}, k \in Key, r \in Inst : <<q, k, r>> \in orphan => <<q, k, r>> \in orphan'
  BY <1>e DEF Adopt
<1>f. ASSUME ~Listening(a)' PROVE \A k \in Key : Told(a, k)'
  BY <1>f DEF Told, Heard
<1>5. CASE SubSubscribe(a)
  <2>1. sub'[a] = "subscribed" /\ UNCHANGED orphan /\ inbox' = [inbox EXCEPT ![a] = {}]
    BY <1>5, <1>b DEF SubSubscribe
  <2>2. ~Listening(a)'
    BY <2>1 DEF Listening
  <2>3. \A q \in Inst \ {a} : inbox'[q] = inbox[q]
    BY <1>a, <2>1
  <2> QED
    BY <1>4, <1>f, <2>1, <2>2, <2>3
<1>6. CASE SubFlush(a)
  <2>1. CASE SubGoto(a, "done") /\ Unsubscribe(a) /\ UNCHANGED orphan
    <3>1. ~Listening(a)'
      BY <1>c, <2>1 DEF Listening
    <3> QED
      BY <1>4, <1>c, <1>f, <2>1, <3>1
  <2>2. CASE BumpVersion(a) /\ EmptyL1(a) /\ Adopt(a, Key) /\ UNCHANGED inbox
    <3>1. MutexFree(a) /\ \A k \in Key : l1'[a][k] = 0
      BY <1>6, <2>2, Emptied DEF SubFlush, NoEntries
    <3> QED
      BY <1>4, <1>d, <1>e, <2>2, <3>1
  <2>3. CASE SubGoto(a, "degrade") /\ Unsubscribe(a) /\ UNCHANGED orphan
    <3>1. ~Listening(a)'
      BY <1>c, <2>3 DEF Listening
    <3> QED
      BY <1>4, <1>c, <1>f, <2>3, <3>1
  <2> QED
    BY <1>6, <2>1, <2>2, <2>3 DEF SubFlush
<1>7. CASE SubReady(a)
  <2>1. sub[a] = "flushed" /\ UNCHANGED <<inbox, connected, orphan>>
    BY <1>7 DEF SubReady
  <2>2. \A k \in Key : Told(a, k) => Told(a, k)'
    <3>1. ~Listening(a) => ~Listening(a)'
      BY <2>1 DEF Listening
    <3> QED
      BY <1>2, <2>1, <3>1 DEF Told, Heard, EventKeys, OrphanedBy
  <2> QED
    BY <1>4, <2>1, <2>2
<1>8. CASE SubIgnoreOwn(a)
  <2>1. PICK m \in inbox[a] : m.origin = a /\ inbox' = [inbox EXCEPT ![a] = @ \ {m}]
    BY <1>8 DEF SubIgnoreOwn
  <2>2. UNCHANGED <<connected, sub, orphan>>
    BY <1>8 DEF SubIgnoreOwn
  <2>3. /\ inbox'[a] = inbox[a] \ {m}
        /\ \A q \in Inst \ {a} : inbox'[q] = inbox[q]
    BY <1>a, <2>1
  <2>4. \A k \in Key : Heard(a, k) => Heard(a, k)'
    BY <2>1, <2>2, <2>3 DEF Heard, Listening, EventKeys
  <2>5. \A k \in Key : Told(a, k) => Told(a, k)'
    BY <1>2, <2>2, <2>4 DEF Told, OrphanedBy
  <2> QED
    BY <1>4, <2>2, <2>3, <2>5
<1>9. CASE SubApply(a)
  <2>1. PICK m \in inbox[a] :
          /\ inbox' = [inbox EXCEPT ![a] = @ \ {m}]
          /\ BumpVersion(a)
          /\ \/ /\ l1' = [l1 EXCEPT ![a] = [k \in Key |-> IF k \in EventKeys(m) THEN 0 ELSE @[k]]]
                /\ Adopt(a, EventKeys(m))
                /\ UNCHANGED sub
             \/ /\ SubGoto(a, "broken")
                /\ UNCHANGED orphan
    BY <1>9 DEF SubApply
  <2>2. MutexFree(a) /\ UNCHANGED connected
    BY <1>9 DEF SubApply
  <2>3. /\ inbox'[a] = inbox[a] \ {m}
        /\ \A q \in Inst \ {a} : inbox'[q] = inbox[q]
    BY <1>a, <2>1
  <2>4. CASE /\ l1' = [l1 EXCEPT ![a] = [k \in Key |-> IF k \in EventKeys(m) THEN 0 ELSE @[k]]]
             /\ Adopt(a, EventKeys(m))
             /\ UNCHANGED sub
    <3>1. \A k \in Key \cap EventKeys(m) : l1'[a][k] = 0
      BY <1>a, <2>4
    <3>2. ASSUME NEW k \in Key \ EventKeys(m), Told(a, k)
          PROVE  Told(a, k)'
      <4>1. Heard(a, k) => Heard(a, k)'
        BY <2>2, <2>3, <2>4, <3>2 DEF Heard, Listening, EventKeys
      <4>2. OrphanedBy(a, k, Inst) => OrphanedBy(a, k, Inst)'
        BY <2>4, <3>2 DEF Adopt, OrphanedBy
      <4> QED
        BY <1>2, <3>2, <4>1, <4>2 DEF Told
    <3>3. OthersTold(a)
      BY <1>4, <1>e, <2>3, <2>4
    <3> QED
      BY <1>d, <2>1, <2>2, <3>1, <3>2, <3>3
  <2>5. CASE SubGoto(a, "broken") /\ UNCHANGED orphan
    <3>1. ~Listening(a)'
      BY <1>b, <2>5 DEF Listening
    <3> QED
      BY <1>4, <1>f, <2>3, <2>5, <3>1
  <2> QED
    BY <2>1, <2>4, <2>5
<1>10. CASE \/ SubSubscribeErr(a) \/ SubReceiveErr(a) \/ SubDegrade(a) \/ SubDegradeFlush(a)
            \/ SubRetry(a) \/ SubStop(a)
  <2>1. UNCHANGED <<inbox, orphan>>
    BY <1>10 DEF SubSubscribeErr, SubReceiveErr, SubDegrade, SubDegradeFlush, SubRetry, SubStop
  <2>2. sub'[a] \in {"degrade", "broken", "flushing", "wait", "start", "done"}
    BY <1>10, <1>b DEF SubSubscribeErr, SubReceiveErr, SubDegrade, SubDegradeFlush, SubRetry, SubStop
  <2>3. ~Listening(a)'
    BY <2>2 DEF Listening
  <2> QED
    BY <1>4, <1>f, <2>1, <2>3
<1>11. CASE SubClose(a)
  <2>1. Unsubscribe(a) /\ UNCHANGED orphan
    BY <1>11 DEF SubClose
  <2>2. ~Listening(a)'
    BY <1>c, <2>1 DEF Listening
  <2> QED
    BY <1>4, <1>c, <1>f, <2>1, <2>2
<1>12. CASE SubLock(a)
  <2>1. sub'[a] \in {"flushL1", "emptying"} /\ UNCHANGED <<inbox, orphan>>
    BY <1>12, <1>b DEF SubLock
  <2>2. ~Listening(a)'
    BY <2>1 DEF Listening
  <2> QED
    BY <1>4, <1>f, <2>1, <2>2
<1> QED
  BY <1>5, <1>6, <1>7, <1>8, <1>9, <1>10, <1>11, <1>12 DEF SubStep

LEMMA WorldTold ==
  ASSUME TypeOK, NEW a \in Inst, CloseBegin(a) \/ CloseStep(a) \/ L1Drop(a) \/ Disconnect(a)
  PROVE  \A p \in Inst, k \in Key : Told(p, k) => Told(p, k)'
<1> USE DEF busVars, historyVars, pendingVars
<1>1. UNCHANGED <<op, sub, orphan, pendingInvalidations, pendingFlush>>
  BY DEF CloseBegin, CloseStep, CloseLocked, CloseEnd, L1Drop, Disconnect
<1>2. \A q \in Inst : Telling(q)' = Telling(q)
  BY <1>1 DEF Telling, Owed, Unannounced, Unapplied, Changed
<1>3. CASE UNCHANGED <<connected, inbox>>
  BY <1>1, <1>2, <1>3 DEF Told, Heard, Listening, EventKeys, OrphanedBy
<1>4. CASE Disconnect(a)
  <2>1. connected' = [connected EXCEPT ![a] = FALSE]
    BY <1>4 DEF Disconnect
  <2>2. PICK kept \in SUBSET inbox[a] : inbox' = [inbox EXCEPT ![a] = kept]
    BY <1>4 DEF Disconnect
  <2>3. ASSUME NEW p \in Inst, NEW k \in Key, Heard(p, k) PROVE Heard(p, k)'
    <3>1. CASE p = a
      BY <2>1, <3>1 DEF Heard, Listening, TypeOK
    <3>2. CASE p # a
      <4>1. connected'[p] = connected[p] /\ inbox'[p] = inbox[p]
        BY <2>1, <2>2, <3>2 DEF TypeOK
      <4> QED
        BY <1>1, <2>3, <4>1 DEF Heard, Listening, EventKeys
    <3> QED
      BY <3>1, <3>2
  <2> QED
    BY <1>1, <1>2, <2>3 DEF Told, OrphanedBy
<1> QED
  BY <1>3, <1>4 DEF CloseBegin, CloseStep, CloseLocked, CloseEnd, L1Drop

(* A read tells nobody anything. *)
LEMMA ReadTold ==
  ASSUME RdUnchanged
  PROVE  /\ \A p \in Inst, k \in Key : Told(p, k)' <=> Told(p, k)
         /\ \A p \in Inst : Unbumped(p)' = Unbumped(p)
<1>1. UNCHANGED <<op, sub, connected, inbox, orphan, pendingInvalidations, pendingFlush>>
  BY DEF RdUnchanged, busVars, historyVars, pendingVars
<1>2. /\ \A q \in Inst : Telling(q)' = Telling(q)
      /\ \A q \in Inst : Unbumped(q)' = Unbumped(q)
  BY <1>1 DEF Telling, Owed, Unannounced, Unapplied, Changed, Unbumped
<1> QED
  BY <1>1, <1>2 DEF Told, Heard, Listening, EventKeys, OrphanedBy

(***************************************************************************)
(* What each step does to the entries of L1 and to the readers.             *)
(***************************************************************************)

LEMMA OtherCoherent ==
  ASSUME TypeOK, CoherenceInv, NEW p \in Inst,
         op'[p] = op[p], healthState'[p] \in {healthState[p], "degraded"},
         \A k \in Key : l1'[p][k] \in {0, l1[p][k]},
         \A k \in Key : Told(p, k) => Told(p, k)',
         \A k \in Key : redis'[k] # redis[k] => Told(p, k)'
  PROVE  OpForm(p)' /\ OpCoherent(p)' /\ L1Coherent(p)'
<1>1. OpForm(p) /\ OpCoherent(p) /\ L1Coherent(p)
  BY DEF CoherenceInv
<1>2. Unapplied(p)' = Unapplied(p) /\ Changed(p)' = Changed(p) /\ Changed(p) \subseteq Key
      /\ op[p].keys \subseteq Key
  BY DEF Unapplied, Changed, TypeOK, OpType
<1>3. OpForm(p)'
  BY <1>1 DEF OpForm
<1>4. OpCoherent(p)'
  <2>1. ASSUME op[p].pc \in {"bump", "store"}, op[p].l1op = "store", NEW k \in op[p].keys
        PROVE  op[p].at = redis'[k] \/ Told(p, k)'
    BY <1>1, <1>2, <2>1 DEF OpCoherent
  <2>2. ASSUME op[p].pc = "store", op[p].l1op # "flush", ~op[p].refused,
               NEW k \in Changed(p) \ op[p].left
        PROVE  l1'[p][k] \in {0, redis'[k]} \/ Told(p, k)'
    BY <1>1, <1>2, <2>2 DEF OpCoherent
  <2> QED
    BY <1>2, <2>1, <2>2 DEF OpCoherent
<1>5. L1Coherent(p)'
  <2>1. ASSUME healthState'[p] = "healthy", NEW k \in Key, Stale(p, k)'
        PROVE  Told(p, k)' \/ k \in Unapplied(p)
    <3>1. healthState[p] = "healthy" /\ l1'[p][k] = l1[p][k]
      BY <2>1 DEF Stale
    <3> QED
      BY <1>1, <2>1, <3>1 DEF L1Coherent, Stale
  <2> QED
    BY <1>2, <2>1 DEF L1Coherent
<1> QED
  BY <1>3, <1>4, <1>5

(* A reader that takes no part in a step is left as it was, or out of date. *)
LEMMA ReaderCoherent ==
  ASSUME TypeOK, CoherenceInv, NEW g \in Reader,
         rd'[g] = rd[g],
         \/ mutationVersion'[Home[g]] = mutationVersion[Home[g]] + 1
         \/ /\ mutationVersion'[Home[g]] = mutationVersion[Home[g]]
            /\ \A k \in Key : Told(Home[g], k) \/ k \in Unbumped(Home[g]) \/ redis'[k] # redis[k]
                                => Told(Home[g], k)' \/ k \in Unbumped(Home[g])'
  PROVE  ReadCoherent(g)'
<1>1. ReadCoherent(g)
  BY DEF CoherenceInv
<1>2. mutationVersion[Home[g]] \in Nat /\ rd[g].ver \in Nat
  BY TieredAssumption DEF TypeOK, RdType
<1>3. rd'[g].ver <= mutationVersion'[Home[g]]
  BY <1>1, <1>2 DEF ReadCoherent
<1>4. ASSUME rd[g].pc = "warm", rd[g].ver = mutationVersion'[Home[g]], NEW k \in Key
      PROVE  rd[g].l2[k] \in {0, redis'[k]} \/ Told(Home[g], k)' \/ k \in Unbumped(Home[g])'
  <2>1. mutationVersion'[Home[g]] = mutationVersion[Home[g]]
    BY <1>1, <1>2, <1>4 DEF ReadCoherent
  <2>2. \A j \in Key : Told(Home[g], j) \/ j \in Unbumped(Home[g]) \/ redis'[j] # redis[j]
                       => Told(Home[g], j)' \/ j \in Unbumped(Home[g])'
    BY <1>2, <2>1
  <2>3. rd[g].l2[k] \in {0, redis[k]} \/ Told(Home[g], k) \/ k \in Unbumped(Home[g])
    BY <1>1, <1>4, <2>1 DEF ReadCoherent, VersionCurrent
  <2> QED
    BY <2>2, <2>3
<1> QED
  BY <1>1, <1>3, <1>4 DEF ReadCoherent, VersionCurrent

(* A mutation writes to L1 only the keys it has changed. *)
LEMMA OpWrites ==
  ASSUME TypeOK, NEW p \in Inst, OpForm(p), OpStep(p), NEW k \in Key
  PROVE  l1'[p][k] \in {0, l1[p][k]} \/ k \in Unapplied(p)'
<1> USE DEF OpUnchanged, localVars, cacheVars
<1>a. l1 \in [Inst -> [Key -> Nat]] /\ op \in [Inst -> OpType] /\ op[p] \in OpType
      /\ op[p].left \in SUBSET (Key \cup {NoKey})
  BY DEF TypeOK, OpType
<1>b. ASSUME EmptyL1(p) \/ UNCHANGED l1 PROVE l1'[p][k] \in {0, l1[p][k]}
  BY <1>b, Emptied DEF NoEntries
<1>1. CASE StoreKey(p)
  <2>1. PICK j \in op[p].left :
          \/ /\ l1' = [l1 EXCEPT ![p][j] = Stored(p, j)]
             /\ OpSet(p, [op[p] EXCEPT !.left = @ \ {j}])
          \/ UNCHANGED l1
    BY <1>1 DEF StoreKey
  <2>2. CASE UNCHANGED l1
    BY <2>2
  <2>3. CASE /\ l1' = [l1 EXCEPT ![p][j] = Stored(p, j)]
             /\ OpSet(p, [op[p] EXCEPT !.left = @ \ {j}])
    <3>1. op[p].pc = "store" /\ op[p].l1op # "flush"
      BY <1>1 DEF StoreKey
    <3>2. op'[p] = [op[p] EXCEPT !.left = @ \ {j}]
      BY <1>a, <2>3 DEF OpSet
    <3>3. op'[p].pc = "store" /\ op'[p].kind = op[p].kind /\ op'[p].keys = op[p].keys
      BY <1>a, <3>1, <3>2 DEF OpType
    <3>4. l1'[p][k] = l1[p][k] \/ (k = j /\ l1'[p][k] = Stored(p, k))
      BY <1>a, <2>3
    <3>5. CASE op[p].l1op = "store"
      <4>1. op[p].kind # "touch" /\ op[p].left \subseteq op[p].keys
        BY <3>1, <3>5 DEF OpForm
      <4> QED
        BY <3>3, <3>4, <4>1 DEF Unapplied, Changed
    <3>6. CASE op[p].l1op \in {"forget", "touch"}
      BY <3>4, <3>6 DEF Stored
    <3> QED
      BY <1>a, <3>1, <3>5, <3>6 DEF OpType
  <2> QED
    BY <2>1, <2>2, <2>3
<1>2. CASE Reconcile(p) \/ FlushStore(p)
  BY <1>2, <1>b DEF Reconcile, Reconciled, FlushStore, FlushL1Fails
<1>3. CASE L2Fail(p) \/ L2LostReply(p)
  BY <1>3, <1>b DEF L2Fail, L2LostReply, GiveUp
<1>4. CASE OpMark(p)
  BY <1>4, <1>b DEF OpMark, FlushL1Locked, FlushL1Fails
<1>5. CASE \/ L2Commit(p) \/ L2Reject(p) \/ FlushScan(p) \/ FlushScanMarker(p) \/ FlushScanned(p)
           \/ Bump(p) \/ OpPublish(p)
  BY <1>5 DEF L2Commit, L2Reject, FlushScan, FlushScanMarker, FlushScanned, Bump, OpPublish
<1> QED
  BY <1>1, <1>2, <1>3, <1>4, <1>5 DEF OpStep

(* Until it is applied a change stays known to its author ... *)
LEMMA ChangeKept ==
  ASSUME TypeOK, NEW p \in Inst,
         \/ L2Commit(p) \/ FlushScan(p) \/ FlushScanMarker(p) \/ FlushScanned(p)
         \/ Bump(p) \/ StoreKey(p)
  PROVE  /\ Unapplied(p) \subseteq Unapplied(p)'
         /\ op'[p].pc \in {"l2", "bump", "store"}
         /\ op'[p].pc = "store" <=> Bump(p) \/ StoreKey(p)
<1>a. op \in [Inst -> OpType] /\ op[p] \in OpType
  BY DEF TypeOK
<1>1. CASE L2Commit(p) \/ FlushScanned(p)
  <2>1. \/ op'[p] = [op[p] EXCEPT !.pc = "bump", !.at = clock + 1, !.l1op = L1Op(p)]
        \/ op'[p] = [op[p] EXCEPT !.pc = "bump", !.l1op = "flush"]
    BY <1>a, <1>1 DEF L2Commit, FlushScanned, OpSet
  <2>2. op'[p].pc = "bump" /\ op'[p].kind = op[p].kind /\ op'[p].keys = op[p].keys
    BY <1>a, <2>1 DEF OpType
  <2>3. op[p].pc = "l2"
    BY <1>1 DEF L2Commit, FlushScanned
  <2> QED
    BY <2>2, <2>3 DEF Unapplied, Changed, Bump, StoreKey
<1>2. CASE FlushScan(p) \/ FlushScanMarker(p)
  <2>1. PICK x : op'[p] = [op[p] EXCEPT !.left = @ \ {x}]
    BY <1>a, <1>2 DEF FlushScan, FlushScanMarker, OpSet
  <2>2. op[p].pc = "l2"
    BY <1>2 DEF FlushScan, FlushScanMarker
  <2>3. /\ op'[p].pc = "l2" /\ op'[p].kind = op[p].kind /\ op'[p].keys = op[p].keys
        /\ op'[p].left \subseteq op[p].left
    BY <1>a, <2>1, <2>2 DEF OpType
  <2> QED
    BY <2>2, <2>3 DEF Unapplied, Changed, Bump, StoreKey
<1>3. CASE Bump(p)
  <2>1. PICK late \in BOOLEAN :
          op'[p] = [op[p] EXCEPT !.pc = "store", !.left = op[p].keys,
                      !.l1op = IF late /\ @ \in {"store", "touch"} THEN "forget" ELSE @]
    BY <1>a, <1>3 DEF Bump, OpSet
  <2>2. op'[p].pc = "store" /\ op'[p].kind = op[p].kind /\ op'[p].keys = op[p].keys
    BY <1>a, <2>1 DEF OpType
  <2>3. op[p].pc = "bump"
    BY <1>3 DEF Bump
  <2> QED
    BY <1>3, <2>2, <2>3 DEF Unapplied, Changed
<1>4. CASE StoreKey(p)
  <2>1. PICK x : \/ op'[p] = [op[p] EXCEPT !.left = @ \ {x}]
                 \/ op'[p] = [op[p] EXCEPT !.left = @ \ {x}, !.refused = TRUE]
    BY <1>a, <1>4 DEF StoreKey, OpSet
  <2>2. op[p].pc = "store"
    BY <1>4 DEF StoreKey
  <2>3. op'[p].pc = "store" /\ op'[p].kind = op[p].kind /\ op'[p].keys = op[p].keys
    BY <1>a, <2>1, <2>2 DEF OpType
  <2> QED
    BY <1>4, <2>2, <2>3 DEF Unapplied, Changed
<1> QED
  BY <1>1, <1>2, <1>3, <1>4

(* ... or, when the mutation is given up, orphaned. *)
LEMMA ChangeOrphaned ==
  ASSUME TypeOK, NEW p \in Inst, OpForm(p), L2Reject(p) \/ L2Fail(p) \/ L2LostReply(p),
         NEW k \in Unapplied(p)
  PROVE  OrphanedBy(p, k, Inst)'
<1>1. op[p].pc = "l2" /\ op[p].keys \in SUBSET Key
  BY DEF L2Reject, L2Fail, L2LostReply, TypeOK, OpType
<1>2. k \notin op[p].left /\ k \in op[p].keys
  BY <1>1 DEF Unapplied, Changed
<1>3. CASE L2Reject(p) \/ L2LostReply(p)
  <2>1. op[p].kind # "flush"
    BY <1>3 DEF L2Reject, L2LostReply, Accepts
  <2> QED
    BY <1>1, <1>2, <2>1 DEF OpForm
<1>4. CASE L2Fail(p)
  <2>1. <<p, k, p>> \in orphan'
    BY <1>1, <1>2, <1>4, AbandonLeaves DEF L2Fail
  <2> QED
    BY <2>1 DEF OrphanedBy
<1> QED
  BY <1>3, <1>4

(* A change of Redis is applied to L1, or L1 is dropped with it. *)
LEMMA OpApplies ==
  ASSUME TypeOK, NEW p \in Inst, OpForm(p), OpStep(p), NEW k \in Unapplied(p)
  PROVE  \/ k \in Unapplied(p)'
         \/ OrphanedBy(p, k, Inst)'
         \/ healthState'[p] = "degraded"
         \/ l1'[p][k] = 0
         \/ /\ Reconcile(p) /\ ~op[p].refused /\ UNCHANGED l1
            /\ op[p].left = {} /\ k \in Changed(p)
<1>1. k \in Changed(p) /\ k \in Key /\ op[p].pc \in {"l2", "bump", "store"}
  BY DEF Unapplied, Changed, TypeOK, OpType
<1>2. CASE Reconcile(p)
  BY <1>1, <1>2, Emptied, Degraded DEF Reconcile, Reconciled, NoEntries
<1>3. CASE FlushStore(p)
  BY <1>1, <1>3, Emptied, Degraded DEF FlushStore, NoEntries
<1>4. CASE OpPublish(p) \/ OpMark(p)
  BY <1>1, <1>4 DEF OpPublish, OpMark
<1> QED
  BY <1>2, <1>3, <1>4, ChangeKept, ChangeOrphaned DEF OpStep

(* A mutation excuses the readers of its instance until it bumps the version. *)
LEMMA OpBumps ==
  ASSUME TypeOK, NEW p \in Inst, OpForm(p), OpStep(p)
  PROVE  /\ \A q \in Inst \ {p} : mutationVersion'[q] = mutationVersion[q]
         /\ \/ mutationVersion'[p] = mutationVersion[p] + 1
            \/ /\ mutationVersion'[p] = mutationVersion[p]
               /\ \A k \in Unbumped(p) : k \in Unbumped(p)' \/ OrphanedBy(p, k, Inst)'
<1> USE DEF localVars, cacheVars
<1>1. CASE Bump(p)
  BY <1>1 DEF Bump, BumpVersion, TypeOK
<1>2. CASE ~Bump(p)
  <2>1. UNCHANGED mutationVersion
    BY <1>2 DEF OpStep, L2Commit, L2Reject, FlushScan, FlushScanMarker, FlushScanned, L2Fail,
           L2LostReply, GiveUp, StoreKey, Reconcile, FlushStore, OpPublish, OpMark
  <2>2. ASSUME NEW k \in Unbumped(p)
        PROVE  k \in Unbumped(p)' \/ OrphanedBy(p, k, Inst)'
    <3>1. op[p].pc \in {"l2", "bump"} /\ k \in Unapplied(p)
      BY <2>2 DEF Unbumped
    <3>2. CASE L2Commit(p) \/ FlushScan(p) \/ FlushScanMarker(p) \/ FlushScanned(p)
      <4>1. k \in Unapplied(p)' /\ op'[p].pc \in {"l2", "bump"}
        <5>1. ~StoreKey(p)
          BY <3>1 DEF StoreKey
        <5> QED
          BY <1>2, <3>1, <3>2, <5>1, ChangeKept
      <4> QED
        BY <4>1 DEF Unbumped
    <3>3. CASE L2Reject(p) \/ L2Fail(p) \/ L2LostReply(p)
      BY <3>1, <3>3, ChangeOrphaned
    <3>4. CASE StoreKey(p) \/ Reconcile(p) \/ FlushStore(p) \/ OpPublish(p) \/ OpMark(p)
      BY <3>1, <3>4 DEF StoreKey, Reconcile, FlushStore, OpPublish, OpMark
    <3> QED
      BY <1>2, <3>2, <3>3, <3>4 DEF OpStep
  <2> QED
    BY <2>1, <2>2
<1> QED
  BY <1>1, <1>2

LEMMA OpCoherentNext ==
  ASSUME TypeOK, CoherenceInv, NEW p \in Inst, OpStep(p)
  PROVE  OpForm(p)' /\ OpCoherent(p)' /\ L1Coherent(p)'
<1>a. OpForm(p) /\ OpCoherent(p) /\ L1Coherent(p)
  BY DEF CoherenceInv
<1>b. /\ op \in [Inst -> OpType] /\ op[p] \in OpType /\ l1 \in [Inst -> [Key -> Nat]]
      /\ op[p].keys \in SUBSET Key /\ op[p].left \in SUBSET (Key \cup {NoKey})
  BY DEF TypeOK, OpType
<1>1. OpForm(p)'
  BY <1>a, OpTells
<1>2. ASSUME healthState'[p] = "healthy", NEW k \in Key, Stale(p, k)', k \notin Unapplied(p)'
      PROVE  Told(p, k)'
  <2>1. l1'[p][k] = l1[p][k] /\ l1[p][k] # 0
    BY <1>a, <1>2, OpWrites DEF Stale
  <2>2. healthState[p] = "healthy"
    BY <1>2, OpFrame
  <2>3. k \notin Unbumped(p)'
    BY <1>2 DEF Unbumped
  <2>4. CASE redis'[k] # redis[k]
    BY <1>a, <2>3, <2>4, OpOwn
  <2>5. CASE Told(p, k)
    BY <1>a, <2>3, <2>5, OpOwn
  <2>6. CASE redis'[k] = redis[k] /\ ~Told(p, k)
    <3>1. Stale(p, k)
      BY <1>2, <2>1, <2>6 DEF Stale
    <3>2. k \in Unapplied(p)
      BY <1>a, <2>2, <2>6, <3>1 DEF L1Coherent
    <3>3. CASE Reconcile(p) /\ ~op[p].refused /\ op[p].left = {} /\ k \in Changed(p)
      <4>1. l1[p][k] \in {0, redis[k]} \/ Told(p, k)
        BY <1>a, <3>3 DEF OpCoherent, Reconcile
      <4> QED
        BY <2>1, <2>6, <3>1, <4>1 DEF Stale
    <3> QED
      BY <1>2, <1>a, <2>1, <3>2, <3>3, OpApplies DEF Told
  <2> QED
    BY <2>4, <2>5, <2>6
<1>3. L1Coherent(p)'
  BY <1>2 DEF L1Coherent
<1>4. OpCoherent(p)'
  <2>1. CASE L2Commit(p)
    <3>1. op'[p] = [op[p] EXCEPT !.pc = "bump", !.at = clock + 1, !.l1op = L1Op(p)]
      BY <2>1, <1>b DEF L2Commit, OpSet
    <3>2. /\ op'[p].pc = "bump" /\ op'[p].l1op = L1Op(p) /\ op'[p].at = clock + 1
          /\ op'[p].keys = op[p].keys
      BY <1>b, <3>1 DEF OpType
    <3>3. op'[p].l1op = "store" => op[p].kind \in {"set", "add", "setMany"}
      BY <3>2 DEF L1Op
    <3>4. redis' = Committed(p)
      BY <2>1 DEF L2Commit
    <3>5. op'[p].l1op = "store" => \A k \in op[p].keys : redis'[k] = clock + 1
      BY <1>b, <3>3, <3>4 DEF Committed, Writes
    <3> QED
      BY <3>2, <3>5 DEF OpCoherent
  <2>2. CASE Bump(p)
    <3>1. PICK late \in BOOLEAN :
            op'[p] = [op[p] EXCEPT !.pc = "store", !.left = op[p].keys,
                        !.l1op = IF late /\ @ \in {"store", "touch"} THEN "forget" ELSE @]
      BY <1>b, <2>2 DEF Bump, OpSet
    <3>2. /\ op'[p].pc = "store" /\ op'[p].l1op \in {op[p].l1op, "forget"} /\ op'[p].at = op[p].at
          /\ op'[p].keys = op[p].keys /\ op'[p].left = op[p].keys /\ op'[p].kind = op[p].kind
      BY <1>b, <3>1 DEF OpType
    <3>3. Changed(p)' \ op'[p].left = {} /\ Unbumped(p)' = {}
      BY <3>2 DEF Changed, Unbumped
    <3>4. UNCHANGED redis /\ op[p].pc = "bump"
      BY <2>2 DEF Bump, redisVars
    <3>5. \A k \in Key : Told(p, k) => Told(p, k)'
      BY <1>a, <3>3, OpOwn
    <3> QED
      BY <1>a, <1>b, <3>2, <3>3, <3>4, <3>5 DEF OpCoherent
  <2>3. CASE StoreKey(p)
    <3>1. PICK j \in op[p].left :
            \/ /\ l1' = [l1 EXCEPT ![p][j] = Stored(p, j)]
               /\ OpSet(p, [op[p] EXCEPT !.left = @ \ {j}])
            \/ /\ OpSet(p, [op[p] EXCEPT !.left = @ \ {j}, !.refused = TRUE])
      BY <2>3 DEF StoreKey
    <3>2. /\ op[p].pc = "store" /\ op[p].l1op # "flush" /\ UNCHANGED redis
      BY <2>3 DEF StoreKey, redisVars
    <3>3. /\ op'[p].pc = "store" /\ op'[p].l1op = op[p].l1op /\ op'[p].at = op[p].at
          /\ op'[p].keys = op[p].keys /\ op'[p].kind = op[p].kind
          /\ \/ /\ l1' = [l1 EXCEPT ![p][j] = Stored(p, j)]
                /\ op'[p].left = op[p].left \ {j} /\ op'[p].refused = op[p].refused
             \/ op'[p].refused = TRUE
      <4>1. CASE /\ l1' = [l1 EXCEPT ![p][j] = Stored(p, j)]
                 /\ OpSet(p, [op[p] EXCEPT !.left = @ \ {j}])
        <5>1. op'[p] = [op[p] EXCEPT !.left = @ \ {j}]
          BY <1>b, <4>1 DEF OpSet
        <5> QED
          BY <1>b, <3>2, <4>1, <5>1 DEF OpType
      <4>2. CASE OpSet(p, [op[p] EXCEPT !.left = @ \ {j}, !.refused = TRUE])
        <5>1. op'[p] = [op[p] EXCEPT !.left = @ \ {j}, !.refused = TRUE]
          BY <1>b, <4>2 DEF OpSet
        <5> QED
          BY <1>b, <3>2, <5>1 DEF OpType
      <4> QED
        BY <3>1, <4>1, <4>2
    <3>4. \A k \in Key : Told(p, k) => Told(p, k)'
      <4>1. Unbumped(p)' = {}
        BY <3>3 DEF Unbumped
      <4> QED
        BY <1>a, <4>1, OpOwn
    <3>5. op[p].l1op = "store" => \A k \in op[p].keys : op[p].at = redis'[k] \/ Told(p, k)'
      BY <1>a, <1>b, <3>2, <3>4 DEF OpCoherent
    <3>6. ASSUME ~op'[p].refused, NEW k \in Changed(p)' \ op'[p].left
          PROVE  l1'[p][k] \in {0, redis'[k]} \/ Told(p, k)'
      <4>1. k \in Key /\ k \in op[p].keys /\ op[p].kind # "touch" /\ Changed(p)' = Changed(p)
        BY <1>b, <3>3, <3>6 DEF Changed
      <4>2. /\ l1' = [l1 EXCEPT ![p][j] = Stored(p, j)] /\ ~op[p].refused
            /\ op'[p].left = op[p].left \ {j}
        BY <3>3, <3>6
      <4>3. CASE k = j
        <5>1. l1'[p][k] = Stored(p, k)
          BY <1>b, <4>1, <4>2, <4>3
        <5>2. op[p].l1op \in {"store", "forget"}
          BY <1>a, <1>b, <3>2, <4>1 DEF OpForm, OpType
        <5> QED
          BY <3>5, <4>1, <5>1, <5>2 DEF Stored
      <4>4. CASE k # j
        <5>1. l1'[p][k] = l1[p][k]
          BY <1>b, <4>2, <4>4
        <5>2. l1[p][k] \in {0, redis[k]} \/ Told(p, k)
          BY <1>a, <3>2, <3>6, <4>1, <4>2, <4>4 DEF OpCoherent
        <5> QED
          BY <3>2, <3>4, <4>1, <5>1, <5>2
      <4> QED
        BY <4>3, <4>4
    <3> QED
      BY <3>3, <3>5, <3>6 DEF OpCoherent
  <2>4. CASE FlushScanned(p)
    <3>1. op'[p] = [op[p] EXCEPT !.pc = "bump", !.l1op = "flush"]
      BY <1>b, <2>4 DEF FlushScanned, OpSet
    <3>2. op'[p].pc = "bump" /\ op'[p].l1op = "flush"
      BY <1>b, <3>1 DEF OpType
    <3> QED
      BY <3>2 DEF OpCoherent
  <2>5. CASE FlushScan(p) \/ FlushScanMarker(p)
    <3>1. PICK x : op'[p] = [op[p] EXCEPT !.left = @ \ {x}]
      BY <1>b, <2>5 DEF FlushScan, FlushScanMarker, OpSet
    <3>2. op[p].pc = "l2"
      BY <2>5 DEF FlushScan, FlushScanMarker
    <3>3. op'[p].pc = "l2"
      BY <1>b, <3>1, <3>2 DEF OpType
    <3> QED
      BY <3>3 DEF OpCoherent
  <2>6. CASE \/ L2Reject(p) \/ L2Fail(p) \/ L2LostReply(p) \/ OpMark(p)
             \/ Reconcile(p) \/ FlushStore(p) \/ OpPublish(p)
    <3>1. CASE L2Reject(p) \/ L2Fail(p) \/ L2LostReply(p) \/ OpMark(p)
      BY <1>b, <3>1 DEF L2Reject, L2Fail, L2LostReply, OpMark, GiveUp, OpSet, OpIdle, OpCoherent
    <3>2. CASE Reconcile(p) \/ FlushStore(p)
      <4>1. \/ op'[p] = [op[p] EXCEPT !.pc = "publish", !.left = op[p].keys]
            \/ op'[p] = [op[p] EXCEPT !.pc = "publish", !.left = {NoKey}]
        BY <1>b, <3>2 DEF Reconcile, FlushStore, OpSet
      <4>2. op'[p].pc = "publish"
        BY <1>b, <4>1 DEF OpType
      <4> QED
        BY <4>2 DEF OpCoherent
    <3>3. CASE OpPublish(p)
      <4>1. PICK k \in op[p].left :
              \/ OpSet(p, OpIdle)
              \/ OpSet(p, [op[p] EXCEPT !.left = @ \ {k}])
              \/ OpSet(p, [op[p] EXCEPT !.pc = "mark"])
        BY <3>3 DEF OpPublish
      <4>2. \/ op'[p] = OpIdle
            \/ op'[p] = [op[p] EXCEPT !.left = @ \ {k}]
            \/ op'[p] = [op[p] EXCEPT !.pc = "mark"]
        BY <1>b, <4>1 DEF OpSet
      <4>3. op[p].pc = "publish"
        BY <3>3 DEF OpPublish
      <4>4. op'[p].pc \in {"idle", "publish", "mark"}
        BY <1>b, <4>2, <4>3 DEF OpType, OpIdle
      <4> QED
        BY <4>4 DEF OpCoherent
    <3> QED
      BY <2>6, <3>1, <3>2, <3>3
  <2> QED
    BY <2>1, <2>2, <2>3, <2>4, <2>5, <2>6 DEF OpStep
<1> QED
  BY <1>1, <1>3, <1>4

(* The steps of one read, seen from its own reader. *)
LEMMA ReadCoherentNext ==
  ASSUME TypeOK, CoherenceInv, NEW g \in Reader, RdStep(g)
  PROVE  ReadCoherent(g)'
<1> DEFINE p == Home[g]
<1>a. /\ p \in Inst /\ rd \in [Reader -> RdType] /\ rd[g] \in RdType
      /\ mutationVersion \in [Inst -> Nat] /\ redis \in [Key -> Nat]
      /\ ReadCoherent(g)
  BY TieredAssumption DEF TypeOK, CoherenceInv
<1>b. ASSUME NEW r, RdSet(g, r) PROVE rd'[g] = r
  BY <1>a, <1>b DEF RdSet
<1>c. RdUnchanged
  BY DEF RdStep, RdTop, RdL1, RdHit, RdVersion, RdL2, RdWarm, RdReturn
<1>d. UNCHANGED <<mutationVersion, redis>>
  BY <1>c DEF RdUnchanged, redisVars
<1>e. mutationVersion[p] \in Nat /\ rd[g].ver \in Nat /\ rd[g].ver <= mutationVersion[p]
  BY <1>a DEF ReadCoherent, RdType
<1>f. ASSUME rd'[g].ver <= mutationVersion[p],
             rd'[g].pc \in {"l1", "version", "l2"} => rd'[g].l2 = NoEntries,
             rd'[g].pc # "warm"
      PROVE  ReadCoherent(g)'
  BY <1>d, <1>f DEF ReadCoherent
<1> USE DEF RdGoto, RdAbort
<1>1. CASE RdTop(g)
  <2> DEFINE ver == IF rd[g].many THEN mutationVersion[p] ELSE 0
  <2>1. \/ RdSet(g, RdIdle)
        \/ RdSet(g, [RdIdle EXCEPT !.pc = "l1", !.many = rd[g].many, !.keys = rd[g].keys,
                                   !.left = rd[g].keys, !.ver = ver])
    BY <1>1 DEF RdTop
  <2>2. \/ rd'[g] = RdIdle
        \/ rd'[g] = [RdIdle EXCEPT !.pc = "l1", !.many = rd[g].many, !.keys = rd[g].keys,
                                   !.left = rd[g].keys, !.ver = ver]
    BY <1>b, <2>1
  <2>3. ver <= mutationVersion[p]
    BY <1>e
  <2> HIDE DEF ver
  <2>4. /\ rd'[g].ver \in {0, ver} /\ rd'[g].l2 = NoEntries
        /\ rd'[g].pc \in {"idle", "l1"}
    <3>1. RdIdle \in RdType /\ RdIdle.l2 = NoEntries /\ RdIdle.ver = 0 /\ RdIdle.pc = "idle"
      BY IdleTypes DEF RdIdle
    <3> QED
      BY <2>2, <3>1 DEF RdType
  <2> QED
    BY <1>e, <1>f, <2>3, <2>4
<1>2. CASE RdL1(g)
  <2>0. PICK k \in rd[g].left :
          LET entry == l1[p][k]
              miss  == rd[g].miss \cup (IF entry = 0 THEN {k} ELSE {})
              left  == rd[g].left \ {k}
          IN  RdSet(g, [rd[g] EXCEPT !.pc = AfterL1(g, left, miss), !.left = left,
                                     !.miss = miss, !.got = [@ EXCEPT ![k] = entry]])
    BY <1>2 DEF RdL1
  <2> DEFINE miss == rd[g].miss \cup (IF l1[p][k] = 0 THEN {k} ELSE {})
             left == rd[g].left \ {k}
             next == AfterL1(g, left, miss)
             got  == [rd[g].got EXCEPT ![k] = l1[p][k]]
  <2>a. rd'[g] = [rd[g] EXCEPT !.pc = next, !.left = left, !.miss = miss, !.got = got]
    BY <1>b, <2>0
  <2>b. next \in {"l1", "hit", "l2", "version"}
    BY DEF AfterL1
  <2> HIDE DEF miss, left, next, got
  <2>2. /\ rd'[g].ver = rd[g].ver /\ rd'[g].l2 = rd[g].l2
        /\ rd'[g].pc \in {"l1", "hit", "l2", "version"}
    BY <1>a, <2>a, <2>b DEF RdType
  <2>3. rd[g].l2 = NoEntries
    BY <1>2, <1>a DEF RdL1, ReadCoherent
  <2> QED
    BY <1>e, <1>f, <2>2, <2>3
<1>3. CASE RdHit(g)
  <2>1. \/ rd'[g] = RdIdle
        \/ \E pc \in {"top", "ret"} : rd'[g] = [rd[g] EXCEPT !.pc = pc]
    BY <1>3, <1>b DEF RdHit
  <2>2. rd'[g].ver <= mutationVersion[p] /\ rd'[g].pc \in {"idle", "top", "ret"}
    BY <1>a, <1>e, <2>1 DEF RdIdle, RdType
  <2> QED
    BY <1>f, <2>2
<1>4. CASE RdVersion(g)
  <2>1. rd'[g] = [rd[g] EXCEPT !.pc = "l2", !.ver = mutationVersion[p]]
    BY <1>4, <1>b DEF RdVersion
  <2>2. rd'[g].pc = "l2" /\ rd'[g].ver = mutationVersion[p] /\ rd'[g].l2 = rd[g].l2
    BY <1>a, <2>1 DEF RdType
  <2>3. rd[g].l2 = NoEntries
    BY <1>4, <1>a DEF RdVersion, ReadCoherent
  <2> QED
    BY <1>e, <1>f, <2>2, <2>3
<1>5. CASE RdL2(g)
  <2>1. rd[g].pc = "l2" /\ rd[g].l2 = NoEntries
    BY <1>5, <1>a DEF RdL2, ReadCoherent
  <2>2. \/ rd'[g] = [rd[g] EXCEPT !.pc = "warm",
                       !.l2 = [k \in Key |-> IF k \in rd[g].miss THEN redis[k] ELSE 0]]
        \/ rd'[g] = [rd[g] EXCEPT !.pc = "warm", !.err = TRUE]
    BY <1>5, <1>b DEF RdL2
  <2>3. /\ rd'[g].pc = "warm" /\ rd'[g].ver = rd[g].ver
        /\ \/ rd'[g].l2 = [k \in Key |-> IF k \in rd[g].miss THEN redis[k] ELSE 0]
           \/ rd'[g].l2 = rd[g].l2
    BY <1>a, <2>2 DEF RdType
  <2>4. \A k \in Key : rd'[g].l2[k] \in {0, redis'[k]}
    BY <1>d, <2>1, <2>3 DEF NoEntries
  <2> QED
    BY <1>d, <1>e, <2>3, <2>4 DEF ReadCoherent
<1>6. CASE RdWarm(g)
  <2>1. CASE RdSet(g, RdIdle) \/ RdSet(g, [rd[g] EXCEPT !.pc = "top"])
    <3>1. rd'[g] = RdIdle \/ rd'[g] = [rd[g] EXCEPT !.pc = "top"]
      BY <1>b, <2>1
    <3>2. rd'[g].ver <= mutationVersion[p] /\ rd'[g].pc \in {"idle", "top"}
      BY <1>a, <1>e, <3>1 DEF RdIdle, RdType
    <3> QED
      BY <1>f, <3>2
  <2>2. CASE Warm(g)
    <3>1. PICK got : RdSet(g, [rd[g] EXCEPT !.pc = "ret", !.got = got])
      BY <2>2 DEF Warm
    <3>2. rd'[g] = [rd[g] EXCEPT !.pc = "ret", !.got = got]
      BY <1>b, <3>1
    <3>3. rd'[g].ver = rd[g].ver /\ rd'[g].pc = "ret"
      BY <1>a, <3>2 DEF RdType
    <3> QED
      BY <1>e, <1>f, <3>3
  <2> QED
    BY <1>6, <2>1, <2>2 DEF RdWarm
<1>7. CASE RdReturn(g)
  <2>1. rd'[g].ver = 0 /\ rd'[g].pc = "idle"
    BY <1>7, <1>b DEF RdReturn, RdIdle
  <2> QED
    BY <1>e, <1>f, <2>1
<1> QED
  BY <1>1, <1>2, <1>3, <1>4, <1>5, <1>6, <1>7 DEF RdStep

(* What a reader puts in L1 is as current as its answer of Redis. *)
LEMMA FillCoherent ==
  ASSUME TypeOK, CoherenceInv, NEW g \in Reader, RdStep(g), NEW p \in Inst
  PROVE  OpForm(p)' /\ OpCoherent(p)' /\ L1Coherent(p)'
<1>a. RdUnchanged
  BY DEF RdStep, RdTop, RdL1, RdHit, RdVersion, RdL2, RdWarm, RdReturn
<1>b. /\ UNCHANGED <<redis, op>>
      /\ \A k \in Key : Told(p, k)' <=> Told(p, k)
  BY <1>a, ReadTold DEF RdUnchanged, redisVars
<1>1. CASE /\ healthState'[p] \in {healthState[p], "degraded"}
           /\ \A k \in Key : l1'[p][k] \in {0, l1[p][k]}
  BY <1>1, <1>b, OtherCoherent
<1>2. CASE /\ p = Home[g] /\ rd[g].pc = "warm" /\ VersionCurrent(g) /\ MutexFree(p)
           /\ Warm(g) /\ UNCHANGED healthState
  <2>1. op'[p].pc = "idle" /\ op[p].pc = "idle"
    BY <1>2, <1>b DEF MutexFree
  <2>2. OpForm(p)' /\ OpCoherent(p)'
    BY <2>1 DEF OpForm, OpCoherent
  <2>3. Unbumped(p) = {} /\ Unapplied(p) = {}
    BY <2>1 DEF Unbumped, Unapplied
  <2>4. \A k \in Key : l1'[p][k] \in {l1[p][k], rd[g].l2[k]}
    BY <1>2 DEF Warm, TypeOK
  <2>5. ASSUME healthState'[p] = "healthy", NEW k \in Key, Stale(p, k)'
        PROVE  Told(p, k)'
    <3>1. CASE l1'[p][k] = l1[p][k]
      BY <1>2, <1>b, <2>3, <2>5, <3>1 DEF CoherenceInv, L1Coherent, Stale
    <3>2. CASE l1'[p][k] = rd[g].l2[k]
      BY <1>2, <1>b, <2>3, <2>5, <3>2 DEF CoherenceInv, ReadCoherent, Stale
    <3> QED
      BY <2>4, <3>1, <3>2
  <2> QED
    BY <2>2, <2>5 DEF L1Coherent
<1>3. p # Home[g] => l1'[p] = l1[p] /\ healthState'[p] = healthState[p]
  BY RdFrame
<1>4. \/ UNCHANGED <<l1, healthState>>
      \/ healthState'[Home[g]] = "degraded" /\ l1'[Home[g]] \in {l1[Home[g]], NoEntries}
      \/ /\ rd[g].pc = "warm" /\ VersionCurrent(g) /\ MutexFree(Home[g])
         /\ Warm(g) /\ UNCHANGED healthState
  BY RdFrame
<1> QED
  BY <1>1, <1>2, <1>3, <1>4 DEF NoEntries

LEMMA CoherenceInit == Init => CoherenceInv
<1> SUFFICES ASSUME Init PROVE CoherenceInv
  OBVIOUS
<1>1. \A p \in Inst : op[p].pc = "idle" /\ l1[p] = NoEntries
  BY DEF Init, OpIdle
<1>2. \A g \in Reader : rd[g].ver = 0 /\ rd[g].pc = "idle" /\ mutationVersion[Home[g]] = 0
  BY TieredAssumption DEF Init, RdIdle
<1>3. ASSUME NEW p \in Inst PROVE OpForm(p) /\ OpCoherent(p) /\ L1Coherent(p)
  BY <1>1 DEF OpForm, OpCoherent, L1Coherent, Stale, NoEntries
<1>4. ASSUME NEW g \in Reader PROVE ReadCoherent(g)
  BY <1>2 DEF ReadCoherent
<1> QED
  BY <1>3, <1>4 DEF CoherenceInv

LEMMA CoherenceNext == TypeOK /\ RecoveryInv /\ CoherenceInv /\ [Next]_vars => CoherenceInv'
<1> SUFFICES ASSUME TypeOK, RecoveryInv, CoherenceInv, [Next]_vars PROVE CoherenceInv'
  OBVIOUS
<1>a. \A g \in Reader : Home[g] \in Inst
  BY TieredAssumption
<1>b. \A q \in Inst : OpForm(q)
  BY DEF CoherenceInv
<1>c. mutationVersion \in [Inst -> Nat] /\ l1 \in [Inst -> [Key -> Nat]]
  BY DEF TypeOK
<1> DEFINE Good(q) == OpForm(q)' /\ OpCoherent(q)' /\ L1Coherent(q)'
<1>d. ASSUME NEW a \in Inst, OthersTold(a),
             \A q \in Inst \ {a} : /\ op'[q] = op[q] /\ l1'[q] = l1[q]
                                   /\ healthState'[q] = healthState[q]
      PROVE  \A q \in Inst \ {a} : Good(q)
  BY <1>d, OtherCoherent DEF OthersTold
<1>e. ASSUME NEW a \in Inst, OthersTold(a), UNCHANGED rd,
             \A q \in Inst \ {a} : op'[q] = op[q] /\ mutationVersion'[q] = mutationVersion[q]
      PROVE  \A g \in Reader : Home[g] # a => ReadCoherent(g)'
  <2> SUFFICES ASSUME NEW g \in Reader, Home[g] # a PROVE ReadCoherent(g)'
    OBVIOUS
  <2>1. Unbumped(Home[g])' = Unbumped(Home[g])
    BY <1>a, <1>e DEF Unbumped, Unapplied, Changed
  <2> QED
    BY <1>a, <1>e, <2>1, ReaderCoherent DEF OthersTold
<1>1. CASE UNCHANGED vars
  <2>1. RdUnchanged /\ UNCHANGED <<redis, op, rd, l1, healthState, mutationVersion>>
    BY <1>1 DEF vars, RdUnchanged, redisVars, pendingVars, busVars, historyVars, cacheVars,
            healthVars, boundVars
  <2>2. \A q \in Inst : Good(q)
    BY <2>1, ReadTold, OtherCoherent
  <2>3. \A g \in Reader : ReadCoherent(g)'
    BY <1>a, <2>1, ReadTold, ReaderCoherent
  <2> QED
    BY <2>2, <2>3 DEF CoherenceInv
<1>2. ASSUME NEW a \in Inst, OpStep(a) PROVE CoherenceInv'
  <2>1. OthersTold(a)
    BY <1>2, <1>b, OpOthers
  <2>2. UNCHANGED rd /\ \A q \in Inst \ {a} : /\ op'[q] = op[q] /\ l1'[q] = l1[q]
                                              /\ healthState'[q] = healthState[q]
    BY <1>2, OpFrame
  <2>3. \A q \in Inst : Good(q)
    BY <1>2, <1>d, <2>1, <2>2, OpCoherentNext
  <2>4. \A q \in Inst \ {a} : mutationVersion'[q] = mutationVersion[q]
    BY <1>2, <1>b, OpBumps
  <2>5. ASSUME NEW g \in Reader, Home[g] = a PROVE ReadCoherent(g)'
    <3>1. \/ mutationVersion'[a] = mutationVersion[a] + 1
          \/ /\ mutationVersion'[a] = mutationVersion[a]
             /\ \A k \in Unbumped(a) : k \in Unbumped(a)' \/ OrphanedBy(a, k, Inst)'
      BY <1>2, <1>b, OpBumps
    <3>2. \A k \in Key : Told(a, k) \/ redis'[k] # redis[k] => Told(a, k)' \/ k \in Unbumped(a)'
      BY <1>2, <1>b, OpOwn
    <3>3. \A k \in Key : OrphanedBy(a, k, Inst)' => Told(a, k)'
      BY DEF Told
    <3> QED
      BY <2>2, <2>5, <3>1, <3>2, <3>3, ReaderCoherent
  <2> QED
    BY <1>e, <2>1, <2>2, <2>3, <2>4, <2>5 DEF CoherenceInv
<1>3. ASSUME NEW a \in Inst, OpBegin(a) PROVE CoherenceInv'
  <2>1. /\ UNCHANGED <<redis, l1, mutationVersion, healthState, rd>>
        /\ op'[a].pc = "l2" /\ \A q \in Inst \ {a} : op'[q] = op[q]
    BY <1>3, BeginFrame
  <2>2. OpForm(a)' /\ \A p \in Inst, k \in Key : Told(p, k) => Told(p, k)'
    BY <1>3, BeginTold
  <2>3. \A q \in Inst \ {a} : Good(q)
    BY <2>1, <2>2, OtherCoherent
  <2>4. Unapplied(a) = {} /\ Unbumped(a) = {}
    BY <1>3 DEF OpBegin, MutexFree, Unapplied, Unbumped
  <2>5. Good(a)
    BY <2>1, <2>2, <2>4 DEF CoherenceInv, OpCoherent, L1Coherent, Stale
  <2>6. \A q \in Inst \ {a} : Unbumped(q)' = Unbumped(q)
    BY <2>1 DEF Unbumped, Unapplied, Changed
  <2>7. \A g \in Reader : ReadCoherent(g)'
    BY <1>a, <2>1, <2>2, <2>4, <2>6, ReaderCoherent
  <2> QED
    BY <2>3, <2>5, <2>7 DEF CoherenceInv
<1>4. ASSUME NEW g \in Reader, RdBegin(g) PROVE CoherenceInv'
  <2>1. RdUnchanged
    BY <1>4 DEF RdBegin
  <2>2. /\ UNCHANGED <<redis, l1, mutationVersion, healthState, op>>
        /\ rd'[g].pc = "top" /\ rd'[g].ver = 0
        /\ \A h \in Reader \ {g} : rd'[h] = rd[h]
    BY <1>4, RdBeginFrame
  <2>3. \A q \in Inst : Good(q)
    BY <2>1, <2>2, ReadTold, OtherCoherent
  <2>4. \A h \in Reader \ {g} : ReadCoherent(h)'
    BY <1>a, <2>1, <2>2, ReadTold, ReaderCoherent
  <2>5. ReadCoherent(g)'
    BY <1>a, <1>c, <2>2 DEF ReadCoherent
  <2> QED
    BY <2>3, <2>4, <2>5 DEF CoherenceInv
<1>5. ASSUME NEW g \in Reader, RdStep(g) PROVE CoherenceInv'
  <2>1. RdUnchanged
    BY <1>5 DEF RdStep, RdTop, RdL1, RdHit, RdVersion, RdL2, RdWarm, RdReturn
  <2>2. /\ UNCHANGED <<redis, mutationVersion, op>>
        /\ \A h \in Reader \ {g} : rd'[h] = rd[h]
    BY <1>5, RdFrame
  <2>3. \A h \in Reader \ {g} : ReadCoherent(h)'
    BY <1>a, <2>1, <2>2, ReadTold, ReaderCoherent
  <2> QED
    BY <1>5, <2>3, FillCoherent, ReadCoherentNext DEF CoherenceInv
<1>6. ASSUME NEW a \in Inst, SubStep(a) PROVE CoherenceInv'
  <2>1. /\ OthersTold(a)
        /\ \A k \in Key : Told(a, k) => \/ Told(a, k)'
                                        \/ /\ MutexFree(a) /\ l1'[a][k] = 0
                                           /\ mutationVersion'[a] = mutationVersion[a] + 1
    BY <1>6, SubTold
  <2>2. /\ UNCHANGED <<redis, op, rd>>
        /\ \A q \in Inst \ {a} : /\ l1'[q] = l1[q] /\ healthState'[q] = healthState[q]
                                 /\ mutationVersion'[q] = mutationVersion[q]
        /\ healthState'[a] \in {healthState[a], "degraded"}
        /\ mutationVersion'[a] \in {mutationVersion[a], mutationVersion[a] + 1}
        /\ \A k \in Key : l1'[a][k] \in {0, l1[a][k]}
    BY <1>6, SubFrame
  <2>3. Unbumped(a)' = Unbumped(a) /\ Unapplied(a)' = Unapplied(a)
    BY <2>2 DEF Unbumped, Unapplied, Changed
  <2>4. Good(a)
    <3>1. CASE MutexFree(a)
      <4>1. OpForm(a)' /\ OpCoherent(a)'
        BY <2>2, <3>1 DEF MutexFree, OpForm, OpCoherent
      <4>2. L1Coherent(a) /\ L1Coherent(a)'
        <5>1. L1Coherent(a)
          BY DEF CoherenceInv
        <5> QED
          BY <2>1, <2>2, <2>3, <5>1 DEF L1Coherent, Stale
      <4> QED
        BY <4>1, <4>2
    <3>2. CASE ~MutexFree(a)
      BY <2>1, <2>2, <3>2, OtherCoherent
    <3> QED
      BY <3>1, <3>2
  <2>5. ASSUME NEW g \in Reader, Home[g] = a PROVE ReadCoherent(g)'
    <3>1. CASE mutationVersion'[a] = mutationVersion[a] + 1
      BY <2>2, <2>5, <3>1, ReaderCoherent
    <3>2. CASE mutationVersion'[a] = mutationVersion[a]
      <4>1. mutationVersion'[a] # mutationVersion[a] + 1
        BY <1>c, <3>2
      <4> QED
        BY <2>1, <2>2, <2>3, <2>5, <3>2, <4>1, ReaderCoherent
    <3> QED
      BY <2>2, <3>1, <3>2
  <2> QED
    BY <1>d, <1>e, <2>1, <2>2, <2>4, <2>5 DEF CoherenceInv
<1>7. ASSUME NEW a \in Inst, RecStep(a) PROVE CoherenceInv'
  <2>1. \A p \in Inst, k \in Key : Told(p, k) => Told(p, k)'
    BY <1>7, RecTold
  <2>2. /\ UNCHANGED <<redis, mutationVersion, op, rd>>
        /\ \A q \in Inst \ {a} : l1'[q] = l1[q] /\ healthState'[q] = healthState[q]
        /\ l1'[a] \in {l1[a], NoEntries}
        /\ healthState'[a] # healthState[a] => rec[a].pc = "heal"
    BY <1>7, RecFrame
  <2>3. \A q \in Inst \ {a} : Good(q)
    BY <2>1, <2>2, OtherCoherent
  <2>4. Good(a)
    <3>1. CASE healthState'[a] = healthState[a]
      BY <2>1, <2>2, <3>1, OtherCoherent DEF NoEntries
    <3>2. CASE rec[a].pc = "heal"
      <4>1. l1[a] = NoEntries /\ op[a].pc = "idle"
        BY <3>2 DEF RecoveryInv, OpIdle
      <4> QED
        BY <2>2, <4>1 DEF OpForm, OpCoherent, L1Coherent, Stale, NoEntries
    <3> QED
      BY <2>2, <3>1, <3>2
  <2>5. \A q \in Inst : Unbumped(q)' = Unbumped(q)
    BY <2>2 DEF Unbumped, Unapplied, Changed
  <2>6. \A g \in Reader : ReadCoherent(g)'
    BY <1>a, <2>1, <2>2, <2>5, ReaderCoherent
  <2> QED
    BY <2>3, <2>4, <2>6 DEF CoherenceInv
<1>8. ASSUME NEW a \in Inst, CloseBegin(a) \/ CloseStep(a) \/ L1Drop(a) \/ Disconnect(a)
      PROVE  CoherenceInv'
  <2>1. \A p \in Inst, k \in Key : Told(p, k) => Told(p, k)'
    BY <1>8, WorldTold
  <2>2. /\ UNCHANGED <<redis, healthState, op, rd>>
        /\ \A q \in Inst : \A k \in Key : l1'[q][k] \in {0, l1[q][k]}
        /\ \A q \in Inst : mutationVersion'[q] \in {mutationVersion[q], mutationVersion[q] + 1}
    BY <1>8, WorldFrame
  <2>3. \A q \in Inst : Good(q)
    BY <2>1, <2>2, OtherCoherent
  <2>4. \A q \in Inst : Unbumped(q)' = Unbumped(q)
    BY <2>2 DEF Unbumped, Unapplied, Changed
  <2>5. \A g \in Reader : ReadCoherent(g)'
    BY <1>a, <2>1, <2>2, <2>4, ReaderCoherent
  <2> QED
    BY <2>3, <2>5 DEF CoherenceInv
<1>9. ASSUME NEW a \in Inst, Crash(a) PROVE CoherenceInv'
  <2>1. OthersTold(a)
    BY <1>9, CrashTold
  <2>2. /\ l1'[a] = NoEntries /\ op'[a] = OpIdle /\ mutationVersion'[a] = 0
        /\ \A g \in Reader : rd'[g] = IF Home[g] = a THEN RdIdle ELSE rd[g]
        /\ UNCHANGED redis
        /\ \A q \in Inst \ {a} : /\ op'[q] = op[q] /\ l1'[q] = l1[q]
                                 /\ healthState'[q] = healthState[q]
                                 /\ mutationVersion'[q] = mutationVersion[q]
    BY <1>9, CrashFrame
  <2>3. Good(a)
    BY <2>2 DEF OpIdle, OpForm, OpCoherent, L1Coherent, Stale, NoEntries
  <2>4. \A q \in Inst \ {a} : Good(q)
    BY <1>d, <2>1, <2>2
  <2>5. ASSUME NEW g \in Reader PROVE ReadCoherent(g)'
    <3>1. CASE Home[g] = a
      BY <2>2, <3>1 DEF ReadCoherent, RdIdle
    <3>2. CASE Home[g] # a
      <4>1. Unbumped(Home[g])' = Unbumped(Home[g])
        BY <1>a, <2>2, <3>2 DEF Unbumped, Unapplied, Changed
      <4> QED
        BY <1>a, <2>1, <2>2, <3>2, <4>1, ReaderCoherent DEF OthersTold
    <3> QED
      BY <3>1, <3>2
  <2> QED
    BY <2>3, <2>4, <2>5 DEF CoherenceInv
<1>10. CASE ExternalFlush
  <2>1. \A p \in Inst, k \in Key : Told(p, k)'
    BY <1>10, ExternalTold
  <2>2. UNCHANGED <<l1, mutationVersion, healthState, op, rd>>
    BY <1>10 DEF ExternalFlush, cacheVars, healthVars
  <2>3. \A q \in Inst : Good(q)
    BY <2>1, <2>2, OtherCoherent
  <2>4. \A g \in Reader : ReadCoherent(g)'
    BY <1>a, <2>1, <2>2, ReaderCoherent
  <2> QED
    BY <2>3, <2>4 DEF CoherenceInv
<1> QED
  BY <1>1, <1>2, <1>3, <1>4, <1>5, <1>6, <1>7, <1>8, <1>9, <1>10
     DEF Next, SystemStep, Environment

LEMMA CoherenceHolds == Spec => [](TypeOK /\ CoherenceInv)
<1>1. TypeOK /\ RecoveryInv /\ CoherenceInv /\ [Next]_vars => RecoveryInv' /\ CoherenceInv'
  BY CoherenceNext, RecoveryNext
<1>2. Init => RecoveryInv /\ CoherenceInv
  BY CoherenceInit, RecoveryInit
<1> QED
  BY <1>1, <1>2, TypeCorrect, PTL DEF Spec

(* An instance that serves reads holds an outdated entry only while somebody *)
(* is still due to invalidate it, however its mutations, its readers, its     *)
(* subscriber and its recovery interleave with those of its peers, and        *)
(* whatever fails.                                                           *)
THEOREM CacheIsCoherent == Spec => []Coherent
<1>1. TypeOK /\ CoherenceInv => Coherent
  BY WillHearIsTold DEF CoherenceInv, Coherent, L1Coherent, Available
<1> QED
  BY <1>1, CoherenceHolds, PTL

(* An answer of Redis that the version check would let into L1 is current, or *)
(* somebody is still due to invalidate it.                                    *)
THEOREM FillsAreCoherent == Spec => []FillsCoherent
<1>1. TypeOK /\ CoherenceInv => FillsCoherent
  <2> SUFFICES ASSUME CoherenceInv, NEW g \in Reader, NEW k \in Key,
                      rd[g].pc = "warm", VersionCurrent(g), rd[g].l2[k] \notin {0, redis[k]}
               PROVE  WillHear(Home[g], k) \/ OrphanedBy(Home[g], k, Inst)
    BY DEF FillsCoherent
  <2>1. Home[g] \in Inst
    BY TieredAssumption
  <2>2. Told(Home[g], k) \/ k \in Unbumped(Home[g])
    BY DEF CoherenceInv, ReadCoherent
  <2> QED
    BY <2>1, <2>2, WillHearIsTold, UnbumpedTold
<1> QED
  BY <1>1, CoherenceHolds, PTL

(***************************************************************************)
(* Batches.                                                                *)
(***************************************************************************)

(* From the head of its loop on, where no mutation was running, nothing a     *)
(* GetMany has seen, and nothing in L1, is older than a mutation of its       *)
(* instance, as long as the version it loaded there is current.               *)
BatchRecent(g) ==
    /\ rd[g].pc = "version" => ~rd[g].many
    /\ rd[g].many /\ rd[g].pc \in {"l1", "hit", "l2", "warm"} /\ VersionCurrent(g) =>
         /\ op[Home[g]].pc \in {"idle", "l2", "bump"}
         /\ \A k \in Key : /\ Recent(Home[g], k, l1[Home[g]][k])
                           /\ Recent(Home[g], k, rd[g].got[k])

BatchInv == \A g \in Reader : BatchRecent(g)

LEMMA BatchKept ==
  ASSUME TypeOK, RecentInv, BatchInv, NEW g \in Reader, rd'[g] = rd[g],
         \/ mutationVersion'[Home[g]] = mutationVersion[Home[g]] + 1
         \/ /\ mutationVersion'[Home[g]] = mutationVersion[Home[g]]
            /\ own'[Home[g]] = own[Home[g]]
            /\ op[Home[g]].pc \in {"idle", "l2", "bump"} => op'[Home[g]].pc \in {"idle", "l2", "bump"}
            /\ \/ op[Home[g]].pc = "store"
               \/ \A k \in Key : Recent(Home[g], k, l1[Home[g]][k])
                                   => Recent(Home[g], k, l1[Home[g]][k])'
  PROVE  BatchRecent(g)'
<1>1. mutationVersion[Home[g]] \in Nat /\ rd[g].ver \in Nat /\ rd[g].ver <= mutationVersion[Home[g]]
  BY TieredAssumption DEF TypeOK, RdType, RecentInv, ReadsRecent
<1>2. CASE mutationVersion'[Home[g]] = mutationVersion[Home[g]] + 1
  BY <1>1, <1>2 DEF BatchInv, BatchRecent, VersionCurrent
<1>3. CASE mutationVersion'[Home[g]] = mutationVersion[Home[g]]
  <2>1. mutationVersion'[Home[g]] # mutationVersion[Home[g]] + 1
    BY <1>1, <1>3
  <2> QED
    BY <1>3, <2>1 DEF BatchInv, BatchRecent, VersionCurrent, Recent
<1> QED
  BY <1>2, <1>3

(* A mutation writes to L1 only after it has bumped the version. *)
LEMMA OpBatch ==
  ASSUME TypeOK, NEW p \in Inst, OpStep(p)
  PROVE  \/ mutationVersion'[p] = mutationVersion[p] + 1
         \/ op[p].pc \notin {"idle", "l2", "bump"}
         \/ /\ op'[p].pc \in {"idle", "l2", "bump"}
            /\ \A k \in Key : l1'[p][k] \in {0, l1[p][k]}
<1>1. op[p].pc # "idle"
  BY OpFrame
<1>2. CASE Bump(p)
  BY <1>2 DEF Bump, BumpVersion, TypeOK
<1>3. CASE StoreKey(p) \/ Reconcile(p) \/ FlushStore(p) \/ OpPublish(p) \/ OpMark(p)
  BY <1>3 DEF StoreKey, Reconcile, FlushStore, OpPublish, OpMark
<1>4. CASE L2Reject(p) \/ L2Fail(p) \/ L2LostReply(p)
  <2>1. op'[p].pc = "idle"
    BY <1>4 DEF L2Reject, L2Fail, L2LostReply, GiveUp, OpSet, OpIdle, TypeOK
  <2>2. \A k \in Key : l1'[p][k] \in {0, l1[p][k]}
    BY <1>4, Emptied DEF L2Reject, L2Fail, L2LostReply, GiveUp, NoEntries, localVars, cacheVars
  <2> QED
    BY <2>1, <2>2
<1>5. CASE L2Commit(p) \/ FlushScan(p) \/ FlushScanMarker(p) \/ FlushScanned(p)
  <2>1. op[p].pc = "l2" /\ UNCHANGED l1
    BY <1>5 DEF L2Commit, FlushScan, FlushScanMarker, FlushScanned, localVars, cacheVars
  <2>2. op'[p].pc \in {"l2", "bump"}
    <3>1. ~Bump(p) /\ ~StoreKey(p)
      BY <2>1 DEF Bump, StoreKey
    <3> QED
      BY <1>5, <3>1, ChangeKept
  <2> QED
    BY <2>1, <2>2
<1> QED
  BY <1>2, <1>3, <1>4, <1>5 DEF OpStep

LEMMA BatchOfRead ==
  ASSUME TypeOK, RecentInv, BatchInv, NEW g \in Reader, RdStep(g)
  PROVE  BatchRecent(g)'
<1> DEFINE p == Home[g]
<1>a. /\ p \in Inst /\ rd \in [Reader -> RdType] /\ rd[g] \in RdType
      /\ L1Recent(p) /\ BatchRecent(g) /\ l1 \in [Inst -> [Key -> Nat]]
  BY TieredAssumption DEF TypeOK, RecentInv, BatchInv
<1>b. ASSUME NEW r, RdSet(g, r) PROVE rd'[g] = r
  BY <1>a, <1>b DEF RdSet
<1>c. UNCHANGED <<mutationVersion, own, op>>
  BY DEF RdStep, RdTop, RdL1, RdHit, RdVersion, RdL2, RdWarm, RdReturn, RdUnchanged, historyVars
<1>d. ASSUME rd'[g].pc \notin {"l1", "hit", "version", "l2", "warm"} PROVE BatchRecent(g)'
  BY <1>d DEF BatchRecent
<1> USE DEF RdGoto, RdAbort
<1>1. CASE RdTop(g)
  <2>1. CASE RdSet(g, RdIdle)
    BY <1>b, <1>d, <2>1 DEF RdIdle
  <2>2. CASE ~(Closed(p) \/ ~Available(p))
    <3> DEFINE ver == IF rd[g].many THEN mutationVersion[p] ELSE 0
    <3>1. rd'[g] = [RdIdle EXCEPT !.pc = "l1", !.many = rd[g].many, !.keys = rd[g].keys,
                      !.left = rd[g].keys, !.ver = ver]
      BY <1>1, <1>b, <2>2 DEF RdTop
    <3> HIDE DEF ver
    <3>2. RdIdle \in RdType /\ RdIdle.got = NoEntries
      BY IdleTypes DEF RdIdle
    <3>3. rd'[g].got = NoEntries /\ rd'[g].pc = "l1"
      BY <3>1, <3>2 DEF RdType
    <3>4. Unstored(p) = {} /\ healthState[p] = "healthy" /\ op[p].pc = "idle" /\ UNCHANGED l1
      BY <1>1, <2>2 DEF RdTop, Unstored, MutexFree, Available
    <3> QED
      BY <1>a, <1>c, <3>3, <3>4 DEF BatchRecent, L1Recent, Recent, NoEntries
  <2> QED
    BY <1>1, <2>1, <2>2 DEF RdTop
<1>2. CASE RdL1(g)
  <2>0. PICK k \in rd[g].left :
          LET entry == l1[p][k]
              miss  == rd[g].miss \cup (IF entry = 0 THEN {k} ELSE {})
              left  == rd[g].left \ {k}
          IN  RdSet(g, [rd[g] EXCEPT !.pc = AfterL1(g, left, miss), !.left = left,
                                     !.miss = miss, !.got = [@ EXCEPT ![k] = entry]])
    BY <1>2 DEF RdL1
  <2> DEFINE miss == rd[g].miss \cup (IF l1[p][k] = 0 THEN {k} ELSE {})
             left == rd[g].left \ {k}
             next == AfterL1(g, left, miss)
             got  == [rd[g].got EXCEPT ![k] = l1[p][k]]
  <2>1. rd'[g] = [rd[g] EXCEPT !.pc = next, !.left = left, !.miss = miss, !.got = got]
    BY <1>b, <2>0
  <2>2. k \in Key /\ rd[g].got \in [Key -> Nat]
    BY <1>a DEF RdType
  <2>3. /\ \A j \in Key : got[j] \in {rd[g].got[j], l1[p][j]}
        /\ next = "version" => ~rd[g].many
    BY <2>2 DEF AfterL1
  <2> HIDE DEF miss, left, next, got
  <2>4. /\ rd'[g].ver = rd[g].ver /\ rd'[g].many = rd[g].many /\ rd'[g].got = got
        /\ rd'[g].pc = next
    BY <1>a, <2>1 DEF RdType
  <2>5. rd[g].pc = "l1" /\ UNCHANGED l1
    BY <1>2 DEF RdL1
  <2> QED
    BY <1>a, <1>c, <2>3, <2>4, <2>5 DEF BatchRecent, VersionCurrent, Recent
<1>3. CASE RdHit(g)
  <2>1. rd'[g] = RdIdle \/ rd'[g] = [rd[g] EXCEPT !.pc = "top"] \/ rd'[g] = [rd[g] EXCEPT !.pc = "ret"]
    BY <1>3, <1>b DEF RdHit
  <2>2. rd'[g].pc \in {"idle", "top", "ret"}
    BY <1>a, <2>1 DEF RdIdle, RdType
  <2> QED
    BY <1>d, <2>2
<1>4. CASE RdVersion(g)
  <2>1. rd'[g] = [rd[g] EXCEPT !.pc = "l2", !.ver = mutationVersion[p]]
    BY <1>4, <1>b DEF RdVersion
  <2>2. rd'[g].many = rd[g].many /\ rd'[g].pc = "l2"
    BY <1>a, <2>1 DEF RdType
  <2> QED
    BY <1>4, <1>a, <2>2 DEF RdVersion, BatchRecent
<1>5. CASE RdL2(g)
  <2>1. rd[g].pc = "l2" /\ UNCHANGED l1
    BY <1>5 DEF RdL2
  <2>2. \/ rd'[g] = [rd[g] EXCEPT !.pc = "warm",
                       !.l2 = [k \in Key |-> IF k \in rd[g].miss THEN redis[k] ELSE 0]]
        \/ rd'[g] = [rd[g] EXCEPT !.pc = "warm", !.err = TRUE]
    BY <1>5, <1>b DEF RdL2
  <2>3. /\ rd'[g].pc = "warm" /\ rd'[g].ver = rd[g].ver /\ rd'[g].many = rd[g].many
        /\ rd'[g].got = rd[g].got
    BY <1>a, <2>2 DEF RdType
  <2> QED
    BY <1>a, <1>c, <2>1, <2>3 DEF BatchRecent, VersionCurrent, Recent
<1>6. CASE RdWarm(g)
  <2>1. CASE RdSet(g, RdIdle) \/ RdSet(g, [rd[g] EXCEPT !.pc = "top"])
    <3>1. rd'[g] = RdIdle \/ rd'[g] = [rd[g] EXCEPT !.pc = "top"]
      BY <1>b, <2>1
    <3>2. rd'[g].pc \in {"idle", "top"}
      BY <1>a, <3>1 DEF RdIdle, RdType
    <3> QED
      BY <1>d, <3>2
  <2>2. CASE Warm(g)
    <3>1. PICK got : RdSet(g, [rd[g] EXCEPT !.pc = "ret", !.got = got])
      BY <2>2 DEF Warm
    <3>2. rd'[g] = [rd[g] EXCEPT !.pc = "ret", !.got = got]
      BY <1>b, <3>1
    <3>3. rd'[g].pc = "ret"
      BY <1>a, <3>2 DEF RdType
    <3> QED
      BY <1>d, <3>3
  <2> QED
    BY <1>6, <2>1, <2>2 DEF RdWarm
<1>7. CASE RdReturn(g)
  <2>1. rd'[g].pc = "idle"
    BY <1>7, <1>b DEF RdReturn, RdIdle
  <2> QED
    BY <1>d, <2>1
<1> QED
  BY <1>1, <1>2, <1>3, <1>4, <1>5, <1>6, <1>7 DEF RdStep

LEMMA BatchNext ==
  TypeOK /\ RecoveryInv /\ RecentInv /\ BatchInv /\ [Next]_vars => BatchInv'
<1> SUFFICES ASSUME TypeOK, RecoveryInv, RecentInv, BatchInv, [Next]_vars PROVE BatchInv'
  OBVIOUS
<1>a. /\ \A g \in Reader : Home[g] \in Inst
      /\ mutationVersion \in [Inst -> Nat] /\ l1 \in [Inst -> [Key -> Nat]]
      /\ ReadsRecent
  BY TieredAssumption DEF TypeOK, RecentInv
<1>b. ASSUME UNCHANGED rd,
             \A p \in Inst : \/ mutationVersion'[p] = mutationVersion[p] + 1
                             \/ /\ mutationVersion'[p] = mutationVersion[p] /\ own'[p] = own[p]
                                /\ \/ op[p].pc \notin {"idle", "l2", "bump"}
                                   \/ /\ op'[p].pc \in {"idle", "l2", "bump"}
                                      /\ \A k \in Key : l1'[p][k] \in {0, l1[p][k]}
      PROVE  BatchInv'
  <2> SUFFICES ASSUME NEW g \in Reader PROVE BatchRecent(g)'
    BY DEF BatchInv
  <2>1. CASE op[Home[g]].pc \in {"idle", "l2", "bump"}
    BY <1>a, <1>b, <2>1, BatchKept DEF Recent
  <2>2. CASE op[Home[g]].pc \notin {"idle", "l2", "bump"}
    <3>1. ~(rd[g].many /\ rd[g].pc \in {"l1", "hit", "l2", "warm"} /\ VersionCurrent(g))
          /\ (rd[g].pc = "version" => ~rd[g].many)
      BY <2>2 DEF BatchInv, BatchRecent
    <3>2. rd[g].ver \in Nat /\ mutationVersion[Home[g]] \in Nat /\ rd[g].ver <= mutationVersion[Home[g]]
      BY <1>a DEF ReadsRecent, TypeOK, RdType
    <3>3. VersionCurrent(g)' => VersionCurrent(g)
      BY <1>a, <1>b, <3>2 DEF VersionCurrent
    <3> QED
      BY <1>b, <3>1, <3>3 DEF BatchRecent
  <2> QED
    BY <2>1, <2>2
<1>1. CASE UNCHANGED vars
  BY <1>1, <1>b DEF vars, cacheVars, historyVars
<1>2. ASSUME NEW p \in Inst, OpStep(p) PROVE BatchInv'
  BY <1>2, <1>b, OpFrame, OpShared, OpBatch
<1>3. ASSUME NEW p \in Inst, OpBegin(p) PROVE BatchInv'
  BY <1>3, <1>b, BeginFrame
<1>4. ASSUME NEW g \in Reader, RdBegin(g) PROVE BatchInv'
  <2>1. /\ UNCHANGED <<l1, mutationVersion, op, own>> /\ rd'[g].pc = "top"
        /\ \A h \in Reader \ {g} : rd'[h] = rd[h]
    BY <1>4, RdBeginFrame
  <2>2. BatchRecent(g)'
    BY <2>1 DEF BatchRecent
  <2>3. \A h \in Reader \ {g} : BatchRecent(h)'
    BY <1>a, <2>1, BatchKept DEF Recent
  <2> QED
    BY <2>2, <2>3 DEF BatchInv
<1>5. ASSUME NEW g \in Reader, RdStep(g) PROVE BatchInv'
  <2>1. /\ UNCHANGED <<mutationVersion, op, own>>
        /\ \A h \in Reader \ {g} : rd'[h] = rd[h]
        /\ \A q \in Inst \ {Home[g]} : l1'[q] = l1[q]
        /\ \/ l1'[Home[g]] \in {l1[Home[g]], NoEntries}
           \/ rd[g].pc = "warm" /\ VersionCurrent(g) /\ ~rd[g].err /\ Warm(g)
    BY <1>5, RdFrame
  <2>2. \A q \in Inst, k \in Key : Recent(q, k, l1[q][k]) => Recent(q, k, l1[q][k])'
    <3>1. CASE l1'[Home[g]] \in {l1[Home[g]], NoEntries}
      BY <2>1, <3>1 DEF Recent, NoEntries
    <3>2. CASE rd[g].pc = "warm" /\ VersionCurrent(g) /\ ~rd[g].err /\ Warm(g)
      <4>1. \A k \in Key : l1'[Home[g]][k] \in {l1[Home[g]][k], rd[g].l2[k]}
        BY <1>a, <3>2 DEF Warm
      <4>2. \A k \in Key : Recent(Home[g], k, rd[g].l2[k])
        BY <1>a, <3>2 DEF ReadsRecent
      <4> QED
        BY <2>1, <4>1, <4>2 DEF Recent
    <3> QED
      BY <2>1, <3>1, <3>2
  <2>3. \A h \in Reader \ {g} : BatchRecent(h)'
    BY <1>a, <2>1, <2>2, BatchKept
  <2> QED
    BY <1>5, <2>3, BatchOfRead DEF BatchInv
<1>6. ASSUME NEW p \in Inst, SubStep(p) PROVE BatchInv'
  BY <1>6, <1>b, SubFrame
<1>7. ASSUME NEW p \in Inst, RecStep(p) PROVE BatchInv'
  BY <1>7, <1>b, RecFrame DEF NoEntries
<1>8. ASSUME NEW p \in Inst, CloseBegin(p) \/ CloseStep(p) \/ L1Drop(p) \/ Disconnect(p)
      PROVE  BatchInv'
  BY <1>8, <1>b, WorldFrame
<1>9. ASSUME NEW p \in Inst, Crash(p) PROVE BatchInv'
  <2>1. /\ UNCHANGED own
        /\ \A g \in Reader : rd'[g] = IF Home[g] = p THEN RdIdle ELSE rd[g]
        /\ \A q \in Inst \ {p} : /\ l1'[q] = l1[q] /\ op'[q] = op[q]
                                 /\ mutationVersion'[q] = mutationVersion[q]
    BY <1>9, CrashFrame
  <2>2. ASSUME NEW g \in Reader PROVE BatchRecent(g)'
    <3>1. CASE Home[g] = p
      BY <2>1, <3>1 DEF BatchRecent, RdIdle
    <3>2. CASE Home[g] # p
      BY <1>a, <2>1, <3>2, BatchKept DEF Recent
    <3> QED
      BY <3>1, <3>2
  <2> QED
    BY <2>2 DEF BatchInv
<1>10. CASE ExternalFlush
  BY <1>10, <1>b DEF ExternalFlush, cacheVars, historyVars
<1> QED
  BY <1>1, <1>2, <1>3, <1>4, <1>5, <1>6, <1>7, <1>8, <1>9, <1>10
     DEF Next, SystemStep, Environment

(* GetMany never answers with a value older than a mutation its instance had  *)
(* made by then: a SetMany, which writes L1 key by key, is seen in whole or   *)
(* not at all.                                                               *)
THEOREM BatchesAreWhole == Spec => BatchNotTorn
<1>1. TypeOK /\ RecentInv /\ BatchInv /\ [Next]_vars =>
        [\A g \in Reader :
           rd[g].many /\ rd[g].pc # "ret" /\ rd'[g].pc = "ret"
           => \A k \in Key : rd'[g].got[k] = 0 \/ rd'[g].got[k] >= own'[Home[g]][k]]_vars
  <2> SUFFICES ASSUME TypeOK, RecentInv, BatchInv, Next,
                      NEW g \in Reader, rd[g].many, rd[g].pc # "ret", rd'[g].pc = "ret",
                      NEW k \in Key
               PROVE  rd'[g].got[k] = 0 \/ rd'[g].got[k] >= own'[Home[g]][k]
    OBVIOUS
  <2>a. /\ rd \in [Reader -> RdType] /\ rd[g] \in RdType /\ BatchRecent(g) /\ ReadsRecent
        /\ \A h \in Reader : Home[h] \in Inst
    BY TieredAssumption DEF TypeOK, BatchInv, RecentInv
  <2>b. ASSUME NEW r, RdSet(g, r) PROVE rd'[g] = r
    BY <2>a, <2>b DEF RdSet
  <2>1. ASSUME NEW q \in Inst, OpStep(q) \/ OpBegin(q) \/ SubStep(q) \/ RecStep(q) PROVE FALSE
    BY <2>1, OpFrame, BeginFrame, SubFrame, RecFrame
  <2>2. ASSUME NEW q \in Inst, CloseBegin(q) \/ CloseStep(q) \/ L1Drop(q) \/ Disconnect(q) PROVE FALSE
    BY <2>2, WorldFrame
  <2>3. ASSUME NEW q \in Inst, Crash(q) PROVE FALSE
    <3>1. rd'[g] = RdIdle \/ rd'[g] = rd[g]
      BY <2>3, CrashFrame
    <3> QED
      BY <3>1 DEF RdIdle
  <2>4. ASSUME ExternalFlush PROVE FALSE
    BY <2>4 DEF ExternalFlush
  <2>5. ASSUME NEW h \in Reader, RdBegin(h) PROVE FALSE
    BY <2>5, RdBeginFrame
  <2>6. ASSUME NEW h \in Reader, RdStep(h) PROVE h = g
    BY <2>6, RdFrame
  <2>7. ASSUME RdStep(g) PROVE rd'[g].got[k] = 0 \/ rd'[g].got[k] >= own'[Home[g]][k]
    <3>1. UNCHANGED own
      BY <2>7, RdFrame
    <3>2. CASE RdHit(g)
      <4>1. \/ rd'[g] = RdIdle
            \/ rd'[g] = [rd[g] EXCEPT !.pc = "top"]
            \/ rd'[g] = [rd[g] EXCEPT !.pc = "ret"] /\ VersionCurrent(g)
        BY <2>b, <3>2 DEF RdHit, RdAbort, RdGoto
      <4>2. rd'[g].got = rd[g].got /\ VersionCurrent(g) /\ rd[g].pc = "hit"
        BY <2>a, <3>2, <4>1 DEF RdIdle, RdType, RdHit
      <4> QED
        BY <2>a, <3>1, <4>2 DEF BatchRecent, Recent
    <3>3. CASE RdWarm(g)
      <4>1. CASE RdSet(g, RdIdle) \/ RdSet(g, [rd[g] EXCEPT !.pc = "top"])
        <5>1. rd'[g] = RdIdle \/ rd'[g] = [rd[g] EXCEPT !.pc = "top"]
          BY <2>b, <4>1
        <5> QED
          BY <2>a, <5>1 DEF RdIdle, RdType
      <4>2. CASE VersionCurrent(g) /\ ~rd[g].err /\ Warm(g)
        <5>1. PICK late :
                RdSet(g, [rd[g] EXCEPT !.pc = "ret",
                            !.got = [j \in Key |-> IF j \notin rd[g].miss THEN rd[g].got[j]
                                                   ELSE IF l1[Home[g]][j] # 0 THEN l1[Home[g]][j]
                                                   ELSE IF j \in late THEN 0
                                                   ELSE rd[g].l2[j]]])
          BY <4>2 DEF Warm
        <5> DEFINE got == [j \in Key |-> IF j \notin rd[g].miss THEN rd[g].got[j]
                                         ELSE IF l1[Home[g]][j] # 0 THEN l1[Home[g]][j]
                                         ELSE IF j \in late THEN 0
                                         ELSE rd[g].l2[j]]
        <5>2. rd'[g] = [rd[g] EXCEPT !.pc = "ret", !.got = got]
          BY <2>b, <5>1
        <5>3. got[k] \in {rd[g].got[k], l1[Home[g]][k], 0, rd[g].l2[k]}
          OBVIOUS
        <5> HIDE DEF got
        <5>4. rd'[g].got = got
          BY <2>a, <5>2 DEF RdType
        <5>5. rd[g].pc = "warm"
          BY <3>3 DEF RdWarm
        <5> QED
          BY <2>a, <3>1, <4>2, <5>3, <5>4, <5>5 DEF BatchRecent, ReadsRecent, Recent
      <4> QED
        BY <3>3, <4>1, <4>2 DEF RdWarm, RdAbort, RdGoto
    <3>4. CASE RdTop(g) \/ RdL1(g) \/ RdVersion(g) \/ RdL2(g) \/ RdReturn(g)
      <4>1. CASE RdTop(g)
        <5>1. /\ RdIdle \in RdType /\ RdIdle.pc = "idle"
          BY IdleTypes DEF RdIdle
        <5> DEFINE ver == IF rd[g].many THEN mutationVersion[Home[g]] ELSE 0
        <5>2. \/ rd'[g] = RdIdle
              \/ rd'[g] = [RdIdle EXCEPT !.pc = "l1", !.many = rd[g].many, !.keys = rd[g].keys,
                             !.left = rd[g].keys, !.ver = ver]
          BY <2>b, <4>1 DEF RdTop, RdAbort
        <5> HIDE DEF ver
        <5>3. rd'[g].pc \in {"idle", "l1"}
          BY <5>1, <5>2 DEF RdType
        <5> QED
          BY <5>3
      <4>2. CASE RdL1(g)
        <5>1. PICK j \in rd[g].left :
                LET entry == l1[Home[g]][j]
                    miss  == rd[g].miss \cup (IF entry = 0 THEN {j} ELSE {})
                    left  == rd[g].left \ {j}
                IN  RdSet(g, [rd[g] EXCEPT !.pc = AfterL1(g, left, miss), !.left = left,
                                           !.miss = miss, !.got = [@ EXCEPT ![j] = entry]])
          BY <4>2 DEF RdL1
        <5> DEFINE miss == rd[g].miss \cup (IF l1[Home[g]][j] = 0 THEN {j} ELSE {})
                   left == rd[g].left \ {j}
                   next == AfterL1(g, left, miss)
                   got  == [rd[g].got EXCEPT ![j] = l1[Home[g]][j]]
        <5>2. rd'[g] = [rd[g] EXCEPT !.pc = next, !.left = left, !.miss = miss, !.got = got]
          BY <2>b, <5>1
        <5>3. next # "ret"
          BY DEF AfterL1
        <5> HIDE DEF miss, left, next, got
        <5> QED
          BY <2>a, <5>2, <5>3 DEF RdType
      <4>3. CASE RdVersion(g)
        <5>1. rd'[g] = [rd[g] EXCEPT !.pc = "l2", !.ver = mutationVersion[Home[g]]]
          BY <2>b, <4>3 DEF RdVersion
        <5> QED
          BY <2>a, <5>1 DEF RdType
      <4>4. CASE RdL2(g)
        <5>1. \/ rd'[g] = [rd[g] EXCEPT !.pc = "warm",
                             !.l2 = [j \in Key |-> IF j \in rd[g].miss THEN redis[j] ELSE 0]]
              \/ rd'[g] = [rd[g] EXCEPT !.pc = "warm", !.err = TRUE]
          BY <2>b, <4>4 DEF RdL2
        <5>2. rd'[g].pc = "warm"
          BY <2>a, <5>1 DEF RdType
        <5> QED
          BY <5>2
      <4>5. CASE RdReturn(g)
        BY <2>b, <4>5 DEF RdReturn, RdAbort, RdIdle
      <4> QED
        BY <3>4, <4>1, <4>2, <4>3, <4>4, <4>5
    <3> QED
      BY <2>7, <3>2, <3>3, <3>4 DEF RdStep
  <2> QED
    BY <2>1, <2>2, <2>3, <2>4, <2>5, <2>6, <2>7 DEF Next, SystemStep, Environment
<1>2. TypeOK /\ RecoveryInv /\ RecentInv /\ BatchInv /\ [Next]_vars
        => RecoveryInv' /\ RecentInv' /\ BatchInv'
  BY RecoveryNext, RecentNext, BatchNext
<1>3. Init => RecoveryInv /\ RecentInv /\ BatchInv
  <2>1. Init => BatchInv
    BY DEF Init, BatchInv, BatchRecent, RdIdle
  <2> QED
    BY <2>1, RecoveryInit, RecentInit
<1> QED
  BY <1>1, <1>2, <1>3, TypeCorrect, PTL DEF Spec, BatchNotTorn

=============================================================================
