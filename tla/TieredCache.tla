------------------------------ MODULE TieredCache ------------------------------
(***************************************************************************)
(* The tiered cache of internal/cache/tiered: instances (Go processes),     *)
(* each with an in-memory L1, over one Redis (L2) they share, kept coherent *)
(* by invalidations on a Pub/Sub bus.  Each instance runs mutations under   *)
(* mutationMu, any number of readers, a subscriber goroutine and a recovery *)
(* goroutine; the steps below are the atomic sections of those goroutines.  *)
(*                                                                         *)
(* A value is the stamp of the mutation that wrote it (0 is "no entry").    *)
(* Time to live, payloads, error texts and metrics are left out; an entry   *)
(* may leave an L1 at any moment (L1Drop).                                  *)
(***************************************************************************)
EXTENDS Naturals

CONSTANTS
    Inst,       \* the processes that share the Redis database
    Key,        \* the cache keys
    Reader,     \* goroutines that call Get and GetMany
    Home,       \* the instance each reader calls
    Kinds,      \* the mutations the callers use
    Reads,      \* the reads the callers use: "get", "getMany"
    Faults,     \* the failures that may happen
    Closers,    \* the instances that may be closed
    MaxOps,     \* bound: mutations begun
    MaxFaults,  \* bound: failures
    NoKey,      \* the key of a flush event
    NoOrigin    \* the origin of an event made from CLIENT TRACKING

AllKinds == {"set", "add", "setMany", "counter", "forget", "touch", "flush"}
AllFaults == {"l2", "reply", "l1set", "l1flush", "publish", "receive", "subscribe",
              "crash", "external"}

ASSUME TieredAssumption ==
    /\ Home \in [Reader -> Inst]
    /\ Kinds \subseteq AllKinds
    /\ Reads \subseteq {"get", "getMany"}
    /\ Faults \subseteq AllFaults
    /\ Closers \subseteq Inst
    /\ MaxOps \in Nat /\ MaxFaults \in Nat
    /\ NoKey \notin Key /\ NoOrigin \notin Inst

VARIABLES
    redis,                  \* what L2 holds for each key
    clock,                  \* stamps given to committed mutations
    l1,                     \* what each instance's L1 holds
    mutationVersion,        \* per instance, bumped by every invalidation
    healthState, healthEpoch,
    invalidationReady,
    pendingInvalidations, pendingFlush,
    life,                   \* open, waiting (Close wants lifecycleMu), stopping, closed
    op,                     \* the mutation that holds mutationMu
    rd,                     \* the read of each reader
    sub,                    \* where the subscriber goroutine is
    rec,                    \* where the recovery goroutine is
    connected, inbox,       \* each instance's subscription and its undelivered events
    orphan,                 \* history: <<q, k, p>>: p changed k in Redis, and nobody
                            \* will tell q
    own,                    \* history: stamp of the last mutation of k that p acknowledged
    ops, faults             \* bounds

redisVars   == <<redis, clock>>
cacheVars   == <<l1, mutationVersion>>
healthVars  == <<healthState, healthEpoch>>
pendingVars == <<pendingInvalidations, pendingFlush>>
busVars     == <<connected, inbox>>
historyVars == <<orphan, own>>
localVars   == <<cacheVars, healthVars>>
messageVars == <<pendingVars, inbox>>
boundVars   == <<ops, faults>>
vars == <<redisVars, cacheVars, healthVars, invalidationReady, pendingVars, life,
          op, rd, sub, rec, busVars, historyVars, boundVars>>

NoEntries == [k \in Key |-> 0]
Message == [key : Key \cup {NoKey}, origin : Inst \cup {NoOrigin}]

OpIdle == [pc |-> "idle", kind |-> "touch", keys |-> {}, left |-> {}, at |-> 0,
           l1op |-> "touch", refused |-> FALSE]
RdIdle == [pc |-> "idle", many |-> FALSE, keys |-> {}, left |-> {}, miss |-> {},
           got |-> NoEntries, ver |-> 0, l2 |-> NoEntries, err |-> FALSE]
RecIdle == [pc |-> "idle", epoch |-> 0]

--------------------------------------------------------------------------------
(* Locks and state the goroutines of an instance share. *)

Closed(p) == life[p] \in {"stopping", "closed"}

MutexFree(p) == op[p].pc = "idle"

RecoveryMuFree(p) == rec[p].pc \notin {"flush", "enter", "heal"} /\ sub[p] \notin {"flushL1", "emptying"}

StateErrMuFree(p) == rec[p].pc # "heal"

PendingMuFree(p) == rec[p].pc # "pending"

Available(p) == healthState[p] = "healthy" /\ invalidationReady[p]

Fault(kind) == kind \in Faults /\ faults < MaxFaults /\ faults' = faults + 1

(* Mutant: invalidations do not change the version. *)
VersionKept(p) == UNCHANGED mutationVersion

BumpVersion(p) == mutationVersion' = [mutationVersion EXCEPT ![p] = @ + 1]

TransitionToDegraded(p) ==
    /\ StateErrMuFree(p)
    /\ IF healthState[p] = "degraded"
       THEN UNCHANGED healthVars
       ELSE /\ healthState' = [healthState EXCEPT ![p] = "degraded"]
            /\ healthEpoch' = [healthEpoch EXCEPT ![p] = @ + 1]

EmptyL1(p) == l1' = [l1 EXCEPT ![p] = NoEntries]

FlushL1Fails == Fault("l1flush") /\ UNCHANGED l1

(* flushL1Locked keeps the error of a failed flush and goes on. *)
FlushL1Locked(p) ==
    \/ EmptyL1(p) /\ UNCHANGED faults
    \/ FlushL1Fails

Publish(p, k) ==
    inbox' = [q \in Inst |-> IF connected[q]
                             THEN inbox[q] \cup {[key |-> k, origin |-> p]}
                             ELSE inbox[q]]

(* An error of PUBLISH does not tell whether the event was delivered. *)
PublishFails(p, k) ==
    /\ Fault("publish")
    /\ Publish(p, k) \/ UNCHANGED inbox

Adopt(p, keys) == orphan' = {o \in orphan : ~(o[1] = p /\ o[2] \in keys)}

Abandon(p, keys) == orphan' = orphan \cup (Inst \X keys \X {p})

--------------------------------------------------------------------------------
(* Mutations.  mutationMu is held from OpBegin to the return. *)

KeySets(kind) == CASE kind = "setMany" -> (SUBSET Key) \ {{}}
                   [] kind = "flush"   -> {Key}
                   [] OTHER            -> {{k} : k \in Key}

(* What the command goes over: a flush also meets the marker of CLIENT TRACKING. *)
Matched(kind, keys) == IF kind = "flush" THEN keys \cup {NoKey} ELSE keys

OpSet(p, r) == op' = [op EXCEPT ![p] = r]

OpUnchanged == UNCHANGED <<invalidationReady, life, rd, sub, rec, connected>>

OpBegin(p) ==
    /\ MutexFree(p)
    /\ ~Closed(p)
    /\ Available(p)
    /\ ops < MaxOps
    /\ ops' = ops + 1
    /\ \E kind \in Kinds : \E keys \in KeySets(kind) :
         OpSet(p, [OpIdle EXCEPT !.pc = "l2", !.kind = kind, !.keys = keys,
                                 !.left = Matched(kind, keys), !.at = clock + 1])
    /\ UNCHANGED <<redisVars, localVars, messageVars, historyVars, faults>> /\ OpUnchanged

Writes == {"set", "add", "setMany", "counter"}

(* What Redis holds once it has executed the command of p. *)
Committed(p) ==
    [k \in Key |-> IF k \notin op[p].keys \/ op[p].kind = "touch" THEN redis[k]
                   ELSE IF op[p].kind \in Writes THEN clock + 1
                   ELSE 0]

(* SET NX stores nothing over a live key. *)
Accepts(p) == op[p].kind = "add" => \A k \in op[p].keys : redis[k] = 0

L1Op(p) == IF op[p].kind \in {"set", "add", "setMany"} THEN "store"
           ELSE IF op[p].kind = "touch" /\ \A k \in op[p].keys : redis[k] # 0 THEN "touch"
           ELSE "forget"

L2Commit(p) ==
    /\ op[p].pc = "l2" /\ op[p].kind # "flush"
    /\ Accepts(p)
    /\ redis' = Committed(p)
    /\ clock' = clock + 1
    /\ OpSet(p, [op[p] EXCEPT !.pc = "bump", !.at = clock + 1, !.l1op = L1Op(p)])
    /\ IF op[p].kind = "touch" THEN UNCHANGED orphan ELSE Adopt(p, op[p].keys)
    /\ UNCHANGED <<localVars, messageVars, own, boundVars>> /\ OpUnchanged

(* Add over a live key, and a counter command Redis refuses (ErrRedisCommand). *)
L2Reject(p) ==
    /\ op[p].pc = "l2"
    /\ op[p].kind = "counter" \/ ~Accepts(p)
    /\ OpSet(p, OpIdle)
    /\ UNCHANGED <<redisVars, localVars, messageVars, historyVars, boundVars>> /\ OpUnchanged

(* RedisCache.Flush is a SCAN and DEL loop: keys go one at a time. *)
FlushScan(p) ==
    /\ op[p].pc = "l2" /\ op[p].kind = "flush"
    /\ \E k \in op[p].left \cap Key :
         /\ redis' = [redis EXCEPT ![k] = 0]
         /\ OpSet(p, [op[p] EXCEPT !.left = @ \ {k}])
         /\ Adopt(p, {k})
    /\ UNCHANGED <<clock, localVars, messageVars, own, boundVars>> /\ OpUnchanged

(* Deleting the marker is a flush event to the instances that have read it *)
(* since it was last made.                                                  *)
FlushScanMarker(p) ==
    /\ op[p].pc = "l2" /\ op[p].kind = "flush" /\ NoKey \in op[p].left
    /\ OpSet(p, [op[p] EXCEPT !.left = @ \ {NoKey}])
    /\ \E told \in SUBSET {q \in Inst : connected[q]} :
         inbox' = [q \in Inst |-> IF q \in told
                                 THEN inbox[q] \cup {[key |-> NoKey, origin |-> NoOrigin]}
                                 ELSE inbox[q]]
    /\ UNCHANGED <<redisVars, localVars, pendingVars, historyVars, boundVars>> /\ OpUnchanged

FlushScanned(p) ==
    /\ op[p].pc = "l2" /\ op[p].kind = "flush" /\ op[p].left = {}
    /\ OpSet(p, [op[p] EXCEPT !.pc = "bump", !.l1op = "flush"])
    /\ UNCHANGED <<redisVars, localVars, messageVars, historyVars, boundVars>> /\ OpUnchanged

(* After an error of L2 the mutation is given up: nothing is published, and *)
(* only Touch empties L1.                                                   *)
GiveUp(p) ==
    /\ TransitionToDegraded(p)
    /\ \/ op[p].kind = "touch" /\ EmptyL1(p)
       \/ (op[p].kind # "touch" \/ "l1flush" \in Faults) /\ UNCHANGED l1
    /\ OpSet(p, OpIdle)
    /\ UNCHANGED <<mutationVersion, messageVars, own, ops>> /\ OpUnchanged

(* The command was not executed; a flush may have deleted some of the keys. *)
L2Fail(p) ==
    /\ op[p].pc = "l2"
    /\ Fault("l2")
    /\ Abandon(p, op[p].keys \ op[p].left)
    /\ GiveUp(p)
    /\ UNCHANGED redisVars

(* The command was executed and its reply lost. *)
L2LostReply(p) ==
    /\ op[p].pc = "l2" /\ op[p].kind # "flush"
    /\ Fault("reply")
    /\ Accepts(p)
    /\ redis' = Committed(p)
    /\ clock' = clock + 1
    /\ IF op[p].kind = "touch" THEN UNCHANGED orphan ELSE Abandon(p, op[p].keys)
    /\ GiveUp(p)

(* The first local step: a read in flight from now on is out of date.  The  *)
(* deadline may have passed while Redis answered.                           *)
Bump(p) ==
    /\ op[p].pc = "bump"
    /\ BumpVersion(p)
    /\ \E late \in BOOLEAN :
         OpSet(p, [op[p] EXCEPT !.pc = "store", !.left = op[p].keys,
                                !.l1op = IF late /\ @ \in {"store", "touch"} THEN "forget" ELSE @])
    /\ own' = [own EXCEPT ![p] = [k \in Key |->
                 IF k \in op[p].keys /\ op[p].kind # "touch" THEN op[p].at ELSE @[k]]]
    /\ UNCHANGED <<redisVars, l1, healthVars, messageVars, orphan, boundVars>> /\ OpUnchanged

Stored(p, k) == CASE op[p].l1op = "store"  -> op[p].at
                  [] op[p].l1op = "forget" -> 0
                  [] op[p].l1op = "touch"  -> l1[p][k]

StoreKey(p) ==
    /\ op[p].pc = "store" /\ op[p].l1op # "flush"
    /\ \E k \in op[p].left :
         \/ /\ l1' = [l1 EXCEPT ![p][k] = Stored(p, k)]
            /\ OpSet(p, [op[p] EXCEPT !.left = @ \ {k}])
            /\ UNCHANGED faults
         \/ /\ Fault("l1set")
            /\ OpSet(p, [op[p] EXCEPT !.left = @ \ {k}, !.refused = TRUE])
            /\ UNCHANGED l1
    /\ UNCHANGED <<redisVars, mutationVersion, healthVars, messageVars, historyVars, ops>> /\ OpUnchanged

(* Mutant: a refusal of L1 is reported and nothing more. *)
RefusalReported(p) == UNCHANGED <<l1, healthVars, faults>>

(* The keys are applied, or L1 was flushed instead, or p is degraded. *)
Reconciled(p) ==
    \/ ~op[p].refused /\ UNCHANGED <<l1, healthVars, faults>>
    \/ op[p].refused /\ EmptyL1(p) /\ UNCHANGED <<healthVars, faults>>
    \/ op[p].refused /\ FlushL1Fails /\ TransitionToDegraded(p)

Reconcile(p) ==
    /\ op[p].pc = "store" /\ op[p].l1op # "flush" /\ op[p].left = {}
    /\ Reconciled(p)
    /\ OpSet(p, [op[p] EXCEPT !.pc = "publish", !.left = op[p].keys])
    /\ UNCHANGED <<redisVars, mutationVersion, messageVars, historyVars, ops>> /\ OpUnchanged

FlushStore(p) ==
    /\ op[p].pc = "store" /\ op[p].l1op = "flush"
    /\ \/ EmptyL1(p) /\ UNCHANGED <<healthVars, faults>>
       \/ FlushL1Fails /\ TransitionToDegraded(p)
    /\ OpSet(p, [op[p] EXCEPT !.pc = "publish", !.left = {NoKey}])
    /\ UNCHANGED <<redisVars, mutationVersion, messageVars, historyVars, ops>> /\ OpUnchanged

(* One event per key of the mutation; the return frees mutationMu. *)
OpPublish(p) ==
    /\ op[p].pc = "publish"
    /\ \E k \in op[p].left :
         \/ /\ Publish(p, k)
            /\ OpSet(p, IF op[p].left = {k} THEN OpIdle
                        ELSE [op[p] EXCEPT !.left = @ \ {k}])
            /\ UNCHANGED faults
         \/ /\ PublishFails(p, k)
            /\ OpSet(p, [op[p] EXCEPT !.pc = "mark"])
    /\ UNCHANGED <<redisVars, cacheVars, healthVars, pendingVars, historyVars, ops>> /\ OpUnchanged

(* Mutant: an invalidation that was not published is forgotten. *)
MarkNothing(p) == UNCHANGED pendingVars

(* Mutant: a flush is remembered under the key of its event. *)
MarkEventKey(p) ==
    /\ pendingInvalidations' = [pendingInvalidations EXCEPT ![p] = @ \cup op[p].left]
    /\ UNCHANGED pendingFlush

MarkPending(p) ==
    IF op[p].kind = "flush"
    THEN /\ pendingFlush' = [pendingFlush EXCEPT ![p] = TRUE]
         /\ pendingInvalidations' = [pendingInvalidations EXCEPT ![p] = {}]
    ELSE /\ pendingInvalidations' = [pendingInvalidations EXCEPT ![p] =
                                       IF pendingFlush[p] THEN @ ELSE @ \cup op[p].keys]
         /\ UNCHANGED pendingFlush

(* markPendingInvalidation for every key, degradeLocked with a flush, return. *)
OpMark(p) ==
    /\ op[p].pc = "mark"
    /\ PendingMuFree(p)
    /\ MarkPending(p)
    /\ TransitionToDegraded(p)
    /\ FlushL1Locked(p)
    /\ OpSet(p, OpIdle)
    /\ UNCHANGED <<redisVars, mutationVersion, inbox, historyVars, ops>> /\ OpUnchanged

OpStep(p) ==
    \/ L2Commit(p) \/ L2Reject(p) \/ FlushScan(p) \/ FlushScanMarker(p) \/ FlushScanned(p)
    \/ L2Fail(p) \/ L2LostReply(p) \/ Bump(p) \/ StoreKey(p) \/ Reconcile(p)
    \/ FlushStore(p) \/ OpPublish(p) \/ OpMark(p)

--------------------------------------------------------------------------------
(* Reads: Get, and GetMany, whose flag is rd[g].many.  Both hold lifecycleMu *)
(* for reading from RdBegin to the return; neither holds mutationMu while it *)
(* reads L1 or waits for Redis.                                              *)

Reading(p) == {g \in Reader : Home[g] = p /\ rd[g].pc # "idle"}

RdUnchanged == UNCHANGED <<redisVars, mutationVersion, invalidationReady, pendingVars, life,
                           op, sub, rec, busVars, historyVars, ops>>

RdSet(g, r) == rd' = [rd EXCEPT ![g] = r]

RdGoto(g, pc) == RdSet(g, [rd[g] EXCEPT !.pc = pc])

RdAbort(g) == RdSet(g, RdIdle)

RdBegin(g) ==
    /\ rd[g].pc = "idle"
    /\ life[Home[g]] \in {"open", "closed"}
    /\ \E kind \in Reads : \E keys \in (IF kind = "getMany" THEN (SUBSET Key) \ {{}}
                                        ELSE {{k} : k \in Key}) :
         RdSet(g, [RdIdle EXCEPT !.pc = "top", !.many = (kind = "getMany"), !.keys = keys])
    /\ UNCHANGED <<l1, healthVars, faults>> /\ RdUnchanged

(* The head of the loop, under mutationMu; GetMany loads the version here. *)
RdTop(g) ==
    LET p == Home[g] IN
    /\ rd[g].pc = "top"
    /\ MutexFree(p)
    /\ IF Closed(p) \/ ~Available(p)
       THEN RdAbort(g)
       ELSE RdSet(g, [RdIdle EXCEPT !.pc = "l1", !.many = rd[g].many, !.keys = rd[g].keys,
                        !.left = rd[g].keys, !.ver = IF rd[g].many THEN mutationVersion[p] ELSE 0])
    /\ UNCHANGED <<l1, healthVars, faults>> /\ RdUnchanged

(* Mutant: after hits alone the loop starts again. *)
AfterL1Again(g, left, miss) ==
    IF left # {} THEN "l1" ELSE IF miss = {} THEN "top" ELSE IF rd[g].many THEN "l2" ELSE "version"

AfterL1(g, left, miss) ==
    IF left # {} THEN "l1"
    ELSE IF miss = {} THEN "hit"
    ELSE IF rd[g].many THEN "l2"
    ELSE "version"

RdL1(g) ==
    /\ rd[g].pc = "l1"
    /\ \E k \in rd[g].left :
         LET entry == l1[Home[g]][k]
             miss  == rd[g].miss \cup (IF entry = 0 THEN {k} ELSE {})
             left  == rd[g].left \ {k}
         IN  RdSet(g, [rd[g] EXCEPT !.pc = AfterL1(g, left, miss), !.left = left,
                                    !.miss = miss, !.got = [@ EXCEPT ![k] = entry]])
    /\ UNCHANGED <<l1, healthVars, faults>> /\ RdUnchanged

(* Mutant: nobody compares the versions. *)
VersionUnchecked(g) == TRUE

VersionCurrent(g) == rd[g].ver = mutationVersion[Home[g]]

(* Every key was in L1; only GetMany looks at the version again. *)
RdHit(g) ==
    LET p == Home[g] IN
    /\ rd[g].pc = "hit"
    /\ MutexFree(p)
    /\ IF Closed(p) THEN RdAbort(g)
       ELSE IF rd[g].many /\ ~VersionCurrent(g) THEN RdGoto(g, "top")
       ELSE IF ~Available(p) THEN RdAbort(g)
       ELSE RdGoto(g, "ret")
    /\ UNCHANGED <<l1, healthVars, faults>> /\ RdUnchanged

(* Get loads the version after L1 missed and before it asks Redis. *)
RdVersion(g) ==
    /\ rd[g].pc = "version"
    /\ RdSet(g, [rd[g] EXCEPT !.pc = "l2", !.ver = mutationVersion[Home[g]]])
    /\ UNCHANGED <<l1, healthVars, faults>> /\ RdUnchanged

RdL2(g) ==
    /\ rd[g].pc = "l2"
    /\ \/ /\ RdSet(g, [rd[g] EXCEPT !.pc = "warm",
                      !.l2 = [k \in Key |-> IF k \in rd[g].miss THEN redis[k] ELSE 0]])
          /\ UNCHANGED faults
       \/ /\ Fault("l2")
          /\ RdSet(g, [rd[g] EXCEPT !.pc = "warm", !.err = TRUE])
    /\ UNCHANGED <<l1, healthVars>> /\ RdUnchanged

(* What Redis answered is put in L1 where L1 still holds nothing, unless it *)
(* has expired on the way (late) or L1 will not take it (skipped).          *)
Warm(g) ==
    LET p == Home[g]
        fresh == {k \in rd[g].miss : l1[p][k] = 0 /\ rd[g].l2[k] # 0}
    IN  \E late \in SUBSET fresh : \E skipped \in SUBSET (fresh \ late) :
          /\ l1' = [l1 EXCEPT ![p] = [k \in Key |->
                      IF k \in fresh \ (late \cup skipped) THEN rd[g].l2[k] ELSE @[k]]]
          /\ RdSet(g, [rd[g] EXCEPT !.pc = "ret",
                      !.got = [k \in Key |-> IF k \notin rd[g].miss THEN rd[g].got[k]
                                             ELSE IF l1[p][k] # 0 THEN l1[p][k]
                                             ELSE IF k \in late THEN 0
                                             ELSE rd[g].l2[k]]])

(* The answer of Redis is handled under mutationMu. *)
RdWarm(g) ==
    LET p == Home[g] IN
    /\ rd[g].pc = "warm"
    /\ MutexFree(p)
    /\ \/ /\ Closed(p) \/ (VersionCurrent(g) /\ ~Available(p))
          /\ RdAbort(g)
          /\ UNCHANGED <<l1, healthVars, faults>>
       \/ /\ ~Closed(p) /\ ~VersionCurrent(g)
          /\ RdGoto(g, "top")
          /\ UNCHANGED <<l1, healthVars, faults>>
       \/ /\ ~Closed(p) /\ VersionCurrent(g) /\ Available(p) /\ rd[g].err
          /\ TransitionToDegraded(p)
          /\ FlushL1Locked(p)
          /\ RdAbort(g)
       \/ /\ ~Closed(p) /\ VersionCurrent(g) /\ Available(p) /\ ~rd[g].err
          /\ Warm(g)
          /\ UNCHANGED <<healthVars, faults>>
    /\ RdUnchanged

RdReturn(g) ==
    /\ rd[g].pc = "ret"
    /\ RdAbort(g)
    /\ UNCHANGED <<l1, healthVars, faults>> /\ RdUnchanged

RdStep(g) ==
    \/ RdTop(g) \/ RdL1(g) \/ RdHit(g) \/ RdVersion(g) \/ RdL2(g) \/ RdWarm(g) \/ RdReturn(g)

--------------------------------------------------------------------------------
(* The subscriber goroutine. *)

SubUnchanged == UNCHANGED <<redisVars, pendingVars, life, op, rd, rec, own, ops>>

SubGoto(p, pc) == sub' = [sub EXCEPT ![p] = pc]

SubSubscribe(p) ==
    /\ sub[p] = "start" /\ ~Closed(p)
    /\ connected' = [connected EXCEPT ![p] = TRUE]
    /\ inbox' = [inbox EXCEPT ![p] = {}]
    /\ SubGoto(p, "subscribed")
    /\ UNCHANGED <<cacheVars, healthVars, invalidationReady, orphan, faults>> /\ SubUnchanged

SubSubscribeErr(p) ==
    /\ sub[p] = "start" /\ ~Closed(p)
    /\ Fault("subscribe")
    /\ SubGoto(p, "degrade")
    /\ UNCHANGED <<cacheVars, healthVars, invalidationReady, busVars, orphan>> /\ SubUnchanged

Unsubscribe(p) ==
    /\ connected' = [connected EXCEPT ![p] = FALSE]
    /\ inbox' = [inbox EXCEPT ![p] = {}]

(* flushLocalL1 and degradeAndFlush take recoveryMu, and then mutationMu.   *)
SubLock(p) ==
    /\ sub[p] \in {"subscribed", "flushing"}
    /\ RecoveryMuFree(p)
    /\ SubGoto(p, IF sub[p] = "subscribed" THEN "flushL1" ELSE "emptying")
    /\ UNCHANGED <<cacheVars, healthVars, invalidationReady, busVars, orphan, faults>>
    /\ SubUnchanged

(* flushLocalL1: what was read before the subscription is dropped. *)
SubFlush(p) ==
    /\ sub[p] = "flushL1"
    /\ MutexFree(p)
    /\ \/ /\ Closed(p)
          /\ SubGoto(p, "done") /\ Unsubscribe(p)
          /\ UNCHANGED <<cacheVars, orphan, faults>>
       \/ /\ ~Closed(p)
          /\ BumpVersion(p) /\ EmptyL1(p) /\ Adopt(p, Key)
          /\ SubGoto(p, "flushed")
          /\ UNCHANGED <<busVars, faults>>
       \/ /\ ~Closed(p)
          /\ BumpVersion(p) /\ FlushL1Fails
          /\ SubGoto(p, "degrade") /\ Unsubscribe(p)
          /\ UNCHANGED orphan
    /\ UNCHANGED <<healthVars, invalidationReady>> /\ SubUnchanged

SubReady(p) ==
    /\ sub[p] = "flushed"
    /\ invalidationReady' = [invalidationReady EXCEPT ![p] = TRUE]
    /\ SubGoto(p, "receive")
    /\ UNCHANGED <<cacheVars, healthVars, busVars, orphan, faults>> /\ SubUnchanged

SubIgnoreOwn(p) ==
    /\ sub[p] = "receive"
    /\ \E m \in inbox[p] :
         /\ m.origin = p
         /\ inbox' = [inbox EXCEPT ![p] = @ \ {m}]
    /\ UNCHANGED <<cacheVars, healthVars, invalidationReady, sub, connected, orphan, faults>>
    /\ SubUnchanged

(* Mutant: a flush event is taken for the event of one key. *)
FlushOfOneKey(m) == {m.key}

EventKeys(m) == IF m.key = NoKey THEN Key ELSE {m.key}

(* applyInvalidation of an event of another instance. *)
SubApply(p) ==
    /\ sub[p] = "receive"
    /\ MutexFree(p) /\ ~Closed(p)
    /\ \E m \in inbox[p] :
         /\ m.origin # p
         /\ inbox' = [inbox EXCEPT ![p] = @ \ {m}]
         /\ BumpVersion(p)
         /\ \/ /\ l1' = [l1 EXCEPT ![p] = [k \in Key |-> IF k \in EventKeys(m) THEN 0 ELSE @[k]]]
               /\ Adopt(p, EventKeys(m))
               /\ UNCHANGED <<sub, faults>>
            \/ /\ FlushL1Fails
               /\ SubGoto(p, "broken")
               /\ UNCHANGED orphan
    /\ UNCHANGED <<healthVars, invalidationReady, connected>> /\ SubUnchanged

(* Receive fails: the connection is gone, or Close has cancelled the context *)
(* (applyInvalidation then fails too).                                       *)
SubReceiveErr(p) ==
    /\ sub[p] = "receive"
    /\ ~connected[p] \/ Closed(p)
    /\ SubGoto(p, "broken")
    /\ UNCHANGED <<cacheVars, healthVars, invalidationReady, busVars, orphan, faults>>
    /\ SubUnchanged

(* invalidationReady is withdrawn before the health state changes. *)
SubClose(p) ==
    /\ sub[p] = "broken"
    /\ Unsubscribe(p)
    /\ invalidationReady' = [invalidationReady EXCEPT ![p] = FALSE]
    /\ SubGoto(p, IF Closed(p) THEN "done" ELSE "degrade")
    /\ UNCHANGED <<cacheVars, healthVars, orphan, faults>> /\ SubUnchanged

(* degradeAndFlush holds neither of the two while it degrades. *)
SubDegrade(p) ==
    /\ sub[p] = "degrade"
    /\ TransitionToDegraded(p)
    /\ SubGoto(p, "flushing")
    /\ UNCHANGED <<cacheVars, invalidationReady, busVars, orphan, faults>> /\ SubUnchanged

SubDegradeFlush(p) ==
    /\ sub[p] = "emptying"
    /\ MutexFree(p)
    /\ IF Closed(p) THEN UNCHANGED <<l1, faults>> ELSE FlushL1Locked(p)
    /\ SubGoto(p, "wait")
    /\ UNCHANGED <<mutationVersion, healthVars, invalidationReady, busVars, orphan>>
    /\ SubUnchanged

SubRetry(p) ==
    /\ sub[p] = "wait" /\ ~Closed(p)
    /\ SubGoto(p, "start")
    /\ UNCHANGED <<cacheVars, healthVars, invalidationReady, busVars, orphan, faults>>
    /\ SubUnchanged

SubStop(p) ==
    /\ sub[p] \in {"start", "wait"} /\ Closed(p)
    /\ SubGoto(p, "done")
    /\ UNCHANGED <<cacheVars, healthVars, invalidationReady, busVars, orphan, faults>>
    /\ SubUnchanged

SubStep(p) ==
    \/ SubSubscribe(p) \/ SubSubscribeErr(p) \/ SubLock(p) \/ SubFlush(p) \/ SubReady(p)
    \/ SubIgnoreOwn(p) \/ SubApply(p) \/ SubReceiveErr(p) \/ SubClose(p)
    \/ SubDegrade(p) \/ SubDegradeFlush(p) \/ SubRetry(p) \/ SubStop(p)

--------------------------------------------------------------------------------
(* The recovery goroutine. *)

RecUnchanged == UNCHANGED <<redisVars, mutationVersion, healthEpoch, invalidationReady, life,
                            op, rd, sub, connected, historyVars, ops>>

RecSet(p, r) == rec' = [rec EXCEPT ![p] = r]

RecGoto(p, pc) == RecSet(p, [rec[p] EXCEPT !.pc = pc])

(* Mutant: recovery waits until nothing is left to publish. *)
RecoveryWhenPaid(p) == healthState[p] = "degraded" /\ invalidationReady[p]
                       /\ pendingInvalidations[p] = {}

RecoveryWanted(p) == healthState[p] = "degraded" /\ invalidationReady[p]

(* The select may take the ticker although Close has stopped recovery. *)
RecTick(p) ==
    /\ rec[p].pc = "idle"
    /\ RecoveryWanted(p)
    /\ RecGoto(p, "probe")
    /\ UNCHANGED <<l1, healthState, messageVars, faults>> /\ RecUnchanged

RecProbe(p) ==
    /\ rec[p].pc = "probe"
    /\ \/ RecGoto(p, "pending") /\ UNCHANGED faults
       \/ RecGoto(p, "idle") /\ Fault("l2")
    /\ UNCHANGED <<l1, healthState, messageVars>> /\ RecUnchanged

(* recoverPendingInvalidations, one PUBLISH per step, pendingMu held. *)
RecPublishFlush(p) ==
    /\ rec[p].pc = "pending" /\ pendingFlush[p]
    /\ \/ /\ Publish(p, NoKey)
          /\ pendingFlush' = [pendingFlush EXCEPT ![p] = FALSE]
          /\ RecGoto(p, "lock")
          /\ UNCHANGED <<pendingInvalidations, faults>>
       \/ /\ PublishFails(p, NoKey)
          /\ RecGoto(p, "idle")
          /\ UNCHANGED pendingVars
    /\ UNCHANGED <<l1, healthState>> /\ RecUnchanged

RecPublishKey(p) ==
    /\ rec[p].pc = "pending" /\ ~pendingFlush[p]
    /\ \E k \in pendingInvalidations[p] :
         \/ /\ Publish(p, k)
            /\ pendingInvalidations' = [pendingInvalidations EXCEPT ![p] = @ \ {k}]
            /\ UNCHANGED <<pendingFlush, rec, faults>>
         \/ /\ PublishFails(p, k)
            /\ RecGoto(p, "idle")
            /\ UNCHANGED pendingVars
    /\ UNCHANGED <<l1, healthState>> /\ RecUnchanged

(* Mutant: recovery goes on over what it has not published. *)
RecPublishedEarly(p) ==
    /\ rec[p].pc = "pending"
    /\ RecGoto(p, "lock")
    /\ UNCHANGED <<l1, healthState, messageVars, faults>> /\ RecUnchanged

RecPublished(p) ==
    /\ rec[p].pc = "pending" /\ ~pendingFlush[p] /\ pendingInvalidations[p] = {}
    /\ RecGoto(p, "lock")
    /\ UNCHANGED <<l1, healthState, messageVars, faults>> /\ RecUnchanged

(* recoveryMu is taken, the conditions are checked again, the epoch is read. *)
RecLock(p) ==
    /\ rec[p].pc = "lock" /\ RecoveryMuFree(p)
    /\ RecSet(p, IF RecoveryWanted(p) THEN [pc |-> "flush", epoch |-> healthEpoch[p]] ELSE RecIdle)
    /\ UNCHANGED <<l1, healthState, messageVars, faults>> /\ RecUnchanged

RecFlush(p) ==
    /\ rec[p].pc = "flush"
    /\ MutexFree(p)
    /\ \/ /\ ~Closed(p) /\ EmptyL1(p)
          /\ RecGoto(p, "enter")
          /\ UNCHANGED faults
       \/ /\ ~Closed(p) /\ FlushL1Fails
          /\ RecSet(p, RecIdle)
       \/ /\ Closed(p)
          /\ RecSet(p, RecIdle)
          /\ UNCHANGED <<l1, faults>>
    /\ UNCHANGED <<healthState, messageVars>> /\ RecUnchanged

(* Mutant: the subscription is not looked at again. *)
MayEnterWithoutBus(p) == healthState[p] = "degraded" /\ healthEpoch[p] = rec[p].epoch

(* Mutant: the epochs are compared the wrong way round. *)
MayEnterLater(p) == RecoveryWanted(p) /\ healthEpoch[p] < rec[p].epoch

(* Only if nobody degraded p since the epoch was read. *)
MayEnterHealthy(p) == RecoveryWanted(p) /\ healthEpoch[p] = rec[p].epoch

(* enterHealthy: the subscriber may withdraw invalidationReady, which no lock *)
(* guards, between the checks and the store.                                 *)
RecEnter(p) ==
    /\ rec[p].pc = "enter"
    /\ RecSet(p, IF MayEnterHealthy(p) THEN [rec[p] EXCEPT !.pc = "heal"] ELSE RecIdle)
    /\ UNCHANGED <<l1, healthState, messageVars, faults>> /\ RecUnchanged

RecHeal(p) ==
    /\ rec[p].pc = "heal"
    /\ healthState' = [healthState EXCEPT ![p] = "healthy"]
    /\ RecSet(p, RecIdle)
    /\ UNCHANGED <<l1, messageVars, faults>> /\ RecUnchanged

RecStop(p) ==
    /\ rec[p].pc = "idle" /\ Closed(p)
    /\ RecGoto(p, "done")
    /\ UNCHANGED <<l1, healthState, messageVars, faults>> /\ RecUnchanged

RecStep(p) ==
    \/ RecTick(p) \/ RecProbe(p) \/ RecPublishFlush(p) \/ RecPublishKey(p)
    \/ RecPublished(p) \/ RecLock(p) \/ RecFlush(p) \/ RecEnter(p) \/ RecHeal(p)
    \/ RecStop(p)

--------------------------------------------------------------------------------
(* Close, and what the world does. *)

(* Close waits for the readers; new ones queue behind it. *)
CloseBegin(p) ==
    /\ p \in Closers /\ life[p] = "open"
    /\ life' = [life EXCEPT ![p] = "waiting"]
    /\ UNCHANGED <<redisVars, cacheVars, healthVars, invalidationReady, pendingVars,
                   op, rd, sub, rec, busVars, historyVars, boundVars>>

CloseLocked(p) ==
    /\ life[p] = "waiting"
    /\ Reading(p) = {} /\ MutexFree(p)
    /\ life' = [life EXCEPT ![p] = "stopping"]
    /\ BumpVersion(p)
    /\ UNCHANGED <<redisVars, l1, healthVars, invalidationReady, pendingVars,
                   op, rd, sub, rec, busVars, historyVars, boundVars>>

(* Mutant: Close does not wait for the subscriber. *)
RecoveryStopped(p) == rec[p].pc = "done"

(* recoveryDone and invalidationDone are closed. *)
Stopped(p) == rec[p].pc = "done" /\ sub[p] = "done"

CloseEnd(p) ==
    /\ life[p] = "stopping"
    /\ Stopped(p)
    /\ life' = [life EXCEPT ![p] = "closed"]
    /\ UNCHANGED <<redisVars, cacheVars, healthVars, invalidationReady, pendingVars,
                   op, rd, sub, rec, busVars, historyVars, boundVars>>

CloseStep(p) == CloseLocked(p) \/ CloseEnd(p)

(* An entry of L1 expires or is evicted. *)
L1Drop(p) ==
    /\ \E k \in Key : l1[p][k] # 0 /\ l1' = [l1 EXCEPT ![p][k] = 0]
    /\ UNCHANGED <<redisVars, mutationVersion, healthVars, invalidationReady, pendingVars, life,
                   op, rd, sub, rec, busVars, historyVars, boundVars>>

(* The subscription breaks; what was delivered so far may be lost too. *)
Disconnect(p) ==
    /\ connected[p]
    /\ Fault("receive")
    /\ connected' = [connected EXCEPT ![p] = FALSE]
    /\ \E kept \in SUBSET inbox[p] : inbox' = [inbox EXCEPT ![p] = kept]
    /\ UNCHANGED <<redisVars, cacheVars, healthVars, invalidationReady, pendingVars, life,
                   op, rd, sub, rec, historyVars, ops>>

(* FLUSHDB by somebody else; CLIENT TRACKING makes a flush event of it. *)
ExternalFlush ==
    /\ Fault("external")
    /\ redis' = NoEntries
    /\ Publish(NoOrigin, NoKey)
    /\ UNCHANGED <<clock, cacheVars, healthVars, invalidationReady, pendingVars, life,
                   op, rd, sub, rec, connected, historyVars, ops>>

--------------------------------------------------------------------------------
(* Who still has to be told what. *)

Changed(p) == IF op[p].kind = "touch" THEN {} ELSE op[p].keys

(* Keys p has changed in Redis and not yet in its own L1. *)
Unapplied(p) ==
    CASE op[p].pc = "l2"               -> Changed(p) \ op[p].left
      [] op[p].pc \in {"bump", "store"} -> Changed(p)
      [] OTHER                         -> {}

(* Keys p has changed in Redis and not yet published. *)
Unannounced(p) ==
    CASE op[p].pc \in {"publish", "mark"} ->
           IF NoKey \in op[p].left THEN Key ELSE Changed(p) \cap op[p].left
      [] OTHER -> Unapplied(p)

(* Keys whose event p has failed to publish and has to retry. *)
Owed(p) == IF pendingFlush[p] THEN Key ELSE pendingInvalidations[p]

Restarted(f, p, value) == [f EXCEPT ![p] = value]

(* The process dies and a new one takes its place: New starts with an empty *)
(* L1, no pending invalidations and no subscription.                         *)
Crash(p) ==
    /\ life[p] # "closed"
    /\ Fault("crash")
    /\ LET lost == Inst \X (Unannounced(p) \cup Owed(p)) \X {p} IN
       orphan' = {o \in orphan \cup lost : o[1] # p}
    /\ l1' = Restarted(l1, p, NoEntries)
    /\ mutationVersion' = Restarted(mutationVersion, p, 0)
    /\ healthState' = Restarted(healthState, p, "healthy")
    /\ healthEpoch' = Restarted(healthEpoch, p, 0)
    /\ invalidationReady' = Restarted(invalidationReady, p, FALSE)
    /\ pendingInvalidations' = Restarted(pendingInvalidations, p, {})
    /\ pendingFlush' = Restarted(pendingFlush, p, FALSE)
    /\ life' = Restarted(life, p, "open")
    /\ op' = Restarted(op, p, OpIdle)
    /\ rd' = [g \in Reader |-> IF Home[g] = p THEN RdIdle ELSE rd[g]]
    /\ sub' = Restarted(sub, p, "start")
    /\ rec' = Restarted(rec, p, RecIdle)
    /\ Unsubscribe(p)
    /\ UNCHANGED <<redisVars, own, ops>>

--------------------------------------------------------------------------------
Init ==
    /\ redis \in [Key -> {0, 1}] /\ clock = 1
    /\ l1 = [p \in Inst |-> NoEntries]
    /\ mutationVersion = [p \in Inst |-> 0]
    /\ healthState = [p \in Inst |-> "healthy"]
    /\ healthEpoch = [p \in Inst |-> 0]
    /\ invalidationReady = [p \in Inst |-> FALSE]
    /\ pendingInvalidations = [p \in Inst |-> {}]
    /\ pendingFlush = [p \in Inst |-> FALSE]
    /\ life = [p \in Inst |-> "open"]
    /\ op = [p \in Inst |-> OpIdle]
    /\ rd = [g \in Reader |-> RdIdle]
    /\ sub = [p \in Inst |-> "start"]
    /\ rec = [p \in Inst |-> RecIdle]
    /\ connected = [p \in Inst |-> FALSE]
    /\ inbox = [p \in Inst |-> {}]
    /\ orphan = {}
    /\ own = [p \in Inst |-> NoEntries]
    /\ ops = 0 /\ faults = 0

SystemStep(p) == OpStep(p) \/ SubStep(p) \/ RecStep(p) \/ CloseStep(p)

Environment(p) == OpBegin(p) \/ CloseBegin(p) \/ L1Drop(p) \/ Disconnect(p) \/ Crash(p)

Next ==
    \/ \E p \in Inst : SystemStep(p) \/ Environment(p)
    \/ \E g \in Reader : RdBegin(g) \/ RdStep(g)
    \/ ExternalFlush

Spec == Init /\ [][Next]_vars

(* A goroutine that can go on does: the runtime schedules it, its timer     *)
(* fires, its Redis call returns.  Callers and the world owe nothing.        *)
Fairness ==
    /\ \A p \in Inst : /\ WF_vars(OpStep(p)) /\ WF_vars(SubStep(p))
                       /\ WF_vars(RecStep(p)) /\ WF_vars(CloseStep(p))
    /\ \A g \in Reader : WF_vars(RdStep(g))

FairSpec == Spec /\ Fairness

--------------------------------------------------------------------------------
OpPc  == {"idle", "l2", "bump", "store", "publish", "mark"}
RdPc  == {"idle", "top", "l1", "hit", "version", "l2", "warm", "ret"}
SubPc == {"start", "subscribed", "flushL1", "flushed", "receive", "broken", "degrade",
          "flushing", "emptying", "wait", "done"}
RecPc == {"idle", "probe", "pending", "lock", "flush", "enter", "heal", "done"}

OpType == [pc : OpPc, kind : AllKinds, keys : SUBSET Key, left : SUBSET (Key \cup {NoKey}),
           at : Nat, l1op : {"store", "forget", "touch", "flush"}, refused : BOOLEAN]
RdType == [pc : RdPc, many : BOOLEAN, keys : SUBSET Key, left : SUBSET Key, miss : SUBSET Key,
           got : [Key -> Nat], ver : Nat, l2 : [Key -> Nat], err : BOOLEAN]
RecType == [pc : RecPc, epoch : Nat]

(* The state has the shape the declarations of TieredCache give it. *)
TypeOK ==
    /\ redis \in [Key -> Nat] /\ clock \in Nat
    /\ l1 \in [Inst -> [Key -> Nat]]
    /\ mutationVersion \in [Inst -> Nat]
    /\ healthState \in [Inst -> {"healthy", "degraded"}]
    /\ healthEpoch \in [Inst -> Nat]
    /\ invalidationReady \in [Inst -> BOOLEAN]
    /\ pendingInvalidations \in [Inst -> SUBSET Key]
    /\ pendingFlush \in [Inst -> BOOLEAN]
    /\ life \in [Inst -> {"open", "waiting", "stopping", "closed"}]
    /\ op \in [Inst -> OpType]
    /\ rd \in [Reader -> RdType]
    /\ sub \in [Inst -> SubPc]
    /\ rec \in [Inst -> RecType]
    /\ connected \in [Inst -> BOOLEAN]
    /\ inbox \in [Inst -> SUBSET Message]
    /\ orphan \subseteq Inst \X Key \X Inst
    /\ own \in [Inst -> [Key -> Nat]]
    /\ ops \in Nat /\ faults \in Nat

Stale(p, k) == l1[p][k] # 0 /\ l1[p][k] # redis[k]

(* p is on the way to drop everything, or will be told of k. *)
WillHear(p, k) ==
    \/ ~connected[p]
    \/ sub[p] \notin {"flushed", "receive"}
    \/ \E m \in inbox[p] : m.origin # p /\ k \in EventKeys(m)
    \/ \E q \in Inst \ {p} : k \in Unannounced(q) \cup Owed(q)
    \/ k \in Unapplied(p)

OrphanedBy(p, k, origins) == \E q \in origins : <<p, k, q>> \in orphan

(* An instance that serves reads holds an outdated entry only while somebody *)
(* is still due to invalidate it: an event is on its way to it, the instance *)
(* that made the change has the event to publish or to retry, its own        *)
(* mutation is about to touch L1, or its subscription is known to be broken.  *)
(* The exceptions are the changes whose author died or never learnt that     *)
(* Redis had made them (orphan).                                             *)
Coherent ==
    \A p \in Inst, k \in Key :
        Available(p) /\ Stale(p, k) => WillHear(p, k) \/ OrphanedBy(p, k, Inst)

(* The same for the answer of Redis a reader has in hand: if nothing has     *)
(* bumped the version since it was asked for, either it is current or         *)
(* something still will invalidate it.                                        *)
FillsCoherent ==
    \A g \in Reader, k \in Key :
        LET p == Home[g] IN
        /\ rd[g].pc = "warm" /\ VersionCurrent(g)
        /\ rd[g].l2[k] \notin {0, redis[k]}
        => WillHear(p, k) \/ OrphanedBy(p, k, Inst)

(* Once a mutation of p has applied its change to L1, L1 never again holds   *)
(* a value older than it: not from a read in flight, not after a recovery.   *)
OwnWritesVisible ==
    \A p \in Inst, k \in Key :
        Available(p) /\ k \notin Unapplied(p) => l1[p][k] = 0 \/ l1[p][k] >= own[p][k]

(* What GetMany answers is not older than any mutation, of several keys or   *)
(* one, that its instance had made by then: it never mixes old and new       *)
(* values of a SetMany, although L1 is written key by key.                   *)
BatchNotTorn ==
    [][\A g \in Reader :
         rd[g].many /\ rd[g].pc # "ret" /\ rd'[g].pc = "ret"
         => \A k \in Key : rd'[g].got[k] = 0 \/ rd'[g].got[k] >= own'[Home[g]][k]]_vars

(* What the documents say and the code does not keep (see the findings):     *)
(* every change of Redis is announced to the other instances ...             *)
PeersAlwaysTold ==
    \A p \in Inst, k \in Key :
        Available(p) /\ Stale(p, k) => WillHear(p, k) \/ OrphanedBy(p, k, {p})

(* ... and a read in flight during a mutation of its own instance never      *)
(* leaves an outdated entry behind.                                          *)
OwnChangesNeverStale ==
    \A p \in Inst, k \in Key :
        Available(p) /\ Stale(p, k) => WillHear(p, k) \/ OrphanedBy(p, k, Inst \ {p})

(* An instance leaves the degraded state, unless it is restarted (and has no *)
(* subscription yet), only with an empty L1, no mutation half done, and a     *)
(* subscription in place, or one whose loss the subscriber is about to answer *)
(* by degrading it again.                                                    *)
HealthyStartsEmpty ==
    [][\A p \in Inst :
         healthState[p] = "degraded" /\ healthState'[p] = "healthy" /\ sub'[p] # "start"
         => /\ l1'[p] = NoEntries /\ op'[p] = OpIdle
            /\ invalidationReady'[p] \/ sub'[p] \in {"degrade", "done"}]_vars

(* While an instance serves reads it owes its peers no invalidation, given   *)
(* an L1 whose Flush does not fail.                                          *)
NothingOwedWhileAvailable ==
    \A p \in Inst : Available(p) => Owed(p) = {}

(* Nothing of the instance runs once Close has returned. *)
QuietAfterClose ==
    \A p \in Inst : life[p] = "closed" =>
        /\ MutexFree(p) /\ sub[p] = "done" /\ rec[p].pc = "done" /\ ~connected[p]
        /\ \A g \in Reading(p) : rd[g].pc = "top"

(* A degraded instance becomes available again, unless it is closed. *)
Recovers == \A p \in Inst : []<>(Available(p) \/ Closed(p))

(* An outdated entry does not stay for ever, unless it is orphaned. *)
StaleIsDropped ==
    \A p \in Inst, k \in Key :
        Stale(p, k) ~> (~Stale(p, k) \/ OrphanedBy(p, k, Inst) \/ Closed(p))

(* An event that could not be published is published later. *)
OwedIsPaid == \A p \in Inst : (Owed(p) # {}) ~> (Owed(p) = {} \/ Closed(p))

(* Every mutation and every read returns, and Close does. *)
CallsReturn ==
    /\ \A p \in Inst : op[p].pc # "idle" ~> op[p].pc = "idle"
    /\ \A g \in Reader : rd[g].pc # "idle" ~> rd[g].pc = "idle"
    /\ \A p \in Inst : life[p] = "waiting" ~> life[p] \in {"closed", "open"}
================================================================================
