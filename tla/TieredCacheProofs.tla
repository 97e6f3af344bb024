--------------------------- MODULE TieredCacheProofs ---------------------------
(* Proofs about TieredCache, for every value of its constants. *)
EXTENDS TieredCache, TLAPS

(***************************************************************************)
(* Typing.                                                                 *)
(***************************************************************************)

LEMMA IdleTypes == OpIdle \in OpType /\ RdIdle \in RdType /\ RecIdle \in RecType
  BY DEF OpIdle, OpType, OpPc, AllKinds, RdIdle, NoEntries, RdType, RdPc, RecIdle, RecType, RecPc

LEMMA OpSetType ==
  ASSUME op \in [Inst -> OpType], NEW p \in Inst, NEW r \in OpType, OpSet(p, r)
  PROVE  op' \in [Inst -> OpType]
  BY DEF OpSet

LEMMA RdSetType ==
  ASSUME rd \in [Reader -> RdType], NEW g \in Reader, NEW r \in RdType, RdSet(g, r)
  PROVE  rd' \in [Reader -> RdType]
  BY DEF RdSet

LEMMA RecSetType ==
  ASSUME rec \in [Inst -> RecType], NEW p \in Inst, NEW r \in RecType, RecSet(p, r)
  PROVE  rec' \in [Inst -> RecType]
  BY DEF RecSet

(* The fields a step of a mutation may change. *)
LEMMA OpFields ==
  ASSUME NEW r \in OpType, NEW pc \in OpPc, NEW left \in SUBSET (Key \cup {NoKey}),
         NEW l1op \in {"store", "forget", "touch", "flush"}, NEW at \in Nat
  PROVE  /\ [r EXCEPT !.pc = pc] \in OpType
         /\ [r EXCEPT !.left = left] \in OpType
         /\ [r EXCEPT !.left = left, !.refused = TRUE] \in OpType
         /\ [r EXCEPT !.pc = pc, !.left = left] \in OpType
         /\ [r EXCEPT !.pc = pc, !.l1op = l1op] \in OpType
         /\ [r EXCEPT !.pc = pc, !.left = left, !.l1op = l1op] \in OpType
         /\ [r EXCEPT !.pc = pc, !.at = at, !.l1op = l1op] \in OpType
<1>1. [r EXCEPT !.pc = pc] \in OpType
  BY DEF OpType
<1>2. [r EXCEPT !.left = left] \in OpType
  BY DEF OpType
<1>3. [r EXCEPT !.left = left, !.refused = TRUE] \in OpType
  BY DEF OpType
<1>4. [r EXCEPT !.pc = pc, !.left = left] \in OpType
  BY DEF OpType
<1>5. [r EXCEPT !.pc = pc, !.l1op = l1op] \in OpType
  BY DEF OpType
<1>6. [r EXCEPT !.pc = pc, !.left = left, !.l1op = l1op] \in OpType
  BY DEF OpType
<1>7. [r EXCEPT !.pc = pc, !.at = at, !.l1op = l1op] \in OpType
  BY DEF OpType
<1> QED BY <1>1, <1>2, <1>3, <1>4, <1>5, <1>6, <1>7

(* New builds a state of the declared shape. *)
LEMMA TypeInit == Init => TypeOK
  BY IdleTypes DEF Init, TypeOK, NoEntries, SubPc

(* What the shared helpers leave in the variables they assign. *)
LEMMA FaultType ==
  ASSUME TypeOK, NEW kind, Fault(kind)
  PROVE  faults' \in Nat
  BY DEF TypeOK, Fault

LEMMA DegradeType ==
  ASSUME TypeOK, NEW p \in Inst, TransitionToDegraded(p)
  PROVE  /\ healthState' \in [Inst -> {"healthy", "degraded"}]
         /\ healthEpoch' \in [Inst -> Nat]
<1>1. CASE healthState[p] = "degraded"
  BY <1>1 DEF TypeOK, TransitionToDegraded, healthVars
<1>2. CASE healthState[p] # "degraded"
  <2>1. healthState' \in [Inst -> {"healthy", "degraded"}]
    BY <1>2 DEF TypeOK, TransitionToDegraded
  <2>2. healthEpoch' \in [Inst -> Nat]
    <3>1. healthEpoch \in [Inst -> Nat] /\ healthEpoch' = [healthEpoch EXCEPT ![p] = @ + 1]
      BY <1>2 DEF TypeOK, TransitionToDegraded
    <3> QED
      BY <3>1
  <2> QED BY <2>1, <2>2
<1> QED BY <1>1, <1>2

LEMMA EmptyType ==
  ASSUME TypeOK, NEW p \in Inst, EmptyL1(p)
  PROVE  l1' \in [Inst -> [Key -> Nat]]
  BY DEF TypeOK, EmptyL1, NoEntries

LEMMA FlushType ==
  ASSUME TypeOK, NEW p \in Inst, FlushL1Locked(p)
  PROVE  l1' \in [Inst -> [Key -> Nat]] /\ faults' \in Nat
<1>1. CASE EmptyL1(p) /\ UNCHANGED faults
  BY <1>1, EmptyType DEF TypeOK
<1>2. CASE FlushL1Fails
  BY <1>2, FaultType DEF FlushL1Fails, TypeOK
<1> QED
  BY <1>1, <1>2 DEF FlushL1Locked

LEMMA OrphanType ==
  ASSUME TypeOK, NEW p \in Inst, NEW keys \in SUBSET Key
  PROVE  /\ Abandon(p, keys) => orphan' \subseteq Inst \X Key \X Inst
         /\ Adopt(p, keys) => orphan' \subseteq Inst \X Key \X Inst
  BY DEF TypeOK, Abandon, Adopt

LEMMA PublishType ==
  ASSUME TypeOK, NEW p \in Inst \cup {NoOrigin}, NEW k \in Key \cup {NoKey}
  PROVE  /\ Publish(p, k) => inbox' \in [Inst -> SUBSET Message]
         /\ PublishFails(p, k) => inbox' \in [Inst -> SUBSET Message] /\ faults' \in Nat
<1>1. Publish(p, k) => inbox' \in [Inst -> SUBSET Message]
  BY DEF TypeOK, Publish, Message
<1> QED
  BY <1>1, FaultType DEF PublishFails, TypeOK

LEMMA TypeOpBegin ==
  ASSUME TypeOK, NEW p \in Inst, OpBegin(p)
  PROVE  TypeOK'
<1>0. PICK kind \in Kinds : \E keys \in KeySets(kind) :
        OpSet(p, [OpIdle EXCEPT !.pc = "l2", !.kind = kind, !.keys = keys,
                                !.left = Matched(kind, keys), !.at = clock + 1])
  BY DEF OpBegin
<1>1. PICK keys \in KeySets(kind) :
        OpSet(p, [OpIdle EXCEPT !.pc = "l2", !.kind = kind, !.keys = keys,
                                !.left = Matched(kind, keys), !.at = clock + 1])
  BY <1>0
<1>2. kind \in AllKinds /\ keys \in SUBSET Key /\ clock + 1 \in Nat
  BY <1>1, TieredAssumption DEF KeySets, TypeOK
<1>3. [OpIdle EXCEPT !.pc = "l2", !.kind = kind, !.keys = keys, !.left = Matched(kind, keys),
                     !.at = clock + 1] \in OpType
  BY <1>2, IdleTypes DEF Matched, OpType, OpPc
<1>4. op' \in [Inst -> OpType]
  BY <1>1, <1>3, OpSetType DEF TypeOK
<1> QED
  BY <1>4 DEF OpBegin, TypeOK, OpUnchanged, redisVars, localVars, cacheVars, healthVars,
              messageVars, pendingVars, historyVars

LEMMA TypeOp ==
  ASSUME TypeOK, NEW p \in Inst, OpStep(p)
  PROVE  TypeOK'
<1> USE DEF OpUnchanged, redisVars, localVars, cacheVars, healthVars, messageVars, pendingVars,
            historyVars, boundVars
<1>a. /\ op \in [Inst -> OpType] /\ op[p] \in OpType
      /\ op[p].keys \in SUBSET Key /\ op[p].left \in SUBSET (Key \cup {NoKey})
      /\ op[p].at \in Nat /\ op[p].l1op \in {"store", "forget", "touch", "flush"}
      /\ clock + 1 \in Nat
  BY DEF TypeOK, OpType
<1>b. {"idle", "l2", "bump", "store", "publish", "mark"} = OpPc
  BY DEF OpPc
<1>1. CASE L2Commit(p)
  <2>1. L1Op(p) \in {"store", "forget", "touch", "flush"}
    BY DEF L1Op
  <2>2. [op[p] EXCEPT !.pc = "bump", !.at = clock + 1, !.l1op = L1Op(p)] \in OpType
    <3>1. op[p] \in OpType /\ clock + 1 \in Nat /\ "bump" \in OpPc
      BY <1>a, <1>b
    <3> QED
      BY ONLY <2>1, <3>1 DEF OpType
  <2>3. op' \in [Inst -> OpType]
    <3>1. OpSet(p, [op[p] EXCEPT !.pc = "bump", !.at = clock + 1, !.l1op = L1Op(p)])
      BY <1>1 DEF L2Commit
    <3> QED
      BY ONLY <1>a, <2>2, <3>1, OpSetType
  <2> QED
    BY <1>1, <1>a, <2>3 DEF L2Commit, Committed, Adopt, TypeOK
<1>2. CASE L2Reject(p)
  <2>1. op' \in [Inst -> OpType]
    BY <1>2, <1>a, OpSetType, IdleTypes DEF L2Reject
  <2> QED
    BY <1>2, <2>1 DEF L2Reject, TypeOK
<1>3. CASE FlushScan(p)
  <2>1. PICK k \in op[p].left \cap Key :
          /\ redis' = [redis EXCEPT ![k] = 0] /\ Adopt(p, {k})
          /\ OpSet(p, [op[p] EXCEPT !.left = @ \ {k}])
    BY <1>3 DEF FlushScan
  <2>2. op' \in [Inst -> OpType]
    BY <2>1, <1>a, <1>b, OpFields, OpSetType
  <2> QED
    BY <1>3, <2>1, <2>2 DEF FlushScan, Adopt, TypeOK
<1>4. CASE FlushScanned(p)
  <2>1. op' \in [Inst -> OpType]
    BY <1>4, <1>a, <1>b, OpFields, OpSetType DEF FlushScanned
  <2> QED
    BY <1>4, <2>1 DEF FlushScanned, TypeOK
<1>5. CASE L2Fail(p)
  <2>1. op' \in [Inst -> OpType]
    BY <1>5, <1>a, OpSetType, IdleTypes DEF L2Fail, GiveUp
  <2> QED
    BY <1>5, <1>a, <2>1, FaultType, OrphanType, DegradeType, EmptyType DEF L2Fail, GiveUp, TypeOK
<1>6. CASE L2LostReply(p)
  <2>1. op' \in [Inst -> OpType]
    BY <1>6, <1>a, OpSetType, IdleTypes DEF L2LostReply, GiveUp
  <2>2. redis' \in [Key -> Nat]
    BY <1>6, <1>a DEF L2LostReply, Committed, TypeOK
  <2> QED
    BY <1>6, <1>a, <2>1, <2>2, FaultType, OrphanType, DegradeType, EmptyType
       DEF L2LostReply, GiveUp, TypeOK
<1>7. CASE Bump(p)
  <2>1. PICK late \in BOOLEAN :
          OpSet(p, [op[p] EXCEPT !.pc = "store", !.left = op[p].keys,
                                 !.l1op = IF late /\ @ \in {"store", "touch"} THEN "forget" ELSE @])
    BY <1>7 DEF Bump
  <2>2. (IF late /\ op[p].l1op \in {"store", "touch"} THEN "forget" ELSE op[p].l1op)
          \in {"store", "forget", "touch", "flush"}
    BY <1>a
  <2>3. op' \in [Inst -> OpType]
    BY <2>1, <2>2, <1>a, <1>b, OpFields, OpSetType
  <2>4. mutationVersion' \in [Inst -> Nat]
    BY <1>7 DEF Bump, BumpVersion, TypeOK
  <2>5. own' \in [Inst -> [Key -> Nat]]
    BY <1>7, <1>a DEF Bump, TypeOK
  <2> QED
    BY <1>7, <2>3, <2>4, <2>5 DEF Bump, TypeOK
<1>8. CASE StoreKey(p)
  <2>1. PICK k \in op[p].left :
          \/ /\ l1' = [l1 EXCEPT ![p][k] = Stored(p, k)]
             /\ OpSet(p, [op[p] EXCEPT !.left = @ \ {k}])
             /\ UNCHANGED faults
          \/ /\ Fault("l1set")
             /\ OpSet(p, [op[p] EXCEPT !.left = @ \ {k}, !.refused = TRUE])
             /\ UNCHANGED l1
    BY <1>8 DEF StoreKey
  <2>2. op' \in [Inst -> OpType]
    BY <2>1, <1>a, <1>b, OpFields, OpSetType
  <2>3. l1' \in [Inst -> [Key -> Nat]]
    <3>1. CASE UNCHANGED l1
      BY <3>1 DEF TypeOK
    <3>2. CASE l1' = [l1 EXCEPT ![p][k] = Stored(p, k)] /\ k \in Key
      <4>1. Stored(p, k) \in Nat
        BY <1>8, <1>a, <3>2 DEF StoreKey, Stored, TypeOK
      <4> QED
        BY <3>2, <4>1 DEF TypeOK
    <3>3. CASE l1' = [l1 EXCEPT ![p][k] = Stored(p, k)] /\ k \notin Key
      <4>1. l1 \in [Inst -> [Key -> Nat]]
        BY DEF TypeOK
      <4>2. l1' = [l1 EXCEPT ![p] = [l1[p] EXCEPT ![k] = Stored(p, k)]]
        BY <3>3
      <4>3. [l1[p] EXCEPT ![k] = Stored(p, k)] = l1[p]
        BY <3>3, <4>1
      <4> QED
        BY <4>1, <4>2, <4>3
    <3> QED
      BY <2>1, <3>1, <3>2, <3>3
  <2> QED
    BY <1>8, <2>1, <2>2, <2>3 DEF StoreKey, Fault, TypeOK
<1>9. CASE Reconcile(p)
  <2>1. op' \in [Inst -> OpType]
    BY <1>9, <1>a, <1>b, OpFields, OpSetType DEF Reconcile
  <2> QED
    BY <1>9, <2>1, EmptyType, FaultType, DegradeType
       DEF Reconcile, Reconciled, FlushL1Fails, TypeOK
<1>10. CASE FlushStore(p)
  <2>1. op' \in [Inst -> OpType]
    BY <1>10, <1>a, <1>b, OpFields, OpSetType DEF FlushStore
  <2> QED
    BY <1>10, <2>1, EmptyType, FaultType, DegradeType DEF FlushStore, FlushL1Fails, TypeOK
<1>11. CASE OpPublish(p)
  <2>1. PICK k \in op[p].left :
          \/ /\ Publish(p, k)
             /\ OpSet(p, IF op[p].left = {k} THEN OpIdle ELSE [op[p] EXCEPT !.left = @ \ {k}])
             /\ UNCHANGED faults
          \/ /\ PublishFails(p, k)
             /\ OpSet(p, [op[p] EXCEPT !.pc = "mark"])
    BY <1>11 DEF OpPublish
  <2>2. op' \in [Inst -> OpType]
    BY <2>1, <1>a, <1>b, OpFields, OpSetType, IdleTypes
  <2>3. inbox' \in [Inst -> SUBSET Message] /\ faults' \in Nat
    BY <2>1, <1>a, PublishType DEF TypeOK
  <2> QED
    BY <1>11, <2>2, <2>3 DEF OpPublish, TypeOK
<1>12. CASE OpMark(p)
  <2>1. op' \in [Inst -> OpType]
    BY <1>12, <1>a, OpSetType, IdleTypes DEF OpMark
  <2>2. /\ pendingFlush' \in [Inst -> BOOLEAN]
        /\ pendingInvalidations' \in [Inst -> SUBSET Key]
    <3>1. /\ pendingFlush \in [Inst -> BOOLEAN]
          /\ pendingInvalidations \in [Inst -> SUBSET Key]
          /\ MarkPending(p)
      BY <1>12 DEF OpMark, TypeOK
    <3>2. pendingFlush' \in [Inst -> BOOLEAN]
      BY <3>1 DEF MarkPending
    <3>3. CASE op[p].kind = "flush"
      BY <3>1, <3>2, <3>3 DEF MarkPending
    <3>4. CASE op[p].kind # "flush"
      <4>1. pendingInvalidations' = [pendingInvalidations EXCEPT ![p] =
                                       IF pendingFlush[p] THEN @ ELSE @ \cup op[p].keys]
        BY <3>1, <3>4 DEF MarkPending
      <4> QED
        BY <1>a, <3>1, <3>2, <4>1
    <3> QED
      BY <3>3, <3>4
  <2> QED
    BY <1>12, <2>1, <2>2, DegradeType, FlushType DEF OpMark, TypeOK
<1>13. CASE FlushScanMarker(p)
  <2>1. op' \in [Inst -> OpType]
    BY <1>13, <1>a, <1>b, OpFields, OpSetType DEF FlushScanMarker
  <2>2. inbox' \in [Inst -> SUBSET Message]
    <3>1. [key |-> NoKey, origin |-> NoOrigin] \in Message
      BY DEF Message
    <3>2. PICK told \in SUBSET {q \in Inst : connected[q]} :
             inbox' = [q \in Inst |-> IF q \in told
                                     THEN inbox[q] \cup {[key |-> NoKey, origin |-> NoOrigin]}
                                     ELSE inbox[q]]
      BY <1>13 DEF FlushScanMarker
    <3>3. inbox \in [Inst -> SUBSET Message]
      BY DEF TypeOK
    <3> QED
      BY <3>1, <3>2, <3>3
  <2> QED
    BY <1>13, <2>1, <2>2 DEF FlushScanMarker, TypeOK
<1> QED
  BY <1>1, <1>2, <1>3, <1>4, <1>5, <1>6, <1>7, <1>8, <1>9, <1>10, <1>11, <1>12, <1>13 DEF OpStep

LEMMA TypeRdBegin ==
  ASSUME TypeOK, NEW g \in Reader, RdBegin(g)
  PROVE  TypeOK'
<1>0. PICK kind \in Reads :
        \E keys \in (IF kind = "getMany" THEN (SUBSET Key) \ {{}} ELSE {{k} : k \in Key}) :
          RdSet(g, [RdIdle EXCEPT !.pc = "top", !.many = (kind = "getMany"), !.keys = keys])
  BY DEF RdBegin
<1>1. PICK keys \in SUBSET Key :
        RdSet(g, [RdIdle EXCEPT !.pc = "top", !.many = (kind = "getMany"), !.keys = keys])
  BY <1>0
<1>2. [RdIdle EXCEPT !.pc = "top", !.many = (kind = "getMany"), !.keys = keys] \in RdType
  BY IdleTypes DEF RdType, RdPc
<1>3. rd' \in [Reader -> RdType]
  BY <1>1, <1>2, RdSetType DEF TypeOK
<1> QED
  BY <1>3 DEF RdBegin, TypeOK, RdUnchanged, redisVars, healthVars, pendingVars, busVars, historyVars

LEMMA TypeRd ==
  ASSUME TypeOK, NEW g \in Reader, RdStep(g)
  PROVE  TypeOK'
<1> USE DEF RdUnchanged, redisVars, healthVars, pendingVars, busVars, historyVars
<1> DEFINE p == Home[g]
<1>a. /\ p \in Inst /\ rd \in [Reader -> RdType] /\ rd[g] \in RdType
      /\ mutationVersion[p] \in Nat /\ l1[p] \in [Key -> Nat] /\ redis \in [Key -> Nat]
  BY TieredAssumption DEF TypeOK
<1>b. \A pc \in RdPc : [rd[g] EXCEPT !.pc = pc] \in RdType
  BY <1>a DEF RdType
<1>c. ASSUME NEW pc \in RdPc, RdGoto(g, pc) \/ RdAbort(g)
      PROVE  rd' \in [Reader -> RdType]
  BY <1>a, <1>b, <1>c, IdleTypes, RdSetType DEF RdGoto, RdAbort
<1>d. "top" \in RdPc /\ "ret" \in RdPc
  BY DEF RdPc
<1> HIDE DEF p
<1>1. CASE RdTop(g)
  <2>1. [RdIdle EXCEPT !.pc = "l1", !.many = rd[g].many, !.keys = rd[g].keys, !.left = rd[g].keys,
                       !.ver = IF rd[g].many THEN mutationVersion[p] ELSE 0] \in RdType
    BY <1>a, IdleTypes DEF RdType, RdPc
  <2>2. rd' \in [Reader -> RdType]
    BY <1>1, <1>a, <2>1, IdleTypes, RdSetType DEF RdTop, RdAbort, p
  <2> QED
    BY <1>1, <2>2 DEF RdTop, TypeOK
<1>2. CASE RdL1(g)
  <2>1. PICK k \in rd[g].left :
          LET miss == rd[g].miss \cup (IF l1[p][k] = 0 THEN {k} ELSE {})
              left == rd[g].left \ {k}
          IN  RdSet(g, [rd[g] EXCEPT !.pc = AfterL1(g, left, miss), !.left = left,
                                     !.miss = miss, !.got = [@ EXCEPT ![k] = l1[p][k]]])
    BY <1>2 DEF RdL1, p
  <2> DEFINE miss == rd[g].miss \cup (IF l1[p][k] = 0 THEN {k} ELSE {})
             left == rd[g].left \ {k}
  <2>2. /\ k \in Key /\ miss \in SUBSET Key /\ left \in SUBSET Key
        /\ [rd[g].got EXCEPT ![k] = l1[p][k]] \in [Key -> Nat]
    BY <1>a DEF RdType
  <2>3. AfterL1(g, left, miss) \in RdPc
    BY DEF AfterL1, RdPc
  <2> HIDE DEF miss, left
  <2>4. [rd[g] EXCEPT !.pc = AfterL1(g, left, miss), !.left = left, !.miss = miss,
                      !.got = [@ EXCEPT ![k] = l1[p][k]]] \in RdType
    BY <1>a, <2>2, <2>3 DEF RdType
  <2>5. rd' \in [Reader -> RdType]
    BY <1>a, <2>1, <2>4, RdSetType DEF miss, left
  <2> QED
    BY <1>2, <2>5 DEF RdL1, TypeOK
<1>3. CASE RdHit(g)
  <2>1. rd' \in [Reader -> RdType]
    BY <1>3, <1>c, <1>d DEF RdHit
  <2> QED
    BY <1>3, <2>1 DEF RdHit, TypeOK
<1>4. CASE RdVersion(g)
  <2>1. [rd[g] EXCEPT !.pc = "l2", !.ver = mutationVersion[p]] \in RdType
    BY <1>a DEF RdType, RdPc
  <2>2. rd' \in [Reader -> RdType]
    BY <1>4, <1>a, <2>1, RdSetType DEF RdVersion, p
  <2> QED
    BY <1>4, <2>2 DEF RdVersion, TypeOK
<1>5. CASE RdL2(g)
  <2>1. [rd[g] EXCEPT !.pc = "warm", !.l2 = [k \in Key |-> IF k \in rd[g].miss THEN redis[k] ELSE 0]]
          \in RdType
    BY <1>a DEF RdType, RdPc
  <2>2. [rd[g] EXCEPT !.pc = "warm", !.err = TRUE] \in RdType
    BY <1>a DEF RdType, RdPc
  <2>3. rd' \in [Reader -> RdType]
    BY <1>5, <1>a, <2>1, <2>2, RdSetType DEF RdL2
  <2> QED
    BY <1>5, <2>3, FaultType DEF RdL2, TypeOK
<1>6. CASE RdWarm(g)
  <2>1. CASE Warm(g) /\ UNCHANGED <<healthVars, faults>>
    <3> DEFINE fresh == {k \in rd[g].miss : l1[p][k] = 0 /\ rd[g].l2[k] # 0}
    <3>1. PICK late \in SUBSET fresh, skipped \in SUBSET fresh :
            /\ l1' = [l1 EXCEPT ![p] = [k \in Key |->
                        IF k \in fresh \ (late \cup skipped) THEN rd[g].l2[k] ELSE @[k]]]
            /\ RdSet(g, [rd[g] EXCEPT !.pc = "ret",
                        !.got = [k \in Key |-> IF k \notin rd[g].miss THEN rd[g].got[k]
                                               ELSE IF l1[p][k] # 0 THEN l1[p][k]
                                               ELSE IF k \in late THEN 0
                                               ELSE rd[g].l2[k]]])
      BY <2>1 DEF Warm, p
    <3> HIDE DEF fresh
    <3>2. rd[g].l2 \in [Key -> Nat] /\ rd[g].got \in [Key -> Nat]
      BY <1>a DEF RdType
    <3>3. l1' \in [Inst -> [Key -> Nat]]
      BY <1>a, <3>1, <3>2 DEF TypeOK
    <3>4. [rd[g] EXCEPT !.pc = "ret",
                        !.got = [k \in Key |-> IF k \notin rd[g].miss THEN rd[g].got[k]
                                               ELSE IF l1[p][k] # 0 THEN l1[p][k]
                                               ELSE IF k \in late THEN 0
                                               ELSE rd[g].l2[k]]] \in RdType
      BY <1>a, <3>2 DEF RdType, RdPc
    <3>5. rd' \in [Reader -> RdType]
      BY <1>a, <3>1, <3>4, RdSetType
    <3> QED
      BY <1>6, <2>1, <3>3, <3>5 DEF RdWarm, TypeOK
  <2>2. CASE (RdGoto(g, "top") \/ RdAbort(g)) /\ UNCHANGED <<l1, healthVars, faults>>
    <3>1. rd' \in [Reader -> RdType]
      BY <2>2, <1>c, <1>d
    <3> QED
      BY <1>6, <2>2, <3>1 DEF RdWarm, TypeOK
  <2>3. CASE TransitionToDegraded(p) /\ FlushL1Locked(p) /\ RdAbort(g)
    <3>1. rd' \in [Reader -> RdType]
      BY <2>3, <1>c, <1>d
    <3> QED
      BY <1>6, <1>a, <2>3, <3>1, DegradeType, FlushType DEF RdWarm, TypeOK
  <2> QED
    BY <1>6, <2>1, <2>2, <2>3 DEF RdWarm, p
<1>7. CASE RdReturn(g)
  <2>1. rd' \in [Reader -> RdType]
    BY <1>7, <1>c, <1>d DEF RdReturn
  <2> QED
    BY <1>7, <2>1 DEF RdReturn, TypeOK
<1> QED
  BY <1>1, <1>2, <1>3, <1>4, <1>5, <1>6, <1>7 DEF RdStep

LEMMA TypeSub ==
  ASSUME TypeOK, NEW p \in Inst, SubStep(p)
  PROVE  TypeOK'
<1> USE DEF SubUnchanged, redisVars, cacheVars, healthVars, pendingVars, busVars
<1>a. ASSUME NEW pc \in SubPc, SubGoto(p, pc)
      PROVE  sub' \in [Inst -> SubPc]
  BY <1>a DEF SubGoto, TypeOK
<1>b. ASSUME Unsubscribe(p)
      PROVE  connected' \in [Inst -> BOOLEAN] /\ inbox' \in [Inst -> SUBSET Message]
  BY <1>b DEF Unsubscribe, TypeOK
<1>c. ASSUME BumpVersion(p)
      PROVE  mutationVersion' \in [Inst -> Nat]
  BY <1>c DEF BumpVersion, TypeOK
<1>d. SubPc = {"start", "subscribed", "flushL1", "flushed", "receive", "broken", "degrade",
               "flushing", "emptying", "wait", "done"}
  BY DEF SubPc
<1>1. CASE SubSubscribe(p)
  <2>1. sub' \in [Inst -> SubPc]
    BY <1>1, <1>a, <1>d DEF SubSubscribe
  <2> QED
    BY <1>1, <2>1 DEF SubSubscribe, TypeOK
<1>2. CASE SubSubscribeErr(p)
  <2>1. sub' \in [Inst -> SubPc]
    BY <1>2, <1>a, <1>d DEF SubSubscribeErr
  <2> QED
    BY <1>2, <2>1, FaultType DEF SubSubscribeErr, TypeOK
<1>3. CASE SubFlush(p)
  <2>1. sub' \in [Inst -> SubPc]
    BY <1>3, <1>a, <1>d DEF SubFlush
  <2>2. CASE SubGoto(p, "done") /\ Unsubscribe(p) /\ UNCHANGED <<cacheVars, orphan, faults>>
    BY <1>3, <1>b, <2>1, <2>2 DEF SubFlush, TypeOK
  <2>3. CASE BumpVersion(p) /\ EmptyL1(p) /\ Adopt(p, Key) /\ UNCHANGED <<busVars, faults>>
    BY <1>3, <1>c, <2>1, <2>3, EmptyType, OrphanType DEF SubFlush, TypeOK
  <2>4. CASE BumpVersion(p) /\ FlushL1Fails /\ Unsubscribe(p) /\ UNCHANGED orphan
    BY <1>3, <1>b, <1>c, <2>1, <2>4, FaultType DEF SubFlush, FlushL1Fails, TypeOK
  <2> QED
    BY <1>3, <2>2, <2>3, <2>4 DEF SubFlush
<1>4. CASE SubReady(p)
  <2>1. sub' \in [Inst -> SubPc]
    BY <1>4, <1>a, <1>d DEF SubReady
  <2> QED
    BY <1>4, <2>1 DEF SubReady, TypeOK
<1>5. CASE SubIgnoreOwn(p)
  <2>1. inbox' \in [Inst -> SUBSET Message]
    BY <1>5 DEF SubIgnoreOwn, TypeOK
  <2> QED
    BY <1>5, <2>1 DEF SubIgnoreOwn, TypeOK
<1>6. CASE SubApply(p)
  <2>1. PICK m \in inbox[p] :
          /\ inbox' = [inbox EXCEPT ![p] = @ \ {m}]
          /\ BumpVersion(p)
          /\ \/ /\ l1' = [l1 EXCEPT ![p] = [k \in Key |-> IF k \in EventKeys(m) THEN 0 ELSE @[k]]]
                /\ Adopt(p, EventKeys(m))
                /\ UNCHANGED <<sub, faults>>
             \/ /\ FlushL1Fails
                /\ SubGoto(p, "broken")
                /\ UNCHANGED orphan
    BY <1>6 DEF SubApply
  <2>2. inbox' \in [Inst -> SUBSET Message] /\ mutationVersion' \in [Inst -> Nat]
    BY <1>c, <2>1 DEF TypeOK
  <2>3. EventKeys(m) \in SUBSET Key
    BY DEF EventKeys, Message, TypeOK
  <2>4. CASE /\ l1' = [l1 EXCEPT ![p] = [k \in Key |-> IF k \in EventKeys(m) THEN 0 ELSE @[k]]]
             /\ Adopt(p, EventKeys(m))
             /\ UNCHANGED <<sub, faults>>
    <3>1. l1' \in [Inst -> [Key -> Nat]]
      BY <2>4 DEF TypeOK
    <3> QED
      BY <1>6, <2>2, <2>3, <2>4, <3>1, OrphanType DEF SubApply, TypeOK
  <2>5. CASE FlushL1Fails /\ SubGoto(p, "broken") /\ UNCHANGED orphan
    <3>1. sub' \in [Inst -> SubPc]
      BY <1>a, <1>d, <2>5
    <3> QED
      BY <1>6, <2>2, <2>5, <3>1, FaultType DEF SubApply, FlushL1Fails, TypeOK
  <2> QED
    BY <2>1, <2>4, <2>5
<1>7. CASE SubReceiveErr(p)
  <2>1. sub' \in [Inst -> SubPc]
    BY <1>7, <1>a, <1>d DEF SubReceiveErr
  <2> QED
    BY <1>7, <2>1 DEF SubReceiveErr, TypeOK
<1>8. CASE SubClose(p)
  <2>1. sub' \in [Inst -> SubPc]
    BY <1>8, <1>a, <1>d DEF SubClose
  <2> QED
    BY <1>8, <1>b, <2>1 DEF SubClose, TypeOK
<1>9. CASE SubDegrade(p)
  <2>1. sub' \in [Inst -> SubPc]
    BY <1>9, <1>a, <1>d DEF SubDegrade
  <2> QED
    BY <1>9, <2>1, DegradeType DEF SubDegrade, TypeOK
<1>10. CASE SubDegradeFlush(p)
  <2>1. sub' \in [Inst -> SubPc]
    BY <1>10, <1>a, <1>d DEF SubDegradeFlush
  <2> QED
    BY <1>10, <2>1, FlushType DEF SubDegradeFlush, TypeOK
<1>11. CASE SubRetry(p)
  <2>1. sub' \in [Inst -> SubPc]
    BY <1>11, <1>a, <1>d DEF SubRetry
  <2> QED
    BY <1>11, <2>1 DEF SubRetry, TypeOK
<1>12. CASE SubStop(p)
  <2>1. sub' \in [Inst -> SubPc]
    BY <1>12, <1>a, <1>d DEF SubStop
  <2> QED
    BY <1>12, <2>1 DEF SubStop, TypeOK
<1>13. CASE SubLock(p)
  <2>1. sub' \in [Inst -> SubPc]
    BY <1>13, <1>a, <1>d DEF SubLock
  <2> QED
    BY <1>13, <2>1 DEF SubLock, TypeOK
<1> QED
  BY <1>1, <1>2, <1>3, <1>4, <1>5, <1>6, <1>7, <1>8, <1>9, <1>10, <1>11, <1>12, <1>13 DEF SubStep

LEMMA TypeRec ==
  ASSUME TypeOK, NEW p \in Inst, RecStep(p)
  PROVE  TypeOK'
<1> USE DEF RecUnchanged, redisVars, pendingVars, messageVars, historyVars
<1>a. /\ rec \in [Inst -> RecType] /\ rec[p] \in RecType /\ healthEpoch[p] \in Nat
      /\ RecPc = {"idle", "probe", "pending", "lock", "flush", "enter", "heal", "done"}
  BY DEF TypeOK, RecPc
<1>b. ASSUME NEW pc \in RecPc, RecGoto(p, pc)
      PROVE  rec' \in [Inst -> RecType]
  <2>1. [rec[p] EXCEPT !.pc = pc] \in RecType
    BY <1>a DEF RecType
  <2> QED
    BY <1>a, <1>b, <2>1, RecSetType DEF RecGoto
<1>c. ASSUME RecSet(p, RecIdle)
      PROVE  rec' \in [Inst -> RecType]
  BY <1>a, <1>c, IdleTypes, RecSetType
<1>1. CASE RecTick(p)
  BY <1>1, <1>a, <1>b DEF RecTick, TypeOK
<1>2. CASE RecProbe(p)
  <2>1. rec' \in [Inst -> RecType]
    BY <1>2, <1>a, <1>b DEF RecProbe
  <2> QED
    BY <1>2, <2>1, FaultType DEF RecProbe, TypeOK
<1>3. CASE RecPublishFlush(p)
  <2>1. rec' \in [Inst -> RecType]
    BY <1>3, <1>a, <1>b DEF RecPublishFlush
  <2>2. inbox' \in [Inst -> SUBSET Message] /\ faults' \in Nat
    BY <1>3, PublishType DEF RecPublishFlush, TypeOK
  <2>3. pendingFlush' \in [Inst -> BOOLEAN] /\ pendingInvalidations' \in [Inst -> SUBSET Key]
    BY <1>3 DEF RecPublishFlush, TypeOK
  <2> QED
    BY <1>3, <2>1, <2>2, <2>3 DEF RecPublishFlush, TypeOK
<1>4. CASE RecPublishKey(p)
  <2>1. PICK k \in pendingInvalidations[p] :
         \/ /\ Publish(p, k)
            /\ pendingInvalidations' = [pendingInvalidations EXCEPT ![p] = @ \ {k}]
            /\ UNCHANGED <<pendingFlush, rec, faults>>
         \/ /\ PublishFails(p, k)
            /\ RecGoto(p, "idle")
            /\ UNCHANGED pendingVars
    BY <1>4 DEF RecPublishKey
  <2>2. rec' \in [Inst -> RecType]
    BY <2>1, <1>a, <1>b
  <2>3. k \in Key \cup {NoKey}
    BY DEF TypeOK
  <2>4. inbox' \in [Inst -> SUBSET Message] /\ faults' \in Nat
    BY <2>1, <2>3, PublishType DEF TypeOK
  <2>5. pendingFlush \in [Inst -> BOOLEAN] /\ pendingInvalidations \in [Inst -> SUBSET Key]
    BY DEF TypeOK
  <2>6. [pendingInvalidations EXCEPT ![p] = @ \ {k}] \in [Inst -> SUBSET Key]
    BY <2>5
  <2>7. pendingFlush' \in [Inst -> BOOLEAN] /\ pendingInvalidations' \in [Inst -> SUBSET Key]
    BY <2>1, <2>5, <2>6
  <2> QED
    BY <1>4, <2>2, <2>4, <2>7 DEF RecPublishKey, TypeOK
<1>5. CASE RecPublished(p)
  BY <1>5, <1>a, <1>b DEF RecPublished, TypeOK
<1>6. CASE RecLock(p)
  <2>1. [pc |-> "flush", epoch |-> healthEpoch[p]] \in RecType
    BY <1>a DEF RecType
  <2>2. rec' \in [Inst -> RecType]
    BY <1>6, <1>a, <2>1, IdleTypes, RecSetType DEF RecLock
  <2> QED
    BY <1>6, <2>2 DEF RecLock, TypeOK
<1>7. CASE RecFlush(p)
  <2>1. rec' \in [Inst -> RecType]
    BY <1>7, <1>a, <1>b, <1>c DEF RecFlush
  <2>2. l1' \in [Inst -> [Key -> Nat]] /\ faults' \in Nat
    BY <1>7, EmptyType, FaultType DEF RecFlush, FlushL1Fails, TypeOK
  <2> QED
    BY <1>7, <2>1, <2>2 DEF RecFlush, TypeOK
<1>8. CASE RecEnter(p)
  <2>1. [rec[p] EXCEPT !.pc = "heal"] \in RecType
    BY <1>a DEF RecType
  <2>2. rec' \in [Inst -> RecType]
    BY <1>8, <1>a, <2>1, IdleTypes, RecSetType DEF RecEnter
  <2> QED
    BY <1>8, <2>2 DEF RecEnter, TypeOK
<1>9. CASE RecStop(p)
  BY <1>9, <1>a, <1>b DEF RecStop, TypeOK
<1>10. CASE RecHeal(p)
  <2>1. rec' \in [Inst -> RecType]
    BY <1>10, <1>c DEF RecHeal
  <2> QED
    BY <1>10, <2>1 DEF RecHeal, TypeOK
<1> QED
  BY <1>1, <1>2, <1>3, <1>4, <1>5, <1>6, <1>7, <1>8, <1>9, <1>10 DEF RecStep

(* Close, and the steps nobody in the instance takes. *)
LEMMA TypeWorld ==
  ASSUME TypeOK, NEW p \in Inst,
         CloseBegin(p) \/ CloseStep(p) \/ L1Drop(p) \/ Disconnect(p)
  PROVE  TypeOK'
<1> USE DEF redisVars, cacheVars, healthVars, pendingVars, busVars, historyVars, boundVars
<1>1. CASE CloseBegin(p)
  BY <1>1 DEF CloseBegin, TypeOK
<1>2. CASE CloseStep(p)
  <2>1. CASE CloseLocked(p)
    <3>1. mutationVersion' \in [Inst -> Nat]
      BY <2>1 DEF CloseLocked, BumpVersion, TypeOK
    <3> QED
      BY <2>1, <3>1 DEF CloseLocked, TypeOK
  <2>2. CASE CloseEnd(p)
    BY <2>2 DEF CloseEnd, TypeOK
  <2> QED
    BY <1>2, <2>1, <2>2 DEF CloseStep
<1>3. CASE L1Drop(p)
  <2>1. l1' \in [Inst -> [Key -> Nat]]
    BY <1>3 DEF L1Drop, TypeOK
  <2> QED
    BY <1>3, <2>1 DEF L1Drop, TypeOK
<1>4. CASE Disconnect(p)
  <2>1. inbox' \in [Inst -> SUBSET Message] /\ connected' \in [Inst -> BOOLEAN]
    BY <1>4 DEF Disconnect, TypeOK
  <2> QED
    BY <1>4, <2>1, FaultType DEF Disconnect, TypeOK
<1> QED
  BY <1>1, <1>2, <1>3, <1>4

LEMMA TypeCrash ==
  ASSUME TypeOK, NEW p \in Inst, Crash(p)
  PROVE  TypeOK'
<1>1. Unannounced(p) \cup Owed(p) \in SUBSET Key
  BY DEF Unannounced, Unapplied, Changed, Owed, TypeOK, OpType
<1>2. orphan' \subseteq Inst \X Key \X Inst
  <2> DEFINE lost == Inst \X (Unannounced(p) \cup Owed(p)) \X {p}
  <2>1. lost \subseteq Inst \X Key \X Inst
    BY <1>1
  <2>2. orphan' = {o \in orphan \cup lost : o[1] # p}
    BY DEF Crash
  <2> QED
    BY <2>1, <2>2 DEF TypeOK
<1>3. op' \in [Inst -> OpType] /\ rec' \in [Inst -> RecType]
  BY IdleTypes DEF Crash, Restarted, TypeOK
<1>4. rd' \in [Reader -> RdType]
  BY IdleTypes DEF Crash, TypeOK
<1>5. /\ l1' \in [Inst -> [Key -> Nat]] /\ mutationVersion' \in [Inst -> Nat]
      /\ healthState' \in [Inst -> {"healthy", "degraded"}] /\ healthEpoch' \in [Inst -> Nat]
      /\ invalidationReady' \in [Inst -> BOOLEAN]
  BY DEF Crash, Restarted, NoEntries, TypeOK
<1>6. /\ pendingInvalidations' \in [Inst -> SUBSET Key] /\ pendingFlush' \in [Inst -> BOOLEAN]
      /\ life' \in [Inst -> {"open", "waiting", "stopping", "closed"}] /\ sub' \in [Inst -> SubPc]
      /\ connected' \in [Inst -> BOOLEAN] /\ inbox' \in [Inst -> SUBSET Message]
  BY DEF Crash, Restarted, Unsubscribe, SubPc, TypeOK
<1> QED
  BY <1>2, <1>3, <1>4, <1>5, <1>6, FaultType DEF Crash, TypeOK, redisVars

(* Every step keeps the shape of the state. *)
LEMMA TypeNext == TypeOK /\ [Next]_vars => TypeOK'
<1> SUFFICES ASSUME TypeOK, [Next]_vars PROVE TypeOK'
  OBVIOUS
<1>1. CASE UNCHANGED vars
  BY <1>1 DEF TypeOK, vars, redisVars, cacheVars, healthVars, pendingVars, busVars, historyVars,
              boundVars
<1>2. ASSUME NEW p \in Inst, SystemStep(p) PROVE TypeOK'
  BY <1>2, TypeOp, TypeSub, TypeRec, TypeWorld DEF SystemStep
<1>3. ASSUME NEW p \in Inst, Environment(p) PROVE TypeOK'
  BY <1>3, TypeOpBegin, TypeWorld, TypeCrash DEF Environment
<1>4. ASSUME NEW g \in Reader, RdBegin(g) \/ RdStep(g) PROVE TypeOK'
  BY <1>4, TypeRdBegin, TypeRd
<1>5. CASE ExternalFlush
  <2>1. inbox' \in [Inst -> SUBSET Message]
    BY <1>5, PublishType DEF ExternalFlush
  <2> QED
    BY <1>5, <2>1, FaultType DEF ExternalFlush, NoEntries, TypeOK, cacheVars, healthVars,
                                 pendingVars, historyVars
<1> QED
  BY <1>1, <1>2, <1>3, <1>4, <1>5 DEF Next

(* In every reachable state the variables have the shape TypeOK declares,    *)
(* for any number of instances, readers and keys.                            *)
THEOREM TypeCorrect == Spec => []TypeOK
<1>1. Init => TypeOK
  BY TypeInit
<1>2. TypeOK /\ [Next]_vars => TypeOK'
  BY TypeNext
<1> QED
  BY <1>1, <1>2, PTL DEF Spec

--------------------------------------------------------------------------------
(* What TieredCache keeps safe: recovery starts from an empty L1, Close leaves *)
(* nothing running, and an instance that serves reads has no value older than  *)
(* its own mutations and owes its peers no invalidation.                      *)

(***************************************************************************)
(* What the steps of each goroutine leave alone.                           *)
(***************************************************************************)

LEMMA Degraded ==
  ASSUME TypeOK, NEW p \in Inst, TransitionToDegraded(p)
  PROVE  /\ healthState'[p] = "degraded"
         /\ \A q \in Inst \ {p} : healthState'[q] = healthState[q]
  BY DEF TransitionToDegraded, TypeOK, healthVars

LEMMA Emptied ==
  ASSUME TypeOK, NEW p \in Inst, EmptyL1(p)
  PROVE  l1'[p] = NoEntries /\ \A q \in Inst \ {p} : l1'[q] = l1[q]
  BY DEF EmptyL1, TypeOK

LEMMA Flushed ==
  ASSUME TypeOK, NEW p \in Inst, FlushL1Locked(p)
  PROVE  l1'[p] \in {NoEntries, l1[p]} /\ \A q \in Inst \ {p} : l1'[q] = l1[q]
  BY Emptied DEF FlushL1Locked, FlushL1Fails, TypeOK

(* A mutation never leaves its own instance, nor makes it healthy. *)
LEMMA OpFrame ==
  ASSUME TypeOK, NEW p \in Inst, OpStep(p)
  PROVE  /\ UNCHANGED <<life, rd, sub, rec, connected, invalidationReady>>
         /\ op[p].pc # "idle"
         /\ op'[p].pc = "idle" => op'[p] = OpIdle
         /\ \A q \in Inst \ {p} : op'[q] = op[q] /\ l1'[q] = l1[q] /\ healthState'[q] = healthState[q]
         /\ healthState'[p] \in {healthState[p], "degraded"}
<1> USE DEF OpUnchanged, localVars, cacheVars, healthVars, boundVars
<1>a. op \in [Inst -> OpType] /\ l1 \in [Inst -> [Key -> Nat]] /\ op[p] \in OpType
  BY DEF TypeOK
<1>b. ASSUME NEW r, OpSet(p, r)
      PROVE  op'[p] = r /\ \A q \in Inst \ {p} : op'[q] = op[q]
  BY <1>a, <1>b DEF OpSet
<1>1. CASE L2Commit(p)
  <2>1. op'[p] = [op[p] EXCEPT !.pc = "bump", !.at = clock + 1, !.l1op = L1Op(p)]
        /\ \A q \in Inst \ {p} : op'[q] = op[q]
    BY <1>1, <1>b DEF L2Commit
  <2>2. op'[p].pc = "bump"
    BY <1>a, <2>1 DEF OpType
  <2> QED
    BY <1>1, <2>1, <2>2 DEF L2Commit
<1>2. CASE L2Reject(p)
  BY <1>2, <1>b DEF L2Reject
<1>3. CASE FlushScan(p)
  <2>1. PICK k \in Key : OpSet(p, [op[p] EXCEPT !.left = @ \ {k}])
    BY <1>3 DEF FlushScan
  <2>2. op'[p] = [op[p] EXCEPT !.left = @ \ {k}] /\ \A q \in Inst \ {p} : op'[q] = op[q]
    BY <2>1, <1>b
  <2>3. op'[p].pc = "l2"
    BY <1>3, <1>a, <2>2 DEF OpType, FlushScan
  <2> QED
    BY <1>3, <2>2, <2>3 DEF FlushScan
<1>4. CASE FlushScanMarker(p)
  <2>1. op'[p] = [op[p] EXCEPT !.left = @ \ {NoKey}] /\ \A q \in Inst \ {p} : op'[q] = op[q]
    BY <1>4, <1>b DEF FlushScanMarker
  <2>2. op'[p].pc = "l2"
    BY <1>4, <1>a, <2>1 DEF OpType, FlushScanMarker
  <2> QED
    BY <1>4, <2>1, <2>2 DEF FlushScanMarker
<1>5. CASE FlushScanned(p)
  <2>1. op'[p] = [op[p] EXCEPT !.pc = "bump", !.l1op = "flush"] /\ \A q \in Inst \ {p} : op'[q] = op[q]
    BY <1>5, <1>b DEF FlushScanned
  <2>2. op'[p].pc = "bump"
    BY <1>a, <2>1 DEF OpType
  <2> QED
    BY <1>5, <2>1, <2>2 DEF FlushScanned
<1>6. CASE L2Fail(p) \/ L2LostReply(p)
  <2>1. GiveUp(p) /\ op[p].pc = "l2"
    BY <1>6 DEF L2Fail, L2LostReply
  <2>2. op'[p] = OpIdle /\ \A q \in Inst \ {p} : op'[q] = op[q]
    BY <2>1, <1>b DEF GiveUp
  <2>3. \A q \in Inst \ {p} : l1'[q] = l1[q]
    BY <2>1, Emptied DEF GiveUp
  <2>4. healthState'[p] = "degraded" /\ \A q \in Inst \ {p} : healthState'[q] = healthState[q]
    BY <2>1, Degraded DEF GiveUp
  <2> QED
    BY <2>1, <2>2, <2>3, <2>4 DEF GiveUp
<1>7. CASE Bump(p)
  <2>1. PICK late \in BOOLEAN :
          OpSet(p, [op[p] EXCEPT !.pc = "store", !.left = op[p].keys,
                                 !.l1op = IF late /\ @ \in {"store", "touch"} THEN "forget" ELSE @])
    BY <1>7 DEF Bump
  <2>2. /\ op'[p] = [op[p] EXCEPT !.pc = "store", !.left = op[p].keys,
                       !.l1op = IF late /\ @ \in {"store", "touch"} THEN "forget" ELSE @]
        /\ \A q \in Inst \ {p} : op'[q] = op[q]
    BY <2>1, <1>b
  <2>3. op'[p].pc = "store"
    BY <2>2, <1>a DEF OpType
  <2> QED
    BY <1>7, <2>2, <2>3 DEF Bump
<1>8. CASE StoreKey(p)
  <2>1. PICK k \in op[p].left :
          \/ /\ l1' = [l1 EXCEPT ![p][k] = Stored(p, k)]
             /\ OpSet(p, [op[p] EXCEPT !.left = @ \ {k}])
          \/ /\ OpSet(p, [op[p] EXCEPT !.left = @ \ {k}, !.refused = TRUE])
             /\ UNCHANGED l1
    BY <1>8 DEF StoreKey
  <2>2. \/ op'[p] = [op[p] EXCEPT !.left = @ \ {k}]
        \/ op'[p] = [op[p] EXCEPT !.left = @ \ {k}, !.refused = TRUE]
    BY <2>1, <1>b
  <2>4. op'[p].pc = op[p].pc
    BY <2>2, <1>a DEF OpType
  <2>5. \A q \in Inst \ {p} : op'[q] = op[q]
    BY <2>1, <1>b
  <2>3. \A q \in Inst \ {p} : l1'[q] = l1[q]
    BY <2>1, <1>a
  <2> QED
    BY <1>8, <2>3, <2>4, <2>5 DEF StoreKey
<1>9. CASE Reconcile(p)
  <2>1. op'[p] = [op[p] EXCEPT !.pc = "publish", !.left = op[p].keys] /\ \A q \in Inst \ {p} : op'[q] = op[q]
    BY <1>9, <1>b DEF Reconcile
  <2>2. op'[p].pc = "publish"
    BY <1>a, <2>1 DEF OpType
  <2>3. Reconciled(p) /\ op[p].pc = "store" /\ OpUnchanged
    BY <1>9 DEF Reconcile
  <2>4. \A q \in Inst \ {p} : l1'[q] = l1[q] /\ healthState'[q] = healthState[q]
    BY <2>3, Emptied, Degraded DEF Reconciled, FlushL1Fails
  <2>5. healthState'[p] \in {healthState[p], "degraded"}
    BY <2>3, Degraded DEF Reconciled
  <2> QED
    BY <2>1, <2>2, <2>3, <2>4, <2>5
<1>10. CASE FlushStore(p)
  <2>1. op'[p] = [op[p] EXCEPT !.pc = "publish", !.left = {NoKey}] /\ \A q \in Inst \ {p} : op'[q] = op[q]
    BY <1>10, <1>b DEF FlushStore
  <2>2. op'[p].pc = "publish"
    BY <1>a, <2>1 DEF OpType
  <2>3. \A q \in Inst \ {p} : l1'[q] = l1[q] /\ healthState'[q] = healthState[q]
    BY <1>10, Emptied, Degraded DEF FlushStore, FlushL1Fails
  <2>4. healthState'[p] \in {healthState[p], "degraded"}
    BY <1>10, Degraded DEF FlushStore
  <2> QED
    BY <1>10, <2>1, <2>2, <2>3, <2>4 DEF FlushStore
<1>11. CASE OpPublish(p)
  <2>1. PICK k \in op[p].left :
          \/ OpSet(p, OpIdle)
          \/ OpSet(p, [op[p] EXCEPT !.left = @ \ {k}])
          \/ OpSet(p, [op[p] EXCEPT !.pc = "mark"])
    BY <1>11 DEF OpPublish
  <2>2. op'[p] = OpIdle \/ op'[p].pc \in {"publish", "mark"}
    BY <1>11, <2>1, <1>a, <1>b DEF OpType, OpPublish
  <2>3. \A q \in Inst \ {p} : op'[q] = op[q]
    BY <2>1, <1>b
  <2> QED
    BY <1>11, <2>2, <2>3 DEF OpPublish
<1>12. CASE OpMark(p)
  <2>1. op'[p] = OpIdle /\ \A q \in Inst \ {p} : op'[q] = op[q]
    BY <1>12, <1>b DEF OpMark
  <2> QED
    BY <1>12, <2>1, Degraded, Flushed DEF OpMark
<1> QED
  BY <1>1, <1>2, <1>3, <1>4, <1>5, <1>6, <1>7, <1>8, <1>9, <1>10, <1>11, <1>12 DEF OpStep

LEMMA BeginFrame ==
  ASSUME TypeOK, NEW p \in Inst, OpBegin(p)
  PROVE  /\ UNCHANGED <<redis, clock, l1, mutationVersion, healthState, invalidationReady, life,
                         rd, sub, rec, connected, own>>
         /\ ~Closed(p) /\ Available(p) /\ op'[p].pc = "l2"
         /\ \A q \in Inst \ {p} : op'[q] = op[q]
<1> USE DEF OpUnchanged, redisVars, localVars, cacheVars, healthVars, historyVars
<1>1. PICK kind, keys :
        OpSet(p, [OpIdle EXCEPT !.pc = "l2", !.kind = kind, !.keys = keys,
                                !.left = Matched(kind, keys), !.at = clock + 1])
  BY DEF OpBegin
<1>2. /\ op'[p] = [OpIdle EXCEPT !.pc = "l2", !.kind = kind, !.keys = keys,
                                 !.left = Matched(kind, keys), !.at = clock + 1]
      /\ \A q \in Inst \ {p} : op'[q] = op[q]
  BY <1>1 DEF OpSet, TypeOK
<1>3. op'[p].pc = "l2"
  BY <1>2 DEF OpIdle
<1> QED
  BY <1>2, <1>3 DEF OpBegin

(* A read changes L1 only with its instance available and no mutation there, *)
(* or to degrade the instance.                                                *)
LEMMA RdFrame ==
  ASSUME TypeOK, NEW g \in Reader, RdStep(g)
  PROVE  /\ UNCHANGED <<redis, clock, mutationVersion, invalidationReady, life, op, sub, rec,
                         connected, own>>
         /\ \A h \in Reader \ {g} : rd'[h] = rd[h]
         /\ rd[g].pc # "idle"
         /\ rd[g].pc = "top" /\ Closed(Home[g]) => rd'[g] = RdIdle
         /\ \A q \in Inst \ {Home[g]} : l1'[q] = l1[q] /\ healthState'[q] = healthState[q]
         /\ \/ UNCHANGED <<l1, healthState>>
            \/ healthState'[Home[g]] = "degraded" /\ l1'[Home[g]] \in {l1[Home[g]], NoEntries}
            \/ /\ rd[g].pc = "warm" /\ VersionCurrent(g) /\ Available(Home[g]) /\ MutexFree(Home[g])
               /\ ~rd[g].err
               /\ Warm(g)
               /\ UNCHANGED healthState
<1> USE DEF RdUnchanged, redisVars, healthVars, busVars, historyVars
<1> DEFINE p == Home[g]
<1>a. p \in Inst /\ rd \in [Reader -> RdType]
  BY TieredAssumption DEF TypeOK
<1>b. ASSUME NEW r, RdSet(g, r)
      PROVE  rd'[g] = r /\ \A h \in Reader \ {g} : rd'[h] = rd[h]
  BY <1>a, <1>b DEF RdSet
<1> USE DEF RdGoto, RdAbort
<1>1. CASE RdTop(g)
  BY <1>1, <1>b DEF RdTop
<1>2. CASE RdL1(g)
  BY <1>2, <1>b DEF RdL1
<1>3. CASE RdHit(g)
  BY <1>3, <1>b DEF RdHit
<1>4. CASE RdVersion(g)
  BY <1>4, <1>b DEF RdVersion
<1>5. CASE RdL2(g)
  BY <1>5, <1>b DEF RdL2
<1>6. CASE RdWarm(g)
  <2>1. CASE UNCHANGED <<l1, healthVars, faults>> /\ (RdAbort(g) \/ RdGoto(g, "top"))
    BY <1>6, <2>1, <1>b DEF RdWarm
  <2>2. CASE TransitionToDegraded(p) /\ FlushL1Locked(p) /\ RdAbort(g)
    BY <1>6, <2>2, <1>a, <1>b, Degraded, Flushed DEF RdWarm
  <2>3. CASE ~Closed(p) /\ VersionCurrent(g) /\ Available(p) /\ ~rd[g].err /\ Warm(g)
             /\ UNCHANGED <<healthVars, faults>>
    <3>1. /\ \A h \in Reader \ {g} : rd'[h] = rd[h]
          /\ \A q \in Inst \ {p} : l1'[q] = l1[q]
      BY <2>3, <1>a, <1>b DEF Warm, TypeOK
    <3> QED
      BY <1>6, <2>3, <3>1 DEF RdWarm
  <2> QED
    BY <1>6, <2>1, <2>2, <2>3 DEF RdWarm
<1>7. CASE RdReturn(g)
  BY <1>7, <1>b DEF RdReturn
<1> QED
  BY <1>1, <1>2, <1>3, <1>4, <1>5, <1>6, <1>7 DEF RdStep

LEMMA RdBeginFrame ==
  ASSUME TypeOK, NEW g \in Reader, RdBegin(g)
  PROVE  /\ UNCHANGED <<redis, clock, l1, mutationVersion, healthState, invalidationReady, life,
                         op, sub, rec, connected, own>>
         /\ rd'[g].pc = "top" /\ rd'[g].ver = 0
         /\ \A h \in Reader \ {g} : rd'[h] = rd[h]
<1> USE DEF RdUnchanged, redisVars, healthVars, busVars, historyVars
<1>1. PICK kind, keys : RdSet(g, [RdIdle EXCEPT !.pc = "top", !.many = (kind = "getMany"), !.keys = keys])
  BY DEF RdBegin
<1>2. /\ rd'[g] = [RdIdle EXCEPT !.pc = "top", !.many = (kind = "getMany"), !.keys = keys]
      /\ \A h \in Reader \ {g} : rd'[h] = rd[h]
  BY <1>1 DEF RdSet, TypeOK
<1>3. rd'[g].pc = "top" /\ rd'[g].ver = 0
  BY <1>2 DEF RdIdle
<1> QED
  BY <1>2, <1>3 DEF RdBegin

(* The subscriber only drops entries of L1. *)
LEMMA SubFrame ==
  ASSUME TypeOK, NEW p \in Inst, SubStep(p)
  PROVE  /\ UNCHANGED <<redis, clock, life, op, rd, rec, own>>
         /\ sub[p] # "done"
         /\ \A q \in Inst \ {p} :
              /\ sub'[q] = sub[q] /\ connected'[q] = connected[q] /\ l1'[q] = l1[q]
              /\ healthState'[q] = healthState[q] /\ mutationVersion'[q] = mutationVersion[q]
         /\ healthState'[p] \in {healthState[p], "degraded"}
         /\ mutationVersion'[p] \in {mutationVersion[p], mutationVersion[p] + 1}
         /\ \A k \in Key : l1'[p][k] \in {0, l1[p][k]}
         /\ sub'[p] \in {"start", "degrade", "flushing", "emptying", "wait", "done"} =>
              \/ ~connected'[p]
              \/ /\ sub[p] \in {"start", "degrade", "flushing", "emptying", "wait"}
                 /\ connected'[p] = connected[p]
<1> USE DEF SubUnchanged, redisVars, cacheVars, healthVars, busVars
<1>a. /\ sub \in [Inst -> SubPc] /\ connected \in [Inst -> BOOLEAN] /\ l1 \in [Inst -> [Key -> Nat]]
      /\ mutationVersion \in [Inst -> Nat]
  BY DEF TypeOK
<1>b. ASSUME NEW pc, SubGoto(p, pc)
      PROVE  sub'[p] = pc /\ \A q \in Inst \ {p} : sub'[q] = sub[q]
  BY <1>a, <1>b DEF SubGoto
<1>c. ASSUME Unsubscribe(p)
      PROVE  connected'[p] = FALSE /\ \A q \in Inst \ {p} : connected'[q] = connected[q]
  BY <1>a, <1>c DEF Unsubscribe
<1>d. ASSUME BumpVersion(p)
      PROVE  /\ mutationVersion'[p] = mutationVersion[p] + 1
             /\ \A q \in Inst \ {p} : mutationVersion'[q] = mutationVersion[q]
  BY <1>a, <1>d DEF BumpVersion
<1>e. ASSUME l1' = [l1 EXCEPT ![p] = NoEntries] \/ UNCHANGED l1
      PROVE  /\ \A q \in Inst \ {p} : l1'[q] = l1[q]
             /\ \A k \in Key : l1'[p][k] \in {0, l1[p][k]}
  BY <1>a, <1>e DEF NoEntries
<1>1. CASE SubSubscribe(p)
  <2>1. \A q \in Inst \ {p} : connected'[q] = connected[q]
    BY <1>1, <1>a DEF SubSubscribe
  <2>2. sub'[p] = "subscribed" /\ \A q \in Inst \ {p} : sub'[q] = sub[q]
    BY <1>1, <1>b DEF SubSubscribe
  <2> QED
    BY <1>1, <2>1, <2>2 DEF SubSubscribe
<1>2. CASE SubSubscribeErr(p)
  BY <1>2, <1>b DEF SubSubscribeErr
<1>3. CASE SubFlush(p)
  <2>1. CASE SubGoto(p, "done") /\ Unsubscribe(p) /\ UNCHANGED <<cacheVars, orphan, faults>>
    BY <1>3, <1>b, <1>c, <2>1 DEF SubFlush
  <2>2. CASE BumpVersion(p) /\ EmptyL1(p) /\ SubGoto(p, "flushed") /\ UNCHANGED <<busVars, faults>>
    <3>1. sub'[p] = "flushed" /\ \A q \in Inst \ {p} : sub'[q] = sub[q]
      BY <1>b, <2>2
    <3>2. /\ \A q \in Inst \ {p} : l1'[q] = l1[q]
          /\ \A k \in Key : l1'[p][k] \in {0, l1[p][k]}
      BY <1>e, <2>2 DEF EmptyL1
    <3> QED
      BY <1>3, <1>d, <2>2, <3>1, <3>2 DEF SubFlush
  <2>3. CASE BumpVersion(p) /\ FlushL1Fails /\ SubGoto(p, "degrade") /\ Unsubscribe(p)
    BY <1>3, <1>b, <1>c, <1>d, <2>3 DEF SubFlush, FlushL1Fails
  <2> QED
    BY <1>3, <2>1, <2>2, <2>3 DEF SubFlush
<1>4. CASE SubReady(p)
  BY <1>4, <1>b DEF SubReady
<1>5. CASE SubIgnoreOwn(p)
  BY <1>5 DEF SubIgnoreOwn
<1>6. CASE SubApply(p)
  <2>1. PICK m : \/ /\ l1' = [l1 EXCEPT ![p] = [k \in Key |-> IF k \in EventKeys(m) THEN 0 ELSE @[k]]]
                    /\ UNCHANGED sub
                 \/ UNCHANGED l1 /\ SubGoto(p, "broken")
    BY <1>6 DEF SubApply, FlushL1Fails
  <2>2. /\ \A q \in Inst \ {p} : l1'[q] = l1[q]
        /\ \A k \in Key : l1'[p][k] \in {0, l1[p][k]}
    BY <2>1, <1>a
  <2>3. /\ sub'[p] \in {sub[p], "broken"} /\ \A q \in Inst \ {p} : sub'[q] = sub[q]
    BY <2>1, <1>b
  <2> QED
    BY <1>6, <1>d, <2>2, <2>3 DEF SubApply
<1>7. CASE SubReceiveErr(p)
  BY <1>7, <1>b DEF SubReceiveErr
<1>8. CASE SubClose(p)
  BY <1>8, <1>b, <1>c DEF SubClose
<1>9. CASE SubDegrade(p)
  BY <1>9, <1>b, Degraded DEF SubDegrade
<1>10. CASE SubDegradeFlush(p)
  BY <1>10, <1>b, <1>e DEF SubDegradeFlush, FlushL1Locked, EmptyL1, FlushL1Fails
<1>11. CASE SubRetry(p)
  BY <1>11, <1>b DEF SubRetry
<1>12. CASE SubStop(p)
  BY <1>12, <1>b DEF SubStop
<1>13. CASE SubLock(p)
  BY <1>13, <1>b DEF SubLock
<1> QED
  BY <1>1, <1>2, <1>3, <1>4, <1>5, <1>6, <1>7, <1>8, <1>9, <1>10, <1>11, <1>12, <1>13 DEF SubStep

LEMMA ReadyOfOthers ==
  ASSUME TypeOK, NEW p \in Inst, SubStep(p)
  PROVE  \A q \in Inst \ {p} : invalidationReady'[q] = invalidationReady[q]
  BY DEF TypeOK, SubStep, SubSubscribe, SubSubscribeErr, SubLock, SubFlush, SubReady, SubIgnoreOwn,
         SubApply, SubReceiveErr, SubClose, SubDegrade, SubDegradeFlush, SubRetry, SubStop

(* While recovery stores `healthy` the subscriber cannot degrade the instance. *)
LEMMA ReadyOrLeaving ==
  ASSUME TypeOK, NEW p \in Inst, SubStep(p), rec[p].pc = "heal",
         invalidationReady[p] \/ sub[p] \in {"degrade", "done"}
  PROVE  invalidationReady'[p] \/ sub'[p] \in {"degrade", "done"}
<1>a. /\ sub \in [Inst -> SubPc] /\ invalidationReady \in [Inst -> BOOLEAN]
  BY DEF TypeOK
<1>1. CASE SubClose(p)
  BY <1>1, <1>a DEF SubClose, SubGoto
<1>2. CASE SubReady(p)
  BY <1>2, <1>a DEF SubReady
<1>3. CASE SubSubscribe(p) \/ SubSubscribeErr(p) \/ SubLock(p) \/ SubFlush(p)
  BY <1>3 DEF SubSubscribe, SubSubscribeErr, SubLock, SubFlush
<1>4. CASE SubIgnoreOwn(p) \/ SubApply(p) \/ SubReceiveErr(p)
  BY <1>4 DEF SubIgnoreOwn, SubApply, SubReceiveErr
<1>5. CASE SubDegrade(p)
  BY <1>5 DEF SubDegrade, TransitionToDegraded, StateErrMuFree
<1>6. CASE SubDegradeFlush(p) \/ SubRetry(p) \/ SubStop(p)
  BY <1>6 DEF SubDegradeFlush, SubRetry, SubStop
<1> QED
  BY <1>1, <1>2, <1>3, <1>4, <1>5, <1>6 DEF SubStep

(* Recovery empties L1 before it makes the instance healthy. *)
LEMMA RecFrame ==
  ASSUME TypeOK, NEW p \in Inst, RecStep(p)
  PROVE  /\ UNCHANGED <<redis, clock, mutationVersion, invalidationReady, life, op, rd, sub,
                         connected, own>>
         /\ rec[p].pc # "done"
         /\ \A q \in Inst \ {p} :
              rec'[q] = rec[q] /\ l1'[q] = l1[q] /\ healthState'[q] = healthState[q]
         /\ l1'[p] \in {l1[p], NoEntries}
         /\ rec'[p].pc = "flush" => healthState[p] = "degraded"
         /\ rec'[p].pc = "enter" => rec[p].pc = "flush" /\ MutexFree(p) /\ l1'[p] = NoEntries
         /\ rec'[p].pc = "heal" => rec[p].pc = "enter" /\ MayEnterHealthy(p) /\ l1'[p] = l1[p]
         /\ rec'[p].pc \in {"flush", "enter", "heal"} => healthState'[p] = healthState[p]
         /\ healthState'[p] # healthState[p] => rec[p].pc = "heal"
<1> USE DEF RecUnchanged, redisVars, historyVars, messageVars
<1>a. rec \in [Inst -> RecType] /\ rec[p] \in RecType /\ l1 \in [Inst -> [Key -> Nat]]
  BY DEF TypeOK
<1>b. ASSUME NEW r, RecSet(p, r)
      PROVE  rec'[p] = r /\ \A q \in Inst \ {p} : rec'[q] = rec[q]
  BY <1>a, <1>b DEF RecSet
<1>c. ASSUME NEW pc, RecGoto(p, pc)
      PROVE  rec'[p].pc = pc /\ \A q \in Inst \ {p} : rec'[q] = rec[q]
  BY <1>a, <1>b, <1>c DEF RecGoto, RecType
<1>d. RecIdle.pc = "idle"
  BY DEF RecIdle
<1>1. CASE RecTick(p)
  BY <1>1, <1>c DEF RecTick
<1>2. CASE RecProbe(p)
  BY <1>2, <1>c DEF RecProbe
<1>3. CASE RecPublishFlush(p)
  BY <1>3, <1>c DEF RecPublishFlush
<1>4. CASE RecPublishKey(p)
  BY <1>4, <1>c DEF RecPublishKey
<1>5. CASE RecPublished(p)
  BY <1>5, <1>c DEF RecPublished
<1>6. CASE RecLock(p)
  BY <1>6, <1>b, <1>d DEF RecLock, RecoveryWanted
<1>7. CASE RecFlush(p)
  BY <1>7, <1>b, <1>c, <1>d, Emptied DEF RecFlush, FlushL1Fails
<1>8. CASE RecEnter(p)
  <2>1. CASE MayEnterHealthy(p) /\ RecSet(p, [rec[p] EXCEPT !.pc = "heal"])
    BY <1>8, <1>a, <1>b, <2>1 DEF RecEnter, RecType
  <2>2. CASE RecSet(p, RecIdle)
    BY <1>8, <1>b, <1>d, <2>2 DEF RecEnter
  <2> QED
    BY <1>8, <2>1, <2>2 DEF RecEnter
<1>9. CASE RecStop(p)
  BY <1>9, <1>c DEF RecStop
<1>10. CASE RecHeal(p)
  BY <1>10, <1>b, <1>d DEF RecHeal, TypeOK
<1> QED
  BY <1>1, <1>2, <1>3, <1>4, <1>5, <1>6, <1>7, <1>8, <1>9, <1>10 DEF RecStep

(***************************************************************************)
(* The inductive invariants.                                               *)
(***************************************************************************)

(* Once Close has the lock no mutation runs and every read will be refused;  *)
(* a subscriber that has no subscription is connected to nothing.            *)
CloseInv ==
    /\ \A p \in Inst :
         /\ Closed(p) => MutexFree(p)
         /\ life[p] = "closed" => sub[p] = "done" /\ rec[p].pc = "done"
         /\ sub[p] \in {"start", "degrade", "flushing", "emptying", "wait", "done"} => ~connected[p]
    /\ \A g \in Reader : Closed(Home[g]) => rd[g].pc \in {"idle", "top"}

(* Recovery holds the instance degraded from its flush on, so that no        *)
(* mutation begins and no read fills L1; a subscription that is lost between *)
(* the last check and the store of `healthy` is one the subscriber is about   *)
(* to answer, once recovery has released stateErrMu.                         *)
RecoveryInv ==
    \A p \in Inst :
        /\ MutexFree(p) => op[p] = OpIdle
        /\ rec[p].pc \in {"flush", "enter", "heal"} => healthState[p] = "degraded"
        /\ rec[p].pc \in {"enter", "heal"} => l1[p] = NoEntries /\ op[p] = OpIdle
        /\ rec[p].pc = "heal" => invalidationReady[p] \/ sub[p] \in {"degrade", "done"}

(* No older than the last mutation of k that p has acknowledged. *)
Recent(p, k, value) == value = 0 \/ value >= own[p][k]

(* Keys a mutation has acknowledged and not yet brought to L1. *)
Unstored(p) ==
    IF op[p].pc = "store" THEN Changed(p) \cap (IF op[p].refused THEN op[p].keys ELSE op[p].left)
    ELSE {}

(* Redis holds nothing older than a mutation it has executed. *)
RedisRecent(p) ==
    /\ op[p].at <= clock + 1
    /\ \A k \in Key : own[p][k] <= clock + 1 /\ Recent(p, k, redis[k])
    /\ \A k \in Unapplied(p) : redis[k] = 0 \/ redis[k] >= op[p].at

(* What the fields of a mutation say of each other. *)
OpShape(p) ==
    /\ op[p].pc = "l2" /\ op[p].kind # "flush" => op[p].keys \subseteq op[p].left
    /\ op[p].pc \in {"bump", "store"} /\ op[p].l1op = "store" => op[p].kind # "touch"
    /\ op[p].pc \in {"bump", "store"} /\ op[p].l1op = "touch" => op[p].kind = "touch"
    /\ op[p].pc = "store" => op[p].left \subseteq op[p].keys
    /\ op[p].pc = "store" => \A k \in Changed(p) : own[p][k] <= op[p].at

(* A healthy instance has nothing older in L1 but what the mutation in       *)
(* progress is about to replace.                                             *)
L1Recent(p) ==
    healthState[p] = "healthy" =>
        \A k \in Key \ Unstored(p) : Recent(p, k, l1[p][k])

(* An answer of Redis that passes the version check is as good as Redis was. *)
ReadsRecent ==
    \A g \in Reader :
        /\ rd[g].ver <= mutationVersion[Home[g]]
        /\ rd[g].pc = "warm" /\ ~rd[g].err /\ VersionCurrent(g) =>
             \A k \in Key : Recent(Home[g], k, rd[g].l2[k])

RecentInv ==
    /\ \A p \in Inst : RedisRecent(p) /\ OpShape(p) /\ L1Recent(p)
    /\ ReadsRecent

LEMMA CrashFrame ==
  ASSUME TypeOK, NEW p \in Inst, Crash(p)
  PROVE  /\ UNCHANGED <<redis, clock, own>>
         /\ life[p] # "closed" /\ life'[p] = "open"
         /\ l1'[p] = NoEntries /\ op'[p] = OpIdle /\ rec'[p] = RecIdle /\ sub'[p] = "start"
         /\ healthState'[p] = "healthy" /\ connected'[p] = FALSE /\ mutationVersion'[p] = 0
         /\ \A g \in Reader : rd'[g] = IF Home[g] = p THEN RdIdle ELSE rd[g]
         /\ \A q \in Inst \ {p} :
              /\ l1'[q] = l1[q] /\ op'[q] = op[q] /\ rec'[q] = rec[q] /\ sub'[q] = sub[q]
              /\ healthState'[q] = healthState[q] /\ connected'[q] = connected[q]
              /\ mutationVersion'[q] = mutationVersion[q] /\ life'[q] = life[q]
              /\ invalidationReady'[q] = invalidationReady[q]
<1>1. /\ life \in [Inst -> {"open", "waiting", "stopping", "closed"}]
      /\ l1 \in [Inst -> [Key -> Nat]] /\ op \in [Inst -> OpType] /\ rec \in [Inst -> RecType]
      /\ sub \in [Inst -> SubPc] /\ healthState \in [Inst -> {"healthy", "degraded"}]
      /\ connected \in [Inst -> BOOLEAN] /\ mutationVersion \in [Inst -> Nat]
      /\ invalidationReady \in [Inst -> BOOLEAN]
  BY DEF TypeOK
<1>2. /\ life[p] # "closed" /\ l1' = [l1 EXCEPT ![p] = NoEntries]
      /\ mutationVersion' = [mutationVersion EXCEPT ![p] = 0]
      /\ healthState' = [healthState EXCEPT ![p] = "healthy"]
      /\ life' = [life EXCEPT ![p] = "open"]
      /\ op' = [op EXCEPT ![p] = OpIdle]
      /\ rd' = [g \in Reader |-> IF Home[g] = p THEN RdIdle ELSE rd[g]]
      /\ sub' = [sub EXCEPT ![p] = "start"]
      /\ rec' = [rec EXCEPT ![p] = RecIdle]
      /\ connected' = [connected EXCEPT ![p] = FALSE]
      /\ invalidationReady' = [invalidationReady EXCEPT ![p] = FALSE]
      /\ UNCHANGED <<redis, clock, own>>
  BY DEF Crash, Restarted, Unsubscribe, redisVars
<1> QED
  BY <1>1, <1>2

(* Close and what the world does to one instance. *)
LEMMA WorldFrame ==
  ASSUME TypeOK, NEW p \in Inst, CloseBegin(p) \/ CloseStep(p) \/ L1Drop(p) \/ Disconnect(p)
  PROVE  /\ UNCHANGED <<redis, clock, own, healthState, invalidationReady, op, rd, sub, rec>>
         /\ \A q \in Inst \ {p} :
              /\ l1'[q] = l1[q] /\ connected'[q] = connected[q] /\ life'[q] = life[q]
              /\ mutationVersion'[q] = mutationVersion[q]
         /\ \A k \in Key : l1'[p][k] \in {0, l1[p][k]}
         /\ mutationVersion'[p] \in {mutationVersion[p], mutationVersion[p] + 1}
         /\ connected'[p] \in {connected[p], FALSE}
         /\ \/ life'[p] = life[p]
            \/ life[p] = "open" /\ life'[p] = "waiting"
            \/ /\ life[p] = "waiting" /\ life'[p] = "stopping"
               /\ MutexFree(p) /\ Reading(p) = {}
            \/ life[p] = "stopping" /\ life'[p] = "closed" /\ Stopped(p)
<1> USE DEF redisVars, cacheVars, healthVars, busVars, historyVars
<1>a. /\ life \in [Inst -> {"open", "waiting", "stopping", "closed"}]
      /\ l1 \in [Inst -> [Key -> Nat]] /\ mutationVersion \in [Inst -> Nat]
      /\ connected \in [Inst -> BOOLEAN]
  BY DEF TypeOK
<1>1. CASE CloseBegin(p)
  BY <1>1, <1>a DEF CloseBegin
<1>2. CASE CloseStep(p)
  <2>1. CASE CloseLocked(p)
    BY <2>1, <1>a DEF CloseLocked, BumpVersion
  <2>2. CASE CloseEnd(p)
    BY <2>2, <1>a DEF CloseEnd
  <2> QED
    BY <1>2, <2>1, <2>2 DEF CloseStep
<1>3. CASE L1Drop(p)
  <2>1. PICK k \in Key : l1' = [l1 EXCEPT ![p][k] = 0]
    BY <1>3 DEF L1Drop
  <2>2. /\ \A q \in Inst \ {p} : l1'[q] = l1[q]
        /\ \A j \in Key : l1'[p][j] \in {0, l1[p][j]}
    BY <2>1, <1>a
  <2> QED
    BY <1>3, <2>2 DEF L1Drop
<1>4. CASE Disconnect(p)
  BY <1>4, <1>a DEF Disconnect
<1> QED
  BY <1>1, <1>2, <1>3, <1>4

(***************************************************************************)
(* Close.                                                                  *)
(***************************************************************************)

LEMMA CloseInit == Init => CloseInv
  BY TieredAssumption DEF Init, CloseInv, Closed, RdIdle

LEMMA CloseNext == TypeOK /\ CloseInv /\ [Next]_vars => CloseInv'
<1> SUFFICES ASSUME TypeOK, CloseInv, [Next]_vars PROVE CloseInv'
  OBVIOUS
<1> USE DEF Closed, MutexFree
<1>a. \A g \in Reader : Home[g] \in Inst
  BY TieredAssumption
<1>1. CASE UNCHANGED vars
  BY <1>1 DEF CloseInv, vars, busVars
<1>2. ASSUME NEW p \in Inst, OpStep(p) PROVE CloseInv'
  BY <1>2, OpFrame DEF CloseInv
<1>3. ASSUME NEW p \in Inst, OpBegin(p) PROVE CloseInv'
  BY <1>3, BeginFrame DEF CloseInv
<1>4. ASSUME NEW g \in Reader, RdBegin(g) PROVE CloseInv'
  BY <1>4, RdBeginFrame DEF CloseInv
<1>5. ASSUME NEW g \in Reader, RdStep(g) PROVE CloseInv'
  BY <1>5, <1>a, RdFrame DEF CloseInv, RdIdle
<1>6. ASSUME NEW p \in Inst, SubStep(p) PROVE CloseInv'
  BY <1>6, SubFrame DEF CloseInv
<1>7. ASSUME NEW p \in Inst, RecStep(p) PROVE CloseInv'
  BY <1>7, RecFrame DEF CloseInv
<1>8. ASSUME NEW p \in Inst, CloseBegin(p) \/ CloseStep(p) \/ L1Drop(p) \/ Disconnect(p)
      PROVE  CloseInv'
  <2>1. UNCHANGED <<op, rd, sub, rec>>
    BY <1>8, WorldFrame
  <2>2. \A q \in Inst : connected'[q] \in {connected[q], FALSE}
    BY <1>8, WorldFrame
  <2>3. \A q \in Inst : \/ life'[q] = life[q]
                        \/ life'[q] = "waiting"
                        \/ life'[q] = "stopping" /\ MutexFree(q) /\ Reading(q) = {}
                        \/ life[q] = "stopping" /\ life'[q] = "closed" /\ Stopped(q)
    BY <1>8, WorldFrame
  <2>4. \A q \in Inst : /\ Closed(q)' => MutexFree(q)'
                        /\ life'[q] = "closed" => sub'[q] = "done" /\ rec'[q].pc = "done"
    BY <2>1, <2>3 DEF CloseInv, Stopped
  <2>5. \A q \in Inst : sub'[q] \in {"start", "degrade", "flushing", "emptying", "wait", "done"} => ~connected'[q]
    BY <2>1, <2>2 DEF CloseInv
  <2>6. \A g \in Reader : Closed(Home[g])' => rd'[g].pc \in {"idle", "top"}
    BY <1>a, <2>1, <2>3 DEF CloseInv, Reading
  <2> QED
    BY <2>4, <2>5, <2>6 DEF CloseInv
<1>9. ASSUME NEW p \in Inst, Crash(p) PROVE CloseInv'
  <2>1. life'[p] = "open" /\ connected'[p] = FALSE
    BY <1>9, CrashFrame
  <2>2. \A q \in Inst \ {p} : /\ op'[q] = op[q] /\ rec'[q] = rec[q] /\ sub'[q] = sub[q]
                              /\ connected'[q] = connected[q] /\ life'[q] = life[q]
    BY <1>9, CrashFrame
  <2>3. \A g \in Reader : rd'[g] = rd[g] \/ Home[g] = p
    BY <1>9, CrashFrame
  <2>4. \A g \in Reader : Closed(Home[g])' => rd'[g].pc \in {"idle", "top"}
    BY <1>a, <2>1, <2>2, <2>3 DEF CloseInv
  <2> QED
    BY <2>1, <2>2, <2>4 DEF CloseInv
<1>10. CASE ExternalFlush
  BY <1>10 DEF ExternalFlush, CloseInv
<1> QED
  BY <1>1, <1>2, <1>3, <1>4, <1>5, <1>6, <1>7, <1>8, <1>9, <1>10
     DEF Next, SystemStep, Environment

(* Once Close has returned, no mutation, no goroutine and no subscription of *)
(* the instance is left; a call that comes later is refused at once.          *)
THEOREM CloseIsFinal == Spec => []QuietAfterClose
<1>1. CloseInv => QuietAfterClose
  BY TieredAssumption DEF CloseInv, QuietAfterClose, Closed, Reading
<1>2. TypeOK /\ CloseInv /\ [Next]_vars => CloseInv'
  BY CloseNext
<1>3. Init => CloseInv
  BY CloseInit
<1> QED
  BY <1>1, <1>2, <1>3, TypeCorrect, PTL DEF Spec

(***************************************************************************)
(* Recovery.                                                               *)
(***************************************************************************)

LEMMA RecoveryInit == Init => RecoveryInv
<1>1. RecIdle.pc = "idle"
  BY DEF RecIdle
<1> QED
  BY <1>1 DEF Init, RecoveryInv

LEMMA RecoveryNext == TypeOK /\ RecoveryInv /\ [Next]_vars => RecoveryInv'
<1> SUFFICES ASSUME TypeOK, RecoveryInv, [Next]_vars PROVE RecoveryInv'
  OBVIOUS
<1> USE DEF MutexFree
<1>a. \A g \in Reader : Home[g] \in Inst
  BY TieredAssumption
<1>b. OpIdle.pc = "idle" /\ RecIdle.pc = "idle"
  BY DEF OpIdle, RecIdle
<1>c. ASSUME NEW p \in Inst, l1[p] = NoEntries, \A k \in Key : l1'[p][k] \in {0, l1[p][k]}, TypeOK'
      PROVE  l1'[p] = NoEntries
  BY <1>c DEF NoEntries, TypeOK
<1>d. TypeOK'
  BY TypeNext
<1>1. CASE UNCHANGED vars
  BY <1>1 DEF RecoveryInv, vars, cacheVars, healthVars
<1>2. ASSUME NEW p \in Inst, OpStep(p) PROVE RecoveryInv'
  BY <1>2, <1>b, OpFrame DEF RecoveryInv
<1>3. ASSUME NEW p \in Inst, OpBegin(p) PROVE RecoveryInv'
  BY <1>3, BeginFrame DEF RecoveryInv, Available
<1>4. ASSUME NEW g \in Reader, RdBegin(g) PROVE RecoveryInv'
  BY <1>4, RdBeginFrame DEF RecoveryInv
<1>5. ASSUME NEW g \in Reader, RdStep(g) PROVE RecoveryInv'
  BY <1>5, <1>a, RdFrame DEF RecoveryInv, Available
<1>6. ASSUME NEW p \in Inst, SubStep(p) PROVE RecoveryInv'
  <2>1. /\ UNCHANGED <<op, rec>>
        /\ healthState'[p] \in {healthState[p], "degraded"}
        /\ \A q \in Inst \ {p} : sub'[q] = sub[q] /\ healthState'[q] = healthState[q]
                                 /\ l1'[q] = l1[q]
    BY <1>6, SubFrame
  <2>2. l1[p] = NoEntries => l1'[p] = NoEntries
    BY <1>6, <1>c, <1>d, SubFrame
  <2>3. rec[p].pc = "heal" => invalidationReady'[p] \/ sub'[p] \in {"degrade", "done"}
    BY <1>6, ReadyOrLeaving DEF RecoveryInv
  <2>4. \A q \in Inst \ {p} : invalidationReady'[q] = invalidationReady[q]
    BY <1>6, ReadyOfOthers
  <2> QED
    BY <2>1, <2>2, <2>3, <2>4 DEF RecoveryInv
<1>7. ASSUME NEW p \in Inst, RecStep(p) PROVE RecoveryInv'
  <2>1. /\ UNCHANGED <<op, sub, invalidationReady>>
        /\ \A q \in Inst \ {p} : /\ rec'[q] = rec[q] /\ l1'[q] = l1[q]
                                 /\ healthState'[q] = healthState[q]
    BY <1>7, RecFrame
  <2>2. ASSUME NEW q \in Inst, q # p
        PROVE  /\ MutexFree(q)' => op'[q] = OpIdle
               /\ rec'[q].pc \in {"flush", "enter", "heal"} => healthState'[q] = "degraded"
               /\ rec'[q].pc \in {"enter", "heal"} => l1'[q] = NoEntries /\ op'[q] = OpIdle
               /\ rec'[q].pc = "heal" => invalidationReady'[q] \/ sub'[q] \in {"degrade", "done"}
    BY <2>1, <2>2 DEF RecoveryInv
  <2>3. rec'[p].pc = "enter" => l1'[p] = NoEntries /\ op'[p] = OpIdle
    BY <1>7, <2>1, RecFrame DEF RecoveryInv
  <2>4. rec'[p].pc = "heal" => /\ l1'[p] = NoEntries /\ op'[p] = OpIdle
                              /\ healthState'[p] = "degraded" /\ invalidationReady'[p]
    BY <1>7, <2>1, RecFrame DEF RecoveryInv, MayEnterHealthy, RecoveryWanted
  <2>5. rec'[p].pc \in {"flush", "enter"} => healthState'[p] = "degraded"
    BY <1>7, RecFrame DEF RecoveryInv
  <2> QED
    BY <2>1, <2>2, <2>3, <2>4, <2>5 DEF RecoveryInv
<1>8. ASSUME NEW p \in Inst, CloseBegin(p) \/ CloseStep(p) \/ L1Drop(p) \/ Disconnect(p)
      PROVE  RecoveryInv'
  <2>1. UNCHANGED <<op, rec, sub, healthState, invalidationReady>>
    BY <1>8, WorldFrame
  <2>2. \A q \in Inst : l1[q] = NoEntries => l1'[q] = NoEntries
    BY <1>8, <1>c, <1>d, WorldFrame
  <2> QED
    BY <2>1, <2>2 DEF RecoveryInv
<1>9. ASSUME NEW p \in Inst, Crash(p) PROVE RecoveryInv'
  <2>1. op'[p] = OpIdle /\ rec'[p] = RecIdle
    BY <1>9, CrashFrame
  <2>2. \A q \in Inst \ {p} : /\ op'[q] = op[q] /\ rec'[q] = rec[q] /\ l1'[q] = l1[q]
                              /\ healthState'[q] = healthState[q] /\ sub'[q] = sub[q]
                              /\ invalidationReady'[q] = invalidationReady[q]
    BY <1>9, CrashFrame
  <2> QED
    BY <1>b, <2>1, <2>2 DEF RecoveryInv
<1>10. CASE ExternalFlush
  BY <1>10 DEF ExternalFlush, RecoveryInv, cacheVars, healthVars
<1> QED
  BY <1>1, <1>2, <1>3, <1>4, <1>5, <1>6, <1>7, <1>8, <1>9, <1>10
     DEF Next, SystemStep, Environment

(* An instance leaves the degraded state only with an empty L1, no mutation   *)
(* half done, and a subscription in place or about to be reported lost,        *)
(* whatever failed since its recovery began (health.go:120, recovery.go:34).   *)
THEOREM RecoveryIsClean == Spec => HealthyStartsEmpty
<1>1. TypeOK /\ RecoveryInv /\ [Next]_vars =>
        [\A p \in Inst :
           healthState[p] = "degraded" /\ healthState'[p] = "healthy" /\ sub'[p] # "start"
           => /\ l1'[p] = NoEntries /\ op'[p] = OpIdle
              /\ invalidationReady'[p] \/ sub'[p] \in {"degrade", "done"}]_vars
  <2> SUFFICES ASSUME TypeOK, RecoveryInv, Next, NEW p \in Inst,
                      healthState[p] = "degraded", healthState'[p] = "healthy", sub'[p] # "start"
               PROVE  /\ l1'[p] = NoEntries /\ op'[p] = OpIdle
                      /\ invalidationReady'[p] \/ sub'[p] \in {"degrade", "done"}
    OBVIOUS
  <2>a. \A g \in Reader : Home[g] \in Inst
    BY TieredAssumption
  <2>1. ASSUME NEW q \in Inst, RecStep(q)
        PROVE  /\ l1'[p] = NoEntries /\ op'[p] = OpIdle
               /\ invalidationReady'[p] \/ sub'[p] \in {"degrade", "done"}
    <3>1. q = p /\ rec[p].pc = "heal"
      BY <2>1, RecFrame
    <3>2. /\ l1[p] = NoEntries /\ op[p] = OpIdle
          /\ invalidationReady[p] \/ sub[p] \in {"degrade", "done"}
      BY <3>1 DEF RecoveryInv
    <3> QED
      BY <2>1, <3>1, <3>2, RecFrame
  <2>2. ASSUME NEW q \in Inst, OpStep(q) \/ OpBegin(q) \/ SubStep(q) PROVE FALSE
    BY <2>2, OpFrame, BeginFrame, SubFrame
  <2>3. ASSUME NEW g \in Reader, RdBegin(g) \/ RdStep(g) PROVE FALSE
    BY <2>3, <2>a, RdFrame, RdBeginFrame
  <2>4. ASSUME NEW q \in Inst, CloseBegin(q) \/ CloseStep(q) \/ L1Drop(q) \/ Disconnect(q) PROVE FALSE
    BY <2>4, WorldFrame
  <2>5. ASSUME NEW q \in Inst, Crash(q) PROVE FALSE
    BY <2>5, CrashFrame
  <2>6. CASE ExternalFlush
    BY <2>6 DEF ExternalFlush, healthVars
  <2> QED
    BY <2>1, <2>2, <2>3, <2>4, <2>5, <2>6 DEF Next, SystemStep, Environment
<1>2. TypeOK /\ RecoveryInv /\ [Next]_vars => RecoveryInv'
  BY RecoveryNext
<1>3. Init => RecoveryInv
  BY RecoveryInit
<1> QED
  BY <1>1, <1>2, <1>3, TypeCorrect, PTL DEF Spec, HealthyStartsEmpty

(***************************************************************************)
(* Own writes.                                                             *)
(***************************************************************************)

LEMMA RecentInit == Init => RecentInv
<1> SUFFICES ASSUME Init PROVE RecentInv
  OBVIOUS
<1>1. \A p \in Inst, k \in Key : own[p][k] = 0 /\ l1[p][k] = 0 /\ redis[k] \in {0, 1}
  BY DEF Init, NoEntries
<1>2. \A p \in Inst : op[p].pc = "idle" /\ op[p].at = 0 /\ op[p].keys = {}
  BY DEF Init, OpIdle
<1>3. \A g \in Reader : rd[g].ver = 0 /\ rd[g].pc = "idle" /\ mutationVersion[Home[g]] = 0
  BY TieredAssumption DEF Init, RdIdle
<1>4. ASSUME NEW p \in Inst
      PROVE  RedisRecent(p) /\ OpShape(p) /\ L1Recent(p)
  <2>1. RedisRecent(p)
    BY <1>1, <1>2 DEF RedisRecent, Recent, Unapplied, Init
  <2> QED
    BY <1>1, <1>2, <2>1 DEF OpShape, L1Recent, Recent
<1>5. ReadsRecent
  BY <1>3 DEF ReadsRecent
<1> QED
  BY <1>4, <1>5 DEF RecentInv

(* An instance that takes no part in a step is left as it was. *)
LEMMA OthersRecent ==
  ASSUME TypeOK, RecentInv, NEW q \in Inst,
         clock' \in {clock, clock + 1},
         \A k \in Key : redis'[k] \in {0, redis[k], clock + 1},
         op'[q] = op[q], own'[q] = own[q],
         \/ l1'[q] = l1[q] /\ healthState'[q] = healthState[q]
         \/ healthState'[q] = "degraded"
         \/ healthState'[q] = healthState[q] /\ \A k \in Key : l1'[q][k] \in {0, l1[q][k]}
  PROVE  RedisRecent(q)' /\ OpShape(q)' /\ L1Recent(q)'
<1>a. /\ clock \in Nat /\ redis \in [Key -> Nat] /\ own[q] \in [Key -> Nat] /\ op[q] \in OpType
      /\ RedisRecent(q) /\ OpShape(q) /\ L1Recent(q)
  BY DEF TypeOK, RecentInv
<1>b. op[q].at \in Nat /\ op[q].keys \in SUBSET Key
  BY <1>a DEF OpType
<1>1. Unapplied(q)' = Unapplied(q) /\ Changed(q)' = Changed(q) /\ Unstored(q)' = Unstored(q)
  BY DEF Unapplied, Changed, Unstored
<1>2. Unapplied(q) \in SUBSET Key
  BY <1>b DEF Unapplied, Changed
<1>3. RedisRecent(q)'
  <2>1. ASSUME NEW k \in Key
        PROVE  (own[q][k] <= clock + 1)' /\ Recent(q, k, redis[k])'
    BY <1>a, <2>1 DEF RedisRecent, Recent
  <2>2. ASSUME NEW k \in Unapplied(q)
        PROVE  redis'[k] = 0 \/ redis'[k] >= op[q].at
    BY <1>a, <1>b, <1>2, <2>2 DEF RedisRecent
  <2>3. op[q].at <= clock' + 1
    BY <1>a, <1>b DEF RedisRecent
  <2> QED
    BY <1>1, <2>1, <2>2, <2>3 DEF RedisRecent
<1>4. OpShape(q)'
  BY <1>a, <1>1 DEF OpShape
<1>5. L1Recent(q)'
  BY <1>a, <1>1 DEF L1Recent, Recent
<1> QED
  BY <1>3, <1>4, <1>5

(* The steps of a mutation, seen from its own instance. *)
LEMMA RecentCommit ==
  ASSUME TypeOK, RecentInv, NEW p \in Inst,
         L2Commit(p) \/ FlushScan(p) \/ FlushScanMarker(p) \/ FlushScanned(p)
  PROVE  RedisRecent(p)' /\ OpShape(p)' /\ L1Recent(p)'
<1> USE DEF OpUnchanged, localVars, cacheVars, healthVars, boundVars, historyVars, redisVars
<1>a. /\ clock \in Nat /\ redis \in [Key -> Nat] /\ own[p] \in [Key -> Nat]
      /\ op \in [Inst -> OpType] /\ op[p] \in OpType
      /\ RedisRecent(p) /\ OpShape(p) /\ L1Recent(p)
  BY DEF TypeOK, RecentInv
<1>b. op[p].at \in Nat /\ op[p].keys \in SUBSET Key /\ op[p].left \in SUBSET (Key \cup {NoKey})
  BY <1>a DEF OpType
<1>1. CASE L2Commit(p)
  <2>1. op'[p] = [op[p] EXCEPT !.pc = "bump", !.at = clock + 1, !.l1op = L1Op(p)]
    BY <1>1, <1>a DEF L2Commit, OpSet
  <2>2. /\ op'[p].pc = "bump" /\ op'[p].at = clock + 1 /\ op'[p].l1op = L1Op(p)
        /\ op'[p].kind = op[p].kind /\ op'[p].keys = op[p].keys
    BY <1>a, <2>1 DEF OpType
  <2>3. clock' = clock + 1 /\ redis' = Committed(p) /\ UNCHANGED <<own, l1, healthState>>
    BY <1>1 DEF L2Commit
  <2>4. RedisRecent(p)'
    <3>1. ASSUME NEW k \in Key
          PROVE  (own[p][k] <= clock + 1)' /\ Recent(p, k, redis[k])'
      BY <1>a, <2>3 DEF RedisRecent, Recent, Committed
    <3>2. ASSUME NEW k \in Unapplied(p)'
          PROVE  redis'[k] = 0 \/ redis'[k] >= op'[p].at
      <4>1. k \in op[p].keys /\ op[p].kind # "touch"
        BY <2>2, <3>2 DEF Unapplied, Changed
      <4> QED
        BY <1>a, <1>b, <2>2, <2>3, <4>1 DEF Committed
    <3> QED
      BY <1>a, <2>2, <2>3, <3>1, <3>2 DEF RedisRecent
  <2>5. OpShape(p)'
    BY <2>2 DEF OpShape, L1Op
  <2>6. L1Recent(p)'
    <3>1. op[p].pc = "l2"
      BY <1>1 DEF L2Commit
    <3> QED
      BY <1>a, <2>2, <2>3, <3>1 DEF L1Recent, Unstored, Recent
  <2> QED
    BY <2>4, <2>5, <2>6
<1>2. CASE FlushScan(p)
  <2>1. PICK k \in op[p].left \cap Key :
          redis' = [redis EXCEPT ![k] = 0] /\ OpSet(p, [op[p] EXCEPT !.left = @ \ {k}])
    BY <1>2 DEF FlushScan
  <2>2. op'[p] = [op[p] EXCEPT !.left = @ \ {k}]
    BY <2>1, <1>a DEF OpSet
  <2>3. /\ op'[p].pc = "l2" /\ op'[p].kind = "flush" /\ op'[p].at = op[p].at
        /\ op'[p].keys = op[p].keys /\ op'[p].left = op[p].left \ {k}
    BY <1>2, <1>a, <2>2 DEF OpType, FlushScan
  <2>4. op[p].pc = "l2" /\ op[p].kind = "flush" /\ UNCHANGED <<clock, own, l1, healthState>>
    BY <1>2 DEF FlushScan
  <2>5. \A j \in Key : redis'[j] = IF j = k THEN 0 ELSE redis[j]
    BY <1>a, <2>1
  <2>6. Unapplied(p)' \subseteq Unapplied(p) \cup {k} /\ Unapplied(p)' \subseteq Key
    BY <1>b, <2>3, <2>4 DEF Unapplied, Changed
  <2>7. RedisRecent(p)'
    BY <1>a, <2>3, <2>4, <2>5, <2>6 DEF RedisRecent, Recent
  <2>8. OpShape(p)' /\ L1Recent(p)'
    BY <1>a, <2>3, <2>4 DEF OpShape, L1Recent, Unstored, Recent
  <2> QED
    BY <2>7, <2>8
<1>3. CASE FlushScanMarker(p)
  <2>1. op'[p] = [op[p] EXCEPT !.left = @ \ {NoKey}]
    BY <1>3, <1>a DEF FlushScanMarker, OpSet
  <2>2. /\ op'[p].pc = "l2" /\ op'[p].kind = "flush" /\ op'[p].at = op[p].at
        /\ op'[p].keys = op[p].keys /\ op'[p].left = op[p].left \ {NoKey}
    BY <1>3, <1>a, <2>1 DEF OpType, FlushScanMarker
  <2>3. op[p].pc = "l2" /\ op[p].kind = "flush" /\ UNCHANGED <<redis, clock, own, l1, healthState>>
    BY <1>3 DEF FlushScanMarker
  <2>4. Unapplied(p)' \subseteq Unapplied(p) /\ Unapplied(p)' \subseteq Key
    BY <1>b, <2>2, <2>3, TieredAssumption DEF Unapplied, Changed
  <2>5. RedisRecent(p)'
    BY <1>a, <2>2, <2>3, <2>4 DEF RedisRecent, Recent
  <2>6. OpShape(p)' /\ L1Recent(p)'
    BY <1>a, <2>2, <2>3 DEF OpShape, L1Recent, Unstored, Recent
  <2> QED
    BY <2>5, <2>6
<1>4. CASE FlushScanned(p)
  <2>1. op'[p] = [op[p] EXCEPT !.pc = "bump", !.l1op = "flush"]
    BY <1>4, <1>a DEF FlushScanned, OpSet
  <2>2. /\ op'[p].pc = "bump" /\ op'[p].kind = "flush" /\ op'[p].at = op[p].at
        /\ op'[p].keys = op[p].keys /\ op'[p].l1op = "flush"
    BY <1>4, <1>a, <2>1 DEF OpType, FlushScanned
  <2>3. /\ op[p].pc = "l2" /\ op[p].kind = "flush" /\ op[p].left = {}
        /\ UNCHANGED <<redis, clock, own, l1, healthState>>
    BY <1>4 DEF FlushScanned
  <2>4. Unapplied(p)' \subseteq Unapplied(p) /\ Unapplied(p)' \subseteq Key
    BY <1>b, <2>2, <2>3 DEF Unapplied, Changed
  <2>5. RedisRecent(p)'
    BY <1>a, <2>2, <2>3, <2>4 DEF RedisRecent, Recent
  <2>6. OpShape(p)' /\ L1Recent(p)'
    BY <1>a, <2>2, <2>3 DEF OpShape, L1Recent, Unstored, Recent
  <2> QED
    BY <2>5, <2>6
<1> QED
  BY <1>1, <1>2, <1>3, <1>4

LEMMA RecentEnd ==
  ASSUME TypeOK, RecentInv, NEW p \in Inst,
         L2Reject(p) \/ L2Fail(p) \/ L2LostReply(p) \/ OpPublish(p) \/ OpMark(p)
  PROVE  RedisRecent(p)' /\ OpShape(p)' /\ L1Recent(p)'
<1> USE DEF OpUnchanged, localVars, cacheVars, healthVars, boundVars, historyVars, redisVars
<1>a. /\ clock \in Nat /\ redis \in [Key -> Nat] /\ own[p] \in [Key -> Nat]
      /\ op \in [Inst -> OpType] /\ op[p] \in OpType
      /\ RedisRecent(p) /\ OpShape(p) /\ L1Recent(p)
  BY DEF TypeOK, RecentInv
<1>b. op[p].at \in Nat
  BY <1>a DEF OpType
<1>c. OpIdle.pc = "idle" /\ OpIdle.at = 0
  BY DEF OpIdle
<1>d. ASSUME NEW r, OpSet(p, r) PROVE op'[p] = r
  BY <1>a, <1>d DEF OpSet
<1>1. op'[p].pc \in {"idle", "publish", "mark"} /\ op'[p].at \in {0, op[p].at}
  <2>1. CASE L2Reject(p) \/ L2Fail(p) \/ L2LostReply(p) \/ OpMark(p)
    <3>1. op'[p] = OpIdle
      BY <2>1, <1>d DEF L2Reject, L2Fail, L2LostReply, OpMark, GiveUp
    <3> QED
      BY <1>c, <3>1
  <2>2. CASE OpPublish(p)
    <3>1. PICK k \in op[p].left :
            \/ OpSet(p, OpIdle)
            \/ OpSet(p, [op[p] EXCEPT !.left = @ \ {k}])
            \/ OpSet(p, [op[p] EXCEPT !.pc = "mark"])
      BY <2>2 DEF OpPublish
    <3>2. \/ op'[p] = OpIdle
          \/ op'[p] = [op[p] EXCEPT !.left = @ \ {k}]
          \/ op'[p] = [op[p] EXCEPT !.pc = "mark"]
      BY <3>1, <1>d
    <3>3. op[p].pc = "publish"
      BY <2>2 DEF OpPublish
    <3> QED
      BY <1>a, <1>c, <3>2, <3>3 DEF OpType
  <2> QED
    BY <2>1, <2>2
<1>2. /\ clock' \in {clock, clock + 1} /\ UNCHANGED own
      /\ \A k \in Key : redis'[k] \in {0, redis[k], clock + 1}
  <2>1. CASE L2LostReply(p)
    BY <2>1, <1>a DEF L2LostReply, Committed, GiveUp
  <2>2. CASE L2Reject(p) \/ L2Fail(p) \/ OpPublish(p) \/ OpMark(p)
    BY <2>2 DEF L2Reject, L2Fail, GiveUp, OpPublish, OpMark
  <2> QED
    BY <2>1, <2>2
<1>3. \/ healthState'[p] = "degraded"
      \/ UNCHANGED <<l1, healthState>> /\ op[p].pc # "store"
  <2>1. CASE L2Fail(p) \/ L2LostReply(p) \/ OpMark(p)
    BY <2>1, Degraded DEF L2Fail, L2LostReply, OpMark, GiveUp
  <2>2. CASE L2Reject(p) \/ OpPublish(p)
    BY <2>2 DEF L2Reject, OpPublish
  <2> QED
    BY <2>1, <2>2
<1>4. RedisRecent(p)'
  <2>1. Unapplied(p)' = {}
    BY <1>1 DEF Unapplied
  <2>2. op'[p].at <= clock' + 1
    BY <1>a, <1>b, <1>1, <1>2 DEF RedisRecent
  <2>3. \A k \in Key : (own[p][k] <= clock + 1)' /\ Recent(p, k, redis[k])'
    BY <1>a, <1>2 DEF RedisRecent, Recent
  <2> QED
    BY <2>1, <2>2, <2>3 DEF RedisRecent
<1>5. OpShape(p)'
  BY <1>1 DEF OpShape
<1>6. L1Recent(p)'
  BY <1>a, <1>1, <1>2, <1>3 DEF L1Recent, Unstored, Recent
<1> QED
  BY <1>4, <1>5, <1>6

LEMMA RecentLocal ==
  ASSUME TypeOK, RecentInv, NEW p \in Inst,
         Bump(p) \/ StoreKey(p) \/ Reconcile(p) \/ FlushStore(p)
  PROVE  RedisRecent(p)' /\ OpShape(p)' /\ L1Recent(p)'
<1> USE DEF OpUnchanged, localVars, cacheVars, healthVars, boundVars, historyVars, redisVars
<1>a. /\ clock \in Nat /\ redis \in [Key -> Nat] /\ own \in [Inst -> [Key -> Nat]]
      /\ l1 \in [Inst -> [Key -> Nat]] /\ op \in [Inst -> OpType] /\ op[p] \in OpType
      /\ RedisRecent(p) /\ OpShape(p) /\ L1Recent(p)
  BY DEF TypeOK, RecentInv
<1>b. op[p].at \in Nat /\ op[p].keys \in SUBSET Key /\ Changed(p) \subseteq op[p].keys
  BY <1>a DEF OpType, Changed
<1>c. ASSUME NEW r, OpSet(p, r) PROVE op'[p] = r
  BY <1>a, <1>c DEF OpSet
<1>1. CASE Bump(p)
  <2>1. PICK late \in BOOLEAN :
          OpSet(p, [op[p] EXCEPT !.pc = "store", !.left = op[p].keys,
                                 !.l1op = IF late /\ @ \in {"store", "touch"} THEN "forget" ELSE @])
    BY <1>1 DEF Bump
  <2>2. op'[p] = [op[p] EXCEPT !.pc = "store", !.left = op[p].keys,
                    !.l1op = IF late /\ @ \in {"store", "touch"} THEN "forget" ELSE @]
    BY <2>1, <1>c
  <2>3. /\ op'[p].pc = "store" /\ op'[p].left = op[p].keys /\ op'[p].keys = op[p].keys
        /\ op'[p].kind = op[p].kind /\ op'[p].at = op[p].at /\ op'[p].refused = op[p].refused
        /\ op'[p].l1op \in {op[p].l1op, "forget"}
    BY <1>a, <2>2 DEF OpType
  <2>4. /\ op[p].pc = "bump" /\ UNCHANGED <<redis, clock, l1, healthState>>
        /\ \A k \in Key : own'[p][k] = IF k \in Changed(p) THEN op[p].at ELSE own[p][k]
    BY <1>1, <1>a DEF Bump, Changed
  <2>5. Changed(p)' = Changed(p) /\ Unapplied(p) = Changed(p) /\ Unapplied(p)' = Changed(p)
    BY <2>3, <2>4 DEF Changed, Unapplied
  <2>6. Unstored(p) = {} /\ Unstored(p)' = Changed(p)
    BY <1>b, <2>3, <2>4, <2>5 DEF Unstored
  <2>7. RedisRecent(p)'
    <3>1. \A k \in Key : (own[p][k] <= clock + 1)' /\ Recent(p, k, redis[k])'
      BY <1>a, <1>b, <2>4, <2>5 DEF RedisRecent, Recent
    <3> QED
      BY <1>a, <2>3, <2>4, <2>5, <3>1 DEF RedisRecent
  <2>8. OpShape(p)'
    BY <1>a, <1>b, <2>3, <2>4, <2>5 DEF OpShape
  <2>9. L1Recent(p)'
    BY <1>a, <2>4, <2>6 DEF L1Recent, Recent
  <2> QED
    BY <2>7, <2>8, <2>9
<1>2. CASE StoreKey(p)
  <2>1. PICK k \in op[p].left :
          \/ /\ l1' = [l1 EXCEPT ![p][k] = Stored(p, k)]
             /\ OpSet(p, [op[p] EXCEPT !.left = @ \ {k}])
          \/ /\ OpSet(p, [op[p] EXCEPT !.left = @ \ {k}, !.refused = TRUE])
             /\ UNCHANGED l1
    BY <1>2 DEF StoreKey
  <2>2. op[p].pc = "store" /\ op[p].l1op # "flush" /\ UNCHANGED <<redis, clock, own, healthState>>
    BY <1>2 DEF StoreKey
  <2>3. \/ op'[p] = [op[p] EXCEPT !.left = @ \ {k}]
        \/ op'[p] = [op[p] EXCEPT !.left = @ \ {k}, !.refused = TRUE] /\ UNCHANGED l1
    BY <2>1, <1>c
  <2> DEFINE Shorter(r) ==
          /\ r.pc = op[p].pc /\ r.left = op[p].left \ {k} /\ r.keys = op[p].keys
          /\ r.kind = op[p].kind /\ r.at = op[p].at /\ r.l1op = op[p].l1op
  <2>4. Shorter(op'[p]) /\ op'[p].pc = "store"
    <3>1. op[p] \in OpType
      BY <1>a
    <3>2. Shorter([op[p] EXCEPT !.left = @ \ {k}])
      BY ONLY <3>1 DEF OpType
    <3>3. Shorter([op[p] EXCEPT !.left = @ \ {k}, !.refused = TRUE])
      BY ONLY <3>1 DEF OpType
    <3>4. Shorter(op'[p])
      <4> HIDE DEF Shorter
      <4> QED
        BY <2>3, <3>2, <3>3
    <3> QED
      BY <2>2, <3>4
  <2>5. Changed(p)' = Changed(p) /\ Unapplied(p)' = Unapplied(p)
    BY <2>2, <2>4 DEF Changed, Unapplied
  <2>6. RedisRecent(p)'
    BY <1>a, <2>2, <2>4, <2>5 DEF RedisRecent, Recent
  <2>7. OpShape(p)'
    BY <1>a, <2>2, <2>4, <2>5 DEF OpShape
  <2>8. L1Recent(p)'
    <3>1. CASE op'[p].refused /\ UNCHANGED l1
      <4>1. Unstored(p)' = Changed(p) /\ Unstored(p) \subseteq Changed(p)
        BY <1>b, <2>2, <2>4, <2>5, <3>1 DEF Unstored
      <4> QED
        BY <1>a, <2>2, <3>1, <4>1 DEF L1Recent, Recent
    <3>2. CASE l1' = [l1 EXCEPT ![p][k] = Stored(p, k)] /\ op'[p] = [op[p] EXCEPT !.left = @ \ {k}]
      <4>1. op'[p].refused = op[p].refused
        BY <1>a, <3>2 DEF OpType
      <4>2. k \in Key
        BY <1>a, <1>b, <2>2 DEF OpShape
      <4>3. \A j \in Key : l1'[p][j] = IF j = k THEN Stored(p, k) ELSE l1[p][j]
        BY <1>a, <3>2, <4>2
      <4>4. Unstored(p)' \subseteq Unstored(p) /\ Unstored(p) \subseteq Unstored(p)' \cup {k}
        BY <2>2, <2>4, <2>5, <4>1 DEF Unstored
      <4>5. Recent(p, k, Stored(p, k)) \/ k \in Unstored(p)' \/ healthState[p] # "healthy"
        <5>1. CASE op[p].l1op = "forget"
          BY <5>1 DEF Stored, Recent
        <5>2. CASE op[p].l1op = "store"
          <6>0. op[p].kind # "touch"
            BY <1>a, <2>2, <5>2 DEF OpShape
          <6>2. k \in op[p].keys
            BY <1>a, <2>2 DEF OpShape
          <6>1. k \in Changed(p) /\ own[p][k] <= op[p].at
            BY <1>a, <2>2, <6>0, <6>2 DEF OpShape, Changed
          <6> QED
            BY <1>a, <1>b, <4>2, <5>2, <6>1 DEF Stored, Recent
        <5>3. CASE op[p].l1op = "touch"
          <6>1. Stored(p, k) = l1[p][k]
            BY <5>3 DEF Stored
          <6>2. Unstored(p) = {}
            BY <1>a, <2>2, <5>3 DEF OpShape, Unstored, Changed
          <6> QED
            BY <1>a, <4>2, <6>1, <6>2 DEF L1Recent
        <5> QED
          BY <1>a, <2>2, <5>1, <5>2, <5>3 DEF OpType
      <4> QED
        BY <1>a, <2>2, <4>3, <4>4, <4>5 DEF L1Recent, Recent
    <3> QED
      BY <2>1, <2>3, <3>1, <3>2, <1>a, <1>c DEF OpType
  <2> QED
    BY <2>6, <2>7, <2>8
<1>3. CASE Reconcile(p) \/ FlushStore(p)
  <2>1. \E left : op'[p] = [op[p] EXCEPT !.pc = "publish", !.left = left]
    BY <1>3, <1>c DEF Reconcile, FlushStore
  <2>2. op'[p].pc = "publish" /\ op'[p].at = op[p].at
    BY <1>a, <2>1 DEF OpType
  <2>3. op[p].pc = "store" /\ UNCHANGED <<redis, clock, own>>
    BY <1>3 DEF Reconcile, FlushStore
  <2>4. Unapplied(p)' = {} /\ Unstored(p)' = {}
    BY <2>2 DEF Unapplied, Unstored
  <2>5. RedisRecent(p)' /\ OpShape(p)'
    BY <1>a, <2>2, <2>3, <2>4 DEF RedisRecent, OpShape, Recent
  <2>6. \/ healthState'[p] = "degraded"
        \/ l1'[p] = NoEntries
        \/ UNCHANGED <<l1, healthState>> /\ ~op[p].refused /\ op[p].left = {}
    BY <1>3, Degraded, Emptied DEF Reconcile, Reconciled, FlushStore
  <2>7. L1Recent(p)'
    <3>1. CASE healthState'[p] = "degraded"
      BY <3>1 DEF L1Recent
    <3>2. CASE l1'[p] = NoEntries
      BY <3>2 DEF L1Recent, Recent, NoEntries
    <3>3. CASE UNCHANGED <<l1, healthState>> /\ ~op[p].refused /\ op[p].left = {}
      <4>1. Unstored(p) = {}
        BY <3>3 DEF Unstored
      <4> QED
        BY <1>a, <2>3, <3>3, <4>1 DEF L1Recent, Recent
    <3> QED
      BY <2>6, <3>1, <3>2, <3>3
  <2> QED
    BY <2>5, <2>7
<1> QED
  BY <1>1, <1>2, <1>3

LEMMA RecentBegin ==
  ASSUME TypeOK, RecentInv, NEW p \in Inst, OpBegin(p)
  PROVE  RedisRecent(p)' /\ OpShape(p)' /\ L1Recent(p)'
<1>a. /\ clock \in Nat /\ op \in [Inst -> OpType] /\ op[p].pc = "idle"
      /\ RedisRecent(p) /\ L1Recent(p)
  BY DEF TypeOK, RecentInv, OpBegin, MutexFree
<1>1. PICK kind, keys :
        OpSet(p, [OpIdle EXCEPT !.pc = "l2", !.kind = kind, !.keys = keys,
                                !.left = Matched(kind, keys), !.at = clock + 1])
  BY DEF OpBegin
<1>2. op'[p] = [OpIdle EXCEPT !.pc = "l2", !.kind = kind, !.keys = keys,
                              !.left = Matched(kind, keys), !.at = clock + 1]
  BY <1>1, <1>a DEF OpSet
<1>3. /\ op'[p].pc = "l2" /\ op'[p].at = clock + 1
      /\ op'[p].keys \subseteq op'[p].left
  BY <1>2 DEF OpIdle, Matched
<1>4. UNCHANGED <<redis, clock, own, l1, healthState>>
  BY BeginFrame
<1>5. Unapplied(p)' = {} /\ Unstored(p)' = {} /\ Unstored(p) = {}
  BY <1>a, <1>3 DEF Unapplied, Changed, Unstored
<1>6. RedisRecent(p)'
  BY <1>a, <1>3, <1>4, <1>5 DEF RedisRecent, Recent
<1> QED
  BY <1>a, <1>3, <1>4, <1>5, <1>6 DEF OpShape, L1Recent, Recent

(* What a step of a mutation means for everybody else. *)
LEMMA OpShared ==
  ASSUME TypeOK, NEW p \in Inst, OpStep(p)
  PROVE  /\ clock' \in {clock, clock + 1}
         /\ \A k \in Key : redis'[k] \in {0, redis[k], clock + 1}
         /\ \A q \in Inst \ {p} : own'[q] = own[q] /\ mutationVersion'[q] = mutationVersion[q]
         /\ \/ mutationVersion'[p] = mutationVersion[p] + 1
            \/ mutationVersion'[p] = mutationVersion[p] /\ own'[p] = own[p]
<1> USE DEF OpUnchanged, localVars, cacheVars, boundVars, historyVars, redisVars
<1>a. /\ redis \in [Key -> Nat] /\ own \in [Inst -> [Key -> Nat]] /\ mutationVersion \in [Inst -> Nat]
  BY DEF TypeOK
<1>1. CASE L2Commit(p) \/ L2LostReply(p)
  BY <1>1, <1>a DEF L2Commit, L2LostReply, Committed, GiveUp
<1>2. CASE FlushScan(p)
  BY <1>2, <1>a DEF FlushScan
<1>3. CASE Bump(p)
  BY <1>3, <1>a DEF Bump, BumpVersion
<1>4. CASE L2Reject(p) \/ FlushScanMarker(p) \/ FlushScanned(p) \/ L2Fail(p)
  BY <1>4 DEF L2Reject, FlushScanMarker, FlushScanned, L2Fail, GiveUp
<1>5. CASE StoreKey(p) \/ Reconcile(p) \/ FlushStore(p) \/ OpPublish(p) \/ OpMark(p)
  BY <1>5 DEF StoreKey, Reconcile, FlushStore, OpPublish, OpMark
<1> QED
  BY <1>1, <1>2, <1>3, <1>4, <1>5 DEF OpStep

(* A bumped version makes every read in flight start again. *)
LEMMA ReadsKept ==
  ASSUME TypeOK, ReadsRecent, UNCHANGED rd,
         \A p \in Inst : \/ mutationVersion'[p] = mutationVersion[p] + 1
                         \/ mutationVersion'[p] = mutationVersion[p] /\ own'[p] = own[p]
  PROVE  ReadsRecent'
<1> SUFFICES ASSUME NEW g \in Reader
             PROVE  /\ rd[g].ver <= mutationVersion'[Home[g]]
                    /\ rd[g].pc = "warm" /\ ~rd[g].err /\ rd[g].ver = mutationVersion'[Home[g]] =>
                         \A k \in Key : Recent(Home[g], k, rd[g].l2[k])'
  BY DEF ReadsRecent, VersionCurrent
<1>1. Home[g] \in Inst /\ rd[g].ver \in Nat /\ mutationVersion[Home[g]] \in Nat
  BY TieredAssumption DEF TypeOK, RdType
<1> QED
  BY <1>1 DEF ReadsRecent, VersionCurrent, Recent

LEMMA ReadsOfRead ==
  ASSUME TypeOK, RecentInv, NEW g \in Reader, RdStep(g)
  PROVE  ReadsRecent'
<1> USE DEF RdUnchanged, redisVars, historyVars
<1>a. /\ Home[g] \in Inst /\ rd \in [Reader -> RdType] /\ rd[g] \in RdType
      /\ mutationVersion[Home[g]] \in Nat /\ ReadsRecent /\ RedisRecent(Home[g])
  BY TieredAssumption DEF TypeOK, RecentInv
<1>b. UNCHANGED <<redis, mutationVersion, own>> /\ \A h \in Reader \ {g} : rd'[h] = rd[h]
  BY RdFrame
<1>c. ASSUME NEW r, RdSet(g, r) PROVE rd'[g] = r
  BY <1>a, <1>c DEF RdSet
<1>d. RdIdle.ver = 0 /\ RdIdle.pc = "idle"
  BY DEF RdIdle
<1>e. rd[g].ver \in Nat /\ rd[g].ver <= mutationVersion[Home[g]]
  BY <1>a DEF RdType, ReadsRecent
<1>f. ASSUME rd'[g].ver <= mutationVersion[Home[g]],
             rd'[g].pc = "warm" => rd'[g].err \/ \A k \in Key : Recent(Home[g], k, rd'[g].l2[k])
      PROVE  ReadsRecent'
  BY <1>a, <1>b, <1>f DEF ReadsRecent, VersionCurrent, Recent
<1> USE DEF RdGoto, RdAbort
<1>1. CASE RdTop(g)
  <2>1. \/ rd'[g] = RdIdle
        \/ rd'[g] = [RdIdle EXCEPT !.pc = "l1", !.many = rd[g].many, !.keys = rd[g].keys,
                       !.left = rd[g].keys,
                       !.ver = IF rd[g].many THEN mutationVersion[Home[g]] ELSE 0]
    BY <1>1, <1>c DEF RdTop
  <2>2. rd'[g].ver \in {0, mutationVersion[Home[g]]} /\ rd'[g].pc \in {"idle", "l1"}
    BY <2>1, <1>d DEF RdIdle
  <2> QED
    BY <1>a, <1>f, <2>2
<1>2. CASE RdL1(g)
  <2>1. PICK k \in rd[g].left :
          LET miss == rd[g].miss \cup (IF l1[Home[g]][k] = 0 THEN {k} ELSE {})
              left == rd[g].left \ {k}
          IN  rd'[g] = [rd[g] EXCEPT !.pc = AfterL1(g, left, miss), !.left = left,
                                     !.miss = miss, !.got = [@ EXCEPT ![k] = l1[Home[g]][k]]]
    BY <1>2, <1>c DEF RdL1
  <2> DEFINE miss == rd[g].miss \cup (IF l1[Home[g]][k] = 0 THEN {k} ELSE {})
             left == rd[g].left \ {k}
             pc   == AfterL1(g, left, miss)
  <2>2. pc # "warm"
    BY DEF AfterL1
  <2>3. rd'[g] = [rd[g] EXCEPT !.pc = pc, !.left = left, !.miss = miss,
                               !.got = [@ EXCEPT ![k] = l1[Home[g]][k]]]
    BY <2>1
  <2> HIDE DEF miss, left, pc
  <2>4. rd'[g].ver = rd[g].ver /\ rd'[g].pc # "warm"
    BY <1>a, <2>2, <2>3 DEF RdType
  <2> QED
    BY <1>e, <1>f, <2>4
<1>3. CASE RdHit(g)
  <2>1. rd'[g] = RdIdle \/ \E pc \in {"top", "ret"} : rd'[g] = [rd[g] EXCEPT !.pc = pc]
    BY <1>3, <1>c DEF RdHit
  <2>2. rd'[g].ver \in {0, rd[g].ver} /\ rd'[g].pc # "warm"
    BY <1>a, <1>d, <2>1 DEF RdType
  <2> QED
    BY <1>a, <1>e, <1>f, <2>2
<1>4. CASE RdVersion(g)
  <2>1. rd'[g] = [rd[g] EXCEPT !.pc = "l2", !.ver = mutationVersion[Home[g]]]
    BY <1>4, <1>c DEF RdVersion
  <2>2. rd'[g].ver = mutationVersion[Home[g]] /\ rd'[g].pc # "warm"
    BY <1>a, <2>1 DEF RdType
  <2> QED
    BY <1>a, <1>f, <2>2
<1>5. CASE RdL2(g)
  <2>1. \/ rd'[g] = [rd[g] EXCEPT !.pc = "warm",
                       !.l2 = [k \in Key |-> IF k \in rd[g].miss THEN redis[k] ELSE 0]]
        \/ rd'[g] = [rd[g] EXCEPT !.pc = "warm", !.err = TRUE]
    BY <1>5, <1>c DEF RdL2
  <2>2. /\ rd'[g].ver = rd[g].ver
        /\ rd'[g].err \/ \A k \in Key : rd'[g].l2[k] \in {0, redis[k]}
    <3>1. CASE rd'[g] = [rd[g] EXCEPT !.pc = "warm", !.err = TRUE]
      BY <1>a, <3>1 DEF RdType
    <3>2. CASE rd'[g] = [rd[g] EXCEPT !.pc = "warm",
                           !.l2 = [k \in Key |-> IF k \in rd[g].miss THEN redis[k] ELSE 0]]
      <4>1. rd'[g].l2 = [k \in Key |-> IF k \in rd[g].miss THEN redis[k] ELSE 0]
        BY <1>a, <3>2 DEF RdType
      <4>2. rd'[g].ver = rd[g].ver
        BY <1>a, <3>2 DEF RdType
      <4> QED
        BY <4>1, <4>2
    <3> QED
      BY <2>1, <3>1, <3>2
  <2>3. rd'[g].err \/ \A k \in Key : Recent(Home[g], k, rd'[g].l2[k])
    BY <1>a, <2>2 DEF RedisRecent, Recent
  <2> QED
    BY <1>e, <1>f, <2>2, <2>3
<1>6. CASE RdWarm(g)
  <2>1. rd'[g] = RdIdle \/ \E got : \E pc \in {"top", "ret"} : rd'[g] = [rd[g] EXCEPT !.pc = pc, !.got = got]
    <3>1. CASE RdAbort(g)
      BY <1>c, <3>1
    <3>2. CASE RdGoto(g, "top")
      <4>1. rd'[g] = [rd[g] EXCEPT !.pc = "top"]
        BY <1>c, <3>2
      <4>2. rd'[g] = [rd[g] EXCEPT !.pc = "top", !.got = rd[g].got]
        BY <1>a, <4>1 DEF RdType
      <4> QED
        BY <4>2
    <3>3. CASE Warm(g)
      <4>1. \E got : RdSet(g, [rd[g] EXCEPT !.pc = "ret", !.got = got])
        BY <3>3 DEF Warm
      <4> QED
        BY <1>c, <4>1
    <3> QED
      BY <1>6, <3>1, <3>2, <3>3 DEF RdWarm
  <2>2. rd'[g].ver \in {0, rd[g].ver} /\ rd'[g].pc # "warm"
    BY <1>a, <1>d, <2>1 DEF RdType
  <2> QED
    BY <1>a, <1>e, <1>f, <2>2
<1>7. CASE RdReturn(g)
  <2>1. rd'[g] = RdIdle
    BY <1>7, <1>c DEF RdReturn
  <2> QED
    BY <1>a, <1>d, <1>f, <2>1
<1> QED
  BY <1>1, <1>2, <1>3, <1>4, <1>5, <1>6, <1>7 DEF RdStep

(* What L1 is given from Redis passes the version check with no mutation in  *)
(* progress.                                                                 *)
LEMMA WarmRecent ==
  ASSUME TypeOK, RecentInv, NEW g \in Reader, RdStep(g),
         rd[g].pc = "warm", VersionCurrent(g), MutexFree(Home[g]), ~rd[g].err, Warm(g),
         UNCHANGED healthState
  PROVE  RedisRecent(Home[g])' /\ OpShape(Home[g])' /\ L1Recent(Home[g])'
<1> DEFINE p == Home[g]
<1>a. p \in Inst /\ RedisRecent(p) /\ OpShape(p) /\ L1Recent(p) /\ ReadsRecent
  BY TieredAssumption DEF RecentInv
<1>b. UNCHANGED <<redis, clock, own, op>>
  BY RdFrame
<1>1. RedisRecent(p)' /\ OpShape(p)'
  BY <1>a, <1>b DEF RedisRecent, OpShape, Recent, Unapplied, Changed
<1>2. Unstored(p) = {} /\ Unstored(p)' = {}
  BY <1>b DEF Unstored, MutexFree
<1>3. \A k \in Key : l1'[p][k] \in {l1[p][k], rd[g].l2[k]}
  BY <1>a DEF Warm, TypeOK
<1>4. \A k \in Key : Recent(p, k, rd[g].l2[k])
  BY <1>a DEF ReadsRecent
<1>5. L1Recent(p)'
  BY <1>a, <1>b, <1>2, <1>3, <1>4 DEF L1Recent, Recent
<1> QED
  BY <1>1, <1>5

LEMMA RecentNext == TypeOK /\ RecoveryInv /\ RecentInv /\ [Next]_vars => RecentInv'
<1> SUFFICES ASSUME TypeOK, RecoveryInv, RecentInv, [Next]_vars PROVE RecentInv'
  OBVIOUS
<1>a. /\ ReadsRecent
      /\ \A p \in Inst : RedisRecent(p) /\ OpShape(p) /\ L1Recent(p)
  BY DEF RecentInv
<1>b. \A g \in Reader : Home[g] \in Inst /\ mutationVersion[Home[g]] \in Nat
  BY TieredAssumption DEF TypeOK
<1>c. /\ clock \in Nat /\ redis \in [Key -> Nat]
      /\ \A p \in Inst : healthState[p] \in {"healthy", "degraded"}
  BY DEF TypeOK
<1> DEFINE Good(p) == RedisRecent(p) /\ OpShape(p) /\ L1Recent(p)
<1>d. ASSUME \A p \in Inst : Good(p)', ReadsRecent' PROVE RecentInv'
  BY <1>d DEF RecentInv
<1>e. ASSUME NEW q \in Inst, UNCHANGED <<redis, clock>>, op'[q] = op[q], own'[q] = own[q],
             \/ l1'[q] = l1[q] /\ healthState'[q] = healthState[q]
             \/ healthState'[q] = "degraded"
             \/ healthState'[q] = healthState[q] /\ \A k \in Key : l1'[q][k] \in {0, l1[q][k]}
      PROVE  Good(q)'
  BY <1>e, OthersRecent
<1> HIDE DEF Good
<1>1. CASE UNCHANGED vars
  <2>1. UNCHANGED <<redis, clock, op, own, l1, healthState, rd, mutationVersion>>
    BY <1>1 DEF vars, redisVars, cacheVars, healthVars, historyVars
  <2>2. \A q \in Inst : Good(q)'
    BY <1>e, <2>1
  <2>3. ReadsRecent'
    BY <1>a, <2>1, ReadsKept
  <2> QED
    BY <1>d, <2>2, <2>3
<1>2. ASSUME NEW p \in Inst, OpStep(p) PROVE RecentInv'
  <2>1. Good(p)'
    BY <1>2, RecentCommit, RecentEnd, RecentLocal DEF OpStep, Good
  <2>2. ASSUME NEW q \in Inst \ {p} PROVE Good(q)'
    <3>1. /\ clock' \in {clock, clock + 1}
          /\ \A k \in Key : redis'[k] \in {0, redis[k], clock + 1}
          /\ own'[q] = own[q]
      BY <1>2, OpShared
    <3>2. op'[q] = op[q] /\ l1'[q] = l1[q] /\ healthState'[q] = healthState[q]
      BY <1>2, OpFrame
    <3> QED
      BY <3>1, <3>2, OthersRecent DEF Good
  <2>3. ReadsRecent'
    BY <1>2, <1>a, OpFrame, OpShared, ReadsKept
  <2> QED
    BY <1>d, <2>1, <2>2, <2>3
<1>3. ASSUME NEW p \in Inst, OpBegin(p) PROVE RecentInv'
  <2>1. Good(p)'
    BY <1>3, RecentBegin DEF Good
  <2>2. ASSUME NEW q \in Inst \ {p} PROVE Good(q)'
    BY <1>3, <1>e, BeginFrame
  <2>3. ReadsRecent'
    BY <1>3, <1>a, BeginFrame, ReadsKept
  <2> QED
    BY <1>d, <2>1, <2>2, <2>3
<1>4. ASSUME NEW g \in Reader, RdBegin(g) PROVE RecentInv'
  <2>1. \A q \in Inst : Good(q)'
    BY <1>4, <1>e, RdBeginFrame
  <2>2. ReadsRecent'
    BY <1>4, <1>a, <1>b, RdBeginFrame DEF ReadsRecent, VersionCurrent, Recent
  <2> QED
    BY <1>d, <2>1, <2>2
<1>5. ASSUME NEW g \in Reader, RdStep(g) PROVE RecentInv'
  <2>1. /\ UNCHANGED <<redis, clock, op, own>>
        /\ \A q \in Inst \ {Home[g]} : l1'[q] = l1[q] /\ healthState'[q] = healthState[q]
    BY <1>5, RdFrame
  <2>2. \A q \in Inst \ {Home[g]} : Good(q)'
    BY <1>e, <2>1
  <2>3. Good(Home[g])'
    <3>1. CASE UNCHANGED <<l1, healthState>>
      BY <1>b, <1>e, <2>1, <3>1
    <3>2. CASE healthState'[Home[g]] = "degraded"
      BY <1>b, <1>e, <2>1, <3>2
    <3>3. CASE /\ rd[g].pc = "warm" /\ VersionCurrent(g) /\ MutexFree(Home[g]) /\ ~rd[g].err
               /\ Warm(g) /\ UNCHANGED healthState
      BY <1>5, <3>3, WarmRecent DEF Good
    <3> QED
      BY <1>5, <3>1, <3>2, <3>3, RdFrame
  <2>4. ReadsRecent'
    BY <1>5, ReadsOfRead
  <2> QED
    BY <1>d, <2>2, <2>3, <2>4
<1>6. ASSUME NEW p \in Inst, SubStep(p) PROVE RecentInv'
  <2>1. /\ UNCHANGED <<redis, clock, op, rd, own>>
        /\ \A q \in Inst \ {p} : l1'[q] = l1[q] /\ healthState'[q] = healthState[q]
        /\ healthState'[p] \in {healthState[p], "degraded"}
        /\ \A k \in Key : l1'[p][k] \in {0, l1[p][k]}
    BY <1>6, SubFrame
  <2>2. \A q \in Inst : Good(q)'
    BY <1>e, <2>1
  <2>3. ReadsRecent'
    BY <1>6, <1>a, SubFrame, ReadsKept
  <2> QED
    BY <1>d, <2>2, <2>3
<1>7. ASSUME NEW p \in Inst, RecStep(p) PROVE RecentInv'
  <2>1. /\ UNCHANGED <<redis, clock, op, rd, own, mutationVersion>>
        /\ \A q \in Inst \ {p} : l1'[q] = l1[q] /\ healthState'[q] = healthState[q]
        /\ l1'[p] \in {l1[p], NoEntries}
    BY <1>7, RecFrame
  <2>2. \A q \in Inst \ {p} : Good(q)'
    BY <1>e, <2>1
  <2>3. Good(p)'
    <3>1. CASE healthState'[p] = healthState[p]
      <4>1. \A k \in Key : l1'[p][k] \in {0, l1[p][k]}
        BY <2>1 DEF NoEntries
      <4> QED
        BY <1>e, <2>1, <3>1, <4>1
    <3>2. CASE healthState'[p] # healthState[p]
      <4>1. l1[p] = NoEntries
        BY <1>7, <3>2, RecFrame DEF RecoveryInv
      <4>2. \A k \in Key : l1'[p][k] = 0
        BY <2>1, <4>1 DEF NoEntries
      <4>3. L1Recent(p)'
        BY <4>2 DEF L1Recent, Recent
      <4>4. RedisRecent(p)' /\ OpShape(p)'
        BY <1>a, <2>1 DEF RedisRecent, OpShape, Recent, Unapplied, Changed
      <4> QED
        BY <4>3, <4>4 DEF Good
    <3> QED
      BY <3>1, <3>2
  <2>4. ReadsRecent'
    BY <1>a, <2>1, ReadsKept
  <2> QED
    BY <1>d, <2>2, <2>3, <2>4
<1>8. ASSUME NEW p \in Inst, CloseBegin(p) \/ CloseStep(p) \/ L1Drop(p) \/ Disconnect(p)
      PROVE  RecentInv'
  <2>1. /\ UNCHANGED <<redis, clock, own, healthState, op, rd>>
        /\ \A q \in Inst \ {p} : l1'[q] = l1[q]
        /\ \A k \in Key : l1'[p][k] \in {0, l1[p][k]}
    BY <1>8, WorldFrame
  <2>2. \A q \in Inst : Good(q)'
    BY <1>e, <2>1
  <2>3. ReadsRecent'
    BY <1>8, <1>a, <2>1, WorldFrame, ReadsKept
  <2> QED
    BY <1>d, <2>2, <2>3
<1>9. ASSUME NEW p \in Inst, Crash(p) PROVE RecentInv'
  <2>1. /\ UNCHANGED <<redis, clock, own>>
        /\ l1'[p] = NoEntries /\ op'[p] = OpIdle /\ mutationVersion'[p] = 0
        /\ \A g \in Reader : rd'[g] = IF Home[g] = p THEN RdIdle ELSE rd[g]
        /\ \A q \in Inst \ {p} : /\ l1'[q] = l1[q] /\ op'[q] = op[q]
                                 /\ healthState'[q] = healthState[q]
                                 /\ mutationVersion'[q] = mutationVersion[q]
    BY <1>9, CrashFrame
  <2>2. \A q \in Inst \ {p} : Good(q)'
    BY <1>e, <2>1
  <2>3. op'[p].pc = "idle" /\ op'[p].at = 0
    BY <2>1 DEF OpIdle
  <2>4. RedisRecent(p)' /\ OpShape(p)'
    BY <1>a, <1>c, <2>1, <2>3 DEF RedisRecent, OpShape, Recent, Unapplied
  <2>5. L1Recent(p)'
    BY <2>1 DEF L1Recent, Recent, NoEntries
  <2>6. ReadsRecent'
    <3>1. RdIdle.ver = 0 /\ RdIdle.pc = "idle"
      BY DEF RdIdle
    <3> QED
      BY <1>a, <1>b, <2>1, <3>1 DEF ReadsRecent, VersionCurrent, Recent
  <2> QED
    BY <1>d, <2>2, <2>4, <2>5, <2>6 DEF Good
<1>10. CASE ExternalFlush
  <2>1. /\ redis' = NoEntries
        /\ UNCHANGED <<clock, op, own, l1, healthState, rd, mutationVersion>>
    BY <1>10 DEF ExternalFlush, cacheVars, healthVars, historyVars
  <2>2. \A k \in Key : redis'[k] = 0
    BY <2>1 DEF NoEntries
  <2>3. \A q \in Inst : Good(q)'
    BY <2>1, <2>2, OthersRecent DEF Good
  <2>4. ReadsRecent'
    BY <1>a, <2>1, ReadsKept
  <2> QED
    BY <1>d, <2>3, <2>4
<1> QED
  BY <1>1, <1>2, <1>3, <1>4, <1>5, <1>6, <1>7, <1>8, <1>9, <1>10
     DEF Next, SystemStep, Environment

(* An instance that serves reads never answers from L1 with a value older    *)
(* than its own last mutation of the key: Get, GetMany, SetMany and the       *)
(* counters may race in any order, and recovery may come in between.          *)
THEOREM OwnWritesStay == Spec => []OwnWritesVisible
<1>1. ASSUME TypeOK, RecentInv PROVE OwnWritesVisible
  <2> SUFFICES ASSUME NEW p \in Inst, NEW k \in Key, Available(p), k \notin Unapplied(p)
               PROVE  l1[p][k] = 0 \/ l1[p][k] >= own[p][k]
    BY DEF OwnWritesVisible
  <2>1. k \notin Unstored(p)
    BY <1>1 DEF Unstored, Unapplied, Changed, RecentInv, OpShape
  <2> QED
    BY <1>1, <2>1 DEF RecentInv, L1Recent, Recent, Available
<1>2. Init => RecoveryInv /\ RecentInv
  BY RecoveryInit, RecentInit
<1>3. TypeOK /\ RecoveryInv /\ RecentInv /\ [Next]_vars => RecoveryInv' /\ RecentInv'
  BY RecoveryNext, RecentNext
<1> QED
  BY <1>1, <1>2, <1>3, TypeCorrect, PTL DEF Spec

(***************************************************************************)
(* Owed invalidations, with an L1 whose Flush does not fail.               *)
(***************************************************************************)

Owes(p) == pendingFlush[p] \/ pendingInvalidations[p] # {}

(* A mutation in progress while the instance is degraded holds mutationMu,   *)
(* which the subscriber needs to be ready again; so recovery never runs       *)
(* beside a mutation, and nothing is added behind its back to what it has     *)
(* published.                                                                *)
OwedInv(p) ==
    /\ invalidationReady[p] => sub[p] \in {"receive", "broken"}
    /\ pendingFlush[p] => pendingInvalidations[p] = {}
    /\ Owes(p) => healthState[p] = "degraded"
    /\ rec[p].pc \in {"lock", "flush", "enter", "heal"} => ~Owes(p)
    /\ rec[p].pc \notin {"idle", "done"} => healthState[p] = "degraded" /\ MutexFree(p)
    /\ healthState[p] = "degraded" /\ ~MutexFree(p) => sub[p] \notin {"flushed", "receive", "broken"}

(* No step of another instance counts. *)
Untouched(q) ==
    /\ op'[q] = op[q] /\ sub'[q] = sub[q] /\ rec'[q] = rec[q]
    /\ healthState'[q] = healthState[q] /\ invalidationReady'[q] = invalidationReady[q]
    /\ pendingFlush'[q] = pendingFlush[q] /\ pendingInvalidations'[q] = pendingInvalidations[q]

LEMMA OwedUntouched ==
  ASSUME NEW q \in Inst, OwedInv(q), Untouched(q)
  PROVE  OwedInv(q)'
  BY DEF Untouched, OwedInv, Owes, MutexFree

LEMMA OwedOp ==
  ASSUME TypeOK, "l1flush" \notin Faults, NEW p \in Inst, OwedInv(p), OpStep(p)
  PROVE  OwedInv(p)' /\ \A q \in Inst \ {p} : Untouched(q)
<1> USE DEF OpUnchanged, localVars, healthVars, messageVars, pendingVars
<1>a. /\ op \in [Inst -> OpType]
      /\ pendingFlush \in [Inst -> BOOLEAN] /\ pendingInvalidations \in [Inst -> SUBSET Key]
  BY DEF TypeOK
<1>b. ~FlushL1Fails
  BY DEF FlushL1Fails, Fault
<1>c. ASSUME GiveUp(p) \/ OpMark(p)
      PROVE  op'[p].pc = "idle" /\ healthState'[p] = "degraded"
  <2>1. TransitionToDegraded(p) /\ OpSet(p, OpIdle)
    BY <1>c DEF GiveUp, OpMark
  <2> QED
    BY <1>a, <2>1, Degraded DEF OpSet, OpIdle
<1>1. \/ UNCHANGED healthState
      \/ op'[p].pc = "idle" /\ healthState'[p] = "degraded"
  <2>1. CASE L2Commit(p) \/ L2Reject(p) \/ FlushScan(p) \/ FlushScanMarker(p) \/ FlushScanned(p)
             \/ Bump(p) \/ StoreKey(p) \/ OpPublish(p)
    BY <2>1 DEF L2Commit, L2Reject, FlushScan, FlushScanMarker, FlushScanned, Bump, StoreKey, OpPublish
  <2>2. CASE L2Fail(p) \/ L2LostReply(p) \/ OpMark(p)
    BY <1>c, <2>2 DEF L2Fail, L2LostReply
  <2>3. CASE Reconcile(p) \/ FlushStore(p)
    BY <1>b, <2>3 DEF Reconcile, Reconciled, FlushStore
  <2> QED
    BY <2>1, <2>2, <2>3 DEF OpStep
<1>2. \/ UNCHANGED <<pendingFlush, pendingInvalidations>>
      \/ /\ healthState'[p] = "degraded"
         /\ pendingFlush'[p] => pendingInvalidations'[p] = {} \/ pendingFlush[p]
         /\ pendingFlush[p] => pendingFlush'[p] /\ pendingInvalidations'[p] \in {{}, pendingInvalidations[p]}
         /\ \A q \in Inst \ {p} : /\ pendingFlush'[q] = pendingFlush[q]
                                  /\ pendingInvalidations'[q] = pendingInvalidations[q]
  <2>1. CASE OpMark(p)
    <3>1. MarkPending(p) /\ healthState'[p] = "degraded"
      BY <1>c, <2>1 DEF OpMark
    <3> QED
      BY <1>a, <3>1 DEF MarkPending
  <2>2. CASE ~OpMark(p)
    BY <2>2 DEF OpStep, L2Commit, L2Reject, FlushScan, FlushScanMarker, FlushScanned, L2Fail,
                L2LostReply, GiveUp, Bump, StoreKey, Reconcile, FlushStore, OpPublish
  <2> QED
    BY <2>1, <2>2
<1>3. OwedInv(p)'
  <2>1. /\ UNCHANGED <<sub, rec, invalidationReady>> /\ ~MutexFree(p)
        /\ healthState'[p] \in {healthState[p], "degraded"}
    BY OpFrame DEF MutexFree
  <2>2. rec[p].pc \in {"idle", "done"}
    BY <2>1 DEF OwedInv
  <2>3. pendingFlush'[p] => pendingInvalidations'[p] = {}
    BY <1>2 DEF OwedInv
  <2>4. Owes(p)' => healthState'[p] = "degraded"
    BY <1>2, <2>1 DEF OwedInv, Owes
  <2>5. healthState'[p] = "degraded" /\ ~MutexFree(p)' => sub'[p] \notin {"flushed", "receive", "broken"}
    BY <1>1, <2>1 DEF OwedInv, MutexFree
  <2> QED
    BY <2>1, <2>2, <2>3, <2>4, <2>5 DEF OwedInv
<1>4. \A q \in Inst \ {p} : Untouched(q)
  BY <1>2, OpFrame DEF Untouched
<1> QED
  BY <1>3, <1>4

LEMMA OwedSub ==
  ASSUME TypeOK, NEW p \in Inst, OwedInv(p), SubStep(p)
  PROVE  OwedInv(p)' /\ \A q \in Inst \ {p} : Untouched(q)
<1> USE DEF SubUnchanged, pendingVars, healthVars
<1>a. invalidationReady \in [Inst -> BOOLEAN] /\ sub \in [Inst -> SubPc]
  BY DEF TypeOK
<1>b. ASSUME NEW pc, SubGoto(p, pc)
      PROVE  sub'[p] = pc
  BY <1>a, <1>b DEF SubGoto
<1>1. /\ UNCHANGED <<op, rec, pendingFlush, pendingInvalidations>>
      /\ \A q \in Inst \ {p} : sub'[q] = sub[q] /\ healthState'[q] = healthState[q]
      /\ healthState'[p] \in {healthState[p], "degraded"}
  BY SubFrame DEF SubStep, SubSubscribe, SubSubscribeErr, SubLock, SubFlush, SubReady, SubIgnoreOwn,
                  SubApply, SubReceiveErr, SubClose, SubDegrade, SubDegradeFlush, SubRetry, SubStop
<1>2. \A q \in Inst \ {p} : invalidationReady'[q] = invalidationReady[q]
  BY ReadyOfOthers
<1>3. \/ /\ UNCHANGED <<sub, invalidationReady, healthState>>
      \/ /\ sub'[p] \in {"subscribed", "degrade", "start", "wait", "done"}
         /\ ~invalidationReady'[p] /\ UNCHANGED healthState
      \/ sub'[p] = "flushed" /\ MutexFree(p) /\ ~invalidationReady'[p] /\ UNCHANGED healthState
      \/ sub[p] = "flushed" /\ sub'[p] = "receive" /\ UNCHANGED healthState
      \/ sub[p] = "receive" /\ sub'[p] = "broken" /\ UNCHANGED healthState
      \/ sub'[p] \in {"flushing", "flushL1", "emptying"} /\ ~invalidationReady'[p]
  <2>1. CASE SubSubscribe(p) \/ SubSubscribeErr(p) \/ SubRetry(p) \/ SubStop(p)
    BY <1>b, <2>1 DEF SubSubscribe, SubSubscribeErr, SubRetry, SubStop, OwedInv
  <2>2. CASE SubFlush(p)
    BY <1>b, <2>2 DEF SubFlush, OwedInv
  <2>3. CASE SubReady(p)
    BY <1>b, <2>3 DEF SubReady
  <2>4. CASE SubIgnoreOwn(p) \/ SubApply(p)
    BY <1>b, <2>4 DEF SubIgnoreOwn, SubApply
  <2>5. CASE SubReceiveErr(p)
    BY <1>b, <2>5 DEF SubReceiveErr
  <2>6. CASE SubClose(p)
    BY <1>a, <1>b, <2>6 DEF SubClose
  <2>7. CASE SubDegrade(p) \/ SubDegradeFlush(p)
    BY <1>b, <2>7 DEF SubDegrade, SubDegradeFlush, OwedInv
  <2>8. CASE SubLock(p)
    BY <1>b, <2>8 DEF SubLock, OwedInv
  <2> QED
    BY <2>1, <2>2, <2>3, <2>4, <2>5, <2>6, <2>7, <2>8 DEF SubStep
<1>4. OwedInv(p)'
  BY <1>1, <1>3 DEF OwedInv, Owes, MutexFree
<1> QED
  BY <1>1, <1>2, <1>4 DEF Untouched

LEMMA OwedRec ==
  ASSUME TypeOK, NEW p \in Inst, OwedInv(p), RecStep(p)
  PROVE  OwedInv(p)' /\ \A q \in Inst \ {p} : Untouched(q)
<1> USE DEF messageVars, pendingVars, RecUnchanged
<1>a. /\ rec \in [Inst -> RecType] /\ rec[p] \in RecType
      /\ pendingFlush \in [Inst -> BOOLEAN] /\ pendingInvalidations \in [Inst -> SUBSET Key]
  BY DEF TypeOK
<1>b. ASSUME NEW r, RecSet(p, r)
      PROVE  rec'[p] = r
  BY <1>a, <1>b DEF RecSet
<1>c. ASSUME NEW pc, RecGoto(p, pc)
      PROVE  rec'[p].pc = pc
  BY <1>a, <1>b, <1>c DEF RecGoto, RecType
<1>d. RecIdle.pc = "idle"
  BY DEF RecIdle
<1>1. /\ UNCHANGED <<op, sub, invalidationReady>>
      /\ \A q \in Inst \ {p} : rec'[q] = rec[q] /\ healthState'[q] = healthState[q]
      /\ healthState'[p] # healthState[p] => rec[p].pc = "heal"
  BY RecFrame
<1>2. /\ \A q \in Inst \ {p} : /\ pendingFlush'[q] = pendingFlush[q]
                               /\ pendingInvalidations'[q] = pendingInvalidations[q]
      /\ pendingFlush'[p] => UNCHANGED <<pendingFlush, pendingInvalidations>>
      /\ pendingInvalidations'[p] \subseteq pendingInvalidations[p]
  <2>1. CASE RecPublishFlush(p)
    BY <1>a, <2>1 DEF RecPublishFlush
  <2>2. CASE RecPublishKey(p)
    BY <1>a, <2>2 DEF RecPublishKey
  <2>3. CASE UNCHANGED <<pendingFlush, pendingInvalidations>>
    BY <2>3
  <2> QED
    BY <2>1, <2>2, <2>3 DEF RecStep, RecTick, RecProbe, RecPublished, RecLock, RecFlush, RecEnter,
                            RecHeal, RecStop
<1>3. \/ rec'[p].pc \in {"idle", "done"} /\ (healthState'[p] = healthState[p] \/ rec[p].pc = "heal")
      \/ /\ rec'[p].pc \in {"probe", "pending"} /\ healthState[p] = "degraded" /\ MutexFree(p)
         /\ healthState'[p] = healthState[p]
      \/ /\ rec'[p].pc \in {"lock", "flush", "enter", "heal"} /\ healthState[p] = "degraded" /\ MutexFree(p)
         /\ healthState'[p] = healthState[p] /\ ~Owes(p)'
  <2>1. CASE RecTick(p)
    BY <1>1, <1>c, <2>1 DEF RecTick, RecoveryWanted, OwedInv
  <2>2. CASE RecProbe(p)
    BY <1>1, <1>c, <2>2 DEF RecProbe, OwedInv
  <2>3. CASE RecPublishFlush(p)
    <3>1. CASE RecGoto(p, "idle")
      BY <1>1, <1>c, <3>1
    <3>2. CASE pendingFlush' = [pendingFlush EXCEPT ![p] = FALSE] /\ RecGoto(p, "lock")
               /\ UNCHANGED pendingInvalidations
      <4>1. ~Owes(p)'
        BY <1>a, <2>3, <3>2 DEF RecPublishFlush, OwedInv, Owes
      <4> QED
        BY <1>1, <1>c, <2>3, <3>2, <4>1 DEF RecPublishFlush, OwedInv
    <3> QED
      BY <2>3, <3>1, <3>2 DEF RecPublishFlush
  <2>4. CASE RecPublishKey(p)
    BY <1>1, <1>c, <2>4 DEF RecPublishKey, OwedInv
  <2>5. CASE RecPublished(p)
    BY <1>1, <1>c, <2>5 DEF RecPublished, OwedInv, Owes
  <2>6. CASE RecLock(p)
    BY <1>1, <1>b, <1>d, <2>6 DEF RecLock, OwedInv, Owes
  <2>7. CASE RecFlush(p)
    BY <1>1, <1>b, <1>c, <1>d, <2>7 DEF RecFlush, OwedInv, Owes
  <2>8. CASE RecEnter(p)
    <3>1. CASE RecSet(p, [rec[p] EXCEPT !.pc = "heal"]) /\ UNCHANGED <<healthState, messageVars>>
      <4>1. rec'[p].pc = "heal"
        BY <1>a, <1>b, <3>1 DEF RecType
      <4> QED
        BY <2>8, <3>1, <4>1 DEF RecEnter, OwedInv, Owes
    <3>2. CASE RecSet(p, RecIdle) /\ UNCHANGED healthState
      BY <1>b, <1>d, <3>2
    <3> QED
      BY <2>8, <3>1, <3>2 DEF RecEnter
  <2>9. CASE RecStop(p)
    BY <1>1, <1>c, <2>9 DEF RecStop
  <2>10. CASE RecHeal(p)
    BY <1>b, <1>d, <2>10 DEF RecHeal
  <2> QED
    BY <2>1, <2>2, <2>3, <2>4, <2>5, <2>6, <2>7, <2>8, <2>9, <2>10 DEF RecStep
<1>4. Owes(p)' => Owes(p)
  BY <1>2 DEF Owes
<1>5. OwedInv(p)'
  BY <1>1, <1>2, <1>3, <1>4 DEF OwedInv, MutexFree
<1>6. \A q \in Inst \ {p} : Untouched(q)
  BY <1>1, <1>2 DEF Untouched
<1> QED
  BY <1>5, <1>6

LEMMA OwedRead ==
  ASSUME TypeOK, NEW g \in Reader, RdStep(g), \A p \in Inst : OwedInv(p)
  PROVE  \A p \in Inst : OwedInv(p)'
<1> DEFINE h == Home[g]
<1>a. h \in Inst
  BY TieredAssumption
<1>1. /\ UNCHANGED <<op, sub, rec, invalidationReady, pendingFlush, pendingInvalidations>>
      /\ \A q \in Inst \ {h} : healthState'[q] = healthState[q]
  BY RdFrame DEF RdStep, RdTop, RdL1, RdHit, RdVersion, RdL2, RdWarm, RdReturn, RdUnchanged,
                 pendingVars
<1>2. healthState'[h] = healthState[h] \/ (healthState'[h] = "degraded" /\ MutexFree(h))
  <2>1. CASE RdWarm(g) /\ ~UNCHANGED healthState
    BY <1>a, <2>1, Degraded DEF RdWarm, healthVars
  <2>2. CASE ~RdWarm(g)
    BY <2>2 DEF RdStep, RdTop, RdL1, RdHit, RdVersion, RdL2, RdReturn, healthVars
  <2> QED
    BY <2>1, <2>2
<1>3. OwedInv(h)'
  BY <1>a, <1>1, <1>2 DEF OwedInv, Owes, MutexFree
<1>4. ASSUME NEW q \in Inst \ {h} PROVE OwedInv(q)'
  BY <1>1, <1>4, OwedUntouched DEF Untouched
<1> QED
  BY <1>3, <1>4

LEMMA OwedCrash ==
  ASSUME TypeOK, NEW p \in Inst, Crash(p)
  PROVE  OwedInv(p)' /\ \A q \in Inst \ {p} : Untouched(q)
<1>1. /\ pendingFlush' = [pendingFlush EXCEPT ![p] = FALSE]
      /\ pendingInvalidations' = [pendingInvalidations EXCEPT ![p] = {}]
      /\ invalidationReady' = [invalidationReady EXCEPT ![p] = FALSE]
  BY DEF Crash, Restarted
<1>2. /\ ~pendingFlush'[p] /\ pendingInvalidations'[p] = {} /\ ~invalidationReady'[p]
      /\ \A q \in Inst \ {p} : /\ pendingFlush'[q] = pendingFlush[q]
                               /\ pendingInvalidations'[q] = pendingInvalidations[q]
                               /\ invalidationReady'[q] = invalidationReady[q]
  BY <1>1 DEF TypeOK
<1>3. op'[p].pc = "idle" /\ rec'[p].pc = "idle"
  <2>1. op'[p] = OpIdle /\ rec'[p] = RecIdle
    BY CrashFrame
  <2>2. OpIdle.pc = "idle" /\ RecIdle.pc = "idle"
    BY DEF OpIdle, RecIdle
  <2> QED
    BY <2>1, <2>2
<1>4. OwedInv(p)'
  BY <1>2, <1>3 DEF OwedInv, Owes, MutexFree
<1> QED
  BY <1>2, <1>4, CrashFrame DEF Untouched

LEMMA OwedNext ==
  ASSUME "l1flush" \notin Faults, TypeOK, \A p \in Inst : OwedInv(p), [Next]_vars
  PROVE  \A p \in Inst : OwedInv(p)'
<1>a. ASSUME \A q \in Inst : Untouched(q) PROVE \A p \in Inst : OwedInv(p)'
  BY <1>a, OwedUntouched
<1>b. ASSUME NEW p \in Inst, OwedInv(p)' /\ \A q \in Inst \ {p} : Untouched(q)
      PROVE  \A q \in Inst : OwedInv(q)'
  BY <1>b, OwedUntouched
<1>1. CASE UNCHANGED vars
  BY <1>a, <1>1 DEF Untouched, vars, healthVars, pendingVars
<1>2. ASSUME NEW p \in Inst, OpStep(p) PROVE \A q \in Inst : OwedInv(q)'
  BY <1>b, <1>2, OwedOp
<1>3. ASSUME NEW p \in Inst, SubStep(p) PROVE \A q \in Inst : OwedInv(q)'
  BY <1>b, <1>3, OwedSub
<1>4. ASSUME NEW p \in Inst, RecStep(p) PROVE \A q \in Inst : OwedInv(q)'
  BY <1>b, <1>4, OwedRec
<1>5. ASSUME NEW p \in Inst, OpBegin(p) PROVE \A q \in Inst : OwedInv(q)'
  <2>1. /\ UNCHANGED <<sub, rec, healthState, invalidationReady, pendingFlush, pendingInvalidations>>
        /\ healthState[p] = "healthy"
        /\ \A q \in Inst \ {p} : op'[q] = op[q]
    BY <1>5, BeginFrame DEF OpBegin, OpUnchanged, messageVars, pendingVars, Available
  <2>2. OwedInv(p)'
    BY <2>1 DEF OwedInv, Owes, MutexFree
  <2> QED
    BY <1>b, <2>1, <2>2 DEF Untouched
<1>6. ASSUME NEW g \in Reader, RdStep(g) PROVE \A q \in Inst : OwedInv(q)'
  BY <1>6, OwedRead
<1>7. ASSUME NEW p \in Inst, Crash(p) PROVE \A q \in Inst : OwedInv(q)'
  BY <1>b, <1>7, OwedCrash
<1>8. ASSUME NEW p \in Inst, CloseBegin(p) \/ CloseStep(p) \/ L1Drop(p) \/ Disconnect(p)
      PROVE  \A q \in Inst : OwedInv(q)'
  BY <1>a, <1>8 DEF Untouched, CloseBegin, CloseStep, CloseLocked, CloseEnd, L1Drop, Disconnect,
                    healthVars, pendingVars
<1>9. ASSUME NEW g \in Reader, RdBegin(g) PROVE \A q \in Inst : OwedInv(q)'
  BY <1>a, <1>9 DEF Untouched, RdBegin, RdUnchanged, healthVars, pendingVars
<1>10. CASE ExternalFlush
  BY <1>a, <1>10 DEF Untouched, ExternalFlush, healthVars, pendingVars
<1> QED
  BY <1>1, <1>2, <1>3, <1>4, <1>5, <1>6, <1>7, <1>8, <1>9, <1>10 DEF Next, SystemStep, Environment

(* With an L1 whose Flush does not fail, as that of MemoryCache, an instance *)
(* that serves reads has published every invalidation it owed: recovery       *)
(* publishes before it lets reads in, and no mutation adds to it meanwhile.   *)
THEOREM NothingIsOwed ==
  ASSUME "l1flush" \notin Faults
  PROVE  Spec => []NothingOwedWhileAvailable
<1> DEFINE Inv == \A p \in Inst : OwedInv(p)
<1>1. Inv => NothingOwedWhileAvailable
  BY DEF OwedInv, Owes, NothingOwedWhileAvailable, Owed, Available
<1>2. Init => Inv
  <2>1. RecIdle.pc = "idle"
    BY DEF RecIdle
  <2> QED
    BY <2>1 DEF Init, OwedInv, Owes
<1>3. TypeOK /\ Inv /\ [Next]_vars => Inv'
  BY OwedNext
<1> HIDE DEF Inv
<1> QED
  BY <1>1, <1>2, <1>3, TypeCorrect, PTL DEF Spec
================================================================================
