-------------------------- MODULE MemoryCacheRefinement --------------------------
(***************************************************************************)
(* MemoryCache implements LossyStore, for every value of its constants: each *)
(* of its steps is one operation on one key, a refusal, a Flush, the loss of  *)
(* entries, or invisible.                                                   *)
(***************************************************************************)
EXTENDS MemoryCacheProofs

(***************************************************************************)
(* What a call still has to do.                                            *)
(***************************************************************************)

AskedFormed(r) ==
    /\ r.pc = "idle" => r.left = {} /\ r.val = 0 /\ r.res = 0
    /\ r.pc = "done" \/ r.kind \notin {"get", "set"} => r.left = {}
    /\ r.kind \notin {"set", "add"} => r.val = 0
    /\ r.pc # "done" => r.key \notin r.left
    /\ r.kind = "flush" => r.key = NoKey /\ r.pc \in {"lock", "flushing", "done"}
    /\ r.kind = "flush" /\ r.pc # "done" => r.res = 0

Asked == \A c \in Client : AskedFormed(call[c])

(* The call goes on with the key it has. *)
SameWork(c) ==
    /\ call'[c].key = call[c].key /\ call'[c].left = call[c].left /\ call'[c].res = call[c].res
    /\ call'[c].kind = call[c].kind /\ call'[c].val = call[c].val

(* It has handled its key, with result res, and perhaps takes the next one. *)
Answered(c, res) ==
    /\ call'[c].kind = call[c].kind /\ call'[c].val = call[c].val /\ call'[c].res = res
    /\ \/ call'[c].pc = "done" /\ call[c].left = {} /\ call'[c].left = {} /\ call'[c].key = NoKey
       \/ /\ call'[c].pc = "lock" /\ call'[c].key \in call[c].left
          /\ call'[c].left = call[c].left \ {call'[c].key}

(* It was refused. *)
Refused(c) ==
    /\ call'[c].kind = call[c].kind /\ call'[c].val = call[c].val /\ call'[c].res = 0
    /\ call'[c].pc = "done" /\ call'[c].left = {} /\ call'[c].key = NoKey

LEMMA DoneAnswers ==
  ASSUME TypeOK, NEW c \in Client, NEW res, Done(c, res)
  PROVE  /\ call'[c].kind = call[c].kind /\ call'[c].val = call[c].val /\ call'[c].res = res
         /\ call'[c].pc = "done" /\ call'[c].left = call[c].left /\ call'[c].key = NoKey
<1> DEFINE r == call[c]
           s == [r EXCEPT !.pc = "done", !.key = NoKey, !.id = 0, !.need = 0, !.now = 0,
                          !.res = res]
<1>1. call'[c] = s
  BY DEF Done, CallSet, TypeOK
<1>2. r \in CallType
  BY DEF TypeOK
<1> HIDE DEF r
<1>3. /\ s.kind = r.kind /\ s.val = r.val /\ s.res = res /\ s.pc = "done" /\ s.left = r.left
      /\ s.key = NoKey
  BY <1>2 DEF CallType
<1> QED
  BY <1>1, <1>3 DEF r

LEMMA AnswerAnswers ==
  ASSUME TypeOK, NEW c \in Client, NEW res, Answer(c, res)
  PROVE  Answered(c, res)
<1>1. CASE call[c].left = {} /\ Done(c, res)
  BY <1>1, DoneAnswers DEF Answered
<1>2. ASSUME NEW k \in call[c].left,
             CallSet(c, [call[c] EXCEPT !.pc = "lock", !.key = k, !.left = @ \ {k}, !.id = 0,
                                        !.need = 0, !.now = 0, !.res = res])
      PROVE  Answered(c, res)
  <2> DEFINE r == call[c]
             s == [r EXCEPT !.pc = "lock", !.key = k, !.left = r.left \ {k}, !.id = 0,
                            !.need = 0, !.now = 0, !.res = res]
  <2>1. call'[c] = s
    BY <1>2 DEF CallSet, TypeOK
  <2>2. r \in CallType /\ k \in r.left
    BY DEF TypeOK
  <2> HIDE DEF r
  <2>3. /\ s.kind = r.kind /\ s.val = r.val /\ s.res = res /\ s.pc = "lock"
        /\ s.left = r.left \ {k} /\ s.key = k
    BY <2>2 DEF CallType
  <2> QED
    BY <2>1, <2>2, <2>3 DEF r, Answered
<1> QED
  BY <1>1, <1>2 DEF Answer

LEMMA RefuseRefuses ==
  ASSUME TypeOK, NEW c \in Client, Refuse(c)
  PROVE  Refused(c)
<1> DEFINE r == call[c]
           s == [r EXCEPT !.pc = "done", !.key = NoKey, !.left = {}, !.need = 0, !.res = 0]
<1>1. call'[c] = s
  BY DEF Refuse, CallSet, TypeOK
<1>2. r \in CallType
  BY DEF TypeOK
<1> HIDE DEF r
<1>3. /\ s.kind = r.kind /\ s.val = r.val /\ s.res = 0 /\ s.pc = "done" /\ s.left = {}
      /\ s.key = NoKey
  BY <1>2 DEF CallType
<1> QED
  BY <1>1, <1>3 DEF r, Refused

LEMMA WorkKept ==
  ASSUME Shape, NEW c \in Client,
         \/ Get(c) /\ Expired(entries[call[c].key], now)
         \/ WriteReserve(c) \/ EvBegin(c) \/ FlBegin(c)
         \/ EvFinish /\ ev.owner = c /\ HasRoom(current, Need)
  PROVE  SameWork(c) /\ (Get(c) => call'[c].pc = "expired")
<1>0. call[c] \in CallType /\ call \in [Client -> CallType] /\ now \in Nat
  BY DEF Shape, TypeOK
<1>1. CASE Get(c) /\ Expired(entries[call[c].key], now)
  <2>1. call' = [call EXCEPT ![c] = [call[c] EXCEPT !.pc = "expired",
                   !.id = entries[call[c].key].id, !.now = now]]
    BY <1>1 DEF Get, CallSet
  <2> QED
    BY <1>0, <2>1 DEF CallType, SameWork
<1> DEFINE Same(r) == /\ r.key = call[c].key /\ r.left = call[c].left /\ r.res = call[c].res
                      /\ r.kind = call[c].kind /\ r.val = call[c].val
<1>s. ASSUME NEW r, call' = [call EXCEPT ![c] = r], Same(r)
      PROVE  SameWork(c)
  <2>1. call'[c] = r
    BY <1>0, <1>s
  <2> QED
    BY <1>s, <2>1 DEF SameWork
<1>c. call[c] \in CallType
  BY <1>0
<1>2. CASE WriteReserve(c)
  <2>1. \/ call' = [call EXCEPT ![c] = [call[c] EXCEPT !.pc = "insert", !.now = now]]
        \/ call' = [call EXCEPT ![c] = [call[c] EXCEPT !.pc = "evict", !.need = Delta(c, Old(c))]]
    BY <1>2 DEF WriteReserve, CallSet
  <2>2. ~Get(c)
    BY <1>2 DEF WriteReserve, Get, At
  <2>3. Same([call[c] EXCEPT !.pc = "insert", !.now = now])
    BY ONLY <1>c DEF CallType
  <2>4. Same([call[c] EXCEPT !.pc = "evict", !.need = Delta(c, Old(c))])
    BY ONLY <1>c DEF CallType
  <2> HIDE DEF Same
  <2> QED
    BY <1>s, <2>1, <2>2, <2>3, <2>4
<1>3. CASE EvBegin(c)
  <2>1. \/ call' = [call EXCEPT ![c] = [call[c] EXCEPT !.pc = "lock", !.need = 0]]
        \/ call' = [call EXCEPT ![c] = [call[c] EXCEPT !.pc = "evicting"]]
    BY <1>3 DEF EvBegin, CallSet
  <2>2. ~Get(c)
    BY <1>3 DEF EvBegin, Get, At
  <2>3. Same([call[c] EXCEPT !.pc = "lock", !.need = 0])
    BY ONLY <1>c DEF CallType
  <2>4. Same([call[c] EXCEPT !.pc = "evicting"])
    BY ONLY <1>c DEF CallType
  <2> HIDE DEF Same
  <2> QED
    BY <1>s, <2>1, <2>2, <2>3, <2>4
<1>4. CASE FlBegin(c)
  <2>1. call' = [call EXCEPT ![c] = [call[c] EXCEPT !.pc = "flushing"]]
    BY <1>4 DEF FlBegin, CallSet
  <2>2. ~Get(c)
    BY <1>4 DEF FlBegin, Get, At
  <2> QED
    BY <1>0, <2>1, <2>2 DEF CallType, SameWork
<1>5. CASE EvFinish /\ ev.owner = c /\ HasRoom(current, Need)
  <2>1. call' = [call EXCEPT ![c] = [call[c] EXCEPT !.pc = "lock", !.need = 0]]
    BY <1>5 DEF EvFinish, CallSet
  <2>2. ~Get(c)
    BY <1>5 DEF Get, At, EvFinish, Shape, EvFormed, EvictPc
  <2> QED
    BY <1>0, <2>1, <2>2 DEF CallType, SameWork
<1> QED
  BY <1>1, <1>2, <1>3, <1>4, <1>5

(* Where each step of a call leaves it. *)
LEMMA WorkNext ==
  ASSUME Shape, Asked, NEW c \in Client, CallStep(c)
  PROVE  \/ Return(c) /\ call'[c] = CallIdle
         \/ SameWork(c) /\ call'[c].pc \in {"expired", "insert", "evict", "lock", "evicting", "flushing"}
         \/ \E res : Answered(c, res)
         \/ Refused(c)
<1>0. TypeOK /\ call \in [Client -> CallType] /\ call[c] \in CallType
  BY DEF Shape, TypeOK
<1>1. CASE Return(c)
  BY <1>0, <1>1 DEF Return, CallSet
<1>2. CASE Get(c)
  BY <1>0, <1>2, WorkKept, AnswerAnswers DEF Get
<1>3. CASE GetExpired(c) \/ Insert(c)
  BY <1>0, <1>3, AnswerAnswers DEF GetExpired, Insert
<1>4. CASE Forget(c) \/ Touch(c) \/ AddExists(c)
  <2>1. PICK res : Done(c, res)
    BY <1>4 DEF Forget, Touch, AddExists
  <2>2. call[c].left = {}
    BY <1>4 DEF Forget, Touch, AddExists, At, Asked, AskedFormed
  <2>3. Answered(c, res)
    BY <1>0, <2>1, <2>2, DoneAnswers DEF Answered
  <2> QED
    BY <2>3
<1>5. CASE WriteInvalid(c)
  BY <1>0, <1>5, RefuseRefuses DEF WriteInvalid
<1>6. CASE WriteReserve(c) \/ EvBegin(c) \/ FlBegin(c)
  BY <1>6, WorkKept, ReserveMoves, QueueMoves
<1> QED
  BY <1>1, <1>2, <1>3, <1>4, <1>5, <1>6 DEF CallStep

(* And where the owner of evictionMu leaves its call. *)
LEMMA OwnerWork ==
  ASSUME Shape, Asked, NEW c \in Client, OwnerReturns, ev.owner = c
  PROVE  \/ EvFinish /\ HasRoom(current, Need) /\ SameWork(c) /\ call'[c].pc = "lock"
         \/ EvFinish /\ call[c].pc = "evicting" /\ Refused(c)
         \/ FlUnlock /\ call[c].pc = "flushing" /\ Answered(c, 1)
<1>0. TypeOK /\ call \in [Client -> CallType] /\ call[c] \in CallType
  BY DEF Shape, TypeOK
<1>1. CASE EvFinish /\ HasRoom(current, Need)
  <2>1. SameWork(c)
    BY <1>1, WorkKept
  <2>2. call' = [call EXCEPT ![c] = [call[c] EXCEPT !.pc = "lock", !.need = 0]]
    BY <1>1 DEF EvFinish, CallSet
  <2>3. call'[c].pc = "lock"
    BY <1>0, <2>2 DEF CallType
  <2> QED
    BY <1>1, <2>1, <2>3
<1>2. CASE EvFinish /\ ~HasRoom(current, Need)
  BY <1>0, <1>2, RefuseRefuses DEF EvFinish, Shape, EvFormed, EvictPc
<1>3. CASE FlUnlock
  <2>1. ev.at = 1
    <3>1. ev.pc = "unlock" /\ ev'.pc = "free"
      BY <1>3, EvIdleTyped DEF OwnerReturns, FlUnlock
    <3> QED
      BY <1>3, <3>1 DEF FlUnlock, Shape, TypeOK, EvType
  <2>2. Done(c, 1) /\ call[c].pc = "flushing"
    BY <1>3, <2>1 DEF FlUnlock, Shape, EvFormed, FlushPc
  <2>3. call[c].left = {}
    BY <2>2 DEF Shape, CallFormed, Asked, AskedFormed
  <2> QED
    BY <1>0, <1>3, <2>2, <2>3, DoneAnswers DEF Answered
<1> QED
  BY <1>1, <1>2, <1>3 DEF OwnerReturns

LEMMA WorkAsked ==
  ASSUME NEW c \in Client, AskedFormed(call[c]), call[c].kind \in {"get", "set"} \/ call[c].left = {},
         \/ SameWork(c) /\ call'[c].pc \notin {"idle", "done"} /\ call[c].pc # "done"
            /\ (call[c].kind = "flush" => call'[c].pc \in {"lock", "flushing"})
         \/ \E res : Answered(c, res)
         \/ Refused(c)
  PROVE  AskedFormed(call'[c])
<1>1. CASE SameWork(c) /\ call'[c].pc \notin {"idle", "done"} /\ call[c].pc # "done"
           /\ (call[c].kind = "flush" => call'[c].pc \in {"lock", "flushing"})
  BY <1>1 DEF SameWork, AskedFormed
<1>2. ASSUME NEW res, Answered(c, res) PROVE AskedFormed(call'[c])
  BY <1>2 DEF Answered, AskedFormed
<1>3. CASE Refused(c)
  BY <1>3 DEF Refused, AskedFormed
<1> QED
  BY <1>1, <1>2, <1>3

(* What a new call asks for. *)
Begun(c) ==
    \E kind \in AllKinds : \E keys \in KeysFor(kind) : \E k \in keys :
      \E val \in (IF kind \in {"set", "add"} THEN Value ELSE {0}) :
        /\ call'[c].pc = "lock" /\ call'[c].kind = kind /\ call'[c].key = k
        /\ call'[c].left = keys \ {k} /\ call'[c].val = val /\ call'[c].res = 0

LEMMA CallBegun ==
  ASSUME Shape, NEW c \in Client, Call(c)
  PROVE  Begun(c)
<1> DEFINE Asks(kind, keys, k, val) ==
      \E ttl \in (CASE kind = "set"             -> TTLs
                    [] kind \in {"add", "touch"} -> TTLs \ {0}
                    [] OTHER                    -> {0}) :
        call' = [d \in Client |->
          IF d = c THEN [CallIdle EXCEPT !.pc = "lock", !.kind = kind, !.key = k,
                           !.left = keys \ {k}, !.val = val, !.ttl = ttl,
                           !.alone = kind = "set" /\ \A b \in Client : call[b].pc = "idle"]
          ELSE [call[d] EXCEPT !.alone = FALSE]]
<1>1. \E kind \in Kinds : \E keys \in KeysFor(kind) : \E k \in keys :
        \E val \in (IF kind \in {"set", "add"} THEN Value ELSE {0}) : Asks(kind, keys, k, val)
  BY DEF Call
<1> HIDE DEF Asks
<1>2. PICK kind \in Kinds : \E keys \in KeysFor(kind) : \E k \in keys :
        \E val \in (IF kind \in {"set", "add"} THEN Value ELSE {0}) : Asks(kind, keys, k, val)
  BY <1>1
<1>3. PICK keys \in KeysFor(kind) : \E k \in keys :
        \E val \in (IF kind \in {"set", "add"} THEN Value ELSE {0}) : Asks(kind, keys, k, val)
  BY <1>2
<1>4. PICK k \in keys :
        \E val \in (IF kind \in {"set", "add"} THEN Value ELSE {0}) : Asks(kind, keys, k, val)
  BY <1>3
<1>a. PICK val \in (IF kind \in {"set", "add"} THEN Value ELSE {0}) : Asks(kind, keys, k, val)
  BY <1>4
<1>5. /\ call'[c].pc = "lock" /\ call'[c].kind = kind /\ call'[c].key = k
      /\ call'[c].left = keys \ {k} /\ call'[c].val = val /\ call'[c].res = 0
  <2> DEFINE alone == kind = "set" /\ \A b \in Client : call[b].pc = "idle"
  <2>1. PICK ttl : call' = [d \in Client |->
          IF d = c THEN [CallIdle EXCEPT !.pc = "lock", !.kind = kind, !.key = k,
                           !.left = keys \ {k}, !.val = val, !.ttl = ttl, !.alone = alone]
          ELSE [call[d] EXCEPT !.alone = FALSE]]
    BY <1>a, Zenon DEF Asks
  <2> HIDE DEF alone
  <2>2. call'[c] = [CallIdle EXCEPT !.pc = "lock", !.kind = kind, !.key = k,
                      !.left = keys \ {k}, !.val = val, !.ttl = ttl, !.alone = alone]
    BY <2>1
  <2> QED
    BY <2>2 DEF CallIdle
<1>6. kind \in AllKinds
  BY MemoryAssumption
<1> QED
  BY <1>5, <1>6 DEF Begun

LEMMA BegunAsked ==
  ASSUME NEW c \in Client, Begun(c)
  PROVE  AskedFormed(call'[c])
<1>1. PICK kind \in AllKinds : \E keys \in KeysFor(kind) : \E k \in keys :
      \E val \in (IF kind \in {"set", "add"} THEN Value ELSE {0}) :
        /\ call'[c].pc = "lock" /\ call'[c].kind = kind /\ call'[c].key = k
        /\ call'[c].left = keys \ {k} /\ call'[c].val = val /\ call'[c].res = 0
  BY DEF Begun
<1>2. PICK keys \in KeysFor(kind) : \E k \in keys :
      \E val \in (IF kind \in {"set", "add"} THEN Value ELSE {0}) :
        /\ call'[c].pc = "lock" /\ call'[c].kind = kind /\ call'[c].key = k
        /\ call'[c].left = keys \ {k} /\ call'[c].val = val /\ call'[c].res = 0
  BY <1>1
<1>3. kind \notin {"get", "set"} => \E k : keys = {k} /\ (kind = "flush" => k = NoKey)
  BY <1>2 DEF KeysFor, AllKinds
<1> QED
  BY <1>1, <1>2, <1>3 DEF AskedFormed

LEMMA AskedNext ==
  ASSUME Shape, Asked, [Next]_vars
  PROVE  Asked'
<1> SUFFICES ASSUME NEW d \in Client PROVE AskedFormed(call'[d])
  BY DEF Asked
<1>0. call[d] \in CallType /\ AskedFormed(call[d]) /\ CallFormed(call[d])
  BY DEF Shape, TypeOK, Asked
<1>1. CASE call'[d] = call[d]
  BY <1>0, <1>1
<1>2. CASE call'[d] = [call[d] EXCEPT !.alone = FALSE]
  BY <1>0, <1>2 DEF CallType, AskedFormed
<1>3. CASE Call(d)
  BY <1>3, CallBegun, BegunAsked
<1>h. call[d].pc = "done" \/ call[d].kind \in {"get", "set"} \/ call[d].left = {}
  BY <1>0 DEF AskedFormed
<1>4. CASE CallStep(d) /\ ClientStep(d)
  <2>1. CASE Return(d) /\ call'[d] = CallIdle
    BY <2>1 DEF CallIdle, AskedFormed
  <2>2. call[d].kind \in {"get", "set"} \/ call[d].left = {}
    BY <1>0 DEF AskedFormed
  <2>3. ASSUME SameWork(d),
               call'[d].pc \in {"expired", "insert", "evict", "lock", "evicting", "flushing"}
        PROVE  /\ call'[d].pc \notin {"idle", "done"} /\ call[d].pc # "done"
               /\ (call[d].kind = "flush" => call'[d].pc \in {"lock", "flushing"})
    <3>1. call[d].pc # "done"
      <4>1. call[d].pc = "done" => Return(d)
        BY <1>4 DEF CallStep, Get, GetExpired, Forget, Touch, AddExists, WriteInvalid, WriteReserve,
           Insert, EvBegin, FlBegin, At
      <4>2. Return(d) => call'[d].pc = "idle"
        BY <1>0 DEF Return, CallSet, CallIdle, Shape, TypeOK
      <4> QED
        BY <2>3, <4>1, <4>2
    <3>2. call[d].kind = "flush" => call'[d].pc \in {"lock", "flushing"}
      <4>1. SUFFICES ASSUME call[d].kind = "flush" PROVE call'[d].pc \in {"lock", "flushing"}
        OBVIOUS
      <4>2. CallFormed(call'[d]) /\ call'[d].kind = "flush"
        BY <1>4, <2>3, <4>1 DEF ClientStep, Moved, SameWork
      <4> QED
        BY <2>3, <4>2 DEF CallFormed
    <3> QED
      BY <2>3, <3>1, <3>2
  <2> QED
    BY <1>0, <1>4, <2>1, <2>2, <2>3, WorkNext, WorkAsked
<1>5. CASE OwnerReturns /\ ev.owner = d
  <2>1. call[d].pc \in {"evicting", "flushing"}
    BY <1>5 DEF OwnerReturns, Shape, EvFormed, EvictPc, FlushPc
  <2>2. call[d].kind \in {"get", "set"} \/ call[d].left = {}
    BY <1>0 DEF AskedFormed
  <2> QED
    BY <1>0, <1>5, <2>1, <2>2, OwnerWork, WorkAsked
<1> QED
  BY <1>1, <1>2, <1>3, <1>4, <1>5, CallEffects DEF CallEffect

LEMMA AskedInvariant == Spec => []Asked
<1>1. Init => Asked
  BY DEF Init, Asked, AskedFormed, CallIdle
<1>2. Shape /\ Asked /\ [Next]_vars => Asked'
  BY AskedNext
<1> QED
  BY <1>1, <1>2, ShapeInvariant, PTL DEF Spec

(***************************************************************************)
(* What the callers see of a key.                                          *)
(***************************************************************************)

(* The entry in the map, and the one a writer is about to put there. *)
Kept(k) == IF Live(entries[k], now) THEN entries[k].val ELSE 0

Coming(c) ==
    LET old == entries[call[c].key]
    IN  IF Deadline(c, old) = 0 \/ Deadline(c, old) > now THEN NewValue(c, old) ELSE 0

LEMMA VisibleIs ==
  Shape => \A k \in Key :
    /\ Inserting(k) = {} => Visible(k) = Kept(k)
    /\ \A c \in Inserting(k) : Visible(k) = Coming(c)
<1> SUFFICES ASSUME Shape, NEW k \in Key
             PROVE  /\ Inserting(k) = {} => Visible(k) = Kept(k)
                    /\ \A c \in Inserting(k) : Visible(k) = Coming(c)
  OBVIOUS
<1>1. Inserting(k) = {} => Visible(k) = Kept(k)
  BY DEF Visible, Kept
<1>2. ASSUME NEW c \in Inserting(k) PROVE Visible(k) = Coming(c)
  <2>1. \A d \in Inserting(k) : d = c
    BY DEF Inserting, Shape, LocksHeld
  <2>2. (CHOOSE d \in Inserting(k) : TRUE) = c
    BY <2>1
  <2>3. call[c].key = k
    BY DEF Inserting
  <2> QED
    BY <2>2, <2>3 DEF Visible, Coming
<1> QED
  BY <1>1, <1>2

LEMMA VisibleNext ==
  Shape' => \A k \in Key :
    /\ Inserting(k)' = {} => Visible(k)' = Kept(k)'
    /\ \A c \in Inserting(k)' : Visible(k)' = Coming(c)'
<1>1. (Shape => \A k \in Key :
    /\ Inserting(k) = {} => Visible(k) = Kept(k)
    /\ \A c \in Inserting(k) : Visible(k) = Coming(c))'
  BY VisibleIs, PTL
<1> QED
  BY <1>1

(* A shard nobody writes shows what is in its map. *)
LEMMA NobodyInserts ==
  ASSUME NEW k \in Key, NoWriter(ShardOf[k])
  PROVE  Inserting(k) = {}
  BY DEF NoWriter, Inserting

LEMMA FreeIsUnwritten ==
  ASSUME NEW k \in Key, Free(ShardOf[k])
  PROVE  NoWriter(ShardOf[k])
  BY DEF Free, NoWriter

(* A client goes on inserting until it has. *)
LEMMA InsertStays ==
  ASSUME Shape, [Next]_vars, NEW d \in Client, call[d].pc = "insert", ~Insert(d)
  PROVE  call'[d] = call[d] \/ call'[d] = [call[d] EXCEPT !.alone = FALSE]
<1>1. CASE Call(d)
  BY <1>1 DEF Call
<1>2. CASE CallStep(d) /\ ClientStep(d)
  BY <1>2 DEF ClientStep
<1>3. CASE OwnerReturns /\ ev.owner = d
  BY <1>3 DEF OwnerReturns, Shape, EvFormed, EvictPc, FlushPc
<1> QED
  BY <1>1, <1>2, <1>3, CallEffects DEF CallEffect

(* The step of c is not one that reserves or inserts for key k. *)
Writes(k) == \E c \in Client : call[c].key = k /\ (WriteReserve(c) \/ Insert(c))

LEMMA InsertingNext ==
  ASSUME Shape, [Next]_vars, NEW k \in Key, ~Writes(k)
  PROVE  /\ Inserting(k)' = Inserting(k)
         /\ \A c \in Inserting(k) :
              /\ call'[c] = call[c] \/ call'[c] = [call[c] EXCEPT !.alone = FALSE]
              /\ entries'[k] = entries[k]
<1>1. ASSUME NEW c \in Inserting(k)
      PROVE  /\ c \in Inserting(k)'
             /\ call'[c] = call[c] \/ call'[c] = [call[c] EXCEPT !.alone = FALSE]
             /\ entries'[k] = entries[k]
  <2>1. c \in Client /\ call[c].pc = "insert" /\ call[c].key = k /\ call[c] \in CallType
    BY DEF Inserting, Shape, TypeOK
  <2>2. ~Insert(c) /\ ~WriteReserve(c)
    BY <2>1 DEF Writes
  <2>3. call'[c] = call[c] \/ call'[c] = [call[c] EXCEPT !.alone = FALSE]
    BY <2>1, <2>2, InsertStays
  <2>4. call'[c].pc = "insert" /\ call'[c].key = k
    BY <2>1, <2>3 DEF CallType
  <2>5. entries'[k] = entries[k]
    BY <2>1, <2>2, <2>4, WritersKept
  <2> QED
    BY <2>1, <2>3, <2>4, <2>5 DEF Inserting
<1>2. ASSUME NEW c \in Inserting(k)' PROVE c \in Inserting(k)
  <2>1. c \in Client /\ call'[c].pc = "insert" /\ call'[c].key = k /\ call[c] \in CallType
    BY DEF Inserting, Shape, TypeOK
  <2>2. WriteReserve(c) => call[c].key = k
    BY <2>1, ReserveMoves
  <2>3. ~WriteReserve(c)
    BY <2>1, <2>2 DEF Writes
  <2>4. call[c].pc = "insert" /\ call[c].key = k
    BY <2>1, <2>3, WritersKept DEF CallType
  <2> QED
    BY <2>1, <2>4 DEF Inserting
<1> QED
  BY <1>1, <1>2

(* A key whose entry stays, and which nobody writes, is seen as before. *)
LEMMA SightKept ==
  ASSUME Shape, Shape', [Next]_vars, NEW k \in Key, ~Writes(k),
         entries'[k] = entries[k], now' = now
  PROVE  Visible(k)' = Visible(k)
<1>1. CASE Inserting(k) = {}
  BY <1>1, InsertingNext, VisibleIs, VisibleNext DEF Kept, Live
<1>2. ASSUME NEW c \in Inserting(k) PROVE Visible(k)' = Visible(k)
  <2>1. /\ c \in Inserting(k)' /\ c \in Client /\ call[c] \in CallType /\ call[c].key = k
        /\ call'[c] = call[c] \/ call'[c] = [call[c] EXCEPT !.alone = FALSE]
    BY InsertingNext DEF Inserting, Shape, TypeOK
  <2>2. /\ call'[c].kind = call[c].kind /\ call'[c].key = k /\ call'[c].val = call[c].val
        /\ call'[c].ttl = call[c].ttl /\ call'[c].now = call[c].now
    BY <2>1 DEF CallType
  <2>3. Coming(c)' = Coming(c)
    BY <2>1, <2>2 DEF Coming, Deadline, NewValue
  <2> QED
    BY <2>1, <2>3, VisibleIs, VisibleNext
<1> QED
  BY <1>1, <1>2

(***************************************************************************)
(* What the store sees of a call.                                          *)
(***************************************************************************)

FlushTakes == ev.pc \in {"zero", "unlock"}

(* A call that does not move is seen as before, unless it is a Flush that     *)
(* takes effect.                                                           *)
LEMMA SeenKept ==
  ASSUME Shape, [Next]_vars, NEW d \in Client,
         call'[d] = call[d] \/ call'[d] = [call[d] EXCEPT !.alone = FALSE],
         call[d].pc = "flushing" => FlushTakes' = FlushTakes
  PROVE  Seen(d)' = Seen(d)
<1>1. /\ call'[d].pc = call[d].pc /\ call'[d].kind = call[d].kind /\ call'[d].key = call[d].key
      /\ call'[d].left = call[d].left /\ call'[d].val = call[d].val /\ call'[d].res = call[d].res
  <2>1. call[d] \in CallType
    BY DEF Shape, TypeOK
  <2> QED
    BY <2>1 DEF CallType
<1>2. Effective(d)' = Effective(d)
  BY <1>1 DEF Effective, FlushTakes
<1>3. call[d].pc = "insert" => NewValue(d, entries[call[d].key])' = NewValue(d, entries[call[d].key])
  <2>1. SUFFICES ASSUME call[d].pc = "insert"
                 PROVE  NewValue(d, entries[call[d].key])' = NewValue(d, entries[call[d].key])
    OBVIOUS
  <2>2. ~WriteReserve(d)
    BY <2>1 DEF WriteReserve, At
  <2>3. entries'[call[d].key] = entries[call[d].key]
    BY <1>1, <2>1, <2>2, WritersKept
  <2> QED
    BY <1>1, <2>3 DEF NewValue
<1> QED
  BY <1>1, <1>2, <1>3 DEF Seen

(* A Flush is seen to take effect by its owner only. *)
LEMMA FlushOwned ==
  ASSUME Shape, [Next]_vars, NEW d \in Client, call[d].pc = "flushing", ~OwnerStep
  PROVE  FlushTakes' = FlushTakes
<1>1. CASE UNCHANGED ev
  BY <1>1 DEF FlushTakes
<1>2. ASSUME NEW c \in Client, EvBegin(c) \/ FlBegin(c) PROVE FALSE
  <2>1. ev.owner = NoClient /\ ev.owner = d
    BY <1>2, QueueMoves DEF Shape, EvFormed
  <2> QED
    BY <2>1, IdsTyped
<1> QED
  BY <1>1, <1>2, EvEffects

(* The other calls are seen as before. *)
LEMMA OthersSeen ==
  ASSUME Shape, [Next]_vars, NEW c \in Client, NEW d \in Client \ {c},
         Call(c) \/ CallStep(c) \/ (OwnerStep /\ ev.owner = c)
  PROVE  Seen(d)' = Seen(d)
<1>1. CASE Call(c) \/ CallStep(c)
  <2>1. call'[d] = call[d] \/ call'[d] = [call[d] EXCEPT !.alone = FALSE]
    BY <1>1, CallBegins, ClientSteps DEF ClientStep, Moved
  <2>2. call[d].pc = "flushing" => FlushTakes' = FlushTakes
    <3>1. SUFFICES ASSUME call[d].pc = "flushing" PROVE FlushTakes' = FlushTakes
      OBVIOUS
    <3>2. UNCHANGED ev
      <4>1. CASE Call(c)
        BY <4>1 DEF Call
      <4>2. CASE CallStep(c)
        <5>1. ev.owner = d
          BY <3>1 DEF Shape, EvFormed
        <5>2. ~EvBegin(c) /\ ~FlBegin(c)
          BY <5>1, QueueMoves, IdsTyped
        <5> QED
          BY <4>2, <5>2, ClientSteps
      <4> QED
        BY <1>1, <4>1, <4>2
    <3> QED
      BY <3>2 DEF FlushTakes
  <2> QED
    BY <2>1, <2>2, SeenKept
<1>2. CASE OwnerStep /\ ev.owner = c
  <2>1. call'[d] = call[d]
    BY <1>2, OwnerMoves DEF OwnerGoesOn, OwnerReturns, Moved
  <2>2. call[d].pc # "flushing"
    BY <1>2 DEF Shape, EvFormed
  <2> QED
    BY <2>1, <2>2, SeenKept
<1> QED
  BY <1>1, <1>2

(* How Seen reads a call that is not a flush. *)
LEMMA SeenIs ==
  \A c \in Client : call[c].pc # "flushing" =>
    /\ Seen(c).kind = IF call[c].pc = "idle" THEN "idle" ELSE call[c].kind
    /\ Seen(c).val = call[c].val
    /\ call[c].pc \in {"idle", "done", "insert", "expired"} => Seen(c).todo = call[c].left
    /\ call[c].pc \notin {"idle", "done", "insert", "expired"} =>
         Seen(c).todo = call[c].left \cup {call[c].key}
    /\ call[c].pc \notin {"insert", "expired"} => Seen(c).res = call[c].res
    /\ call[c].pc = "expired" => Seen(c).res = 0
    /\ call[c].pc = "insert" =>
         Seen(c).res = IF call[c].kind = "counter" THEN NewValue(c, entries[call[c].key]) ELSE 1
  BY DEF Seen, Effective

LEMMA SeenNext ==
  \A c \in Client : call'[c].pc # "flushing" =>
    /\ Seen(c)'.kind = IF call'[c].pc = "idle" THEN "idle" ELSE call'[c].kind
    /\ Seen(c)'.val = call'[c].val
    /\ call'[c].pc \in {"idle", "done", "insert", "expired"} => Seen(c)'.todo = call'[c].left
    /\ call'[c].pc \notin {"idle", "done", "insert", "expired"} =>
         Seen(c)'.todo = call'[c].left \cup {call'[c].key}
    /\ call'[c].pc \notin {"insert", "expired"} => Seen(c)'.res = call'[c].res
    /\ call'[c].pc = "expired" => Seen(c)'.res = 0
    /\ call'[c].pc = "insert" =>
         Seen(c)'.res = IF call'[c].kind = "counter" THEN NewValue(c, entries[call[c].key])' ELSE 1
  BY DEF Seen, Effective

LEMMA SeenRecord ==
  \A c \in Client : Seen(c) = [kind |-> Seen(c).kind, todo |-> Seen(c).todo,
                               val |-> Seen(c).val, res |-> Seen(c).res]
  BY DEF Seen

LEMMA SeenRecordNext ==
  \A c \in Client : Seen(c)' = [kind |-> Seen(c)'.kind, todo |-> Seen(c)'.todo,
                                val |-> Seen(c)'.val, res |-> Seen(c)'.res]
  BY DEF Seen

(***************************************************************************)
(* Steps of the store.                                                     *)
(***************************************************************************)

SameStore == \A k \in Key : Visible(k)' = Visible(k)

SameCalls == \A c \in Client : Seen(c)' = Seen(c)

(* The call of c has handled key k, with result res. *)
Handles(c, k, res) ==
    /\ Seen(c)'.kind = Seen(c).kind /\ Seen(c)'.val = Seen(c).val
    /\ Seen(c)'.todo = Seen(c).todo \ {k} /\ Seen(c)'.res = res
    /\ \A d \in Client \ {c} : Seen(d)' = Seen(d)

(* It is seen as before. *)
Waits(c) ==
    /\ Seen(c)'.kind = Seen(c).kind /\ Seen(c)'.val = Seen(c).val
    /\ Seen(c)'.todo = Seen(c).todo /\ Seen(c)'.res = Seen(c).res
    /\ \A d \in Client \ {c} : Seen(d)' = Seen(d)

(* Only what is seen of key k changes. *)
Stores(k, v) == Visible(k)' = v /\ \A j \in Key \ {k} : Visible(j)' = Visible(j)

LEMMA StutterMaps ==
  ASSUME SameStore, SameCalls
  PROVE  UNCHANGED L1!vars
  BY DEF SameStore, SameCalls, L1!vars

LEMMA WaitsMaps ==
  ASSUME NEW c \in Client, Waits(c)
  PROVE  SameCalls
  BY SeenRecord, SeenRecordNext DEF Waits, SameCalls

(* The calls after one of them was replaced, or answered. *)
CallBecomes(c, r) ==
    [d \in Client |-> Seen(d)]' = [[d \in Client |-> Seen(d)] EXCEPT ![c] = r]

CallLeft(c, left, res) ==
    [d \in Client |-> Seen(d)]'
    = [[d \in Client |-> Seen(d)] EXCEPT ![c].todo = left, ![c].res = res]

LEMMA CallReplaced ==
  ASSUME NEW c \in Client, NEW r, Seen(c)' = r, \A d \in Client \ {c} : Seen(d)' = Seen(d)
  PROVE  CallBecomes(c, r)
  BY DEF CallBecomes

LEMMA CallAnswered ==
  ASSUME NEW c \in Client, NEW left, NEW res,
         Seen(c)'.kind = Seen(c).kind, Seen(c)'.val = Seen(c).val,
         Seen(c)'.todo = left, Seen(c)'.res = res,
         \A d \in Client \ {c} : Seen(d)' = Seen(d)
  PROVE  CallLeft(c, left, res)
<1> DEFINE a == [d \in Client |-> Seen(d)]
           b == [d \in Client |-> Seen(d)']
           kind == Seen(c).kind
           todo == Seen(c).todo
           val == Seen(c).val
           old == Seen(c).res
           r == [kind |-> kind, todo |-> todo, val |-> val, res |-> old]
           t == [kind |-> kind, todo |-> left, val |-> val, res |-> old]
           s == [kind |-> kind, todo |-> left, val |-> val, res |-> res]
<1>1. a[c] = r /\ b[c] = s
  BY SeenRecord, SeenRecordNext
<1>2. s = [r EXCEPT !.todo = left, !.res = res]
  <2> HIDE DEF kind, todo, val, old
  <2>1. t = [r EXCEPT !.todo = left] /\ s = [t EXCEPT !.res = res]
    OBVIOUS
  <2> HIDE DEF r, s, t
  <2> QED
    BY <2>1
<1>3. /\ DOMAIN a = Client /\ DOMAIN b = Client /\ a = [d \in Client |-> a[d]]
      /\ b = [d \in Client |-> b[d]] /\ \A d \in Client \ {c} : b[d] = a[d]
  OBVIOUS
<1>4. b = [a EXCEPT ![c].todo = left, ![c].res = res]
  <2> HIDE DEF a, b, r, s
  <2>1. b = [a EXCEPT ![c] = s]
    BY <1>1, <1>3
  <2>2. [a EXCEPT ![c].todo = left, ![c].res = res]
        = [a EXCEPT ![c] = [a[c] EXCEPT !.todo = left, !.res = res]]
    BY <1>1, <1>3
  <2> QED
    BY <1>1, <1>2, <2>1, <2>2
<1> QED
  BY <1>4 DEF CallLeft

LEMMA HandlesMaps ==
  ASSUME NEW c \in Client, NEW k, NEW res, Handles(c, k, res)
  PROVE  L1!Answer(c, k, res)
<1> DEFINE a == [d \in Client |-> Seen(d)]
           todo == Seen(c).todo
<1>1. [d \in Client |-> Seen(d)]' = [a EXCEPT ![c].todo = todo \ {k}, ![c].res = res]
  <2>1. PICK left : left = todo \ {k}
    OBVIOUS
  <2>2. /\ Seen(c)'.kind = Seen(c).kind /\ Seen(c)'.val = Seen(c).val
        /\ Seen(c)'.todo = left /\ Seen(c)'.res = res
        /\ \A d \in Client \ {c} : Seen(d)' = Seen(d)
    BY <2>1 DEF Handles
  <2>3. CallLeft(c, left, res)
    BY <2>2, CallAnswered
  <2> QED
    BY <2>1, <2>3 DEF CallLeft
<1>2. a[c].todo = todo /\ DOMAIN a = Client
  OBVIOUS
<1>3. [a EXCEPT ![c].todo = @ \ {k}, ![c].res = res]
      = [a EXCEPT ![c].todo = todo \ {k}, ![c].res = res]
  <2> HIDE DEF a, todo
  <2> QED
    BY <1>2
<1> QED
  BY <1>1, <1>3 DEF L1!Answer

LEMMA StoresMaps ==
  ASSUME NEW k \in Key, NEW v, Stores(k, v)
  PROVE  [j \in Key |-> Visible(j)]' = [[j \in Key |-> Visible(j)] EXCEPT ![k] = v]
  BY DEF Stores

LEMMA SameStoreMaps ==
  ASSUME SameStore
  PROVE  [j \in Key |-> Visible(j)]' = [j \in Key |-> Visible(j)]
  BY DEF SameStore

(***************************************************************************)
(* How the call that moves is seen.                                        *)
(***************************************************************************)

Taken == {"idle", "done", "insert", "expired"}

LEMMA AnsweredSeen ==
  ASSUME NEW c \in Client, NEW res, Answered(c, res), call[c].pc \notin {"idle", "flushing"}
  PROVE  /\ Seen(c)'.kind = Seen(c).kind /\ Seen(c)'.val = Seen(c).val
         /\ Seen(c)'.todo = call[c].left /\ Seen(c)'.res = res
<1>1. /\ call'[c].pc \in {"done", "lock"} /\ call'[c].kind = call[c].kind
      /\ call'[c].val = call[c].val /\ call'[c].res = res
      /\ call'[c].pc = "done" => call'[c].left = call[c].left
      /\ call'[c].pc = "lock" => call'[c].left \cup {call'[c].key} = call[c].left
  BY DEF Answered
<1> QED
  BY <1>1, SeenIs, SeenNext

LEMMA RefusedSeen ==
  ASSUME NEW c \in Client, Refused(c), call[c].pc \notin {"idle", "flushing"}
  PROVE  /\ Seen(c)'.kind = Seen(c).kind /\ Seen(c)'.val = Seen(c).val
         /\ Seen(c)'.todo = {} /\ Seen(c)'.res = 0
  BY SeenIs, SeenNext DEF Refused

LEMMA WorkSeen ==
  ASSUME NEW c \in Client, SameWork(c), call[c].pc \notin Taken \cup {"flushing"},
         call'[c].pc \notin {"idle", "flushing"}
  PROVE  /\ Seen(c)'.kind = Seen(c).kind /\ Seen(c)'.val = Seen(c).val
         /\ call'[c].pc \notin Taken => Seen(c)'.todo = Seen(c).todo /\ Seen(c)'.res = Seen(c).res
         /\ call'[c].pc \in Taken => Seen(c)'.todo = call[c].left
         /\ call'[c].pc = "expired" => Seen(c)'.res = 0
         /\ call'[c].pc = "insert" =>
              Seen(c)'.res = IF call[c].kind = "counter" THEN NewValue(c, entries[call[c].key])' ELSE 1
  BY SeenIs, SeenNext DEF SameWork, Taken

(* The key in hand is one of those to do. *)
LEMMA KeyInHand ==
  ASSUME NEW c \in Client, Asked, call[c].pc \notin Taken \cup {"flushing"}
  PROVE  /\ call[c].key \in Seen(c).todo /\ Seen(c).todo \ {call[c].key} = call[c].left
         /\ Seen(c).kind = call[c].kind /\ Seen(c).val = call[c].val
         /\ Seen(c).todo = call[c].left \cup {call[c].key}
<1>1. call[c].key \notin call[c].left
  BY DEF Asked, AskedFormed, Taken
<1> QED
  BY <1>1, SeenIs DEF Taken

(***************************************************************************)
(* Steps that write no entry of a key.                                     *)
(***************************************************************************)

LEMMA NotWriting ==
  ASSUME Shape, [Next]_vars, NEW c \in Client, ~WriteReserve(c), ~Insert(c),
         \A d \in Client \ {c} : call'[d].pc = call[d].pc
  PROVE  \A k \in Key : ~Writes(k)
<1> SUFFICES ASSUME NEW d \in Client \ {c}, WriteReserve(d) \/ Insert(d) PROVE FALSE
  BY DEF Writes
<1>1. CASE WriteReserve(d)
  BY <1>1, ReserveMoves
<1>2. CASE Insert(d)
  BY <1>2, InsertMoves DEF ClientStep, Insert
<1> QED
  BY <1>1, <1>2

LEMMA IdleWrites ==
  ASSUME Shape, [Next]_vars, UNCHANGED call
  PROVE  \A k \in Key : ~Writes(k)
<1> SUFFICES ASSUME NEW d \in Client, WriteReserve(d) \/ Insert(d) PROVE FALSE
  BY DEF Writes
<1>1. CASE WriteReserve(d)
  BY <1>1, ReserveMoves
<1>2. CASE Insert(d)
  BY <1>2, InsertMoves DEF ClientStep, Insert
<1> QED
  BY <1>1, <1>2

LEMMA StoreUntouched ==
  ASSUME Shape, Shape', [Next]_vars, UNCHANGED <<entries, now>>, \A k \in Key : ~Writes(k)
  PROVE  SameStore
  BY SightKept DEF SameStore

(* An entry goes. *)
LEMMA EntryGoes ==
  ASSUME Shape, Shape', [Next]_vars, now' = now, \A j \in Key : ~Writes(j),
         NEW k \in Key, Remove(k), NoWriter(ShardOf[k])
  PROVE  /\ Stores(k, 0) /\ Visible(k) = Kept(k)
         /\ ~Live(entries[k], now) => SameStore
<1>1. entries \in [Key -> EntryType] /\ entries' = [entries EXCEPT ![k] = None]
  BY DEF Shape, TypeOK, Remove
<1>2. \A j \in Key \ {k} : Visible(j)' = Visible(j)
  BY <1>1, SightKept
<1>3. Inserting(k) = {} /\ Inserting(k)' = {}
  BY NobodyInserts, InsertingNext
<1>4. Visible(k) = Kept(k) /\ Visible(k)' = Kept(k)'
  BY <1>3, VisibleIs, VisibleNext
<1>5. Kept(k)' = 0
  BY <1>1 DEF Kept, Live, None
<1>6. ~Live(entries[k], now) => Visible(k) = 0
  BY <1>4 DEF Kept
<1> QED
  BY <1>2, <1>4, <1>5, <1>6 DEF Stores, SameStore

(* A shown value is a number. *)
LEMMA KeptTyped ==
  ASSUME Shape, NEW k \in Key
  PROVE  /\ Kept(k) \in 0..MaxValue
         /\ Live(entries[k], now) => Kept(k) = entries[k].val /\ Kept(k) # 0
         /\ ~Live(entries[k], now) => Kept(k) = 0
<1>1. entries[k].val \in 0..MaxValue /\ (entries[k].id # 0 => entries[k].val \in Value)
  BY DEF Shape, TypeOK, EntryType, EntryFormed
<1> QED
  BY <1>1, IdsTyped DEF Kept, Live, Value

(***************************************************************************)
(* The steps of a call.                                                    *)
(***************************************************************************)

Mapped == L1!Next \/ UNCHANGED L1!vars

LEMMA ReturnMaps ==
  ASSUME Shape, Shape', Asked, [Next]_vars, NEW c \in Client, CallStep(c), Return(c)
  PROVE  Mapped
<1>1. /\ call[c].pc = "done" /\ call'[c] = CallIdle /\ call[c].kind \in AllKinds
      /\ \A d \in Client \ {c} : call'[d] = call[d]
  BY DEF Return, CallSet, Shape, TypeOK, CallType
<1>2. SameStore
  <2>1. ~WriteReserve(c) /\ ~Insert(c)
    BY <1>1 DEF WriteReserve, Insert, At
  <2>2. UNCHANGED <<entries, now>>
    BY DEF Return
  <2> QED
    BY <1>1, <2>1, <2>2, NotWriting, StoreUntouched
<1>3. Seen(c).kind # "idle" /\ Seen(c).todo = {}
  BY <1>1, SeenIs DEF Asked, AskedFormed, AllKinds
<1>4. Seen(c)' = L1!Idle
  BY <1>1 DEF Seen, Effective, CallIdle, L1!Idle
<1>5. CallBecomes(c, L1!Idle)
  BY <1>4, OthersSeen, CallReplaced
<1>6. L1!Return(c)
  BY <1>2, <1>3, <1>5, SameStoreMaps DEF L1!Return, CallBecomes
<1> QED
  BY <1>6 DEF Mapped, L1!Next

(* A key is handled, with result res. *)
LEMMA KeyHandled ==
  ASSUME Shape, Asked, [Next]_vars, NEW c \in Client, CallStep(c), NEW res, Answered(c, res),
         call[c].pc \notin Taken \cup {"flushing"}
  PROVE  /\ Handles(c, call[c].key, res) /\ call[c].key \in Seen(c).todo
         /\ L1!Answer(c, call[c].key, res) /\ Seen(c).kind = call[c].kind /\ Seen(c).val = call[c].val
<1>1. Handles(c, call[c].key, res)
  BY AnsweredSeen, KeyInHand, OthersSeen DEF Handles, Taken
<1> QED
  BY <1>1, KeyInHand, HandlesMaps

LEMMA GetMaps ==
  ASSUME Shape, Shape', Asked, [Next]_vars, NEW c \in Client, CallStep(c), Get(c)
  PROVE  Mapped
<1> DEFINE k == call[c].key
<1>0. call[c].pc = "lock" /\ call[c].kind = "get" /\ k \in Key /\ CallStep(c)
  BY DEF Get, At, Shape, CallFormed
<1>1. SameStore
  <2>1. ~WriteReserve(c) /\ ~Insert(c) /\ UNCHANGED <<entries, now>>
    BY <1>0 DEF WriteReserve, Insert, Get, At
  <2>2. \A d \in Client \ {c} : call'[d].pc = call[d].pc
    BY ClientSteps DEF ClientStep, Moved
  <2> QED
    BY <2>1, <2>2, NotWriting, StoreUntouched
<1>2. Visible(k) = Kept(k)
  BY <1>0, FreeIsUnwritten, NobodyInserts, VisibleIs DEF Get
<1>3. Handles(c, k, Visible(k)) /\ k \in Seen(c).todo /\ Seen(c).kind = "get"
  <2>1. CASE Expired(entries[k], now)
    <3>1. SameWork(c) /\ call'[c].pc = "expired"
      BY <2>1, WorkKept
    <3>2. Visible(k) = 0
      BY <1>0, <1>2, <2>1, KeptTyped DEF Live, Expired, Shape, TypeOK, EntryType
    <3> QED
      BY <1>0, <3>1, <3>2, WorkSeen, KeyInHand, OthersSeen DEF Handles, Taken
  <2>2. CASE ~Expired(entries[k], now)
    <3>1. Answered(c, entries[k].val)
      BY <2>2, AnswerAnswers DEF Get, Shape
    <3>2. Visible(k) = entries[k].val
      <4>1. /\ entries[k] \in EntryType /\ EntryFormed(entries[k]) /\ now \in Nat
        BY <1>0 DEF Shape, TypeOK
      <4> QED
        BY <1>2, <2>2, <4>1 DEF Kept, Live, Expired, EntryType, EntryFormed, None
    <3> QED
      BY <1>0, <3>1, <3>2, KeyHandled DEF Taken
  <2> QED
    BY <2>1, <2>2
<1>4. L1!Answer(c, k, Visible(k))
  BY <1>3, HandlesMaps
<1>5. L1!Get(c, k)
  BY <1>0, <1>1, <1>3, <1>4, SameStoreMaps DEF L1!Get, L1!Pending
<1> QED
  BY <1>0, <1>5 DEF Mapped, L1!Next

(* The removal of an expired entry is not seen. *)
LEMMA ExpiryUnseen ==
  ASSUME Shape, Shape', [Next]_vars, now' = now, \A j \in Key : ~Writes(j),
         NEW k \in Key, NEW id, NEW t \in Nat, t <= now, Free(ShardOf[k]), DeleteExpired(k, id, t)
  PROVE  SameStore
<1>1. CASE StillExpired(k, id, t)
  <2>1. Remove(k) /\ Expired(entries[k], t)
    BY <1>1 DEF DeleteExpired, StillExpired
  <2>2. ~Live(entries[k], now)
    BY <2>1 DEF Live, Expired, Shape, TypeOK, EntryType
  <2> QED
    BY <2>1, <2>2, FreeIsUnwritten, EntryGoes
<1>2. CASE ~StillExpired(k, id, t)
  BY <1>2, StoreUntouched DEF DeleteExpired
<1> QED
  BY <1>1, <1>2

LEMMA GetExpiredMaps ==
  ASSUME Shape, Shape', Asked, [Next]_vars, NEW c \in Client, CallStep(c), GetExpired(c)
  PROVE  Mapped
<1> DEFINE k == call[c].key
<1>0. /\ call[c].pc = "expired" /\ call[c].kind = "get" /\ k \in Key
      /\ call[c].now \in Nat /\ call[c].now <= now
  BY DEF GetExpired, At, Shape, CallFormed, TypeOK, CallType, ClocksFormed
<1>1. SameStore
  <2>1. ~WriteReserve(c) /\ ~Insert(c) /\ now' = now /\ Free(ShardOf[k])
    BY <1>0 DEF WriteReserve, Insert, GetExpired, At
  <2>2. \A d \in Client \ {c} : call'[d].pc = call[d].pc
    BY ClientSteps DEF ClientStep, Moved
  <2>3. \A j \in Key : ~Writes(j)
    BY <2>1, <2>2, NotWriting
  <2>4. DeleteExpired(k, call[c].id, call[c].now)
    BY DEF GetExpired
  <2> HIDE DEF k
  <2> QED
    BY <1>0, <2>1, <2>3, <2>4, ExpiryUnseen
<1>2. Waits(c)
  <2>1. Answered(c, 0)
    BY AnswerAnswers DEF GetExpired, Shape
  <2> QED
    BY <1>0, <2>1, AnsweredSeen, SeenIs, OthersSeen DEF Waits
<1> QED
  BY <1>1, <1>2, WaitsMaps, StutterMaps DEF Mapped

(* A call that answers without writing. *)
LEMMA ShortStep ==
  ASSUME Shape, Asked, [Next]_vars, NEW c \in Client, CallStep(c),
         Forget(c) \/ Touch(c) \/ AddExists(c)
  PROVE  /\ call[c].pc = "lock" /\ call[c].key \in Key /\ Free(ShardOf[call[c].key])
         /\ now' = now /\ \A k \in Key : ~Writes(k)
         /\ Visible(call[c].key) = Kept(call[c].key)
         /\ \A res : Done(c, res) => Answered(c, res)
<1>0. /\ call[c].pc = "lock" /\ call[c].kind \in {"forget", "touch", "add"} /\ call[c].key \in Key
      /\ now' = now /\ Free(ShardOf[call[c].key]) /\ call[c].left = {} /\ TypeOK
  BY DEF Forget, Touch, AddExists, At, Shape, CallFormed, Asked, AskedFormed
<1>1. \A k \in Key : ~Writes(k)
  <2>1. ~WriteReserve(c) /\ ~Insert(c)
    <3>1. call'[c].pc = "done"
      BY <1>0, DoneAnswers DEF Forget, Touch, AddExists
    <3> QED
      BY <1>0, <3>1, ReserveMoves DEF Insert
  <2>2. \A d \in Client \ {c} : call'[d].pc = call[d].pc
    BY ClientSteps DEF ClientStep, Moved
  <2> QED
    BY <2>1, <2>2, NotWriting
<1>2. Visible(call[c].key) = Kept(call[c].key)
  BY <1>0, FreeIsUnwritten, NobodyInserts, VisibleIs
<1>3. ASSUME NEW res, Done(c, res) PROVE Answered(c, res)
  BY <1>0, <1>3, DoneAnswers DEF Answered
<1> QED
  BY <1>0, <1>1, <1>2, <1>3

LEMMA ForgetMaps ==
  ASSUME Shape, Shape', Asked, [Next]_vars, NEW c \in Client, CallStep(c), Forget(c)
  PROVE  Mapped
<1>k. PICK k : k = call[c].key
  OBVIOUS
<1> DEFINE res == IF Live(entries[k], now) THEN 1 ELSE 0
<1>0. /\ call[c].pc = "lock" /\ call[c].kind = "forget" /\ k \in Key /\ now' = now
      /\ \A j \in Key : ~Writes(j) /\ Visible(k) = Kept(k) /\ NoWriter(ShardOf[k])
  BY <1>k, ShortStep, FreeIsUnwritten DEF Forget, At
<1>1. Remove(k) /\ Done(c, res)
  BY <1>k DEF Forget
<1>2. Stores(k, 0)
  BY <1>0, <1>1, EntryGoes
<1>3. res = IF Visible(k) = 0 THEN 0 ELSE 1
  BY <1>0, KeptTyped
<1>4. Answered(c, res)
  BY <1>1, ShortStep
<1>5. L1!Answer(c, k, res) /\ k \in Seen(c).todo /\ Seen(c).kind = "forget"
  BY <1>k, <1>0, <1>4, KeyHandled DEF Taken
<1>6. L1!Forget(c, k)
  BY <1>0, <1>2, <1>3, <1>5, StoresMaps DEF L1!Forget, L1!Pending
<1> QED
  BY <1>0, <1>6 DEF Mapped, L1!Next

LEMMA TouchMaps ==
  ASSUME Shape, Shape', Asked, [Next]_vars, NEW c \in Client, CallStep(c), Touch(c)
  PROVE  Mapped
<1>k. PICK k : k = call[c].key
  OBVIOUS
<1> DEFINE res == IF Live(entries[k], now) THEN 1 ELSE 0
<1>0. /\ call[c].pc = "lock" /\ call[c].kind = "touch" /\ k \in Key /\ now' = now
      /\ \A j \in Key : ~Writes(j) /\ Visible(k) = Kept(k) /\ NoWriter(ShardOf[k])
  BY <1>k, ShortStep, FreeIsUnwritten DEF Touch, At
<1>1. Done(c, res)
  BY <1>k DEF Touch
<1>2. SameStore
  <2>1. CASE ~Live(entries[k], now)
    BY <1>k, <1>0, <2>1, EntryGoes DEF Touch
  <2>2. CASE Live(entries[k], now)
    <3>1. entries' = [entries EXCEPT ![k].exp = now + call[c].ttl]
      BY <1>k, <2>2 DEF Touch
    <3>2. now \in Nat /\ call[c].ttl \in Nat /\ call[c].ttl > 0 /\ entries \in [Key -> EntryType]
      BY <1>k, <1>0 DEF Shape, TypeOK, CallType, CallFormed
    <3>3. /\ entries'[k].id = entries[k].id /\ entries'[k].val = entries[k].val
          /\ entries'[k].exp = now + call[c].ttl
          /\ \A j \in Key \ {k} : entries'[j] = entries[j]
      BY <1>0, <3>1, <3>2 DEF EntryType
    <3>4. Kept(k)' = Kept(k)
      BY <1>0, <2>2, <3>2, <3>3 DEF Kept, Live
    <3>5. Visible(k)' = Kept(k)'
      BY <1>0, NobodyInserts, InsertingNext, VisibleNext
    <3>6. \A j \in Key \ {k} : Visible(j)' = Visible(j)
      BY <1>0, <3>3, SightKept
    <3> QED
      BY <1>0, <3>4, <3>5, <3>6 DEF SameStore
  <2> QED
    BY <2>1, <2>2
<1>3. res = IF Visible(k) = 0 THEN 0 ELSE 1
  BY <1>0, KeptTyped
<1>4. Answered(c, res)
  BY <1>1, ShortStep
<1>5. L1!Answer(c, k, res) /\ k \in Seen(c).todo /\ Seen(c).kind = "touch"
  BY <1>k, <1>0, <1>4, KeyHandled DEF Taken
<1>6. L1!Touch(c, k)
  BY <1>0, <1>2, <1>3, <1>5, SameStoreMaps DEF L1!Touch, L1!Pending
<1> QED
  BY <1>0, <1>6 DEF Mapped, L1!Next

LEMMA AddExistsMaps ==
  ASSUME Shape, Shape', Asked, [Next]_vars, NEW c \in Client, CallStep(c), AddExists(c)
  PROVE  Mapped
<1> DEFINE k == call[c].key
<1>0. /\ call[c].pc = "lock" /\ call[c].kind = "add" /\ k \in Key /\ UNCHANGED <<entries, now>>
      /\ \A j \in Key : ~Writes(j) /\ Visible(k) = Kept(k)
  BY ShortStep DEF AddExists, At
<1>1. Visible(k) # 0 /\ Done(c, 0)
  BY <1>0, KeptTyped DEF AddExists
<1>2. SameStore
  BY <1>0, StoreUntouched
<1>3. L1!Answer(c, k, 0) /\ k \in Seen(c).todo /\ Seen(c).kind = "add"
  BY <1>0, <1>1, ShortStep, KeyHandled DEF Taken
<1>4. L1!Add(c, k)
  BY <1>0, <1>1, <1>2, <1>3, SameStoreMaps DEF L1!Add, L1!Pending
<1> QED
  BY <1>0, <1>4 DEF Mapped, L1!Next

(* A write is refused. *)
LEMMA RefusalMaps ==
  ASSUME SameStore, NEW c \in Client, Refused(c), Asked,
         call[c].pc \in {"lock", "evicting"}, call[c].kind \in {"set", "add", "counter"},
         \A d \in Client \ {c} : Seen(d)' = Seen(d)
  PROVE  Mapped
<1>1. CallLeft(c, {}, 0)
  BY RefusedSeen, CallAnswered
<1>2. Seen(c).kind \in {"set", "add", "counter"} /\ Seen(c).todo # {}
  BY KeyInHand DEF Taken
<1>3. L1!Refuse(c)
  BY <1>1, <1>2, SameStoreMaps DEF L1!Refuse, CallLeft
<1> QED
  BY <1>3 DEF Mapped, L1!Next

LEMMA WriteInvalidMaps ==
  ASSUME Shape, Shape', Asked, [Next]_vars, NEW c \in Client, CallStep(c), WriteInvalid(c)
  PROVE  Mapped
<1> DEFINE k == call[c].key
<1>0. /\ call[c].pc = "lock" /\ call[c].kind \in {"set", "add", "counter"} /\ k \in Key
      /\ now' = now /\ TypeOK /\ now \in Nat
  BY DEF WriteInvalid, At, Shape, CallFormed, TypeOK
<1>1. Refused(c)
  BY <1>0, RefuseRefuses DEF WriteInvalid
<1>2. \A j \in Key : ~Writes(j)
  <2>1. ~WriteReserve(c) /\ ~Insert(c)
    BY <1>0, <1>1, ReserveMoves DEF Refused, Insert
  <2>2. \A d \in Client \ {c} : call'[d].pc = call[d].pc
    BY ClientSteps DEF ClientStep, Moved
  <2> QED
    BY <2>1, <2>2, NotWriting
<1>3. SameStore
  <2>1. CASE UNCHANGED entries
    BY <1>0, <1>2, <2>1, StoreUntouched
  <2>2. CASE Free(ShardOf[k]) /\ Discards(c) /\ Remove(k)
    <3>1. ~Live(entries[k], now)
      BY <1>0, <2>2 DEF Discards, Expired, Live, EntryType, TypeOK
    <3> QED
      BY <1>0, <1>2, <2>2, <3>1, FreeIsUnwritten, EntryGoes
  <2> QED
    BY <2>1, <2>2 DEF WriteInvalid
<1> QED
  BY <1>0, <1>1, <1>3, OthersSeen, RefusalMaps

(* A write waits for evictionMu, finds room meanwhile, or gets to evict; a     *)
(* Flush waits for it too.                                                  *)
LEMMA QueueMaps ==
  ASSUME Shape, Shape', Asked, [Next]_vars, NEW c \in Client, CallStep(c), EvBegin(c) \/ FlBegin(c)
  PROVE  Mapped
<1>0. /\ SameWork(c) /\ UNCHANGED <<entries, now>> /\ call[c].pc \in {"evict", "lock"}
      /\ call'[c].pc \in {"lock", "evicting", "flushing"}
  BY WorkKept, QueueMoves DEF EvBegin, FlBegin
<1>1. SameStore
  <2>1. ~WriteReserve(c) /\ ~Insert(c)
    BY <1>0, ReserveMoves DEF Insert
  <2>2. \A d \in Client \ {c} : call'[d].pc = call[d].pc
    BY ClientSteps DEF ClientStep, Moved
  <2> QED
    BY <1>0, <2>1, <2>2, NotWriting, StoreUntouched
<1>2. CASE call'[c].pc # "flushing"
  <2>1. Waits(c)
    BY <1>0, <1>2, WorkSeen, OthersSeen DEF Waits, Taken
  <2> QED
    BY <1>1, <2>1, WaitsMaps, StutterMaps DEF Mapped
<1>3. CASE call'[c].pc = "flushing"
  <2>1. call[c].pc = "lock" /\ ev' = [EvIdle EXCEPT !.owner = c, !.pc = "lock"]
    BY <1>3, QueueMoves
  <2>2. ev'.pc = "lock"
    BY <2>1 DEF EvIdle
  <2>3. call[c].kind = "flush" /\ call[c].res = 0
    <3>1. CallFormed(call'[c])
      BY CallsNext
    <3>2. call'[c].kind = "flush"
      BY <1>3, <3>1 DEF CallFormed
    <3> QED
      BY <1>0, <2>1, <3>2 DEF SameWork, Asked, AskedFormed
  <2>4. Seen(c)' = Seen(c)
    BY <1>0, <1>3, <2>1, <2>2, <2>3 DEF Seen, Effective, SameWork
  <2>5. SameCalls
    BY <2>4, OthersSeen DEF SameCalls
  <2> QED
    BY <1>1, <2>5, StutterMaps DEF Mapped
<1> QED
  BY <1>2, <1>3

(***************************************************************************)
(* Writes: they are seen when their bytes are reserved.                    *)
(***************************************************************************)

LEMMA WriteElsewhere ==
  ASSUME Shape, Shape', [Next]_vars, NEW c \in Client, WriteReserve(c) \/ Insert(c)
  PROVE  /\ call[c].key \in Key /\ now' = now /\ Moved(c)
         /\ \A j \in Key \ {call[c].key} : Visible(j)' = Visible(j)
<1>1. /\ call[c].key \in Key /\ Moved(c) /\ now' = now /\ entries \in [Key -> EntryType]
  BY ReserveMoves, InsertMoves DEF ClientStep, WriteReserve, Insert, Shape, TypeOK
<1> SUFFICES ASSUME NEW j \in Key \ {call[c].key} PROVE Visible(j)' = Visible(j)
  BY <1>1
<1>2. entries'[j] = entries[j]
  BY <1>1 DEF WriteReserve, Insert
<1>3. ~Writes(j)
  <2>1. ASSUME NEW d \in Client, call[d].key = j PROVE ~WriteReserve(d) /\ ~Insert(d)
    <3>1. d # c /\ call'[d] = call[d]
      BY <1>1, <2>1 DEF Moved
    <3> QED
      BY <3>1, ReserveMoves, InsertMoves
  <2> QED
    BY <2>1 DEF Writes
<1> QED
  BY <1>1, <1>2, <1>3, SightKept

(* What a writer finds at its key. *)
LEMMA ReserveSees ==
  ASSUME Shape, NEW c \in Client, WriteReserve(c)
  PROVE  /\ Inserting(call[c].key) = {} /\ Visible(call[c].key) = Kept(call[c].key)
         /\ Old(c) \in EntryType /\ EntryFormed(Old(c)) /\ NewValue(c, Old(c)) \in Value
         /\ call[c].kind # "set" =>
              Old(c).val = Kept(call[c].key) /\ (Old(c).exp = 0 \/ Old(c).exp > now)
         /\ call[c].kind = "set" => Old(c) = entries[call[c].key]
         /\ \/ Old(c) = None /\ ~Live(entries[call[c].key], now)
            \/ Old(c) = entries[call[c].key]
<1>0. /\ call[c].key \in Key /\ TypeOK /\ CallFormed(call[c]) /\ now \in Nat
      /\ EntryFormed(entries[call[c].key]) /\ entries[call[c].key] \in EntryType
      /\ call[c].kind \in {"set", "add", "counter"}
  BY ReserveMoves DEF Shape, TypeOK, WriteReserve, At
<1>1. Inserting(call[c].key) = {} /\ Visible(call[c].key) = Kept(call[c].key)
  BY <1>0, FreeIsUnwritten, NobodyInserts, VisibleIs DEF WriteReserve
<1>2. Old(c) \in EntryType /\ EntryFormed(Old(c))
  BY <1>0, OldFormed
<1>3. NewValue(c, Old(c)) \in Value
  BY <1>0, <1>2, WriteNumbers DEF WriteReserve
<1> DEFINE e == entries[call[c].key]
<1>4. CASE Discards(c)
  <2>1. Old(c) = None /\ ~Live(e, now) /\ call[c].kind # "set"
    BY <1>0, <1>4 DEF Discards, Old, Live, Expired, EntryType
  <2>2. Kept(call[c].key) = 0
    BY <2>1 DEF Kept
  <2> QED
    BY <1>1, <1>2, <1>3, <2>1, <2>2 DEF None
<1>5. CASE ~Discards(c)
  <2>1. Old(c) = e
    BY <1>5 DEF Old
  <2>2. call[c].kind # "set" =>
          /\ e.exp = 0 \/ e.exp > now
          /\ Kept(call[c].key) = e.val
    <3>1. SUFFICES ASSUME call[c].kind # "set"
                   PROVE  (e.exp = 0 \/ e.exp > now) /\ Kept(call[c].key) = e.val
      OBVIOUS
    <3>2. ~Expired(e, now)
      BY <1>5, <3>1 DEF Discards
    <3>3. e \in EntryType /\ EntryFormed(e)
      BY <1>0
    <3>4. Kept(call[c].key) = IF Live(e, now) THEN e.val ELSE 0
      BY DEF Kept
    <3> HIDE DEF e
    <3> QED
      BY <1>0, <3>2, <3>3, <3>4 DEF Expired, Live, EntryFormed, EntryType, None
  <2> QED
    BY <1>1, <1>2, <1>3, <2>1, <2>2
<1> QED
  BY <1>4, <1>5

(* It has to evict first: nothing is seen to change. *)
LEMMA ReserveWaits ==
  ASSUME Shape, Shape', Asked, [Next]_vars, NEW c \in Client, CallStep(c), WriteReserve(c),
         call'[c].pc = "evict"
  PROVE  Mapped
<1>k. PICK k : k = call[c].key
  OBVIOUS
<1>0. /\ k \in Key /\ now' = now /\ \A d \in Client \ {c} : call'[d] = call[d]
      /\ \A j \in Key \ {k} : Visible(j)' = Visible(j)
      /\ entries \in [Key -> EntryType] /\ entries' = [entries EXCEPT ![k] = Old(c)]
  BY <1>k, WriteElsewhere DEF Moved, WriteReserve, Shape, TypeOK
<1>1. Inserting(k)' = {}
  BY <1>k, <1>0, ReserveSees DEF Inserting
<1>2. Visible(k)' = Visible(k)
  <2>1. Visible(k)' = Kept(k)' /\ Visible(k) = Kept(k)
    BY <1>k, <1>0, <1>1, ReserveSees, VisibleNext
  <2>2. Kept(k)' = Kept(k)
    BY <1>k, <1>0, ReserveSees DEF Kept, Live, None
  <2> QED
    BY <2>1, <2>2
<1>3. SameStore
  BY <1>0, <1>2 DEF SameStore
<1>4. Waits(c)
  BY WorkKept, ReserveMoves, WorkSeen, OthersSeen DEF Waits, Taken
<1> QED
  BY <1>3, <1>4, WaitsMaps, StutterMaps DEF Mapped

(* It has its bytes: the value is seen, and the answer is certain. *)
LEMMA ReserveWrites ==
  ASSUME Shape, Shape', Asked, [Next]_vars, NEW c \in Client, CallStep(c), WriteReserve(c),
         call'[c].pc = "insert", NEW k \in Key, k = call[c].key
  PROVE  /\ Stores(k, NewValue(c, Old(c)))
         /\ Handles(c, k, IF call[c].kind = "counter" THEN NewValue(c, Old(c)) ELSE 1)
<1>0. /\ now' = now /\ \A j \in Key \ {k} : Visible(j)' = Visible(j)
      /\ entries \in [Key -> EntryType] /\ entries' = [entries EXCEPT ![k] = Old(c)]
      /\ call[c].kind \in {"set", "add", "counter"} /\ CallFormed(call[c]) /\ now \in Nat
      /\ call[c].ttl \in Nat /\ SameWork(c)
  BY WriteElsewhere, WorkKept DEF Moved, WriteReserve, At, Shape, TypeOK, CallType
<1>1. /\ call'[c].key = k /\ call'[c].kind = call[c].kind /\ call'[c].val = call[c].val
      /\ call'[c].ttl = call[c].ttl /\ call'[c].now = now
  BY <1>0, ReserveMoves DEF ClientStep, SameQuestion, SameWork
<1>2. entries'[k] = Old(c)
  BY <1>0
<1>3. NewValue(c, entries[call[c].key])' = NewValue(c, Old(c))
  BY <1>1, <1>2 DEF NewValue
<1>4. Deadline(c, entries[call[c].key])' = 0 \/ Deadline(c, entries[call[c].key])' > now
  BY <1>0, <1>1, <1>2, ReserveSees DEF Deadline, CallFormed, EntryType
<1>5. Coming(c)' = NewValue(c, Old(c))
  BY <1>0, <1>3, <1>4 DEF Coming
<1>6. c \in Inserting(k)'
  BY <1>1 DEF Inserting
<1>7. Stores(k, NewValue(c, Old(c)))
  <2>1. Visible(k)' = NewValue(c, Old(c))
    BY <1>5, <1>6, VisibleNext
  <2>2. PICK v : v = NewValue(c, Old(c))
    OBVIOUS
  <2>3. Stores(k, v)
    BY <1>0, <2>1, <2>2 DEF Stores
  <2> QED
    BY <2>2, <2>3
<1>8. Handles(c, k, IF call[c].kind = "counter" THEN NewValue(c, Old(c)) ELSE 1)
  <2>1. call[c].pc = "lock"
    BY ReserveMoves
  <2>2. /\ Seen(c)'.kind = Seen(c).kind /\ Seen(c)'.val = Seen(c).val /\ Seen(c)'.todo = call[c].left
        /\ Seen(c)'.res = IF call[c].kind = "counter" THEN NewValue(c, Old(c)) ELSE 1
    BY <1>0, <1>3, <2>1, WorkSeen DEF Taken
  <2>3. Seen(c).todo \ {k} = call[c].left
    BY <2>1, KeyInHand DEF Taken
  <2> QED
    BY <2>2, <2>3, OthersSeen DEF Handles
<1> QED
  BY <1>7, <1>8

LEMMA ReserveMaps ==
  ASSUME Shape, Shape', Asked, [Next]_vars, NEW c \in Client, CallStep(c), WriteReserve(c)
  PROVE  Mapped
<1>1. CASE call'[c].pc = "evict"
  BY <1>1, ReserveWaits
<1>2. CASE call'[c].pc = "insert"
  <2>k. PICK k : k = call[c].key
    OBVIOUS
  <2>0. /\ k \in Key /\ call[c].pc = "lock" /\ call[c].kind \in {"set", "add", "counter"}
        /\ Visible(k) = Kept(k)
    BY <2>k, ReserveMoves, ReserveSees DEF WriteReserve, At
  <2>1. PICK v : v = NewValue(c, Old(c))
    OBVIOUS
  <2>2. /\ Stores(k, v) /\ Handles(c, k, IF call[c].kind = "counter" THEN v ELSE 1)
        /\ v \in Value
    BY <1>2, <2>k, <2>0, <2>1, ReserveWrites, ReserveSees
  <2>3. L1!Put(k, v)
    BY <2>0, <2>2, StoresMaps DEF L1!Put
  <2>4. L1!Answer(c, k, IF call[c].kind = "counter" THEN v ELSE 1)
    BY <2>2, HandlesMaps
  <2>5. k \in Seen(c).todo /\ Seen(c).kind = call[c].kind /\ Seen(c).val = call[c].val
    BY <2>k, <2>0, KeyInHand DEF Taken
  <2>6. CASE call[c].kind = "set"
    <3>1. v = call[c].val
      BY <2>1, <2>6 DEF NewValue
    <3>2. L1!Set(c, k)
      BY <2>3, <2>4, <2>5, <2>6, <3>1 DEF L1!Set, L1!Pending
    <3> QED
      BY <2>0, <3>2 DEF Mapped, L1!Next
  <2>7. CASE call[c].kind = "add"
    <3>1. v = call[c].val
      BY <2>1, <2>7 DEF NewValue
    <3>2. Visible(k) = 0
      BY <2>k, <2>0, <2>7, KeptTyped DEF WriteReserve
    <3>3. L1!Add(c, k)
      BY <2>0, <2>3, <2>4, <2>5, <2>7, <3>1, <3>2 DEF L1!Add, L1!Pending
    <3> QED
      BY <2>0, <3>3 DEF Mapped, L1!Next
  <2>8. CASE call[c].kind = "counter"
    <3>1. v = Visible(k) + 1
      BY <2>k, <2>0, <2>1, <2>8, ReserveSees DEF NewValue
    <3>2. Visible(k) < MaxValue
      BY <2>0, <2>2, <3>1, KeptTyped, IdsTyped DEF Value
    <3>3. L1!Counter(c, k)
      BY <2>0, <2>3, <2>4, <2>5, <2>8, <3>1, <3>2 DEF L1!Counter, L1!Pending
    <3> QED
      BY <2>0, <3>3 DEF Mapped, L1!Next
  <2> QED
    BY <2>0, <2>6, <2>7, <2>8
<1> QED
  BY <1>1, <1>2, ReserveMoves

(* The insertion itself is not seen. *)
LEMMA InsertMaps ==
  ASSUME Shape, Shape', Asked, [Next]_vars, NEW c \in Client, CallStep(c), Insert(c)
  PROVE  Mapped
<1>k. PICK k : k = call[c].key
  OBVIOUS
<1>0. /\ k \in Key /\ now' = now /\ \A d \in Client \ {c} : call'[d] = call[d]
      /\ \A j \in Key \ {k} : Visible(j)' = Visible(j)
      /\ entries \in [Key -> EntryType] /\ call[c].pc = "insert"
      /\ call'[c].pc \in {"lock", "done"}
  BY <1>k, WriteElsewhere, InsertMoves DEF Moved, Shape, TypeOK
<1>1. Inserting(k)' = {}
  <2>1. \A d \in Client \ {c} : call[d].pc = "insert" => call[d].key # k
    BY <1>k, <1>0 DEF Shape, LocksHeld
  <2> QED
    BY <1>0, <2>1 DEF Inserting
<1>2. Visible(k)' = Visible(k)
  <2>1. Visible(k)' = Kept(k)'
    BY <1>0, <1>1, VisibleNext
  <2>2. Visible(k) = Coming(c)
    BY <1>k, <1>0, VisibleIs DEF Inserting
  <2>3. entries'[k] = NewEntry(c) /\ NewEntry(c).id # 0
    BY <1>k, <1>0, NewEntryIs
  <2>4. /\ NewEntry(c).val = NewValue(c, entries[k]) /\ NewEntry(c).exp = Deadline(c, entries[k])
    BY <1>k DEF NewEntry
  <2>5. Kept(k)' = Coming(c)
    BY <1>k, <1>0, <2>3, <2>4 DEF Kept, Live, Coming
  <2> QED
    BY <2>1, <2>2, <2>5
<1>3. SameStore
  BY <1>0, <1>2 DEF SameStore
<1>4. Waits(c)
  <2>1. Answered(c, IF call[c].kind = "counter" THEN NewValue(c, entries[call[c].key]) ELSE 1)
    BY AnswerAnswers DEF Insert, Shape
  <2> QED
    BY <1>0, <2>1, AnsweredSeen, SeenIs, OthersSeen DEF Waits
<1> QED
  BY <1>3, <1>4, WaitsMaps, StutterMaps DEF Mapped

LEMMA CallStepMaps ==
  ASSUME Shape, Shape', Asked, [Next]_vars, NEW c \in Client, CallStep(c)
  PROVE  Mapped
  BY ReturnMaps, GetMaps, GetExpiredMaps, ForgetMaps, TouchMaps, AddExistsMaps, WriteInvalidMaps,
     ReserveMaps, InsertMaps, QueueMaps DEF CallStep

(***************************************************************************)
(* The other steps.                                                        *)
(***************************************************************************)

LEMMA CallMaps ==
  ASSUME Shape, Shape', Asked, [Next]_vars, NEW c \in Client, Call(c)
  PROVE  Mapped
<1>0. /\ call[c].pc = "idle" /\ UNCHANGED <<entries, now>> /\ call \in [Client -> CallType]
      /\ \A d \in Client \ {c} : call'[d] = [call[d] EXCEPT !.alone = FALSE]
  BY CallBegins DEF Shape, TypeOK
<1>1. SameStore
  <2>1. ~WriteReserve(c) /\ ~Insert(c)
    BY <1>0 DEF WriteReserve, Insert, At
  <2>2. \A d \in Client \ {c} : call'[d].pc = call[d].pc
    BY <1>0 DEF CallType
  <2> QED
    BY <1>0, <2>1, <2>2, NotWriting, StoreUntouched
<1>2. Seen(c).kind = "idle"
  BY <1>0 DEF Seen
<1>3. PICK kind \in AllKinds : \E keys \in KeysFor(kind) : \E k \in keys :
      \E val \in (IF kind \in {"set", "add"} THEN Value ELSE {0}) :
        /\ call'[c].pc = "lock" /\ call'[c].kind = kind /\ call'[c].key = k
        /\ call'[c].left = keys \ {k} /\ call'[c].val = val /\ call'[c].res = 0
  BY CallBegun DEF Begun
<1>4. PICK keys \in KeysFor(kind) : \E k \in keys :
      \E val \in (IF kind \in {"set", "add"} THEN Value ELSE {0}) :
        /\ call'[c].pc = "lock" /\ call'[c].kind = kind /\ call'[c].key = k
        /\ call'[c].left = keys \ {k} /\ call'[c].val = val /\ call'[c].res = 0
  BY <1>3
<1>5. PICK k \in keys : \E val \in (IF kind \in {"set", "add"} THEN Value ELSE {0}) :
        /\ call'[c].pc = "lock" /\ call'[c].kind = kind /\ call'[c].key = k
        /\ call'[c].left = keys \ {k} /\ call'[c].val = val /\ call'[c].res = 0
  BY <1>4
<1>6. PICK val \in (IF kind \in {"set", "add"} THEN Value ELSE {0}) :
        /\ call'[c].pc = "lock" /\ call'[c].kind = kind /\ call'[c].key = k
        /\ call'[c].left = keys \ {k} /\ call'[c].val = val /\ call'[c].res = 0
  BY <1>5
<1>7. kind \in L1!Ops /\ keys \in L1!KeysFor(kind) /\ val \in L1!ValuesFor(kind)
  <2>1. kind \in L1!Ops /\ val \in L1!ValuesFor(kind)
    BY DEF L1!Ops, AllKinds, L1!ValuesFor, Value
  <2>2. CASE kind \in {"get", "set"}
    <3>1. keys \in KeySets
      BY <2>2 DEF KeysFor
    <3>2. keys \in (SUBSET Key) \ {{}}
      <4>1. keys \in SUBSET Key
        <5>1. KeySets \subseteq SUBSET Key
          BY MemoryAssumption
        <5> QED
          BY <3>1, <5>1
      <4>2. keys # {}
        <5>1. k \in keys
          OBVIOUS
        <5> QED
          BY <5>1
      <4> QED
        BY <4>1, <4>2, Zenon
    <3> QED
      BY <2>1, <2>2, <3>2 DEF L1!KeysFor
  <2>3. CASE kind \notin {"get", "set"}
    BY <2>1, <2>3 DEF L1!KeysFor, KeysFor
  <2> QED
    BY <2>2, <2>3
<1>8. Seen(c)' = [kind |-> kind, todo |-> keys, val |-> val, res |-> 0]
  BY <1>6 DEF Seen, Effective
<1>9. PICK r : r = [kind |-> kind, todo |-> keys, val |-> val, res |-> 0]
  OBVIOUS
<1>10. CallBecomes(c, r)
  BY <1>8, <1>9, OthersSeen, CallReplaced
<1>11. L1!Invoke(c)
  BY <1>1, <1>2, <1>7, <1>9, <1>10, SameStoreMaps DEF L1!Invoke, CallBecomes
<1> QED
  BY <1>11 DEF Mapped, L1!Next

(* Nobody's call moves, and no Flush takes effect. *)
LEMMA CallsKept ==
  ASSUME Shape, [Next]_vars, UNCHANGED call, FlushTakes' = FlushTakes
  PROVE  SameCalls
  BY SeenKept DEF SameCalls

(* Entries are dropped. *)
LEMMA DropMaps ==
  ASSUME SameCalls, \A k \in Key : Visible(k)' = Visible(k) \/ Visible(k)' = 0
  PROVE  Mapped
<1> DEFINE gone == {k \in Key : Visible(k)' = 0}
<1>1. gone \in SUBSET Key
  OBVIOUS
<1>2. \A k \in Key : Visible(k)' = IF k \in gone THEN 0 ELSE Visible(k)
  OBVIOUS
<1> HIDE DEF gone
<1>3. [k \in Key |-> Visible(k)]' = [k \in Key |-> IF k \in gone THEN 0 ELSE [j \in Key |-> Visible(j)][k]]
  BY <1>2
<1>4. [c \in Client |-> Seen(c)]' = [c \in Client |-> Seen(c)]
  BY DEF SameCalls
<1> QED
  BY <1>1, <1>3, <1>4 DEF Mapped, L1!Next, L1!Drop

LEMMA EvictionMaps ==
  ASSUME Shape, Shape', Asked, [Next]_vars, OwnerStep,
         EvPurgeLock \/ EvPurgeKey \/ EvPurged \/ EvRoom \/ EvSample \/ EvScan \/ EvTry
  PROVE  Mapped
<1>0. ev.pc \in EvictPc /\ UNCHANGED <<now, call>> /\ ~EvFinish /\ ~FlUnlock
  BY DEF EvPurgeLock, EvPurgeKey, EvPurged, EvRoom, EvSample, EvScan, EvTry, EvictPc, EvFinish,
         FlUnlock
<1>1. FlushTakes' = FlushTakes
  BY <1>0, OwnerMoves DEF OwnerGoesOn, OwnerReturns, FlushTakes, EvictPc, FlushPc
<1>2. SameCalls /\ \A k \in Key : ~Writes(k)
  BY <1>0, <1>1, CallsKept, IdleWrites
<1>3. CASE UNCHANGED entries
  BY <1>0, <1>2, <1>3, StoreUntouched, StutterMaps DEF Mapped
<1>4. CASE EvPurgeKey
  <2>1. PICK k \in KeysOf(ev.at) : Expired(entries[k], ev.now) /\ Remove(k)
    BY <1>4 DEF EvPurgeKey
  <2>2. k \in Key /\ ShardOf[k] = ev.at
    BY DEF KeysOf
  <2>3. NoWriter(ShardOf[k])
    BY <1>4, <2>2 DEF EvPurgeKey, EvHolds, Shape, LocksHeld, NoWriter
  <2>4. ~Live(entries[k], now)
    BY <2>1, <2>2 DEF Live, Expired, Shape, TypeOK, EntryType, EvType, ClocksFormed
  <2>5. SameStore
    BY <1>0, <1>2, <2>1, <2>2, <2>3, <2>4, EntryGoes
  <2> QED
    BY <1>2, <2>5, StutterMaps DEF Mapped
<1>5. CASE EvTry /\ entries[ev.key].id = ev.id
  <2>1. PICK k : k = ev.key
    OBVIOUS
  <2>2. k \in Key /\ Remove(k) /\ Free(ShardOf[k])
    BY <1>5, <2>1 DEF EvTry, Shape, EvFormed
  <2>3. Stores(k, 0)
    BY <1>0, <1>2, <2>2, FreeIsUnwritten, EntryGoes
  <2> QED
    BY <1>2, <2>2, <2>3, DropMaps DEF Stores
<1> QED
  BY <1>3, <1>4, <1>5 DEF EvPurgeLock, EvPurged, EvRoom, EvSample, EvScan, EvTry

(* The owner of evictionMu answers, and its entries stay. *)
LEMMA ReturnsQuietly ==
  ASSUME Shape, Shape', [Next]_vars, OwnerStep, OwnerReturns
  PROVE  SameStore
<1>1. /\ UNCHANGED <<entries, now>> /\ ev.owner \in Client
      /\ \A d \in Client \ {ev.owner} : call'[d].pc = call[d].pc
  BY DEF OwnerReturns, EvFinish, FlUnlock, Moved
<1>2. call[ev.owner].pc \in {"evicting", "flushing"}
  BY DEF OwnerReturns, Shape, EvFormed, EvictPc, FlushPc
<1>3. ~WriteReserve(ev.owner) /\ ~Insert(ev.owner)
  BY <1>2 DEF WriteReserve, Insert, At
<1>4. \A k \in Key : ~Writes(k)
  BY <1>1, <1>3, NotWriting
<1> QED
  BY <1>1, <1>4, StoreUntouched

LEMMA FinishMaps ==
  ASSUME Shape, Shape', Asked, [Next]_vars, OwnerStep, EvFinish
  PROVE  Mapped
<1>1. OwnerReturns
  BY OwnerMoves, EvIdleTyped DEF OwnerGoesOn, EvFinish, Released, FlushPc, EvictPc
<1>2. PICK c \in Client : c = ev.owner
  BY <1>1 DEF OwnerReturns
<1>3. SameStore /\ \A d \in Client \ {c} : Seen(d)' = Seen(d)
  BY <1>1, <1>2, ReturnsQuietly, OthersSeen
<1>4. call[c].pc = "evicting" /\ call[c].kind \in {"set", "add", "counter"}
  BY <1>2 DEF EvFinish, Shape, EvFormed, EvictPc, CallFormed
<1>5. CASE SameWork(c) /\ call'[c].pc = "lock"
  <2>1. Waits(c)
    BY <1>3, <1>4, <1>5, WorkSeen DEF Waits, Taken
  <2> QED
    BY <1>3, <2>1, WaitsMaps, StutterMaps DEF Mapped
<1>6. CASE Refused(c)
  BY <1>3, <1>4, <1>6, RefusalMaps
<1> QED
  BY <1>1, <1>2, <1>4, <1>5, <1>6, OwnerWork DEF EvFinish, FlUnlock

LEMMA FlushMaps ==
  ASSUME Shape, Shape', Asked, [Next]_vars, OwnerStep, FlLock \/ FlZero \/ FlUnlock
  PROVE  Mapped
<1>1. CASE UNCHANGED call /\ UNCHANGED <<entries, now>> /\ FlushTakes' = FlushTakes
  BY <1>1, CallsKept, IdleWrites, StoreUntouched, StutterMaps DEF Mapped
<1>2. CASE FlLock \/ FlZero \/ (FlUnlock /\ ev.at # 1)
  <2>1. UNCHANGED <<entries, now, call>> /\ ev \in EvType
    BY <1>2 DEF FlLock, FlZero, FlUnlock, Shape, TypeOK
  <2>2. FlushTakes' = FlushTakes
    <3>1. CASE FlLock
      <4>1. ev.pc = "lock" /\ ev'.pc \in {"lock", "clear"}
        BY <2>1, <3>1 DEF FlLock, EvType
      <4> QED
        BY <4>1 DEF FlushTakes
    <3>2. CASE FlZero
      <4>1. ev.pc = "zero" /\ ev'.pc = "unlock"
        BY <2>1, <3>2 DEF FlZero, EvType
      <4> QED
        BY <4>1 DEF FlushTakes
    <3>3. CASE FlUnlock /\ ev.at # 1
      <4>1. ev.pc = "unlock" /\ ev'.pc = "unlock"
        BY <2>1, <3>3 DEF FlUnlock, EvType
      <4> QED
        BY <4>1 DEF FlushTakes
    <3> QED
      BY <1>2, <3>1, <3>2, <3>3
  <2> QED
    BY <1>1, <2>1, <2>2
<1>3. CASE FlUnlock /\ ev.at = 1
  <2>1. OwnerReturns
    BY <1>3, OwnerMoves, EvIdleTyped DEF OwnerGoesOn, FlUnlock, Released, FlushPc, EvictPc
  <2>2. PICK c \in Client : c = ev.owner
    BY <2>1 DEF OwnerReturns
  <2>3. SameStore /\ \A d \in Client \ {c} : Seen(d)' = Seen(d)
    BY <2>1, <2>2, ReturnsQuietly, OthersSeen
  <2>4. call[c].pc = "flushing" /\ Answered(c, 1)
    BY <1>3, <2>1, <2>2, OwnerWork DEF FlUnlock, EvFinish
  <2>5. call[c].left = {}
    BY <2>4 DEF Asked, AskedFormed, Shape, CallFormed
  <2>6. call'[c].pc = "done" /\ call'[c].left = {}
    BY <2>4, <2>5 DEF Answered
  <2>7. Waits(c)
    BY <1>3, <2>3, <2>4, <2>5, <2>6 DEF Waits, Seen, Effective, FlUnlock, Answered
  <2> QED
    BY <2>3, <2>7, WaitsMaps, StutterMaps DEF Mapped
<1> QED
  BY <1>2, <1>3

LEMMA ClearMaps ==
  ASSUME Shape, Shape', Asked, [Next]_vars, OwnerStep, FlClear
  PROVE  Mapped
<1>0. ev.pc = "clear" /\ UNCHANGED <<now, call>> /\ ev \in EvType
  BY DEF FlClear, Shape, TypeOK
<1>1. PICK c \in Client : c = ev.owner /\ call[c].pc = "flushing"
  BY <1>0 DEF Shape, EvFormed, FlushPc
<1>2. call[c].kind = "flush" /\ call[c].key = NoKey /\ call[c].left = {}
  BY <1>1 DEF Asked, AskedFormed, Shape, CallFormed
<1>3. ev'.pc = "zero"
  BY <1>0 DEF FlClear, EvGoto, EvType
<1>4. Handles(c, NoKey, 1)
  <2>1. /\ Seen(c)'.kind = Seen(c).kind /\ Seen(c)'.val = Seen(c).val
        /\ Seen(c)'.todo = Seen(c).todo \ {NoKey} /\ Seen(c)'.res = 1
    BY <1>0, <1>1, <1>2, <1>3 DEF Seen, Effective
  <2> QED
    BY <1>1, <2>1, OthersSeen DEF Handles
<1>5. \A k \in Key : Visible(k)' = 0
  <2> SUFFICES ASSUME NEW k \in Key PROVE Visible(k)' = 0
    OBVIOUS
  <2>1. Inserting(k) = {}
    BY <1>0 DEF Inserting, Shape, LocksHeld, EvHolds
  <2>2. ~Writes(k)
    BY <1>0, IdleWrites
  <2>3. Inserting(k)' = {}
    BY <2>1, <2>2, InsertingNext
  <2>4. Visible(k)' = Kept(k)'
    BY <2>3, VisibleNext
  <2> QED
    BY <2>4 DEF FlClear, Kept, Live, None
<1>6. [k \in Key |-> Visible(k)]' = [k \in Key |-> 0]
  BY <1>5
<1>7. L1!Answer(c, NoKey, 1)
  BY <1>4, HandlesMaps
<1>8. Seen(c).kind = "flush" /\ NoKey \in Seen(c).todo
  BY <1>0, <1>1, <1>2 DEF Seen, Effective
<1>9. L1!Flush(c)
  BY <1>6, <1>7, <1>8 DEF L1!Flush, L1!Pending
<1> QED
  BY <1>9 DEF Mapped, L1!Next

LEMMA OwnerStepMaps ==
  ASSUME Shape, Shape', Asked, [Next]_vars, OwnerStep
  PROVE  Mapped
  BY EvictionMaps, FinishMaps, FlushMaps, ClearMaps DEF OwnerStep

LEMMA MaintenanceMaps ==
  ASSUME Shape, Shape', Asked, [Next]_vars, MtSample \/ MtDelete
  PROVE  Mapped
<1>0. UNCHANGED <<call, ev, now>>
  BY DEF MtSample, MtDelete
<1>1. SameCalls /\ \A k \in Key : ~Writes(k)
  BY <1>0, CallsKept, IdleWrites DEF FlushTakes
<1>2. SameStore
  <2>1. CASE MtSample
    BY <1>0, <1>1, <2>1, StoreUntouched DEF MtSample
  <2>2. CASE MtDelete
    <3>1. PICK f \in maint.found : Free(ShardOf[f[1]]) /\ DeleteExpired(f[1], f[2], maint.now)
      BY <2>2 DEF MtDelete
    <3>2. f[1] \in Key /\ maint.now \in Nat /\ maint.now <= now
      BY DEF Shape, TypeOK, MaintType, ClocksFormed
    <3> QED
      BY <1>0, <1>1, <3>1, <3>2, ExpiryUnseen
  <2> QED
    BY <2>1, <2>2
<1> QED
  BY <1>1, <1>2, StutterMaps DEF Mapped

(* Time only takes entries away. *)
LEMMA TickMaps ==
  ASSUME Shape, Shape', Asked, [Next]_vars, Tick
  PROVE  Mapped
<1>0. UNCHANGED <<entries, call, ev>> /\ now' = now + 1 /\ now \in Nat
  BY DEF Tick, Shape, TypeOK
<1>1. SameCalls /\ \A k \in Key : ~Writes(k)
  BY <1>0, CallsKept, IdleWrites DEF FlushTakes
<1>2. ASSUME NEW k \in Key PROVE Visible(k)' = Visible(k) \/ Visible(k)' = 0
  <2>1. CASE Inserting(k) = {}
    <3>1. Visible(k) = Kept(k) /\ Visible(k)' = Kept(k)'
      BY <1>1, <2>1, InsertingNext, VisibleIs, VisibleNext
    <3>2. Kept(k)' = Kept(k) \/ Kept(k)' = 0
      BY <1>0 DEF Kept, Live, Shape, TypeOK, EntryType
    <3> QED
      BY <3>1, <3>2
  <2>2. ASSUME NEW c \in Inserting(k) PROVE Visible(k)' = Visible(k) \/ Visible(k)' = 0
    <3>1. c \in Inserting(k)' /\ call[c].key = k /\ c \in Client /\ call[c].pc = "insert"
      BY <1>1, InsertingNext DEF Inserting
    <3>2. Visible(k) = Coming(c) /\ Visible(k)' = Coming(c)'
      BY <3>1, VisibleIs, VisibleNext
    <3>3. /\ call[c].kind \in {"set", "add", "counter"} /\ call[c].ttl \in Nat /\ call[c].now \in Nat
          /\ entries[k].exp \in Nat
      BY <3>1 DEF Shape, TypeOK, CallType, CallFormed, EntryType
    <3>4. Coming(c)' = Coming(c) \/ Coming(c)' = 0
      <4>1. NewValue(c, entries[k])' = NewValue(c, entries[k])
        BY <1>0 DEF NewValue
      <4>2. Deadline(c, entries[k]) > now \/ Deadline(c, entries[k]) = 0
            \/ Deadline(c, entries[k])' <= now'
        BY <1>0, <3>3 DEF Deadline
      <4> QED
        BY <1>0, <3>1, <3>3, <4>1 DEF Coming, Deadline
    <3> QED
      BY <3>2, <3>4
  <2> QED
    BY <2>1, <2>2
<1> QED
  BY <1>1, <1>2, DropMaps

(***************************************************************************)
(* The refinement.                                                         *)
(***************************************************************************)

LEMMA MapsInit ==
  ASSUME Init
  PROVE  L1!Init
<1>1. \A k \in Key : Visible(k) = 0
  BY DEF Init, Visible, Inserting, CallIdle, Live, None
<1>2. \A c \in Client : Seen(c) = L1!Idle
  BY DEF Init, Seen, Effective, CallIdle, L1!Idle
<1>3. [k \in Key |-> Visible(k)] = [k \in Key |-> 0]
  BY <1>1
<1>4. [c \in Client |-> Seen(c)] = [c \in Client |-> L1!Idle]
  BY <1>2
<1> QED
  BY <1>3, <1>4 DEF L1!Init

LEMMA MapsNext ==
  ASSUME Shape, Shape', Asked, [Next]_vars
  PROVE  [L1!Next]_(L1!vars)
<1>1. CASE UNCHANGED vars
  <2>1. UNCHANGED <<entries, call, ev, now>>
    BY <1>1 DEF vars
  <2>2. SameStore /\ SameCalls
    BY <2>1, CallsKept, IdleWrites, StoreUntouched DEF FlushTakes
  <2> QED
    BY <2>2, StutterMaps
<1>2. CASE Next
  <2>1. Mapped
    BY <1>2, CallMaps, CallStepMaps, OwnerStepMaps, MaintenanceMaps, TickMaps DEF Next
  <2> QED
    BY <2>1 DEF Mapped
<1> QED
  BY <1>1, <1>2

(* For any number of clients, keys and shards the cache behaves as the map    *)
(* the tiered cache takes it for (cache.go): every Get, Set, Add, Increment,   *)
(* Forget and Touch takes effect at one moment for each of its keys and        *)
(* answers from the value in force at that moment, a Flush empties the whole   *)
(* map at once, and eviction, expiry and the maintenance goroutine only take   *)
(* entries away, however the sections under the shard locks interleave.        *)
THEOREM CacheImplementsStore == Spec => ImplementsLossyStore
<1>1. Init => L1!Init
  BY MapsInit
<1>2. Shape /\ Shape' /\ Asked /\ [Next]_vars => [L1!Next]_(L1!vars)
  BY MapsNext
<1> QED
  BY <1>1, <1>2, ShapeInvariant, AskedInvariant, PTL DEF Spec, ImplementsLossyStore, L1!Spec
================================================================================
