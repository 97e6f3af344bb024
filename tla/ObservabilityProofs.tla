-------------------------- MODULE ObservabilityProofs --------------------------
(* Proofs about Observability, for every value of its constants. *)
EXTENDS Observability, FiniteSums, SequenceTheorems, TLAPS

Addition == Counter \X Nat

(***************************************************************************)
(* The counters of health are changed by their own steps only: no list of    *)
(* additions names one of them, except the success that enterHealthy owes.   *)
(***************************************************************************)
Plain(s) == \A i \in 1..Len(s) : s[i][1][1] \notin {"degraded", "transitions", "successes"}

LEMMA Counters ==
  /\ <<"degraded">> \in Counter /\ <<"transitions">> \in Counter /\ <<"attempts">> \in Counter
  /\ <<"successes">> \in Counter /\ <<"failures">> \in Counter /\ <<"l1Misses">> \in Counter
  /\ \A r \in {"l1_hit", "l2_hit", "miss"} : <<"lookup", r>> \in Counter
  /\ \A op \in Operation :
        /\ Calls(op) \in Counter
        /\ \A b \in Bucket : <<"latencyBuckets", op, b>> \in Counter
        /\ \A c \in ErrorClass : <<"errors", op, c>> \in Counter
        /\ <<"batchCalls", op>> \in Counter /\ <<"batchItems", op>> \in Counter
<1>1. /\ <<"degraded">> \in CacheCounters /\ <<"transitions">> \in CacheCounters
      /\ <<"attempts">> \in CacheCounters /\ <<"successes">> \in CacheCounters
      /\ <<"failures">> \in CacheCounters /\ <<"l1Misses">> \in CacheCounters
  BY DEF CacheCounters
<1>2. \A r \in {"l1_hit", "l2_hit", "miss"} : <<"lookup", r>> \in LookupCounters
  BY DEF LookupCounters
<1>3. ASSUME NEW op \in Operation
      PROVE  {Calls(op)} \cup Buckets(op) \cup Errors(op) \cup Batches(op) \subseteq Counter
  BY Zenon DEF Counter
<1>4. ASSUME NEW op \in Operation
      PROVE  /\ \A b \in Bucket : <<"latencyBuckets", op, b>> \in Buckets(op)
             /\ \A c \in ErrorClass : <<"errors", op, c>> \in Errors(op)
             /\ <<"batchCalls", op>> \in Batches(op) /\ <<"batchItems", op>> \in Batches(op)
  BY DEF Buckets, Errors, Batches
<1>5. CacheCounters \subseteq Counter /\ LookupCounters \subseteq Counter
  BY Zenon DEF Counter
<1> QED BY <1>1, <1>2, <1>3, <1>4, <1>5, Zenon

(* Lists of additions are put together from pairs and shorter lists. *)
LEMMA OneAddition ==
  ASSUME NEW a \in Addition, a[1][1] \notin {"degraded", "transitions", "successes"}
  PROVE  <<a>> \in Seq(Addition) /\ Plain(<<a>>)
  BY DEF Plain

LEMMA NoAddition == <<>> \in Seq(Addition) /\ Plain(<<>>)
  BY DEF Plain

LEMMA Joined ==
  ASSUME NEW s \in Seq(Addition), NEW t \in Seq(Addition), Plain(s), Plain(t)
  PROVE  s \o t \in Seq(Addition) /\ Plain(s \o t)
<1>1. s \o t \in Seq(Addition)
  OBVIOUS
<1>2. ASSUME NEW i \in 1..Len(s \o t)
      PROVE  (s \o t)[i][1][1] \notin {"degraded", "transitions", "successes"}
  <2>1. CASE i \in 1..Len(s)
    BY <2>1 DEF Plain
  <2>2. CASE i - Len(s) \in 1..Len(t)
    BY <2>2 DEF Plain
  <2> QED BY <1>2, <2>1, <2>2
<1> QED BY <1>1, <1>2 DEF Plain

LEMMA ObserveL2Plain ==
  ASSUME NEW op \in Operation, NEW b \in Bucket, NEW class \in ErrorClass \cup {"none"}
  PROVE  ObserveL2(op, b, class) \in Seq(Addition) /\ Plain(ObserveL2(op, b, class))
<1>1. /\ <<Calls(op), 1>> \in Addition /\ <<Calls(op), 1>>[1][1] = "calls"
      /\ <<<<"latencyBuckets", op, b>>, 1>> \in Addition
      /\ <<<<"latencyBuckets", op, b>>, 1>>[1][1] = "latencyBuckets"
  BY Counters DEF Addition, Calls
<1>2. LET s == <<<<Calls(op), 1>>, <<<<"latencyBuckets", op, b>>, 1>>>>
      IN  s \in Seq(Addition) /\ Plain(s)
  BY <1>1 DEF Plain
<1>3. CASE class \in ErrorClass
  <2>1. <<<<"errors", op, class>>, 1>> \in Addition /\ <<<<"errors", op, class>>, 1>>[1][1] = "errors"
    BY <1>3, Counters DEF Addition
  <2>2. LET t == <<<<<<"errors", op, class>>, 1>>>> IN t \in Seq(Addition) /\ Plain(t)
    BY <2>1, OneAddition
  <2> QED BY <1>2, <1>3, <2>2, Joined DEF ObserveL2
<1>4. CASE class \notin ErrorClass
  BY <1>2, <1>4, NoAddition, Joined DEF ObserveL2
<1> QED BY <1>3, <1>4

LEMMA ObserveBatchPlain ==
  ASSUME NEW op \in Operation, NEW items \in Nat
  PROVE  ObserveBatch(op, items) \in Seq(Addition) /\ Plain(ObserveBatch(op, items))
<1>1. CASE op = "getMany"
  <2>1. /\ <<<<"batchCalls", op>>, 1>> \in Addition /\ <<<<"batchCalls", op>>, 1>>[1][1] = "batchCalls"
        /\ <<<<"batchItems", op>>, items>> \in Addition
        /\ <<<<"batchItems", op>>, items>>[1][1] = "batchItems"
    BY Counters DEF Addition
  <2>2. LET s == <<<<<<"batchCalls", op>>, 1>>, <<<<"batchItems", op>>, items>>>>
        IN  s \in Seq(Addition) /\ Plain(s)
    BY <2>1 DEF Plain
  <2> QED BY <1>1, <2>2 DEF ObserveBatch
<1>2. CASE op # "getMany"
  BY <1>2, NoAddition DEF ObserveBatch
<1> QED BY <1>1, <1>2

LEMMA AddingPlain ==
  ASSUME NEW counter \in Counter, NEW n \in Nat,
         counter[1] \notin {"degraded", "transitions", "successes"}
  PROVE  Adding(counter, n) \in Seq(Addition) /\ Plain(Adding(counter, n))
<1>1. <<counter, n>> \in Addition /\ <<counter, n>>[1] = counter
  BY DEF Addition
<1> QED BY <1>1, OneAddition, NoAddition DEF Adding

LEMMA OutcomePlain ==
  ASSUME NEW c \in [op : Lookups, hits : Nat, misses : Nat],
         NEW l1 \in Nat, NEW l2 \in Nat, NEW missed \in Nat
  PROVE  Outcome(c, l1, l2, missed) \in Seq(Addition) /\ Plain(Outcome(c, l1, l2, missed))
<1>1. <<<<"l1Misses">>, c.misses>> \in Addition /\ <<<<"l1Misses">>, c.misses>>[1][1] = "l1Misses"
  BY Counters DEF Addition
<1>2. LET s == <<<<<<"l1Misses">>, c.misses>>>> IN s \in Seq(Addition) /\ Plain(s)
  BY <1>1, OneAddition
<1>3. /\ <<"lookup", "l1_hit">>[1] = "lookup" /\ <<"lookup", "l2_hit">>[1] = "lookup"
      /\ <<"lookup", "miss">>[1] = "lookup" /\ c.hits + l1 \in Nat
  OBVIOUS
<1>4. /\ Adding(<<"lookup", "l1_hit">>, c.hits + l1) \in Seq(Addition)
      /\ Plain(Adding(<<"lookup", "l1_hit">>, c.hits + l1))
      /\ Adding(<<"lookup", "l2_hit">>, l2) \in Seq(Addition)
      /\ Plain(Adding(<<"lookup", "l2_hit">>, l2))
      /\ Adding(<<"lookup", "miss">>, missed) \in Seq(Addition)
      /\ Plain(Adding(<<"lookup", "miss">>, missed))
  BY <1>3, Counters, AddingPlain
<1> HIDE DEF Plain, Adding
<1>5. LET s == <<<<<<"l1Misses">>, c.misses>>>> \o Adding(<<"lookup", "l1_hit">>, c.hits + l1)
      IN  s \in Seq(Addition) /\ Plain(s)
  BY <1>2, <1>4, Joined
<1>6. LET s == <<<<<<"l1Misses">>, c.misses>>>> \o Adding(<<"lookup", "l1_hit">>, c.hits + l1) \o
               Adding(<<"lookup", "l2_hit">>, l2)
      IN  s \in Seq(Addition) /\ Plain(s)
  BY <1>4, <1>5, Joined
<1>7. LET s == <<<<<<"l1Misses">>, c.misses>>>> \o Adding(<<"lookup", "l1_hit">>, c.hits + l1) \o
               Adding(<<"lookup", "l2_hit">>, l2) \o Adding(<<"lookup", "miss">>, missed)
      IN  s \in Seq(Addition) /\ Plain(s)
  BY <1>4, <1>6, Joined
<1> QED BY <1>7 DEF Outcome

(***************************************************************************)
(* The health metrics.                                                     *)
(*                                                                         *)
(* HealthMirrored says nothing of the steps inside stateErrMu, where the      *)
(* gauge and the counter lag behind the state, nor of who can be there.  The    *)
(* invariant adds what is the case at each of those steps.                   *)
(***************************************************************************)
TodoOK == \A p \in Proc : Plain(todo[p]) \/ (p = "recovery" /\ todo[p] = Success)

MutexOK ==
    /\ \A p, q \in Proc : pc[p] \in InStateErrMu /\ pc[q] \in InStateErrMu => p = q
    /\ \A p \in Proc : pc[p] = "healing" => p = "recovery"
    /\ pc["recovery"] \notin {"gauge", "transition", "degrading"}
    /\ \A p \in Proc : pc[p] \in InStateErrMu => todo[p] = <<>>

GaugeOK ==
    /\ (\A p \in Proc : pc[p] \notin InStateErrMu) =>
           count[<<"degraded">>] = Degraded /\ count[<<"transitions">>] = epoch
    /\ \A p \in Proc :
           /\ pc[p] = "gauge" =>
                  /\ health = "degraded" /\ count[<<"degraded">>] = 0
                  /\ count[<<"transitions">>] + 1 = epoch
           /\ pc[p] = "transition" =>
                  /\ health = "degraded" /\ count[<<"degraded">>] = 1
                  /\ count[<<"transitions">>] + 1 = epoch
           /\ pc[p] = "healing" =>
                  /\ health = "healthy" /\ count[<<"degraded">>] = 1
                  /\ count[<<"transitions">>] = epoch

Healing == IF pc["recovery"] = "healing" THEN 1 ELSE 0

SuccessOK == epoch = count[<<"successes">>] + SuccessOwed + Healing + Degraded

HealthInv == WritersOK /\ TodoOK /\ MutexOK /\ GaugeOK /\ SuccessOK

LEMMA HealthIsMirrored == HealthInv => HealthMirrored
<1> SUFFICES ASSUME HealthInv, \A p \in Proc : pc[p] \notin InStateErrMu
             PROVE  /\ count[<<"degraded">>] = Degraded
                    /\ count[<<"transitions">>] = epoch
                    /\ epoch = count[<<"successes">>] + SuccessOwed + Degraded
  BY DEF HealthMirrored
<1>1. pc["recovery"] # "healing"
  BY DEF Proc, InStateErrMu
<1>2. count[<<"successes">>] \in Nat
  BY Counters DEF HealthInv, WritersOK
<1>3. SuccessOwed \in Nat /\ Degraded \in Nat
  BY DEF SuccessOwed, Degraded
<1> QED BY <1>1, <1>2, <1>3 DEF HealthInv, GaugeOK, SuccessOK, Healing

LEMMA PlainIsNotSuccess == ~Plain(Success) /\ <<>> # Success /\ Len(Success) = 1
                           /\ Success[1] = <<<<"successes">>, 1>> /\ Tail(Success) = <<>>
  BY DEF Plain, Success

LEMMA HealthInit == Init => HealthInv
<1> SUFFICES ASSUME Init PROVE HealthInv
  OBVIOUS
<1>1. WritersOK
  <2>1. (CHOOSE op \in Lookups : TRUE) \in Lookups
    BY ObservabilityAssumption
  <2> QED BY <2>1 DEF Init, WritersOK, Place
<1>2. \A p \in Proc : pc[p] = "idle" /\ todo[p] = <<>>
  BY DEF Init
<1>3. count[<<"degraded">>] = 0 /\ count[<<"transitions">>] = 0 /\ count[<<"successes">>] = 0
  BY Counters DEF Init
<1>4. "recovery" \in Proc
  BY DEF Proc
<1>5. TodoOK
  BY <1>2, NoAddition DEF TodoOK
<1>6. MutexOK
  BY <1>2, <1>4 DEF MutexOK, InStateErrMu
<1>7. GaugeOK
  BY <1>2, <1>3 DEF GaugeOK, Init, Degraded
<1>8. SuccessOwed = 0
  BY <1>2, <1>4, PlainIsNotSuccess DEF SuccessOwed
<1>9. SuccessOK
  BY <1>2, <1>3, <1>4, <1>8 DEF SuccessOK, Init, Healing, Degraded
<1> QED BY <1>1, <1>5, <1>6, <1>7, <1>9 DEF HealthInv

(* A goroutine moves on outside stateErrMu, with plain additions ahead of it. *)
LEMMA MoveHealth ==
  ASSUME HealthInv, NEW p \in Proc, NEW at \in Place \ InStateErrMu, NEW s \in Seq(Addition),
         Plain(s), pc[p] \notin InStateErrMu, todo[p] = <<>>,
         p = "recovery" => at # "degrading", Goes(p, at, s),
         health' = health, epoch' = epoch, expected' \in Nat, turns' \in Nat,
         call' \in [Goroutine -> [op : Lookups, hits : Nat, misses : Nat]]
  PROVE  HealthInv'
<1>0. "recovery" \in Proc
  BY DEF Proc
<1>1. /\ count' = count
      /\ \A q \in Proc : pc'[q] = IF q = p THEN at ELSE pc[q]
      /\ \A q \in Proc : todo'[q] = IF q = p THEN s ELSE todo[q]
  BY DEF Goes, HealthInv, WritersOK
<1>2. WritersOK'
  BY DEF Goes, HealthInv, WritersOK, Addition
<1>3. TodoOK'
  BY <1>1 DEF HealthInv, TodoOK
<1>4. MutexOK'
  BY <1>0, <1>1 DEF HealthInv, MutexOK, InStateErrMu
<1>5. \A q \in Proc : pc'[q] \in InStateErrMu <=> pc[q] \in InStateErrMu
  BY <1>1
<1>6. GaugeOK'
  <2>1. \A q \in Proc : pc'[q] \in InStateErrMu => pc'[q] = pc[q]
    BY <1>1
  <2> QED BY <1>1, <1>5, <2>1 DEF HealthInv, GaugeOK, InStateErrMu, Degraded
<1>7. SuccessOwed' = SuccessOwed
  BY <1>0, <1>1, PlainIsNotSuccess DEF SuccessOwed
<1>8. Healing' = Healing
  BY <1>0, <1>1 DEF Healing, InStateErrMu
<1>9. SuccessOK'
  BY <1>1, <1>7, <1>8 DEF HealthInv, SuccessOK, Degraded
<1> QED BY <1>2, <1>3, <1>4, <1>6, <1>9 DEF HealthInv

(* An addition of somebody's list. *)
LEMMA AddHealth ==
  ASSUME HealthInv, NEW p \in Proc, Add(p)
  PROVE  HealthInv'
<1> DEFINE a == Head(todo[p])
<1>0. "recovery" \in Proc
  BY DEF Proc
<1>1. /\ todo[p] \in Seq(Addition) /\ todo[p] # <<>> /\ a \in Addition /\ a = todo[p][1]
      /\ Tail(todo[p]) \in Seq(Addition) /\ Len(todo[p]) \in Nat /\ Len(todo[p]) >= 1
      /\ a[1] \in Counter /\ a[2] \in Nat
  <2>1. todo[p] \in Seq(Addition) /\ todo[p] # <<>>
    BY DEF Add, HealthInv, WritersOK, Addition
  <2>2. Len(todo[p]) \in Nat /\ Len(todo[p]) >= 1
    BY <2>1
  <2>3. a = todo[p][1] /\ a \in Addition /\ Tail(todo[p]) \in Seq(Addition)
    BY <2>1, <2>2
  <2> QED BY <2>1, <2>2, <2>3 DEF Addition
<1>2. /\ \A c \in Counter : count'[c] = IF c = a[1] THEN count[c] + a[2] ELSE count[c]
      /\ \A q \in Proc : todo'[q] = IF q = p THEN Tail(todo[p]) ELSE todo[q]
      /\ \A q \in Proc : pc'[q] = IF q = p /\ Tail(todo[p]) = <<>> THEN After(pc[q]) ELSE pc[q]
      /\ \A c \in Counter : count[c] \in Nat
  BY <1>1 DEF Add, HealthInv, WritersOK
<1>3. UNCHANGED <<health, epoch, expected, call, turns>>
  BY DEF Add, healthVars
<1>4. pc[p] \notin InStateErrMu
  BY <1>1 DEF HealthInv, MutexOK
<1>5. \A at \in Place : After(at) \in Place /\ (at \notin InStateErrMu => After(at) \notin InStateErrMu)
                        /\ (After(at) = "degrading" => at = "degrading")
  BY DEF After, Place, InStateErrMu
<1>6. \A q \in Proc : pc[q] \in Place
  BY DEF HealthInv, WritersOK
<1>7. WritersOK'
  <2>1. count' \in [Counter -> Nat]
    <3>1. count \in [Counter -> Nat]
      BY DEF HealthInv, WritersOK
    <3>2. count[a[1]] + a[2] \in Nat
      BY <1>1, <3>1
    <3>3. count' = [count EXCEPT ![a[1]] = count[a[1]] + a[2]]
      BY DEF Add
    <3> HIDE DEF a
    <3> QED BY <1>1, <3>1, <3>2, <3>3
  <2>2. pc' \in [Proc -> Place]
    <3>1. pc \in [Proc -> Place]
      BY DEF HealthInv, WritersOK
    <3>2. (IF Tail(todo[p]) = <<>> THEN After(pc[p]) ELSE pc[p]) \in Place
      BY <1>5, <1>6
    <3>3. pc' = [pc EXCEPT ![p] = IF Tail(todo[p]) = <<>> THEN After(pc[p]) ELSE pc[p]]
      BY <3>1 DEF Add
    <3> QED BY <3>1, <3>2, <3>3
  <2>3. todo' \in [Proc -> Seq(Counter \X Nat)]
    BY <1>1 DEF Add, HealthInv, WritersOK, Addition
  <2> QED BY <1>3, <2>1, <2>2, <2>3 DEF HealthInv, WritersOK
<1>8. \A q \in Proc : (pc'[q] \in InStateErrMu <=> pc[q] \in InStateErrMu) /\
                      (pc'[q] \in InStateErrMu => q # p /\ pc'[q] = pc[q])
  BY <1>2, <1>4, <1>5, <1>6
<1>9. MutexOK'
  <2>1. pc'["recovery"] \notin {"gauge", "transition", "degrading"}
    BY <1>0, <1>2, <1>5, <1>6 DEF HealthInv, MutexOK, After
  <2>2. \A q \in Proc : pc'[q] \in InStateErrMu => todo'[q] = <<>>
    BY <1>2, <1>8 DEF HealthInv, MutexOK
  <2>3. \A q \in Proc : pc'[q] = "healing" => q = "recovery"
    BY <1>8 DEF HealthInv, MutexOK, InStateErrMu
  <2>4. \A q, r \in Proc : pc'[q] \in InStateErrMu /\ pc'[r] \in InStateErrMu => q = r
    BY <1>8 DEF HealthInv, MutexOK
  <2> QED BY <2>1, <2>2, <2>3, <2>4 DEF MutexOK
<1>10. Healing' = Healing
  BY <1>0, <1>8 DEF Healing, InStateErrMu
<1>11. CASE Plain(todo[p])
  <2>1. a[1][1] \notin {"degraded", "transitions", "successes"}
    BY <1>1, <1>11 DEF Plain
  <2>2. a[1] # <<"degraded">> /\ a[1] # <<"transitions">> /\ a[1] # <<"successes">>
    BY <2>1
  <2>3. /\ count'[<<"degraded">>] = count[<<"degraded">>]
        /\ count'[<<"transitions">>] = count[<<"transitions">>]
        /\ count'[<<"successes">>] = count[<<"successes">>]
    BY <1>2, <2>2, Counters
  <2>4. Plain(Tail(todo[p]))
    BY <1>1, <1>11 DEF Plain
  <2>5. TodoOK'
    BY <1>2, <2>4 DEF HealthInv, TodoOK
  <2>6. GaugeOK'
    BY <1>3, <1>8, <2>3 DEF HealthInv, GaugeOK, Degraded, InStateErrMu
  <2>7. SuccessOwed' = SuccessOwed
    BY <1>0, <1>2, <1>11, <2>4, PlainIsNotSuccess DEF SuccessOwed
  <2> QED BY <1>3, <1>7, <1>9, <1>10, <2>3, <2>5, <2>6, <2>7 DEF HealthInv, SuccessOK, Degraded
<1>12. CASE ~Plain(todo[p])
  <2>1. p = "recovery" /\ todo[p] = Success
    BY <1>12 DEF HealthInv, TodoOK
  <2>2. a = <<<<"successes">>, 1>> /\ Tail(todo[p]) = <<>>
    BY <1>1, <2>1, PlainIsNotSuccess
  <2>3. <<"successes">> # <<"degraded">> /\ <<"successes">> # <<"transitions">>
    OBVIOUS
  <2>4. /\ count'[<<"degraded">>] = count[<<"degraded">>]
        /\ count'[<<"transitions">>] = count[<<"transitions">>]
        /\ count'[<<"successes">>] = count[<<"successes">>] + 1
    BY <1>2, <2>2, <2>3, Counters
  <2>5. TodoOK'
    <3> SUFFICES ASSUME NEW q \in Proc
                 PROVE  Plain(todo'[q]) \/ (q = "recovery" /\ todo'[q] = Success)
      BY DEF TodoOK
    <3>1. CASE q = p
      <4>1. todo'[q] = <<>>
        BY <1>2, <2>2, <3>1
      <4> QED BY <4>1, NoAddition
    <3>2. CASE q # p
      <4>1. todo'[q] = todo[q]
        BY <1>2, <3>2
      <4> QED BY <4>1 DEF HealthInv, TodoOK
    <3> QED BY <3>1, <3>2
  <2>6. GaugeOK'
    BY <1>3, <1>8, <2>4 DEF HealthInv, GaugeOK, Degraded, InStateErrMu
  <2>7. SuccessOwed = 1 /\ SuccessOwed' = 0
    BY <1>0, <1>2, <2>1, <2>2, PlainIsNotSuccess DEF SuccessOwed
  <2>8. count[<<"successes">>] \in Nat /\ Healing \in Nat /\ Degraded \in Nat
    BY <1>2, Counters DEF Healing, Degraded
  <2>9. SuccessOK'
    BY <1>3, <1>10, <2>4, <2>7, <2>8 DEF HealthInv, SuccessOK, Degraded
  <2> QED BY <1>7, <1>9, <2>5, <2>6, <2>9 DEF HealthInv
<1> QED BY <1>11, <1>12

--------------------------------------------------------------------------------
(* The steps of a lookup. *)

LEMMA LookupHealth ==
  ASSUME HealthInv, NEW g \in Goroutine, Lookup(g)
  PROVE  HealthInv'
<1> DEFINE Call == [op : Lookups, hits : Nat, misses : Nat]
<1>0. /\ g \in Proc /\ g # "recovery" /\ call \in [Goroutine -> Call]
      /\ expected \in Nat /\ turns \in Nat /\ call[g] \in Call /\ Lookups \subseteq Operation
      /\ MaxBatch \in Nat
  BY ObservabilityAssumption DEF Proc, HealthInv, WritersOK, Operation
<1>1. /\ \A at \in {"idle", "hit", "asking", "answered", "failed", "counting", "degrading", "locked"} :
             at \in Place \ InStateErrMu
  BY DEF Place, InStateErrMu
<1>2. \A at \in {"idle", "hit", "asking", "answered", "failed"} :
         At(g, at) => pc[g] \notin InStateErrMu /\ todo[g] = <<>>
  BY DEF At, InStateErrMu
<1>3. CASE Begin(g)
  <2>1. PICK op \in Lookups, hits \in 0..MaxBatch, misses \in 0..MaxBatch :
            /\ call' = [call EXCEPT ![g] = [op |-> op, hits |-> hits, misses |-> misses]]
            /\ Goes(g, IF misses = 0 THEN "hit" ELSE "asking", <<>>)
    BY <1>3 DEF Begin
  <2>2. [op |-> op, hits |-> hits, misses |-> misses] \in Call
    BY <1>0
  <2>3. call' \in [Goroutine -> Call]
    BY <1>0, <2>1, <2>2
  <2>4. turns' \in Nat /\ UNCHANGED healthVars
    BY <1>0, <1>3 DEF Begin, Turn
  <2>5. At(g, "idle")
    BY <1>3 DEF Begin
  <2>6. (IF misses = 0 THEN "hit" ELSE "asking") \in Place \ InStateErrMu
    BY <1>1
  <2> QED BY <1>0, <1>2, <2>1, <2>3, <2>4, <2>5, <2>6, NoAddition, MoveHealth DEF healthVars
<1>4. CASE CountHit(g)
  <2>1. <<<<"lookup", "l1_hit">>, call[g].hits>> \in Addition
        /\ <<<<"lookup", "l1_hit">>, call[g].hits>>[1][1] = "lookup"
    BY <1>0, Counters DEF Addition
  <2>2. <<<<<<"lookup", "l1_hit">>, call[g].hits>>>> \in Seq(Addition)
        /\ Plain(<<<<<<"lookup", "l1_hit">>, call[g].hits>>>>)
    BY <2>1, OneAddition
  <2>3. /\ Goes(g, "counting", <<<<<<"lookup", "l1_hit">>, call[g].hits>>>>)
        /\ UNCHANGED <<call, healthVars, turns>> /\ At(g, "hit")
    BY <1>4 DEF CountHit
  <2> QED BY <1>0, <1>1, <1>2, <2>2, <2>3, MoveHealth DEF healthVars
<1>5. CASE AskL2(g)
  <2>1. PICK b \in Bucket, class \in ErrorClass \cup {"none"}, items \in 1..call[g].misses :
            Goes(g, IF class = "none" THEN "answered" ELSE "failed",
                 ObserveL2(call[g].op, b, class) \o ObserveBatch(call[g].op, items))
    BY <1>5 DEF AskL2
  <2>2. call[g].op \in Operation /\ items \in Nat
    BY <1>0
  <2> DEFINE s == ObserveL2(call[g].op, b, class) \o ObserveBatch(call[g].op, items)
  <2>3. s \in Seq(Addition) /\ Plain(s)
    BY <2>2, ObserveL2Plain, ObserveBatchPlain, Joined
  <2>4. UNCHANGED <<call, healthVars, turns>> /\ At(g, "asking")
    BY <1>5 DEF AskL2
  <2>5. (IF class = "none" THEN "answered" ELSE "failed") \in Place \ InStateErrMu
    BY <1>1
  <2>6. Goes(g, IF class = "none" THEN "answered" ELSE "failed", s)
    BY <2>1
  <2> HIDE DEF s
  <2> QED BY <1>0, <1>2, <2>3, <2>4, <2>5, <2>6, MoveHealth DEF healthVars
<1>6. CASE Leave(g)
  <2>1. /\ Goes(g, "idle", <<>>) /\ UNCHANGED <<call, healthVars, turns>>
        /\ pc[g] \notin InStateErrMu /\ todo[g] = <<>>
    BY <1>2, <1>6 DEF Leave
  <2> QED BY <1>0, <1>1, <2>1, NoAddition, MoveHealth DEF healthVars
<1>7. CASE CountLookup(g)
  <2>1. PICK l1 \in 0..call[g].misses, l2 \in 0..call[g].misses :
            /\ l1 + l2 <= call[g].misses
            /\ Goes(g, "locked", Outcome(call[g], l1, l2, call[g].misses - l1 - l2))
    BY <1>7 DEF CountLookup
  <2>2. l1 \in Nat /\ l2 \in Nat /\ call[g].misses - l1 - l2 \in Nat
    BY <1>0, <2>1
  <2> DEFINE s == Outcome(call[g], l1, l2, call[g].misses - l1 - l2)
  <2>3. s \in Seq(Addition) /\ Plain(s)
    BY <1>0, <2>2, OutcomePlain
  <2>4. UNCHANGED <<call, healthVars, turns>> /\ At(g, "answered")
    BY <1>7 DEF CountLookup
  <2>5. Goes(g, "locked", s)
    BY <2>1
  <2> HIDE DEF s
  <2> QED BY <1>0, <1>1, <1>2, <2>3, <2>4, <2>5, MoveHealth DEF healthVars
<1>8. CASE LookupFails(g)
  <2>1. /\ Goes(g, "degrading", <<>>) /\ UNCHANGED <<call, healthVars, turns>>
        /\ At(g, "failed")
    BY <1>8 DEF LookupFails
  <2> QED BY <1>0, <1>1, <1>2, <2>1, NoAddition, MoveHealth DEF healthVars
<1> QED BY <1>3, <1>4, <1>5, <1>6, <1>7, <1>8 DEF Lookup

(* The subscriber fails, and the steps of tryRecovery outside stateErrMu. *)

LEMMA OtherPlain ==
  /\ Fail \in Seq(Addition) /\ Plain(Fail)
  /\ <<<<<<"attempts">>, 1>>>> \in Seq(Addition) /\ Plain(<<<<<<"attempts">>, 1>>>>)
<1>1. /\ <<<<"failures">>, 1>> \in Addition /\ <<<<"failures">>, 1>>[1][1] = "failures"
      /\ <<<<"attempts">>, 1>> \in Addition /\ <<<<"attempts">>, 1>>[1][1] = "attempts"
  BY Counters DEF Addition
<1> QED BY <1>1, OneAddition DEF Fail

LEMMA RecoveryMovesHealth ==
  ASSUME HealthInv,
         SubscriberFails \/ Attempt \/ Probe \/ Republish \/ CheckEpoch \/ FlushL1
  PROVE  HealthInv'
<1>0. /\ "recovery" \in Proc /\ "subscriber" \in Proc /\ expected \in Nat /\ turns \in Nat
      /\ epoch \in Nat /\ call \in [Goroutine -> [op : Lookups, hits : Nat, misses : Nat]]
  BY DEF Proc, HealthInv, WritersOK
<1>1. \A at \in {"idle", "counting", "degrading", "probed", "publishing", "checking", "flushing",
                 "entering"} : at \in Place \ InStateErrMu
  BY DEF Place, InStateErrMu
<1>2. \A p \in Proc, at \in {"idle", "probed", "publishing", "checking", "flushing"} :
         At(p, at) => pc[p] \notin InStateErrMu /\ todo[p] = <<>>
  BY DEF At, InStateErrMu
<1>3. CASE SubscriberFails
  <2>1. /\ Goes("subscriber", "degrading", <<>>) /\ UNCHANGED <<call, healthVars>>
        /\ turns' \in Nat /\ At("subscriber", "idle")
    BY <1>0, <1>3 DEF SubscriberFails, Turn
  <2> QED BY <1>0, <1>1, <1>2, <2>1, NoAddition, MoveHealth DEF healthVars
<1>4. CASE Attempt
  <2>1. /\ Goes("recovery", "probed", <<<<<<"attempts">>, 1>>>>)
        /\ UNCHANGED <<call, healthVars, turns>> /\ At("recovery", "idle")
    BY <1>4 DEF Attempt
  <2> QED BY <1>0, <1>1, <1>2, <2>1, OtherPlain, MoveHealth DEF healthVars
<1>5. CASE Probe
  <2>1. PICK b \in Bucket, class \in ErrorClass \cup {"none"} :
            IF class = "none"
            THEN Goes("recovery", "publishing", ObserveL2("recoveryProbe", b, class))
            ELSE Goes("recovery", "counting", ObserveL2("recoveryProbe", b, class) \o Fail)
    BY <1>5 DEF Probe
  <2> DEFINE s == ObserveL2("recoveryProbe", b, class)
  <2>2. s \in Seq(Addition) /\ Plain(s)
    BY ObserveL2Plain DEF Operation
  <2>3. s \o Fail \in Seq(Addition) /\ Plain(s \o Fail)
    BY <2>2, OtherPlain, Joined
  <2>4. UNCHANGED <<call, healthVars, turns>> /\ At("recovery", "probed")
    BY <1>5 DEF Probe
  <2>5. Goes("recovery", "publishing", s) \/ Goes("recovery", "counting", s \o Fail)
    BY <2>1
  <2> HIDE DEF s
  <2>6. CASE Goes("recovery", "publishing", s)
    BY <1>0, <1>1, <1>2, <2>2, <2>4, <2>6, MoveHealth DEF healthVars
  <2>7. CASE Goes("recovery", "counting", s \o Fail)
    BY <1>0, <1>1, <1>2, <2>3, <2>4, <2>7, MoveHealth DEF healthVars
  <2> QED BY <2>5, <2>6, <2>7
<1>6. CASE Republish
  <2>1. /\ Goes("recovery", "checking", <<>>) \/ Goes("recovery", "counting", Fail)
        /\ UNCHANGED <<call, healthVars, turns>> /\ At("recovery", "publishing")
    BY <1>6 DEF Republish, Fails
  <2> QED BY <1>0, <1>1, <1>2, <2>1, NoAddition, OtherPlain, MoveHealth DEF healthVars
<1>7. CASE CheckEpoch
  <2>1. /\ Goes("recovery", "idle", <<>>) \/ Goes("recovery", "flushing", <<>>)
        /\ UNCHANGED <<call, health, epoch, turns>> /\ expected' \in Nat
        /\ At("recovery", "checking")
    BY <1>0, <1>7 DEF CheckEpoch
  <2> QED BY <1>0, <1>1, <1>2, <2>1, NoAddition, MoveHealth
<1>8. CASE FlushL1
  <2>1. /\ \/ Goes("recovery", "entering", <<>>) \/ Goes("recovery", "idle", <<>>)
           \/ Goes("recovery", "counting", Fail)
        /\ UNCHANGED <<call, healthVars, turns>> /\ At("recovery", "flushing")
    BY <1>8 DEF FlushL1, Fails
  <2> QED BY <1>0, <1>1, <1>2, <2>1, NoAddition, OtherPlain, MoveHealth DEF healthVars
<1> QED BY <1>3, <1>4, <1>5, <1>6, <1>7, <1>8

(* The steps inside stateErrMu. *)

(* Whoever enters a place does so alone, and the other goroutines stay. *)
LEMMA PlaceType ==
  ASSUME HealthInv, NEW p \in Proc, NEW at \in Place, pc' = [pc EXCEPT ![p] = at]
  PROVE  /\ pc' \in [Proc -> Place]
         /\ \A q \in Proc : pc'[q] = IF q = p THEN at ELSE pc[q]
  BY DEF HealthInv, WritersOK

LEMMA DegradeHealth ==
  ASSUME HealthInv, NEW p \in Proc, Degrade(p)
  PROVE  HealthInv'
<1>0. /\ "recovery" \in Proc /\ p # "recovery" /\ todo[p] = <<>>
      /\ expected \in Nat /\ turns \in Nat /\ epoch \in Nat
      /\ call \in [Goroutine -> [op : Lookups, hits : Nat, misses : Nat]]
  BY DEF Proc, HealthInv, WritersOK, MutexOK, Degrade, At
<1>1. \A q \in Proc : pc[q] \notin InStateErrMu
  BY DEF Degrade, StateErrMuFree
<1>2. CASE health = "degraded"
  <2>1. Goes(p, "idle", <<>>) /\ UNCHANGED <<health, epoch, call, expected, turns>>
    BY <1>2 DEF Degrade
  <2>2. "idle" \in Place \ InStateErrMu
    BY DEF Place, InStateErrMu
  <2> QED BY <1>0, <1>1, <2>1, <2>2, NoAddition, MoveHealth
<1>3. CASE health # "degraded"
  <2>1. /\ Goes(p, "gauge", <<>>) /\ health' = "degraded" /\ epoch' = epoch + 1
        /\ UNCHANGED <<call, expected, turns>> /\ health = "healthy"
    BY <1>3 DEF Degrade, HealthInv, WritersOK
  <2>2. count' = count /\ todo' = [todo EXCEPT ![p] = <<>>] /\ pc' = [pc EXCEPT ![p] = "gauge"]
    BY <2>1 DEF Goes
  <2>3. /\ pc' \in [Proc -> Place]
        /\ \A q \in Proc : pc'[q] = IF q = p THEN "gauge" ELSE pc[q]
    BY <2>2, PlaceType DEF Place
  <2>4. todo' = todo
    BY <1>0, <2>2 DEF HealthInv, WritersOK
  <2>5. WritersOK'
    BY <2>1, <2>2, <2>3, <2>4, <1>0 DEF HealthInv, WritersOK
  <2>6. TodoOK' /\ SuccessOwed' = SuccessOwed
    BY <2>4 DEF HealthInv, TodoOK, SuccessOwed
  <2>7. MutexOK'
    BY <1>0, <1>1, <2>3, <2>4 DEF HealthInv, MutexOK, InStateErrMu
  <2>8. count[<<"degraded">>] = 0 /\ count[<<"transitions">>] = epoch
    BY <1>1, <2>1 DEF HealthInv, GaugeOK, Degraded
  <2>9. GaugeOK'
    BY <1>1, <2>1, <2>2, <2>3, <2>8 DEF GaugeOK, InStateErrMu
  <2>10. Healing' = Healing /\ Degraded' = 1 /\ Degraded = 0
    BY <1>0, <2>1, <2>3 DEF Healing, Degraded
  <2>11. count[<<"successes">>] \in Nat /\ SuccessOwed \in Nat /\ Healing \in Nat
    BY Counters DEF HealthInv, WritersOK, SuccessOwed, Healing
  <2>12. SuccessOK'
    BY <2>1, <2>2, <2>6, <2>10, <2>11 DEF HealthInv, SuccessOK
  <2> QED BY <2>5, <2>6, <2>7, <2>9, <2>12 DEF HealthInv
<1> QED BY <1>2, <1>3

LEMMA SetDegradedHealth ==
  ASSUME HealthInv, NEW p \in Proc, SetDegraded(p)
  PROVE  HealthInv'
<1>0. /\ "recovery" \in Proc /\ p # "recovery" /\ pc[p] = "gauge" /\ pc[p] \in InStateErrMu
      /\ <<"degraded">> # <<"transitions">> /\ <<"degraded">> # <<"successes">>
      /\ UNCHANGED <<todo, call, health, epoch, expected, turns>>
  BY DEF Proc, HealthInv, MutexOK, SetDegraded, At, InStateErrMu, healthVars
<1>1. health = "degraded" /\ count[<<"degraded">>] = 0 /\ count[<<"transitions">>] + 1 = epoch
  BY <1>0 DEF HealthInv, GaugeOK
<1>2. pc' = [pc EXCEPT ![p] = "transition"]
  BY <1>1 DEF SetDegraded
<1>3. /\ pc' \in [Proc -> Place]
      /\ \A q \in Proc : pc'[q] = IF q = p THEN "transition" ELSE pc[q]
  BY <1>2, PlaceType DEF Place
<1>4. /\ count' \in [Counter -> Nat] /\ count'[<<"degraded">>] = 1
      /\ count'[<<"transitions">>] = count[<<"transitions">>]
      /\ count'[<<"successes">>] = count[<<"successes">>]
  BY <1>0, Counters DEF SetDegraded, HealthInv, WritersOK
<1>5. WritersOK'
  BY <1>0, <1>3, <1>4 DEF HealthInv, WritersOK
<1>6. TodoOK' /\ SuccessOwed' = SuccessOwed
  BY <1>0 DEF HealthInv, TodoOK, SuccessOwed
<1>7. \A q \in Proc : pc'[q] \in InStateErrMu => q = p
  BY <1>0, <1>3 DEF HealthInv, MutexOK
<1>8. MutexOK'
  BY <1>0, <1>3, <1>7 DEF HealthInv, MutexOK
<1>9. GaugeOK'
  BY <1>0, <1>1, <1>3, <1>4, <1>7 DEF GaugeOK, InStateErrMu
<1>10. Healing' = Healing /\ Degraded' = Degraded
  BY <1>0, <1>3 DEF Healing, Degraded
<1>11. SuccessOK'
  BY <1>0, <1>4, <1>6, <1>10 DEF HealthInv, SuccessOK
<1> QED BY <1>5, <1>6, <1>8, <1>9, <1>11 DEF HealthInv

LEMMA CountTransitionHealth ==
  ASSUME HealthInv, NEW p \in Proc, CountTransition(p)
  PROVE  HealthInv'
<1>0. /\ "recovery" \in Proc /\ p # "recovery" /\ pc[p] = "transition" /\ pc[p] \in InStateErrMu
      /\ <<"degraded">> # <<"transitions">> /\ <<"transitions">> # <<"successes">>
      /\ UNCHANGED <<todo, call, health, epoch, expected, turns>>
  BY DEF Proc, HealthInv, MutexOK, CountTransition, At, InStateErrMu, healthVars
<1>1. health = "degraded" /\ count[<<"degraded">>] = 1 /\ count[<<"transitions">>] + 1 = epoch
  BY <1>0 DEF HealthInv, GaugeOK
<1>2. /\ pc' \in [Proc -> Place]
      /\ \A q \in Proc : pc'[q] = IF q = p THEN "idle" ELSE pc[q]
  BY PlaceType DEF CountTransition, Place
<1>3. /\ count' \in [Counter -> Nat] /\ count'[<<"degraded">>] = count[<<"degraded">>]
      /\ count'[<<"transitions">>] = count[<<"transitions">>] + 1
      /\ count'[<<"successes">>] = count[<<"successes">>]
  <2>1. count \in [Counter -> Nat] /\ count[<<"transitions">>] + 1 \in Nat
    BY Counters DEF HealthInv, WritersOK
  <2>2. count' = [count EXCEPT ![<<"transitions">>] = count[<<"transitions">>] + 1]
    BY DEF CountTransition
  <2> QED BY <1>0, <2>1, <2>2, Counters
<1>4. WritersOK'
  BY <1>0, <1>2, <1>3 DEF HealthInv, WritersOK
<1>5. TodoOK' /\ SuccessOwed' = SuccessOwed
  BY <1>0 DEF HealthInv, TodoOK, SuccessOwed
<1>6. \A q \in Proc : pc'[q] \notin InStateErrMu
  BY <1>0, <1>2 DEF HealthInv, MutexOK, InStateErrMu
<1>7. MutexOK'
  BY <1>0, <1>2, <1>6 DEF HealthInv, MutexOK, InStateErrMu
<1>8. GaugeOK'
  BY <1>0, <1>1, <1>3, <1>6 DEF GaugeOK, InStateErrMu, Degraded
<1>9. Healing' = Healing /\ Degraded' = Degraded
  BY <1>0, <1>2 DEF Healing, Degraded
<1>10. SuccessOK'
  BY <1>0, <1>3, <1>5, <1>9 DEF HealthInv, SuccessOK
<1> QED BY <1>4, <1>5, <1>7, <1>8, <1>10 DEF HealthInv

LEMMA EnterHealthyHealth ==
  ASSUME HealthInv, EnterHealthy
  PROVE  HealthInv'
<1>0. /\ "recovery" \in Proc /\ todo["recovery"] = <<>>
      /\ \A q \in Proc : pc[q] \notin InStateErrMu
      /\ UNCHANGED <<call, epoch, expected, turns>>
      /\ expected \in Nat /\ turns \in Nat
      /\ call \in [Goroutine -> [op : Lookups, hits : Nat, misses : Nat]]
  BY DEF Proc, HealthInv, WritersOK, EnterHealthy, At, StateErrMuFree
<1>1. CASE Goes("recovery", "idle", <<>>) /\ UNCHANGED health
  <2>1. "idle" \in Place \ InStateErrMu
    BY DEF Place, InStateErrMu
  <2> QED BY <1>0, <1>1, <2>1, NoAddition, MoveHealth
<1>2. CASE health = "degraded" /\ health' = "healthy" /\ Goes("recovery", "healing", <<>>)
  <2>1. /\ count' = count /\ todo' = [todo EXCEPT !["recovery"] = <<>>]
        /\ pc' = [pc EXCEPT !["recovery"] = "healing"]
    BY <1>2 DEF Goes
  <2>2. /\ pc' \in [Proc -> Place]
        /\ \A q \in Proc : pc'[q] = IF q = "recovery" THEN "healing" ELSE pc[q]
    BY <1>0, <2>1, PlaceType DEF Place
  <2>3. todo' = todo
    BY <1>0, <2>1 DEF HealthInv, WritersOK
  <2>4. WritersOK'
    BY <1>0, <1>2, <2>1, <2>2, <2>3 DEF HealthInv, WritersOK
  <2>5. TodoOK' /\ SuccessOwed' = SuccessOwed
    BY <2>3 DEF HealthInv, TodoOK, SuccessOwed
  <2>6. MutexOK'
    BY <1>0, <2>2, <2>3 DEF HealthInv, MutexOK, InStateErrMu
  <2>7. count[<<"degraded">>] = 1 /\ count[<<"transitions">>] = epoch
    BY <1>0, <1>2 DEF HealthInv, GaugeOK, Degraded
  <2>8. GaugeOK'
    BY <1>0, <1>2, <2>1, <2>2, <2>7 DEF GaugeOK, InStateErrMu
  <2>9. pc["recovery"] # "healing"
    BY <1>0 DEF InStateErrMu
  <2>10. Healing' = 1 /\ Healing = 0 /\ Degraded' = 0 /\ Degraded = 1
    BY <1>0, <1>2, <2>2, <2>9 DEF Healing, Degraded
  <2>11. count[<<"successes">>] \in Nat /\ SuccessOwed \in Nat
    BY Counters DEF HealthInv, WritersOK, SuccessOwed
  <2>12. SuccessOK'
    BY <1>0, <2>1, <2>5, <2>10, <2>11 DEF HealthInv, SuccessOK
  <2> QED BY <2>4, <2>5, <2>6, <2>8, <2>12 DEF HealthInv
<1> QED BY <1>1, <1>2 DEF EnterHealthy

LEMMA ClearDegradedHealth ==
  ASSUME HealthInv, ClearDegraded
  PROVE  HealthInv'
<1>0. /\ "recovery" \in Proc /\ pc["recovery"] = "healing" /\ pc["recovery"] \in InStateErrMu
      /\ todo["recovery"] = <<>>
      /\ <<"degraded">> # <<"transitions">> /\ <<"degraded">> # <<"successes">>
      /\ UNCHANGED <<call, health, epoch, expected, turns>>
  BY DEF Proc, ClearDegraded, At, InStateErrMu, healthVars
<1>1. health = "healthy" /\ count[<<"transitions">>] = epoch
  BY <1>0 DEF HealthInv, GaugeOK
<1>2. /\ pc' \in [Proc -> Place]
      /\ \A q \in Proc : pc'[q] = IF q = "recovery" THEN "counting" ELSE pc[q]
  BY <1>0, PlaceType DEF ClearDegraded, Place
<1>3. /\ count' \in [Counter -> Nat] /\ count'[<<"degraded">>] = 0
      /\ count'[<<"transitions">>] = count[<<"transitions">>]
      /\ count'[<<"successes">>] = count[<<"successes">>]
  BY <1>0, Counters DEF ClearDegraded, HealthInv, WritersOK
<1>4. Success \in Seq(Addition)
  BY Counters DEF Success, Addition
<1>5. /\ todo' \in [Proc -> Seq(Addition)]
      /\ \A q \in Proc : todo'[q] = IF q = "recovery" THEN Success ELSE todo[q]
  BY <1>0, <1>4 DEF ClearDegraded, HealthInv, WritersOK, Addition
<1>6. WritersOK'
  BY <1>0, <1>2, <1>3, <1>5 DEF HealthInv, WritersOK, Addition
<1>7. TodoOK'
  BY <1>5 DEF HealthInv, TodoOK
<1>8. \A q \in Proc : pc'[q] \notin InStateErrMu
  BY <1>0, <1>2 DEF HealthInv, MutexOK, InStateErrMu
<1>9. MutexOK'
  BY <1>0, <1>2, <1>8 DEF HealthInv, MutexOK, InStateErrMu
<1>10. GaugeOK'
  BY <1>0, <1>1, <1>3, <1>8 DEF GaugeOK, InStateErrMu, Degraded
<1>11. SuccessOwed = 0 /\ SuccessOwed' = 1 /\ Healing = 1 /\ Healing' = 0 /\ Degraded' = Degraded
  BY <1>0, <1>2, <1>5, PlainIsNotSuccess DEF SuccessOwed, Healing, Degraded
<1>12. count[<<"successes">>] \in Nat /\ Degraded \in Nat
  BY Counters DEF HealthInv, WritersOK, Degraded
<1>13. SuccessOK'
  BY <1>0, <1>3, <1>11, <1>12 DEF HealthInv, SuccessOK
<1> QED BY <1>6, <1>7, <1>9, <1>10, <1>13 DEF HealthInv

LEMMA HealthNext == HealthInv /\ [Next]_vars => HealthInv'
<1> SUFFICES ASSUME HealthInv, [Next]_vars PROVE HealthInv'
  OBVIOUS
<1> DEFINE Others == UNCHANGED <<metricVars, healthVars>> /\ turns' \in Nat
<1>1. CASE Others
  BY <1>1 DEF metricVars, healthVars, HealthInv, WritersOK, TodoOK, MutexOK, GaugeOK, SuccessOK,
              SuccessOwed, Healing, Degraded
<1>2. turns \in Nat
  BY DEF HealthInv, WritersOK
<1>3. CASE Load
  BY <1>1, <1>2, <1>3 DEF Load
<1>4. CASE \E p \in Proc : Add(p) \/ Transition(p)
  BY <1>4, AddHealth, DegradeHealth, SetDegradedHealth, CountTransitionHealth DEF Transition
<1>5. CASE \E g \in Goroutine : Lookup(g)
  BY <1>5, LookupHealth
<1>6. CASE SubscriberFails \/ Recovery
  BY <1>6, RecoveryMovesHealth, EnterHealthyHealth, ClearDegradedHealth DEF Recovery
<1>7. CASE Evict
  BY <1>1, <1>2, <1>7 DEF Evict, Turn
<1>8. CASE ReporterStep
  BY <1>1, <1>2, <1>8 DEF ReporterStep, FlushAtTick, FlushAtStop, Report, Quiet
<1>9. CASE \E c \in Closer : Close(c) \/ CloseReturn(c)
  <2>1. ASSUME NEW c \in Closer, Close(c) PROVE Others
    BY <1>2, <2>1 DEF Close, Turn
  <2>2. ASSUME NEW c \in Closer, CloseReturn(c) PROVE Others
    BY <1>2, <2>2 DEF CloseReturn, Quiet
  <2> QED BY <1>1, <1>9, <2>1, <2>2
<1>10. CASE UNCHANGED vars
  BY <1>1, <1>2, <1>10 DEF vars
<1> QED BY <1>3, <1>4, <1>5, <1>6, <1>7, <1>8, <1>9, <1>10 DEF Next

(* Whoever fails first, recovers or interferes, the gauge and the counters of *)
(* health agree with the health of the cache whenever stateErrMu is free.     *)
THEOREM MetricsMirrorHealth == Spec => []HealthMirrored
<1>1. Spec => []HealthInv
  BY HealthInit, HealthNext, PTL DEF Spec
<1> QED BY <1>1, HealthIsMirrored, PTL

(***************************************************************************)
(* The pressure reporter.                                                  *)
(*                                                                         *)
(* An eviction is in one of three places.  Close returns only when the         *)
(* goroutine is done; the last flush, which took everything that was there,    *)
(* came before that.                                                        *)
(***************************************************************************)
ReporterInv ==
    /\ ReporterOK
    /\ ReportedOnce
    /\ reporter \in {"idle", "done"} => taken = 0
    /\ stop <=> once # Nobody
    /\ reporter \in {"last", "done"} => stop
    /\ before <= observed
    /\ reporter = "last" => before <= reported + taken
    /\ reporter = "done" => before <= reported
    /\ \A c \in Closer : closer[c] = "returned" => reporter = "done"
    /\ \A c \in Closer : closer[c] # "idle" => stop

LEMMA ReporterInit == Init => ReporterInv
<1> SUFFICES ASSUME Init PROVE ReporterInv
  OBVIOUS
<1>1. /\ {evicted, taken, observed, reported, before} \subseteq Nat
      /\ stop = FALSE /\ once = Nobody /\ reporter = "idle" /\ taken = 0
      /\ observed = reported + taken + evicted /\ before <= observed
  BY DEF Init
<1>2. closer \in [Closer -> {"idle", "closing", "returned"}] /\ \A c \in Closer : closer[c] = "idle"
  BY DEF Init
<1>3. ReporterOK
  BY <1>1, <1>2 DEF ReporterOK
<1> QED BY <1>1, <1>2, <1>3 DEF ReporterInv, ReportedOnce

LEMMA ReporterNext == ReporterInv /\ [Next]_vars => ReporterInv'
<1> SUFFICES ASSUME ReporterInv, [Next]_vars PROVE ReporterInv'
  OBVIOUS
<1> USE DEF ReporterInv, ReporterOK, ReportedOnce
<1>1. CASE UNCHANGED reporterVars /\ observed' = observed
  BY <1>1 DEF reporterVars
<1>2. CASE Load
  BY <1>1, <1>2 DEF Load
<1>3. CASE \E p \in Proc : Add(p) \/ Transition(p)
  BY <1>1, <1>3 DEF Add, Transition, Degrade, SetDegraded, CountTransition, Goes
<1>4. CASE \E g \in Goroutine : Lookup(g)
  BY <1>1, <1>4 DEF Lookup, Begin, CountHit, AskL2, Leave, CountLookup, LookupFails, Goes
<1>5. CASE SubscriberFails \/ Recovery
  BY <1>1, <1>5 DEF SubscriberFails, Recovery, Attempt, Probe, Republish, CheckEpoch, FlushL1,
                    EnterHealthy, ClearDegraded, Fails, Goes
<1>6. CASE Evict
  BY <1>6 DEF Evict
<1>7. CASE ReporterStep
  <2>1. CASE FlushAtTick
    BY <2>1 DEF FlushAtTick, Flush, Quiet
  <2>2. CASE FlushAtStop
    BY <2>2 DEF FlushAtStop, Flush, Quiet
  <2>3. CASE Report
    BY <2>3 DEF Report, Quiet
  <2> QED BY <1>7, <2>1, <2>2, <2>3 DEF ReporterStep
<1>8. ASSUME NEW c \in Closer, Close(c) PROVE ReporterInv'
  <2>0. c # Nobody
    BY ObservabilityAssumption
  <2>1. CASE once = Nobody
    BY <1>8, <2>0, <2>1 DEF Close
  <2>2. CASE once # Nobody
    BY <1>8, <2>2 DEF Close
  <2> QED BY <2>1, <2>2
<1>9. ASSUME NEW c \in Closer, CloseReturn(c) PROVE ReporterInv'
  <2>1. reporter = "done"
    BY <1>9 DEF CloseReturn
  <2> QED BY <1>9, <2>1 DEF CloseReturn, Quiet
<1>10. CASE UNCHANGED vars
  BY <1>1, <1>10 DEF vars
<1> QED BY <1>2, <1>3, <1>4, <1>5, <1>6, <1>7, <1>8, <1>9, <1>10 DEF Next

(* No eviction is reported twice or lost on its way to the report. *)
THEOREM PressureReportedOnce == Spec => []ReportedOnce
<1>1. ReporterInv => ReportedOnce
  BY DEF ReporterInv
<1> QED BY <1>1, ReporterInit, ReporterNext, PTL DEF Spec

(* Whoever calls Close and however often, once one returns everything observed *)
(* before the first was called has been reported.                            *)
THEOREM PressureReportedOnClose == Spec => []ReportedOnClose
<1>1. ReporterInv => ReportedOnClose
  BY DEF ReporterInv, ReportedOnClose
<1> QED BY <1>1, ReporterInit, ReporterNext, PTL DEF Spec

(***************************************************************************)
(* Scrapes.                                                                *)
(*                                                                         *)
(* For a pair <<A, B>> of sets of counters a scrape reads A before B, and the *)
(* lists of additions add to B before they add to A, and no less.  So what is  *)
(* counted in A, and owed to it by those who have added to B already, is no  *)
(* more than what is counted in B.                                          *)
(***************************************************************************)
Pairs ==
    {<<Errors(op), Buckets(op)>> : op \in Operation} \cup
    {<<Buckets(op), {Calls(op)}>> : op \in Operation} \cup
    {<<{<<"batchCalls", op>>}, {Calls(op)}>> : op \in Operation} \cup
    {<<LookupCounters \ {<<"lookup", "l1_hit">>}, {<<"l1Misses">>}>>}

LEMMA FiniteGroups ==
  /\ IsFiniteSet(LookupCounters)
  /\ \A op \in Operation : IsFiniteSet(Errors(op)) /\ IsFiniteSet(Buckets(op)) /\ Buckets(op) # {}
<1>1. ASSUME NEW op \in Operation PROVE IsFiniteSet(Errors(op))
  <2> DEFINE f == [c \in ErrorClass |-> <<"errors", op, c>>]
  <2>1. DOMAIN f = ErrorClass /\ Errors(op) = {f[c] : c \in ErrorClass}
    BY DEF Errors
  <2> HIDE DEF f
  <2> QED BY <2>1, ObservabilityAssumption, FewValues
<1>2. ASSUME NEW op \in Operation PROVE IsFiniteSet(Buckets(op))
  <2> DEFINE f == [b \in Bucket |-> <<"latencyBuckets", op, b>>]
  <2>1. DOMAIN f = Bucket /\ Buckets(op) = {f[b] : b \in Bucket}
    BY DEF Buckets
  <2> HIDE DEF f
  <2> QED BY <2>1, ObservabilityAssumption, FewValues
<1>3. ASSUME NEW op \in Operation PROVE Buckets(op) # {}
  <2>1. PICK b \in Bucket : TRUE
    BY ObservabilityAssumption
  <2> QED BY <2>1 DEF Buckets
<1>4. IsFiniteSet(LookupCounters)
  <2>1. LookupCounters = ({<<"lookup", "l1_hit">>} \cup {<<"lookup", "l2_hit">>}) \cup {<<"lookup", "miss">>}
    BY DEF LookupCounters
  <2>2. IsFiniteSet({<<"lookup", "l1_hit">>} \cup {<<"lookup", "l2_hit">>})
    BY FS_Singleton, FS_AddElement
  <2> QED BY <2>1, <2>2, FS_AddElement
<1> QED BY <1>1, <1>2, <1>3, <1>4

LEMMA ErrorNames ==
  ASSUME NEW op \in Operation, NEW c \in Errors(op)
  PROVE  c \in Counter /\ c[1] = "errors" /\ c[2] = op
<1>1. PICK e \in ErrorClass : c = <<"errors", op, e>>
  BY DEF Errors
<1> QED BY <1>1, Counters

LEMMA BucketNames ==
  ASSUME NEW op \in Operation, NEW c \in Buckets(op)
  PROVE  c \in Counter /\ c[1] = "latencyBuckets" /\ c[2] = op
<1>1. PICK b \in Bucket : c = <<"latencyBuckets", op, b>>
  BY DEF Buckets
<1> QED BY <1>1, Counters

LEMMA CallNames ==
  ASSUME NEW op \in Operation
  PROVE  Calls(op) \in Counter /\ Calls(op)[1] = "calls" /\ Calls(op)[2] = op
  BY Counters DEF Calls

LEMMA BatchNames ==
  ASSUME NEW op \in Operation, NEW c \in Batches(op)
  PROVE  c \in Counter /\ c[1] \in {"batchCalls", "batchItems"} /\ c[2] = op
<1>1. c = <<"batchCalls", op>> \/ c = <<"batchItems", op>>
  BY DEF Batches
<1>2. CASE c = <<"batchCalls", op>>
  BY <1>2, Counters
<1>3. CASE c = <<"batchItems", op>>
  BY <1>3, Counters
<1> QED BY <1>1, <1>2, <1>3

LEMMA LookupNames ==
  ASSUME NEW c \in LookupCounters
  PROVE  c \in Counter /\ c[1] = "lookup"
<1>1. PICK r \in {"l1_hit", "l2_hit", "miss"} : c = <<"lookup", r>>
  BY DEF LookupCounters
<1> QED BY <1>1, Counters

LEMMA PairsAre ==
  ASSUME NEW pair \in Pairs
  PROVE  /\ pair[1] \subseteq Counter /\ pair[2] \subseteq Counter
         /\ IsFiniteSet(pair[1]) /\ IsFiniteSet(pair[2]) /\ pair[2] # {}
         /\ \A c \in pair[1] : c[1] \in {"errors", "latencyBuckets", "batchCalls", "lookup"}
         /\ \A c \in pair[2] : c[1] \in {"latencyBuckets", "calls", "l1Misses"}
         /\ pair[1] \cap pair[2] = {}
<1>1. CASE \E op \in Operation : pair = <<Errors(op), Buckets(op)>>
  <2>1. PICK op \in Operation : pair = <<Errors(op), Buckets(op)>>
    BY <1>1
  <2>2. IsFiniteSet(Errors(op)) /\ IsFiniteSet(Buckets(op)) /\ Buckets(op) # {}
    BY FiniteGroups
  <2>3. /\ \A c \in Errors(op) : c \in Counter /\ c[1] = "errors"
        /\ \A c \in Buckets(op) : c \in Counter /\ c[1] = "latencyBuckets"
    BY ErrorNames, BucketNames, CallNames
  <2> QED BY <2>1, <2>2, <2>3
<1>2. CASE \E op \in Operation : pair = <<Buckets(op), {Calls(op)}>>
  <2>1. PICK op \in Operation : pair = <<Buckets(op), {Calls(op)}>>
    BY <1>2
  <2>2. IsFiniteSet(Buckets(op)) /\ IsFiniteSet({Calls(op)})
    BY FiniteGroups, FS_Singleton
  <2>3. /\ Calls(op) \in Counter /\ Calls(op)[1] = "calls"
        /\ \A c \in Buckets(op) : c \in Counter /\ c[1] = "latencyBuckets"
    BY ErrorNames, BucketNames, CallNames
  <2> QED BY <2>1, <2>2, <2>3
<1>3. CASE \E op \in Operation : pair = <<{<<"batchCalls", op>>}, {Calls(op)}>>
  <2>1. PICK op \in Operation : pair = <<{<<"batchCalls", op>>}, {Calls(op)}>>
    BY <1>3
  <2>2. IsFiniteSet({<<"batchCalls", op>>}) /\ IsFiniteSet({Calls(op)})
    BY FS_Singleton
  <2>3. /\ Calls(op) \in Counter /\ Calls(op)[1] = "calls"
        /\ <<"batchCalls", op>> \in Counter /\ <<"batchCalls", op>>[1] = "batchCalls"
    BY Counters DEF Calls
  <2> QED BY <2>1, <2>2, <2>3
<1>4. CASE pair = <<LookupCounters \ {<<"lookup", "l1_hit">>}, {<<"l1Misses">>}>>
  <2>3. IsFiniteSet(LookupCounters \ {<<"lookup", "l1_hit">>}) /\ IsFiniteSet({<<"l1Misses">>})
    BY FiniteGroups, FS_Subset, FS_Singleton
  <2>4. /\ <<"l1Misses">> \in Counter /\ <<"l1Misses">>[1] = "l1Misses"
        /\ \A c \in LookupCounters : c \in Counter /\ c[1] = "lookup"
    BY Counters, LookupNames
  <2> QED BY <1>4, <2>3, <2>4
<1> QED BY <1>1, <1>2, <1>3, <1>4 DEF Pairs

(* A list names one of the counters. *)
Has(s, counters) == \E i \in 1..Len(s) : s[i][1] \in counters

(* No counter twice. *)
Once(s) == \A i, j \in 1..Len(s) : s[i][1] = s[j][1] => i = j

(* What a list still adds to a counter, and to a set of them. *)
Due(s, c) == IF \E i \in 1..Len(s) : s[i][1] = c
             THEN s[CHOOSE i \in 1..Len(s) : s[i][1] = c][2] ELSE 0

DueOf(s, counters) == SumFunction([c \in counters |-> Due(s, c)])

(* What it still adds to the first of a pair when it has added to the second. *)
Owed(s, pair) == IF Has(s, pair[2]) THEN 0 ELSE DueOf(s, pair[1])

(* It adds to the second of a pair first, once, and no less. *)
Ordered(s, pair) ==
    \A i \in 1..Len(s) : s[i][1] \in pair[2] =>
        /\ \A j \in 1..Len(s) : s[j][1] \in pair[1] => i < j
        /\ \A j \in 1..Len(s) : s[j][1] \in pair[2] => i = j
        /\ DueOf(s, pair[1]) <= s[i][2]

LEMMA DueIs ==
  ASSUME NEW s \in Seq(Addition), Once(s)
  PROVE  /\ \A i \in 1..Len(s) : Due(s, s[i][1]) = s[i][2]
         /\ \A c : (\A i \in 1..Len(s) : s[i][1] # c) => Due(s, c) = 0
         /\ \A c : Due(s, c) \in Nat
<1>1. ASSUME NEW i \in 1..Len(s) PROVE Due(s, s[i][1]) = s[i][2]
  <2> DEFINE k == CHOOSE j \in 1..Len(s) : s[j][1] = s[i][1]
  <2>1. k \in 1..Len(s) /\ s[k][1] = s[i][1]
    OBVIOUS
  <2>2. k = i
    BY <2>1 DEF Once
  <2> QED BY <2>2 DEF Due
<1>2. \A c : (\A i \in 1..Len(s) : s[i][1] # c) => Due(s, c) = 0
  BY DEF Due
<1>3. ASSUME NEW c PROVE Due(s, c) \in Nat
  <2>1. CASE \E i \in 1..Len(s) : s[i][1] = c
    <3>1. PICK i \in 1..Len(s) : s[i][1] = c
      BY <2>1
    <3>2. s[i] \in Addition
      OBVIOUS
    <3>3. s[i][2] \in Nat
      BY <3>2 DEF Addition
    <3> QED BY <1>1, <3>1, <3>3
  <2>2. CASE \A i \in 1..Len(s) : s[i][1] # c
    BY <1>2, <2>2
  <2> QED BY <2>1, <2>2
<1> QED BY <1>1, <1>2, <1>3

LEMMA DueSum ==
  ASSUME NEW s \in Seq(Addition), Once(s), NEW A, IsFiniteSet(A)
  PROVE  /\ DueOf(s, A) \in Nat
         /\ ~Has(s, A) => DueOf(s, A) = 0
         /\ \A i \in 1..Len(s) :
               (\A j \in 1..Len(s) : s[j][1] \in A => j = i) /\ s[i][1] \in A => DueOf(s, A) = s[i][2]
<1> DEFINE f == [c \in A |-> Due(s, c)]
<1>1. f \in [A -> Nat] /\ f \in [A -> Int] /\ \A c \in A : f[c] = Due(s, c)
  BY DueIs
<1>2. DueOf(s, A) = SumFunction(f)
  BY DEF DueOf
<1> HIDE DEF f
<1>3. DueOf(s, A) \in Nat
  BY <1>1, <1>2, SumNat
<1>4. ASSUME ~Has(s, A) PROVE DueOf(s, A) = 0
  <2>1. \A c \in A : f[c] = 0
    BY <1>1, <1>4, DueIs DEF Has
  <2> QED BY <1>1, <1>2, <2>1, SumZero
<1>5. ASSUME NEW i \in 1..Len(s), \A j \in 1..Len(s) : s[j][1] \in A => j = i, s[i][1] \in A
      PROVE  DueOf(s, A) = s[i][2]
  <2>1. ASSUME NEW c \in A \ {s[i][1]} PROVE f[c] = 0
    <3>1. \A j \in 1..Len(s) : s[j][1] # c
      BY <1>5
    <3>2. Due(s, c) = 0
      BY <3>1, DueIs
    <3> QED BY <1>1, <3>2
  <2>2. f[s[i][1]] = s[i][2]
    BY <1>1, <1>5, DueIs
  <2>3. SumFunction(f) = f[s[i][1]]
    BY <1>1, <1>5, <2>1, SumSingle
  <2> QED BY <1>2, <2>2, <2>3
<1> QED BY <1>3, <1>4, <1>5

(* The first addition of a list is made. *)
LEMMA TailIs ==
  ASSUME NEW s \in Seq(Addition), s # <<>>
  PROVE  /\ Tail(s) \in Seq(Addition) /\ Len(Tail(s)) = Len(s) - 1 /\ Len(s) \in Nat \ {0}
         /\ \A i \in 1..Len(Tail(s)) : i + 1 \in 1..Len(s) /\ Tail(s)[i] = s[i + 1]
         /\ Head(s) = s[1] /\ s[1][1] \in Counter /\ s[1][2] \in Nat
<1>1. Len(s) \in Nat \ {0} /\ s[1] \in Addition
  OBVIOUS
<1>2. s[1][1] \in Counter /\ s[1][2] \in Nat
  BY <1>1 DEF Addition
<1> QED BY <1>1, <1>2

LEMMA OnceTail ==
  ASSUME NEW s \in Seq(Addition), s # <<>>, Once(s)
  PROVE  /\ Once(Tail(s))
         /\ Due(s, s[1][1]) = s[1][2]
         /\ \A c : Due(Tail(s), c) = IF c = s[1][1] THEN 0 ELSE Due(s, c)
<1> DEFINE t == Tail(s)
<1>1. /\ t \in Seq(Addition) /\ Len(t) = Len(s) - 1 /\ Len(s) \in Nat \ {0}
      /\ \A i \in 1..Len(t) : i + 1 \in 1..Len(s) /\ t[i] = s[i + 1]
  BY TailIs
<1> HIDE DEF t
<1>2. Once(t)
  BY <1>1 DEF Once
<1>3. 1 \in 1..Len(s) /\ Due(s, s[1][1]) = s[1][2]
  BY <1>1, DueIs
<1>4. ASSUME NEW c PROVE Due(t, c) = IF c = s[1][1] THEN 0 ELSE Due(s, c)
  <2>1. CASE \E i \in 1..Len(t) : t[i][1] = c
    <3>1. PICK i \in 1..Len(t) : t[i][1] = c
      BY <2>1
    <3>2. i + 1 \in 1..Len(s) /\ s[i + 1] = t[i] /\ i + 1 # 1
      BY <1>1
    <3>3. c # s[1][1]
      BY <1>3, <3>1, <3>2 DEF Once
    <3>4. Due(t, c) = t[i][2] /\ Due(s, c) = s[i + 1][2]
      BY <1>1, <1>2, <3>1, <3>2, DueIs
    <3> QED BY <3>2, <3>3, <3>4
  <2>2. CASE \A i \in 1..Len(t) : t[i][1] # c
    <3>1. Due(t, c) = 0
      BY <1>1, <1>2, <2>2, DueIs
    <3>2. CASE c # s[1][1]
      <4>1. ASSUME NEW j \in 1..Len(s) PROVE s[j][1] # c
        <5>1. CASE j = 1
          BY <3>2, <5>1
        <5>2. CASE j # 1
          <6>1. j - 1 \in 1..Len(t) /\ j - 1 + 1 = j
            BY <1>1, <5>2
          <6> QED BY <1>1, <2>2, <6>1
        <5> QED BY <5>1, <5>2
      <4> QED BY <3>1, <3>2, <4>1, DueIs
    <3> QED BY <3>1, <3>2
  <2> QED BY <2>1, <2>2
<1> QED BY <1>2, <1>3, <1>4 DEF t

LEMMA DueTail ==
  ASSUME NEW s \in Seq(Addition), s # <<>>, Once(s), NEW A, IsFiniteSet(A)
  PROVE  /\ DueOf(s, A) \in Nat /\ DueOf(Tail(s), A) \in Nat
         /\ DueOf(Tail(s), A) = DueOf(s, A) - (IF s[1][1] \in A THEN s[1][2] ELSE 0)
<1> DEFINE f == [c \in A |-> Due(s, c)]
           g == [c \in A |-> Due(Tail(s), c)]
<1>1. Tail(s) \in Seq(Addition) /\ Once(Tail(s)) /\ s[1][2] \in Nat
  BY TailIs, OnceTail
<1>2. /\ f \in [A -> Int] /\ g \in [A -> Int]
      /\ \A c \in A : f[c] = Due(s, c) /\ g[c] = IF c = s[1][1] THEN 0 ELSE Due(s, c)
  BY <1>1, DueIs, OnceTail
<1>3. DueOf(s, A) = SumFunction(f) /\ DueOf(Tail(s), A) = SumFunction(g)
  BY DEF DueOf
<1> HIDE DEF f, g
<1>4. DueOf(s, A) \in Nat /\ DueOf(Tail(s), A) \in Nat
  BY <1>1, DueSum
<1>5. CASE s[1][1] \in A
  <2>1. f[s[1][1]] = s[1][2] /\ g[s[1][1]] = 0
    BY <1>2, <1>5, OnceTail
  <2>2. \A c \in A \ {s[1][1]} : f[c] = g[c]
    <3> TAKE c \in A \ {s[1][1]}
    <3>1. c \in A /\ c # s[1][1]
      OBVIOUS
    <3>2. f[c] = Due(s, c)
      BY <1>2, <3>1
    <3>3. g[c] = Due(s, c)
      BY <1>2, <3>1
    <3> QED BY <3>2, <3>3
  <2>3. SumFunction(g) = SumFunction(f) + g[s[1][1]] - f[s[1][1]]
    <3>1. f \in [A -> Int] /\ g \in [A -> Int]
      BY <1>2
    <3> DEFINE x == s[1][1]
    <3>2. x \in A /\ \A y \in A \ {x} : f[y] = g[y]
      BY <1>5, <2>2
    <3> HIDE DEF x
    <3>3. SumFunction(g) = SumFunction(f) + g[x] - f[x]
      BY <3>1, <3>2, SumChange
    <3> QED BY <3>3 DEF x
  <2> QED BY <1>1, <1>3, <1>4, <1>5, <2>1, <2>3
<1>6. CASE s[1][1] \notin A
  <2>1. f = g
    BY <1>2, <1>6
  <2> QED BY <1>3, <1>4, <1>6, <2>1
<1> QED BY <1>4, <1>5, <1>6

LEMMA OwedTail ==
  ASSUME NEW s \in Seq(Addition), s # <<>>, Once(s), NEW pair \in Pairs, Ordered(s, pair)
  PROVE  /\ Ordered(Tail(s), pair) /\ Owed(s, pair) \in Nat /\ Owed(Tail(s), pair) \in Nat
         /\ Owed(Tail(s), pair) + (IF s[1][1] \in pair[1] THEN s[1][2] ELSE 0) <=
               Owed(s, pair) + (IF s[1][1] \in pair[2] THEN s[1][2] ELSE 0)
<1> DEFINE t == Tail(s)
           A == pair[1]
           B == pair[2]
<1>0. IsFiniteSet(A) /\ A \cap B = {}
  BY PairsAre
<1>1. /\ t \in Seq(Addition) /\ Len(t) = Len(s) - 1 /\ Len(s) \in Nat \ {0}
      /\ \A i \in 1..Len(t) : i + 1 \in 1..Len(s) /\ t[i] = s[i + 1]
      /\ s[1][2] \in Nat /\ 1 \in 1..Len(s)
  BY TailIs
<1>2. /\ DueOf(s, A) \in Nat /\ DueOf(t, A) \in Nat
      /\ DueOf(t, A) = DueOf(s, A) - (IF s[1][1] \in A THEN s[1][2] ELSE 0)
  BY <1>0, DueTail
<1>3. \A j \in 1..Len(s) : j = 1 \/ (j - 1 \in 1..Len(t) /\ t[j - 1] = s[j])
  BY <1>1
<1> HIDE DEF t
<1>4. Owed(s, pair) = (IF Has(s, B) THEN 0 ELSE DueOf(s, A)) /\ Owed(t, pair) = (IF Has(t, B) THEN 0 ELSE DueOf(t, A))
  BY DEF Owed
<1>5. Has(s, B) <=> s[1][1] \in B \/ Has(t, B)
  BY <1>1, <1>3 DEF Has
<1>6. CASE s[1][1] \in B
  <2>1. s[1][1] \notin A /\ DueOf(s, A) <= s[1][2]
    BY <1>0, <1>1, <1>6 DEF Ordered
  <2>2. ~Has(t, B)
    BY <1>1, <1>6 DEF Has, Ordered
  <2>3. Ordered(t, pair)
    BY <2>2 DEF Has, Ordered
  <2> QED BY <1>1, <1>2, <1>4, <1>5, <1>6, <2>1, <2>2, <2>3 DEF t
<1>7. CASE s[1][1] \notin B
  <2>1. Has(t, B) => s[1][1] \notin A
    BY <1>1 DEF Has, Ordered
  <2>2. Ordered(t, pair)
    <3> SUFFICES ASSUME NEW i \in 1..Len(t), t[i][1] \in B
                 PROVE  /\ \A j \in 1..Len(t) : t[j][1] \in A => i < j
                        /\ \A j \in 1..Len(t) : t[j][1] \in B => i = j
                        /\ DueOf(t, A) <= t[i][2]
      BY DEF Ordered
    <3>1. i + 1 \in 1..Len(s) /\ s[i + 1][1] \in B /\ s[i + 1][2] = t[i][2]
      BY <1>1
    <3>2. /\ \A j \in 1..Len(s) : s[j][1] \in A => i + 1 < j
          /\ \A j \in 1..Len(s) : s[j][1] \in B => i + 1 = j
          /\ DueOf(s, A) <= s[i + 1][2]
      BY <3>1 DEF Ordered
    <3>3. s[1][1] \notin A
      BY <2>1 DEF Has
    <3>4. ASSUME NEW j \in 1..Len(t)
          PROVE  (t[j][1] \in A => i < j) /\ (t[j][1] \in B => i = j)
      <4>1. j + 1 \in 1..Len(s) /\ t[j] = s[j + 1]
        BY <1>1
      <4>2. i \in Int /\ j \in Int
        OBVIOUS
      <4>3. t[j][1] \in A => i + 1 < j + 1
        BY <3>2, <4>1
      <4>4. t[j][1] \in B => i + 1 = j + 1
        BY <3>2, <4>1
      <4> QED BY <4>2, <4>3, <4>4
    <3>5. DueOf(t, A) <= t[i][2]
      BY <1>2, <3>1, <3>2, <3>3
    <3> QED BY <3>4, <3>5
  <2>3. CASE Has(t, B)
    BY <1>1, <1>4, <1>5, <1>7, <2>1, <2>2, <2>3 DEF t
  <2>4. CASE ~Has(t, B)
    BY <1>1, <1>2, <1>4, <1>5, <1>7, <2>2, <2>4 DEF t
  <2> QED BY <2>3, <2>4
<1> QED BY <1>6, <1>7

LEMMA JoinIs ==
  ASSUME NEW T, NEW s \in Seq(T), NEW t \in Seq(T), NEW u \in Seq(T), Len(u) = Len(s) + Len(t),
         \A i \in 1..Len(u) : u[i] = IF i <= Len(s) THEN s[i] ELSE t[i - Len(s)]
  PROVE  s \o t = u
<1>1. /\ s \o t \in Seq(T) /\ Len(s \o t) = Len(u)
      /\ \A i \in 1..Len(u) : (s \o t)[i] = u[i]
  BY ConcatProperties
<1> QED BY <1>1, SeqEqual

LEMMA PutNone ==
  ASSUME NEW T, NEW a \in T, NEW b \in T
  PROVE  <<a, b>> \o <<>> = <<a, b>>
  OBVIOUS

LEMMA PutOne ==
  ASSUME NEW T, NEW a \in T, NEW b \in T, NEW c \in T
  PROVE  <<a, b>> \o <<c>> = <<a, b, c>>
<1> DEFINE s == <<a, b>>
           t == <<c>>
           u == <<a, b, c>>
<1>1. /\ s \in Seq(T) /\ t \in Seq(T) /\ u \in Seq(T) /\ Len(u) = Len(s) + Len(t)
      /\ \A i \in 1..Len(u) : u[i] = IF i <= Len(s) THEN s[i] ELSE t[i - Len(s)]
  OBVIOUS
<1> HIDE DEF s, t, u
<1>2. s \o t = u
  BY <1>1, JoinIs
<1> QED BY <1>2 DEF s, t, u

LEMMA PutNoneToThree ==
  ASSUME NEW T, NEW a \in T, NEW b \in T, NEW c \in T
  PROVE  <<a, b, c>> \o <<>> = <<a, b, c>>
  OBVIOUS

LEMMA PutTwo ==
  ASSUME NEW T, NEW a \in T, NEW b \in T, NEW c \in T, NEW d \in T
  PROVE  <<a, b>> \o <<c, d>> = <<a, b, c, d>>
<1> DEFINE s == <<a, b>>
           t == <<c, d>>
           u == <<a, b, c, d>>
<1>1. /\ s \in Seq(T) /\ t \in Seq(T) /\ u \in Seq(T) /\ Len(u) = Len(s) + Len(t)
      /\ \A i \in 1..Len(u) : u[i] = IF i <= Len(s) THEN s[i] ELSE t[i - Len(s)]
  OBVIOUS
<1> HIDE DEF s, t, u
<1>2. s \o t = u
  BY <1>1, JoinIs
<1> QED BY <1>2 DEF s, t, u

LEMMA PutOneToThree ==
  ASSUME NEW T, NEW a \in T, NEW b \in T, NEW c \in T, NEW d \in T
  PROVE  <<a, b, c>> \o <<d>> = <<a, b, c, d>>
<1> DEFINE s == <<a, b, c>>
           t == <<d>>
           u == <<a, b, c, d>>
<1>1. /\ s \in Seq(T) /\ t \in Seq(T) /\ u \in Seq(T) /\ Len(u) = Len(s) + Len(t)
      /\ \A i \in 1..Len(u) : u[i] = IF i <= Len(s) THEN s[i] ELSE t[i - Len(s)]
  OBVIOUS
<1> HIDE DEF s, t, u
<1>2. s \o t = u
  BY <1>1, JoinIs
<1> QED BY <1>2 DEF s, t, u

LEMMA PutTwoToThree ==
  ASSUME NEW T, NEW a \in T, NEW b \in T, NEW c \in T, NEW d \in T, NEW e \in T
  PROVE  <<a, b, c>> \o <<d, e>> = <<a, b, c, d, e>>
<1> DEFINE s == <<a, b, c>>
           t == <<d, e>>
           u == <<a, b, c, d, e>>
<1>1. /\ s \in Seq(T) /\ t \in Seq(T) /\ u \in Seq(T) /\ Len(u) = Len(s) + Len(t)
      /\ \A i \in 1..Len(u) : u[i] = IF i <= Len(s) THEN s[i] ELSE t[i - Len(s)]
  OBVIOUS
<1> HIDE DEF s, t, u
<1>2. s \o t = u
  BY <1>1, JoinIs
<1> QED BY <1>2 DEF s, t, u

Sound(s) ==
    /\ s \in Seq(Addition) /\ Once(s)
    /\ \A pair \in Pairs : Ordered(s, pair) /\ Owed(s, pair) = 0

(* What follows the call and its sample is told apart by its kind. *)
Sample(s, op) ==
    /\ s \in Seq(Addition) /\ Len(s) \in 2..5
    /\ s[1] = <<Calls(op), 1>> /\ s[2][1] \in Buckets(op) /\ s[2][2] = 1
    /\ \A i \in 3..Len(s) :
          /\ s[i][1][1] \in {"errors", "batchCalls", "batchItems", "failures"}
          /\ s[i][1][1] \in {"errors", "batchCalls"} => s[i][1][2] = op /\ s[i][2] = 1
    /\ \A i, j \in 3..Len(s) : s[i][1][1] = s[j][1][1] => i = j

LEMMA SampleLists ==
  ASSUME NEW op \in Operation, NEW b \in Bucket, NEW class \in ErrorClass \cup {"none"}, NEW items \in Nat
  PROVE  /\ Sample(ObserveL2(op, b, class), op)
         /\ Sample(ObserveL2(op, b, class) \o ObserveBatch(op, items), op)
         /\ Sample(ObserveL2(op, b, class) \o Fail, op)
<1> DEFINE x == <<Calls(op), 1>>
           y == <<<<"latencyBuckets", op, b>>, 1>>
           e == <<<<"errors", op, class>>, 1>>
           n == <<<<"batchCalls", op>>, 1>>
           m == <<<<"batchItems", op>>, items>>
           f == <<<<"failures">>, 1>>
<1>1. /\ x \in Addition /\ x[1][1] = "calls"
      /\ y \in Addition /\ y[1][1] = "latencyBuckets" /\ y[1] \in Buckets(op) /\ y[2] = 1
      /\ n \in Addition /\ n[1][1] = "batchCalls" /\ n[1][2] = op /\ n[2] = 1
      /\ m \in Addition /\ m[1][1] = "batchItems"
      /\ f \in Addition /\ f[1][1] = "failures"
  <2>1. x \in Addition /\ x[1][1] = "calls"
    BY Counters DEF Addition, Calls
  <2>2. y \in Addition /\ y[1][1] = "latencyBuckets" /\ y[1] \in Buckets(op) /\ y[2] = 1
    BY Counters DEF Addition, Buckets
  <2>3. n \in Addition /\ n[1][1] = "batchCalls" /\ n[1][2] = op /\ n[2] = 1
    BY Counters DEF Addition
  <2>4. m \in Addition /\ m[1][1] = "batchItems"
    BY Counters DEF Addition
  <2>5. f \in Addition /\ f[1][1] = "failures"
    BY Counters DEF Addition
  <2> QED BY <2>1, <2>2, <2>3, <2>4, <2>5
<1>2. class \in ErrorClass => e \in Addition /\ e[1][1] = "errors" /\ e[1][2] = op /\ e[2] = 1
  BY Counters DEF Addition
<1>3. /\ ObserveL2(op, b, class) = <<x, y>> \o (IF class \in ErrorClass THEN <<e>> ELSE <<>>)
      /\ ObserveBatch(op, items) = (IF op = "getMany" THEN <<n, m>> ELSE <<>>)
      /\ Fail = <<f>>
  BY DEF ObserveL2, ObserveBatch, Fail
<1>4. x = <<Calls(op), 1>>
  OBVIOUS
<1> HIDE DEF x, y, e, n, m, f
<1>5. CASE class \in ErrorClass
  <2>1. /\ ObserveL2(op, b, class) = <<x, y, e>>
        /\ ObserveL2(op, b, class) \o Fail = <<x, y, e, f>>
        /\ ObserveL2(op, b, class) \o ObserveBatch(op, items) =
              IF op = "getMany" THEN <<x, y, e, n, m>> ELSE <<x, y, e>>
    <3>1. /\ <<x, y>> \o <<e>> = <<x, y, e>> /\ <<x, y, e>> \o <<>> = <<x, y, e>>
          /\ <<x, y, e>> \o <<f>> = <<x, y, e, f>>
          /\ <<x, y, e>> \o <<n, m>> = <<x, y, e, n, m>>
      BY <1>1, <1>2, <1>5, PutOne, PutNoneToThree, PutOneToThree, PutTwoToThree
    <3>2. ObserveL2(op, b, class) = <<x, y, e>>
      BY <1>3, <1>5, <3>1
    <3> QED BY <1>3, <3>1, <3>2
  <2>2. Sample(<<x, y, e>>, op)
    BY <1>1, <1>2, <1>4, <1>5 DEF Sample
  <2>3. Sample(<<x, y, e, f>>, op)
    BY <1>1, <1>2, <1>4, <1>5 DEF Sample
  <2>4. Sample(<<x, y, e, n, m>>, op)
    BY <1>1, <1>2, <1>4, <1>5 DEF Sample
  <2> QED BY <2>1, <2>2, <2>3, <2>4
<1>6. CASE class \notin ErrorClass
  <2>1. /\ ObserveL2(op, b, class) = <<x, y>>
        /\ ObserveL2(op, b, class) \o Fail = <<x, y, f>>
        /\ ObserveL2(op, b, class) \o ObserveBatch(op, items) =
              IF op = "getMany" THEN <<x, y, n, m>> ELSE <<x, y>>
    <3>1. /\ <<x, y>> \o <<>> = <<x, y>> /\ <<x, y>> \o <<f>> = <<x, y, f>>
          /\ <<x, y>> \o <<n, m>> = <<x, y, n, m>>
      BY <1>1, PutNone, PutOne, PutTwo
    <3>2. ObserveL2(op, b, class) = <<x, y>>
      BY <1>3, <1>6, <3>1
    <3> QED BY <1>3, <3>1, <3>2
  <2>2. Sample(<<x, y>>, op)
    BY <1>1, <1>4, <1>6 DEF Sample
  <2>3. Sample(<<x, y, f>>, op)
    BY <1>1, <1>4, <1>6 DEF Sample
  <2>4. Sample(<<x, y, n, m>>, op)
    BY <1>1, <1>4, <1>6 DEF Sample
  <2> QED BY <2>1, <2>2, <2>3, <2>4
<1> QED BY <1>5, <1>6

LEMMA PairIs ==
  ASSUME NEW pair \in Pairs
  PROVE  \/ \E o \in Operation : pair[1] = Errors(o) /\ pair[2] = Buckets(o)
         \/ \E o \in Operation : pair[1] = Buckets(o) /\ pair[2] = {Calls(o)}
         \/ \E o \in Operation : pair[1] = {<<"batchCalls", o>>} /\ pair[2] = {Calls(o)}
         \/ pair[1] = LookupCounters \ {<<"lookup", "l1_hit">>} /\ pair[2] = {<<"l1Misses">>}
  BY DEF Pairs

(* A list is sound for a pair when it has nothing of it. *)
LEMMA NothingOf ==
  ASSUME NEW s \in Seq(Addition), Once(s), NEW pair \in Pairs,
         ~Has(s, pair[1]), ~Has(s, pair[2])
  PROVE  Ordered(s, pair) /\ Owed(s, pair) = 0
<1>1. DueOf(s, pair[1]) = 0
  BY PairsAre, DueSum
<1> QED BY <1>1 DEF Ordered, Owed, Has

(* It is when it adds once to the second, and then no more to the first. *)
LEMMA FirstThen ==
  ASSUME NEW s \in Seq(Addition), Once(s), NEW pair \in Pairs, NEW i \in 1..Len(s),
         s[i][1] \in pair[2], \A j \in 1..Len(s) : s[j][1] \in pair[2] => j = i,
         \A j \in 1..Len(s) : s[j][1] \in pair[1] => i < j, DueOf(s, pair[1]) <= s[i][2]
  PROVE  Ordered(s, pair) /\ Owed(s, pair) = 0
  BY DEF Ordered, Owed, Has

LEMMA AtMostOne ==
  ASSUME NEW s \in Seq(Addition), Once(s), NEW A, IsFiniteSet(A),
         \A i, j \in 1..Len(s) : s[i][1] \in A /\ s[j][1] \in A => i = j,
         \A i \in 1..Len(s) : s[i][1] \in A => s[i][2] = 1
  PROVE  DueOf(s, A) <= 1
<1>1. CASE Has(s, A)
  <2>1. PICK i \in 1..Len(s) : s[i][1] \in A
    BY <1>1 DEF Has
  <2>2. DueOf(s, A) = s[i][2]
    BY <2>1, DueSum
  <2> QED BY <2>1, <2>2
<1>2. CASE ~Has(s, A)
  BY <1>2, DueSum
<1> QED BY <1>1, <1>2

LEMMA SampleSound ==
  ASSUME NEW op \in Operation, NEW s, Sample(s, op)
  PROVE  Sound(s)
<1>1. /\ s \in Seq(Addition) /\ Len(s) \in 2..5
      /\ s[1][1] = Calls(op) /\ s[1][2] = 1 /\ s[2][1] \in Buckets(op) /\ s[2][2] = 1
      /\ \A i \in 3..Len(s) :
            /\ s[i][1][1] \in {"errors", "batchCalls", "batchItems", "failures"}
            /\ s[i][1][1] \in {"errors", "batchCalls"} => s[i][1][2] = op /\ s[i][2] = 1
      /\ \A i, j \in 3..Len(s) : s[i][1][1] = s[j][1][1] => i = j
  <2>1. s[1] = <<Calls(op), 1>>
    BY DEF Sample
  <2>2. s[1][1] = Calls(op) /\ s[1][2] = 1
    BY <2>1
  <2>3. /\ s \in Seq(Addition) /\ Len(s) \in 2..5 /\ s[2][1] \in Buckets(op) /\ s[2][2] = 1
        /\ \A i \in 3..Len(s) :
              /\ s[i][1][1] \in {"errors", "batchCalls", "batchItems", "failures"}
              /\ s[i][1][1] \in {"errors", "batchCalls"} => s[i][1][2] = op /\ s[i][2] = 1
        /\ \A i, j \in 3..Len(s) : s[i][1][1] = s[j][1][1] => i = j
    BY Zenon DEF Sample
  <2> QED BY <2>2, <2>3
<1>2. s[1][1][1] = "calls" /\ s[2][1][1] = "latencyBuckets" /\ s[2][1][2] = op /\ s[1][1][2] = op
  BY <1>1, BucketNames, CallNames
<1>3. \A i \in 1..Len(s) : i = 1 \/ i = 2 \/ i \in 3..Len(s)
  BY <1>1
<1>4. ASSUME NEW i \in 1..Len(s), NEW j \in 1..Len(s), s[i][1][1] = s[j][1][1] PROVE i = j
  BY <1>1, <1>2, <1>3, <1>4
<1>5. Once(s)
  BY <1>4 DEF Once
<1>6. \A i \in 1..Len(s) :
         /\ s[i][1][1] \in {"errors", "latencyBuckets", "batchCalls", "calls"} => s[i][1][2] = op /\ s[i][2] = 1
         /\ s[i][1][1] = "calls" <=> i = 1
         /\ s[i][1][1] = "latencyBuckets" <=> i = 2
         /\ s[i][1][1] \notin {"lookup", "l1Misses"}
  BY <1>1, <1>2, <1>3
<1>7. ASSUME NEW pair \in Pairs PROVE Ordered(s, pair) /\ Owed(s, pair) = 0
  <2>0. IsFiniteSet(pair[1]) /\ 1 \in 1..Len(s) /\ 2 \in 1..Len(s)
    BY <1>1, PairsAre
  <2>1. ASSUME NEW o \in Operation, pair[1] = Errors(o), pair[2] = Buckets(o)
        PROVE  Ordered(s, pair) /\ Owed(s, pair) = 0
    <3>1. /\ \A i \in 1..Len(s) : s[i][1] \in pair[1] => s[i][1][1] = "errors" /\ o = op
          /\ \A i \in 1..Len(s) : s[i][1] \in pair[2] => s[i][1][1] = "latencyBuckets" /\ o = op
      <4>1. /\ \A c \in pair[1] : c[1] = "errors" /\ c[2] = o
            /\ \A c \in pair[2] : c[1] = "latencyBuckets" /\ c[2] = o
        <5>1. \A c \in Errors(o) : c[1] = "errors" /\ c[2] = o
          BY ErrorNames, BucketNames, CallNames
        <5>2. \A c \in Buckets(o) : c[1] = "latencyBuckets" /\ c[2] = o
          BY ErrorNames, BucketNames, CallNames
        <5> QED BY <2>1, <5>1, <5>2
      <4> QED BY <1>6, <4>1
    <3>2. CASE o = op
      <4>1. DueOf(s, pair[1]) <= 1
        BY <1>1, <1>4, <1>5, <1>6, <2>0, <3>1, AtMostOne
      <4>2. s[2][1] \in pair[2] /\ s[2][2] = 1
        BY <1>1, <2>1, <3>2
      <4>3. /\ \A j \in 1..Len(s) : s[j][1] \in pair[2] => j = 2
            /\ \A j \in 1..Len(s) : s[j][1] \in pair[1] => 2 < j
        BY <1>2, <1>3, <1>6, <3>1
      <4> QED BY <1>1, <1>5, <2>0, <4>1, <4>2, <4>3, FirstThen
    <3>3. CASE o # op
      BY <1>1, <1>5, <3>1, <3>3, NothingOf DEF Has
    <3> QED BY <3>2, <3>3
  <2>2. ASSUME NEW o \in Operation, pair[1] = Buckets(o), pair[2] = {Calls(o)}
        PROVE  Ordered(s, pair) /\ Owed(s, pair) = 0
    <3>1. /\ \A i \in 1..Len(s) : s[i][1] \in pair[1] => s[i][1][1] = "latencyBuckets" /\ o = op
          /\ \A i \in 1..Len(s) : s[i][1] \in pair[2] => s[i][1][1] = "calls" /\ o = op
      <4>1. /\ \A c \in pair[1] : c[1] = "latencyBuckets" /\ c[2] = o
            /\ \A c \in pair[2] : c[1] = "calls" /\ c[2] = o
        <5>1. \A c \in Buckets(o) : c[1] = "latencyBuckets" /\ c[2] = o
          BY ErrorNames, BucketNames, CallNames
        <5>2. Calls(o)[1] = "calls" /\ Calls(o)[2] = o
          BY ErrorNames, BucketNames, CallNames
        <5> QED BY <2>2, <5>1, <5>2
      <4> QED BY <1>6, <4>1
    <3>2. CASE o = op
      <4>1. DueOf(s, pair[1]) <= 1
        BY <1>1, <1>4, <1>5, <1>6, <2>0, <3>1, AtMostOne
      <4>2. s[1][1] \in pair[2] /\ s[1][2] = 1
        BY <1>1, <2>2, <3>2
      <4>3. /\ \A j \in 1..Len(s) : s[j][1] \in pair[2] => j = 1
            /\ \A j \in 1..Len(s) : s[j][1] \in pair[1] => 1 < j
        BY <1>6, <3>1
      <4> QED BY <1>1, <1>5, <2>0, <4>1, <4>2, <4>3, FirstThen
    <3>3. CASE o # op
      BY <1>1, <1>5, <3>1, <3>3, NothingOf DEF Has
    <3> QED BY <3>2, <3>3
  <2>3. ASSUME NEW o \in Operation, pair[1] = {<<"batchCalls", o>>}, pair[2] = {Calls(o)}
        PROVE  Ordered(s, pair) /\ Owed(s, pair) = 0
    <3>1. /\ \A i \in 1..Len(s) : s[i][1] \in pair[1] => s[i][1][1] = "batchCalls" /\ o = op
          /\ \A i \in 1..Len(s) : s[i][1] \in pair[2] => s[i][1][1] = "calls" /\ o = op
      <4>1. /\ \A c \in pair[1] : c[1] = "batchCalls" /\ c[2] = o
            /\ \A c \in pair[2] : c[1] = "calls" /\ c[2] = o
        <5>1. <<"batchCalls", o>>[1] = "batchCalls" /\ <<"batchCalls", o>>[2] = o
          BY ErrorNames, BucketNames, CallNames
        <5>2. Calls(o)[1] = "calls" /\ Calls(o)[2] = o
          BY ErrorNames, BucketNames, CallNames
        <5> QED BY <2>3, <5>1, <5>2
      <4> QED BY <1>6, <4>1
    <3>2. CASE o = op
      <4>1. DueOf(s, pair[1]) <= 1
        BY <1>1, <1>4, <1>5, <1>6, <2>0, <3>1, AtMostOne
      <4>2. s[1][1] \in pair[2] /\ s[1][2] = 1
        BY <1>1, <2>3, <3>2
      <4>3. /\ \A j \in 1..Len(s) : s[j][1] \in pair[2] => j = 1
            /\ \A j \in 1..Len(s) : s[j][1] \in pair[1] => 1 < j
        BY <1>2, <1>3, <1>6, <3>1
      <4> QED BY <1>1, <1>5, <2>0, <4>1, <4>2, <4>3, FirstThen
    <3>3. CASE o # op
      BY <1>1, <1>5, <3>1, <3>3, NothingOf DEF Has
    <3> QED BY <3>2, <3>3
  <2>4. ASSUME pair[1] = LookupCounters \ {<<"lookup", "l1_hit">>}, pair[2] = {<<"l1Misses">>}
        PROVE  Ordered(s, pair) /\ Owed(s, pair) = 0
    <3>1. \A i \in 1..Len(s) : s[i][1] \notin pair[1] /\ s[i][1] \notin pair[2]
      <4>1. /\ \A c \in pair[1] : c[1] = "lookup"
            /\ \A c \in pair[2] : c[1] = "l1Misses"
        BY <2>4, LookupNames
      <4> QED BY <1>6, <4>1
    <3> QED BY <1>1, <1>5, <3>1, NothingOf DEF Has
  <2> QED BY <2>1, <2>2, <2>3, <2>4, PairIs
<1> QED BY <1>1, <1>5, <1>7 DEF Sound

(* Lists of one addition to a counter that is the second of no pair. *)
LEMMA SingleSound ==
  ASSUME NEW a \in Addition,
         \A pair \in Pairs : a[1] \notin pair[1] /\ a[1] \notin pair[2]
  PROVE  Sound(<<a>>)
<1> DEFINE s == <<a>>
<1>1. s \in Seq(Addition) /\ Len(s) = 1 /\ s[1] = a
  OBVIOUS
<1> HIDE DEF s
<1>2. Once(s) /\ \A i \in 1..Len(s) : s[i] = a
  BY <1>1 DEF Once
<1>3. \A pair \in Pairs : ~Has(s, pair[1]) /\ ~Has(s, pair[2])
  BY <1>2 DEF Has
<1>4. Sound(s)
  BY <1>1, <1>2, <1>3, NothingOf DEF Sound
<1> QED BY <1>4 DEF s

LEMMA EmptySound == Sound(<<>>)
<1>1. <<>> \in Seq(Addition) /\ Once(<<>>) /\ \A A : ~Has(<<>>, A)
  BY DEF Once, Has
<1> QED BY <1>1, NothingOf DEF Sound

LEMMA SmallSound ==
  /\ Sound(Fail) /\ Sound(Success) /\ Sound(<<<<<<"attempts">>, 1>>>>)
  /\ \A n \in Nat : Sound(<<<<<<"lookup", "l1_hit">>, n>>>>)
<1>1. ASSUME NEW k \in {"failures", "successes", "attempts"}, NEW pair \in Pairs
      PROVE  <<k>> \notin pair[1] /\ <<k>> \notin pair[2]
  <2>1. <<k>>[1] = k
    OBVIOUS
  <2> QED BY <2>1, PairsAre
<1>2. ASSUME NEW pair \in Pairs
      PROVE  <<"lookup", "l1_hit">> \notin pair[1] /\ <<"lookup", "l1_hit">> \notin pair[2]
  <2>1. <<"lookup", "l1_hit">>[1] = "lookup"
    OBVIOUS
  <2>2. <<"lookup", "l1_hit">> \notin pair[2]
    BY <2>1, PairsAre
  <2>3. CASE pair[1] = LookupCounters \ {<<"lookup", "l1_hit">>}
    BY <2>2, <2>3
  <2>4. ASSUME NEW o \in Operation,
               pair[1] = Errors(o) \/ pair[1] = Buckets(o) \/ pair[1] = {<<"batchCalls", o>>}
        PROVE  <<"lookup", "l1_hit">> \notin pair[1]
    <3>1. \A c \in pair[1] : c[1] \in {"errors", "latencyBuckets", "batchCalls"}
      <4>1. (\A c \in Errors(o) : c[1] = "errors") /\ \A c \in Buckets(o) : c[1] = "latencyBuckets"
        BY ErrorNames, BucketNames
      <4>2. <<"batchCalls", o>>[1] = "batchCalls"
        OBVIOUS
      <4> QED BY <2>4, <4>1, <4>2
    <3> QED BY <2>1, <3>1
  <2> QED BY <2>2, <2>3, <2>4, PairIs
<1>3. ASSUME NEW k \in {"failures", "successes", "attempts"} PROVE Sound(<<<<<<k>>, 1>>>>)
  <2>1. <<<<k>>, 1>> \in Addition /\ <<<<k>>, 1>>[1] = <<k>>
    BY Counters DEF Addition
  <2> QED BY <1>1, <2>1, SingleSound
<1>4. ASSUME NEW n \in Nat PROVE Sound(<<<<<<"lookup", "l1_hit">>, n>>>>)
  <2>1. /\ <<<<"lookup", "l1_hit">>, n>> \in Addition
        /\ <<<<"lookup", "l1_hit">>, n>>[1] = <<"lookup", "l1_hit">>
    BY Counters DEF Addition
  <2> QED BY <1>2, <2>1, SingleSound
<1> QED BY <1>3, <1>4 DEF Fail, Success

(* What is added for a lookup: misses of L1 first, then some of the results. *)
LookupList(s, used, misses, l2, missed) ==
    /\ s \in Seq(Addition) /\ Len(s) # 0 /\ Once(s)
    /\ s[1][1] = <<"l1Misses">> /\ s[1][2] = misses
    /\ \A i \in 2..Len(s) : s[i][1] \in used
    /\ \A i \in 2..Len(s) : s[i][1] = <<"lookup", "l2_hit">> => s[i][2] = l2
    /\ \A i \in 2..Len(s) : s[i][1] = <<"lookup", "miss">> => s[i][2] = missed

LEMMA LookupListGrows ==
  ASSUME NEW s, NEW used \in SUBSET LookupCounters, NEW misses \in Nat, NEW l2 \in Nat, NEW missed \in Nat,
         LookupList(s, used, misses, l2, missed),
         NEW c \in LookupCounters \ used, NEW n \in Nat,
         c = <<"lookup", "l2_hit">> => n = l2, c = <<"lookup", "miss">> => n = missed
  PROVE  LookupList(s \o Adding(c, n), used \cup {c}, misses, l2, missed)
<1> DEFINE t == s \o Adding(c, n)
<1>0. /\ s \in Seq(Addition) /\ Len(s) # 0 /\ Len(s) \in Nat /\ Once(s)
      /\ s[1][1] = <<"l1Misses">> /\ s[1][2] = misses
      /\ \A i \in 2..Len(s) : s[i][1] \in used
      /\ \A i \in 2..Len(s) : s[i][1] = <<"lookup", "l2_hit">> => s[i][2] = l2
      /\ \A i \in 2..Len(s) : s[i][1] = <<"lookup", "miss">> => s[i][2] = missed
  BY DEF LookupList
<1>1. c \in Counter /\ c # <<"l1Misses">>
  <2>1. c[1] = "lookup" /\ <<"l1Misses">>[1] = "l1Misses"
    BY LookupNames
  <2> QED BY <2>1, LookupNames
<1>2. CASE n = 0
  <2>1. t = s
    BY <1>0, <1>2 DEF Adding
  <2> QED BY <1>0, <2>1 DEF LookupList
<1>3. CASE n # 0
  <2>1. /\ Adding(c, n) = <<<<c, n>>>> /\ <<c, n>> \in Addition /\ <<<<c, n>>>> \in Seq(Addition)
        /\ Len(<<<<c, n>>>>) = 1 /\ <<<<c, n>>>>[1] = <<c, n>>
    BY <1>1, <1>3 DEF Adding, Addition
  <2>2. /\ t \in Seq(Addition) /\ Len(t) = Len(s) + 1
        /\ \A i \in 1..Len(s) : t[i] = s[i]
        /\ t[Len(s) + 1] = <<c, n>>
    <3> DEFINE u == <<<<c, n>>>>
    <3>1. t = s \o u /\ u \in Seq(Addition) /\ Len(u) = 1 /\ u[1] = <<c, n>>
      BY <2>1
    <3> HIDE DEF u, t
    <3>2. /\ t \in Seq(Addition) /\ Len(t) = Len(s) + 1
          /\ \A i \in 1 .. Len(s) + 1 : t[i] = IF i <= Len(s) THEN s[i] ELSE u[i - Len(s)]
      <4>1. s \o u \in Seq(Addition) /\ Len(s \o u) = Len(s) + Len(u)
        BY <1>0, <3>1, ConcatProperties
      <4>2. \A i \in 1..Len(s) + Len(u) : (s \o u)[i] = IF i <= Len(s) THEN s[i] ELSE u[i - Len(s)]
        BY <1>0, <3>1, ConcatProperties
      <4> QED BY <3>1, <4>1, <4>2
    <3>3. \A i \in 1..Len(s) : t[i] = s[i]
      BY <1>0, <3>2
    <3>4. t[Len(s) + 1] = u[1]
      BY <1>0, <3>2
    <3> QED BY <3>1, <3>2, <3>3, <3>4
  <2> HIDE DEF t
  <2>3. \A i \in 1..Len(t) : i \in 1..Len(s) \/ i = Len(s) + 1
    BY <1>0, <2>2
  <2>4. \A i \in 1..Len(s) : i = 1 \/ i \in 2..Len(s)
    BY <1>0
  <2>5. \A i \in 1..Len(s) : s[i][1] # c
    BY <1>0, <1>1, <2>4
  <2>6. /\ t[Len(s) + 1][1] = c /\ t[Len(s) + 1][2] = n
    BY <2>2
  <2>7. Once(t)
    <3> SUFFICES ASSUME NEW i \in 1..Len(t), NEW j \in 1..Len(t), t[i][1] = t[j][1] PROVE i = j
      BY DEF Once
    <3>1. CASE i \in 1..Len(s) /\ j \in 1..Len(s)
      BY <1>0, <2>2, <3>1 DEF Once
    <3>2. CASE i = Len(s) + 1 \/ j = Len(s) + 1
      BY <2>2, <2>3, <2>5, <2>6, <3>2
    <3> QED BY <2>3, <3>1, <3>2
  <2>8. t[1] = s[1] /\ Len(t) # 0 /\ 1 \in 1..Len(s)
    BY <1>0, <2>2
  <2>9. ASSUME NEW i \in 2..Len(t)
        PROVE  /\ t[i][1] \in used \cup {c}
               /\ t[i][1] = <<"lookup", "l2_hit">> => t[i][2] = l2
               /\ t[i][1] = <<"lookup", "miss">> => t[i][2] = missed
    <3>1. CASE i \in 2..Len(s)
      <4>1. t[i] = s[i]
        BY <2>2, <3>1
      <4> QED BY <1>0, <3>1, <4>1
    <3>2. CASE i = Len(s) + 1
      BY <2>6, <3>2
    <3> QED BY <1>0, <2>2, <3>1, <3>2
  <2>10. LookupList(t, used \cup {c}, misses, l2, missed)
    BY <1>0, <2>2, <2>7, <2>8, <2>9 DEF LookupList
  <2> QED BY <2>10 DEF t
<1> QED BY <1>2, <1>3

LEMMA OutcomeList ==
  ASSUME NEW c \in [op : Lookups, hits : Nat, misses : Nat],
         NEW l1 \in Nat, NEW l2 \in Nat, NEW missed \in Nat
  PROVE  LookupList(Outcome(c, l1, l2, missed), LookupCounters, c.misses, l2, missed)
<1> DEFINE a == <<"lookup", "l1_hit">>
           b == <<"lookup", "l2_hit">>
           d == <<"lookup", "miss">>
           s == <<<<<<"l1Misses">>, c.misses>>>>
           t == s \o Adding(a, c.hits + l1)
           u == t \o Adding(b, l2)
           v == u \o Adding(d, missed)
<1>1. v = Outcome(c, l1, l2, missed)
  BY DEF Outcome
<1>2. c.misses \in Nat /\ c.hits + l1 \in Nat
  OBVIOUS
<1>3. LookupCounters = {a, b, d} /\ a # b /\ a # d /\ b # d
  <2>1. LookupCounters = {a, b, d}
    BY DEF LookupCounters
  <2>2. a[2] = "l1_hit" /\ b[2] = "l2_hit" /\ d[2] = "miss"
    OBVIOUS
  <2> QED BY <2>1, <2>2
<1>4. LookupList(s, {}, c.misses, l2, missed)
  <2>1. <<<<"l1Misses">>, c.misses>> \in Addition
    BY <1>2, Counters DEF Addition
  <2>2. s \in Seq(Addition) /\ Len(s) = 1 /\ s[1] = <<<<"l1Misses">>, c.misses>>
    BY <2>1
  <2> HIDE DEF s
  <2>3. s[1][1] = <<"l1Misses">> /\ s[1][2] = c.misses
    BY <2>2
  <2>4. Once(s)
    BY <2>2 DEF Once
  <2> QED BY <2>2, <2>3, <2>4 DEF LookupList
<1>5. b = <<"lookup", "l2_hit">> /\ d = <<"lookup", "miss">>
  OBVIOUS
<1>6. t = s \o Adding(a, c.hits + l1) /\ u = t \o Adding(b, l2) /\ v = u \o Adding(d, missed)
  OBVIOUS
<1> HIDE DEF a, b, d, s, t, u, v
<1>7. LookupList(t, {} \cup {a}, c.misses, l2, missed)
  BY <1>2, <1>3, <1>4, <1>5, <1>6, LookupListGrows
<1>8. {} \cup {a} = {a} /\ {a} \cup {b} = {a, b} /\ {a, b} \cup {d} = {a, b, d}
  OBVIOUS
<1>9. LookupList(u, {a} \cup {b}, c.misses, l2, missed)
  <2>1. /\ {a} \in SUBSET LookupCounters /\ b \in LookupCounters \ {a}
        /\ b = <<"lookup", "miss">> => l2 = missed
    BY <1>3, <1>5
  <2>2. LookupList(t, {a}, c.misses, l2, missed)
    BY <1>7, <1>8
  <2> QED BY <1>2, <1>6, <2>1, <2>2, LookupListGrows
<1>10. LookupList(v, {a, b} \cup {d}, c.misses, l2, missed)
  <2>1. /\ {a, b} \in SUBSET LookupCounters /\ d \in LookupCounters \ {a, b}
        /\ d = <<"lookup", "l2_hit">> => missed = l2
    BY <1>3, <1>5
  <2>2. LookupList(u, {a, b}, c.misses, l2, missed)
    BY <1>8, <1>9
  <2> QED BY <1>2, <1>6, <2>1, <2>2, LookupListGrows
<1> QED BY <1>1, <1>3, <1>8, <1>10

(* What Redis answers and what is missing is no more than what L1 missed. *)
LEMMA OutcomeSound ==
  ASSUME NEW c \in [op : Lookups, hits : Nat, misses : Nat],
         NEW l1 \in Nat, NEW l2 \in Nat, NEW missed \in Nat, l2 + missed <= c.misses
  PROVE  Sound(Outcome(c, l1, l2, missed))
<1> DEFINE s == Outcome(c, l1, l2, missed)
           b == <<"lookup", "l2_hit">>
           d == <<"lookup", "miss">>
<1>1. LookupList(s, LookupCounters, c.misses, l2, missed)
  BY OutcomeList
<1> HIDE DEF s
<1>2. /\ s \in Seq(Addition) /\ Len(s) # 0 /\ Len(s) \in Nat /\ Once(s)
      /\ s[1][1] = <<"l1Misses">> /\ s[1][2] = c.misses
      /\ \A i \in 2..Len(s) : s[i][1] \in LookupCounters
      /\ \A i \in 2..Len(s) : s[i][1] = b => s[i][2] = l2
      /\ \A i \in 2..Len(s) : s[i][1] = d => s[i][2] = missed
  BY <1>1 DEF LookupList
<1>3. 1 \in 1..Len(s) /\ \A i \in 1..Len(s) : i = 1 \/ i \in 2..Len(s)
  BY <1>2
<1>4. \A i \in 2..Len(s) : s[i][1][1] = "lookup"
  BY <1>2, LookupNames
<1>5. s[1][1][1] = "l1Misses"
  <2>1. <<"l1Misses">>[1] = "l1Misses"
    OBVIOUS
  <2> QED BY <1>2, <2>1
<1>6. \A i \in 1..Len(s) : s[i][1][1] \in {"lookup", "l1Misses"} /\ (s[i][1][1] = "l1Misses" => i = 1)
  BY <1>3, <1>4, <1>5
<1>7. ASSUME NEW pair \in Pairs PROVE Ordered(s, pair) /\ Owed(s, pair) = 0
  <2>1. ASSUME NEW o \in Operation,
               \/ pair[1] = Errors(o) /\ pair[2] = Buckets(o)
               \/ pair[1] = Buckets(o) /\ pair[2] = {Calls(o)}
               \/ pair[1] = {<<"batchCalls", o>>} /\ pair[2] = {Calls(o)}
        PROVE  Ordered(s, pair) /\ Owed(s, pair) = 0
    <3>1. /\ \A x \in pair[1] : x[1] \in {"errors", "latencyBuckets", "batchCalls"}
          /\ \A x \in pair[2] : x[1] \in {"latencyBuckets", "calls"}
      <4>1. /\ \A x \in Errors(o) : x[1] = "errors"
            /\ \A x \in Buckets(o) : x[1] = "latencyBuckets"
            /\ Calls(o)[1] = "calls"
        BY ErrorNames, BucketNames, CallNames
      <4>2. <<"batchCalls", o>>[1] = "batchCalls"
        OBVIOUS
      <4> QED BY <2>1, <4>1, <4>2
    <3>2. ~Has(s, pair[1]) /\ ~Has(s, pair[2])
      BY <1>6, <3>1 DEF Has
    <3> QED BY <1>2, <3>2, NothingOf
  <2>2. ASSUME pair[1] = LookupCounters \ {<<"lookup", "l1_hit">>}, pair[2] = {<<"l1Misses">>}
        PROVE  Ordered(s, pair) /\ Owed(s, pair) = 0
    <3>1. pair[1] = {b, d} /\ b # d
      <4>1. LookupCounters = {<<"lookup", "l1_hit">>, b, d}
        BY DEF LookupCounters
      <4>2. <<"lookup", "l1_hit">>[2] = "l1_hit" /\ b[2] = "l2_hit" /\ d[2] = "miss"
        OBVIOUS
      <4> QED BY <2>2, <4>1, <4>2
    <3>2. b[1] = "lookup" /\ d[1] = "lookup"
      OBVIOUS
    <3> HIDE DEF b, d
    <3>3. Due(s, b) <= l2 /\ Due(s, b) \in Nat
      <4>1. CASE \E i \in 1..Len(s) : s[i][1] = b
        <5>1. PICK i \in 1..Len(s) : s[i][1] = b
          BY <4>1
        <5>2. i \in 2..Len(s)
          BY <1>3, <1>5, <3>2, <5>1
        <5> QED BY <1>2, <5>1, <5>2, DueIs
      <4>2. CASE \A i \in 1..Len(s) : s[i][1] # b
        <5>1. Due(s, b) = 0
          BY <1>2, <4>2, DueIs
        <5> QED BY <5>1
      <4> QED BY <4>1, <4>2
    <3>4. Due(s, d) <= missed /\ Due(s, d) \in Nat
      <4>1. CASE \E i \in 1..Len(s) : s[i][1] = d
        <5>1. PICK i \in 1..Len(s) : s[i][1] = d
          BY <4>1
        <5>2. i \in 2..Len(s)
          BY <1>3, <1>5, <3>2, <5>1
        <5> QED BY <1>2, <5>1, <5>2, DueIs
      <4>2. CASE \A i \in 1..Len(s) : s[i][1] # d
        <5>1. Due(s, d) = 0
          BY <1>2, <4>2, DueIs
        <5> QED BY <5>1
      <4> QED BY <4>1, <4>2
    <3>5. DueOf(s, pair[1]) <= s[1][2]
      <4> DEFINE f == [x \in {b, d} |-> Due(s, x)]
      <4>1. f \in [{b, d} -> Int] /\ f[b] = Due(s, b) /\ f[d] = Due(s, d)
        BY <3>3, <3>4, <3>1
      <4>2. DueOf(s, pair[1]) = SumFunction(f)
        BY <3>1 DEF DueOf
      <4> HIDE DEF f
      <4>3. SumFunction(f) = f[b] + f[d]
        BY <3>1, <4>1, SumPair
      <4>4. c.misses \in Nat
        OBVIOUS
      <4> QED BY <1>2, <3>3, <3>4, <4>1, <4>2, <4>3, <4>4
    <3>6. s[1][1] \in pair[2] /\ \A j \in 1..Len(s) : s[j][1] \in pair[2] => j = 1
      BY <1>2, <1>6, <1>5, <2>2
    <3>7. \A j \in 1..Len(s) : s[j][1] \in pair[1] => 1 < j
      BY <1>3, <1>5, <3>1, <3>2
    <3> QED BY <1>2, <1>3, <3>5, <3>6, <3>7, FirstThen
  <2> QED BY <2>1, <2>2, PairIs
<1>8. Sound(s)
  BY <1>2, <1>7 DEF Sound
<1> QED BY <1>8 DEF s

(* What has been counted, and what those who have added to the second of a pair *)
(* still have to add to the first.                                             *)
Total(counters) == SumFunction([c \in counters |-> count[c]])

OwedTo(pair) == SumFunction([p \in Proc |-> Owed(todo[p], pair)])

ListsOK == \A p \in Proc : Once(todo[p]) /\ \A pair \in Pairs : Ordered(todo[p], pair)

CountedInOrder == \A pair \in Pairs : Total(pair[1]) + OwedTo(pair) <= Total(pair[2])

CountInv == ListsOK /\ CountedInOrder

Paired == UNION {pair[1] \cup pair[2] : pair \in Pairs}

(* The counters of a pair only grow. *)
Grows == \A c \in Paired : count[c] <= count'[c]

LEMMA PairedIs ==
  /\ \A pair \in Pairs : pair[1] \subseteq Paired /\ pair[2] \subseteq Paired
  /\ Paired \subseteq Counter /\ <<"degraded">> \notin Paired /\ <<"transitions">> \notin Paired
<1>1. \A pair \in Pairs : pair[1] \subseteq Paired /\ pair[2] \subseteq Paired
  BY DEF Paired
<1>2. ASSUME NEW c \in Paired
      PROVE  c \in Counter /\ c[1] \in {"errors", "latencyBuckets", "batchCalls", "lookup", "calls", "l1Misses"}
  <2>1. PICK pair \in Pairs : c \in pair[1] \/ c \in pair[2]
    BY DEF Paired
  <2>2. CASE c \in pair[1]
    BY <2>2, PairsAre
  <2>3. CASE c \in pair[2]
    BY <2>3, PairsAre
  <2> QED BY <2>1, <2>2, <2>3
<1>3. <<"degraded">>[1] = "degraded" /\ <<"transitions">>[1] = "transitions"
  OBVIOUS
<1> QED BY <1>1, <1>2, <1>3

LEMMA ProcFinite == IsFiniteSet(Proc)
<1>1. IsFiniteSet({"subscriber"} \cup {"recovery"})
  BY FS_Singleton, FS_AddElement
<1>2. Proc = Goroutine \cup ({"subscriber"} \cup {"recovery"})
  BY DEF Proc
<1> QED BY <1>1, <1>2, ObservabilityAssumption, FS_Union

LEMMA CountTypes ==
  ASSUME WritersOK, ListsOK, NEW pair \in Pairs
  PROVE  /\ [c \in pair[1] |-> count[c]] \in [pair[1] -> Nat]
         /\ [c \in pair[2] |-> count[c]] \in [pair[2] -> Nat]
         /\ [p \in Proc |-> Owed(todo[p], pair)] \in [Proc -> Nat]
         /\ Total(pair[1]) \in Nat /\ Total(pair[2]) \in Nat /\ OwedTo(pair) \in Nat
<1>1. /\ pair[1] \subseteq Counter /\ pair[2] \subseteq Counter
      /\ IsFiniteSet(pair[1]) /\ IsFiniteSet(pair[2])
  BY PairsAre
<1>2. count \in [Counter -> Nat]
  BY DEF WritersOK
<1>3. [c \in pair[1] |-> count[c]] \in [pair[1] -> Nat]
  BY <1>1, <1>2
<1>4. [c \in pair[2] |-> count[c]] \in [pair[2] -> Nat]
  BY <1>1, <1>2
<1>5. [p \in Proc |-> Owed(todo[p], pair)] \in [Proc -> Nat]
  <2>1. ASSUME NEW p \in Proc PROVE Owed(todo[p], pair) \in Nat
    <3>1. todo[p] \in Seq(Addition) /\ Once(todo[p])
      BY DEF WritersOK, ListsOK, Addition
    <3>2. DueOf(todo[p], pair[1]) \in Nat
      BY <1>1, <3>1, DueSum
    <3> QED BY <3>2 DEF Owed
  <2> QED BY <2>1
<1>6. Total(pair[1]) \in Nat
  BY <1>1, <1>3, SumNat DEF Total
<1>7. Total(pair[2]) \in Nat
  BY <1>1, <1>4, SumNat DEF Total
<1>8. OwedTo(pair) \in Nat
  BY <1>5, ProcFinite, SumNat DEF OwedTo
<1> QED BY <1>3, <1>4, <1>5, <1>6, <1>7, <1>8

(* Nothing that is paired is counted, and nobody's list changes but to a sound one. *)
LEMMA NothingCounted ==
  ASSUME WritersOK, CountInv, \A c \in Paired : count'[c] = count[c],
         \A p \in Proc : todo'[p] = todo[p] \/ (todo[p] = <<>> /\ Sound(todo'[p]))
  PROVE  CountInv' /\ Grows
<1>1. ListsOK'
  BY DEF CountInv, ListsOK, Sound
<1>2. ASSUME NEW pair \in Pairs PROVE (Total(pair[1]) + OwedTo(pair) <= Total(pair[2]))'
  <2>1. Total(pair[1])' = Total(pair[1])
    <3>1. [c \in pair[1] |-> count'[c]] = [c \in pair[1] |-> count[c]]
      BY PairedIs
    <3> QED BY <3>1 DEF Total
  <2>2. Total(pair[2])' = Total(pair[2])
    <3>1. [c \in pair[2] |-> count'[c]] = [c \in pair[2] |-> count[c]]
      BY PairedIs
    <3> QED BY <3>1 DEF Total
  <2>3. OwedTo(pair)' = OwedTo(pair)
    <3>1. ASSUME NEW p \in Proc PROVE Owed(todo'[p], pair) = Owed(todo[p], pair)
      <4>1. Owed(<<>>, pair) = 0
        BY EmptySound DEF Sound
      <4> QED BY <4>1 DEF Sound
    <3>2. [p \in Proc |-> Owed(todo'[p], pair)] = [p \in Proc |-> Owed(todo[p], pair)]
      BY <3>1
    <3> QED BY <3>2 DEF OwedTo
  <2> QED BY <2>1, <2>2, <2>3 DEF CountInv, CountedInOrder
<1>3. CountedInOrder'
  BY <1>2 DEF CountedInOrder
<1>4. Grows
  BY PairedIs DEF Grows, WritersOK
<1> QED BY <1>1, <1>3, <1>4 DEF CountInv

LEMMA AddCounts ==
  ASSUME WritersOK, CountInv, WritersOK', NEW p \in Proc, Add(p)
  PROVE  CountInv' /\ Grows
<1> DEFINE s == todo[p]
           x == s[1][1]
           n == s[1][2]
<1>1. /\ s \in Seq(Addition) /\ s # <<>> /\ Once(s) /\ \A pair \in Pairs : Ordered(s, pair)
      /\ todo \in [Proc -> Seq(Addition)] /\ count \in [Counter -> Nat]
  <2>1. todo \in [Proc -> Seq(Addition)] /\ count \in [Counter -> Nat]
    BY DEF WritersOK, Addition
  <2>2. s # <<>>
    BY DEF Add
  <2>3. Once(s) /\ \A pair \in Pairs : Ordered(s, pair)
    BY DEF CountInv, ListsOK
  <2> QED BY <2>1, <2>2, <2>3
<1>2. x \in Counter /\ n \in Nat /\ Head(s) = s[1]
  <2> HIDE DEF s
  <2>1. s[1][1] \in Counter /\ s[1][2] \in Nat /\ Head(s) = s[1]
    BY <1>1, TailIs
  <2> QED BY <2>1
<1>3. /\ \A c \in Counter : count'[c] = IF c = x THEN count[c] + n ELSE count[c]
      /\ \A q \in Proc : todo'[q] = IF q = p THEN Tail(s) ELSE todo[q]
  <2>1. count' = [count EXCEPT ![x] = count[x] + n]
    BY <1>1, <1>2 DEF Add
  <2>2. todo' = [todo EXCEPT ![p] = Tail(s)]
    BY DEF Add
  <2> HIDE DEF s, x, n
  <2> QED BY <1>1, <1>2, <2>1, <2>2
<1> HIDE DEF s, x, n
<1>4. Grows
  <2>1. ASSUME NEW c \in Paired PROVE count[c] <= count'[c]
    <3>1. c \in Counter
      BY PairedIs
    <3>2. count[c] \in Nat
      BY <1>1, <3>1
    <3> QED BY <1>2, <1>3, <3>1, <3>2
  <2> QED BY <2>1 DEF Grows
<1>5. ListsOK'
  <2>1. Once(Tail(s)) /\ \A pair \in Pairs : Ordered(Tail(s), pair)
    BY <1>1, OnceTail, OwedTail
  <2> QED BY <1>3, <2>1 DEF CountInv, ListsOK
<1>6. ASSUME NEW counters \in SUBSET Paired, IsFiniteSet(counters)
      PROVE  Total(counters)' = Total(counters) + (IF x \in counters THEN n ELSE 0)
  <2> DEFINE f == [c \in counters |-> count[c]]
             g == [c \in counters |-> count'[c]]
  <2>1. /\ f \in [counters -> Int] /\ g \in [counters -> Int]
        /\ \A c \in counters : f[c] = count[c] /\ f[c] \in Nat
                               /\ g[c] = IF c = x THEN count[c] + n ELSE count[c]
    BY <1>1, <1>2, <1>3, PairedIs
  <2>2. Total(counters) = SumFunction(f) /\ Total(counters)' = SumFunction(g)
    BY DEF Total
  <2> HIDE DEF f, g
  <2>3. CASE x \in counters
    <3>1. SumFunction(f) \in Int /\ SumFunction(g) = SumFunction(f) + g[x] - f[x]
      <4>1. \A y \in counters \ {x} : f[y] = g[y]
        BY <2>1
      <4> QED BY <1>6, <2>1, <2>3, <4>1, SumChange
    <3>2. g[x] = f[x] + n /\ f[x] \in Nat
      BY <2>1, <2>3
    <3> QED BY <1>2, <2>2, <2>3, <3>1, <3>2
  <2>4. CASE x \notin counters
    <3>1. f = g
      BY <2>1, <2>4
    <3>2. [c \in counters |-> count[c]] \in [counters -> Nat]
      BY <1>1, PairedIs
    <3>3. Total(counters) \in Nat
      BY <1>6, <3>2, SumNat DEF Total
    <3> QED BY <2>2, <2>4, <3>1, <3>3
  <2> QED BY <2>3, <2>4
<1>7. ASSUME NEW pair \in Pairs PROVE (Total(pair[1]) + OwedTo(pair) <= Total(pair[2]))'
  <2>1. /\ Total(pair[1])' = Total(pair[1]) + (IF x \in pair[1] THEN n ELSE 0)
        /\ Total(pair[2])' = Total(pair[2]) + (IF x \in pair[2] THEN n ELSE 0)
    BY <1>6, PairsAre, PairedIs
  <2> DEFINE f == [q \in Proc |-> Owed(todo[q], pair)]
             g == [q \in Proc |-> Owed(todo'[q], pair)]
             old == Owed(s, pair)
             new == Owed(Tail(s), pair)
  <2>2. /\ Total(pair[1]) \in Nat /\ Total(pair[2]) \in Nat /\ OwedTo(pair) \in Nat
        /\ f \in [Proc -> Nat]
    BY CountTypes DEF CountInv
  <2>3. /\ old \in Nat /\ new \in Nat
        /\ new + (IF x \in pair[1] THEN n ELSE 0) <= old + (IF x \in pair[2] THEN n ELSE 0)
    BY <1>1, OwedTail DEF x, n
  <2>4. /\ \A q \in Proc : f[q] = Owed(todo[q], pair) /\ g[q] = IF q = p THEN new ELSE f[q]
        /\ f[p] = old
    BY <1>3 DEF s
  <2>5. OwedTo(pair) = SumFunction(f) /\ OwedTo(pair)' = SumFunction(g)
    BY DEF OwedTo
  <2>6. g \in [Proc -> Int] /\ f \in [Proc -> Int]
    <3>1. DOMAIN g = Proc /\ g = [q \in Proc |-> g[q]]
      OBVIOUS
    <3> HIDE DEF f, g
    <3> QED BY <2>2, <2>3, <2>4, <3>1
  <2> HIDE DEF f, g, old, new
  <2>7. SumFunction(g) = SumFunction(f) + g[p] - f[p]
    BY <2>4, <2>6, ProcFinite, SumChange
  <2>8. OwedTo(pair)' = OwedTo(pair) + new - old
    BY <2>4, <2>5, <2>7
  <2>9. Total(pair[1]) + OwedTo(pair) <= Total(pair[2])
    BY DEF CountInv, CountedInOrder
  <2> QED BY <1>2, <2>1, <2>2, <2>3, <2>8, <2>9
<1>8. CountedInOrder'
  BY <1>7 DEF CountedInOrder
<1> QED BY <1>4, <1>5, <1>8 DEF CountInv

LEMMA GoesCounts ==
  ASSUME WritersOK, CountInv, NEW p \in Proc, NEW at, NEW s, todo[p] = <<>>, Sound(s), Goes(p, at, s)
  PROVE  CountInv' /\ Grows
<1>1. count' = count /\ todo' = [todo EXCEPT ![p] = s] /\ todo \in [Proc -> Seq(Addition)]
  BY DEF Goes, WritersOK, Addition
<1>2. \A q \in Proc : todo'[q] = todo[q] \/ (todo[q] = <<>> /\ Sound(todo'[q]))
  BY <1>1
<1> QED BY <1>1, <1>2, NothingCounted

LEMMA LookupCounts ==
  ASSUME WritersOK, CountInv, NEW g \in Goroutine, Lookup(g)
  PROVE  CountInv' /\ Grows
<1> DEFINE Call == [op : Lookups, hits : Nat, misses : Nat]
<1>0. g \in Proc /\ call[g] \in Call /\ Lookups \subseteq Operation
  BY DEF Proc, WritersOK, Operation
<1>1. CASE Begin(g)
  <2>1. PICK at : Goes(g, at, <<>>)
    BY <1>1 DEF Begin
  <2> QED BY <1>0, <1>1, <2>1, EmptySound, GoesCounts DEF Begin, At
<1>2. CASE CountHit(g)
  <2>1. Sound(<<<<<<"lookup", "l1_hit">>, call[g].hits>>>>)
    BY <1>0, SmallSound
  <2> QED BY <1>0, <1>2, <2>1, GoesCounts DEF CountHit, At
<1>3. CASE AskL2(g)
  <2>1. PICK b \in Bucket, class \in ErrorClass \cup {"none"}, items \in 1..call[g].misses :
            Goes(g, IF class = "none" THEN "answered" ELSE "failed",
                 ObserveL2(call[g].op, b, class) \o ObserveBatch(call[g].op, items))
    BY <1>3 DEF AskL2
  <2>2. call[g].op \in Operation /\ items \in Nat
    BY <1>0
  <2>3. Sound(ObserveL2(call[g].op, b, class) \o ObserveBatch(call[g].op, items))
    BY <2>2, SampleLists, SampleSound
  <2> QED BY <1>0, <1>3, <2>1, <2>3, GoesCounts DEF AskL2, At
<1>4. CASE Leave(g)
  BY <1>0, <1>4, EmptySound, GoesCounts DEF Leave, At
<1>5. CASE CountLookup(g)
  <2>1. PICK l1 \in 0..call[g].misses, l2 \in 0..call[g].misses :
            /\ l1 + l2 <= call[g].misses
            /\ Goes(g, "locked", Outcome(call[g], l1, l2, call[g].misses - l1 - l2))
    BY <1>5 DEF CountLookup
  <2>2. call[g].misses \in Nat
    BY <1>0
  <2>3. /\ l1 \in Nat /\ l2 \in Nat /\ call[g].misses - l1 - l2 \in Nat
        /\ l2 + (call[g].misses - l1 - l2) <= call[g].misses
    BY <2>1, <2>2
  <2>4. Sound(Outcome(call[g], l1, l2, call[g].misses - l1 - l2))
    BY <1>0, <2>3, OutcomeSound
  <2> QED BY <1>0, <1>5, <2>1, <2>4, GoesCounts DEF CountLookup, At
<1>6. CASE LookupFails(g)
  BY <1>0, <1>6, EmptySound, GoesCounts DEF LookupFails, At
<1> QED BY <1>1, <1>2, <1>3, <1>4, <1>5, <1>6 DEF Lookup

LEMMA TransitionCounts ==
  ASSUME WritersOK, CountInv, NEW p \in Proc, Transition(p)
  PROVE  CountInv' /\ Grows
<1>1. CASE Degrade(p)
  <2>1. PICK at : Goes(p, at, <<>>)
    BY <1>1 DEF Degrade
  <2> QED BY <1>1, <2>1, EmptySound, GoesCounts DEF Degrade, At
<1>2. CASE SetDegraded(p)
  BY <1>2, NothingCounted, PairedIs DEF SetDegraded, WritersOK
<1>3. CASE CountTransition(p)
  BY <1>3, NothingCounted, PairedIs DEF CountTransition, WritersOK
<1> QED BY <1>1, <1>2, <1>3 DEF Transition

LEMMA RecoveryCounts ==
  ASSUME WritersOK, CountInv, SubscriberFails \/ Recovery
  PROVE  CountInv' /\ Grows
<1>0. "recovery" \in Proc /\ "subscriber" \in Proc /\ "recoveryProbe" \in Operation
  BY DEF Proc, Operation
<1>1. CASE SubscriberFails
  BY <1>0, <1>1, EmptySound, GoesCounts DEF SubscriberFails, At
<1>2. ASSUME NEW at, NEW s, todo["recovery"] = <<>>, Goes("recovery", at, s), s \in {<<>>, Fail}
      PROVE  CountInv' /\ Grows
  BY <1>0, <1>2, EmptySound, SmallSound, GoesCounts
<1>3. CASE Attempt
  BY <1>0, <1>3, SmallSound, GoesCounts DEF Attempt, At
<1>4. CASE Probe
  <2>1. PICK b \in Bucket, class \in ErrorClass \cup {"none"} :
           IF class = "none" THEN Goes("recovery", "publishing", ObserveL2("recoveryProbe", b, class))
           ELSE Goes("recovery", "counting", ObserveL2("recoveryProbe", b, class) \o Fail)
    BY <1>4 DEF Probe
  <2>2. Sample(ObserveL2("recoveryProbe", b, class), "recoveryProbe")
        /\ Sample(ObserveL2("recoveryProbe", b, class) \o Fail, "recoveryProbe")
    <3>1. 0 \in Nat
      OBVIOUS
    <3> QED BY <1>0, <3>1, SampleLists
  <2>3. Sound(ObserveL2("recoveryProbe", b, class)) /\ Sound(ObserveL2("recoveryProbe", b, class) \o Fail)
    BY <1>0, <2>2, SampleSound
  <2>4. todo["recovery"] = <<>>
    BY <1>4 DEF Probe, At
  <2> QED BY <1>0, <2>1, <2>3, <2>4, GoesCounts
<1>5. CASE Republish \/ CheckEpoch \/ FlushL1 \/ EnterHealthy
  <2>1. todo["recovery"] = <<>>
    BY <1>5 DEF Republish, CheckEpoch, FlushL1, EnterHealthy, At
  <2>2. \E at : Goes("recovery", at, <<>>) \/ Goes("recovery", at, Fail)
    BY <1>5 DEF Republish, CheckEpoch, FlushL1, EnterHealthy, Fails
  <2> QED BY <1>2, <2>1, <2>2
<1>6. CASE ClearDegraded
  <2>1. /\ count' = [count EXCEPT ![<<"degraded">>] = 0] /\ todo' = [todo EXCEPT !["recovery"] = Success]
        /\ todo["recovery"] = <<>> /\ count \in [Counter -> Nat] /\ todo \in [Proc -> Seq(Addition)]
    BY <1>6 DEF ClearDegraded, At, WritersOK, Addition
  <2>2. \A c \in Paired : count'[c] = count[c]
    BY <2>1, PairedIs
  <2>3. \A q \in Proc : todo'[q] = todo[q] \/ (todo[q] = <<>> /\ Sound(todo'[q]))
    BY <2>1, SmallSound
  <2> QED BY <2>2, <2>3, NothingCounted
<1> QED BY <1>1, <1>3, <1>4, <1>5, <1>6 DEF Recovery

LEMMA CountNext ==
  ASSUME WritersOK, WritersOK', CountInv, [Next]_vars
  PROVE  CountInv' /\ Grows
<1>1. CASE UNCHANGED <<count, todo>>
  <2>1. /\ \A c \in Paired : count'[c] = count[c]
        /\ \A p \in Proc : todo'[p] = todo[p]
    BY <1>1
  <2> QED BY <2>1, NothingCounted
<1>2. CASE Load
  BY <1>1, <1>2 DEF Load, metricVars
<1>3. CASE \E p \in Proc : Add(p) \/ Transition(p)
  BY <1>3, AddCounts, TransitionCounts
<1>4. CASE \E g \in Goroutine : Lookup(g)
  BY <1>4, LookupCounts
<1>5. CASE SubscriberFails \/ Recovery
  BY <1>5, RecoveryCounts
<1>6. CASE Evict \/ ReporterStep
  BY <1>1, <1>6 DEF Evict, ReporterStep, FlushAtTick, FlushAtStop, Report, Quiet, metricVars
<1>7. CASE \E c \in Closer : Close(c) \/ CloseReturn(c)
  BY <1>1, <1>7 DEF Close, CloseReturn, Quiet, metricVars
<1>8. CASE UNCHANGED vars
  BY <1>1, <1>8 DEF vars, metricVars
<1> QED BY <1>2, <1>3, <1>4, <1>5, <1>6, <1>7, <1>8 DEF Next

SeenOK == seen \in [Counter -> Nat \cup {Unread}]

(* What a scrape will have of a counter at least. *)
Value(c) == IF seen[c] = Unread THEN count[c] ELSE seen[c]

Values(counters) == SumFunction([c \in counters |-> Value(c)])

ReadBefore == \A c \in Paired : seen[c] = Unread \/ seen[c] <= count[c]

(* Once any of the second is read, the first is, and shows no more than it. *)
InOrder(pair) ==
    (\E c \in pair[2] : seen[c] # Unread) =>
        (\A c \in pair[1] : seen[c] # Unread) /\ Seen(pair[1]) <= Values(pair[2])

ScrapeInv == SeenOK /\ ReadBefore /\ \A pair \in Pairs : InOrder(pair)

(* The second of a pair is read when all of the first has been. *)
LEMMA LoadOrder ==
  ASSUME ~Complete, NEW i \in DOMAIN Reading, \A j \in 1..(i - 1) : Left(Reading[j]) = {},
         NEW c \in Left(Reading[i])
  PROVE  /\ c \in Counter
         /\ \A pair \in Pairs : c \in pair[2] => \A a \in pair[1] : seen[a] # Unread
<1>0. c \in Reading[i] /\ \A j \in 1..(i - 1) : \A a \in Reading[j] : seen[a] # Unread
  BY DEF Left
<1>1. CASE AllRead(ReadLookups)
  <2> DEFINE op == CHOOSE o \in Unfinished : TRUE
  <2>1. op \in Operation
    <3>1. Unfinished # {}
      BY <1>1 DEF Complete
    <3>2. op \in Unfinished
      BY <3>1
    <3> QED BY <3>2, ObservabilityAssumption DEF Unfinished, Operation
  <2>2. Reading = <<Errors(op), Buckets(op), Batches(op), {Calls(op)}>>
    BY <1>1 DEF Reading, ReadL2
  <2> HIDE DEF op
  <2>3. /\ i \in 1..4
        /\ i = 1 => c \in Errors(op)
        /\ i = 2 => c \in Buckets(op) /\ \A a \in Errors(op) : seen[a] # Unread
        /\ i = 3 => c \in Batches(op)
        /\ i = 4 => c = Calls(op) /\ \A a \in Buckets(op) \cup Batches(op) : seen[a] # Unread
    <3>1. /\ DOMAIN Reading = 1..4 /\ Reading[1] = Errors(op) /\ Reading[2] = Buckets(op)
          /\ Reading[3] = Batches(op) /\ Reading[4] = {Calls(op)}
      BY <2>2
    <3>2. CASE i = 1
      BY <1>0, <3>1, <3>2
    <3>3. CASE i = 2
      <4>1. 1 \in 1..(i - 1)
        BY <3>3
      <4> QED BY <1>0, <3>1, <3>3, <4>1
    <3>4. CASE i = 3
      BY <1>0, <3>1, <3>4
    <3>5. CASE i = 4
      <4>1. 2 \in 1..(i - 1) /\ 3 \in 1..(i - 1)
        BY <3>5
      <4> QED BY <1>0, <3>1, <3>5, <4>1
    <3> QED BY <3>1, <3>2, <3>3, <3>4, <3>5
  <2>4. /\ c \in Counter /\ c[2] = op
        /\ i = 1 => c[1] = "errors"
        /\ i = 2 => c[1] = "latencyBuckets"
        /\ i = 3 => c[1] \in {"batchCalls", "batchItems"}
        /\ i = 4 => c[1] = "calls"
    BY <2>1, <2>3, ErrorNames, BucketNames, BatchNames, CallNames
  <2>5. ASSUME NEW o \in Operation, c \in Buckets(o) PROVE \A a \in Errors(o) : seen[a] # Unread
    <3>1. c[1] = "latencyBuckets" /\ c[2] = o
      BY <2>5, BucketNames
    <3> QED BY <2>3, <2>4, <3>1
  <2>6. ASSUME NEW o \in Operation, c = Calls(o)
        PROVE  \A a \in Buckets(o) \cup {<<"batchCalls", o>>} : seen[a] # Unread
    <3>1. c[1] = "calls" /\ c[2] = o
      BY <2>6, CallNames
    <3>2. i = 4 /\ o = op
      BY <2>3, <2>4, <3>1
    <3>3. <<"batchCalls", op>> \in Batches(op)
      BY DEF Batches
    <3> QED BY <2>3, <3>2, <3>3
  <2>7. c # <<"l1Misses">>
    <3>1. <<"l1Misses">>[1] = "l1Misses"
      OBVIOUS
    <3> QED BY <2>3, <2>4, <3>1
  <2> QED BY <2>4, <2>5, <2>6, <2>7, PairIs
<1>2. CASE ~AllRead(ReadLookups)
  <2>1. Reading = <<LookupCounters, {<<"l1Misses">>}>>
    BY <1>2 DEF Reading, ReadLookups
  <2>2. DOMAIN Reading = 1..2 /\ Reading[1] = LookupCounters /\ Reading[2] = {<<"l1Misses">>}
    BY <2>1
  <2>3. CASE i = 1
    <3>1. c \in Counter /\ c[1] = "lookup"
      BY <1>0, <2>2, <2>3, LookupNames
    <3> QED BY <3>1, PairsAre
  <2>4. CASE i = 2
    <3>1. c = <<"l1Misses">> /\ c[1] = "l1Misses" /\ c \in Counter
      BY <1>0, <2>2, <2>4, Counters
    <3>2. 1 \in 1..(i - 1)
      BY <2>4
    <3>3. \A a \in LookupCounters : seen[a] # Unread
      BY <1>0, <2>2, <3>2
    <3>4. \A o \in Operation : c \notin Buckets(o) /\ c # Calls(o)
      BY <3>1, BucketNames, CallNames
    <3> QED BY <3>1, <3>3, <3>4, PairIs
  <2> QED BY <2>2, <2>3, <2>4
<1> QED BY <1>1, <1>2

LEMMA ScrapeTypes ==
  ASSUME WritersOK, SeenOK, NEW pair \in Pairs
  PROVE  /\ [c \in pair[1] |-> seen[c]] \in [pair[1] -> Int]
         /\ [c \in pair[1] |-> count[c]] \in [pair[1] -> Int]
         /\ [c \in pair[2] |-> count[c]] \in [pair[2] -> Int]
         /\ [c \in pair[2] |-> Value(c)] \in [pair[2] -> Int]
<1>1. pair[1] \subseteq Counter /\ pair[2] \subseteq Counter
  BY PairsAre
<1>2. \A c \in Counter : seen[c] \in Int /\ count[c] \in Int /\ Value(c) \in Int
  BY DEF SeenOK, WritersOK, Unread, Value
<1> QED BY <1>1, <1>2

(* Counting goes on during a scrape. *)
LEMMA CountingKeepsOrder ==
  ASSUME WritersOK, WritersOK', ScrapeInv, Grows, seen' = seen
  PROVE  ScrapeInv'
<1>1. SeenOK'
  BY DEF ScrapeInv, SeenOK
<1>2. ReadBefore'
  <2>1. ASSUME NEW c \in Paired, seen'[c] # Unread PROVE seen'[c] <= count'[c]
    <3>1. c \in Counter
      BY PairedIs
    <3>2. seen[c] \in Nat /\ count[c] \in Nat /\ count'[c] \in Nat
      BY <2>1, <3>1 DEF ScrapeInv, SeenOK, WritersOK
    <3>3. seen[c] <= count[c] /\ count[c] <= count'[c]
      BY <2>1 DEF ScrapeInv, ReadBefore, Grows
    <3> QED BY <3>2, <3>3
  <2> QED BY <2>1 DEF ReadBefore
<1>3. ASSUME NEW pair \in Pairs PROVE InOrder(pair)'
  <2> SUFFICES ASSUME \E c \in pair[2] : seen[c] # Unread
               PROVE  (\A c \in pair[1] : seen'[c] # Unread) /\ Seen(pair[1])' <= Values(pair[2])'
    BY DEF InOrder
  <2>1. (\A c \in pair[1] : seen[c] # Unread) /\ Seen(pair[1]) <= Values(pair[2])
    BY DEF ScrapeInv, InOrder
  <2>2. Seen(pair[1])' = Seen(pair[1])
    BY DEF Seen
  <2> DEFINE f == [c \in pair[2] |-> Value(c)]
             g == [c \in pair[2] |-> Value(c)']
  <2>3. f \in [pair[2] -> Int] /\ \A c \in pair[2] : f[c] = Value(c)
    BY ScrapeTypes DEF ScrapeInv
  <2>4. g \in [pair[2] -> Int] /\ \A c \in pair[2] : g[c] = Value(c)' /\ f[c] <= g[c]
    <3>1. ASSUME NEW c \in pair[2] PROVE Value(c)' \in Int /\ Value(c) <= Value(c)'
      <4>1. c \in Counter /\ count[c] <= count'[c]
        BY PairedIs DEF Grows
      <4>2. count[c] \in Nat /\ count'[c] \in Nat /\ seen[c] \in Int
        BY <4>1 DEF WritersOK, ScrapeInv, SeenOK, Unread
      <4> QED BY <4>1, <4>2 DEF Value
    <3> QED BY <2>3, <3>1
  <2>5. Values(pair[2]) = SumFunction(f) /\ Values(pair[2])' = SumFunction(g)
    BY DEF Values
  <2>6. IsFiniteSet(pair[1]) /\ IsFiniteSet(pair[2])
    BY PairsAre
  <2> HIDE DEF f, g
  <2>7. SumFunction(f) <= SumFunction(g)
    BY <2>3, <2>4, <2>6, SumAtMost
  <2>8. SumFunction(f) \in Int /\ SumFunction(g) \in Int
    BY <2>3, <2>4, <2>6, SumInt
  <2>9. Seen(pair[1]) \in Int
    BY <2>6, ScrapeTypes, SumInt DEF Seen, ScrapeInv
  <2> QED BY <2>1, <2>2, <2>5, <2>7, <2>8, <2>9
<1> QED BY <1>1, <1>2, <1>3 DEF ScrapeInv

(* A counter is read. *)
LEMMA ReadKeepsOrder ==
  ASSUME WritersOK, CountInv, ScrapeInv, NEW x \in Counter, seen[x] = Unread, Read(x), count' = count,
         \A pair \in Pairs : x \in pair[2] => \A a \in pair[1] : seen[a] # Unread
  PROVE  ScrapeInv'
<1>1. /\ count[x] \in Nat /\ Unread \notin Nat /\ count \in [Counter -> Nat]
      /\ seen \in [Counter -> Nat \cup {Unread}]
  BY DEF WritersOK, Unread, ScrapeInv, SeenOK
<1>2. /\ seen' \in [Counter -> Nat \cup {Unread}]
      /\ \A c \in Counter : seen'[c] = IF c = x THEN count[x] ELSE seen[c]
  BY <1>1 DEF Read
<1>3. SeenOK'
  BY <1>2 DEF SeenOK
<1>4. ReadBefore'
  BY <1>1, <1>2, PairedIs DEF ReadBefore, ScrapeInv
<1>5. \A c \in Counter : Value(c)' = Value(c)
  BY <1>1, <1>2 DEF Value
<1>6. ASSUME NEW pair \in Pairs PROVE InOrder(pair)'
  <2>0. /\ pair[1] \subseteq Counter /\ pair[2] \subseteq Counter /\ pair[1] \cap pair[2] = {}
        /\ IsFiniteSet(pair[1]) /\ IsFiniteSet(pair[2])
    BY PairsAre
  <2>1. Values(pair[2])' = Values(pair[2])
    <3>1. [c \in pair[2] |-> Value(c)'] = [c \in pair[2] |-> Value(c)]
      BY <1>5, <2>0
    <3> QED BY <3>1 DEF Values
  <2>2. CASE x \in pair[1]
    <3>1. \A c \in pair[2] : seen[c] = Unread
      BY <2>2 DEF ScrapeInv, InOrder
    <3>2. \A c \in pair[2] : seen'[c] = Unread
      BY <1>2, <2>0, <2>2, <3>1
    <3> QED BY <3>2 DEF InOrder
  <2>3. CASE x \notin pair[1]
    <3>1. Seen(pair[1])' = Seen(pair[1])
      <4>1. [c \in pair[1] |-> seen'[c]] = [c \in pair[1] |-> seen[c]]
        BY <1>2, <2>0, <2>3
      <4> QED BY <4>1 DEF Seen
    <3>2. CASE \E c \in pair[2] : seen[c] # Unread
      <4>1. (\A c \in pair[1] : seen[c] # Unread) /\ Seen(pair[1]) <= Values(pair[2])
        BY <3>2 DEF ScrapeInv, InOrder
      <4>2. \A c \in pair[1] : seen'[c] # Unread
        BY <1>2, <2>0, <2>3, <4>1
      <4> QED BY <2>1, <3>1, <4>1, <4>2 DEF InOrder
    <3>3. CASE x \notin pair[2] /\ \A c \in pair[2] : seen[c] = Unread
      <4>1. \A c \in pair[2] : seen'[c] = Unread
        BY <1>2, <2>0, <3>3
      <4> QED BY <4>1 DEF InOrder
    <3>4. CASE x \in pair[2] /\ \A c \in pair[2] : seen[c] = Unread
      <4>1. \A c \in pair[1] : seen[c] # Unread
        BY <3>4
      <4>2. \A c \in pair[1] : seen'[c] # Unread
        BY <1>2, <2>0, <2>3, <4>1
      <4>3. Seen(pair[1]) <= Total(pair[1])
        <5> DEFINE f == [c \in pair[1] |-> seen[c]]
                   g == [c \in pair[1] |-> count[c]]
        <5>1. f \in [pair[1] -> Int] /\ g \in [pair[1] -> Int] /\ \A c \in pair[1] : f[c] = seen[c] /\ g[c] = count[c]
          BY ScrapeTypes DEF ScrapeInv
        <5>2. \A c \in pair[1] : seen[c] <= count[c]
          BY <4>1, PairedIs DEF ScrapeInv, ReadBefore
        <5>3. \A c \in pair[1] : f[c] <= g[c]
          BY <5>1, <5>2
        <5> HIDE DEF f, g
        <5>4. SumFunction(f) <= SumFunction(g)
          BY <2>0, <5>1, <5>3, SumAtMost
        <5> QED BY <5>4 DEF Seen, Total, f, g
      <4>4. Values(pair[2]) = Total(pair[2])
        <5>1. [c \in pair[2] |-> Value(c)] = [c \in pair[2] |-> count[c]]
          BY <3>4 DEF Value
        <5> QED BY <5>1 DEF Values, Total
      <4>5. Total(pair[1]) + OwedTo(pair) <= Total(pair[2])
        BY DEF CountInv, CountedInOrder
      <4>6. Total(pair[1]) \in Nat /\ Total(pair[2]) \in Nat /\ OwedTo(pair) \in Nat
        BY CountTypes DEF CountInv
      <4>7. Seen(pair[1]) \in Int
        BY <2>0, ScrapeTypes, SumInt DEF Seen, ScrapeInv
      <4>8. Seen(pair[1]) <= Values(pair[2])
        BY <4>3, <4>4, <4>5, <4>6, <4>7
      <4> QED BY <2>1, <3>1, <4>2, <4>8 DEF InOrder
    <3> QED BY <3>2, <3>3, <3>4
  <2> QED BY <2>2, <2>3
<1> QED BY <1>3, <1>4, <1>6 DEF ScrapeInv

LEMMA ScrapeNext ==
  ASSUME WritersOK, WritersOK', CountInv, ScrapeInv, [Next]_vars
  PROVE  CountInv' /\ ScrapeInv'
<1>0. CountInv' /\ Grows
  BY CountNext
<1>1. CASE seen' = seen
  BY <1>0, <1>1, CountingKeepsOrder
<1>2. CASE Load
  <2>1. count' = count
    BY <1>2 DEF Load, metricVars
  <2>2. CASE Complete
    <3>1. seen' = [c \in Counter |-> Unread]
      BY <1>2, <2>2 DEF Load
    <3>2. SeenOK' /\ \A c \in Counter : seen'[c] = Unread
      BY <3>1 DEF SeenOK
    <3>3. \A pair \in Pairs : InOrder(pair)'
      BY <3>2, PairsAre DEF InOrder
    <3>4. ReadBefore'
      BY <3>2, PairedIs DEF ReadBefore
    <3> QED BY <1>0, <3>2, <3>3, <3>4 DEF ScrapeInv
  <2>3. CASE ~Complete
    <3>1. PICK i \in DOMAIN Reading :
             /\ Left(Reading[i]) # {} /\ \A j \in 1..(i - 1) : Left(Reading[j]) = {}
             /\ Read(CHOOSE c \in Left(Reading[i]) : TRUE)
      BY <1>2, <2>3 DEF Load
    <3> DEFINE x == CHOOSE c \in Left(Reading[i]) : TRUE
    <3>2. x \in Left(Reading[i]) /\ Read(x)
      BY <3>1
    <3> HIDE DEF x
    <3>3. /\ x \in Counter /\ seen[x] = Unread
          /\ \A pair \in Pairs : x \in pair[2] => \A a \in pair[1] : seen[a] # Unread
      BY <2>3, <3>1, <3>2, LoadOrder DEF Left
    <3> QED BY <1>0, <2>1, <3>2, <3>3, ReadKeepsOrder
  <2> QED BY <2>2, <2>3
<1>3. CASE \E p \in Proc : Add(p) \/ Transition(p)
  BY <1>1, <1>3 DEF Add, Transition, Degrade, SetDegraded, CountTransition, Goes
<1>4. CASE \E g \in Goroutine : Lookup(g)
  BY <1>1, <1>4 DEF Lookup, Begin, CountHit, AskL2, Leave, CountLookup, LookupFails, Goes
<1>5. CASE SubscriberFails \/ Recovery
  BY <1>1, <1>5 DEF SubscriberFails, Recovery, Attempt, Probe, Republish, CheckEpoch, FlushL1,
                    EnterHealthy, ClearDegraded, Fails, Goes
<1>6. CASE Evict \/ ReporterStep
  BY <1>1, <1>6 DEF Evict, ReporterStep, FlushAtTick, FlushAtStop, Report, Quiet
<1>7. CASE \E c \in Closer : Close(c) \/ CloseReturn(c)
  BY <1>1, <1>7 DEF Close, CloseReturn, Quiet
<1>8. CASE UNCHANGED vars
  BY <1>1, <1>8 DEF vars
<1> QED BY <1>2, <1>3, <1>4, <1>5, <1>6, <1>7, <1>8 DEF Next

LEMMA ScrapeInit == Init => CountInv /\ ScrapeInv
<1> SUFFICES ASSUME Init PROVE CountInv /\ ScrapeInv
  OBVIOUS
<1>1. /\ count \in [Counter -> Nat] /\ \A c \in Counter : count[c] = 0
      /\ \A p \in Proc : todo[p] = <<>>
      /\ seen \in [Counter -> Nat \cup {Unread}] /\ \A c \in Counter : seen[c] = Unread
  BY DEF Init
<1>2. ListsOK
  BY <1>1, EmptySound DEF ListsOK, Sound
<1>3. ASSUME NEW pair \in Pairs PROVE Total(pair[1]) + OwedTo(pair) <= Total(pair[2])
  <2>0. /\ pair[1] \subseteq Counter /\ pair[2] \subseteq Counter
        /\ IsFiniteSet(pair[1]) /\ IsFiniteSet(pair[2])
    BY PairsAre
  <2>1. ASSUME NEW A \in SUBSET Counter, IsFiniteSet(A) PROVE Total(A) = 0
    <3> DEFINE f == [c \in A |-> count[c]]
    <3>1. f \in [A -> Int] /\ \A c \in A : f[c] = 0
      BY <1>1
    <3> HIDE DEF f
    <3>2. SumFunction(f) = 0
      BY <2>1, <3>1, SumZero
    <3> QED BY <3>2 DEF f, Total
  <2>2. OwedTo(pair) = 0
    <3> DEFINE f == [p \in Proc |-> Owed(todo[p], pair)]
    <3>1. Owed(<<>>, pair) = 0
      BY EmptySound DEF Sound
    <3>2. f \in [Proc -> Int] /\ \A p \in Proc : f[p] = 0
      BY <1>1, <3>1
    <3> HIDE DEF f
    <3>3. SumFunction(f) = 0
      BY <3>2, ProcFinite, SumZero
    <3> QED BY <3>3 DEF f, OwedTo
  <2> QED BY <2>0, <2>1, <2>2
<1>4. CountInv
  BY <1>2, <1>3 DEF CountInv, CountedInOrder
<1>5. SeenOK /\ ReadBefore
  BY <1>1, PairedIs DEF SeenOK, ReadBefore
<1>6. \A pair \in Pairs : InOrder(pair)
  BY <1>1, PairsAre DEF InOrder
<1> QED BY <1>4, <1>5, <1>6 DEF ScrapeInv

LEMMA ScrapeIsOrdered == ScrapeInv => ScrapeOrdered
<1> SUFFICES ASSUME ScrapeInv, Complete PROVE ScrapeOrdered
  BY DEF ScrapeOrdered
<1>1. ASSUME NEW pair \in Pairs, \A c \in pair[2] : seen[c] # Unread
      PROVE  Seen(pair[1]) <= Seen(pair[2])
  <2>1. \E c \in pair[2] : seen[c] # Unread
    BY <1>1, PairsAre
  <2>2. [c \in pair[2] |-> Value(c)] = [c \in pair[2] |-> seen[c]]
    BY <1>1 DEF Value
  <2>3. Values(pair[2]) = Seen(pair[2])
    BY <2>2 DEF Values, Seen
  <2> QED BY <2>1, <2>3 DEF ScrapeInv, InOrder
<1>2. ASSUME NEW op \in Scraped
      PROVE  /\ Seen(Errors(op)) <= Seen(Buckets(op))
             /\ Seen(Buckets(op)) <= Seen({Calls(op)})
             /\ Seen({<<"batchCalls", op>>}) <= Seen({Calls(op)})
  <2>0. op \in Operation
    BY ObservabilityAssumption DEF Operation
  <2>1. AllRead(<<Errors(op), Buckets(op), Batches(op), {Calls(op)}>>)
    BY DEF Complete, Unfinished, ReadL2
  <2>2. Left(Buckets(op)) = {} /\ Left({Calls(op)}) = {}
    <3> DEFINE groups == <<Errors(op), Buckets(op), Batches(op), {Calls(op)}>>
    <3>1. 2 \in DOMAIN groups /\ groups[2] = Buckets(op) /\ 4 \in DOMAIN groups /\ groups[4] = {Calls(op)}
      OBVIOUS
    <3>2. \A i \in DOMAIN groups : Left(groups[i]) = {}
      BY <2>1 DEF AllRead
    <3> HIDE DEF groups
    <3>3. Left(groups[2]) = {} /\ Left(groups[4]) = {}
      BY <3>1, <3>2
    <3> QED BY <3>1, <3>3
  <2>3. (\A c \in Buckets(op) : seen[c] # Unread) /\ \A c \in {Calls(op)} : seen[c] # Unread
    BY <2>2 DEF Left
  <2> DEFINE first == <<Errors(op), Buckets(op)>>
             second == <<Buckets(op), {Calls(op)}>>
             third == <<{<<"batchCalls", op>>}, {Calls(op)}>>
  <2>4. first \in Pairs /\ second \in Pairs /\ third \in Pairs
    BY <2>0 DEF Pairs
  <2>5. /\ first[1] = Errors(op) /\ first[2] = Buckets(op)
        /\ second[1] = Buckets(op) /\ second[2] = {Calls(op)}
        /\ third[1] = {<<"batchCalls", op>>} /\ third[2] = {Calls(op)}
    OBVIOUS
  <2> HIDE DEF first, second, third
  <2>6. Seen(first[1]) <= Seen(first[2])
    BY <1>1, <2>3, <2>4, <2>5
  <2>7. Seen(second[1]) <= Seen(second[2])
    BY <1>1, <2>3, <2>4, <2>5
  <2>8. Seen(third[1]) <= Seen(third[2])
    BY <1>1, <2>3, <2>4, <2>5
  <2> QED BY <2>5, <2>6, <2>7, <2>8
<1>3. Seen(LookupCounters \ {<<"lookup", "l1_hit">>}) <= Seen({<<"l1Misses">>})
  <2>1. AllRead(<<LookupCounters, {<<"l1Misses">>}>>)
    BY DEF Complete, ReadLookups
  <2>2. Left({<<"l1Misses">>}) = {}
    <3> DEFINE groups == <<LookupCounters, {<<"l1Misses">>}>>
    <3>1. 2 \in DOMAIN groups /\ groups[2] = {<<"l1Misses">>}
      OBVIOUS
    <3>2. \A i \in DOMAIN groups : Left(groups[i]) = {}
      BY <2>1 DEF AllRead
    <3> HIDE DEF groups
    <3>3. Left(groups[2]) = {}
      BY <3>1, <3>2
    <3> QED BY <3>1, <3>3
  <2>3. \A c \in {<<"l1Misses">>} : seen[c] # Unread
    BY <2>2 DEF Left
  <2> DEFINE last == <<LookupCounters \ {<<"lookup", "l1_hit">>}, {<<"l1Misses">>}>>
  <2>4. last \in Pairs
    BY DEF Pairs
  <2>5. last[1] = LookupCounters \ {<<"lookup", "l1_hit">>} /\ last[2] = {<<"l1Misses">>}
    OBVIOUS
  <2> HIDE DEF last
  <2>6. Seen(last[1]) <= Seen(last[2])
    BY <1>1, <2>3, <2>4, <2>5
  <2> QED BY <2>5, <2>6
<1> QED BY <1>2, <1>3 DEF ScrapeOrdered

(* However the reads of a scrape and the additions of the others interleave,  *)
(* it shows no more errors than samples, samples and batches than calls, and  *)
(* answers of Redis and misses than misses of L1.                            *)
THEOREM ScrapesAreOrdered == Spec => []ScrapeOrdered
<1> DEFINE Inv == HealthInv /\ CountInv /\ ScrapeInv
<1>1. Init => Inv
  BY HealthInit, ScrapeInit
<1>2. Inv /\ [Next]_vars => Inv'
  <2> SUFFICES ASSUME Inv, [Next]_vars PROVE Inv'
    OBVIOUS
  <2>1. HealthInv'
    BY HealthNext
  <2>2. WritersOK /\ WritersOK'
    BY <2>1 DEF HealthInv
  <2> QED BY <2>1, <2>2, ScrapeNext
<1>3. Inv => ScrapeOrdered
  BY ScrapeIsOrdered
<1> QED BY <1>1, <1>2, <1>3, PTL DEF Spec

(* No counter becomes negative, whatever is added to it and read of it. *)
THEOREM ObservabilityTypes == Spec => []TypeOK
<1> DEFINE Inv == HealthInv /\ CountInv /\ ScrapeInv /\ ReporterInv
<1>1. Init => Inv
  BY HealthInit, ScrapeInit, ReporterInit
<1>2. Inv /\ [Next]_vars => Inv'
  <2> SUFFICES ASSUME Inv, [Next]_vars PROVE Inv'
    OBVIOUS
  <2>1. HealthInv' /\ ReporterInv'
    BY HealthNext, ReporterNext
  <2>2. WritersOK /\ WritersOK'
    BY <2>1 DEF HealthInv
  <2> QED BY <2>1, <2>2, ScrapeNext
<1>3. Inv => TypeOK
  BY DEF HealthInv, ReporterInv, ScrapeInv, SeenOK, TypeOK
<1> QED BY <1>1, <1>2, <1>3, PTL DEF Spec

================================================================================
