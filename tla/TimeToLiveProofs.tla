---------------------------- MODULE TimeToLiveProofs ----------------------------
(* Proofs about TimeToLive, for every value of its constants. *)
EXTENDS TimeToLive, TLAPS

ReadRecord == [pc : ReadPc, many : BOOLEAN, started : Nat, ttl : Nat, measured : Nat,
               outdated : BOOLEAN]
MutationRecord == [pc : MutationPc, kind : Kinds, ttl : Nat, deadline : Nat, left : Int,
                   measured : Nat]

--------------------------------------------------------------------------------
(* Milliseconds and ticks. *)

LEMMA Millisecond ==
    ASSUME NEW t \in Nat
    PROVE  /\ t \div Ms \in Nat
           /\ (t \div Ms) * Ms <= t
           /\ t < (t \div Ms + 1) * Ms
  BY TimeAssumption DEF TimeAssumption

LEMMA Multiples ==
    ASSUME NEW a \in Int, NEW b \in Int, a <= b
    PROVE  a * Ms <= b * Ms /\ a * Ms \in Int /\ b * Ms \in Int /\ (b - a) * Ms = b * Ms - a * Ms
  BY TimeAssumption DEF TimeAssumption

LEMMA Later ==
    ASSUME NEW t \in Nat
    PROVE  t \div Ms <= (t + 1) \div Ms
  BY TimeAssumption DEF TimeAssumption

LEMMA WholeMilliseconds ==
    ASSUME NEW k \in Nat
    PROVE  (k * Ms) \div Ms = k
  BY TimeAssumption DEF TimeAssumption

LEMMA NoOverflow ==
    ASSUME NEW x \in 0..MaxDuration
    PROVE  Overflowing(x) = x
  BY TimeAssumption DEF TimeAssumption, Overflowing

LEMMA Quotient ==
    ASSUME NEW d \in Nat \ {0}, NEW s \in Nat, s <= MaxDuration \div d
    PROVE  s * d <= MaxDuration
<1>1. MaxDuration \in Nat
  BY TimeAssumption DEF TimeAssumption
<1>2. MaxDuration \div d \in Nat /\ (MaxDuration \div d) * d <= MaxDuration
  BY <1>1
<1>3. s * d <= (MaxDuration \div d) * d
  BY <1>2
<1> QED BY <1>1, <1>2, <1>3

(* What phpTTL lets in is a whole number of milliseconds and a duration. *)
LEMMA PhpFits ==
    ASSUME NEW s \in Int, PhpTTL(s) # Failed
    PROVE  /\ PhpTTL(s) \in Nat /\ PhpTTL(s) <= MaxDuration
           /\ (PhpTTL(s) \div Ms) * Ms = PhpTTL(s)
<1>1. Second \in Nat \ {0}
  BY TimeAssumption DEF TimeAssumption, Second
<1>2. MaxDuration \div Second \in Int
  BY <1>1, TimeAssumption DEF TimeAssumption
<1>3. s > 0 /\ s <= MaxDuration \div Second /\ PhpTTL(s) = s * Second
  BY <1>2 DEF PhpTTL, Failed
<1>4. s * Second \in Nat /\ s * Second <= MaxDuration
  BY <1>1, <1>3, Quotient
<1>5. s * MsPerSecond \in Nat /\ s * Second = (s * MsPerSecond) * Ms
  BY <1>3, TimeAssumption DEF TimeAssumption, Second
<1> QED BY <1>3, <1>4, <1>5, WholeMilliseconds

--------------------------------------------------------------------------------
(* The inductive invariant. *)

(* A mutation holds mutationMu from beginning to end, a reader while it warms. *)
MutexHeld ==
    /\ mutation.pc # "idle" <=> mu = Mutator
    /\ \A g \in Reader : reads[g].pc = "locked" => mu = g

(* What is left of the original is a duration, and so is what was asked for. *)
DurationLeft == l2 \in Nat => (l2 - NowMs) * Ms <= MaxDuration

DurationAsked ==
    mutation.pc = "asked" /\ mutation.kind \in Timed =>
        /\ mutation.ttl <= MaxDuration
        /\ TtlMs * Ms = mutation.ttl
        /\ mutation.deadline <= now + mutation.ttl

(* A mutation that has changed Redis knows an instant the original reaches. *)
MutationKnows ==
    /\ Changing /\ mutation.kind = "forever" => l2 = Forever
    /\ Changing /\ mutation.kind \in Timed => l2 \in Nat /\ mutation.deadline <= End(l2)
    /\ mutation.pc = "committed" =>
         mutation.measured <= now /\ mutation.left = mutation.deadline - mutation.measured

(* So does a reader that no mutation has overtaken, from its record r. *)
Known(r) ==
    r.pc \in {"answered", "measured", "locked"} /\ ~r.outdated /\ mutation.pc # "done" =>
        \/ r.ttl = 0 /\ l2 = Forever
        \/ r.ttl > 0 /\ l2 \in Nat /\ r.started + r.ttl <= End(l2)

Timely(r) ==
    /\ r.started <= now
    /\ r.pc \in {"measured", "locked"} => r.started <= r.measured /\ r.measured <= now
    /\ r.pc = "locked" => ~r.outdated

ReadersKnow == \A g \in Reader : Known(reads[g]) /\ Timely(reads[g])

Inv ==
    /\ TypeOK /\ MutexHeld /\ DurationLeft /\ DurationAsked /\ MutationKnows /\ ReadersKnow
    /\ CopyDiesFirst

--------------------------------------------------------------------------------
LEMMA Types ==
    TypeOK <=>
        /\ now \in Nat
        /\ l2 \in Nat \cup {Forever, Gone} /\ l1 \in Nat \cup {Forever, Gone} /\ late \in Nat
        /\ mu \in Reader \cup {Nobody, Mutator}
        /\ mutation \in MutationRecord
        /\ reads \in [Reader -> ReadRecord]
  BY DEF TypeOK, MutationRecord, ReadRecord

(* What the answer of Redis becomes. *)
LEMMA Parsed ==
    ASSUME TypeOK, DurationLeft, Original
    PROVE  /\ LifetimesFit
           /\ ParsePTTL(PTTL) \in Nat
           /\ l2 = Forever => ParsePTTL(PTTL) = 0
           /\ l2 # Forever => l2 \in Nat /\ ParsePTTL(PTTL) > 0 /\ now + ParsePTTL(PTTL) <= End(l2)
<1>1. now \in Nat /\ l2 \in Nat \cup {Forever, Gone} /\ Ms \in Nat \ {0} /\ MaxDuration \in Nat
  BY TimeAssumption DEF TypeOK, TimeAssumption
<1>2. NowMs \in Nat /\ NowMs * Ms <= now /\ now < (NowMs + 1) * Ms
  BY <1>1, Millisecond DEF NowMs
<1>3. CASE l2 = Forever
  <2>1. PTTL = -1
    BY <1>3 DEF PTTL, Original
  <2>2. ParsePTTL(PTTL) = 0
    BY <2>1 DEF ParsePTTL
  <2>3. l2 # NowMs
    BY <1>2, <1>3 DEF Forever
  <2>4. LifetimesFit
    BY <1>3, <2>2, <2>3 DEF LifetimesFit
  <2> QED BY <1>3, <2>2, <2>4
<1>4. CASE l2 # Forever
  <2>1. l2 \in Nat /\ l2 >= NowMs
    BY <1>1, <1>2, <1>4 DEF Original, Forever, Gone
  <2>1a. PTTL = l2 - NowMs /\ PTTL \in Nat
    BY <1>2, <1>4, <2>1 DEF PTTL
  <2>2. CASE l2 = NowMs
    <3>1. ParsePTTL(PTTL) = 1
      BY <1>2, <2>1a, <2>2 DEF ParsePTTL
    <3>2. now + 1 <= End(l2)
      BY <1>1, <1>2, <2>2 DEF End
    <3> QED BY <1>4, <2>1, <2>2, <3>1, <3>2 DEF LifetimesFit
  <2>3. CASE l2 # NowMs
    <3>1. l2 - NowMs \in Nat \ {0}
      BY <1>2, <2>1, <2>3
    <3>2. (l2 - NowMs) * Ms \in Nat \ {0} /\ (l2 - NowMs) * Ms <= MaxDuration
      BY <1>1, <2>1, <3>1 DEF DurationLeft
    <3>3. ParsePTTL(PTTL) = Overflowing((l2 - NowMs) * Ms)
      BY <2>1a, <3>1 DEF ParsePTTL
    <3>4. ParsePTTL(PTTL) = (l2 - NowMs) * Ms
      BY <1>1, <3>2, <3>3, NoOverflow
    <3>5. now + (l2 - NowMs) * Ms <= (l2 + 1) * Ms
      BY <1>1, <1>2, <2>1
    <3>6. LifetimesFit
      BY <1>4, <2>3, <3>4 DEF LifetimesFit
    <3> QED BY <1>4, <2>1, <3>2, <3>4, <3>5, <3>6 DEF End
  <2> QED BY <2>2, <2>3
<1> QED BY <1>3, <1>4
LEMMA Readers ==
    ASSUME TypeOK, NEW g \in Reader
    PROVE  reads[g] \in ReadRecord
  BY Types

LEMMA Idle ==
    /\ ReadIdle \in ReadRecord
    /\ TypeOK => Known(ReadIdle) /\ Timely(ReadIdle)
  BY DEF ReadIdle, ReadRecord, ReadPc, Known, Timely, TypeOK

(* A step of a reader that keeps its record true. *)
LEMMA ReaderStep ==
    ASSUME Inv, NEW g \in Reader, NEW r \in ReadRecord, ReadSet(g, r), ReadRest, Known(r), Timely(r)
    PROVE  /\ reads' \in [Reader -> ReadRecord]
           /\ reads'[g] = r /\ \A h \in Reader \ {g} : reads'[h] = reads[h]
           /\ DurationLeft' /\ DurationAsked' /\ MutationKnows' /\ ReadersKnow'
<1>1. now' = now /\ l2' = l2 /\ mutation' = mutation /\ NowMs' = NowMs
  BY DEF ReadRest, NowMs
<1>2. reads \in [Reader -> ReadRecord] /\ reads' = [reads EXCEPT ![g] = r]
  BY Types DEF Inv, ReadSet
<1>3. reads' \in [Reader -> ReadRecord] /\ reads'[g] = r /\ \A h \in Reader \ {g} : reads'[h] = reads[h]
  BY <1>2
<1>4. ReadersKnow'
  <2> SUFFICES ASSUME NEW h \in Reader
               PROVE  (Known(reads[h]) /\ Timely(reads[h]))'
    BY DEF ReadersKnow
  <2>1. Known(reads'[h]) /\ Timely(reads'[h])
    BY <1>3 DEF Inv, ReadersKnow
  <2> QED BY <1>1, <2>1 DEF Known, Timely, End
<1>5. DurationLeft'
  BY <1>1 DEF Inv, DurationLeft
<1>6. DurationAsked'
  BY <1>1 DEF Inv, DurationAsked, TtlMs
<1>7. MutationKnows'
  BY <1>1 DEF Inv, MutationKnows, Changing, End
<1> QED BY <1>3, <1>4, <1>5, <1>6, <1>7

(* The copy stays, and the locks do. *)
LEMMA ReaderRest ==
    ASSUME Inv, NEW g \in Reader, NEW r \in ReadRecord, ReadSet(g, r), ReadRest, Known(r), Timely(r),
           r.pc # "locked", UNCHANGED <<l1, late, mu>>
    PROVE  Inv'
<1>1. now' = now /\ l2' = l2 /\ mutation' = mutation /\ l1' = l1 /\ late' = late /\ mu' = mu
  BY DEF ReadRest
<1>2. TypeOK'
  BY <1>1, ReaderStep, Types DEF Inv, TypeOK, ReadRecord, MutationRecord
<1>3. MutexHeld'
  BY <1>1, ReaderStep DEF Inv, MutexHeld
<1>4. CopyDiesFirst'
  BY <1>1 DEF Inv, CopyDiesFirst, Copy, Changing, End
<1> QED BY <1>2, <1>3, <1>4, ReaderStep DEF Inv
--------------------------------------------------------------------------------
(* The steps of a reader keep the invariant. *)

LEMMA AskKeeps ==
    ASSUME Inv, NEW g \in Reader, Ask(g)
    PROVE  Inv'
<1> DEFINE r(many) == [ReadIdle EXCEPT !.pc = "asked", !.many = many, !.started = now]
<1>1. PICK many \in BOOLEAN : ReadSet(g, r(many))
  BY Zenon DEF Ask
<1>2. now \in Nat /\ ReadIdle \in ReadRecord
  BY Idle DEF Inv, TypeOK
<1>3. r(many) \in ReadRecord
  BY <1>2 DEF ReadRecord, ReadPc
<1>4. r(many).pc = "asked" /\ r(many).started = now
  BY <1>2 DEF ReadRecord
<1> HIDE DEF r
<1>5. Known(r(many)) /\ Timely(r(many)) /\ r(many).pc # "locked"
  BY <1>2, <1>4 DEF Known, Timely
<1>6. ReadRest /\ UNCHANGED <<l1, late, mu>>
  BY DEF Ask
<1> QED BY <1>1, <1>3, <1>5, <1>6, ReaderRest

LEMMA AnswerKeeps ==
    ASSUME Inv, NEW g \in Reader, Answer(g)
    PROVE  Inv'
<1>1. /\ reads[g].pc = "asked" /\ ReadRest /\ UNCHANGED <<l1, late, mu>>
      /\ ReadSet(g, IF Original
                    THEN [reads[g] EXCEPT !.pc = "answered", !.ttl = ParsePTTL(PTTL)]
                    ELSE ReadIdle)
  BY DEF Answer
<1>2. reads[g] \in ReadRecord /\ Timely(reads[g]) /\ TypeOK
  BY Readers DEF Inv, ReadersKnow
<1>3. CASE ~Original
  <2>1. ReadIdle.pc # "locked"
    BY DEF ReadIdle
  <2> QED BY <1>1, <1>2, <1>3, <2>1, Idle, ReaderRest
<1>4. CASE Original
  <2> DEFINE r == [reads[g] EXCEPT !.pc = "answered", !.ttl = ParsePTTL(PTTL)]
  <2>1. /\ ParsePTTL(PTTL) \in Nat
        /\ l2 = Forever => ParsePTTL(PTTL) = 0
        /\ l2 # Forever => l2 \in Nat /\ ParsePTTL(PTTL) > 0 /\ now + ParsePTTL(PTTL) <= End(l2)
    BY <1>2, <1>4, Parsed DEF Inv
  <2>2. /\ r \in ReadRecord /\ r.pc = "answered" /\ r.ttl = ParsePTTL(PTTL)
        /\ r.started = reads[g].started /\ r.started \in Nat
    BY <1>2, <2>1 DEF ReadRecord, ReadPc
  <2>3. r.started <= now /\ now \in Nat
    BY <1>2, <2>2 DEF Timely, TypeOK
  <2>4. Timely(r) /\ r.pc # "locked"
    BY <2>2, <2>3 DEF Timely
  <2>5. l2 # Forever => End(l2) \in Int
    BY <2>1, TimeAssumption DEF End, TimeAssumption
  <2>6. Known(r)
    BY <2>1, <2>2, <2>3, <2>5 DEF Known
  <2>7. ReadSet(g, r)
    BY <1>1, <1>4
  <2> HIDE DEF r
  <2> QED BY <1>1, <2>2, <2>4, <2>6, <2>7, ReaderRest
<1> QED BY <1>3, <1>4

LEMMA MeasureManyKeeps ==
    ASSUME Inv, NEW g \in Reader, MeasureMany(g)
    PROVE  Inv'
<1> DEFINE r == [reads[g] EXCEPT !.pc = "measured", !.measured = now]
<1>1. /\ reads[g].pc = "answered" /\ ReadSet(g, r)
      /\ ReadRest /\ UNCHANGED <<l1, late, mu>>
  BY DEF MeasureMany
<1>2. reads[g] \in ReadRecord /\ Known(reads[g]) /\ Timely(reads[g]) /\ now \in Nat
  BY Readers DEF Inv, ReadersKnow, TypeOK
<1>3. /\ r \in ReadRecord /\ r.pc = "measured" /\ r.measured = now
      /\ r.started = reads[g].started /\ r.ttl = reads[g].ttl /\ r.outdated = reads[g].outdated
  BY <1>2 DEF ReadRecord, ReadPc
<1>4. Known(r) /\ Timely(r) /\ r.pc # "locked"
  BY <1>1, <1>2, <1>3 DEF Known, Timely
<1> HIDE DEF r
<1> QED BY <1>1, <1>3, <1>4, ReaderRest
LEMMA LockReadKeeps ==
    ASSUME Inv, NEW g \in Reader, LockRead(g)
    PROVE  Inv'
<1>1. /\ mu = Nobody /\ reads[g].pc \in {"measured", "answered"}
      /\ reads[g].pc = "measured" <=> reads[g].many
      /\ UNCHANGED <<l1, late>> /\ ReadRest
  BY Readers DEF LockRead, Inv, ReadRecord
<1>2. reads[g] \in ReadRecord /\ Known(reads[g]) /\ Timely(reads[g]) /\ now \in Nat /\ TypeOK
  BY Readers DEF Inv, ReadersKnow, TypeOK
<1>3. CASE reads[g].outdated \/ Copy
  <2>1. ReadSet(g, ReadIdle) /\ UNCHANGED mu
    BY <1>3 DEF LockRead
  <2>2. ReadIdle.pc # "locked"
    BY DEF ReadIdle
  <2> QED BY <1>1, <1>2, <2>1, <2>2, Idle, ReaderRest
<1>4. CASE ~(reads[g].outdated \/ Copy)
  <2> DEFINE r == [reads[g] EXCEPT !.pc = "locked",
                                   !.measured = IF reads[g].many THEN @ ELSE now]
  <2>1. mu' = g /\ ReadSet(g, r)
    BY <1>4 DEF LockRead
  <2>2. /\ r \in ReadRecord /\ r.pc = "locked" /\ r.started = reads[g].started
        /\ r.measured = (IF reads[g].many THEN reads[g].measured ELSE now)
        /\ r.ttl = reads[g].ttl /\ r.outdated = reads[g].outdated
    BY <1>2 DEF ReadRecord, ReadPc
  <2>3. (r.measured = reads[g].measured /\ reads[g].pc = "measured") \/ r.measured = now
    BY <1>1, <2>2
  <2>4. Known(r) /\ Timely(r)
    BY <1>1, <1>2, <1>4, <2>2, <2>3 DEF Known, Timely, ReadRecord
  <2> HIDE DEF r
  <2>5. now' = now /\ l2' = l2 /\ mutation' = mutation /\ l1' = l1 /\ late' = late
    BY <1>1 DEF ReadRest
  <2>6. TypeOK'
    BY <1>2, <2>1, <2>2, <2>4, <2>5, <1>1, ReaderStep, Types DEF TypeOK, ReadRecord
  <2>7. MutexHeld'
    <3>1. mutation.pc = "idle" /\ g # Mutator /\ \A h \in Reader : reads[h].pc # "locked"
      BY <1>1, TimeAssumption DEF Inv, MutexHeld, TimeAssumption
    <3> QED BY <1>1, <2>1, <2>2, <2>4, <2>5, <3>1, ReaderStep DEF MutexHeld
  <2>8. CopyDiesFirst'
    BY <2>5 DEF Inv, CopyDiesFirst, Copy, Changing, End
  <2> QED BY <1>1, <2>1, <2>2, <2>4, <2>6, <2>7, <2>8, ReaderStep DEF Inv
<1> QED BY <1>3, <1>4

LEMMA WarmKeeps ==
    ASSUME Inv, NEW g \in Reader, Warm(g)
    PROVE  Inv'
<1>1. reads[g].pc = "locked" /\ mu' = Nobody /\ ReadSet(g, ReadIdle) /\ ReadRest
  BY DEF Warm
<1>2. reads[g] \in ReadRecord /\ Known(reads[g]) /\ Timely(reads[g]) /\ TypeOK
  BY Readers DEF Inv, ReadersKnow
<1>3. mu = g /\ mutation.pc = "idle" /\ \A h \in Reader \ {g} : reads[h].pc # "locked"
  BY <1>1, TimeAssumption DEF Inv, MutexHeld, TimeAssumption
<1>4. now' = now /\ l2' = l2 /\ mutation' = mutation
  BY <1>1 DEF ReadRest
<1> DEFINE r    == reads[g]
           left == r.ttl - Elapsed(r)
<1>5. /\ now \in Nat /\ r.ttl \in Nat /\ r.started \in Nat /\ r.measured \in Nat
      /\ r.started <= r.measured /\ r.measured <= now
  BY <1>1, <1>2 DEF TypeOK, Timely, ReadRecord
<1>6. \/ r.ttl = 0 /\ l2 = Forever
      \/ r.ttl > 0 /\ l2 \in Nat /\ r.started + r.ttl <= End(l2)
  BY <1>1, <1>2, <1>3 DEF Known, Timely
<1>7. l2 \in Nat => End(l2) \in Int
  BY TimeAssumption DEF TimeAssumption, End
<1>8. ~Changing /\ ~Changing'
  BY <1>3, <1>4 DEF Changing
<1>9. (l1' \in Nat \cup {Forever, Gone}) /\ late' \in Nat /\ CopyDiesFirst'
  <2>1. CASE r.ttl <= 0
    <3>1. l1' = Forever /\ late' = 0 /\ l2' = Forever
      BY <1>4, <1>5, <1>6, <2>1 DEF Warm
    <3> QED BY <3>1 DEF CopyDiesFirst
  <2>2. CASE r.ttl > 0 /\ left <= 0
    <3>1. l1' = l1 /\ late' = late
      BY <1>5, <2>2 DEF Warm
    <3> QED BY <1>2, <1>4, <1>8, <3>1 DEF Inv, CopyDiesFirst, Copy, End, TypeOK
  <2>3. CASE r.ttl > 0 /\ left > 0
    <3>1. l1' = now + left /\ late' = now - r.measured
      BY <1>5, <2>3 DEF Warm, Elapsed
    <3>2. left = r.ttl - (r.measured - r.started)
      BY DEF Elapsed
    <3>3. l1' \in Nat /\ late' \in Nat /\ l2 \in Nat /\ l1' <= End(l2) + late'
      BY <1>5, <1>6, <1>7, <2>3, <3>1, <3>2
    <3>4. l1' # Forever /\ l2' # Gone /\ l1' <= End(l2') + late'
      BY <1>4, <3>3 DEF Forever, Gone
    <3> QED BY <1>4, <3>3, <3>4 DEF CopyDiesFirst, End
  <2>4. left \in Int
    BY <1>5 DEF Elapsed
  <2> QED BY <1>5, <2>1, <2>2, <2>3, <2>4
<1>10. TypeOK'
  BY <1>1, <1>2, <1>4, <1>9, Idle, ReaderStep DEF TypeOK, ReadRecord
<1>11. MutexHeld'
  <2>1. ReadIdle.pc = "idle" /\ Nobody # Mutator
    BY TimeAssumption DEF ReadIdle, TimeAssumption
  <2> QED BY <1>1, <1>2, <1>3, <1>4, <2>1, Idle, ReaderStep DEF MutexHeld
<1> QED BY <1>1, <1>2, <1>9, <1>10, <1>11, Idle, ReaderStep DEF Inv
--------------------------------------------------------------------------------
(* The steps of the mutation keep the invariant. *)

LEMMA BeginKeeps ==
    ASSUME Inv, Begin
    PROVE  Inv'
<1>1. mu = Nobody /\ mu' = Mutator /\ UNCHANGED <<now, l2, l1, late, reads>>
  BY DEF Begin
<1>2. now \in Nat /\ mutation.pc = "idle" /\ \A g \in Reader : reads[g].pc # "locked"
  BY <1>1, TimeAssumption DEF Inv, MutexHeld, TimeAssumption, TypeOK
<1>3. /\ mutation' \in MutationRecord /\ mutation'.pc = "asked"
      /\ mutation'.kind \in Timed =>
           /\ mutation'.ttl <= MaxDuration
           /\ (mutation'.ttl \div Ms) * Ms = mutation'.ttl
           /\ mutation'.deadline <= now + mutation'.ttl
  <2>1. CASE \E kind \in Timed : \E seconds \in Seconds :
               /\ PhpTTL(seconds) # Failed
               /\ mutation' = [MutationIdle EXCEPT !.pc = "asked", !.kind = kind,
                                                   !.ttl = PhpTTL(seconds),
                                                   !.deadline = now + PhpTTL(seconds)]
    <3>1. PICK kind \in Timed, seconds \in Seconds :
               /\ PhpTTL(seconds) # Failed
               /\ mutation' = [MutationIdle EXCEPT !.pc = "asked", !.kind = kind,
                                                   !.ttl = PhpTTL(seconds),
                                                   !.deadline = now + PhpTTL(seconds)]
      BY <2>1
    <3>2. /\ PhpTTL(seconds) \in Nat /\ PhpTTL(seconds) <= MaxDuration
          /\ (PhpTTL(seconds) \div Ms) * Ms = PhpTTL(seconds)
      BY <3>1, PhpFits, TimeAssumption DEF TimeAssumption
    <3>3. mutation' = [pc |-> "asked", kind |-> kind, ttl |-> PhpTTL(seconds),
                       deadline |-> now + PhpTTL(seconds), left |-> 0, measured |-> 0]
      BY <3>1 DEF MutationIdle
    <3> QED BY <1>2, <3>2, <3>3 DEF MutationRecord, MutationPc, Kinds
  <2>2. CASE \E kind \in Kinds \ Timed :
               mutation' = [MutationIdle EXCEPT !.pc = "asked", !.kind = kind]
    <3>1. PICK kind \in Kinds \ Timed :
               mutation' = [MutationIdle EXCEPT !.pc = "asked", !.kind = kind]
      BY <2>2
    <3>2. mutation' = [pc |-> "asked", kind |-> kind, ttl |-> 0, deadline |-> 0, left |-> 0,
                       measured |-> 0]
      BY <3>1 DEF MutationIdle
    <3> QED BY <3>1, <3>2 DEF MutationRecord, MutationPc
  <2> QED BY <2>1, <2>2 DEF Begin
<1>4. TypeOK'
  BY <1>1, <1>3 DEF Inv, TypeOK, MutationRecord
<1>5. MutexHeld'
  BY <1>1, <1>2, <1>3 DEF MutexHeld
<1>6. DurationLeft'
  BY <1>1 DEF Inv, DurationLeft, NowMs
<1>7. DurationAsked'
  BY <1>1, <1>3 DEF DurationAsked, TtlMs
<1>8. MutationKnows'
  BY <1>3 DEF MutationKnows, Changing
<1>9. ReadersKnow'
  BY <1>1, <1>2 DEF Inv, ReadersKnow, Known, Timely, End
<1>10. CopyDiesFirst'
  BY <1>1, <1>2 DEF Inv, CopyDiesFirst, Copy, Changing, End
<1> QED BY <1>4, <1>5, <1>6, <1>7, <1>8, <1>9, <1>10 DEF Inv

LEMMA RefusedKeeps ==
    ASSUME Inv, Refused
    PROVE  Inv'
<1>1. /\ mutation.pc = "refused" /\ mutation' = MutationIdle /\ mu' = Nobody
      /\ UNCHANGED <<now, l2, l1, late, reads>>
  BY DEF Refused
<1>2. MutationIdle \in MutationRecord /\ MutationIdle.pc = "idle"
  BY DEF MutationIdle, MutationRecord, MutationPc, Kinds, Timed
<1>3. \A g \in Reader : reads[g].pc # "locked"
  BY <1>1, TimeAssumption DEF Inv, MutexHeld, TimeAssumption
<1>4. TypeOK'
  BY <1>1, <1>2 DEF Inv, TypeOK, MutationRecord
<1>5. MutexHeld'
  BY <1>1, <1>2, <1>3, TimeAssumption DEF MutexHeld, TimeAssumption
<1>6. DurationLeft'
  BY <1>1 DEF Inv, DurationLeft, NowMs
<1>7. DurationAsked' /\ MutationKnows'
  BY <1>1, <1>2 DEF DurationAsked, MutationKnows, Changing
<1>8. ReadersKnow'
  BY <1>1 DEF Inv, ReadersKnow, Known, Timely, End
<1>9. CopyDiesFirst'
  BY <1>1 DEF Inv, CopyDiesFirst, Copy, Changing, End
<1> QED BY <1>4, <1>5, <1>6, <1>7, <1>8, <1>9 DEF Inv
(* What the command does: it is refused, or Redis has changed. *)
LEMMA Executed ==
    ASSUME Inv, Execute
    PROVE  \/ l2' = l2 /\ mutation' = [MutationIdle EXCEPT !.pc = "refused"]
           \/ /\ mutation'.pc = "done" /\ mutation' \in MutationRecord
              /\ mutation'.kind = "forever" => l2' = Forever
              /\ mutation'.kind \in Timed =>
                   /\ l2' = NowMs + TtlMs /\ mutation.kind \in Timed
                   /\ mutation'.deadline = mutation.deadline
              /\ mutation'.kind \notin Timed => l2' \in {l2, Forever, Gone}
<1> DEFINE done == [mutation EXCEPT !.pc = "done", !.ttl = 0]
           over == [MutationIdle EXCEPT !.pc = "done", !.kind = "forget"]
<1>1. mutation \in MutationRecord
  BY Types DEF Inv
<1>2. /\ done \in MutationRecord /\ done.pc = "done" /\ done.kind = mutation.kind
      /\ done.deadline = mutation.deadline
  BY <1>1 DEF MutationRecord, MutationPc
<1>3. over \in MutationRecord /\ over.pc = "done" /\ over.kind = "forget"
  <2>1. MutationIdle \in MutationRecord
    BY DEF MutationIdle, MutationRecord, MutationPc, Kinds, Timed
  <2> QED BY <2>1 DEF MutationRecord, MutationPc, Kinds
<1>4. mutation.kind \in {"set", "add", "touch", "forever", "count", "refused", "forget"}
  BY <1>1 DEF MutationRecord, Kinds, Timed
<1>5. CASE mutation.kind \in Timed
  <2>1. \/ l2' = NowMs + TtlMs /\ mutation' = done
        \/ l2' = l2 /\ mutation' = [MutationIdle EXCEPT !.pc = "refused"]
        \/ l2' = Gone /\ mutation' = over
    <3>1. CASE mutation.kind = "set"
      BY <3>1 DEF Execute
    <3>2. CASE mutation.kind = "add"
      BY <3>2 DEF Execute
    <3>3. CASE mutation.kind = "touch"
      BY <3>3 DEF Execute
    <3> QED BY <1>5, <3>1, <3>2, <3>3 DEF Timed
  <2>2. "forget" \notin Timed /\ "forever" \notin Timed
    BY DEF Timed
  <2> HIDE DEF done, over
  <2> QED BY <1>2, <1>3, <1>5, <2>1, <2>2
<1>6. CASE mutation.kind \notin Timed
  <2>1. \/ /\ mutation' = done /\ l2' \in {l2, Forever, Gone}
           /\ mutation.kind = "forever" => l2' = Forever
        \/ l2' = l2 /\ mutation' = [MutationIdle EXCEPT !.pc = "refused"]
    <3>1. CASE mutation.kind = "forever"
      BY <3>1 DEF Execute
    <3>2. CASE mutation.kind = "count"
      BY <3>2 DEF Execute
    <3>3. CASE mutation.kind = "refused"
      BY <3>3 DEF Execute
    <3>4. CASE mutation.kind = "forget"
      BY <3>4 DEF Execute
    <3> QED BY <1>4, <1>6, <3>1, <3>2, <3>3, <3>4 DEF Timed
  <2> HIDE DEF done, over
  <2> QED BY <1>2, <1>6, <2>1
<1> QED BY <1>5, <1>6

LEMMA ExecuteKeeps ==
    ASSUME Inv, Execute
    PROVE  Inv'
<1>1. mutation.pc = "asked" /\ UNCHANGED <<now, l1, late, mu, reads>>
  BY DEF Execute
<1>2. /\ now \in Nat /\ l2 \in Nat \cup {Forever, Gone} /\ mutation \in MutationRecord
      /\ MaxDuration \in Nat /\ Ms \in Nat \ {0}
  BY Types, TimeAssumption DEF Inv, TimeAssumption
<1>3. mu = Mutator /\ \A g \in Reader : reads[g].pc # "locked"
  BY <1>1, TimeAssumption DEF Inv, MutexHeld, TimeAssumption
<1>4. CASE l2' = l2 /\ mutation' = [MutationIdle EXCEPT !.pc = "refused"]
  <2>1. mutation' \in MutationRecord /\ mutation'.pc = "refused"
    BY <1>4 DEF MutationIdle, MutationRecord, MutationPc, Kinds, Timed
  <2>2. TypeOK'
    BY <1>1, <1>4, <2>1 DEF Inv, TypeOK, MutationRecord
  <2>3. MutexHeld' /\ DurationAsked' /\ MutationKnows'
    BY <1>1, <1>3, <2>1 DEF MutexHeld, DurationAsked, MutationKnows, Changing
  <2>4. DurationLeft'
    BY <1>1, <1>4 DEF Inv, DurationLeft, NowMs
  <2>5. ReadersKnow'
    BY <1>1, <1>4, <2>1 DEF Inv, ReadersKnow, Known, Timely, End
  <2>6. CopyDiesFirst'
    BY <1>1, <1>4 DEF Inv, CopyDiesFirst, Copy, Changing, End
  <2> QED BY <2>2, <2>3, <2>4, <2>5, <2>6 DEF Inv
<1>5. CASE /\ mutation'.pc = "done" /\ mutation' \in MutationRecord
           /\ mutation'.kind = "forever" => l2' = Forever
           /\ mutation'.kind \in Timed =>
                /\ l2' = NowMs + TtlMs /\ mutation.kind \in Timed
                /\ mutation'.deadline = mutation.deadline
           /\ mutation'.kind \notin Timed => l2' \in {l2, Forever, Gone}
  <2>1. NowMs \in Nat /\ NowMs' = NowMs /\ now < (NowMs + 1) * Ms
    BY <1>1, <1>2, Millisecond DEF NowMs
  <2>2. ASSUME mutation'.kind \in Timed
        PROVE  /\ l2' \in Nat /\ (l2' - NowMs') * Ms <= MaxDuration
               /\ mutation'.deadline <= (l2' + 1) * Ms
    <3>1. /\ mutation.ttl \in Nat /\ mutation.deadline \in Nat
          /\ mutation.ttl <= MaxDuration /\ TtlMs * Ms = mutation.ttl
          /\ mutation.deadline <= now + mutation.ttl
      BY <1>1, <1>2, <1>5, <2>2 DEF Inv, DurationAsked, MutationRecord
    <3>2. TtlMs \in Nat /\ l2' = NowMs + TtlMs
      BY <1>5, <2>2, <3>1, Millisecond DEF TtlMs
    <3>3. l2' - NowMs' = TtlMs /\ l2' \in Nat
      BY <2>1, <3>2
    <3>4. (NowMs + TtlMs + 1) * Ms = (NowMs + 1) * Ms + TtlMs * Ms
      BY <1>2, <2>1, <3>2
    <3>5. (NowMs + 1) * Ms \in Int
      BY <1>2, <2>1
    <3>6. mutation.deadline <= (l2' + 1) * Ms
      BY <1>2, <2>1, <3>1, <3>2, <3>4, <3>5
    <3> QED BY <1>5, <2>2, <3>1, <3>3, <3>6
  <2>3. l2' \in Nat \cup {Forever, Gone}
    BY <1>2, <1>5, <2>2
  <2>4. TypeOK'
    BY <1>1, <1>5, <2>3 DEF Inv, TypeOK, MutationRecord
  <2>5. MutexHeld' /\ DurationAsked' /\ CopyDiesFirst'
    BY <1>1, <1>3, <1>5 DEF MutexHeld, DurationAsked, CopyDiesFirst, Changing
  <2>6. DurationLeft'
    <3>1. CASE mutation'.kind \in Timed
      BY <2>2, <3>1 DEF DurationLeft
    <3>2. CASE mutation'.kind \notin Timed
      BY <1>5, <2>1, <3>2 DEF Inv, DurationLeft, Forever, Gone
    <3> QED BY <3>1, <3>2
  <2>7. MutationKnows'
    BY <1>5, <2>2 DEF MutationKnows, Changing, End
  <2>8. ReadersKnow'
    BY <1>1, <1>5 DEF Inv, ReadersKnow, Known, Timely
  <2> QED BY <2>4, <2>5, <2>6, <2>7, <2>8 DEF Inv
<1> QED BY <1>4, <1>5, Executed
LEMMA CommittedKeeps ==
    ASSUME Inv, Committed
    PROVE  Inv'
<1> DEFINE m == [mutation EXCEPT !.pc = "committed", !.measured = now,
                                 !.left = Until(mutation.deadline)]
           over(r) == [ReadIdle EXCEPT !.pc = r.pc, !.many = r.many, !.outdated = TRUE]
<1>1. /\ mutation.pc = "done" /\ mutation' = m /\ UNCHANGED <<now, l2, l1, late, mu>>
      /\ reads' = [g \in Reader |-> IF reads[g].pc = "idle" THEN reads[g] ELSE over(reads[g])]
  BY DEF Committed
<1>2. /\ now \in Nat /\ mutation \in MutationRecord /\ reads \in [Reader -> ReadRecord]
      /\ ReadIdle \in ReadRecord
  BY Types, Idle DEF Inv
<1>3. /\ m \in MutationRecord /\ m.pc = "committed" /\ m.kind = mutation.kind
      /\ m.deadline = mutation.deadline /\ m.measured = now
      /\ m.left = mutation.deadline - now
  <2>1. mutation.deadline \in Nat
    BY <1>2 DEF MutationRecord
  <2>2. Until(mutation.deadline) = mutation.deadline - now /\ mutation.deadline - now \in Int
    BY <1>2, <2>1 DEF Until
  <2> QED BY <1>2, <2>2 DEF MutationRecord, MutationPc
<1>4. ASSUME NEW r \in ReadRecord
      PROVE  /\ over(r) \in ReadRecord /\ over(r).pc = r.pc /\ over(r).outdated
             /\ over(r).started = 0 /\ over(r).measured = 0
  <2>1. ReadIdle.started = 0 /\ ReadIdle.measured = 0
    BY DEF ReadIdle
  <2> QED BY <1>2, <2>1 DEF ReadRecord
<1> HIDE DEF m, over
<1>5. mu = Mutator /\ \A g \in Reader : reads[g].pc # "locked"
  BY <1>1, TimeAssumption DEF Inv, MutexHeld, TimeAssumption
<1>6. \A g \in Reader :
         /\ reads'[g] \in ReadRecord /\ reads'[g].pc = reads[g].pc
         /\ \/ reads'[g] = reads[g] /\ reads[g].pc = "idle"
            \/ reads'[g].outdated /\ reads'[g].started = 0 /\ reads'[g].measured = 0
  BY <1>1, <1>2, <1>4
<1>7. TypeOK'
  <2>1. reads' \in [Reader -> ReadRecord]
    BY <1>1, <1>6
  <2> QED BY <1>1, <1>3, <2>1 DEF Inv, TypeOK, MutationRecord, ReadRecord
<1>8. MutexHeld'
  BY <1>1, <1>3, <1>5, <1>6 DEF MutexHeld
<1>9. DurationLeft' /\ DurationAsked'
  BY <1>1, <1>3 DEF Inv, DurationLeft, NowMs, DurationAsked
<1>10. MutationKnows'
  BY <1>1, <1>2, <1>3 DEF Inv, MutationKnows, Changing, End
<1>11. ReadersKnow'
  <2> SUFFICES ASSUME NEW g \in Reader
               PROVE  (Known(reads[g]) /\ Timely(reads[g]))'
    BY DEF ReadersKnow
  <2>1. CASE reads'[g] = reads[g] /\ reads[g].pc = "idle"
    BY <1>1, <2>1 DEF Inv, ReadersKnow, Known, Timely
  <2>2. CASE reads'[g].outdated /\ reads'[g].started = 0 /\ reads'[g].measured = 0
    BY <1>1, <1>2, <1>5, <1>6, <2>2 DEF Known, Timely
  <2> QED BY <1>6, <2>1, <2>2
<1>12. CopyDiesFirst'
  BY <1>1, <1>3 DEF CopyDiesFirst, Changing
<1> QED BY <1>7, <1>8, <1>9, <1>10, <1>11, <1>12 DEF Inv

LEMMA ApplyKeeps ==
    ASSUME Inv, Apply
    PROVE  Inv'
<1>1. /\ mutation.pc = "committed" /\ mutation' = MutationIdle /\ mu' = Nobody
      /\ UNCHANGED <<now, l2, reads>>
  BY DEF Apply
<1>2. /\ now \in Nat /\ mutation \in MutationRecord
      /\ mutation.measured \in Nat /\ mutation.left \in Int /\ mutation.deadline \in Nat
      /\ mutation.measured <= now /\ mutation.left = mutation.deadline - mutation.measured
  BY <1>1, Types DEF Inv, MutationKnows, MutationRecord
<1>3. MutationIdle \in MutationRecord /\ MutationIdle.pc = "idle"
  BY DEF MutationIdle, MutationRecord, MutationPc, Kinds, Timed
<1>4. \A g \in Reader : reads[g].pc # "locked"
  BY <1>1, TimeAssumption DEF Inv, MutexHeld, TimeAssumption
<1>5. \/ mutation.kind = "forever" /\ l1' = Forever /\ late' = 0
      \/ /\ mutation.kind \in Timed /\ mutation.left > 0
         /\ l1' = now + mutation.left /\ late' = now - mutation.measured
      \/ l1' = Gone /\ late' = 0
  BY DEF Apply, Timed
<1>6. (l1' \in Nat \cup {Forever, Gone}) /\ late' \in Nat /\ CopyDiesFirst'
  <2>1. CASE mutation.kind = "forever" /\ l1' = Forever /\ late' = 0
    BY <1>1, <2>1 DEF Inv, MutationKnows, Changing, CopyDiesFirst
  <2>2. CASE /\ mutation.kind \in Timed /\ mutation.left > 0
             /\ l1' = now + mutation.left /\ late' = now - mutation.measured
    <3>1. l2 \in Nat /\ mutation.deadline <= End(l2) /\ End(l2) \in Int
      BY <1>1, <2>2, TimeAssumption DEF Inv, MutationKnows, Changing, End, TimeAssumption
    <3>2. l1' \in Nat /\ late' \in Nat /\ l1' <= End(l2) + late'
      BY <1>2, <2>2, <3>1
    <3>3. l1' # Forever /\ l2' # Gone /\ l1' <= End(l2') + late'
      BY <1>1, <3>1, <3>2 DEF Forever, Gone
    <3> QED BY <3>2, <3>3 DEF CopyDiesFirst, End
  <2>3. CASE l1' = Gone /\ late' = 0
    BY <1>1, <1>2, <2>3 DEF CopyDiesFirst, Copy, Forever, Gone
  <2> QED BY <1>5, <2>1, <2>2, <2>3
<1>7. TypeOK'
  BY <1>1, <1>3, <1>6 DEF Inv, TypeOK, MutationRecord
<1>8. MutexHeld'
  BY <1>1, <1>3, <1>4, TimeAssumption DEF MutexHeld, TimeAssumption
<1>9. DurationLeft'
  BY <1>1 DEF Inv, DurationLeft, NowMs
<1>10. DurationAsked' /\ MutationKnows'
  BY <1>1, <1>3 DEF DurationAsked, MutationKnows, Changing
<1>11. ReadersKnow'
  BY <1>1 DEF Inv, ReadersKnow, Known, Timely, End
<1> QED BY <1>6, <1>7, <1>8, <1>9, <1>10, <1>11 DEF Inv

LEMMA TickKeeps ==
    ASSUME Inv, Tick
    PROVE  Inv'
<1>1. now' = now + 1 /\ UNCHANGED <<l2, l1, late, mu, mutation, reads>>
  BY DEF Tick
<1>2. /\ now \in Nat /\ mutation \in MutationRecord /\ reads \in [Reader -> ReadRecord]
      /\ l1 \in Nat \cup {Forever, Gone} /\ MaxDuration \in Nat /\ Ms \in Nat \ {0}
  BY Types, TimeAssumption DEF Inv, TimeAssumption
<1>3. TypeOK' /\ MutexHeld'
  BY <1>1 DEF Inv, TypeOK, MutexHeld
<1>4. DurationLeft'
  <2> SUFFICES ASSUME l2 \in Nat
               PROVE  (l2 - NowMs') * Ms <= MaxDuration
    BY <1>1 DEF DurationLeft
  <2>1. NowMs \in Nat /\ NowMs' \in Nat /\ NowMs <= NowMs'
    BY <1>1, <1>2, Later, Millisecond DEF NowMs
  <2>2. (l2 - NowMs) * Ms <= MaxDuration
    BY DEF Inv, DurationLeft
  <2>3. (l2 - NowMs') * Ms <= (l2 - NowMs) * Ms
    BY <2>1, Multiples
  <2>4. (l2 - NowMs') * Ms \in Int /\ (l2 - NowMs) * Ms \in Int
    BY <1>2, <2>1
  <2> QED BY <1>2, <2>2, <2>3, <2>4
<1>5. DurationAsked'
  BY <1>1, <1>2 DEF Inv, DurationAsked, TtlMs, MutationRecord
<1>6. MutationKnows'
  BY <1>1, <1>2 DEF Inv, MutationKnows, Changing, End, MutationRecord
<1>7. ReadersKnow'
  BY <1>1, <1>2 DEF Inv, ReadersKnow, Known, Timely, End, ReadRecord
<1>8. CopyDiesFirst'
  BY <1>1, <1>2 DEF Inv, CopyDiesFirst, Copy, Changing, End
<1> QED BY <1>3, <1>4, <1>5, <1>6, <1>7, <1>8 DEF Inv

--------------------------------------------------------------------------------
LEMMA Initially == Init => Inv
<1> SUFFICES ASSUME Init PROVE Inv
  OBVIOUS
<1>1. /\ now = 0 /\ l2 = Gone /\ l1 = Gone /\ late = 0 /\ mu = Nobody
      /\ mutation = MutationIdle /\ reads = [g \in Reader |-> ReadIdle]
  BY DEF Init
<1>2. MutationIdle \in MutationRecord /\ MutationIdle.pc = "idle" /\ ReadIdle \in ReadRecord
  BY Idle DEF MutationIdle, MutationRecord, MutationPc, Kinds, Timed
<1>3. ReadIdle.pc = "idle"
  BY DEF ReadIdle
<1>4. TypeOK
  BY <1>1, <1>2, Types
<1>5. MutexHeld
  BY <1>1, <1>2, <1>3, TimeAssumption DEF MutexHeld, TimeAssumption
<1>6. DurationLeft /\ DurationAsked /\ MutationKnows
  BY <1>1, <1>2 DEF DurationLeft, DurationAsked, MutationKnows, Changing, Gone
<1>7. ReadersKnow
  BY <1>1, <1>4, Idle DEF ReadersKnow
<1>8. CopyDiesFirst
  BY <1>1 DEF CopyDiesFirst, Copy, Gone, Forever
<1> QED BY <1>4, <1>5, <1>6, <1>7, <1>8 DEF Inv

LEMMA Stutter == Inv /\ UNCHANGED vars => Inv'
  BY DEF vars, Inv, TypeOK, MutexHeld, DurationLeft, DurationAsked, TtlMs, NowMs, MutationKnows,
         ReadersKnow, Known, Timely, CopyDiesFirst, Copy, Changing, End

LEMMA Invariance == Spec => []Inv
<1>1. Inv /\ [Next]_vars => Inv'
  <2> SUFFICES ASSUME Inv, [Next]_vars PROVE Inv'
    OBVIOUS
  <2>1. CASE UNCHANGED vars
    BY <2>1, Stutter
  <2>2. ASSUME NEW g \in Reader,
               Ask(g) \/ Answer(g) \/ MeasureMany(g) \/ LockRead(g) \/ Warm(g)
        PROVE  Inv'
    BY <2>2, AskKeeps, AnswerKeeps, MeasureManyKeeps, LockReadKeeps, WarmKeeps
  <2>3. CASE Begin \/ Execute \/ Refused \/ Committed \/ Apply \/ Tick
    BY <2>3, BeginKeeps, ExecuteKeeps, RefusedKeeps, CommittedKeeps, ApplyKeeps, TickKeeps
  <2> QED BY <2>1, <2>2, <2>3 DEF Next
<1> QED BY <1>1, Initially, PTL DEF Spec

(* Durations and instants are what they are declared to be, and no lifetime is *)
(* ever negative (read.go, mutations.go), whatever the clocks and lifetimes.   *)
THEOREM TimesTyped == Spec => []TypeOK
<1>1. Inv => TypeOK
  BY DEF Inv
<1> QED BY <1>1, Invariance, PTL

(* L1 never keeps a copy longer than Redis keeps the original, but for the     *)
(* ticks between measuring and storing (read.go:88, 171, mutations.go:288).    *)
THEOREM CopyNeverOutlives == Spec => []CopyDiesFirst
<1>1. Inv => CopyDiesFirst
  BY DEF Inv
<1> QED BY <1>1, Invariance, PTL

(* Every lifetime Redis can answer is a duration of the process, and only      *)
(* Forever is kept without end (redis/cache.go:414, extension.go:380).         *)
THEOREM LifetimesAreDurations == Spec => []LifetimesFit
<1>1. Inv => LifetimesFit
  BY Parsed DEF Inv, LifetimesFit
<1> QED BY <1>1, Invariance, PTL
================================================================================
