------------------------------- MODULE TimeToLive -------------------------------
(***************************************************************************)
(* Lifetimes in one process: how long L1 keeps a copy of a key whose original *)
(* Redis lets expire (tiered/read.go, tiered/mutations.go).                   *)
(*                                                                         *)
(* Redis counts in milliseconds, the process in ticks, Ms to a millisecond.   *)
(* L1 holds the instant its copy expires, computed when it is stored from a   *)
(* duration measured before: ticks that pass in between are added to the      *)
(* life of the copy, and `late` counts them.  Failures, values and the other  *)
(* processes are those of TieredCache.                                        *)
(***************************************************************************)
EXTENDS Integers

CONSTANTS
    Reader,         \* goroutines that read the key
    Nobody,         \* nobody holds mutationMu
    Mutator,        \* the mutation holds it
    Ms,             \* ticks in a millisecond
    MsPerSecond,    \* milliseconds in a second
    Seconds,        \* lifetimes PHP asks for
    MaxDuration,    \* the largest duration, in ticks
    MaxNow          \* bound: the clock

ASSUME TimeAssumption ==
    /\ Ms \in Nat \ {0} /\ MsPerSecond \in Nat \ {0}
    /\ MaxDuration \in Nat /\ MaxNow \in Nat
    /\ Seconds \subseteq Int
    /\ Nobody \notin Reader /\ Mutator \notin Reader /\ Nobody # Mutator

VARIABLES
    now,            \* the clock, in ticks
    l2,             \* the last millisecond of the original, or Forever, or Gone
    l1,             \* the instant the copy expires, or Forever, or Gone
    late,           \* history: ticks between measuring and storing the copy
    mu,             \* who holds mutationMu
    mutation,       \* the mutation in progress
    reads           \* where each reader is

vars == <<now, l2, l1, late, mu, mutation, reads>>

Forever == -1       \* as PTTL answers
Gone == -2

MutationIdle == [pc |-> "idle", kind |-> "set", ttl |-> 0, deadline |-> 0, left |-> 0, measured |-> 0]
ReadIdle == [pc |-> "idle", many |-> FALSE, started |-> 0, ttl |-> 0, measured |-> 0, outdated |-> FALSE]

Timed == {"set", "add", "touch"}
Kinds == Timed \cup {"forever", "count", "refused", "forget"}

--------------------------------------------------------------------------------
(* Conversions. *)

Second == MsPerSecond * Ms

Failed == -1

(* Mutant: any positive number of seconds is taken. *)
PositiveTTL(seconds) == IF seconds <= 0 THEN Failed ELSE seconds * Second

(* phpTTL: a lifetime that is no duration is refused. *)
PhpTTL(seconds) ==
    IF seconds <= 0 \/ seconds > MaxDuration \div Second THEN Failed ELSE seconds * Second

Overflowing(x) == ((x + MaxDuration + 1) % (2 * (MaxDuration + 1))) - MaxDuration - 1

(* Mutant: the last millisecond of an entry is taken for no lifetime at all. *)
ZeroAsForever(ttlMillis) ==
    CASE ttlMillis = -1 -> 0
      [] ttlMillis < -1 -> Failed
      [] OTHER          -> Overflowing(ttlMillis * Ms)

(* parsePTTL: a duration, 0 for no expiry. *)
ParsePTTL(ttlMillis) ==
    CASE ttlMillis = -1 -> 0
      [] ttlMillis < -1 -> Failed
      [] ttlMillis = 0  -> 1
      [] OTHER          -> Overflowing(ttlMillis * Ms)

--------------------------------------------------------------------------------
(* Redis.  An entry is there through its last millisecond. *)

NowMs == now \div Ms

Original == l2 = Forever \/ l2 >= NowMs

PTTL == IF ~Original THEN -2 ELSE IF l2 = Forever THEN -1 ELSE l2 - NowMs

Copy == l1 = Forever \/ l1 > now

--------------------------------------------------------------------------------
(* Get and GetMany. *)

ReadSet(g, r) == reads' = [reads EXCEPT ![g] = r]

ReadRest == UNCHANGED <<now, l2, mutation>>

(* L1 has no copy: Redis is asked. *)
Ask(g) ==
    /\ reads[g].pc = "idle" /\ ~Copy
    /\ \E many \in BOOLEAN :
         ReadSet(g, [ReadIdle EXCEPT !.pc = "asked", !.many = many, !.started = now])
    /\ UNCHANGED <<l1, late, mu>> /\ ReadRest

(* Redis answers; a miss needs no copy. *)
Answer(g) ==
    /\ reads[g].pc = "asked"
    /\ ReadSet(g, IF Original THEN [reads[g] EXCEPT !.pc = "answered", !.ttl = ParsePTTL(PTTL)]
                  ELSE ReadIdle)
    /\ UNCHANGED <<l1, late, mu>> /\ ReadRest

(* GetMany measures before it waits for mutationMu ... *)
MeasureMany(g) ==
    /\ reads[g].pc = "answered" /\ reads[g].many
    /\ ReadSet(g, [reads[g] EXCEPT !.pc = "measured", !.measured = now])
    /\ UNCHANGED <<l1, late, mu>> /\ ReadRest

(* Get with mutationMu held.  Whoever has it may find a mutation has been, or *)
(* a copy.                                                                   *)
LockRead(g) ==
    /\ mu = Nobody
    /\ reads[g].pc = (IF reads[g].many THEN "measured" ELSE "answered")
    /\ IF reads[g].outdated \/ Copy
       THEN ReadSet(g, ReadIdle) /\ UNCHANGED mu
       ELSE /\ mu' = g
            /\ ReadSet(g, [reads[g] EXCEPT !.pc = "locked",
                                           !.measured = IF reads[g].many THEN @ ELSE now])
    /\ UNCHANGED <<l1, late>> /\ ReadRest

(* Mutant: the answer of Redis is as good as new. *)
NothingElapsed(r) == 0

Elapsed(r) == r.measured - r.started

(* What is left of the lifetime goes to L1, which adds it to its own clock. *)
Warm(g) ==
    LET left == reads[g].ttl - Elapsed(reads[g]) IN
    /\ reads[g].pc = "locked"
    /\ IF reads[g].ttl <= 0
       THEN l1' = Forever /\ late' = 0
       ELSE IF left <= 0 THEN UNCHANGED <<l1, late>>
       ELSE l1' = now + left /\ late' = now - reads[g].measured
    /\ mu' = Nobody /\ ReadSet(g, ReadIdle)
    /\ ReadRest

--------------------------------------------------------------------------------
(* Mutations, which hold mutationMu from beginning to end. *)

Begin ==
    /\ mu = Nobody /\ mu' = Mutator
    /\ \/ \E kind \in Timed : \E seconds \in Seconds :
            /\ PhpTTL(seconds) # Failed
            /\ mutation' = [MutationIdle EXCEPT !.pc = "asked", !.kind = kind, !.ttl = PhpTTL(seconds),
                                                !.deadline = now + PhpTTL(seconds)]
       \/ \E kind \in Kinds \ Timed :
            mutation' = [MutationIdle EXCEPT !.pc = "asked", !.kind = kind]
    /\ UNCHANGED <<now, l2, l1, late, reads>>

TtlMs == mutation.ttl \div Ms

(* The command in Redis.  A counter keeps its lifetime, or is made without one. *)
Execute ==
    /\ mutation.pc = "asked"
    /\ LET done(last) == l2' = last /\ mutation' = [mutation EXCEPT !.pc = "done", !.ttl = 0]
           refused    == UNCHANGED l2 /\ mutation' = [MutationIdle EXCEPT !.pc = "refused"]
       IN CASE mutation.kind = "set"     -> done(NowMs + TtlMs)
            [] mutation.kind = "forever" -> done(Forever)
            [] mutation.kind = "add"     -> IF Original THEN refused ELSE done(NowMs + TtlMs)
            [] mutation.kind = "touch"   ->
                 IF Original THEN done(NowMs + TtlMs)
                 ELSE l2' = Gone /\ mutation' = [MutationIdle EXCEPT !.pc = "done", !.kind = "forget"]
            [] mutation.kind = "count"   -> done(IF Original THEN l2 ELSE Forever)
            [] mutation.kind = "refused" -> refused
            [] mutation.kind = "forget"  -> done(Gone)
    /\ UNCHANGED <<now, l1, late, mu, reads>>

(* Add found the key, or a counter is none: nothing has changed. *)
Refused ==
    /\ mutation.pc = "refused"
    /\ mutation' = MutationIdle /\ mu' = Nobody
    /\ UNCHANGED <<now, l2, l1, late, reads>>

Until(deadline) == deadline - now

(* The version is bumped: what the readers in flight know is worth nothing.  *)
(* What is left of the lifetime is measured.                                 *)
Committed ==
    /\ mutation.pc = "done"
    /\ mutation' = [mutation EXCEPT !.pc = "committed", !.measured = now,
                                    !.left = Until(mutation.deadline)]
    /\ reads' = [g \in Reader |-> IF reads[g].pc = "idle" THEN reads[g]
                                  ELSE [ReadIdle EXCEPT !.pc = reads[g].pc, !.many = reads[g].many,
                                                        !.outdated = TRUE]]
    /\ UNCHANGED <<now, l2, l1, late, mu>>

(* L1 is told: Touch finds a copy or does nothing; a lifetime that is over    *)
(* removes it, and so do the counters, Forget and a Touch that found nothing. *)
Apply ==
    LET stores  == mutation.kind \in {"set", "add"} \/ (mutation.kind = "touch" /\ Copy)
        dropped == mutation.kind \in {"count", "forget", "touch"} \/ mutation.left <= 0
    IN
    /\ mutation.pc = "committed"
    /\ CASE mutation.kind = "forever"      -> l1' = Forever /\ late' = 0
         [] stores /\ mutation.left > 0    -> l1' = now + mutation.left /\ late' = now - mutation.measured
         [] OTHER                          -> dropped /\ l1' = Gone /\ late' = 0
    /\ mutation' = MutationIdle /\ mu' = Nobody
    /\ UNCHANGED <<now, l2, reads>>

--------------------------------------------------------------------------------
(* Time passes, at any moment. *)
Tick ==
    /\ now < MaxNow /\ now' = now + 1
    /\ UNCHANGED <<l2, l1, late, mu, mutation, reads>>

Init ==
    /\ now = 0 /\ l2 = Gone /\ l1 = Gone /\ late = 0
    /\ mu = Nobody /\ mutation = MutationIdle
    /\ reads = [g \in Reader |-> ReadIdle]

Next ==
    \/ \E g \in Reader : Ask(g) \/ Answer(g) \/ MeasureMany(g) \/ LockRead(g) \/ Warm(g)
    \/ Begin \/ Execute \/ Refused \/ Committed \/ Apply
    \/ Tick

Spec == Init /\ [][Next]_vars

--------------------------------------------------------------------------------
(* Properties. *)

ReadPc == {"idle", "asked", "answered", "measured", "locked"}
MutationPc == {"idle", "asked", "done", "refused", "committed"}

(* Durations and instants are what they are declared to be: no lifetime is    *)
(* ever negative.                                                            *)
TypeOK ==
    /\ now \in Nat
    /\ l2 \in Nat \cup {Forever, Gone} /\ l1 \in Nat \cup {Forever, Gone} /\ late \in Nat
    /\ mu \in Reader \cup {Nobody, Mutator}
    /\ mutation \in [pc : MutationPc, kind : Kinds, ttl : Nat, deadline : Nat, left : Int, measured : Nat]
    /\ reads \in [Reader -> [pc : ReadPc, many : BOOLEAN, started : Nat, ttl : Nat,
                             measured : Nat, outdated : BOOLEAN]]

(* The original is gone from this instant on. *)
End(last) == (last + 1) * Ms

(* Redis has changed and L1 has not been told yet. *)
Changing == mutation.pc \in {"done", "committed"}

(* A copy in L1 does not outlive the original in Redis by more than the time  *)
(* that passed between measuring what is left of its lifetime and storing it, *)
(* and a copy without end has an original without end.  Reads, mutations that *)
(* overtake them, expiry in the middle of either and the rounding of PTTL     *)
(* never add to it (read.go:88, 171, mutations.go:288, redis/cache.go:414).   *)
CopyDiesFirst ==
    Copy /\ ~Changing =>
        \/ l2 = Forever
        \/ l1 # Forever /\ l2 # Gone /\ l1 <= End(l2) + late

(* Whatever is left of an entry, PTTL's answer becomes that duration: no      *)
(* lifetime phpTTL has let in overflows, and none but Forever becomes 0, which *)
(* L1 would keep without end (redis/cache.go:414, extension.go:380).          *)
LifetimesFit ==
    Original =>
        ParsePTTL(PTTL) = CASE l2 = Forever -> 0
                            [] l2 = NowMs   -> 1
                            [] OTHER        -> (l2 - NowMs) * Ms
================================================================================
