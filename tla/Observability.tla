----------------------------- MODULE Observability -----------------------------
(***************************************************************************)
(* internal/observability, and what feeds it.                               *)
(*                                                                         *)
(* MetricsState is a set of atomics without a lock: every counter is added to  *)
(* on its own, and Snapshot reads them one by one while lookups, recoveries    *)
(* and health transitions go on.  The eviction callback of L1 also feeds       *)
(* PressureReporter, whose goroutine reports what has piled up at every tick    *)
(* and once more when it is closed.                                            *)
(*                                                                         *)
(* A goroutine does straight-line counting as a list of additions, `todo`,     *)
(* one atomic step each.  What Redis and L1 answer is chosen.                  *)
(***************************************************************************)
EXTENDS Integers, Sequences, FiniteSets, Functions

CONSTANTS
    Goroutine,      \* PHP threads, which look up
    Closer,         \* callers of PressureReporter.Close
    Nobody,
    Lookups,        \* kinds of lookup they make
    MaxBatch,       \* bound: keys of a GetMany
    Bucket,         \* latency buckets
    ErrorClass,     \* classes of errors of Redis
    Scraped,        \* bound: the operations a scrape reads the counters of
    MaxTurns,       \* bound: lookups, evictions, outages and the first Close
    MaxAttempts     \* bound: recovery attempts

ASSUME ObservabilityAssumption ==
    /\ Scraped \subseteq Lookups \cup {"recoveryProbe"} /\ "none" \notin ErrorClass
    /\ Lookups \subseteq {"get", "getMany"} /\ Lookups # {}
    /\ MaxBatch \in Nat \ {0} /\ MaxTurns \in Nat /\ MaxAttempts \in Nat
    /\ Nobody \notin Closer
    /\ Goroutine \cap {"subscriber", "recovery"} = {}
    /\ IsFiniteSet(Goroutine) /\ IsFiniteSet(ErrorClass)
    /\ IsFiniteSet(Bucket) /\ Bucket # {}

VARIABLES
    count,          \* MetricsState: counter -> value
    pc, todo,       \* where a goroutine is, and what it still has to add
    call,           \* its lookup
    health, epoch,  \* healthState, healthEpoch
    expected,       \* expectedEpoch of tryRecovery
    seen,           \* the values Snapshot has read so far
    evicted,        \* PressureReporter: evictedEntries
    reporter,       \* where its goroutine is
    taken,          \* entries it is reporting
    stop, once,     \* the channel is closed; who runs closeOnce
    closer,         \* where the callers of Close are
    observed, reported, before, \* history: entries observed, reported, observed before Close
    turns

metricVars == <<count, pc, todo, call>>
healthVars == <<health, epoch, expected>>
reporterVars == <<evicted, reporter, taken, stop, once, closer, reported, before>>

vars == <<metricVars, healthVars, seen, reporterVars, observed, turns>>

Proc == Goroutine \cup {"subscriber", "recovery"}

Operation == Lookups \cup {"recoveryProbe"}

Calls(op) == <<"calls", op>>
Buckets(op) == {<<"latencyBuckets", op, b>> : b \in Bucket}
Errors(op) == {<<"errors", op, c>> : c \in ErrorClass}
Batches(op) == {<<"batchCalls", op>>, <<"batchItems", op>>}
LookupCounters == {<<"lookup", r>> : r \in {"l1_hit", "l2_hit", "miss"}}
CacheCounters == {<<"l1Misses">>, <<"degraded">>, <<"transitions">>, <<"attempts">>,
                  <<"successes">>, <<"failures">>}

Counter == LookupCounters \cup CacheCounters \cup
           UNION {{Calls(op)} \cup Buckets(op) \cup Errors(op) \cup Batches(op) : op \in Operation}

Unread == -1

Place == {"idle", "hit", "asking", "answered", "failed", "counting", "degrading", "gauge",
          "transition", "locked", "probed", "publishing", "checking", "flushing", "entering",
          "healing"}

WritersOK ==
    /\ count \in [Counter -> Nat]
    /\ pc \in [Proc -> Place]
    /\ todo \in [Proc -> Seq(Counter \X Nat)]
    /\ call \in [Goroutine -> [op : Lookups, hits : Nat, misses : Nat]]
    /\ health \in {"healthy", "degraded"} /\ epoch \in Nat /\ expected \in Nat
    /\ turns \in Nat

ReporterOK ==
    /\ {evicted, taken, observed, reported, before} \subseteq Nat
    /\ reporter \in {"idle", "reporting", "last", "done"}
    /\ stop \in BOOLEAN /\ once \in Closer \cup {Nobody}
    /\ closer \in [Closer -> {"idle", "closing", "returned"}]

TypeOK == WritersOK /\ ReporterOK /\ seen \in [Counter -> Nat \cup {Unread}]

Turn == turns < MaxTurns /\ turns' = turns + 1

--------------------------------------------------------------------------------
(* MetricsState *)

(* Mutant: the calls are read first. *)
ReadCallsFirst(op) == <<{Calls(op)}, Errors(op), Buckets(op), Batches(op)>>

(* The order in which Snapshot reads the counters of an operation: calls last. *)
ReadL2(op) == <<Errors(op), Buckets(op), Batches(op), {Calls(op)}>>

ReadLookups == <<LookupCounters, {<<"l1Misses">>}>>

Left(group) == {c \in group : seen[c] = Unread}

AllRead(groups) == \A i \in DOMAIN groups : Left(groups[i]) = {}

Unfinished == {op \in Scraped : ~AllRead(ReadL2(op))}

(* One operation after another.  Their order, and that of the counters of a  *)
(* group, is fixed, and any will do.                                         *)
Reading == IF AllRead(ReadLookups) THEN ReadL2(CHOOSE op \in Unfinished : TRUE) ELSE ReadLookups

Complete == AllRead(ReadLookups) /\ Unfinished = {}

Read(c) == seen' = [seen EXCEPT ![c] = count[c]]

(* A scrape reads the next counter, one group after another; a new one may *)
(* follow it.                                                              *)
Load ==
    /\ IF Complete THEN seen' = [c \in Counter |-> Unread]
       ELSE \E i \in DOMAIN Reading :
                /\ Left(Reading[i]) # {} /\ \A j \in 1..(i - 1) : Left(Reading[j]) = {}
                /\ Read(CHOOSE c \in Left(Reading[i]) : TRUE)
    /\ UNCHANGED <<metricVars, healthVars, reporterVars, observed, turns>>

(* ObserveL2: the call, its bucket, and its error if it is one. *)
ObserveL2(op, bucket, class) ==
    <<<<Calls(op), 1>>, <<<<"latencyBuckets", op, bucket>>, 1>>>> \o
    (IF class \in ErrorClass THEN <<<<<<"errors", op, class>>, 1>>>> ELSE <<>>)

(* ObserveBatch *)
ObserveBatch(op, items) ==
    IF op = "getMany" THEN <<<<<<"batchCalls", op>>, 1>>, <<<<"batchItems", op>>, items>>>>
    ELSE <<>>

(* What follows when a list of additions has been worked off. *)
After(at) == IF at \in {"counting", "locked"} THEN "idle" ELSE at

(* The next addition of a goroutine. *)
Add(p) ==
    /\ todo[p] # <<>>
    /\ count' = [count EXCEPT ![Head(todo[p])[1]] = @ + Head(todo[p])[2]]
    /\ todo' = [todo EXCEPT ![p] = Tail(@)]
    /\ pc' = [pc EXCEPT ![p] = IF Tail(todo[p]) = <<>> THEN After(@) ELSE @]
    /\ UNCHANGED <<call, healthVars, seen, reporterVars, observed, turns>>

At(p, at) == pc[p] = at /\ todo[p] = <<>>

Goes(p, at, additions) ==
    /\ pc' = [pc EXCEPT ![p] = at]
    /\ todo' = [todo EXCEPT ![p] = additions]
    /\ UNCHANGED <<count, seen, reporterVars, observed>>

--------------------------------------------------------------------------------
(* Get and GetMany of the tiered cache. *)

(* mutationMu: degrading and its metrics happen under it too. *)
MutationMuFree ==
    \A g \in Goroutine : pc[g] \notin {"locked", "degrading", "gauge", "transition"}

(* The cache is available; L1 has some of the keys. *)
Begin(g) ==
    /\ At(g, "idle") /\ health = "healthy" /\ Turn
    /\ \E op \in Lookups, hits, misses \in 0..MaxBatch :
           /\ hits + misses \in 1..(IF op = "get" THEN 1 ELSE MaxBatch)
           /\ call' = [call EXCEPT ![g] = [op |-> op, hits |-> hits, misses |-> misses]]
           /\ Goes(g, IF misses = 0 THEN "hit" ELSE "asking", <<>>)
    /\ UNCHANGED healthVars

(* Everything was in L1, and the cache is still available. *)
CountHit(g) ==
    /\ At(g, "hit") /\ MutationMuFree /\ health = "healthy"
    /\ Goes(g, "counting", <<<<<<"lookup", "l1_hit">>, call[g].hits>>>>)
    /\ UNCHANGED <<call, healthVars, turns>>

(* The call to Redis has returned; duplicate keys were asked for once. *)
AskL2(g) ==
    /\ At(g, "asking")
    /\ \E bucket \in Bucket, class \in ErrorClass \cup {"none"}, items \in 1..call[g].misses :
           Goes(g, IF class = "none" THEN "answered" ELSE "failed",
                ObserveL2(call[g].op, bucket, class) \o ObserveBatch(call[g].op, items))
    /\ UNCHANGED <<call, healthVars, turns>>

(* The version has moved and the lookup starts again, or the cache is closed *)
(* or no longer available, or L1 fails: nothing of it is counted.             *)
Leave(g) ==
    /\ At(g, "hit") \/ At(g, "answered") \/ At(g, "failed")
    /\ MutationMuFree
    /\ Goes(g, "idle", <<>>)
    /\ UNCHANGED <<call, healthVars, turns>>

(* Mutant: what L1 has by now is subtracted from the misses again. *)
LateHitsTwice(c, l1, l2, missed) ==
    <<<<<<"l1Misses">>, c.misses>>, <<<<"lookup", "l1_hit">>, c.hits + l1>>,
      <<<<"lookup", "l2_hit">>, l2>>, <<<<"lookup", "miss">>, missed - l1>>>>

(* Adding zero is no step. *)
Adding(counter, n) == IF n = 0 THEN <<>> ELSE <<<<counter, n>>>>

(* What is added for a lookup of which L1 had l1 of the missing keys by now. *)
Outcome(c, l1, l2, missed) ==
    <<<<<<"l1Misses">>, c.misses>>>> \o Adding(<<"lookup", "l1_hit">>, c.hits + l1) \o
    Adding(<<"lookup", "l2_hit">>, l2) \o Adding(<<"lookup", "miss">>, missed)

(* The lookup is answered, under mutationMu. *)
CountLookup(g) ==
    /\ At(g, "answered") /\ MutationMuFree /\ health = "healthy"
    /\ \E l1, l2 \in 0..call[g].misses :
           /\ l1 + l2 <= call[g].misses
           /\ Goes(g, "locked", Outcome(call[g], l1, l2, call[g].misses - l1 - l2))
    /\ UNCHANGED <<call, healthVars, turns>>

(* Redis has failed the lookup: degradeLocked. *)
LookupFails(g) ==
    /\ At(g, "failed") /\ MutationMuFree /\ health = "healthy"
    /\ Goes(g, "degrading", <<>>)
    /\ UNCHANGED <<call, healthVars, turns>>

--------------------------------------------------------------------------------
(* Health. *)

InStateErrMu == {"gauge", "transition", "healing"}

(* Mutant: enterHealthy clears the gauge without the mutex. *)
HealsUnlocked == \A p \in Proc : pc[p] \notin InStateErrMu \ {"healing"}

StateErrMuFree == \A p \in Proc : pc[p] \notin InStateErrMu

(* Receive or Subscribe fails: degradeAndFlush. *)
SubscriberFails ==
    /\ At("subscriber", "idle") /\ Turn
    /\ Goes("subscriber", "degrading", <<>>)
    /\ UNCHANGED <<call, healthVars>>

(* transitionToDegraded takes stateErrMu. *)
Degrade(p) ==
    /\ At(p, "degrading") /\ StateErrMuFree
    /\ IF health = "degraded" THEN Goes(p, "idle", <<>>) /\ UNCHANGED <<health, epoch>>
       ELSE /\ health' = "degraded" /\ epoch' = epoch + 1
            /\ Goes(p, "gauge", <<>>)
    /\ UNCHANGED <<call, expected, turns>>

(* SetDegraded(true): only the one who turns the gauge counts the transition. *)
SetDegraded(p) ==
    /\ At(p, "gauge")
    /\ count' = [count EXCEPT ![<<"degraded">>] = 1]
    /\ pc' = [pc EXCEPT ![p] = IF count[<<"degraded">>] = 0 THEN "transition" ELSE "idle"]
    /\ UNCHANGED <<todo, call, healthVars, seen, reporterVars, observed, turns>>

CountTransition(p) ==
    /\ At(p, "transition")
    /\ count' = [count EXCEPT ![<<"transitions">>] = @ + 1]
    /\ pc' = [pc EXCEPT ![p] = "idle"]
    /\ UNCHANGED <<todo, call, healthVars, seen, reporterVars, observed, turns>>

(* tryRecovery: the probe of Redis. *)
Attempt ==
    /\ At("recovery", "idle") /\ health = "degraded" /\ count[<<"attempts">>] < MaxAttempts
    /\ Goes("recovery", "probed", <<<<<<"attempts">>, 1>>>>)
    /\ UNCHANGED <<call, healthVars, turns>>

Fail == <<<<<<"failures">>, 1>>>>

Fails == Goes("recovery", "counting", Fail)

Probe ==
    /\ At("recovery", "probed")
    /\ \E bucket \in Bucket, class \in ErrorClass \cup {"none"} :
           IF class = "none" THEN Goes("recovery", "publishing", ObserveL2("recoveryProbe", bucket, class))
           ELSE Goes("recovery", "counting", ObserveL2("recoveryProbe", bucket, class) \o Fail)
    /\ UNCHANGED <<call, healthVars, turns>>

(* recoverPendingInvalidations *)
Republish ==
    /\ At("recovery", "publishing")
    /\ Goes("recovery", "checking", <<>>) \/ Fails
    /\ UNCHANGED <<call, healthVars, turns>>

(* The epoch is remembered, unless the subscriber is not ready. *)
CheckEpoch ==
    /\ At("recovery", "checking")
    /\ \/ Goes("recovery", "idle", <<>>) /\ UNCHANGED expected
       \/ StateErrMuFree /\ expected' = epoch /\ Goes("recovery", "flushing", <<>>)
    /\ UNCHANGED <<call, health, epoch, turns>>

(* L1 is emptied, or fails, or the cache is closed. *)
FlushL1 ==
    /\ At("recovery", "flushing") /\ MutationMuFree
    /\ Goes("recovery", "entering", <<>>) \/ Goes("recovery", "idle", <<>>) \/ Fails
    /\ UNCHANGED <<call, healthVars, turns>>

(* enterHealthy, refused when there was another outage or the subscriber is *)
(* not ready.                                                              *)
EnterHealthy ==
    /\ At("recovery", "entering") /\ StateErrMuFree
    /\ \/ /\ health = "degraded" /\ epoch = expected
          /\ health' = "healthy" /\ Goes("recovery", "healing", <<>>)
       \/ Goes("recovery", "idle", <<>>) /\ UNCHANGED health
    /\ UNCHANGED <<call, epoch, expected, turns>>

Success == <<<<<<"successes">>, 1>>>>

(* SetDegraded(false); the result is counted without the mutex. *)
ClearDegraded ==
    /\ At("recovery", "healing")
    /\ count' = [count EXCEPT ![<<"degraded">>] = 0]
    /\ pc' = [pc EXCEPT !["recovery"] = "counting"]
    /\ todo' = [todo EXCEPT !["recovery"] = Success]
    /\ UNCHANGED <<call, healthVars, seen, reporterVars, observed, turns>>

--------------------------------------------------------------------------------
(* PressureReporter *)

(* OnEviction, in the middle of whatever a thread does to L1: Observe.  The *)
(* counter of evictions that follows is read on its own and left out.       *)
Evict ==
    /\ Turn
    /\ evicted' = evicted + 1 /\ observed' = observed + 1
    /\ UNCHANGED <<metricVars, healthVars, seen, reporter, taken, stop, once, closer,
                   reported, before>>

Quiet == UNCHANGED <<metricVars, healthVars, seen, observed, turns>>

(* Mutant: what is being reported stays. *)
FlushKeeps(busy, idle) ==
    /\ taken' = evicted /\ UNCHANGED evicted
    /\ reporter' = IF evicted = 0 THEN idle ELSE busy

(* flush takes everything, and reports it if there is anything. *)
Flush(busy, idle) ==
    /\ taken' = evicted /\ evicted' = 0
    /\ reporter' = IF evicted = 0 THEN idle ELSE busy

(* A tick has come, perhaps while the last report was still going on; with *)
(* nothing to report it changes nothing.                                  *)
FlushAtTick ==
    /\ reporter = "idle" /\ evicted # 0
    /\ Flush("reporting", "idle")
    /\ Quiet /\ UNCHANGED <<stop, once, closer, reported, before>>

(* Mutant: the goroutine stops at once. *)
JustStop ==
    /\ reporter = "idle" /\ stop
    /\ reporter' = "done"
    /\ Quiet /\ UNCHANGED <<evicted, taken, stop, once, closer, reported, before>>

(* The last flush; closed at a tick, either may be taken first. *)
FlushAtStop ==
    /\ reporter = "idle" /\ stop
    /\ Flush("last", "done")
    /\ Quiet /\ UNCHANGED <<stop, once, closer, reported, before>>

(* The report callback returns. *)
Report ==
    /\ reporter \in {"reporting", "last"}
    /\ reported' = reported + taken /\ taken' = 0
    /\ reporter' = IF reporter = "last" THEN "done" ELSE "idle"
    /\ Quiet /\ UNCHANGED <<evicted, stop, once, closer, before>>

(* Close: the first caller closes the channel. *)
Close(c) ==
    /\ closer[c] = "idle"
    /\ closer' = [closer EXCEPT ![c] = "closing"]
    /\ IF once = Nobody THEN Turn /\ once' = c /\ stop' = TRUE /\ before' = observed
       ELSE UNCHANGED <<once, stop, before, turns>>
    /\ UNCHANGED <<metricVars, healthVars, seen, observed>>
    /\ UNCHANGED <<evicted, reporter, taken, reported>>

(* Mutant: only the caller that runs closeOnce gets out of it. *)
FirstOnly(c) ==
    /\ closer[c] = "closing" /\ once = c /\ reporter = "done"
    /\ closer' = [closer EXCEPT ![c] = "returned"]
    /\ Quiet /\ UNCHANGED <<evicted, reporter, taken, stop, once, reported, before>>

(* It waits for the goroutine, the others for it. *)
CloseReturn(c) ==
    /\ closer[c] = "closing"
    /\ IF once = c THEN reporter = "done" ELSE closer[once] = "returned"
    /\ closer' = [closer EXCEPT ![c] = "returned"]
    /\ Quiet /\ UNCHANGED <<evicted, reporter, taken, stop, once, reported, before>>

--------------------------------------------------------------------------------
Init ==
    /\ count = [c \in Counter |-> 0]
    /\ pc = [p \in Proc |-> "idle"] /\ todo = [p \in Proc |-> <<>>]
    /\ call = [g \in Goroutine |-> [op |-> CHOOSE op \in Lookups : TRUE, hits |-> 0, misses |-> 0]]
    /\ health = "healthy" /\ epoch = 0 /\ expected = 0
    /\ seen = [c \in Counter |-> Unread]
    /\ evicted = 0 /\ taken = 0 /\ reporter = "idle" /\ stop = FALSE
    /\ once = Nobody /\ closer = [c \in Closer |-> "idle"]
    /\ observed = 0 /\ reported = 0 /\ before = 0
    /\ turns = 0

Lookup(g) == Begin(g) \/ CountHit(g) \/ AskL2(g) \/ Leave(g) \/ CountLookup(g) \/ LookupFails(g)

Transition(p) == Degrade(p) \/ SetDegraded(p) \/ CountTransition(p)

Recovery == Attempt \/ Probe \/ Republish \/ CheckEpoch \/ FlushL1 \/ EnterHealthy \/ ClearDegraded

ReporterStep == FlushAtTick \/ FlushAtStop \/ Report

Next ==
    \/ Load
    \/ \E p \in Proc : Add(p) \/ Transition(p)
    \/ \E g \in Goroutine : Lookup(g)
    \/ SubscriberFails \/ Recovery
    \/ Evict \/ ReporterStep
    \/ \E c \in Closer : Close(c) \/ CloseReturn(c)

Spec == Init /\ [][Next]_vars

(* The ticker ticks and the goroutine of the reporter runs, and its callback and *)
(* Close go on; nobody has to close it.                                     *)
FairSpec ==
    /\ Spec
    /\ WF_vars(ReporterStep)
    /\ \A c \in Closer : WF_vars(CloseReturn(c))

--------------------------------------------------------------------------------
(* What a scrape has read of a set of counters. *)
Seen(counters) == SumFunction([c \in counters |-> seen[c]])

(* A scrape that runs while lookups go on shows no more errors than samples of  *)
(* the latency, and no more samples or batches than calls (metrics.go:497-499,  *)
(* and the count of the histogram in Collect), and no more lookups that Redis  *)
(* answered or that missed than misses of L1.                                 *)
ScrapeOrdered ==
    Complete =>
        /\ \A op \in Scraped :
               /\ Seen(Errors(op)) <= Seen(Buckets(op))
               /\ Seen(Buckets(op)) <= Seen({Calls(op)})
               /\ Seen({<<"batchCalls", op>>}) <= Seen({Calls(op)})
        /\ Seen(LookupCounters \ {<<"lookup", "l1_hit">>}) <= Seen({<<"l1Misses">>})

(* A success that enterHealthy owes. *)
SuccessOwed == IF todo["recovery"] = Success THEN 1 ELSE 0

Degraded == IF health = "degraded" THEN 1 ELSE 0

(* Whoever fails first, recovers or interferes: while nobody is inside         *)
(* stateErrMu the gauge is the health of the cache, every outage was counted   *)
(* once, and every outage but the present one has its successful recovery       *)
(* (transitionToDegraded, enterHealthy).                                      *)
HealthMirrored ==
    (\A p \in Proc : pc[p] \notin InStateErrMu) =>
        /\ count[<<"degraded">>] = Degraded
        /\ count[<<"transitions">>] = epoch
        /\ epoch = count[<<"successes">>] + SuccessOwed + Degraded

(* An eviction is reported once, or being reported, or waits for the next flush. *)
ReportedOnce == observed = reported + taken + evicted

(* When a Close returns, all that was observed before the first one was called  *)
(* has been reported ("flushes events accumulated", pressure.go:71-72).         *)
ReportedOnClose == \A c \in Closer : closer[c] = "returned" => before <= reported

(* Close returns, also to a second caller, and what is observed is reported     *)
(* unless the goroutine has stopped (pressure.go:71-94).                       *)
PressureReported ==
    /\ (\E c \in Closer : closer[c] = "closing") ~> (\A c \in Closer : closer[c] # "closing")
    /\ evicted # 0 ~> (evicted + taken = 0 \/ reporter = "done")
================================================================================
