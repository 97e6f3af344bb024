# Verification of frankenphp-tiered-cache

TLA+ models of the tiered cache behind the FrankenPHP extension, the TLC runs
that check them on small instances, and TLAPS proofs about them. Paths below
are relative to the repository (`src/` here).

- [The system](#the-system)
- [Modules](#modules)
- [Runs](#runs)
- [Fairness](#fairness)
- [What is proved](#what-is-proved)
- [Where the code and its documents disagree](#where-the-code-and-its-documents-disagree)
- [What is left out, and why](#what-is-left-out-and-why)
- [Plan](#plan)

## The system

A PHP process (FrankenPHP) holds one `TieredCache`: an in-memory L1
(`MemoryCache`) over one Redis (L2) that several processes share. Redis is the
truth. A Pub/Sub channel, with `CLIENT TRACKING` of one marker key beside it,
carries invalidations between the processes.

| Component | State | Operations | Interacts with |
|---|---|---|---|
| `internal/cache/tiered` mutations (`mutations.go`) | `mutationMu`, `mutationVersion` | Set, Forever, Add, SetMany, Increment, Decrement, Forget, Touch, Flush | L2, then L1, then the bus; marks what could not be published; degrades |
| reads (`read.go`) | nothing of their own | Get, GetMany | L1 and L2 without a lock, both checked again under `mutationMu`; degrade on an L2 error |
| subscriber (`invalidation.go`) | `invalidationReady` | subscribe, flush, receive, apply, close, retry | the bus; L1 under `mutationMu` |
| health and recovery (`health.go`, `recovery.go`) | `healthState`, `healthEpoch`, `pendingInvalidations`, `pendingFlush` | degrade, probe, publish what is owed, flush, become healthy | Redis, the bus, L1 |
| lifecycle (`lifecycle.go`) | `closed`, `lifecycleMu` | Close | waits for all of the above |
| `internal/cache/memory` | sharded maps, `current`, `entries`, `evictionMu`, the access clock | the cache operations, eviction, purge, Flush, maintenance | nobody |
| `internal/cache/redis` cache | a client | one command or script per operation, Flush as SCAN and DEL | Redis |
| `internal/cache/redis` bus | one subscription: a Pub/Sub and a tracking goroutine, bounded channels | Publish, Subscribe, Receive, HandlePushNotification, Close | Redis |
| `internal/cache/invalidation` | none | event codec | the bus |
| `internal/observability` | atomic counters; a pressure window | observe, scrape; observe, report, Close | called by the tiered and the memory cache; read by Prometheus and the log |
| `extension.go`, `extension.c` | one cache per process | PHP functions, module start and stop | the tiered cache |

### What is hard about it

- A read waits for Redis with no lock held; mutations and invalidations of
  its own process and of others run in between, and it must not put in L1 what
  nobody will invalidate any more (`read.go:45`).
- The Redis command and its PUBLISH are two commands. Each may fail, or be
  executed and lose its reply; what was not announced has to be remembered,
  repeated, and not overtaken by recovery (`mutations.go:301`, `recovery.go:27`).
- Five locks and an epoch order five kinds of goroutine, and the health state
  may change at any moment without `mutationMu` (`health.go:69`).
- A subscription breaks; everything read before it is up again is suspect
  (`invalidation.go:127-195`).
- Redis tells of a FLUSHDB or a changed marker once, on one connection, and only
  if that connection has read the marker since: the push is read only with the
  next reply, its channel may be full, and two goroutines end in their own time
  (`redis/invalidation.go:153-410`).
- How long an entry has to live is measured in one place and counted in another,
  by two clocks, with waiting in between (`read.go:171`, `mutations.go:288`).
- Metrics and the eviction window are written by several goroutines, field by
  field, while they are read (`metrics.go:497`, `pressure.go:75`).
- The memory cache reserves bytes from an atomic counter under one shard's
  lock while others insert, overwrite, expire and evict under theirs
  (`memory/cache.go:548-606`).

### What makes it correct

| Component | Properties |
|---|---|
| reads, mutations, subscriber together | an outdated L1 entry is served only while somebody is still due to drop it (`Coherent`), also for an answer of Redis not yet in L1 (`FillsCoherent`), and it does go (`StaleIsDropped`) |
| mutations | own writes are never undone in L1 (`OwnWritesVisible`), batches are not torn (`BatchNotTorn`) |
| health and recovery | a process becomes healthy with an empty L1 and a subscription, or with a lost one it is about to act on (`HealthyStartsEmpty`); an available process owes nothing (`NothingOwedWhileAvailable`); it recovers (`Recovers`) and pays (`OwedIsPaid`) |
| lifetimes | a copy in L1 outlives its original by no more than the time between measuring and storing (`CopyDiesFirst`); every lifetime PHP may ask for survives the conversions (`LifetimesFit`) |
| redis bus | it is the event stream the subscriber assumes (`ImplementsEventStream`): a reset that Redis announces is always followed by a flush or an error (`ResetIsOnItsWay`, `ResetArrives`), the marker is always watched again (`MarkerIsWatched`), Close returns and frees the slot (`CloseReturns`, `Resubscribes`) |
| observability | a scrape never shows more samples than calls (`ScrapeOrdered`), the gauge agrees with the health (`HealthMirrored`), an eviction is reported once (`ReportedOnce`), also by Close (`ReportedOnClose`), and in the end (`PressureReported`) |
| counters | what a counter becomes is exact or an overflow (`CountersAreExact`) |
| lifecycle | nothing runs after Close (`QuietAfterClose`); every call returns (`CallsReturn`) |
| memory cache | it is the store the tiered cache assumes (`ImplementsLossyStore`); its counters agree with its maps (`Accounting`), the budget holds (`WithinBudget`), expired entries go first (`PurgesFirst`) and only they (`ExpiryKeepsLive`); room is found when there is some (`AloneIsStored`); calls return (`CallsReturn`) |

## Modules

| Module | What it is |
|---|---|
| `TieredCache` | any number of processes over one Redis and one bus |
| `TieredCacheProofs` | its type theorem, and the safety theorems about one process |
| `TieredCacheCoherence` | coherence between processes and of batches, on top of those |
| `MCTieredCache` | small instances of it |
| `LossyStore` | what `TieredCache` assumes of an L1 |
| `MemoryCache` | the memory cache, shown to implement `LossyStore` |
| `MCMemoryCache` | small instances of it |
| `MemoryCacheProofs` | its type and safety theorems, and that of the counters |
| `MemoryCacheRefinement` | the theorem that it implements `LossyStore` |
| `FiniteSums` | lemmas about sums and counts over finite sets |
| `CounterArithmetic` | the signed counters of the memory cache |
| `EventStream` | what `TieredCache` assumes of a subscription |
| `InvalidationBus` | one process's subscription to Redis |
| `InvalidationBusProofs` | its type and safety theorems, and that it implements `EventStream` |
| `TimeToLive`, `MCTimeToLive` | lifetimes in Redis and in the L1 of one process, and a small instance |
| `TimeToLiveProofs` | its type and safety theorems |
| `Observability` | the metrics and the pressure reporter, with those who call them |
| `ObservabilityProofs` | its safety theorems |

### TieredCache

A value is the stamp (`clock`) of the mutation that wrote it, and 0 is "no
entry": all the properties need is which value is older. State that the code
has is named as in the code; `op[p]` is the call that holds `mutationMu` of
process `p`, `rd[g]` the read in flight of goroutine `g`, `sub[p]` and `rec[p]`
the places of the subscriber and the recovery goroutine. `orphan`, `own`,
`ops` and `faults` are history and bounds.

| Code | Actions |
|---|---|
| a mutation | `OpBegin` (closed, available), `L2Commit` / `L2Reject` / `L2Fail` / `L2LostReply`, `FlushScan`..`FlushScanned`, `Bump` (`mutationVersion`), `StoreKey`, `Reconcile`, `FlushStore`, `OpPublish`, `OpMark` |
| `Get`, `GetMany` | `RdBegin`, `RdTop`, `RdL1`, `RdHit`, `RdVersion`, `RdL2`, `RdWarm`, `RdReturn` |
| `runInvalidationSubscriber` | `SubSubscribe`, `SubLock`, `SubFlush`, `SubReady`, `SubIgnoreOwn`, `SubApply`, `SubReceiveErr`, `SubClose`, `SubDegrade`, `SubDegradeFlush`, `SubRetry`, `SubStop` |
| `tryRecovery` | `RecTick`, `RecProbe`, `RecPublishFlush`, `RecPublishKey`, `RecPublished`, `RecLock`, `RecFlush`, `RecEnter`, `RecHeal`, `RecStop` |
| `Close` | `CloseBegin`, `CloseLocked`, `CloseEnd` |
| the world | `L1Drop` (expiry, eviction), `Disconnect`, `ExternalFlush`, `Crash` |

How the locks are modelled: `mutationMu` is held while `op[p].pc` is not
`idle`; sections that take it and do nothing slow in it are one step guarded by
`MutexFree`. `recoveryMu` is held in `rec.pc` `flush`, `enter` and `heal` and in `sub` `flushL1` and
`emptying`, where its holder waits for `mutationMu`; `stateErrMu` in `heal`, between the checks of
`enterHealthy` and its store, and nobody degrades the process there (`StateErrMuFree`), while the
subscriber may withdraw `invalidationReady`, which no lock guards. `pendingMu` is held in
`pending` (PUBLISH runs with it held), `lifecycleMu` for reading by a read in
flight and for writing from `CloseLocked`; once a writer waits,
no reader starts.

Deliberate abstractions, each towards more behaviours:

- A subscription is the *set* of events not yet delivered: they may be reordered
  and two equal ones merged. Applying one is idempotent, and the model's
  properties do not count them. The order of Pub/Sub and tracking events is
  not defined in the code either (`redis/invalidation.go`, `Receive` selects).
- A failing `Forget` or `Flush` of L1 is the fault `l1flush`; the error of a single
  refused key is `l1set`. `MemoryCache` has the second only.
- The deadline of an entry may pass at any time: `late` in `Bump` and `Warm`, and
  `L1Drop` afterwards.
- `RedisCache.Flush` deletes one key at a time, in any order; the tracking
  marker, which the SCAN pattern also matches, is one of them (`NoKey` in
  `op.left`), and deleting it tells any subset of the subscribers, which ones
  depends on when each last read it.
- Redis itself loses nothing. `FLUSHDB` by others is `ExternalFlush`.

### LossyStore and MemoryCache

`LossyStore` says what the tiered cache relies on: each operation takes effect,
key by key, at one moment between call and return; a write may be refused; an
entry may be dropped at any time; a read never answers with a value that is
not the current one. `TieredCache` uses exactly that of `l1`: atomic reads and
writes per key, `l1set` for a refusal, `L1Drop` for a drop.

`MemoryCache` splits every operation where its locks split it. A section under
one shard's lock is a step, except where something another goroutine can see
happens inside it: a writer reserves its bytes from `current` (an atomic that
writers of *other* shards use at the same time) in `WriteReserve` and inserts in
`Insert`, with its shard locked in between; a purge deletes entries one by one;
Flush locks all shards, clears the maps, then the counters, then unlocks.
`Remove` and `WriteReserve` take an entry out of its map and its bytes out of `current` in one step: in
the code the shard stays locked between the two, so all that others could see is bytes that are given
back later than the entry goes, as if it had gone later. That a writer of another shard may reserve between
the removal of an expired entry and the reservation that replaces it is the case in which a purge or maintenance
has removed the entry before.
`evictionMu` is `ev.owner`, and `ev` also says where in `evictFor` or `Flush` the
owner is. The address of an entry, which `deleteExpired` and `tryEvictCandidate`
compare, is its `id`, and an id is used again once nobody refers to it, as the
allocator may. The refinement mapping (`Visible`, `Seen`) makes a write take
effect when its bytes are reserved: from then on its shard is locked until it is
in the map. `Get` that finds an expired entry takes effect there, not when
it deletes it.

Left out: the access clock (eviction may sample any entry, the LRU order is a
heuristic), statistics and observer, the maintenance cursor (any shard, any
sample). The value of a counter is `CounterArithmetic`: integers that wrap around at
any width, `counterResult` and `checkedCounterAdd` on them.

### EventStream and InvalidationBus

`EventStream` says what `TieredCache` relies on in a subscription: the events
that were announced are due until delivered, in any order, perhaps twice; some
may be lost, but then an error is coming; an error comes only for a reason.

`InvalidationBus` is `redis/invalidation.go` for one process. `tr` is where the
user of the tracking connection is: `Subscribe` while it sets the connection up
(`id`, `track`, `setnx`, `get`), then `monitorTracking` (`select`, `probe`, and
`setnx`, `get` again for a refresh). `rcv` is where `receivePubSub` is, `rx` where
`Receive` is, `sub` where the subscriber is that calls them. The four channels and
the signal are named as in the code. `stream` is what Redis has put on the tracking connection:
pushes wait there until somebody waits for a reply, as go-redis reads pushes only
then. `marker`, `tracking` and `tracked` are Redis's side of it.

| Code | Actions |
|---|---|
| `Subscribe` | `Subscribe`, then `Execute` and `ReadReply` for each command, `CommandError` |
| `HandlePushNotification`, `enqueueTracking` | `HandlePush`, `Enqueue` |
| `monitorTracking` | `MonitorRefresh`, `MonitorTick`, `MonitorStop`, and the commands |
| `receivePubSub`, `sendPubSub` | `PubSubRead`, `PubSubError`, `PubSubSend`, `PubSubGiveUp` |
| `Receive` | `ReceiveFirst` (an error has precedence), `Receive` (the select) |
| `Close` | `CloseBegin`, `CloseEnd` |
| the world | `ExternalFlush`, `MarkerChange`, `PeerMarker`, `MalformedPush`, `Publish`, `BreakPubSub`, `BreakTracking`, `Restart`, `Stop` |

Two variables are history, each since L1 was last emptied: `announced`, Redis has told this connection of a
FLUSHDB or of a change of the marker; `missed`, keys of the prefix were cleared or the marker was changed while
Redis had nobody to tell, because the connection had not read the marker again. Left out: the failure of L1's
Flush after Subscribe (`TieredCache` has it), a `Subscribe` whose Pub/Sub is not confirmed (nothing has
happened then).

### TimeToLive

One key, one mutation at a time, any number of readers. The process counts ticks,
Redis milliseconds, `Ms` ticks each; an entry is in Redis through its last
millisecond. Values, failures and other processes are not here but in `TieredCache`. `late` is
history: the time that passed between measuring what was left of a lifetime
and storing the copy, which is the code's own imprecision. `Get` and the mutations
measure with `mutationMu` held, `GetMany` before it waits for it (`read.go:173`), so
its copies may live longer by that wait.

### Observability

The counters that properties compare, one atomic operation a step: `ObserveL2` and
`ObserveBatch`, the lookup counters of `Get` and `GetMany` in the order the code moves
them, `SetDegraded` and the recovery counters inside and outside `stateErrMu`, and
`Snapshot` reading them one by one. A scrape (`Load`) takes them in groups, in the order of the code:
lookups, misses, then errors, buckets, batches and calls of each operation (`ReadLookups`, `ReadL2`); within a
group one fixed order stands for that of the array. `seen` is the snapshot so far. The reporter is a window, a goroutine
and any number of closers. The ticker is abstracted to "a flush may come whenever
there is something to report".

## Runs

TLC finishes each run; the counts are distinct states (in `memory_budget` up to the exchange of the
goroutines, `SYMMETRY`; it checks no liveness).

| Run | Instance | Question | States |
|---|---|---|---|
| `coherence` | 2 processes, 1 key, 1 reader, 2 mutations, 1 failure of a publish, a connection or a reply | `Coherent`, `FillsCoherent` | 1.6M |
| `failures` | the same, 1 mutation, 2 of: refused L1 write, failed L1 flush, failed publish, crash, external FLUSHDB | `TypeOK`, `Coherent`, `HealthyStartsEmpty` | 1.5M |
| `batch` | 1 process, 2 keys, 1 reader, 2 batch, conditional, counter, touch or flush mutations, 1 failure | `OwnWritesVisible`, `BatchNotTorn` | 2.6M |
| `lifecycle` | 1 process, 1 reader, 1 mutation (a write or a Flush), Close, 2 of: an error of Redis, a failed publish, a lost or refused subscription, FLUSHDB, a crash; fairness | `QuietAfterClose`, `NothingOwedWhileAvailable`, `CallsReturn`, `Recovers`, `StaleIsDropped`, `OwedIsPaid` | 0.14M |
| `memory_budget` | 2 goroutines, 2 shards of 1 key, room for 3 bytes, entries of 1 and 2 bytes, 4 calls, 2 instants; counters of 2 bits, which have every boundary a wider one has (the theorem covers each width) | `TypeOK`, `Accounting`, `WithinBudget`, `PurgesFirst`, `ExpiryKeepsLive`, `AloneIsStored`, `CountersAreExact` | 0.6M |
| `memory_contract` | 2 calls of every kind, batches included, 2 instants, fairness | `ImplementsLossyStore`, `CallsReturn` | 0.2M |
| `invalidation_bus` | 1 key, channels of 1 place, 3 turns of what others do and failures, Close at any time, fairness | `TypeOK`, `ResetIsOnItsWay`, `MarkerIsWatched`, `ImplementsEventStream`, `ResetArrives`, `CloseReturns`, `Resubscribes` | 0.26M |
| `ttl` | 2 readers, any number of mutations, 5 instants, 2 ticks to a millisecond, 6 lifetimes of which 2 are valid | `TypeOK`, `CopyDiesFirst`, `LifetimesFit` | 4.2M |
| `observability` | 2 goroutines, 2 closers, 2 turns of calls and evictions, 1 recovery attempt, lookups and scrapes of `GetMany`, fairness | `TypeOK`, `ScrapeOrdered`, `HealthMirrored`, `ReportedOnce`, `ReportedOnClose`, `PressureReported` | 0.56M |
| `partial_flush`, `lost_reply`, `marker_window` | the smallest instance that shows it | see the findings | stops at a violation |

Why these bounds are enough to meet the cases: an incoherent entry needs a
reader and one mutation of somebody else; a wrong order needs a second mutation
(of the same process: lost version bump, or of the other: crossed
invalidations); a failed retry needs a failure of the retry, hence two failures. More
readers change nothing a single one does not, as readers share only L1 and L1
is only filled where it is empty; a third process would play the part of the
second. Two keys are needed for batches only, and there one process
suffices, as the keys of a batch are invalidated one by one. In the memory
cache, two shards and entries that do not fit together (3 bytes, two of
2) make every write of the second compete, evict and purge.

In the bus, one place in the channel is the case where it is full; a subscription
that fails, the next one and a reset in it take two turns, a third is a second thing going wrong.
In `ttl` a lifetime of one or two seconds (of one millisecond each), a clock
that starts anywhere in it and one more instant meet every rounding; a lifetime
too long for `MaxDuration` is among those asked for. In `observability` one thing is
counted while another is, so two goroutines; the operation is the one with batches (`Get` counts
like a `GetMany` of one key without them; the theorems cover both, and any number of everything).

`MaxOps`, `MaxFaults`, `MaxCalls`, `MaxTime`, `MaxTurns`, `MaxAttempts` and `MaxNow` are the bounds of
the guards. Runs do not check deadlock where a run ends when they are used up;
`observability` does, as a scrape can always come; `invalidation_bus` does not, as
a subscriber that is stopped is done.

Every property has a mutant: an operator (`VersionUnchecked`, `MarkNothing`,
`HasRoomNow`, ...) that stands for a plausible bug of the definition it replaces
and makes TLC find the property violated. They are the definitions whose
comment starts with "Mutant".

## Fairness

`FairSpec` of `TieredCache`: weak fairness of every goroutine (mutation, read,
subscriber, recovery, Close). A goroutine that may go on is scheduled; a Redis
call returns (with a result, or an error after its timeout); the back-off and
probe timers fire. Nothing is assumed of callers, failures, crashes, expiry or
connections. Locks need weak fairness only, since mutations and failures are
bounded and so nobody can be overtaken for ever; in the code `sync.Mutex` has its
starvation mode for that. Processes do not wait for each other, so one is
enough for `CallsReturn` and `QuietAfterClose`, and what a process owes depends
on its own bus only, so one is enough for `NothingOwedWhileAvailable`, `OwedIsPaid` and `Recovers`. An
entry becomes outdated in `lifecycle` by FLUSHDB, whose event may be lost with the subscription; to the process that
is the same as an event of a peer. That peers become outdated by each other's mutations, and who then
still has to tell them, is checked and proved as safety, with any number of them (`Coherent`).
The recovery goroutine may start an attempt after Close has asked it to stop, when `select` takes the ticker; it
still stops under weak fairness, because the subscriber withdraws `invalidationReady` on its way out. Because mutations are bounded the run does not show
that a read ends under endless mutations, and in the code it need not: the retry
loops of `Get` and `GetMany` have no bound.

`FairSpec` of `MemoryCache` is the same: callers that are inside a call, the owner
of `evictionMu`, and a maintenance pass under way go on.

`FairSpec` of `InvalidationBus`: weak fairness of the commands on the tracking connection
(Redis answers, or the command fails by its timeout), of both goroutines and of the subscriber;
strong fairness of `MonitorStop`, because `select` chooses at random among what is ready and
cannot for ever prefer the ticker to a context that is done. Nothing is
assumed of the others, of failures, or of the end of the process.

`FairSpec` of `Observability`: weak fairness of the reporter's goroutine and of the
return of each Close. The lookups, the recovery and the scrapes need none.

## What is proved

For every value of the constants: any set of processes, keys, readers or goroutines, every choice of
operations and failures, any number of them, and any size of a buffer or an integer. The
assumptions are the `ASSUME` of each module, which says what kind of thing
its constants are. Two theorems have a hypothesis more, which the table names.
`MemoryAssumption` supposes finitely many keys and goroutines, because the model adds up over them.

| Theorem | Says |
|---|---|
| `TypeCorrect` (`TieredCacheProofs`) | `TypeOK` always holds |
| `CloseIsFinal` | `QuietAfterClose`: once Close has returned, nothing of the process runs |
| `RecoveryIsClean` | `HealthyStartsEmpty`: a process becomes healthy only with an empty L1, no mutation half done, and a subscription in place or one whose loss the subscriber is about to act on |
| `OwnWritesStay` | `OwnWritesVisible`: a process that serves reads never has a value in L1 older than its own last mutation of the key |
| `NothingIsOwed` | `NothingOwedWhileAvailable`, if `"l1flush" \notin Faults`: a process that serves reads has published every invalidation it owed |
| `CacheIsCoherent` (`TieredCacheCoherence`) | `Coherent`: a process that serves reads holds an outdated entry only while somebody is still due to invalidate it |
| `FillsAreCoherent` | `FillsCoherent`: so is an answer of Redis that the version check would let into L1 |
| `BatchesAreWhole` | `BatchNotTorn`: `GetMany` never answers with a value older than a mutation its process had made by then |
| `MemoryTyped` (`MemoryCacheProofs`) | `TypeOK`: no counter ever holds a value that overflows, and a new entry always finds an identity nobody refers to |
| `CountersAgree` | `Accounting`: `current` and the number of entries agree with the maps, but for a Flush between clearing one and zeroing the other |
| `BudgetHolds` | `WithinBudget`: however many writers reserve at once, the cache stays within its budget |
| `ExpiryTakesNoLive` | `ExpiryKeepsLive`: nothing that removes what it saw expired removes a live entry |
| `EvictionPurgesFirst` | `PurgesFirst`: no live entry is a candidate while one is left that had expired when the eviction began |
| `AloneWritesAreStored` | `AloneIsStored`, if every entry costs a byte or more: a valid write that no other call overlaps is stored |
| `CountersExact` | `CountersAreExact`: with integers of any width, a counter becomes the exact result or the call reports an overflow |
| `CacheImplementsStore` (`MemoryCacheRefinement`) | `ImplementsLossyStore`: the memory cache implements `LossyStore` |
| `TimesTyped` (`TimeToLiveProofs`) | `TypeOK`: no instant and no lifetime is ever negative |
| `CopyNeverOutlives` | `CopyDiesFirst`: a copy outlives its original by no more than the ticks between measuring and storing, whatever the resolution of either clock |
| `LifetimesAreDurations` | `LifetimesFit`: every PTTL of a key this program wrote becomes the duration it means, and only Forever becomes 0 |
| `BusTyped` (`InvalidationBusProofs`) | `TypeOK`: every channel stays within its buffer, every goroutine in its place |
| `ResetNeverLost` | `ResetIsOnItsWay`: a reset that Redis announces, or a restart, has a flush or an error on its way until L1 is emptied or the subscription ends |
| `MarkerStaysWatched` | `MarkerIsWatched`: a marker Redis does not track is about to be read again, or the subscription about to fail |
| `BusImplementsStream` | `ImplementsEventStream`: the bus implements `EventStream` |
| `ObservabilityTypes` (`ObservabilityProofs`) | `TypeOK`: what is still to be counted is a list of additions to known counters, and no counter is negative |
| `ScrapesAreOrdered` | `ScrapeOrdered`: no scrape shows more errors than samples, more samples or batches than calls, or more answered lookups than misses of L1 |
| `MetricsMirrorHealth` | `HealthMirrored`: outside `stateErrMu` the metrics agree with the health |
| `PressureReportedOnce` | `ReportedOnce`: an observed eviction is in the window, in a report or reported, once |
| `PressureReportedOnClose` | `ReportedOnClose`: when a Close has returned, what was observed before the first has been reported |

The argument for `TieredCache`. `TypeOK` is inductive: one step per action. *Frame lemmas*
(`OpFrame`, `RdFrame`, `SubFrame`, `RecFrame`, `CrashFrame`, `WorldFrame`) then say
once what each goroutine may change, and the invariants below are proved from
the frames wherever the details of an action do not matter.

- `CloseInv`. `QuietAfterClose` alone is not inductive: it has to be known that no mutation and
  no read past its first check is left when Close gets the lock, and that a
  subscriber in any place without a subscription is connected to nothing.
- `RecoveryInv`. Between its flush (under `mutationMu`) and `enterHealthy` the process is
  degraded all along, so no mutation begins and no read fills L1, which therefore is
  still empty when it becomes healthy. Between the checks of `enterHealthy` and its store (`heal`) the subscriber
  may lose its subscription; it then stands before `transitionToDegraded`, waiting for `stateErrMu`
  (`ReadyOrLeaving`), so the process that becomes healthy is degraded next.
- `RecentInv`. `OwnWritesVisible` rests on four facts about each process. `RedisRecent`: Redis never
  holds less than what a mutation has written, whoever writes later.
  `OpShape`: what the fields of a mutation say of each other. `L1Recent`: a healthy
  process has nothing older in L1 except keys its mutation has yet to apply,
  those L1 refused included, until the flush that replaces them; while degraded
  L1 may hold anything, and `RecoveryInv` says that is gone before it is healthy. `ReadsRecent`: an answer of
  Redis that still has the current version is as recent as Redis was when it
  answered, because every acknowledgement bumps the version in the same step.
- `OwedInv`. What a process owes is published before the recovery flush, so the danger is an
  invalidation that becomes owed in between. It cannot: a mutation that is in
  progress when the subscription breaks holds `mutationMu`, which the subscriber
  needs before it is ready again, and recovery waits for it to be ready.
  A process that its own mutation degrades while it goes on would break this; only a failed
  L1 flush does that, hence the assumption.

- `CoherenceInv`. `Told` is what `Coherent` allows: an event for the key waits or its receiver will
  flush, another process still has to publish one, or nobody is left to do it. It is stable: a PUBLISH that
  reaches every subscription turns a debt into an event, one that is delivered empties the entry, and what
  fails stays owed. `Coherent` is not inductive because a value is outdated before it gets to L1: the
  answer a reader has in hand (`ReadCoherent`, which is `FillsCoherent` with a place for the
  mutations that have changed Redis and not bumped the version yet) and the value a mutation is about to
  store (`OpCoherent`: if a peer has overwritten it meanwhile, the peer tells). A degraded process may hold
  anything; that it is healthy only after a flush is `RecoveryInv`.
- `BatchInv`. While the version a `GetMany` loaded is current no mutation is in the middle of L1, and what it has
  seen there and in Redis is no older than the last one; `RecentInv` supplies what Redis and L1 hold.

For `MemoryCache`, `Shape` says who is where: `evictionMu` has one owner, whose place in `evictFor` or
`Flush` fits that of its call; two writers between reserving and inserting are in two shards, and the owner holds
neither. Most of the actions change a key of an unlocked shard
or their own call, and `Effects` and `CallEffects` say so once. On it rest:

- `Books` (`Accounting`, `WithinBudget`, and the maps are empty while Flush has yet to zero the counters). A writer
  reserves the difference to the entry it replaces, and inserts later; that entry is still there,
  since its shard is locked. A sum over the keys changes by what changes for one
  (`SumChange`), and that is where the entries and the goroutines have to be finitely many.
- `Purged`. A shard the eviction has purged holds nothing that had expired by `ev.now`, and a writer that inserts
  there has read the clock since, so it cannot bring back an entry that had.
- `Alone`. With one call, only maintenance interferes, and it only removes: bytes in use never grow, a candidate
  that is gone has given its bytes back, and an eviction that finds none has seen every shard empty. An entry that costs nothing
  (the empty value under the empty key, `Cost` 0) would end it: evicting it frees no byte and counts as a failure.

The refinement needs one invariant more, `Asked`: what a call has left to do, besides the key it is at. Then
each action is a step of `LossyStore` or none. A write takes effect in `WriteReserve`, or is refused there or by the eviction that
failed; `Get` where it looks, also when it finds an expired entry; a Flush in `FlClear`, for all keys at
once; expiry by the clock, by a purge or by eviction is a `Drop` of each of the keys that callers can no longer see
(`Tick` drops several). `VisibleIs` says what callers see of a key: its entry if it is live,
or what the writer that has its shard will put there.

`FiniteSums` proves about `SumFunction`, which the community modules define by a recursive function, that it is
the same in any order, that it changes with one value by the difference, that it is at most another sum if its
terms are, that it is 0 or a natural number if they are, and what it is of one or two terms. This is an induction over finite sets, which the library states with operators as
parameters; here it is by the least counterexample.

For `InvalidationBus`, `BusInv`. That something is on its way depends on where
the goroutines are. `Places`: a goroutine that has ended while the subscription is open has left an
error, unless the process is being closed. `Restarted`: once Redis has restarted Pub/Sub is broken
until the next subscription asks for its id, so that an id that happens to be the old one
deceives nobody. `Tracking`: a connection that is up and still the one `Subscribe` set up has
tracking on, hence a push follows a reset that is announced. `Watched` is `MarkerIsWatched` from the first command
on. Three lemmas carry the steps: an error that is coming stays so (`ErrorStays`), a push that is sent
is handled or its connection lost (`ResetStays`), a flush that is queued stays until L1 is emptied
(`QueuedStays`). The refinement (`OpenStep`) then says of each step what it does to each key that is due and
to the flush: nothing, announce one, deliver one, or lose some behind an error.

For `Observability`, the invariant says which parts of a report or a health change are done
in each place of the reporter, the subscriber and the recovery. `ScrapeOrdered` makes one promise about several
pairs of sets of counters, A and B: A never shows more than B. Errors and buckets of an operation are such a
pair, buckets and calls, batches and calls, the lookups that missed L1 and its misses. Two
invariants carry each pair. `CountInv`: every list of additions adds to B before A, once, and to A
no more than to B (`Ordered`), so the sum of A, with what those who are past their B still owe to A
(`OwedTo`), is at most that of B. `ScrapeInv`: once a scrape has read any of B it has read all of A, and what it
has read of A is at most what it has or will have of B. The writers' order gives that at the moment
the first of B is read; after it A is read and B only grows. Either order alone would not do.

For `CounterArithmetic` the wrapped sum is compared with the exact one by the signs of the operands.

For `TimeToLive`, `CopyDiesFirst` says nothing of a lifetime that is still on its way to L1, so
`Inv` does: a reader that no mutation has overtaken (`Known`), and a mutation that has changed Redis
(`MutationKnows`), each know an instant that the original reaches. `started + ttl` for the one, `deadline` for the
other: what is stored later is that instant, plus `late`. `MutexHeld` keeps the two apart while they store,
and `DurationLeft` bounds what PTTL answers by what `phpTTL` let in, so that nothing overflows. The products
and quotients by `Ms` are in lemmas of their own.

Only model-checked: all liveness (`CallsReturn`, `Recovers`, `StaleIsDropped`, `OwedIsPaid`,
`ResetArrives`, `CloseReturns`, `Resubscribes`, `PressureReported`). Liveness under fairness is out of
this prover's reach. Every other invariant and step property of the passing runs is a theorem.

## Where the code and its documents disagree

1. `partial_flush`: `TieredCache.Flush` of which Redis has executed a part
   degrades its own process and tells nobody (`tiered/mutations.go:413`). Its peers
   stay available with entries Redis no longer has, until their TTL.
   `tiered/cache.go:15-17` and `docs/src/architecture.md:31-36` promise the
   invalidation or its retry and name a crash as the only exception. (Often the
   marker is deleted too, and tracking then flushes everybody; the SCAN may fail
   before it gets there.)
2. `lost_reply`: a mutation whose reply is lost bumps no version, nor does recovery
   (`tiered/recovery.go:52`). A `Get` that asked Redis before the mutation and is
   scheduled again after recovery puts the old value in L1. The comment at
   `tiered/read.go:106-108` says the version protects from that.
3. `marker_window`: Redis announces a change of the marker once, and the next one only
   after the GET of `ensureTrackingMarker` (`redis/invalidation.go:275-285`). The push of the first queues a
   flush and then the signal for that GET; the flush may be delivered, and L1 filled again, before the
   GET is executed. If the keys of the prefix are deleted again, or the marker is changed again, in that
   window, nothing follows: no push, no flush, no error, and the subscription stays open.
   `docs/src/architecture.md:57-58` promises without exception that deleting or changing the marker,
   clearing all keys of the prefix and FLUSHDB clear L1 at the subscribers. FLUSHDB always does, as Redis
   tells every tracking connection of it; the other two do whenever Redis announces them
   (`ResetIsOnItsWay`), and the window always closes (`MarkerIsWatched`).

Remarks, which are not disagreements or cannot be shown by a run of the program as it is:

- With an L1 whose Flush can fail, recovery may publish what is pending
  before the mutation in flight adds its own invalidation, and make the process
  healthy over it (`tiered/recovery.go:27`): add `l1flush` to the faults of
  `lifecycle` to see it. `MemoryCache.Flush` never fails, so this needs another
  implementation of the contract and is not a fault of the program.
- The tracking channel only ever holds flushes and errors (`HandlePushNotification` makes one
  flush of any push it can read), so the overflow flag stands for nothing that
  a queued flush does not say already; the comment in `enqueueTracking` is about single keys.
- A scrape may show items of a batch before the batch is counted (`batchCalls` is read before
  `batchItems`), the degraded gauge before its transition, and more recovery results than
  attempts (`metrics.go:507`, `518`, `520`). The comment at `metrics.go:497` promises the order of errors,
  buckets and calls only, which holds (`ScrapeOrdered`).
- The reporter's "at most one report per interval" (`pressure.go:25`) is not exact when a report is slow, or at
  Close; and what is observed after the last flush is never reported (`ReportedOnClose` promises what was observed
  before the first Close). The extension never closes its reporter once it has started.
- `GetMany`'s copies may outlive their original by the wait for `mutationMu` (`read.go:173`).
  A foreign key whose PTTL exceeds 292 years would overflow in `parsePTTL`.

`Coherent` holds with exactly these exceptions and crashes: `orphan` records which
process changed which key and will not tell whom.

## What is left out, and why

- Payloads, error texts, logging: no property depends on them. TTL values are in
  `TimeToLive` only.
- A tiered cache without a bus: then nothing is promised between processes.
- An error of `L1.Get`: `MemoryCache` has none.
- The JSON of an event and the encoding of values: functions of one argument that unit tests cover.
- Counters of which nothing is promised but that they grow (invalidations, pending marks, post-commit
  errors, L1 gauges and evictions), the Prometheus collector and Caddy's metrics module.
- The extension apart from `phpTTL`: it converts PHP values and error classes around one call of the tiered cache
  and keeps only a pointer to it, set once when the process starts.
- Configuration: what is validated there is assumed of the constants.
- The modules do not compose into one state machine of everything: `TieredCache` uses an L1 and an
  event stream that `MemoryCache` and `InvalidationBus` are shown to implement, and `TimeToLive` and `Observability`
  add what it abstracts from. The product of them is out of TLC's reach.
- `AloneIsStored` is about one writer. With several, a valid write may be refused
  although room could be made: others may take it first (`MaxEvictionRetries`).

## Plan

Done: `TieredCache` with its safety theorems, coherence included; `LossyStore` and `MemoryCache`
with theirs and the refinement; `CounterArithmetic`; `EventStream` and `InvalidationBus` with the
refinement; `TimeToLive` and `Observability` with theirs. Every safety property of the passing runs is proved.

What could follow:

1. The remaining counters of the metrics, if something comes to be promised of them.
2. The extension's start and stop, if a cache comes to be closed while PHP runs.
