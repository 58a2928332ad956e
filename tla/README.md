# Formal models of phase-2-cosmic

TLA+ models of the parts of phase-2-cosmic whose correctness depends on the
order in which things happen: the governance service that stores and runs jobs,
the Cosmic Forge job store and its worker, the event pipeline from Pulsar to the
browser, the ingest of broker messages as jobs, and the load generators' profile.
TLC checks the models on small instances; TLAPS proves theorems about every one of
them for every value of the constants. `PROJECT.json` maps each definition to the
lines it models and lists the runs, mutants, findings, hazards and theorems.

## The system and its hard parts

Paths are relative to `src/`; `gov` is
`apps/java-governance/src/main/java/com/cosmic/governance`.

| Component | State it keeps | Operations | Talks to |
|---|---|---|---|
| Record compare-and-set (`gov/api/util/JobRecordMutator.java`) | none; a per-key lock for the fallback | `mutate`: WATCH, GET, mutator, MULTI, SET, EXEC, retried on conflict | Redis; `JobService.getValue/setValue` as fallback |
| Job life cycle (`gov/api/service/JobService.java`, `gov/api/executor/`) | `job:<id>` records; tasks on three thread pools | submit, get, transition, cancel, retry, lineage, manifest, delete, release; scanner; restart recovery; executor tasks | executors, Redis, audit |
| Job index and retention (`JobService.java`) | `job:index:createdAt`, backfill marker and lock, `job:requestid:*`, TTLs | backfill, list, expire, purge, claim | Redis, ingest |
| Governance ingest (`gov/api/service/GovernanceIngestProcessingService.java`, `gov/api/messaging/`) | claimed request ids | `process` from Kafka, Pulsar, RabbitMQ; dead letters | JobService, brokers |
| Forge job store (`apps/cosmic-forge-api/src/state/`) | one JSON state: jobs, images, events | create, claim, execute, cancel, retry, persist | survey providers, artifact cache, worker, GraphQL |
| Forge worker (`apps/cosmic-forge-worker/src/main.ts`) | running count | poll, claim, execute, at most two at a time | Forge API over HTTP |
| Artifact cache (`apps/cosmic-forge-api/src/artifacts/`) | index file and image files | cache, read, sweep | file system |
| Event pipeline (`tools/pulsar-collector`, `tools/java-ingest`, `apps/frontend/server.nest.ts`, `.../services/ingest-event-stream.service.ts`) | LRU of event ids, claims in Redis or a bounded map, ring buffer of 50, the browser's list | consume, forward, retry, dead-letter, claim, record, stream | Pulsar, Kafka, Nest API, Redis, browser |
| Runtime load profile (`apps/frontend/src/app/services/runtime-load-profile.service.ts`, `server.nest.ts`) | profile, list of workers, auto-revert timer | setProfile, auto-revert, shutdown | generator processes or containers, telemetry |
| Transient alerts (`gov/api/service/TransientAlertService.java`) | bounded dead-letter queue | ingest, replay | none |
| Telemetry cache, audit, datasets, schemas, archive, metrics, filters, Nest gateway, Angular UI, tools | caches, counters, views | reads and single writes | the above |

What is hard in it:

* **Writers that do not agree on a protocol.** The API and the simulator change
  a job record by compare-and-set; the TACC and VO executors, the release of
  deferred jobs and the restart sweep read it, change their copy and SET it.
* **Tasks that outlive their reason.** Executors schedule tasks seconds ahead;
  by the time they fire the job may have been canceled, retried or deleted. The
  scanner may dispatch a job that was dispatched already.
* **Restarts.** Records survive, scheduled tasks do not.
* **Redis exceptions** before or after the effect, which turn a compare-and-set
  into the lock-based fallback.
* **Awaits in the Forge store**: a job is canceled and retried while its first
  execution is still waiting for the provider.
* **Brokers** that redeliver, and a claim that is taken before the work it
  stands for, in the Nest server as in governance.
* **Awaits in setProfile**, which nothing keeps a second request or the
  auto-revert timer out of, while processes exit when they like.

`PROJECT.json` lists these hazards line by line, with the properties that cover
them.

## Modules

| Module | Extends | Models |
|---|---|---|
| `AtomicRecord` | | what the compare-and-set promises: each call's change is applied atomically or not at all |
| `JobRecordMutator` | | `JobRecordMutator.mutate`, one Redis command per step |
| `JobLifecycle` | | `JobService`'s operations on a record, scanner, recovery, executors |
| `JobIndex` | | `JobService`'s createdAt index: submit, delete, backfill, list, purge |
| `ForgeStore` | | `ForgeStoreService`, its JSON state and the file it is saved in |
| `ForgeWorker` | `ForgeStore` | the worker's pump over the store: the composition of the two |
| `LoadProfile` | | `RuntimeLoadProfileService`, the endpoint and the timer that call it, its processes |
| `EventPipeline` | | pulsar-collector, java-ingest, the Nest server's event endpoints, the browser's list, and the brokers between them |
| `GovernanceIngest` | | the three broker listeners, `process`, the claim of a request id, the lifetime of the job |
| `MC*` | the module | the small sets the configurations use |
| `*Proofs`, one for each module but `AtomicRecord` and `MC*` | the module, `TLAPS` | the theorems |

A definition whose comment begins with "Mutated form" is the bug a mutant puts
in place of the definition below it; nothing else uses it.

**JobRecordMutator.** `redis` and `memory` are the record in the two stores, a
record being abstracted to how often each call's change is in it. `pc`,
`attempt`, `broken` and `copy` are the locals of a call of `mutateWithWatch`
or `mutateUnderLock`; `broken` is what WATCH lets EXEC find out. `RedisThrows`
and `ExecReplyLost` are exceptions before and after the effect. `DeleteJob`
removes the key outside the protocol, as `JobService.deleteJob` does.
`AtomicRecord` is refined with `ImplementsAtomicRecord`.

**JobLifecycle.** `store` holds the records; `pending` counts the scheduled
tasks of each kind, which run in any order; `thread` is what a pool thread has read
and not yet written. Compare-and-set writers are one step, because
`JobRecordMutator` shows that they are atomic while Redis answers; the others are a
load and a write. `Mutated` is what a task's compare-and-set may do: commit, or give
up after its attempts or on a Redis exception, which leaves the record alone. A call
of the API that fails so is declined and no step. A load that throws ends the task, a
SET that throws loses the change; only the VO executor notices that, and tries to fail
the job. A restart empties `pending` and `thread` and starts the recovery sweep, which
meets the scanner and new calls. `acked`, `deleted` and `view` are history: what
clients have been told. So are `clobbered` (jobs whose record a thread has SET without
having read the one it replaces), `unversioned` (jobs the TACC executor has
changed, which leaves the version alone) and `unattended` (jobs that were running with
nothing left that would end them).

**JobIndex.** `records`, `index`, `claims`, `marker` and `lock` are the keys in
Redis; `submits`, `sweep`, `purge`, `listing` and `deleting` are the operations
in progress, each Redis call a step that may also throw (the actions named `...Fails`
and `...BreaksOff`). Job ids are numbers in the order of `createdAt`. A SCAN shows
every key that is there throughout; which of the keys that come meanwhile it shows is
chosen when it starts. A record stands for `job:<id>`, `:logs` and `:artifacts`. A
listing walks the index up to `MaxWalk` ranks and `MaxListed` records
(`MAX_INDEX_WALK`, `MAX_LISTED_RECORDS`) and may come upon a job twice. `acked`,
`raced` and `missed` are history: what clients were told, whether a purge has met a
submit or a sweep, and which jobs a Redis call that threw has left out of the index.

**ForgeStore, ForgeWorker.** JavaScript runs a handler to its next `await`, so
an operation without one is one step. An execution is `StartRun`, then
`ResumeRun` after the provider and after caching, and a job may have two. `disk` is the
saved file; `Torn` is a file cut off in the middle of a save. A load reads the file,
puts an empty state in its place and saves the loaded one, in steps of their own. The
worker is `pump`, `active` and one slot of `calls` per request in flight, whose request
or reply may be lost. `told` is history: the jobs and images that callers have been
answered with. So are `unsaved` (jobs whose failure was told and not saved), `claims`,
`cut`, `overlapped` and `lost`.

**LoadProfile.** `at` says where each call of `setProfile` or `shutdown` stands,
`thread` which one goes on without an await; `workers` is the service's list,
`proc` what the operating system knows of each process, `armed` the timers
that run and `timer` the one the service remembers. Stopping waits for exits or
two seconds; local starts are one step, containers one step each. A process is "left"
when a removal of its container failed, or when it ignored the one SIGTERM of a
`setProfile` that gave up; it is "stray" when it runs although its `start()` threw.
The service does nothing more about either (`Stranded`).
`overlapped`, `mistaken` and `setBy` are history.

**EventPipeline.** A message is in `pulsar`, then as copies on the topic of each
attempt (`kafka`), in the hand of that topic's `listener` thread, as a request at
the server's `handler`, in `buffer`, in the SSE `stream` and in `shown`. Redis
answers the server in order (`answers`), so a claim and the record it allows are
two steps, and a listener that has given up leaves its handler at work.
The collector's writer leaves `RequiredAcks` at the zero value, kafka-go's
`RequireNone`, so a write that returns nil may be stored (`Forward`) or not
(`ForwardUnstored`), and Pulsar is acknowledged either way. `vanished`, `recorded`,
`burnt` and `troubled` are history.

**GovernanceIngest.** `thread` is the message each listener (or an operator's
request) has in hand and how far `process` and `submit` are; `claims` are the
keys `job:requestid:*`; a job is the message it came from and where its record is: in
Redis, with a TTL or without, in the memory of the process, which `setValue` falls back
on when Redis throws, or gone with that process. Only a record in Redis counts as a
job. `fate` decides whether a message fails validation or makes `submit`
throw, before or after the record is written. `swallowed`, `dropped`, `burnt`,
`troubled` and `unrecorded` (messages at the first write of whose record Redis threw)
are history.

## What the runs show

| Run | Instance | Shows |
|---|---|---|
| `mutator_redis` | 3 calls and a delete on one key, 2 attempts, no exceptions | no acknowledged change is lost; `AtomicRecord` is implemented: answers are true, deletions hold, every call ends |
| `mutator_faults` | the same, 2 exceptions, one call without fallback | at most once; EXEC never drops a change; every call ends |
| `lifecycle` | 1 job of any executor, 2 calls, 2 dispatches in flight, tasks in any order, a release, a restart, a failed Redis call | metadata, versions and deletions are lost only by a SET over a record not read; deferred jobs are held, queued jobs taken up; simulated runs end unless left to nobody |
| `lineage_lost` | 1 TACC job, 1 call | **finding**: an executor SETs its copy over an acknowledged lineage |
| `forge_queue` | 2 jobs of any kind, 2 retries, 3 slots, a lost message | one image per claim, bounded concurrency, a cancelled job is not completed |
| `forge_restart` | 1 job, 2 slots, a crash anywhere, a retry, a lost message | what callers were told is what a restart finds, but for two crashes and a failure named there; completed jobs have their image; the queue moves, runs end |
| `forge_cancel` | 1 job, cancel and retry | **finding**: a cancelled execution publishes |
| `job_index` | 2 instances, 2 legacy jobs and a new one, two of: delete, purge, list, restart, a Redis call that throws, expired lock | marked means indexed but for what a failed call passed by; listings leave out only what their limits cut off; a purge keeps what it was told to if it could read that |
| `load_profile` | 2 requests and their timers, a shutdown, 2 workers, 2 failures, 5 environments | a generator escapes the list only through a race, or when the service's one attempt to end or start it failed; telemetry is stale only after the timer or a failure; the service comes back to the base profile and an empty list |
| `event_pipeline` | 2 events of 3 kinds, 2 attempts, caches of 1, a window of 2, 2 faults | nothing is lost but what Kafka never stored and what a dying server has claimed; projected once while Redis keeps its claims; the panel shows the buffer; every message ends |
| `governance_ingest` | one request on Kafka, on Pulsar and by an operator, or on Kafka beside a RabbitMQ message without id; one fails; 2 faults | one job per request; a duplicate has its job in Redis or an exception named there; nothing is lost but by Pulsar or with a record Redis threw at; every message ends |
| `ingest_lifetime` | the same, no faults | **finding**: a broker's job stays for ever |

A finding's run expects TLC to find the property violated; the finding in
`PROJECT.json` quotes the line of the repository that promises it. Every other
property has a mutant that TLC finds.

### Divergences

What the modelled code does against what it says of itself. The first three have a
run each; each of the others is behaviour of a module, which its properties make an
exception of, by name.

* `lineage_lost`, `forge_cancel`, `ingest_lifetime`: the findings of `PROJECT.json`.
* `TaccExecutorStub`, `VoJobExecutor`, `releaseDeferredJobs` and
  `completeStaleRunningJobs` SET the copy they read, the update loss that
  `JobService.java:1120` gives as the reason for the compare-and-set. They undo
  acknowledged lineages, manifests and deletions and lower versions (`clobbered`), and
  the TACC executor changes a record under the same version (`unversioned`), so that
  `expectedVersion` does not notice.
* The executors' tasks set RUNNING and COMPLETED over a CANCELED that was
  acknowledged. On the simulator's pool of two, which a harvest may hold up, a start
  can run after its completion and leave the job RUNNING; so does a completion whose
  compare-and-set gives up (`JobRecordMutator.java:130`) or fails: nothing in the code
  ends such a job (`unattended`).
* One Redis exception turns a compare-and-set into a plain GET and SET on a Redis
  that works again, which overwrites a change acknowledged in between
  (`JobRecordMutator.java:88`; line 19 promises "without losing a concurrent
  writer's changes"). Hence `Separated` below.
* A SCAN that Redis breaks off is recorded as a whole backfill (`JobService.java:159`),
  and so is one in which a read or a ZADD threw and the key was passed by (lines 465
  and 357); lines 335-336 promise that "only a completed sweep records completion".
  Hence `missed`.
* A purge whose ZREVRANGE throws takes it that there is nothing to keep
  (`JobService.java:842`) and unlinks the jobs it was told to keep: `blind`.
* A listing that finds anything in the index never scans, so before the backfill is
  over it hides older jobs (`JobService.java:1277`); `ListingIsComplete` owes those
  only afterwards. The comment on its limits (lines 1273-1276) says older jobs age out
  of the listing, which is what the property allows.
* A record that Redis throws at is kept in the memory of the process
  (`JobService.java:525`), where a restart loses it, and `getValue` (line 452) does not
  look there as long as Redis answers. The message has been acknowledged:
  `unrecorded`.
* A claim is burnt by an attempt that dies or throws between claim and record, in
  `process` (whose comment gives this as the reason to claim after validation) and
  in `receiveIngestEvent`: `burnt` in both modules.
* The collector acknowledges a message in Pulsar when `WriteMessages` returns nil
  (`main.go:143`), which under `RequireNone` (lines 111-115) does not say that Kafka has
  it: `vanished`.
* `setProfile` has nothing to keep a second call out. The call that ends last
  overwrites `this.workers`, and the exit of an old worker takes a new one with
  its id off the list, so a generator can run on in no list, past the auto-revert
  that "reverts stress mode after a maximum duration to prevent runaway load"
  (`documentation/stress-test/README.md:133`). Without any race it runs on when the
  removal of its container fails (`runtime-load-profile.service.ts:246`, 456), when it
  ignores the SIGTERM that a failed `setProfile` sends once (243), and when its
  container has started although `start()` threw (397-427). `OrphansNeedARace` says
  that these are the only ways.
* A crash of the Forge API between the two saves of a load, or in the middle of a save,
  leaves an empty or a torn file, and the next load starts from nothing, against the
  "restart-survivable local state" of its `PERSISTENCE_PLAN.md:34`. An unsupported
  job's failure is told and not saved (`forge-store.service.ts:385`).
* The panel lists an event again on reconnection if its payload is no JSON object,
  because the id compared is the payload's (`Raw` in `EventPipeline`).

### Bounds

The bounds stop behaviours, they do not change steps; each is a guard.

* `MaxAttempts` is 2 where the code has 8: an attempt that conflicts starts over
  with nothing but its counter changed, so the third differs from the second
  only in who else has finished. Three calls make two of them conflict with
  each other and with a third.
* `MaxCalls`, `MaxRestarts`, `MaxFaults`, `MaxRetries`, `MaxCrashes` count
  events. Each property speaks of two actors' steps around one event, or two
  for a retry. In `JobIndex` one `MaxCalls` counts all of them, so that two of
  any kinds are tried in every order.
* `MaxPending` is 2 where a second dispatch of a job matters (the scanner may
  dispatch a job that still is QUEUED), 1 elsewhere.
* `OneJob`: records of different jobs share only threads. `forge_queue` has two
  jobs because the queue's order and the counter of image ids are shared.
* In `lifecycle` clients ask only for terminal states (`EndingStates`): one that sets
  RUNNING itself makes a run no executor has a task for, and a deferred job the
  recovery sweep takes up. The theorem about deferred jobs makes the same assumption;
  the others make none. One Redis call of the tasks may throw, whichever it is
  (`MaxFaults` 1).
* `Slot` has one more element than `MaxConcurrency` in `forge_queue`, so that a
  breach of the limit can happen.
* In `job_index` `Window` is 1 so that a listing moves its cursor, and `MaxWalk` and
  `MaxListed` are 2 of three jobs, so that each of the limits cuts a listing off;
  `BatchSize` is 2 so that a purge of three keys takes two batches.
* `LoadProfile` numbers a call's workers from 1, so two workers per call are
  enough for an exit to hit the wrong one, and two calls with their timers and a
  shutdown for every pair to overlap. Two failures let a start fail and the cleanup
  after it fail too.
* `CacheSize` and `MemorySize` are 1 in `event_pipeline`, so that a second event
  evicts the first; two attempts make a retry and a dead letter; one request is
  outstanding per attempt's topic. `MaxFaults` is 2: a lost answer and a restart,
  or any other pair. Two events never overflow a window of 2: that the buffer drops the
  oldest is covered by the theorem alone.
* `governance_ingest` sends a request three times (two brokers that fail in
  different ways and an operator), or once beside a message without an id, and
  `MaxJobs` is more than they can make with two faults, so that it stops nobody.

### Fairness

Weak fairness is given to what the process does by itself: the scanner and the
worker's timer fire at a fixed rate, pool threads take due tasks, the
recovery sweep and a request that has started run to their end. Timers of
auto-reverts fire, a killed process ends, the listeners and the collector
receive as long as there is something to receive. An execution resumes: the
provider's request is aborted after 15 seconds; the caching stage has no such limit of
its own and rests on the defaults of `fetch` and on the renderer's answer
(`artifact-cache.service.ts:251`, 324). A container start is answered: nothing bounds
the wait for the Docker daemon, and the auto-revert timer is armed only when all
containers are up. The Pulsar listener is fair only until it ends, as its loop does
when connecting, receiving or acknowledging throws. `EventPipeline` asks fairness of
the pipeline as a whole only. No client is obliged to call, no
process to restart or crash, no lock to expire. `RunningEnds` excludes crashes and lost
requests, because a RUNNING job whose worker was told nothing is never claimed again.

## What is proved

Every invariant and every action property of a passing run is a theorem of the
specification, for every set of calls, jobs, threads, messages and workers and for
every bound. Each proof module says in its head along which argument. The
theorems assume what the `ASSUME`s of the modules say (bounds are numbers, markers
of absence are not data, kinds and requests are those of the code; TLC evaluates
them) and, where one is named below, a condition on the deployment.

| Proof module | Obligations | Theorems |
|---|---|---|
| `JobRecordMutatorProofs` | 682 | types, at most once, only the fallback loses, no lost update, refines `AtomicRecord` |
| `JobLifecycleProofs` | 1702 | types, metadata, deletions and versions are lost by clobbering only, deferred jobs held |
| `JobIndexProofs` | 2016 | types, marked means indexed, complete listings, sound purges |
| `ForgeStoreProofs` | 807 | types, cancelled is not completed, images, what was told is on disk |
| `ForgeWorkerProofs` | 1146 | types, refines `ForgeStore`, bounded concurrency, one image per claim |
| `LoadProfileProofs` | 839 | types, orphans need a race or a failed attempt, telemetry lags only reverts |
| `EventPipelineProofs` | 3564 | types, nothing that Kafka stored is lost, projected once, the panel shows the buffer |
| `GovernanceIngestProofs` | 1297 | types, nothing lost, true duplicates, one job per request |

**The compare-and-set.** `MutatorAtMostOnce` and `MutatorOnlyFallbackLoses` hold
whatever is thrown next to whatever fallback. `OnceEach` follows the change
of a call that tries one half of `mutate` only: it is in neither store nor in
another call's copy before that call returns, and once at most afterwards.
`FreshInv` says that what a call is about to write under an unbroken WATCH is the
stored record with its own change. `MutatorNoLostUpdate` and
`MutatorImplementsAtomicRecord` assume `Separated`: with Redis, either it never
throws or no call has a fallback, so that the two halves do not write
the same record (the refinement also assumes `HasRedis`). Neither property is
inductive: they say nothing of a call that holds a copy. `IInv` adds
`FreshInv`, `CopyInv` (the same for the holder of the lock), `StoreInv` (the
record holds a committed call's change once and a pending call's not at all), and
`PathInv` and `LockInv` (which half of `mutate` a call is in, and who holds the
lock).

**The life cycle.** The theorems hold with every executor, releaser, restart and
failure. Each step is classified by what it does to one job: `Born`, `Revised` (a
compare-and-set, or a SET by a thread whose copy still is the record), `Clobbered` (a
SET by one whose copy is not), `Removed`, `Seen` or `Quiet`; and each of the
properties is shown once for each class. A revision keeps the metadata and raises the
version or is noted in `unversioned`; a clobbering is noted in `clobbered`, and nothing
is claimed of that job from then on. `KeptInv` makes them inductive: nothing is known
of a job, and no thread has it in hand, before its submit (`SubmittedFirst`), and what
a client has read is the record, an earlier version of it, or unversioned
(`ViewIsPast`). So it is only the threads that load and SET that can lose anything, and only
when another writer came between the two.
`DeferredJobsAreHeld` assumes that clients do not send RUNNING
themselves, or that the service does not restart. `HeldInv`: a
deferred record has no tasks, only releasers have it in hand, and what any other
thread has in hand is no copy of a deferred record. Without the assumption the recovery
sweep may read a deferred job that a client has set RUNNING, lose the processor while
the job is released and dispatched, and write the deferred copy back.

**The index.** Any number of instances sweep, submit, delete, purge and die, and any
call of theirs may throw. `DoneMeansIndexed` speaks of a store whose marker is set, so
it does not say why setting the marker is right. `IInv` adds `SweepsCover` (what is
neither indexed yet nor missed is in the hand of every sweep in progress or ahead of
its cursor), `SubmitsIndexed` (a submit past its ZADD is in the index or missed, and
may be acknowledged), and, because a trim takes ids out again, `PurgeCovers` (a record
is kept, missed, not reached, or about to be unlinked, and the kept are still among
the newest) and `PurgeAlone`, which is what the exception for purges that meet a submit
or a sweep buys.
`ListingIsComplete` adds `NewIndexed` (unless a purge raced, acknowledged jobs are
in the index or missed) and `ListingSound`: what the listing owes is in the index,
what of it has a rank before the cursor is found unless `MaxListed` records have
matched, and what it has yet to find is older than all it has found. An empty window
ends the walk because every rank below the size of the index is somebody's
(`RanksAreTaken`).
`PurgeKeepsNewest` needs `PurgeSound` only: what a purge that is not blind owes is
stored and among the kept, and it unlinks none of those.

**Forge.** The store is proved for any caller that makes the worker's and the
browser's requests (`StoreSpec`): `SoundInv` says of the memory and of the file
that completed jobs have their image. `ForgeWhatWasToldIsOnDisk` compares the file with
the history of answers, claims included, not with the memory that a load empties:
while a load has emptied the file, what was told is in its hands. The answers are
forgotten, and only then, when a crash leaves the file torn or, between the two saves of
a load, empty.
`ForgeWorkerServesStore` shows that each step of the composition is a step of the
store or leaves it alone, so the worker inherits its theorems. `OneImagePerClaim`
counts (`Paid`): the images of a job, its executions in progress, the requests on
their way to it and the replies in the worker's hand together never exceed its
claims, all of them counted on what is saved. `Bounded` says that the pump
has room for what it claims and one call per slot.

**Load profiles.** `Supervised`: as long as no two calls have overlapped and no
exit has taken a namesake off the list, one call is at work at most, none of the
workers lives when it has stopped them, those that live while it starts others are
its own, and in between they are on the list. `SignalledIsAwaited`: a process that has had
a SIGTERM of `stopWorkers` is still awaited by the call that will kill it, so that
whoever nobody will end is `Stranded`. `Shown`: whoever sets a profile
reports it or is still starting its workers, but for the timer and a failure, and
with the kill switch on there is one profile only.

**Events.** Whatever a hop remembers of an event (Redis's claim, the server's
map, java-ingest's cache) is true only because the event was projected, or burnt,
or is about to be by the request that owns the claim; a committed record has
ended or is on a later topic. That gives `NothingIsLost` for every message that has
not vanished between the collector and Kafka, and `OneOwner` gives
`ProjectedOnce`. For `ShowsTheBuffer` the tape is the longer of the
stream and the buffer, each of which is an end of it. The browser's list begins
with the tape's first events, newest first, and has none of its others, and
what was read is among the first. Reconnection replays the buffer, so the tape
starts over with the list somewhere inside it; duplicates are skipped until the
list's place is reached.

**Governance.** `AllRecorded`: the record of every job is in Redis, unless Redis threw
at the first write of it; with `AllDealt` (what a broker
no longer waits for was submitted, swallowed, dead-lettered or dropped) that gives
`NothingIsLost`. `ClaimsAccounted`: a request id that is taken, in Redis or in memory,
was submitted, or has an attempt at work on it, or is burnt; so has every
swallowed message. Together with `AllRecorded` they give `SwallowedHasItsJob`.
`FirstOnly`: as long as no claim was lost, a request has one
job or one attempt past its claim, never both and never two.

Only model-checked: the liveness properties (`EveryCallAnswered`,
`QueuedIsTakenUp`, `SimulatedRunEnds`, `QueuedIsClaimed`, `RunningEnds`,
`RevertsToBaseline`, `EveryMessageEnds`) and with them the liveness half of
`AtomicRecord`, which are beyond TLAPS. `NoLostUpdate`, the refinement of
`AtomicRecord` and `DeferredIsHeld` are not proved outside the assumptions named above,
where they do not hold. The findings' properties do not hold either.

## What is not modelled, and why

* `JobService` in memory only (no Redis template): the mutator's fallback is
  modelled, the listing and index without Redis are trivial.
* In `JobIndex`: the fallback of a record's own SET and GET on the memory of the
  process, which `JobRecordMutator` and `GovernanceIngest` cover, filters of a listing,
  and ids that are not job ids.
* In `JobLifecycle`: failed calls of the API, which change nothing but under the
  fallback that `JobRecordMutator` covers, and what a harvest brings back.
* In `GovernanceIngest`: the end of a job whose TTL is over, the set of request ids
  from before the window, configurations without Redis or a window, and Redis
  failures of `indexRequestId` and `expireJob`, which leave an id unindexed and a
  job without TTL. What an executor does to the record is `JobLifecycle`'s.
* In `EventPipeline`: the generators, regions and partitions (a message is on one
  partition, and order between messages is not promised), attribution headers,
  java-ingest with forwarding disabled, and frames a browser cannot parse.
* In `LoadProfile`: log files, event rates and sinks, the copy of the profile in
  the governance metrics, and the history and replay of profiles in the browser.
* Job artifacts, logs, statistics and audit entries: written once, read only.
* In Forge: job progress and events, which nothing reads back into a decision;
  a restart of the worker (it keeps nothing, and loses the same replies
  as `ExecuteLost`); the manual execute-next request (the worker's claim and
  execute, by hand); the contents of the artifact cache.
* The other components, with the reasons in `PROJECT.json`. Of the transient alerts'
  dead-letter queue the code was read: it is one bounded list in memory that no other
  part sees.

## Plan

In this order.

1. `JobIndex` as a refinement of a set of jobs with one date each, for the steps
   that do not trim.
2. `ArtifactCache` with the expiry sweep, the forge view of the browser (replies of
   overlapping refreshes), `TelemetryCache`, a run for the listing's promise to scan a store that is not
   back-filled yet.
