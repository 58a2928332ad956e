----------------------------- MODULE ForgeStore -----------------------------
(***************************************************************************)
(* The Cosmic Forge job store: ForgeStoreService, the one JSON state it    *)
(* keeps in memory, and ForgeStateRepository, the file it saves that state *)
(* in.  Handlers run to their next await without interruption, so an       *)
(* operation without one is a single step.  An execution is as many steps  *)
(* as it has awaits: between them the operator may cancel and retry the    *)
(* job, and the same job may be executed a second time.                    *)
(***************************************************************************)
EXTENDS Naturals, Sequences, FiniteSets

CONSTANTS
    Slot,           \* execute requests that may be in progress at once
    Idle,           \* a slot without an execution
    Torn,           \* a state file whose writing a crash cut short
    JobKinds,       \* what the operator asks for
    MaxJobs,        \* bound: jobs in the store
    MaxRetries,     \* bound: retries
    MaxCrashes      \* bound: crashes of the API process

\* provider: a survey whose adapter fetches the image (IRSA, Pan-STARRS);
\* preview: an image built without an await (composites, SkyView, Legacy);
\* unsupported: no adapter for any of the surveys asked for.
ASSUME KindsAssumption == JobKinds \subseteq {"provider", "preview", "unsupported"}

VARIABLES
    state,      \* ForgeStoreService.state, the process's memory
    disk,       \* the state file
    api,        \* the API process: up, down, or loading the state file
    runs,       \* executions waiting at an await, by slot
    retries,    \* retries so far
    crashes,    \* crashes so far
    lost,       \* a crash has emptied the store, so job ids begin again: history
    told,       \* what callers were told since a crash last emptied it: history
    unsaved     \* jobs whose failure was told and not saved: history

storeVars == <<state, disk, api, runs, retries, crashes, lost, told, unsaved>>

Statuses == {"QUEUED", "RUNNING", "COMPLETED", "FAILED", "CANCELLED"}

\* claims counts the times the worker was given the job: history, like cut below.
Job == [kind : JobKinds, status : Statuses, createdAt : Nat, result : Nat,
        claims : Nat]

\* cut: the job was cancelled while the execution that made the image ran.
Image == [id : Nat, job : Nat, cut : BOOLEAN]

Run == [job : Nat, stage : {"provider", "caching"}, image : Nat, cut : BOOLEAN]

State == [jobs : Seq(Job), images : SUBSET Image, imageCounter : Nat]

ASSUME StoreAssumption ==
    /\ MaxRetries \in Nat /\ MaxCrashes \in Nat
    /\ Idle \notin Run /\ Torn \notin State

EmptyState == [jobs |-> <<>>, images |-> {}, imageCounter |-> 0]

StoreInit ==
    /\ state = EmptyState
    /\ disk = EmptyState
    /\ api = "up"
    /\ runs = [s \in Slot |-> Idle]
    /\ retries = 0
    /\ crashes = 0
    /\ lost = FALSE
    /\ told = EmptyState
    /\ unsaved = {}

\* ForgeStateRepository.save of the state in memory.
Save == disk' = state'

\* persistState, with which every handler but one ends before it answers.
Persist ==
    /\ Save
    /\ told' = state'
    /\ unsaved' = {}

Jobs == DOMAIN state.jobs

StatusOf(j) == state.jobs[j].status

SetStatus(j, to) == state' = [state EXCEPT !.jobs[j].status = to]

-----------------------------------------------------------------------------
(* The operator's requests.                                                *)

Latest == IF state.jobs = <<>> THEN 0 ELSE state.jobs[Len(state.jobs)].createdAt

\* createCutoutJob, createCompositeJob.  Two jobs may be made within one
\* millisecond of isoNow().
Create(k) ==
    /\ api = "up"
    /\ Len(state.jobs) < MaxJobs
    /\ \E tick \in {0, 1} :
          state' = [state EXCEPT !.jobs = Append(@,
              [kind |-> k, status |-> "QUEUED", createdAt |-> Latest + tick,
               result |-> 0, claims |-> 0])]
    /\ Persist
    /\ UNCHANGED <<api, runs, retries, crashes, lost>>

\* Mutated form: the cancellation is answered and not saved.
CancelUnsaved(j) ==
    /\ api = "up"
    /\ StatusOf(j) \notin {"COMPLETED", "FAILED"}
    /\ SetStatus(j, "CANCELLED")
    /\ told' = state'
    /\ UNCHANGED <<disk, api, runs, retries, crashes, lost, unsaved>>

\* A finished job is returned as it is; a cancelled one is cancelled again.
Cancel(j) ==
    /\ api = "up"
    /\ StatusOf(j) \notin {"COMPLETED", "FAILED"}
    /\ SetStatus(j, "CANCELLED")
    /\ runs' = [s \in Slot |-> IF runs[s] # Idle /\ runs[s].job = j
                               THEN [runs[s] EXCEPT !.cut = TRUE] ELSE runs[s]]
    /\ Persist
    /\ UNCHANGED <<api, retries, crashes, lost>>

\* The images of an earlier execution stay where they are.
Retry(j) ==
    /\ api = "up"
    /\ retries < MaxRetries
    /\ StatusOf(j) \in {"FAILED", "CANCELLED"}
    /\ SetStatus(j, "QUEUED")
    /\ retries' = retries + 1
    /\ Persist
    /\ UNCHANGED <<api, runs, crashes, lost>>

\* cacheImageArtifactById: of the state modelled here it only saves.
CacheImage ==
    /\ api = "up"
    /\ state.images # {}
    /\ UNCHANGED state
    /\ Persist
    /\ UNCHANGED <<api, runs, retries, crashes, lost>>

-----------------------------------------------------------------------------
(* The worker's requests: claim a job, then execute it.                    *)

Queued == {j \in Jobs : StatusOf(j) = "QUEUED"}

\* A stable sort by createdAt of a list that has the newest job first.
SortsBefore(i, j) ==
    LET ti == state.jobs[i].createdAt
        tj == state.jobs[j].createdAt
    IN ti < tj \/ (ti = tj /\ i >= j)

IsNextQueued(j) == j \in Queued /\ \A k \in Queued : SortsBefore(j, k)

\* claimNextJob when there is a queued job.
ClaimNext(j) ==
    /\ IsNextQueued(j)
    /\ state' = [state EXCEPT !.jobs[j].status = "RUNNING",
                              !.jobs[j].claims = @ + 1]
    /\ Persist
    /\ UNCHANGED <<api, runs, retries, crashes, lost>>

EndRun(s) == runs' = [runs EXCEPT ![s] = Idle]

Published(st, j, i, cut) ==
    [st EXCEPT !.jobs[j].status = "COMPLETED",
               !.jobs[j].result = i,
               !.images = @ \cup {[id |-> i, job |-> j, cut |-> cut]}]

NextImageId == [state EXCEPT !.imageCounter = @ + 1]

\* executeClaimedJob of a job that is not RUNNING, or not in the store.
ExecuteNothing(j) ==
    /\ j \in Jobs => StatusOf(j) # "RUNNING"
    /\ UNCHANGED <<state, disk, runs, told, unsaved>>

ExecutePreview(j) ==
    /\ j \in Jobs /\ StatusOf(j) = "RUNNING" /\ state.jobs[j].kind = "preview"
    /\ state' = Published(NextImageId, j, state.imageCounter + 1, FALSE)
    /\ Persist
    /\ UNCHANGED runs

\* Mutated form: a job without an adapter is left as it is.
ExecuteUnsupportedIgnored(j) ==
    /\ j \in Jobs /\ StatusOf(j) = "RUNNING" /\ state.jobs[j].kind = "unsupported"
    /\ UNCHANGED <<state, disk, runs, told, unsaved>>

\* The one outcome that is not saved.
ExecuteUnsupported(j) ==
    /\ j \in Jobs /\ StatusOf(j) = "RUNNING" /\ state.jobs[j].kind = "unsupported"
    /\ SetStatus(j, "FAILED")
    /\ told' = state'
    /\ unsaved' = unsaved \cup {j}
    /\ UNCHANGED <<disk, runs>>

\* setJobProgress saves before the image id is taken, not after.
ExecuteProvider(s, j) ==
    /\ j \in Jobs /\ StatusOf(j) = "RUNNING" /\ state.jobs[j].kind = "provider"
    /\ state' = NextImageId
    /\ disk' = state
    /\ told' = state'
    /\ unsaved' = {}
    /\ runs' = [runs EXCEPT ![s] = [job |-> j, stage |-> "provider",
                                    image |-> state.imageCounter + 1, cut |-> FALSE]]

StartRun(s, j) ==
    /\ api = "up"
    /\ \/ ExecuteNothing(j)
       \/ ExecutePreview(j)
       \/ ExecuteUnsupported(j)
       \/ ExecuteProvider(s, j)
    /\ UNCHANGED <<api, retries, crashes, lost>>

-----------------------------------------------------------------------------
(* What follows the awaits of an execution.                                *)

\* A cancelled job's execution ends without an image, wherever it stands.
HonorCancellation(s) ==
    /\ StatusOf(runs[s].job) = "CANCELLED"
    /\ EndRun(s)
    /\ UNCHANGED state
    /\ Persist

\* Mutated form: the status is not looked at after the await.
PublishImageUnchecked(s) ==
    /\ state' = Published(state, runs[s].job, runs[s].image, runs[s].cut)
    /\ EndRun(s)
    /\ Persist

PublishImage(s) ==
    /\ StatusOf(runs[s].job) # "CANCELLED"
    /\ state' = Published(state, runs[s].job, runs[s].image, runs[s].cut)
    /\ EndRun(s)
    /\ Persist

\* A FITS image is fetched into the artifact cache before it is published.
StartCaching(s) ==
    /\ runs[s].stage = "provider"
    /\ StatusOf(runs[s].job) # "CANCELLED"
    /\ runs' = [runs EXCEPT ![s].stage = "caching"]
    /\ UNCHANGED state
    /\ Persist

\* The catch of executeClaimedJob, which does not look at the status.
FailRun(s) ==
    /\ SetStatus(runs[s].job, "FAILED")
    /\ EndRun(s)
    /\ Persist

ResumeRun(s) ==
    /\ api = "up"
    /\ runs[s] # Idle
    /\ \/ HonorCancellation(s)
       \/ PublishImage(s)
       \/ StartCaching(s)
       \/ FailRun(s)
    /\ UNCHANGED <<api, retries, crashes, lost>>

-----------------------------------------------------------------------------
(* The process.  save truncates the file before it writes it; load, given  *)
(* a file it can read, has createInitialState save an empty state before   *)
(* it saves what it read.                                                  *)

\* A crash that tears the file, or falls between load's two saves, loses every job.
Crash ==
    /\ api \in {"up", "loading"}
    /\ crashes < MaxCrashes
    /\ crashes' = crashes + 1
    /\ api' = "down"
    /\ state' = EmptyState
    /\ disk' \in {disk, Torn}
    /\ IF api = "loading" \/ disk' = Torn
       THEN lost' = TRUE /\ told' = EmptyState /\ unsaved' = {}
       ELSE UNCHANGED <<lost, told, unsaved>>
    /\ runs' = [s \in Slot |-> Idle]
    /\ UNCHANGED retries

\* Mutated form: normalizeState drops the images.
LoadFoundWithoutImages ==
    /\ api = "down"
    /\ disk # Torn
    /\ api' = "loading"
    /\ state' = [disk EXCEPT !.images = {}]
    /\ disk' = EmptyState
    /\ UNCHANGED <<runs, retries, crashes, lost, told, unsaved>>

LoadFound ==
    /\ api = "down"
    /\ disk # Torn
    /\ api' = "loading"
    /\ state' = disk
    /\ disk' = EmptyState
    /\ UNCHANGED <<runs, retries, crashes, lost, told, unsaved>>

LoadSave ==
    /\ api = "loading"
    /\ api' = "up"
    /\ UNCHANGED state
    /\ Save
    /\ UNCHANGED <<runs, retries, crashes, lost, told, unsaved>>

\* Mutated form: what cannot be parsed is kept as the state.
LoadUnreadableKept ==
    /\ api = "down"
    /\ disk = Torn
    /\ api' = "up"
    /\ state' = Torn
    /\ UNCHANGED <<disk, runs, retries, crashes, lost, told, unsaved>>

LoadUnreadable ==
    /\ api = "down"
    /\ disk = Torn
    /\ api' = "up"
    /\ state' = EmptyState
    /\ Save
    /\ UNCHANGED <<runs, retries, crashes, lost, told, unsaved>>

-----------------------------------------------------------------------------
\* The store by itself: any client may claim and execute, in any order.
StoreNext ==
    \/ \E k \in JobKinds : Create(k)
    \/ \E j \in Jobs : Cancel(j) \/ Retry(j) \/ (api = "up" /\ ClaimNext(j))
    \/ CacheImage
    \/ \E s \in Slot : \/ ResumeRun(s)
                       \/ \E j \in Nat : runs[s] = Idle /\ StartRun(s, j)
    \/ Crash \/ LoadFound \/ LoadSave \/ LoadUnreadable

StoreSpec == StoreInit /\ [][StoreNext]_storeVars

-----------------------------------------------------------------------------

StoreTypeOK ==
    /\ state \in State
    /\ disk \in State \cup {Torn}
    /\ api \in {"up", "down", "loading"}
    /\ runs \in [Slot -> Run \cup {Idle}]
    /\ retries \in 0..MaxRetries
    /\ crashes \in 0..MaxCrashes
    /\ lost \in BOOLEAN
    /\ told \in State
    /\ unsaved \subseteq Nat

\* A COMPLETED job shows an image that is in the store and that was made for
\* it, whatever was cancelled, retried, executed twice or lost in a crash.
CompletedHasItsImage ==
    \A j \in Jobs : StatusOf(j) = "COMPLETED" =>
        \E i \in state.images : i.id = state.jobs[j].result /\ i.job = j

\* What callers were told about jobs and images is what a restart finds: it is in the
\* file, or in the hands of the load that has emptied the file.  The exceptions are
\* named: a crash that tears the file or falls between load's two saves loses
\* everything told before it, and the failure of a job that no survey adapter serves
\* is not saved before the next save of any job.
WhatWasToldIsOnDisk ==
    LET kept == IF api = "loading" THEN state ELSE disk
    IN  disk # Torn =>
        /\ kept.images = told.images
        /\ DOMAIN kept.jobs = DOMAIN told.jobs
        /\ \A j \in DOMAIN told.jobs \ unsaved : kept.jobs[j] = told.jobs[j]

\* A job yields at most one image for each time it was claimed, even when an
\* execution that was cancelled outlives the retry, or the API restarts with its
\* state file whole.
OneImagePerClaim ==
    ~lost => \A j \in Jobs : Cardinality({i \in state.images : i.job = j}) <= state.jobs[j].claims

\* While a job is CANCELLED no execution completes it: each looks at the
\* status again after every await.
CancelledIsNotCompleted ==
    [][\A j \in Jobs \cap Jobs' : StatusOf(j) = "CANCELLED" => StatusOf(j)' # "COMPLETED"]_storeVars

\* An execution during which the operator cancelled the job publishes nothing,
\* as cancelJob's message and the tests say.
CancelledRunPublishesNothing == \A i \in state.images : ~i.cut

=============================================================================
