---------------------------- MODULE JobLifecycle ----------------------------
(***************************************************************************)
(* The life of a governance job: JobService's operations on the record     *)
(* job:<id>, its dispatch scanner and restart recovery, and the tasks the  *)
(* three executors schedule on their thread pools.                         *)
(*                                                                         *)
(* updateLineage, transition, retry and the simulator change the record    *)
(* through JobRecordMutator, which module JobRecordMutator shows to be     *)
(* atomic while Redis answers: here each is one step.  The TACC and VO     *)
(* executors, releaseDeferredJobs and completeStaleRunningJobs read the    *)
(* record, change their copy and SET it: here each is a load step and a    *)
(* write step of a thread that keeps the copy it has seen.  Redis may fail *)
(* a step of any task; a failed call of the API is declined, and no step.  *)
(***************************************************************************)
EXTENDS Naturals, FiniteSets

CONSTANTS
    Job,            \* job ids
    Missing,        \* a read of a missing key
    Idle,           \* a thread with nothing in hand
    TaccThread,     \* TaccExecutorStub.EXEC, a pool of one
    VoThreads,      \* VoJobExecutor.EXEC
    Releasers,      \* HTTP threads that may run releaseDeferredJobs
    RecoveryThread, \* JobService.recoveryExecutor, a pool of one
    Requests,       \* what submit may be asked for
    ApiStates,      \* states clients ask POST /jobs/{id}/transition for
    MaxCalls,       \* bound: API calls other than submit
    MaxPending,     \* bound: tasks of one kind scheduled for one job
    MaxRestarts,    \* bound: restarts of the service
    MaxFaults       \* bound: Redis calls that fail in a task

Names == {"unset", "simulator", "tacc", "vo", "unknown"}

ASSUME RequestsAssumption ==
    Requests \subseteq [workflow : {"ingest", "vo", "other"}, executor : Names,
                        deferred : BOOLEAN]

VARIABLES
    store,        \* the record under job:<id>
    submitted,    \* ids already handed out
    pending,      \* scheduled tasks, by job and kind
    thread,       \* what each thread has in hand
    recovering,   \* keys the restart sweep's cursor has yet to pass
    calls,        \* API calls made
    restarts,     \* restarts so far
    acked,        \* the lineage and manifest clients were last told are stored
    deleted,      \* jobs whose delete succeeded
    view,         \* the record a client last got, for expectedVersion
    faults,       \* failed calls so far
    clobbered,    \* jobs a thread has SET over a record other than the one it read
    unversioned,  \* jobs changed under the version they had
    unattended    \* jobs that were running with nothing left that would end them

\* What only the properties ask about.
history == <<clobbered, unversioned, unattended>>

vars == <<store, submitted, pending, thread, recovering, calls, restarts,
          acked, deleted, view, faults, clobbered, unversioned, unattended>>

-----------------------------------------------------------------------------

States == {"QUEUED", "RUNNING", "COMPLETED", "FAILED", "CANCELED", "TIMED_OUT"}

Terminal == {"COMPLETED", "FAILED", "CANCELED", "TIMED_OUT"}

Record == [state : States, version : Nat, workflow : {"ingest", "vo", "other"},
           executor : Names, deferred : BOOLEAN, lineage : Nat, manifest : BOOLEAN]

Kinds == {"simStart", "simComplete", "taccSubmit", "taccComplete", "voStart", "voRun"}

Steps == {"taccSubmit", "taccComplete", "voStart", "voDispatch", "voComplete",
          "voCaught", "voFail", "release", "stale"}

Threads == {TaccThread, RecoveryThread} \cup VoThreads \cup Releasers

InHand == [step : Steps, job : Job, seen : Record]

\* The markers of absence are not the data they stand in for.
ASSUME BoundsAssumption ==
    /\ MaxCalls \in Nat /\ MaxRestarts \in Nat /\ MaxFaults \in Nat
    /\ Missing \notin Record /\ Idle \notin InHand

Init ==
    /\ store = [j \in Job |-> Missing]
    /\ submitted = {}
    /\ pending = [j \in Job |-> [k \in Kinds |-> 0]]
    /\ thread = [t \in Threads |-> Idle]
    /\ recovering = {}
    /\ calls = 0
    /\ restarts = 0
    /\ acked = [j \in Job |-> [lineage |-> 0, manifest |-> FALSE]]
    /\ deleted = {}
    /\ view = [j \in Job |-> Missing]
    /\ faults = 0
    /\ clobbered = {}
    /\ unversioned = {}
    /\ unattended = {}

\* The mutation every versioned write has in common.
Moved(r, to) == [r EXCEPT !.state = to, !.version = @ + 1]

Exists(j) == store[j] # Missing

Put(j, r) == store' = [store EXCEPT ![j] = r]

\* The executor a record is dispatched to.
ExecutorOf(r) ==
    IF r.executor # "unset"
    THEN IF r.executor = "unknown" THEN "simulator" ELSE r.executor
    ELSE CASE r.workflow = "ingest" -> "tacc"
           [] r.workflow = "vo" -> "vo"
           [] OTHER -> "simulator"

\* What JobExecutor.execute schedules.
TasksOf(executor) ==
    CASE executor = "simulator" -> {"simStart", "simComplete"}
      [] executor = "tacc" -> {"taccSubmit"}
      [] executor = "vo" -> {"voStart", "voRun"}

Execute(j, r) ==
    pending' = [pending EXCEPT ![j] =
        [k \in Kinds |-> IF k \in TasksOf(ExecutorOf(r)) THEN @[k] + 1 ELSE @[k]]]

\* MaxPending is checked where a dispatch would exceed it.
CanExecute(j, r) ==
    \A k \in TasksOf(ExecutorOf(r)) : pending[j][k] < MaxPending

Call ==
    /\ calls < MaxCalls
    /\ calls' = calls + 1

\* A Redis call of a task fails.
Fault ==
    /\ faults < MaxFaults
    /\ faults' = faults + 1

Failed == faults' # faults

\* Job j is left to nobody if the condition holds.
LeftAlone(j, condition) ==
    unattended' = IF condition THEN unattended \cup {j} ELSE unattended

-----------------------------------------------------------------------------
\* The API

\* JobService.submit: store, then dispatch unless deferred.
Submit(j, request) ==
    LET r == [state |-> "QUEUED", version |-> 1, workflow |-> request.workflow,
              executor |-> request.executor, deferred |-> request.deferred,
              lineage |-> 0, manifest |-> FALSE]
    IN  /\ j \notin submitted
        /\ submitted' = submitted \cup {j}
        /\ Put(j, r)
        /\ IF r.deferred THEN UNCHANGED pending ELSE Execute(j, r)
        /\ UNCHANGED <<thread, recovering, calls, restarts, acked, deleted, view, faults, history>>

\* A client reads the record; it may send its version as expectedVersion later.
Get(j) ==
    /\ Exists(j)
    /\ Call
    /\ view' = [view EXCEPT ![j] = store[j]]
    /\ UNCHANGED <<store, submitted, pending, thread, recovering, restarts,
                   acked, deleted, faults, history>>

IsValidTransition(from, to) ==
    \/ from = to
    \/ from = "QUEUED" /\ to \in {"RUNNING", "CANCELED", "TIMED_OUT", "FAILED"}
    \/ from = "RUNNING" /\ to \in Terminal

\* What a client may send as expectedVersion: nothing, or what it last got.
Bases(j) == {Missing, view[j]}

AsExpected(j, basis) == basis # Missing => basis.version = store[j].version

\* JobService.transition and, with CANCELED, cancel.  A declined call changes
\* nothing and is no step.
Transition(j, to, basis) ==
    /\ Exists(j)
    /\ AsExpected(j, basis)
    /\ IsValidTransition(store[j].state, to)
    /\ Call
    /\ Put(j, Moved(store[j], to))
    /\ LeftAlone(j, to = "RUNNING" /\ pending[j]["simComplete"] = 0)
    /\ UNCHANGED <<submitted, pending, thread, recovering, restarts, acked,
                   deleted, view, faults, clobbered, unversioned>>

\* Mutated form: the version starts over.
RetryFromOne(j, basis) ==
    /\ Exists(j)
    /\ AsExpected(j, basis)
    /\ store[j].state \in {"FAILED", "CANCELED", "TIMED_OUT"}
    /\ Call
    /\ Put(j, [store[j] EXCEPT !.state = "QUEUED", !.version = 1])
    /\ UNCHANGED <<submitted, pending, thread, recovering, restarts, acked,
                   deleted, view, faults, history>>

Retry(j, basis) ==
    /\ Exists(j)
    /\ AsExpected(j, basis)
    /\ store[j].state \in {"FAILED", "CANCELED", "TIMED_OUT"}
    /\ Call
    /\ Put(j, Moved(store[j], "QUEUED"))
    /\ UNCHANGED <<submitted, pending, thread, recovering, restarts, acked,
                   deleted, view, faults, history>>

\* Mutated form: an update of a missing record stores a new one.
UpdateLineageUpsert(j) ==
    LET fresh == [state |-> "QUEUED", version |-> 0, workflow |-> "other",
                  executor |-> "unset", deferred |-> FALSE,
                  lineage |-> 0, manifest |-> FALSE]
        base == IF Exists(j) THEN store[j] ELSE fresh
    IN  /\ Call
        /\ Put(j, [base EXCEPT !.lineage = acked[j].lineage + 1, !.version = @ + 1])
        /\ acked' = [acked EXCEPT ![j].lineage = @ + 1]
        /\ UNCHANGED <<submitted, pending, thread, recovering, restarts,
                       deleted, view, faults, history>>

\* Every lineage a client sends is a new one.
UpdateLineage(j) ==
    /\ Exists(j)
    /\ Call
    /\ Put(j, [store[j] EXCEPT !.lineage = acked[j].lineage + 1, !.version = @ + 1])
    /\ acked' = [acked EXCEPT ![j].lineage = @ + 1]
    /\ UNCHANGED <<submitted, pending, thread, recovering, restarts, deleted, view, faults, history>>

AttachManifest(j) ==
    /\ Exists(j)
    /\ Call
    /\ Put(j, [store[j] EXCEPT !.manifest = TRUE, !.version = @ + 1])
    /\ acked' = [acked EXCEPT ![j].manifest = TRUE]
    /\ UNCHANGED <<submitted, pending, thread, recovering, restarts, deleted, view, faults, history>>

DeleteJob(j) ==
    /\ Exists(j)
    /\ Call
    /\ Put(j, Missing)
    /\ deleted' = deleted \cup {j}
    /\ UNCHANGED <<submitted, pending, thread, recovering, restarts, acked,
                   view, faults, history>>

\* releaseDeferredJobs at one key of its sweep: read, then (below) SET.
ReleaseLoad(t, j) ==
    /\ thread[t] = Idle
    /\ Exists(j)
    /\ store[j].state = "QUEUED"
    /\ store[j].deferred
    /\ Call
    /\ thread' = [thread EXCEPT ![t] = [step |-> "release", job |-> j, seen |-> store[j]]]
    /\ UNCHANGED <<store, submitted, pending, recovering, restarts, acked,
                   deleted, view, faults, history>>

-----------------------------------------------------------------------------
\* Mutated forms: without the deferred check; only jobs never dispatched before.
ScanAll(j) ==
    /\ Exists(j)
    /\ store[j].state = "QUEUED"
    /\ CanExecute(j, store[j])
    /\ Execute(j, store[j])
    /\ UNCHANGED <<store, submitted, thread, recovering, calls, restarts, acked,
                   deleted, view, faults, history>>

ScanNew(j) ==
    /\ Exists(j)
    /\ store[j].state = "QUEUED"
    /\ store[j].executor = "unset"
    /\ ~store[j].deferred
    /\ CanExecute(j, store[j])
    /\ Execute(j, store[j])
    /\ UNCHANGED <<store, submitted, thread, recovering, calls, restarts, acked,
                   deleted, view, faults, history>>

\* dispatchQueuedJobs at one key of its sweep: it leaves the record alone.

Scan(j) ==
    /\ Exists(j)
    /\ store[j].state = "QUEUED"
    /\ ~store[j].deferred
    /\ CanExecute(j, store[j])
    /\ Execute(j, store[j])
    /\ UNCHANGED <<store, submitted, thread, recovering, calls, restarts, acked,
                   deleted, view, faults, history>>

-----------------------------------------------------------------------------
\* The tasks

TaskDone(j, k) == pending' = [pending EXCEPT ![j][k] = @ - 1]

\* A compare-and-set with no store to fall back to: it commits, finds no record, or
\* answers empty because it was contended eight times or Redis failed it.
Mutated(j, r) ==
    \/ Exists(j) /\ Put(j, r) /\ UNCHANGED faults
    \/ ~Exists(j) /\ UNCHANGED <<store, faults>>
    \/ Fault /\ UNCHANGED store

\* Mutated form: the parameters start from an empty map.
SimStartFresh(j) ==
    /\ pending[j]["simStart"] > 0
    /\ TaskDone(j, "simStart")
    /\ Mutated(j, [Moved(store[j], "RUNNING") EXCEPT !.executor = "simulator", !.lineage = 0])
    /\ LeftAlone(j, pending[j]["simComplete"] = 0)
    /\ UNCHANGED <<submitted, thread, recovering, calls, restarts, acked,
                   deleted, view, clobbered, unversioned>>

\* SimulatorExecutor's tasks: compare-and-set, whatever the state is.  The pool's
\* two threads may run a start after its completion.
SimStart(j) ==
    /\ pending[j]["simStart"] > 0
    /\ TaskDone(j, "simStart")
    /\ Mutated(j, [Moved(store[j], "RUNNING") EXCEPT !.executor = "simulator"])
    /\ LeftAlone(j, pending[j]["simComplete"] = 0)
    /\ UNCHANGED <<submitted, thread, recovering, calls, restarts, acked,
                   deleted, view, clobbered, unversioned>>

\* Mutated forms: a completion that was never scheduled; one that keeps the
\* version.
SimCompleteUnscheduled(j) ==
    /\ TaskDone(j, "simComplete")
    /\ pending[j]["simStart"] = 0
    /\ Mutated(j, Moved(store[j], "COMPLETED"))
    /\ LeftAlone(j, Failed)
    /\ UNCHANGED <<submitted, thread, recovering, calls, restarts, acked,
                   deleted, view, clobbered, unversioned>>

SimCompleteUnversioned(j) ==
    /\ pending[j]["simComplete"] > 0
    /\ TaskDone(j, "simComplete")
    /\ Mutated(j, [store[j] EXCEPT !.state = "COMPLETED"])
    /\ LeftAlone(j, Failed)
    /\ UNCHANGED <<submitted, thread, recovering, calls, restarts, acked,
                   deleted, view, clobbered, unversioned>>

SimComplete(j) ==
    /\ pending[j]["simComplete"] > 0
    /\ TaskDone(j, "simComplete")
    /\ Mutated(j, Moved(store[j], "COMPLETED"))
    /\ LeftAlone(j, Failed)
    /\ UNCHANGED <<submitted, thread, recovering, calls, restarts, acked,
                   deleted, view, clobbered, unversioned>>

\* A pool thread takes a task of kind k for job j and reads the record; a
\* missing one, or a failed read, ends the task.
Load(t, j, k, step) ==
    /\ thread[t] = Idle
    /\ pending[j][k] > 0
    /\ TaskDone(j, k)
    /\ \/ /\ Exists(j)
          /\ thread' = [thread EXCEPT ![t] = [step |-> step, job |-> j, seen |-> store[j]]]
          /\ UNCHANGED faults
       \/ ~Exists(j) /\ UNCHANGED <<thread, faults>>
       \/ Fault /\ UNCHANGED thread
    /\ UNCHANGED <<store, submitted, recovering, calls, restarts, acked,
                   deleted, view, history>>

\* The thread SETs its changed copy.  Redis may fail the SET, before or after it took
\* effect, or the log entry the task pushes next.
SetRecord(t, r) ==
    LET j == thread[t].job IN
    /\ \/ /\ Put(j, r)
          /\ clobbered' = IF store[j] = thread[t].seen THEN clobbered ELSE clobbered \cup {j}
          /\ Fault \/ UNCHANGED faults
       \/ Fault /\ UNCHANGED <<store, clobbered>>
    /\ UNCHANGED <<submitted, recovering, calls, restarts, acked, deleted, view>>

\* It is done with the task, whether Redis failed it or not.
Write(t, r) ==
    /\ SetRecord(t, r)
    /\ thread' = [thread EXCEPT ![t] = Idle]

InStep(t, step) == thread[t] # Idle /\ thread[t].step = step

\* The write of releaseDeferredJobs.
ReleaseWrite(t) ==
    /\ InStep(t, "release")
    /\ Write(t, [thread[t].seen EXCEPT !.deferred = FALSE, !.version = @ + 1])
    /\ UNCHANGED <<pending, unversioned, unattended>>

TaccLoad(j) ==
    \E k \in {"taccSubmit", "taccComplete"} : Load(TaccThread, j, k, k)

\* TaccExecutorStub does not touch the version.  After a failure the completion is
\* not scheduled.
TaccSubmitted ==
    LET t == TaccThread
        j == thread[t].job
    IN  /\ InStep(t, "taccSubmit")
        /\ Write(t, [thread[t].seen EXCEPT !.state = "RUNNING", !.executor = "tacc"])
        /\ pending' = IF Failed THEN pending
                      ELSE [pending EXCEPT ![j]["taccComplete"] = @ + 1]
        /\ unversioned' = unversioned \cup {j}
        /\ UNCHANGED unattended

TaccCompleted ==
    LET t == TaccThread IN
    /\ InStep(t, "taccComplete")
    /\ Write(t, [thread[t].seen EXCEPT !.state = "COMPLETED"])
    /\ unversioned' = unversioned \cup {thread[t].job}
    /\ UNCHANGED <<pending, unattended>>

VoLoadStart(t, j) == Load(t, j, "voStart", "voStart")

VoStarted(t) ==
    /\ InStep(t, "voStart")
    /\ Write(t, [Moved(thread[t].seen, "RUNNING") EXCEPT !.executor = "vo"])
    /\ UNCHANGED <<pending, unversioned, unattended>>

VoLoadRun(t, j) == Load(t, j, "voRun", "voDispatch")

Reload(t, j, step) ==
    thread' = [thread EXCEPT ![t] = [step |-> step, job |-> j, seen |-> store[j]]]

\* The job of a VO task that goes on is read again.
ReadAgain(t, steps) ==
    LET j == thread[t].job IN
    /\ \/ /\ Exists(j)
          /\ \E step \in steps : Reload(t, j, step)
          /\ UNCHANGED faults
       \/ /\ Fault \/ (~Exists(j) /\ UNCHANGED faults)
          /\ thread' = [thread EXCEPT ![t] = Idle]
    /\ UNCHANGED <<store, submitted, pending, recovering, calls, restarts,
                   acked, deleted, view, history>>

\* The remote query, or the artifact's SET, returns or throws.  A read or a log entry
\* that fails in the catch ends the task.
VoDispatched(t) == InStep(t, "voDispatch") /\ ReadAgain(t, {"voComplete", "voFail"})

VoCompleted(t) ==
    /\ InStep(t, "voComplete")
    /\ SetRecord(t, Moved(thread[t].seen, "COMPLETED"))
    /\ thread' = IF Failed THEN [thread EXCEPT ![t] = [@ EXCEPT !.step = "voCaught"]]
                 ELSE [thread EXCEPT ![t] = Idle]
    /\ UNCHANGED <<pending, unversioned, unattended>>

\* The completing SET, or its log entry, has thrown: the catch fails the job.
VoCaught(t) == InStep(t, "voCaught") /\ ReadAgain(t, {"voFail"})

VoFailed(t) ==
    /\ InStep(t, "voFail")
    /\ Write(t, Moved(thread[t].seen, "FAILED"))
    /\ UNCHANGED <<pending, unversioned, unattended>>

-----------------------------------------------------------------------------
\* Restart: scheduled tasks and threads are gone, the record is not.  (Init is
\* the first start, whose sweep of the empty store is over.)

\* Mutated form: no sweep after the restart.
RestartOnly ==
    /\ restarts < MaxRestarts
    /\ restarts' = restarts + 1
    /\ pending' = [j \in Job |-> [k \in Kinds |-> 0]]
    /\ thread' = [t \in Threads |-> Idle]
    /\ recovering' = {}
    /\ UNCHANGED <<store, submitted, calls, acked, deleted, view, faults, history>>

Restart ==
    /\ restarts < MaxRestarts
    /\ restarts' = restarts + 1
    /\ pending' = [j \in Job |-> [k \in Kinds |-> 0]]
    /\ thread' = [t \in Threads |-> Idle]
    /\ recovering' = Job
    /\ UNCHANGED <<store, submitted, calls, acked, deleted, view, faults, history>>

\* completeStaleRunningJobs as its cursor passes one key, which may have been
\* stored since the restart, or not be there: only a simulator's job, or one that
\* names no executor, is taken for stale.  A failed read finds no record.
RecoverLoad(j) ==
    /\ j \in recovering
    /\ thread[RecoveryThread] = Idle
    /\ recovering' = recovering \ {j}
    /\ \/ /\ IF Exists(j) /\ store[j].state = "RUNNING"
                /\ store[j].executor \in {"unset", "simulator"}
             THEN Reload(RecoveryThread, j, "stale")
             ELSE UNCHANGED thread
          /\ UNCHANGED faults
       \/ Fault /\ UNCHANGED thread
    /\ LeftAlone(j, Failed)
    /\ UNCHANGED <<store, submitted, pending, calls, restarts, acked, deleted, view,
                   clobbered, unversioned>>

RecoverWrite ==
    /\ InStep(RecoveryThread, "stale")
    /\ Write(RecoveryThread, Moved(thread[RecoveryThread].seen, "COMPLETED"))
    /\ LeftAlone(thread[RecoveryThread].job, Failed)
    /\ UNCHANGED <<pending, unversioned>>

-----------------------------------------------------------------------------

Api(j) ==
    \/ \E request \in Requests : Submit(j, request)
    \/ Get(j)
    \/ \E to \in ApiStates, basis \in Bases(j) : Transition(j, to, basis)
    \/ \E basis \in Bases(j) : Retry(j, basis)
    \/ UpdateLineage(j)
    \/ AttachManifest(j)
    \/ DeleteJob(j)
    \/ \E t \in Releasers : ReleaseLoad(t, j)

Simulator(j) == SimStart(j) \/ SimComplete(j)

Tacc == (\E j \in Job : TaccLoad(j)) \/ TaccSubmitted \/ TaccCompleted

Vo(t) ==
    \/ \E j \in Job : VoLoadStart(t, j) \/ VoLoadRun(t, j)
    \/ VoStarted(t)
    \/ VoDispatched(t)
    \/ VoCompleted(t)
    \/ VoCaught(t)
    \/ VoFailed(t)

Recovery == (\E j \in Job : RecoverLoad(j)) \/ RecoverWrite

Next ==
    \/ \E j \in Job : Api(j) \/ Scan(j) \/ Simulator(j)
    \/ \E t \in Releasers : ReleaseWrite(t)
    \/ Tacc
    \/ \E t \in VoThreads : Vo(t)
    \/ Recovery
    \/ Restart

\* The scanner fires at a fixed rate, pool threads take the tasks that are due,
\* the recovery sweep and a started request run to their end.  No client is
\* obliged to call, and the service need not restart.
Fairness ==
    /\ \A j \in Job : WF_vars(Scan(j)) /\ WF_vars(Simulator(j))
    /\ \A t \in Releasers : WF_vars(ReleaseWrite(t))
    /\ WF_vars(Tacc)
    /\ \A t \in VoThreads : WF_vars(Vo(t))
    /\ WF_vars(Recovery)

Spec == Init /\ [][Next]_vars /\ Fairness

-----------------------------------------------------------------------------
\* Properties

TypeOK ==
    /\ store \in [Job -> Record \cup {Missing}]
    /\ submitted \subseteq Job
    /\ pending \in [Job -> [Kinds -> Nat]]
    /\ thread \in [Threads -> InHand \cup {Idle}]
    /\ recovering \subseteq Job
    /\ calls \in 0..MaxCalls
    /\ restarts \in 0..MaxRestarts
    /\ acked \in [Job -> [lineage : Nat, manifest : BOOLEAN]]
    /\ deleted \subseteq Job
    /\ view \in [Job -> Record \cup {Missing}]
    /\ faults \in 0..MaxFaults
    /\ clobbered \subseteq Job /\ unversioned \subseteq Job /\ unattended \subseteq Job

Metadata(j) == [lineage |-> store[j].lineage, manifest |-> store[j].manifest]

\* Lineage and manifest a client was told are stored stay in the record, whoever
\* writes it, except where a thread has SET its copy over a record it had not
\* read (TACC, VO, release and recovery do; no compare-and-set does).
MetadataKept == \A j \in Job \ clobbered : Exists(j) => Metadata(j) = acked[j]

\* The comment on mutateJobRecord (JobService.java:490) has no such exception: no
\* concurrent writer, an executor's scheduled transition included, discards the change.
NothingDiscarded == \A j \in Job : Exists(j) => Metadata(j) = acked[j]

\* A version names one content of the record, what makes expectedVersion a sound
\* guard for a client that read the record before; TaccExecutorStub's changes and
\* a SET over a record not read are the exceptions.
VersionNamesContent ==
    \A j \in Job \ (clobbered \cup unversioned) :
        Exists(j) /\ view[j] # Missing /\ view[j].version = store[j].version
            => view[j] = store[j]

\* The version of a record never goes back but by a SET over a record not read.
VersionNeverFalls ==
    [][\A j \in Job : Exists(j) /\ Exists(j)' /\ j \notin clobbered'
                          => store'[j].version >= store[j].version]_vars

\* A deleted job comes back only by a SET over a record not read: that of a thread
\* that had read it before it was deleted.
DeletedStaysDeleted == \A j \in deleted \ clobbered : store[j] = Missing

\* A deferred job is held: no executor has a task for it.
DeferredIsHeld ==
    \A j \in Job :
        Exists(j) /\ store[j].deferred => \A k \in Kinds : pending[j][k] = 0

\* A queued job that is not deferred is eventually taken up, or ended by a
\* client, over any restart.
QueuedIsTakenUp ==
    \A j \in Job :
        (Exists(j) /\ store[j].state = "QUEUED" /\ ~store[j].deferred)
            ~> (~Exists(j) \/ store[j].state # "QUEUED")

\* A job the simulator runs does not stay running for ever: its task completes it, or
\* the sweep after a restart that lost the task does.  The exceptions are what the
\* code cannot end: a start that ran after its completion, a completion that its
\* compare-and-set or a sweep that Redis failed, and a job that a client set running
\* with no completion scheduled.
SimulatedRunEnds ==
    \A j \in Job :
        (/\ Exists(j) /\ store[j].state = "RUNNING" /\ j \notin unattended
         /\ store[j].executor \in {"unset", "simulator"})
            ~> (~Exists(j) \/ store[j].state # "RUNNING" \/ j \in unattended)

=============================================================================
