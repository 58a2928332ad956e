------------------------- MODULE JobLifecycleProofs -------------------------
(***************************************************************************)
(* Proofs about JobLifecycle, for every set of jobs, threads and requests  *)
(* and every bound, with every executor, releaser, restart and failure.    *)
(*                                                                         *)
(* Every writer of a record either revises it (a compare-and-set, or a SET *)
(* by a thread whose copy is still the record) or clobbers it.  Metadata,  *)
(* versions and deletions are therefore lost by clobbering only.  And what *)
(* a thread writes back, however stale, never defers a job that has been   *)
(* released: a deferred job is held as long as clients do not start jobs.  *)
(***************************************************************************)
EXTENDS JobLifecycle, TLAPS

USE DEF history

LEMMA MovedType == ASSUME NEW r \in Record, NEW to \in States
                   PROVE  Moved(r, to) \in Record
<1>1. r.version + 1 \in Nat
  BY DEF Record
<1>2. [r EXCEPT !.state = to] \in Record
  BY DEF Record
<1>3. [[r EXCEPT !.state = to] EXCEPT !.version = r.version + 1] \in Record
  BY <1>1, <1>2 DEF Record
<1>4. Moved(r, to) = [[r EXCEPT !.state = to] EXCEPT !.version = r.version + 1]
  BY DEF Moved, Record
<1>5. QED
  BY <1>3, <1>4

LEMMA PutType == ASSUME TypeOK, NEW j \in Job, NEW r \in Record \cup {Missing}, Put(j, r)
                 PROVE  store' \in [Job -> Record \cup {Missing}]
BY DEF TypeOK, Put

LEMMA ExistsType == ASSUME TypeOK, NEW j \in Job, Exists(j) PROVE store[j] \in Record
BY DEF TypeOK, Exists

LEMMA ExecuteType == ASSUME TypeOK, NEW j \in Job, NEW r, Execute(j, r)
                     PROVE  pending' \in [Job -> [Kinds -> Nat]]
BY DEF TypeOK, Execute

LEMMA TaskDoneType ==
    ASSUME TypeOK, NEW j \in Job, NEW k \in Kinds, pending[j][k] > 0, TaskDone(j, k)
    PROVE  pending' \in [Job -> [Kinds -> Nat]]
<1>1. [pending[j] EXCEPT ![k] = @ - 1] \in [Kinds -> Nat]
  BY DEF TypeOK
<1>2. QED
  BY <1>1 DEF TypeOK, TaskDone

LEMMA CallType == ASSUME TypeOK, Call PROVE calls' \in 0..MaxCalls
BY BoundsAssumption DEF TypeOK, Call

LEMMA FaultType == ASSUME TypeOK, Fault \/ UNCHANGED faults PROVE faults' \in 0..MaxFaults
BY BoundsAssumption DEF TypeOK, Fault

LEMMA LeftAloneType == ASSUME TypeOK, NEW j \in Job, NEW condition, LeftAlone(j, condition)
                       PROVE  unattended' \subseteq Job
BY DEF TypeOK, LeftAlone

\* What a thread picks up.
LEMMA HandType ==
    ASSUME TypeOK, NEW t \in Threads, NEW step \in Steps, NEW j \in Job, Exists(j),
           thread' = [thread EXCEPT ![t] = [step |-> step, job |-> j, seen |-> store[j]]]
    PROVE  thread' \in [Threads -> InHand \cup {Idle}]
<1>1. [step |-> step, job |-> j, seen |-> store[j]] \in InHand
  BY ExistsType DEF InHand
<1>2. QED
  BY <1>1 DEF TypeOK

LEMMA LoadType ==
    ASSUME TypeOK, NEW t \in Threads, NEW j \in Job, NEW k \in Kinds,
           NEW step \in Steps, Load(t, j, k, step)
    PROVE  TypeOK'
<1>1. pending' \in [Job -> [Kinds -> Nat]]
  BY TaskDoneType DEF Load
<1>2. thread' \in [Threads -> InHand \cup {Idle}]
  <2>1. CASE /\ Exists(j)
             /\ thread' = [thread EXCEPT ![t] = [step |-> step, job |-> j, seen |-> store[j]]]
    BY <2>1, HandType
  <2>2. CASE UNCHANGED thread
    BY <2>2 DEF TypeOK
  <2>3. QED
    BY <2>1, <2>2 DEF Load
<1>3. faults' \in 0..MaxFaults
  BY FaultType DEF Load
<1>4. QED
  BY <1>1, <1>2, <1>3 DEF Load, TypeOK

\* A thread SETs a record made from the one it has seen.
LEMMA SetRecordType ==
    ASSUME TypeOK, NEW t \in Threads, NEW r \in Record, thread[t] \in InHand,
           SetRecord(t, r), thread' \in [Threads -> InHand \cup {Idle}],
           pending' \in [Job -> [Kinds -> Nat]],
           unversioned' \subseteq Job, unattended' \subseteq Job
    PROVE  TypeOK'
<1>1. thread[t].job \in Job
  BY DEF InHand
<1>2. store' \in [Job -> Record \cup {Missing}] /\ clobbered' \subseteq Job
  <2>1. CASE UNCHANGED <<store, clobbered>>
    BY <2>1 DEF TypeOK
  <2>2. CASE Put(thread[t].job, r)
    <3>1. store' \in [Job -> Record \cup {Missing}]
      BY <1>1, <2>2, PutType
    <3>2. clobbered' \subseteq Job
      BY <1>1 DEF SetRecord, TypeOK
    <3>3. QED
      BY <3>1, <3>2
  <2>3. QED
    BY <2>1, <2>2 DEF SetRecord
<1>3. faults' \in 0..MaxFaults
  BY FaultType DEF SetRecord
<1>4. QED
  BY <1>2, <1>3 DEF SetRecord, TypeOK

LEMMA WriteType ==
    ASSUME TypeOK, NEW t \in Threads, NEW r \in Record, thread[t] \in InHand,
           Write(t, r), pending' \in [Job -> [Kinds -> Nat]],
           unversioned' \subseteq Job, unattended' \subseteq Job
    PROVE  TypeOK'
<1>1. thread' \in [Threads -> InHand \cup {Idle}]
  BY DEF Write, TypeOK
<1>2. QED
  BY <1>1, SetRecordType DEF Write

LEMMA InStepType == ASSUME TypeOK, NEW t \in Threads, thread[t] # Idle
                    PROVE  /\ thread[t] \in InHand
                           /\ thread[t].job \in Job
                           /\ thread[t].seen \in Record
<1>1. thread[t] \in InHand
  BY DEF TypeOK
<1>2. QED
  BY <1>1 DEF InHand

LEMMA ThreadsType == /\ TaccThread \in Threads
                     /\ RecoveryThread \in Threads
                     /\ \A t \in VoThreads \cup Releasers : t \in Threads
BY DEF Threads

LEMMA InitType == Init => TypeOK
<1> SUFFICES ASSUME Init PROVE TypeOK
  OBVIOUS
<1>1. thread \in [Threads -> InHand \cup {Idle}]
  BY DEF Init
<1>2. pending \in [Job -> [Kinds -> Nat]]
  BY DEF Init
<1>3. QED
  BY <1>1, <1>2, BoundsAssumption DEF Init, TypeOK

LEMMA ApiType == ASSUME TypeOK, NEW j \in Job, Api(j) PROVE TypeOK'
<1>1. ASSUME NEW request \in Requests, Submit(j, request) PROVE TypeOK'
  <2> DEFINE r == [state |-> "QUEUED", version |-> 1, workflow |-> request.workflow,
                   executor |-> request.executor, deferred |-> request.deferred,
                   lineage |-> 0, manifest |-> FALSE]
  <2>1. r \in Record
    BY RequestsAssumption DEF Record, States
  <2>2. Put(j, r)
    BY <1>1 DEF Submit
  <2>3. store' \in [Job -> Record \cup {Missing}]
    BY <2>1, <2>2, PutType
  <2>4. pending' \in [Job -> [Kinds -> Nat]]
    BY <1>1, ExecuteType DEF Submit, TypeOK
  <2>5. QED
    BY <1>1, <2>3, <2>4 DEF Submit, TypeOK
<1>2. ASSUME Get(j) PROVE TypeOK'
  <2>1. calls' \in 0..MaxCalls
    BY <1>2, CallType DEF Get
  <2>2. QED
    BY <1>2, <2>1 DEF Get, TypeOK
<1>3. ASSUME NEW to \in ApiStates, NEW basis, Transition(j, to, basis) PROVE TypeOK'
  <2>1. to \in States /\ store[j] \in Record
    BY <1>3, ExistsType DEF Transition, IsValidTransition, Terminal, States, Record
  <2>2. Moved(store[j], to) \in Record
    BY <2>1, MovedType
  <2>3. store' \in [Job -> Record \cup {Missing}]
    BY <1>3, <2>2, PutType DEF Transition
  <2>4. calls' \in 0..MaxCalls /\ unattended' \subseteq Job
    BY <1>3, CallType, LeftAloneType DEF Transition
  <2>5. QED
    BY <1>3, <2>3, <2>4 DEF Transition, TypeOK
<1>4. ASSUME NEW basis, Retry(j, basis) PROVE TypeOK'
  <2>1. Moved(store[j], "QUEUED") \in Record
    BY <1>4, ExistsType, MovedType DEF Retry, States
  <2>2. store' \in [Job -> Record \cup {Missing}]
    BY <1>4, <2>1, PutType DEF Retry
  <2>3. calls' \in 0..MaxCalls
    BY <1>4, CallType DEF Retry
  <2>4. QED
    BY <1>4, <2>2, <2>3 DEF Retry, TypeOK
<1>5. ASSUME UpdateLineage(j) PROVE TypeOK'
  <2> DEFINE r == [store[j] EXCEPT !.lineage = acked[j].lineage + 1, !.version = @ + 1]
  <2>1. store[j] \in Record /\ acked[j] \in [lineage : Nat, manifest : BOOLEAN]
    BY <1>5, ExistsType DEF UpdateLineage, TypeOK
  <2>2. r \in Record
    <3>1. store[j].version + 1 \in Nat /\ acked[j].lineage + 1 \in Nat
      BY <2>1 DEF Record
    <3>2. [store[j] EXCEPT !.lineage = acked[j].lineage + 1] \in Record
      BY <2>1, <3>1 DEF Record
    <3>3. QED
      BY <2>1, <3>1, <3>2 DEF Record
  <2>3. Put(j, r)
    BY <1>5 DEF UpdateLineage
  <2>4. store' \in [Job -> Record \cup {Missing}]
    BY <2>2, <2>3, PutType
  <2>5. calls' \in 0..MaxCalls
    BY <1>5, CallType DEF UpdateLineage
  <2>6. acked' \in [Job -> [lineage : Nat, manifest : BOOLEAN]]
    <3>1. [acked[j] EXCEPT !.lineage = @ + 1] \in [lineage : Nat, manifest : BOOLEAN]
      BY <2>1
    <3>2. QED
      BY <1>5, <3>1 DEF UpdateLineage, TypeOK
  <2>7. QED
    BY <1>5, <2>4, <2>5, <2>6 DEF UpdateLineage, TypeOK
<1>6. ASSUME AttachManifest(j) PROVE TypeOK'
  <2> DEFINE r == [store[j] EXCEPT !.manifest = TRUE, !.version = @ + 1]
  <2>1. store[j] \in Record /\ acked[j] \in [lineage : Nat, manifest : BOOLEAN]
    BY <1>6, ExistsType DEF AttachManifest, TypeOK
  <2>2. r \in Record
    <3>1. [store[j] EXCEPT !.version = @ + 1] \in Record
      BY <2>1 DEF Record
    <3>2. [[store[j] EXCEPT !.version = @ + 1] EXCEPT !.manifest = TRUE] \in Record
      BY <3>1 DEF Record
    <3>3. r = [[store[j] EXCEPT !.version = @ + 1] EXCEPT !.manifest = TRUE]
      BY <2>1 DEF Record
    <3>4. QED
      BY <3>2, <3>3
  <2>3. Put(j, r)
    BY <1>6 DEF AttachManifest
  <2>4. store' \in [Job -> Record \cup {Missing}]
    BY <2>2, <2>3, PutType
  <2>5. calls' \in 0..MaxCalls
    BY <1>6, CallType DEF AttachManifest
  <2>6. acked' \in [Job -> [lineage : Nat, manifest : BOOLEAN]]
    BY <1>6, <2>1 DEF AttachManifest, TypeOK
  <2>7. QED
    BY <1>6, <2>4, <2>5, <2>6 DEF AttachManifest, TypeOK
<1>7. ASSUME DeleteJob(j) PROVE TypeOK'
  <2>1. store' \in [Job -> Record \cup {Missing}]
    BY <1>7, PutType DEF DeleteJob
  <2>2. calls' \in 0..MaxCalls
    BY <1>7, CallType DEF DeleteJob
  <2>3. QED
    BY <1>7, <2>1, <2>2 DEF DeleteJob, TypeOK
<1>8. ASSUME NEW t \in Releasers, ReleaseLoad(t, j) PROVE TypeOK'
  <2>1. t \in Threads
    BY ThreadsType
  <2>2. thread' \in [Threads -> InHand \cup {Idle}]
    BY <1>8, <2>1, HandType DEF ReleaseLoad, Steps
  <2>3. calls' \in 0..MaxCalls
    BY <1>8, CallType DEF ReleaseLoad
  <2>4. QED
    BY <1>8, <2>2, <2>3 DEF ReleaseLoad, TypeOK
<1>9. QED
  BY <1>1, <1>2, <1>3, <1>4, <1>5, <1>6, <1>7, <1>8 DEF Api

LEMMA TaskType ==
    ASSUME TypeOK, NEW j \in Job, Scan(j) \/ Simulator(j) PROVE TypeOK'
<1>1. CASE Scan(j)
  <2>1. pending' \in [Job -> [Kinds -> Nat]]
    BY <1>1, ExecuteType DEF Scan
  <2>2. QED
    BY <1>1, <2>1 DEF Scan, TypeOK
<1>2. ASSUME NEW r, Exists(j) => r \in Record, Mutated(j, r)
      PROVE  store' \in [Job -> Record \cup {Missing}] /\ faults' \in 0..MaxFaults
  <2>1. store' \in [Job -> Record \cup {Missing}]
    <3>1. CASE UNCHANGED store
      BY <3>1 DEF TypeOK
    <3>2. CASE Exists(j) /\ Put(j, r)
      BY <1>2, <3>2, PutType
    <3>3. QED
      BY <1>2, <3>1, <3>2 DEF Mutated
  <2>2. faults' \in 0..MaxFaults
    BY <1>2, FaultType DEF Mutated
  <2>3. QED
    BY <2>1, <2>2
<1>3. CASE SimStart(j)
  <2> DEFINE r == [Moved(store[j], "RUNNING") EXCEPT !.executor = "simulator"]
  <2>1. pending' \in [Job -> [Kinds -> Nat]] /\ unattended' \subseteq Job
    BY <1>3, TaskDoneType, LeftAloneType DEF SimStart, Kinds
  <2>2. Exists(j) => r \in Record
    <3>1. Exists(j) => Moved(store[j], "RUNNING") \in Record
      BY ExistsType, MovedType DEF States
    <3>2. QED
      BY <3>1 DEF Record, Names
  <2>3. Mutated(j, r)
    BY <1>3 DEF SimStart
  <2>4. store' \in [Job -> Record \cup {Missing}] /\ faults' \in 0..MaxFaults
    <3> HIDE DEF r
    <3>1. QED
      BY <1>2, <2>2, <2>3
  <2>5. QED
    BY <1>3, <2>1, <2>4 DEF SimStart, TypeOK
<1>4. CASE SimComplete(j)
  <2> DEFINE r == Moved(store[j], "COMPLETED")
  <2>1. pending' \in [Job -> [Kinds -> Nat]] /\ unattended' \subseteq Job
    BY <1>4, TaskDoneType, LeftAloneType DEF SimComplete, Kinds
  <2>2. Exists(j) => r \in Record
    BY ExistsType, MovedType DEF States
  <2>3. Mutated(j, r)
    BY <1>4 DEF SimComplete
  <2>4. store' \in [Job -> Record \cup {Missing}] /\ faults' \in 0..MaxFaults
    <3> HIDE DEF r
    <3>1. QED
      BY <1>2, <2>2, <2>3
  <2>5. QED
    BY <1>4, <2>1, <2>4 DEF SimComplete, TypeOK
<1>5. QED
  BY <1>1, <1>3, <1>4 DEF Simulator

LEMMA ReleaseWriteType ==
    ASSUME TypeOK, NEW t \in Releasers, ReleaseWrite(t) PROVE TypeOK'
<1> DEFINE r == [thread[t].seen EXCEPT !.deferred = FALSE, !.version = @ + 1]
<1>1. t \in Threads
  BY ThreadsType
<1>2. thread[t] \in InHand /\ thread[t].seen \in Record
  BY <1>1, InStepType DEF ReleaseWrite, InStep
<1>3. r \in Record
  <2> DEFINE s == thread[t].seen
  <2>1. [s EXCEPT !.version = @ + 1] \in Record
    BY <1>2 DEF Record
  <2>2. [[s EXCEPT !.version = @ + 1] EXCEPT !.deferred = FALSE] \in Record
    BY <2>1 DEF Record
  <2>3. r = [[s EXCEPT !.version = @ + 1] EXCEPT !.deferred = FALSE]
    BY <1>2 DEF Record
  <2>4. QED
    BY <2>2, <2>3
<1>4. Write(t, r) /\ UNCHANGED <<pending, unversioned, unattended>>
  BY DEF ReleaseWrite
<1> HIDE DEF r
<1>5. QED
  BY <1>1, <1>2, <1>3, <1>4, WriteType DEF TypeOK

LEMMA TaccType == ASSUME TypeOK, Tacc PROVE TypeOK'
<1> USE ThreadsType
<1>1. ASSUME NEW j \in Job, TaccLoad(j) PROVE TypeOK'
  <2>1. PICK k \in {"taccSubmit", "taccComplete"} : Load(TaccThread, j, k, k)
    BY <1>1 DEF TaccLoad
  <2>2. k \in Kinds /\ k \in Steps
    BY DEF Kinds, Steps
  <2>3. QED
    BY <2>1, <2>2, LoadType
<1>2. CASE TaccSubmitted
  <2> DEFINE r == [thread[TaccThread].seen EXCEPT !.state = "RUNNING", !.executor = "tacc"]
  <2>1. /\ thread[TaccThread] \in InHand
        /\ thread[TaccThread].job \in Job
        /\ thread[TaccThread].seen \in Record
    BY <1>2, InStepType DEF TaccSubmitted, InStep
  <2>2. r \in Record
    BY <2>1 DEF Record, States, Names
  <2>3. Write(TaccThread, r)
    BY <1>2 DEF TaccSubmitted
  <2>4. [pending[thread[TaccThread].job] EXCEPT !["taccComplete"] = @ + 1] \in [Kinds -> Nat]
    BY <2>1 DEF TypeOK, Kinds
  <2>5. pending' \in [Job -> [Kinds -> Nat]]
    BY <1>2, <2>4 DEF TaccSubmitted, TypeOK
  <2>6. unversioned' \subseteq Job /\ unattended' \subseteq Job
    BY <1>2, <2>1 DEF TaccSubmitted, TypeOK
  <2>7. QED
    BY <2>1, <2>2, <2>3, <2>5, <2>6, WriteType
<1>3. CASE TaccCompleted
  <2> DEFINE r == [thread[TaccThread].seen EXCEPT !.state = "COMPLETED"]
  <2>1. /\ thread[TaccThread] \in InHand
        /\ thread[TaccThread].job \in Job
        /\ thread[TaccThread].seen \in Record
    BY <1>3, InStepType DEF TaccCompleted, InStep
  <2>2. r \in Record
    BY <2>1 DEF Record, States
  <2>3. Write(TaccThread, r) /\ pending' \in [Job -> [Kinds -> Nat]]
    BY <1>3 DEF TaccCompleted, TypeOK
  <2>4. unversioned' \subseteq Job /\ unattended' \subseteq Job
    BY <1>3, <2>1 DEF TaccCompleted, TypeOK
  <2>5. QED
    BY <2>1, <2>2, <2>3, <2>4, WriteType
<1>4. QED
  BY <1>1, <1>2, <1>3 DEF Tacc

LEMMA VoType == ASSUME TypeOK, NEW t \in VoThreads, Vo(t) PROVE TypeOK'
<1> USE ThreadsType
<1>1. ASSUME NEW j \in Job, VoLoadStart(t, j) \/ VoLoadRun(t, j) PROVE TypeOK'
  BY <1>1, LoadType DEF VoLoadStart, VoLoadRun, Kinds, Steps
<1>2. ASSUME thread[t] # Idle, NEW steps \in SUBSET {"voComplete", "voFail"},
             ReadAgain(t, steps)
      PROVE  TypeOK'
  <2>1. thread[t] \in InHand /\ thread[t].job \in Job
    BY <1>2, InStepType
  <2>2. thread' \in [Threads -> InHand \cup {Idle}]
    <3>1. CASE thread' = [thread EXCEPT ![t] = Idle]
      BY <3>1 DEF TypeOK
    <3>2. ASSUME NEW step \in {"voComplete", "voFail"}, Exists(thread[t].job),
                 Reload(t, thread[t].job, step)
          PROVE  thread' \in [Threads -> InHand \cup {Idle}]
      BY <2>1, <3>2, HandType DEF Steps, Reload
    <3>3. QED
      BY <1>2, <3>1, <3>2 DEF ReadAgain
  <2>3. faults' \in 0..MaxFaults
    BY <1>2, FaultType DEF ReadAgain
  <2>4. QED
    BY <1>2, <2>2, <2>3 DEF ReadAgain, TypeOK
<1>3. CASE VoStarted(t)
  <2> DEFINE r == [Moved(thread[t].seen, "RUNNING") EXCEPT !.executor = "vo"]
  <2>1. thread[t] \in InHand /\ thread[t].seen \in Record
    BY <1>3, InStepType DEF VoStarted, InStep
  <2>2. Moved(thread[t].seen, "RUNNING") \in Record
    BY <2>1, MovedType DEF States
  <2>3. r \in Record
    BY <2>2 DEF Record, Names
  <2>4. Write(t, r) /\ UNCHANGED <<pending, unversioned, unattended>>
    BY <1>3 DEF VoStarted
  <2> HIDE DEF r
  <2>5. QED
    BY <2>1, <2>3, <2>4, WriteType DEF TypeOK
<1>4. CASE VoFailed(t)
  <2>1. thread[t] \in InHand /\ thread[t].seen \in Record
    BY <1>4, InStepType DEF VoFailed, InStep
  <2>2. Moved(thread[t].seen, "FAILED") \in Record
    BY <2>1, MovedType DEF States
  <2>3. UNCHANGED <<pending, unversioned, unattended>>
        /\ Write(t, Moved(thread[t].seen, "FAILED"))
    BY <1>4 DEF VoFailed
  <2>4. QED
    BY <2>1, <2>2, <2>3, WriteType DEF TypeOK
<1>5. CASE VoCompleted(t)
  <2> DEFINE r == Moved(thread[t].seen, "COMPLETED")
             caught == [thread[t] EXCEPT !.step = "voCaught"]
  <2>1. thread[t] \in InHand /\ thread[t].seen \in Record
    BY <1>5, InStepType DEF VoCompleted, InStep
  <2>2. r \in Record
    BY <2>1, MovedType DEF States
  <2>3. caught \in InHand
    BY <2>1 DEF InHand, Steps
  <2>4. UNCHANGED <<pending, unversioned, unattended>> /\ SetRecord(t, r)
    BY <1>5 DEF VoCompleted
  <2>5. thread' = [thread EXCEPT ![t] = caught] \/ thread' = [thread EXCEPT ![t] = Idle]
    BY <1>5 DEF VoCompleted
  <2> HIDE DEF r, caught
  <2>6. thread' \in [Threads -> InHand \cup {Idle}]
    BY <2>3, <2>5 DEF TypeOK
  <2>7. QED
    BY <2>1, <2>2, <2>4, <2>6, SetRecordType DEF TypeOK
<1>6. QED
  BY <1>1, <1>2, <1>3, <1>4, <1>5 DEF Vo, VoDispatched, VoCaught, InStep

LEMMA RestartType ==
    ASSUME TypeOK, Restart \/ Recovery PROVE TypeOK'
<1> USE ThreadsType
<1>1. CASE Restart
  BY <1>1, BoundsAssumption DEF Restart, TypeOK
<1>2. ASSUME NEW j \in Job, RecoverLoad(j) PROVE TypeOK'
  <2>1. thread' \in [Threads -> InHand \cup {Idle}]
    <3>1. CASE UNCHANGED thread
      BY <3>1 DEF TypeOK
    <3>2. CASE Exists(j) /\ Reload(RecoveryThread, j, "stale")
      BY <3>2, HandType DEF Steps, Reload
    <3>3. QED
      BY <1>2, <3>1, <3>2 DEF RecoverLoad
  <2>2. faults' \in 0..MaxFaults /\ unattended' \subseteq Job
    BY <1>2, FaultType, LeftAloneType DEF RecoverLoad
  <2>3. QED
    BY <1>2, <2>1, <2>2 DEF RecoverLoad, TypeOK
<1>3. CASE RecoverWrite
  <2>1. /\ thread[RecoveryThread] \in InHand
        /\ thread[RecoveryThread].job \in Job
        /\ thread[RecoveryThread].seen \in Record
    BY <1>3, InStepType DEF RecoverWrite, InStep
  <2>2. Moved(thread[RecoveryThread].seen, "COMPLETED") \in Record
    BY <2>1, MovedType DEF States
  <2>3. /\ pending' \in [Job -> [Kinds -> Nat]]
        /\ unversioned' \subseteq Job /\ unattended' \subseteq Job
    BY <1>3, <2>1, LeftAloneType DEF RecoverWrite, TypeOK
  <2>4. QED
    BY <1>3, <2>1, <2>2, <2>3, WriteType DEF RecoverWrite
<1>4. QED
  BY <1>1, <1>2, <1>3 DEF Recovery

LEMMA StepType == TypeOK /\ [Next]_vars => TypeOK'
<1> SUFFICES ASSUME TypeOK, [Next]_vars PROVE TypeOK'
  OBVIOUS
<1>1. CASE UNCHANGED vars
  BY <1>1 DEF vars, TypeOK
<1>2. QED
  BY <1>1, ApiType, TaskType, ReleaseWriteType, TaccType, VoType, RestartType DEF Next

\* Every variable keeps its type, whatever the clients ask for.
THEOREM LifecycleTypeOK == Spec => []TypeOK
BY InitType, StepType, PTL DEF Spec
-----------------------------------------------------------------------------
\* What every writer keeps.  A compare-and-set, and a SET by a thread whose copy is
\* still the record, revise the record; a SET over another record clobbers the job,
\* and nothing is claimed of it from then on.

\* A job has a record, an acknowledged change, a reader or a thread at work only
\* after submit.
SubmittedFirst ==
    /\ \A j \in Job : Exists(j) \/ view[j] # Missing => j \in submitted
    /\ \A j \in Job : j \notin submitted => acked[j] = [lineage |-> 0, manifest |-> FALSE]
    /\ deleted \subseteq submitted
    /\ \A t \in Threads : thread[t] # Idle => thread[t].job \in submitted

\* What a client has read is no later version than the record, and an earlier one or
\* the record itself where every change has had its version.
ViewIsPast ==
    \A j \in Job \ clobbered : Exists(j) /\ view[j] # Missing =>
        /\ view[j].version <= store[j].version
        /\ j \in unversioned \/ view[j].version < store[j].version \/ view[j] = store[j]

KeptInv ==
    /\ TypeOK
    /\ SubmittedFirst
    /\ MetadataKept
    /\ DeletedStaysDeleted
    /\ ViewIsPast

\* What a step can do to a job.
Born(j) ==
    /\ j \notin submitted
    /\ submitted' = submitted \cup {j}
    /\ \E r \in Record : Put(j, r) /\ r.lineage = 0 /\ r.manifest = FALSE
    /\ UNCHANGED <<acked, deleted, view, clobbered, unversioned>>

Revised(j) ==
    /\ Exists(j)
    /\ \E r \in Record, a \in [lineage : Nat, manifest : BOOLEAN] :
          /\ Put(j, r)
          /\ acked' = [acked EXCEPT ![j] = a]
          /\ \/ r.version = store[j].version + 1 /\ unversioned \subseteq unversioned'
             \/ r.version = store[j].version /\ unversioned' = unversioned \cup {j}
          /\ j \notin clobbered => r.lineage = a.lineage /\ r.manifest = a.manifest
    /\ UNCHANGED <<submitted, deleted, view, clobbered>>

Clobbered(j) ==
    /\ j \in submitted
    /\ \E r \in Record : Put(j, r)
    /\ clobbered' = clobbered \cup {j}
    /\ unversioned \subseteq unversioned'
    /\ UNCHANGED <<submitted, acked, deleted, view>>

Removed(j) ==
    /\ Exists(j)
    /\ Put(j, Missing)
    /\ deleted' = deleted \cup {j}
    /\ UNCHANGED <<submitted, acked, view, clobbered, unversioned>>

Seen(j) ==
    /\ Exists(j)
    /\ view' = [view EXCEPT ![j] = store[j]]
    /\ UNCHANGED <<store, submitted, acked, deleted, clobbered, unversioned>>

Quiet ==
    /\ unversioned \subseteq unversioned'
    /\ UNCHANGED <<store, submitted, acked, deleted, view, clobbered>>

Form(j) == Born(j) \/ Revised(j) \/ Clobbered(j) \/ Removed(j) \/ Seen(j) \/ Quiet

\* What the threads have in hand after the step is of the job they had before it, or
\* they have just read it.
Hands ==
    \A t \in Threads :
        \/ thread'[t] = Idle \/ thread'[t] = thread[t]
        \/ thread[t] # Idle /\ thread'[t].job = thread[t].job
        \/ thread'[t].job \in Job /\ Exists(thread'[t].job)

LEMMA FieldsOf ==
    ASSUME NEW x, NEW y, NEW z, z = [lineage |-> x, manifest |-> y]
    PROVE  z.lineage = x /\ z.manifest = y
OBVIOUS

LEMMA AckedIsStored ==
    ASSUME KeptInv, NEW j \in Job, Exists(j), j \notin clobbered
    PROVE  acked[j].lineage = store[j].lineage /\ acked[j].manifest = store[j].manifest
<1>1. acked[j] = [lineage |-> store[j].lineage, manifest |-> store[j].manifest]
  BY DEF KeptInv, MetadataKept, Metadata
<1>2. QED
  BY <1>1, FieldsOf

\* A write that keeps the metadata is a revision.
LEMMA RevisedByMove ==
    ASSUME KeptInv, NEW j \in Job, Exists(j), NEW r \in Record, Put(j, r),
           \/ r.version = store[j].version + 1 /\ unversioned \subseteq unversioned'
           \/ r.version = store[j].version /\ unversioned' = unversioned \cup {j},
           r.lineage = store[j].lineage, r.manifest = store[j].manifest,
           UNCHANGED <<submitted, acked, deleted, view, clobbered>>
    PROVE  Revised(j)
<1> DEFINE a == acked[j]
<1>1. a \in [lineage : Nat, manifest : BOOLEAN]
  BY DEF KeptInv, TypeOK
<1>2. acked' = [acked EXCEPT ![j] = a]
  BY DEF KeptInv, TypeOK
<1>3. j \notin clobbered => r.lineage = a.lineage /\ r.manifest = a.manifest
  BY AckedIsStored
<1>4. QED
  BY <1>1, <1>2, <1>3 DEF Revised

LEMMA MovedFields ==
    ASSUME NEW r \in Record, NEW to \in States
    PROVE  /\ Moved(r, to) \in Record
           /\ Moved(r, to).version = r.version + 1
           /\ Moved(r, to).lineage = r.lineage
           /\ Moved(r, to).manifest = r.manifest
           /\ Moved(r, to).state = to
<1>1. Moved(r, to) \in Record
  BY MovedType
<1>2. /\ Moved(r, to).version = r.version + 1
      /\ Moved(r, to).state = to
  BY DEF Moved, Record
<1>3. /\ Moved(r, to).lineage = r.lineage
      /\ Moved(r, to).manifest = r.manifest
  BY DEF Moved, Record
<1>4. QED
  BY <1>1, <1>2, <1>3

\* A thread SETs a record made from the copy it has: a revision of the record it
\* read, or a record clobbered.
LEMMA WrittenForm ==
    ASSUME KeptInv, NEW t \in Threads, thread[t] # Idle, NEW r \in Record, SetRecord(t, r),
           \/ r.version = thread[t].seen.version + 1 /\ unversioned' = unversioned
           \/ r.version = thread[t].seen.version
              /\ unversioned' = unversioned \cup {thread[t].job},
           r.lineage = thread[t].seen.lineage, r.manifest = thread[t].seen.manifest
    PROVE  \E j \in Job : Form(j)
<1>1. PICK j \in Job : j = thread[t].job
  BY InStepType DEF KeptInv
<1>2. thread[t].seen \in Record
  BY InStepType DEF KeptInv
<1>3. UNCHANGED <<submitted, acked, deleted, view>>
  BY DEF SetRecord
<1>4. unversioned \subseteq unversioned'
  OBVIOUS
<1>5. CASE UNCHANGED <<store, clobbered>>
  BY <1>3, <1>4, <1>5 DEF Quiet, Form
<1>6. CASE Put(j, r) /\ clobbered' = IF store[j] = thread[t].seen THEN clobbered
                                     ELSE clobbered \cup {j}
  <2>1. CASE store[j] = thread[t].seen
    <3>1. Exists(j)
      BY <1>2, <2>1, BoundsAssumption DEF Exists
    <3>2. clobbered' = clobbered
      BY <1>6, <2>1
    <3>3. \/ r.version = store[j].version + 1 /\ unversioned \subseteq unversioned'
          \/ r.version = store[j].version /\ unversioned' = unversioned \cup {j}
      BY <1>1, <1>4, <2>1
    <3>4. Revised(j)
      BY <1>3, <1>6, <2>1, <3>1, <3>2, <3>3, RevisedByMove
    <3>5. QED
      BY <3>4 DEF Form
  <2>2. CASE store[j] # thread[t].seen
    <3>1. j \in submitted
      BY <1>1 DEF KeptInv, SubmittedFirst
    <3>2. Clobbered(j)
      BY <1>3, <1>4, <1>6, <2>2, <3>1 DEF Clobbered
    <3>3. QED
      BY <3>2 DEF Form
  <2>3. QED
    BY <2>1, <2>2
<1>7. QED
  BY <1>1, <1>5, <1>6 DEF SetRecord

\* The hands of a thread that takes up a record, or is done.
LEMMA HandsTaken ==
    ASSUME KeptInv, NEW t \in Threads, NEW j \in Job, Exists(j), NEW step,
           thread' = [thread EXCEPT ![t] = [step |-> step, job |-> j, seen |-> store[j]]]
    PROVE  Hands
<1> DEFINE hand == [step |-> step, job |-> j, seen |-> store[j]]
<1>1. hand.job = j
  OBVIOUS
<1>2. \A s \in Threads : thread'[s] = IF s = t THEN hand ELSE thread[s]
  BY DEF KeptInv, TypeOK
<1> HIDE DEF hand
<1>3. QED
  BY <1>1, <1>2 DEF Hands

LEMMA HandsDone ==
    ASSUME KeptInv, NEW t \in Threads, thread' = [thread EXCEPT ![t] = Idle]
    PROVE  Hands
BY DEF KeptInv, TypeOK, Hands

LEMMA HandsSame == ASSUME UNCHANGED thread PROVE Hands
BY DEF Hands

LEMMA SimulatorForm ==
    ASSUME KeptInv, NEW j \in Job, Simulator(j) PROVE Form(j) /\ Hands
<1>1. ASSUME NEW r, Exists(j) => /\ r \in Record /\ r.version = store[j].version + 1
                                 /\ r.lineage = store[j].lineage
                                 /\ r.manifest = store[j].manifest,
             Mutated(j, r),
             UNCHANGED <<submitted, acked, deleted, view, clobbered, unversioned>>
      PROVE  Form(j)
  <2>1. CASE UNCHANGED store
    BY <1>1, <2>1 DEF Form, Quiet
  <2>2. CASE Exists(j) /\ Put(j, r)
    BY <1>1, <2>2, RevisedByMove DEF Form
  <2>3. QED
    BY <1>1, <2>1, <2>2 DEF Mutated
<1>2. CASE SimStart(j)
  <2> DEFINE q == Moved(store[j], "RUNNING")
             r == [q EXCEPT !.executor = "simulator"]
  <2>1. Exists(j) => /\ r \in Record /\ r.version = store[j].version + 1
                     /\ r.lineage = store[j].lineage
                     /\ r.manifest = store[j].manifest
    <3> SUFFICES ASSUME Exists(j)
                 PROVE  /\ r \in Record /\ r.version = store[j].version + 1
                        /\ r.lineage = store[j].lineage
                        /\ r.manifest = store[j].manifest
      OBVIOUS
    <3>1. store[j] \in Record
      BY ExistsType DEF KeptInv
    <3>2. /\ q \in Record /\ q.version = store[j].version + 1
          /\ q.lineage = store[j].lineage /\ q.manifest = store[j].manifest
      BY <3>1, MovedFields DEF States
    <3> HIDE DEF q
    <3>3. QED
      BY <3>2 DEF Record, Names
  <2>2. Mutated(j, r)
    BY <1>2 DEF SimStart
  <2>3. UNCHANGED <<submitted, acked, deleted, view, clobbered, unversioned, thread>>
    BY <1>2 DEF SimStart
  <2> HIDE DEF r
  <2>4. QED
    BY <1>1, <2>1, <2>2, <2>3, HandsSame
<1>3. CASE SimComplete(j)
  <2> DEFINE r == Moved(store[j], "COMPLETED")
  <2>1. Exists(j) => /\ r \in Record /\ r.version = store[j].version + 1
                     /\ r.lineage = store[j].lineage
                     /\ r.manifest = store[j].manifest
    BY ExistsType, MovedFields DEF KeptInv, States
  <2>2. Mutated(j, r)
    BY <1>3 DEF SimComplete
  <2>3. UNCHANGED <<submitted, acked, deleted, view, clobbered, unversioned, thread>>
    BY <1>3 DEF SimComplete
  <2> HIDE DEF r
  <2>4. QED
    BY <1>1, <2>1, <2>2, <2>3, HandsSame
<1>4. QED
  BY <1>2, <1>3 DEF Simulator

LEMMA ApiForm ==
    ASSUME KeptInv, NEW j \in Job, Api(j) PROVE Form(j) /\ Hands
<1>1. ASSUME NEW request \in Requests, Submit(j, request) PROVE Form(j) /\ Hands
  <2> DEFINE r == [state |-> "QUEUED", version |-> 1, workflow |-> request.workflow,
                   executor |-> request.executor, deferred |-> request.deferred,
                   lineage |-> 0, manifest |-> FALSE]
  <2>1. r \in Record
    BY RequestsAssumption DEF Record, States
  <2>2. Put(j, r)
    BY <1>1 DEF Submit
  <2>3. r.lineage = 0 /\ r.manifest = FALSE
    OBVIOUS
  <2> HIDE DEF r
  <2>4. Born(j)
    BY <1>1, <2>1, <2>2, <2>3 DEF Submit, Born
  <2>5. QED
    BY <1>1, <2>4, HandsSame DEF Form, Submit
<1>2. CASE Get(j)
  BY <1>2, HandsSame DEF Get, Form, Seen
<1>3. ASSUME NEW to \in ApiStates, NEW basis, Transition(j, to, basis)
      PROVE  Form(j) /\ Hands
  <2>1. to \in States /\ store[j] \in Record
    BY <1>3, ExistsType DEF KeptInv, Transition, IsValidTransition, Terminal, States, Record
  <2>2. /\ Put(j, Moved(store[j], to)) /\ Exists(j)
        /\ UNCHANGED <<submitted, acked, deleted, view, clobbered, unversioned, thread>>
    BY <1>3 DEF Transition
  <2>3. Revised(j)
    BY <2>1, <2>2, MovedFields, RevisedByMove
  <2>4. QED
    BY <2>2, <2>3, HandsSame DEF Form
<1>4. ASSUME NEW basis, Retry(j, basis) PROVE Form(j) /\ Hands
  <2>1. "QUEUED" \in States /\ store[j] \in Record
    BY <1>4, ExistsType DEF KeptInv, Retry, States
  <2>2. /\ Put(j, Moved(store[j], "QUEUED")) /\ Exists(j)
        /\ UNCHANGED <<submitted, acked, deleted, view, clobbered, unversioned, thread>>
    BY <1>4 DEF Retry
  <2>3. Revised(j)
    BY <2>1, <2>2, MovedFields, RevisedByMove
  <2>4. QED
    BY <2>2, <2>3, HandsSame DEF Form
<1>5. CASE UpdateLineage(j)
  <2> DEFINE n == acked[j].lineage + 1
             s == [store[j] EXCEPT !.lineage = n]
             r == [store[j] EXCEPT !.lineage = n, !.version = @ + 1]
             a == [acked[j] EXCEPT !.lineage = n]
  <2>1. /\ store[j] \in Record /\ Exists(j)
        /\ acked[j] \in [lineage : Nat, manifest : BOOLEAN]
    BY <1>5, ExistsType DEF KeptInv, TypeOK, UpdateLineage
  <2>2. a \in [lineage : Nat, manifest : BOOLEAN] /\ a.lineage = n
    BY <2>1
  <2>3. a.manifest = acked[j].manifest
    BY <2>1
  <2>4. j \notin clobbered => acked[j].manifest = store[j].manifest
    BY <2>1, AckedIsStored
  <2>5. s \in Record /\ s.version = store[j].version
    BY <2>1, <2>2 DEF Record
  <2>6. r \in Record /\ r.version = store[j].version + 1
    <3>1. store[j].version + 1 \in Nat
      BY <2>1 DEF Record
    <3>2. [s EXCEPT !.version = store[j].version + 1] \in Record
      BY <2>5, <3>1 DEF Record
    <3>3. r = [s EXCEPT !.version = store[j].version + 1]
      BY <2>1 DEF Record
    <3>4. r.version = store[j].version + 1
      BY <2>1 DEF Record
    <3>5. QED
      BY <3>2, <3>3, <3>4
  <2>7. r.lineage = n /\ r.manifest = store[j].manifest
    BY <2>1 DEF Record
  <2>8. /\ Put(j, r) /\ acked' = [acked EXCEPT ![j] = a]
        /\ UNCHANGED <<submitted, deleted, view, clobbered, unversioned, thread>>
    BY <1>5, <2>1 DEF UpdateLineage, KeptInv, TypeOK
  <2> HIDE DEF r, a, n
  <2>9. Revised(j)
    BY <2>1, <2>2, <2>3, <2>4, <2>6, <2>7, <2>8 DEF Revised
  <2>10. QED
    BY <2>8, <2>9, HandsSame DEF Form
<1>6. CASE AttachManifest(j)
  <2> DEFINE s == [store[j] EXCEPT !.version = @ + 1]
             r == [store[j] EXCEPT !.manifest = TRUE, !.version = @ + 1]
             a == [acked[j] EXCEPT !.manifest = TRUE]
  <2>1. /\ store[j] \in Record /\ Exists(j)
        /\ acked[j] \in [lineage : Nat, manifest : BOOLEAN]
    BY <1>6, ExistsType DEF KeptInv, TypeOK, AttachManifest
  <2>2. a \in [lineage : Nat, manifest : BOOLEAN] /\ a.lineage = acked[j].lineage
    BY <2>1
  <2>3. a.manifest = TRUE
    BY <2>1
  <2>4. j \notin clobbered => acked[j].lineage = store[j].lineage
    BY <2>1, AckedIsStored
  <2>5. r \in Record
    <3>1. s \in Record
      BY <2>1 DEF Record
    <3>2. [s EXCEPT !.manifest = TRUE] \in Record
      BY <3>1 DEF Record
    <3>3. r = [s EXCEPT !.manifest = TRUE]
      BY <2>1 DEF Record
    <3>4. QED
      BY <3>2, <3>3
  <2>6. r.version = store[j].version + 1 /\ r.lineage = store[j].lineage
    BY <2>1 DEF Record
  <2>7. r.manifest = TRUE
    BY <2>1 DEF Record
  <2>8. /\ Put(j, r) /\ acked' = [acked EXCEPT ![j] = a]
        /\ UNCHANGED <<submitted, deleted, view, clobbered, unversioned, thread>>
    BY <1>6, <2>1 DEF AttachManifest, KeptInv, TypeOK
  <2> HIDE DEF r, a
  <2>9. j \notin clobbered => r.lineage = a.lineage /\ r.manifest = a.manifest
    BY <2>2, <2>3, <2>4, <2>6, <2>7
  <2>10. Revised(j)
    BY <2>1, <2>2, <2>5, <2>6, <2>8, <2>9 DEF Revised
  <2>11. QED
    BY <2>8, <2>10, HandsSame DEF Form
<1>7. CASE DeleteJob(j)
  BY <1>7, HandsSame DEF DeleteJob, Form, Removed
<1>8. ASSUME NEW t \in Releasers, ReleaseLoad(t, j) PROVE Form(j) /\ Hands
  <2>1. t \in Threads
    BY ThreadsType
  <2>2. Hands
    BY <1>8, <2>1, HandsTaken DEF ReleaseLoad
  <2>3. QED
    BY <1>8, <2>2 DEF ReleaseLoad, Form, Quiet
<1>9. QED
  BY <1>1, <1>2, <1>3, <1>4, <1>5, <1>6, <1>7, <1>8 DEF Api

LEMMA LoadForm ==
    ASSUME KeptInv, NEW t \in Threads, NEW j \in Job, NEW k, NEW step, Load(t, j, k, step)
    PROVE  Form(j) /\ Hands
<1>1. Hands
  BY HandsTaken, HandsSame DEF Load
<1>2. QED
  BY <1>1 DEF Load, Form, Quiet

LEMMA SeenFields ==
    ASSUME TypeOK, NEW t \in Threads, thread[t] # Idle, NEW to \in States
    PROVE  /\ Moved(thread[t].seen, to) \in Record
           /\ Moved(thread[t].seen, to).version = thread[t].seen.version + 1
           /\ Moved(thread[t].seen, to).lineage = thread[t].seen.lineage
           /\ Moved(thread[t].seen, to).manifest = thread[t].seen.manifest
           /\ Moved(thread[t].seen, to).deferred = thread[t].seen.deferred
<1>1. thread[t].seen \in Record
  BY InStepType
<1>2. Moved(thread[t].seen, to).deferred = thread[t].seen.deferred
  BY <1>1 DEF Moved, Record
<1>3. QED
  BY <1>1, <1>2, MovedFields

\* A thread moves its copy on and SETs it.
LEMMA MovedForm ==
    ASSUME KeptInv, NEW t \in Threads, thread[t] # Idle, NEW to \in States,
           SetRecord(t, Moved(thread[t].seen, to)), unversioned' = unversioned
    PROVE  \E j \in Job : Form(j)
<1> DEFINE r == Moved(thread[t].seen, to)
<1>1. /\ r \in Record /\ r.version = thread[t].seen.version + 1
      /\ r.lineage = thread[t].seen.lineage /\ r.manifest = thread[t].seen.manifest
  BY SeenFields DEF KeptInv
<1>2. SetRecord(t, r)
  OBVIOUS
<1> HIDE DEF r
<1>3. QED
  BY <1>1, <1>2, WrittenForm

LEMMA MovedAndDone ==
    ASSUME KeptInv, NEW t \in Threads, thread[t] # Idle, NEW to \in States,
           Write(t, Moved(thread[t].seen, to)), unversioned' = unversioned
    PROVE  (\E j \in Job : Form(j)) /\ Hands
<1>1. \E j \in Job : Form(j)
  BY MovedForm DEF Write
<1>2. Hands
  BY HandsDone DEF Write
<1>3. QED
  BY <1>1, <1>2

LEMMA ReleaseForm ==
    ASSUME KeptInv, NEW t \in Releasers, ReleaseWrite(t)
    PROVE  (\E j \in Job : Form(j)) /\ Hands
<1> DEFINE s == thread[t].seen
           q == [s EXCEPT !.version = @ + 1]
           r == [s EXCEPT !.deferred = FALSE, !.version = @ + 1]
<1>1. t \in Threads /\ thread[t] # Idle
  BY ThreadsType DEF ReleaseWrite, InStep
<1>2. s \in Record
  BY <1>1, InStepType DEF KeptInv
<1>3. q \in Record
  BY <1>2 DEF Record
<1>4. r \in Record
  <2>1. [q EXCEPT !.deferred = FALSE] \in Record
    BY <1>3 DEF Record
  <2>2. r = [q EXCEPT !.deferred = FALSE]
    BY <1>2 DEF Record
  <2>3. QED
    BY <2>1, <2>2
<1>5. r.version = s.version + 1 /\ r.lineage = s.lineage
  BY <1>2 DEF Record
<1>6. r.manifest = s.manifest
  BY <1>2 DEF Record
<1>7. Write(t, r) /\ unversioned' = unversioned
  BY DEF ReleaseWrite
<1> HIDE DEF r
<1>8. \E j \in Job : Form(j)
  BY <1>1, <1>4, <1>5, <1>6, <1>7, WrittenForm DEF Write
<1>9. Hands
  BY <1>1, <1>7, HandsDone DEF Write
<1>10. QED
  BY <1>8, <1>9

LEMMA TaccForm == ASSUME KeptInv, Tacc PROVE (\E j \in Job : Form(j)) /\ Hands
<1> USE ThreadsType
<1>1. ASSUME NEW j \in Job, TaccLoad(j) PROVE Form(j) /\ Hands
  BY <1>1, LoadForm DEF TaccLoad
<1>2. ASSUME NEW r, Write(TaccThread, r), thread[TaccThread] # Idle,
             \/ r = [thread[TaccThread].seen EXCEPT !.state = "RUNNING", !.executor = "tacc"]
             \/ r = [thread[TaccThread].seen EXCEPT !.state = "COMPLETED"],
             unversioned' = unversioned \cup {thread[TaccThread].job}
      PROVE  (\E j \in Job : Form(j)) /\ Hands
  <2> DEFINE s == thread[TaccThread].seen
  <2>1. s \in Record
    BY <1>2, InStepType DEF KeptInv
  <2>2. r \in Record
    BY <1>2, <2>1 DEF Record, States, Names
  <2>3. r.version = s.version /\ r.lineage = s.lineage
    BY <1>2, <2>1 DEF Record
  <2>4. r.manifest = s.manifest
    BY <1>2, <2>1 DEF Record
  <2>5. \E j \in Job : Form(j)
    BY <1>2, <2>2, <2>3, <2>4, WrittenForm DEF Write
  <2>6. Hands
    BY <1>2, HandsDone DEF Write
  <2>7. QED
    BY <2>5, <2>6
<1>3. CASE TaccSubmitted
  BY <1>2, <1>3 DEF TaccSubmitted, InStep
<1>4. CASE TaccCompleted
  BY <1>2, <1>4 DEF TaccCompleted, InStep
<1>5. QED
  BY <1>1, <1>3, <1>4 DEF Tacc

LEMMA VoForm == ASSUME KeptInv, NEW t \in VoThreads, Vo(t)
                PROVE  (\E j \in Job : Form(j)) /\ Hands
<1> USE ThreadsType
<1>1. ASSUME NEW j \in Job, VoLoadStart(t, j) \/ VoLoadRun(t, j) PROVE Form(j) /\ Hands
  BY <1>1, LoadForm DEF VoLoadStart, VoLoadRun
<1>2. CASE VoStarted(t)
  <2> DEFINE q == Moved(thread[t].seen, "RUNNING")
             r == [q EXCEPT !.executor = "vo"]
  <2>1. thread[t] # Idle /\ Write(t, r) /\ unversioned' = unversioned
    BY <1>2 DEF VoStarted, InStep
  <2>2. /\ q \in Record /\ q.version = thread[t].seen.version + 1
        /\ q.lineage = thread[t].seen.lineage /\ q.manifest = thread[t].seen.manifest
    BY <2>1, SeenFields DEF KeptInv, States
  <2> HIDE DEF q
  <2>3. r \in Record /\ r.version = q.version /\ r.lineage = q.lineage
    BY <2>2 DEF Record, Names
  <2>4. r.manifest = q.manifest
    BY <2>2 DEF Record
  <2> HIDE DEF r
  <2>5. \E j \in Job : Form(j)
    BY <2>1, <2>2, <2>3, <2>4, WrittenForm DEF Write
  <2>6. Hands
    BY <2>1, HandsDone DEF Write
  <2>7. QED
    BY <2>5, <2>6
<1>3. ASSUME thread[t] # Idle, NEW steps, ReadAgain(t, steps)
      PROVE  (\E j \in Job : Form(j)) /\ Hands
  <2>1. thread[t].job \in Job
    BY <1>3, InStepType DEF KeptInv
  <2>2. Hands
    BY <1>3, <2>1, HandsTaken, HandsDone DEF ReadAgain, Reload
  <2>3. Quiet
    BY <1>3 DEF ReadAgain, Quiet
  <2>4. QED
    BY <2>1, <2>2, <2>3 DEF Form
<1>4. CASE VoCompleted(t)
  <2> DEFINE caught == [thread[t] EXCEPT !.step = "voCaught"]
  <2>1. thread[t] \in InHand /\ thread[t] # Idle
    BY <1>4, InStepType DEF KeptInv, VoCompleted, InStep
  <2>2. \E j \in Job : Form(j)
    BY <1>4, <2>1, MovedForm DEF VoCompleted, States
  <2>3. caught.job = thread[t].job
    BY <2>1 DEF InHand
  <2>4. thread' = [thread EXCEPT ![t] = caught] \/ thread' = [thread EXCEPT ![t] = Idle]
    BY <1>4 DEF VoCompleted
  <2> HIDE DEF caught
  <2>5. Hands
    BY <2>1, <2>3, <2>4 DEF Hands, KeptInv, TypeOK
  <2>6. QED
    BY <2>2, <2>5
<1>5. CASE VoFailed(t)
  BY <1>5, MovedAndDone DEF VoFailed, InStep, States
<1>6. QED
  BY <1>1, <1>2, <1>3, <1>4, <1>5 DEF Vo, VoDispatched, VoCaught, InStep

LEMMA RecoveryForm == ASSUME KeptInv, Recovery PROVE (Quiet \/ \E j \in Job : Form(j)) /\ Hands
<1> USE ThreadsType
<1>1. ASSUME NEW j \in Job, RecoverLoad(j) PROVE Quiet /\ Hands
  <2>1. Hands
    BY <1>1, HandsTaken, HandsSame DEF RecoverLoad, Reload
  <2>2. QED
    BY <1>1, <2>1 DEF RecoverLoad, Quiet
<1>2. CASE RecoverWrite
  BY <1>2, MovedAndDone DEF RecoverWrite, InStep, States
<1>3. QED
  BY <1>1, <1>2 DEF Recovery

\* Every step is of one of the forms, for some job.
LEMMA StepForm ==
    ASSUME KeptInv, Next PROVE (Quiet \/ \E j \in Job : Form(j)) /\ Hands
<1>1. ASSUME NEW j \in Job, Scan(j) PROVE Quiet /\ Hands
  BY <1>1, HandsSame DEF Scan, Quiet
<1>2. CASE Restart
  BY <1>2 DEF Restart, Quiet, Hands
<1>3. QED
  BY <1>1, <1>2, ApiForm, SimulatorForm, ReleaseForm, TaccForm, VoForm, RecoveryForm DEF Next

\* A record's fields before and after a step on job j; the others stay.
LEMMA PutElsewhere ==
    ASSUME KeptInv, NEW j \in Job, NEW r, Put(j, r)
    PROVE  store'[j] = r /\ \A i \in Job \ {j} : store'[i] = store[i]
BY DEF Put, KeptInv, TypeOK

LEMMA BornKeeps ==
    ASSUME KeptInv, NEW j \in Job, Born(j), Hands, TypeOK'
    PROVE  KeptInv'
<1>1. PICK r \in Record : Put(j, r) /\ r.lineage = 0 /\ r.manifest = FALSE
  BY DEF Born
<1>2. store'[j] = r /\ \A i \in Job \ {j} : store'[i] = store[i]
  BY <1>1, PutElsewhere
<1>3. j \notin submitted /\ submitted' = submitted \cup {j}
  BY DEF Born
<1>4. UNCHANGED <<acked, deleted, view, clobbered, unversioned>>
  BY DEF Born
<1>5. SubmittedFirst'
  BY <1>2, <1>3, <1>4 DEF KeptInv, SubmittedFirst, Exists, Hands
<1>6. MetadataKept'
  <2>1. acked[j] = [lineage |-> 0, manifest |-> FALSE]
    BY <1>3 DEF KeptInv, SubmittedFirst
  <2>2. ASSUME NEW i \in Job \ clobbered', Exists(i)'
        PROVE  [lineage |-> store'[i].lineage, manifest |-> store'[i].manifest] = acked'[i]
    <3>1. CASE i = j
      BY <1>1, <1>2, <1>4, <2>1, <3>1
    <3>2. CASE i # j
      BY <1>2, <1>4, <2>2, <3>2 DEF KeptInv, MetadataKept, Metadata, Exists
    <3>3. QED
      BY <3>1, <3>2
  <2>3. QED
    BY <2>2 DEF MetadataKept, Metadata
<1>7. DeletedStaysDeleted'
  BY <1>2, <1>3, <1>4 DEF KeptInv, SubmittedFirst, DeletedStaysDeleted, TypeOK
<1>8. ViewIsPast'
  <2>1. view[j] = Missing
    BY <1>3 DEF KeptInv, SubmittedFirst
  <2>2. QED
    BY <1>2, <1>4, <2>1 DEF KeptInv, ViewIsPast, Exists
<1>9. QED
  BY <1>5, <1>6, <1>7, <1>8 DEF KeptInv

LEMMA RevisedKeeps ==
    ASSUME KeptInv, NEW j \in Job, Revised(j), Hands, TypeOK'
    PROVE  KeptInv'
<1>1. PICK r \in Record, a \in [lineage : Nat, manifest : BOOLEAN] :
          /\ Put(j, r)
          /\ acked' = [acked EXCEPT ![j] = a]
          /\ \/ r.version = store[j].version + 1 /\ unversioned \subseteq unversioned'
             \/ r.version = store[j].version /\ unversioned' = unversioned \cup {j}
          /\ j \notin clobbered => r.lineage = a.lineage /\ r.manifest = a.manifest
  BY DEF Revised
<1>2. store'[j] = r /\ \A i \in Job \ {j} : store'[i] = store[i]
  BY <1>1, PutElsewhere
<1>3. Exists(j) /\ UNCHANGED <<submitted, deleted, view, clobbered>>
  BY DEF Revised
<1>4. acked'[j] = a /\ \A i \in Job \ {j} : acked'[i] = acked[i]
  BY <1>1 DEF KeptInv, TypeOK
<1>5. j \in submitted
  BY <1>3 DEF KeptInv, SubmittedFirst
<1>6. SubmittedFirst'
  BY <1>2, <1>3, <1>4, <1>5 DEF KeptInv, SubmittedFirst, Exists, Hands
<1>7. MetadataKept'
  <2>1. j \notin clobbered => [lineage |-> r.lineage, manifest |-> r.manifest] = a
    BY <1>1
  <2>2. ASSUME NEW i \in Job \ clobbered', Exists(i)'
        PROVE  [lineage |-> store'[i].lineage, manifest |-> store'[i].manifest] = acked'[i]
    <3>1. CASE i = j
      BY <1>2, <1>3, <1>4, <2>1, <3>1
    <3>2. CASE i # j
      BY <1>2, <1>3, <1>4, <2>2, <3>2 DEF KeptInv, MetadataKept, Metadata, Exists
    <3>3. QED
      BY <3>1, <3>2
  <2>3. QED
    BY <2>2 DEF MetadataKept, Metadata
<1>8. DeletedStaysDeleted'
  <2>1. j \notin deleted \/ j \in clobbered
    BY <1>3 DEF KeptInv, DeletedStaysDeleted, Exists
  <2>2. QED
    BY <1>2, <1>3, <2>1 DEF KeptInv, DeletedStaysDeleted, TypeOK
<1>9. ViewIsPast'
  <2>1. ASSUME view[j] # Missing, j \notin clobbered
        PROVE  /\ view[j].version <= r.version
               /\ j \in unversioned' \/ view[j].version < r.version
    <3>1. view[j] \in Record /\ store[j] \in Record
      BY <1>3, <2>1 DEF KeptInv, TypeOK, Exists
    <3>2. view[j].version \in Nat /\ store[j].version \in Nat
      BY <3>1 DEF Record
    <3>3. view[j].version <= store[j].version
      BY <1>3, <2>1 DEF KeptInv, ViewIsPast
    <3>4. QED
      BY <1>1, <3>2, <3>3
  <2>2. unversioned \subseteq unversioned'
    BY <1>1
  <2>3. QED
    BY <1>2, <1>3, <2>1, <2>2 DEF KeptInv, ViewIsPast, Exists
<1>10. QED
  BY <1>6, <1>7, <1>8, <1>9 DEF KeptInv

LEMMA ClobberedKeeps ==
    ASSUME KeptInv, NEW j \in Job, Clobbered(j), Hands, TypeOK'
    PROVE  KeptInv'
<1>1. PICK r \in Record : Put(j, r)
  BY DEF Clobbered
<1>2. \A i \in Job \ {j} : store'[i] = store[i]
  BY <1>1, PutElsewhere
<1>3. /\ j \in submitted /\ clobbered' = clobbered \cup {j} /\ unversioned \subseteq unversioned'
      /\ UNCHANGED <<submitted, acked, deleted, view>>
  BY DEF Clobbered
<1>4. SubmittedFirst'
  BY <1>2, <1>3 DEF KeptInv, SubmittedFirst, Exists, Hands
<1>5. MetadataKept'
  BY <1>2, <1>3 DEF KeptInv, MetadataKept, Metadata, Exists
<1>6. DeletedStaysDeleted'
  BY <1>2, <1>3 DEF KeptInv, DeletedStaysDeleted, TypeOK
<1>7. ViewIsPast'
  BY <1>2, <1>3 DEF KeptInv, ViewIsPast, Exists
<1>8. QED
  BY <1>4, <1>5, <1>6, <1>7 DEF KeptInv

LEMMA RemovedKeeps ==
    ASSUME KeptInv, NEW j \in Job, Removed(j), Hands, TypeOK'
    PROVE  KeptInv'
<1>1. store'[j] = Missing /\ \A i \in Job \ {j} : store'[i] = store[i]
  BY PutElsewhere DEF Removed
<1>2. Exists(j) /\ deleted' = deleted \cup {j}
  BY DEF Removed
<1>3. UNCHANGED <<submitted, acked, view, clobbered, unversioned>>
  BY DEF Removed
<1>4. SubmittedFirst'
  BY <1>1, <1>2, <1>3 DEF KeptInv, SubmittedFirst, Exists, Hands
<1>5. MetadataKept' /\ ViewIsPast'
  BY <1>1, <1>3 DEF KeptInv, MetadataKept, Metadata, ViewIsPast, Exists
<1>6. DeletedStaysDeleted'
  BY <1>1, <1>2, <1>3 DEF KeptInv, DeletedStaysDeleted, TypeOK
<1>7. QED
  BY <1>4, <1>5, <1>6 DEF KeptInv

LEMMA SeenKeeps ==
    ASSUME KeptInv, NEW j \in Job, Seen(j), Hands, TypeOK'
    PROVE  KeptInv'
<1>1. view'[j] = store[j] /\ \A i \in Job \ {j} : view'[i] = view[i]
  BY DEF Seen, KeptInv, TypeOK
<1>2. Exists(j) /\ UNCHANGED <<store, submitted, acked, deleted, clobbered, unversioned>>
  BY DEF Seen
<1>3. SubmittedFirst'
  BY <1>1, <1>2 DEF KeptInv, SubmittedFirst, Exists, Hands
<1>4. MetadataKept' /\ DeletedStaysDeleted'
  BY <1>2 DEF KeptInv, MetadataKept, Metadata, DeletedStaysDeleted, Exists
<1>5. ViewIsPast'
  <2>1. store[j].version <= store[j].version
    BY <1>2, ExistsType DEF KeptInv, Record
  <2>2. QED
    BY <1>1, <1>2, <2>1 DEF KeptInv, ViewIsPast, Exists
<1>6. QED
  BY <1>3, <1>4, <1>5 DEF KeptInv

LEMMA QuietKeeps ==
    ASSUME KeptInv, Quiet, Hands, TypeOK'
    PROVE  KeptInv'
<1>1. SubmittedFirst'
  BY DEF KeptInv, SubmittedFirst, Quiet, Exists, Hands
<1>2. QED
  BY <1>1 DEF KeptInv, Quiet, MetadataKept, Metadata, DeletedStaysDeleted, ViewIsPast, Exists

LEMMA KeptInvInit == Init => KeptInv
<1> SUFFICES ASSUME Init PROVE KeptInv
  OBVIOUS
<1>1. TypeOK
  BY InitType
<1>2. QED
  BY <1>1 DEF Init, KeptInv, SubmittedFirst, MetadataKept, DeletedStaysDeleted,
              ViewIsPast, Exists

LEMMA KeptInvStep == KeptInv /\ [Next]_vars => KeptInv'
<1> SUFFICES ASSUME KeptInv, [Next]_vars PROVE KeptInv'
  OBVIOUS
<1>1. TypeOK'
  BY StepType DEF KeptInv
<1>2. (Quiet \/ \E j \in Job : Form(j)) /\ Hands
  <2>1. CASE UNCHANGED vars
    BY <2>1, HandsSame DEF vars, Quiet
  <2>2. QED
    BY <2>1, StepForm
<1>3. QED
  BY <1>1, <1>2, BornKeeps, RevisedKeeps, ClobberedKeeps, RemovedKeeps, SeenKeeps, QuietKeeps
     DEF Form

LEMMA KeptInvImplies == KeptInv => MetadataKept /\ DeletedStaysDeleted /\ VersionNamesContent
<1> SUFFICES ASSUME KeptInv PROVE VersionNamesContent
  BY DEF KeptInv
<1>1. ASSUME NEW j \in Job \ (clobbered \cup unversioned), Exists(j), view[j] # Missing,
             view[j].version = store[j].version
      PROVE  view[j] = store[j]
  <2>1. store[j].version \in Nat
    BY <1>1, ExistsType DEF KeptInv, Record
  <2>2. view[j].version < store[j].version \/ view[j] = store[j]
    BY <1>1 DEF KeptInv, ViewIsPast
  <2>3. QED
    BY <1>1, <2>1, <2>2
<1>2. QED
  BY <1>1 DEF VersionNamesContent

LEMMA AlwaysKept == Spec => []KeptInv
BY KeptInvInit, KeptInvStep, PTL DEF Spec

\* With every executor, releaser and restart, metadata a client was told of is dropped
\* only by a SET over a record the writer had not read.
THEOREM OnlyClobberingLosesMetadata == Spec => []MetadataKept
BY AlwaysKept, KeptInvImplies, PTL

\* In the same deployments a deleted job comes back only by such a SET.
THEOREM OnlyClobberingRevives == Spec => []DeletedStaysDeleted
BY AlwaysKept, KeptInvImplies, PTL

\* In the same deployments a version a client has read names one content of the record,
\* but for such a SET and for TaccExecutorStub's, which keep the version.
THEOREM VersionsAreSound == Spec => []VersionNamesContent
BY AlwaysKept, KeptInvImplies, PTL

\* In the same deployments the version of a record goes back only by such a SET.
THEOREM OnlyClobberingLowersVersions == Spec => VersionNeverFalls
<1> DEFINE Rises == \A j \in Job : Exists(j) /\ Exists(j)' /\ j \notin clobbered'
                                       => store'[j].version >= store[j].version
<1>1. KeptInv /\ [Next]_vars => [Rises]_vars
  <2> SUFFICES ASSUME KeptInv, Next PROVE Rises
    OBVIOUS
  <2>1. ASSUME NEW i \in Job, Exists(i) PROVE store[i].version \in Nat
    BY <2>1, ExistsType DEF KeptInv, Record
  <2>2. CASE UNCHANGED store
    BY <2>1, <2>2
  <2>3. ASSUME NEW j \in Job, Born(j) PROVE Rises
    <3>1. ~Exists(j)
      BY <2>3 DEF Born, KeptInv, SubmittedFirst
    <3>2. \A i \in Job \ {j} : store'[i] = store[i]
      BY <2>3, PutElsewhere DEF Born
    <3>3. QED
      BY <2>1, <3>1, <3>2
  <2>4. ASSUME NEW j \in Job, Revised(j) PROVE Rises
    <3>1. PICK r \in Record : Put(j, r) /\ r.version \in {store[j].version, store[j].version + 1}
      BY <2>4 DEF Revised
    <3>2. store'[j] = r /\ \A i \in Job \ {j} : store'[i] = store[i]
      BY <3>1, PutElsewhere
    <3>3. QED
      BY <2>1, <3>1, <3>2
  <2>5. ASSUME NEW j \in Job, Removed(j) PROVE Rises
    <3>1. store'[j] = Missing /\ \A i \in Job \ {j} : store'[i] = store[i]
      BY <2>5, PutElsewhere DEF Removed
    <3>2. QED
      BY <2>1, <3>1 DEF Exists
  <2>6. ASSUME NEW j \in Job, Clobbered(j) PROVE Rises
    <3>1. j \in clobbered' /\ \A i \in Job \ {j} : store'[i] = store[i]
      BY <2>6, PutElsewhere DEF Clobbered
    <3>2. QED
      BY <2>1, <3>1
  <2>7. QED
    BY <2>2, <2>3, <2>4, <2>5, <2>6, StepForm DEF Form, Quiet, Seen
<1>2. QED
  BY <1>1, AlwaysKept, PTL DEF Spec, VersionNeverFalls

-----------------------------------------------------------------------------
\* Deferred jobs.  The executors, the scanner, the releasers and the sweep after
\* a restart are all there; clients end jobs but do not start them.

ClientsDoNotStart == "RUNNING" \notin ApiStates

Handles(t, j) == thread[t] # Idle /\ thread[t].job = j
NoTask(j) == \A k \in Kinds : pending[j][k] = 0

\* No task, and no thread but a releaser, has to do with a deferred job, nor
\* anything with a job that is not submitted yet.
JobHeld(j) ==
    /\ Exists(j) /\ store[j].deferred =>
          /\ NoTask(j)
          /\ \A t \in Threads : Handles(t, j) => thread[t].step = "release"
          /\ ClientsDoNotStart => store[j].state # "RUNNING"
    /\ j \notin submitted => ~Exists(j) /\ NoTask(j) /\ \A t \in Threads : ~Handles(t, j)

\* What such a thread holds is no copy of a deferred record.
CopyHeld(t) ==
    thread[t] # Idle /\ thread[t].step # "release" => ~thread[t].seen.deferred

\* The sweep after a restart takes up running jobs: it is no danger where there is
\* no restart, or no client makes a deferred job running.
SweepHarmless == ClientsDoNotStart \/ (MaxRestarts = 0 /\ recovering = {})

HeldInv ==
    /\ \A j \in Job : JobHeld(j)
    /\ \A t \in Threads : CopyHeld(t)
    /\ SweepHarmless

\* A step that has to do with job j leaves the others alone.
OnlyJob(j) ==
    \A i \in Job \ {j} :
        /\ store'[i] = store[i] /\ pending'[i] = pending[i]
        /\ i \in submitted' <=> i \in submitted
        /\ \A s \in Threads : Handles(s, i)' => thread'[s] = thread[s]

LEMMA HeldElsewhere ==
    ASSUME NEW j \in Job, OnlyJob(j), NEW i \in Job \ {j}, JobHeld(i)
    PROVE  JobHeld(i)'
BY DEF OnlyJob, JobHeld, NoTask, Handles, Exists

LEMMA HeldByJob ==
    ASSUME HeldInv, NEW j \in Job, OnlyJob(j), JobHeld(j)', \A t \in Threads : CopyHeld(t)',
           recovering' \subseteq recovering
    PROVE  HeldInv'
<1>1. \A i \in Job : JobHeld(i)'
  BY HeldElsewhere DEF HeldInv
<1>2. SweepHarmless'
  BY DEF HeldInv, SweepHarmless
<1>3. QED
  BY <1>1, <1>2 DEF HeldInv

\* A new version of j's record is as deferred as the one before, and no more
\* running; no task is added, no thread moves.
LEMMA RevisionHeld ==
    ASSUME TypeOK, HeldInv, NEW j \in Job, NEW r, Exists(j), Put(j, r),
           r.deferred = store[j].deferred,
           r.deferred /\ ClientsDoNotStart => r.state # "RUNNING",
           NoTask(j) => NoTask(j)', \A i \in Job \ {j} : pending'[i] = pending[i],
           thread' = thread, submitted' = submitted, recovering' = recovering
    PROVE  HeldInv'
<1>1. store'[j] = r /\ \A i \in Job \ {j} : store'[i] = store[i]
  BY DEF TypeOK, Put
<1>2. OnlyJob(j)
  BY <1>1 DEF OnlyJob
<1>3. JobHeld(j)'
  BY <1>1 DEF HeldInv, JobHeld, Handles
<1>4. \A t \in Threads : CopyHeld(t)'
  BY DEF HeldInv, CopyHeld
<1>5. QED
  BY <1>2, <1>3, <1>4, HeldByJob

\* A thread SETs its copy, which is of a job that is not deferred, or releases it; the
\* SET may fail, and the task then go on.
LEMMA WriteHeld ==
    ASSUME TypeOK, HeldInv, NEW t \in Threads, thread[t] # Idle, NEW r,
           (Put(thread[t].job, r) /\ ~r.deferred) \/ UNCHANGED store,
           thread[t].step # "release" \/ UNCHANGED pending, NEW hand \in {Idle, [thread[t] EXCEPT !.step = "voCaught"]},
           thread' = [thread EXCEPT ![t] = hand], hand # Idle => thread[t].step # "release",
           \A i \in Job \ {thread[t].job} : pending'[i] = pending[i],
           submitted' = submitted, recovering' = recovering
    PROVE  HeldInv'
<1>0. PICK j \in Job : j = thread[t].job
  BY InStepType
<1>7. hand # Idle => /\ hand.job = j /\ hand.step = "voCaught"
                      /\ hand.seen = thread[t].seen
  BY <1>0, InStepType DEF InHand
<1>1. /\ store'[j] = store[j] \/ (store'[j] = r /\ ~r.deferred)
      /\ \A i \in Job \ {j} : store'[i] = store[i]
  <2>1. CASE UNCHANGED store
    BY <2>1
  <2>2. CASE Put(j, r) /\ ~r.deferred
    BY <2>2 DEF TypeOK, Put
  <2>3. QED
    BY <1>0, <2>1, <2>2
<1>2. \A s \in Threads : thread'[s] = IF s = t THEN hand ELSE thread[s]
  BY DEF TypeOK
<1>3. OnlyJob(j)
  BY <1>0, <1>7, <1>1, <1>2 DEF OnlyJob, Handles
<1>4. JobHeld(j)'
  <2>1. JobHeld(j) /\ Handles(t, j) /\ j \in submitted
    BY <1>0 DEF HeldInv, JobHeld, Handles
  <2>2. CASE store'[j] = r /\ ~r.deferred
    BY <2>1, <2>2 DEF JobHeld, Exists
  <2>3. CASE store'[j] = store[j]
    <3>1. Exists(j) /\ store[j].deferred => thread[t].step = "release"
      BY <2>1 DEF JobHeld
    <3>2. \A s \in Threads \ {t} : Handles(s, j)' => Handles(s, j) /\ thread'[s] = thread[s]
      BY <1>2 DEF Handles
    <3>4. Handles(t, j)' => thread[t].step # "release"
      BY <1>2 DEF Handles
    <3>3. QED
      BY <2>1, <2>3, <3>1, <3>2, <3>4 DEF JobHeld, Exists, NoTask
  <2>4. QED
    BY <1>1, <2>2, <2>3
<1>5. \A s \in Threads : CopyHeld(s)'
  BY <1>7, <1>2 DEF HeldInv, CopyHeld
<1>6. QED
  BY <1>3, <1>4, <1>5, HeldByJob

\* A thread takes up a submitted job, to release it, or when it is not deferred.
LEMMA TakenHeld ==
    ASSUME TypeOK, HeldInv, NEW t \in Threads, NEW j \in Job, NEW step \in Steps, Exists(j),
           step # "release" => ~store[j].deferred, thread[t] # Idle => thread[t].job = j,
           thread' = [thread EXCEPT ![t] = [step |-> step, job |-> j, seen |-> store[j]]],
           store' = store, submitted' = submitted, recovering' \subseteq recovering,
           NoTask(j) => NoTask(j)', \A i \in Job \ {j} : pending'[i] = pending[i]
    PROVE  HeldInv'
<1> DEFINE hand == [step |-> step, job |-> j, seen |-> store[j]]
<1>1. hand.step = step /\ hand.job = j /\ hand.seen = store[j]
  OBVIOUS
<1>2. \A s \in Threads : thread'[s] = IF s = t THEN hand ELSE thread[s]
  BY DEF TypeOK
<1> HIDE DEF hand
<1>3. OnlyJob(j)
  BY <1>1, <1>2 DEF OnlyJob, Handles
<1>4. JobHeld(j)'
  BY <1>1, <1>2 DEF HeldInv, JobHeld, Handles, Exists
<1>5. \A s \in Threads : CopyHeld(s)'
  BY <1>1, <1>2 DEF HeldInv, CopyHeld
<1>6. QED
  BY <1>3, <1>4, <1>5, HeldByJob

\* A step about no job at all.
LEMMA NoStepHeld ==
    ASSUME HeldInv, UNCHANGED <<store, submitted, pending, thread>>, recovering' \subseteq recovering
    PROVE  HeldInv'
<1>1. \A j \in Job : JobHeld(j)'
  BY DEF HeldInv, JobHeld, NoTask, Handles, Exists
<1>2. \A t \in Threads : CopyHeld(t)'
  BY DEF HeldInv, CopyHeld
<1>3. QED
  BY <1>1, <1>2 DEF HeldInv, SweepHarmless

LEMMA TaskDoneHeld ==
    ASSUME TypeOK, NEW j \in Job, NEW k \in Kinds, pending[j][k] > 0, TaskDone(j, k)
    PROVE  /\ ~NoTask(j)
           /\ \A i \in Job \ {j} : pending'[i] = pending[i]
BY DEF TypeOK, TaskDone, NoTask

LEMMA ExecuteElsewhere ==
    ASSUME TypeOK, NEW j \in Job, NEW r, Execute(j, r)
    PROVE  \A i \in Job \ {j} : pending'[i] = pending[i]
BY DEF TypeOK, Execute

LEMMA SubmitHeld ==
    ASSUME TypeOK, HeldInv, NEW j \in Job, NEW request \in Requests, Submit(j, request)
    PROVE  HeldInv'
<1> DEFINE r == [state |-> "QUEUED", version |-> 1, workflow |-> request.workflow,
                 executor |-> request.executor, deferred |-> request.deferred,
                 lineage |-> 0, manifest |-> FALSE]
<1>1. r.deferred = request.deferred /\ r.state = "QUEUED"
  OBVIOUS
<1>2. Put(j, r) /\ (r.deferred => UNCHANGED pending)
  BY DEF Submit
<1>3. \A i \in Job \ {j} : pending'[i] = pending[i]
  BY ExecuteElsewhere DEF Submit
<1> HIDE DEF r
<1>4. store'[j] = r /\ \A i \in Job \ {j} : store'[i] = store[i]
  BY <1>2 DEF TypeOK, Put
<1>5. OnlyJob(j)
  BY <1>3, <1>4 DEF OnlyJob, Submit
<1>6. j \notin submitted /\ thread' = thread /\ j \in submitted'
  BY DEF Submit
<1>7. JobHeld(j)'
  BY <1>1, <1>2, <1>4, <1>6 DEF HeldInv, JobHeld, Handles, NoTask
<1>8. \A t \in Threads : CopyHeld(t)'
  BY <1>6 DEF HeldInv, CopyHeld
<1>9. QED
  BY <1>5, <1>7, <1>8, HeldByJob DEF Submit

LEMMA RecordFields ==
    ASSUME TypeOK, NEW j \in Job, Exists(j), NEW to \in States
    PROVE  /\ Moved(store[j], to).deferred = store[j].deferred
           /\ Moved(store[j], to).state = to
BY ExistsType DEF Moved, Record

LEMMA ApiHeld ==
    ASSUME TypeOK, HeldInv, NEW j \in Job, Api(j) PROVE HeldInv'
<1>0. Exists(j) => JobHeld(j)
  BY DEF HeldInv
<1>1. ASSUME NEW request \in Requests, Submit(j, request) PROVE HeldInv'
  BY <1>1, SubmitHeld
<1>2. CASE Get(j)
  BY <1>2, NoStepHeld DEF Get
<1>3. ASSUME NEW to \in ApiStates, NEW basis, Transition(j, to, basis) PROVE HeldInv'
  <2> DEFINE r == Moved(store[j], to)
  <2>1. to \in States
    BY <1>3, ExistsType DEF Transition, IsValidTransition, Terminal, States, Record
  <2>2. r.deferred = store[j].deferred /\ r.state = to
    BY <1>3, <2>1, RecordFields DEF Transition
  <2>3. ClientsDoNotStart => to # "RUNNING"
    BY DEF ClientsDoNotStart
  <2>4. Put(j, r) /\ Exists(j)
    BY <1>3 DEF Transition
  <2> HIDE DEF r
  <2>5. QED
    BY <1>3, <2>2, <2>3, <2>4, RevisionHeld DEF Transition, NoTask
<1>4. ASSUME NEW basis, Retry(j, basis) PROVE HeldInv'
  <2> DEFINE r == Moved(store[j], "QUEUED")
  <2>1. r.deferred = store[j].deferred /\ r.state = "QUEUED"
    BY <1>4, RecordFields DEF Retry, States
  <2>2. Put(j, r) /\ Exists(j)
    BY <1>4 DEF Retry
  <2> HIDE DEF r
  <2>3. QED
    BY <1>4, <2>1, <2>2, RevisionHeld DEF Retry, NoTask
<1>5. ASSUME UpdateLineage(j) PROVE HeldInv'
  <2> DEFINE r == [store[j] EXCEPT !.lineage = acked[j].lineage + 1, !.version = @ + 1]
  <2>1. r.deferred = store[j].deferred /\ r.state = store[j].state
    BY <1>5, ExistsType DEF UpdateLineage, Record
  <2>2. Put(j, r) /\ Exists(j)
    BY <1>5 DEF UpdateLineage
  <2> HIDE DEF r
  <2>3. QED
    BY <1>0, <1>5, <2>1, <2>2, RevisionHeld DEF UpdateLineage, NoTask, JobHeld
<1>6. ASSUME AttachManifest(j) PROVE HeldInv'
  <2> DEFINE r == [store[j] EXCEPT !.manifest = TRUE, !.version = @ + 1]
  <2>1. r.deferred = store[j].deferred /\ r.state = store[j].state
    BY <1>6, ExistsType DEF AttachManifest, Record
  <2>2. Put(j, r) /\ Exists(j)
    BY <1>6 DEF AttachManifest
  <2> HIDE DEF r
  <2>3. QED
    BY <1>0, <1>6, <2>1, <2>2, RevisionHeld DEF AttachManifest, NoTask, JobHeld
<1>7. ASSUME DeleteJob(j) PROVE HeldInv'
  <2>1. store'[j] = Missing /\ \A i \in Job \ {j} : store'[i] = store[i]
    BY <1>7 DEF DeleteJob, TypeOK, Put
  <2>2. OnlyJob(j)
    BY <1>7, <2>1 DEF OnlyJob, DeleteJob
  <2>3. JobHeld(j)'
    BY <1>7, <2>1 DEF HeldInv, JobHeld, Handles, NoTask, DeleteJob, Exists
  <2>4. \A t \in Threads : CopyHeld(t)'
    BY <1>7 DEF HeldInv, CopyHeld, DeleteJob
  <2>5. QED
    BY <1>7, <2>2, <2>3, <2>4, HeldByJob DEF DeleteJob
<1>8. ASSUME NEW t \in Releasers, ReleaseLoad(t, j) PROVE HeldInv'
  BY <1>8, ThreadsType, TakenHeld DEF ReleaseLoad, Steps, NoTask
<1>9. QED
  BY <1>1, <1>2, <1>3, <1>4, <1>5, <1>6, <1>7, <1>8 DEF Api

\* A task that is done and changes no record.
LEMMA TaskLost ==
    ASSUME TypeOK, HeldInv, NEW j \in Job, NEW k \in Kinds, pending[j][k] > 0, TaskDone(j, k),
           UNCHANGED <<store, submitted, thread, recovering>>
    PROVE  HeldInv'
<1>0. JobHeld(j)
  BY DEF HeldInv
<1>1. ~NoTask(j) /\ \A i \in Job \ {j} : pending'[i] = pending[i]
  BY TaskDoneHeld
<1>2. OnlyJob(j)
  BY <1>1 DEF OnlyJob
<1>3. JobHeld(j)'
  BY <1>0, <1>1 DEF JobHeld, Handles, Exists
<1>4. \A t \in Threads : CopyHeld(t)'
  BY DEF HeldInv, CopyHeld
<1>5. QED
  BY <1>2, <1>3, <1>4, HeldByJob

LEMMA TaskHeld ==
    ASSUME TypeOK, HeldInv, NEW j \in Job, Scan(j) \/ Simulator(j) PROVE HeldInv'
<1>0. JobHeld(j)
  BY DEF HeldInv
<1>1. CASE Scan(j)
  <2>1. \A i \in Job \ {j} : pending'[i] = pending[i]
    BY <1>1, ExecuteElsewhere DEF Scan
  <2>2. OnlyJob(j)
    BY <1>1, <2>1 DEF OnlyJob, Scan
  <2>3. JobHeld(j)'
    BY <1>0, <1>1 DEF JobHeld, Scan, Handles, Exists
  <2>4. \A t \in Threads : CopyHeld(t)'
    BY <1>1 DEF HeldInv, CopyHeld, Scan
  <2>5. QED
    BY <1>1, <2>2, <2>3, <2>4, HeldByJob DEF Scan
<1>2. ASSUME NEW k \in Kinds, pending[j][k] > 0, TaskDone(j, k),
             UNCHANGED <<store, submitted, thread, recovering>>
      PROVE  HeldInv'
  BY <1>2, TaskLost
<1>3. ASSUME NEW k \in Kinds, pending[j][k] > 0, TaskDone(j, k), Exists(j),
             NEW r, Put(j, r), r.deferred = store[j].deferred,
             UNCHANGED <<submitted, thread, recovering>>
      PROVE  HeldInv'
  <2>1. ~NoTask(j) /\ \A i \in Job \ {j} : pending'[i] = pending[i]
    BY <1>3, TaskDoneHeld
  <2>2. ~r.deferred \/ ~store[j].deferred
    BY <1>0, <1>3, <2>1 DEF JobHeld
  <2>3. QED
    BY <1>0, <1>3, <2>1, <2>2, RevisionHeld DEF JobHeld
<1>4. CASE SimStart(j)
  <2> DEFINE r == [Moved(store[j], "RUNNING") EXCEPT !.executor = "simulator"]
  <2>1. Exists(j) => r.deferred = store[j].deferred
    BY ExistsType DEF Moved, Record
  <2>2. Mutated(j, r)
    BY <1>4 DEF SimStart
  <2> HIDE DEF r
  <2>3. QED
    BY <1>2, <1>3, <1>4, <2>1, <2>2 DEF SimStart, Mutated, Kinds
<1>5. CASE SimComplete(j)
  <2> DEFINE r == Moved(store[j], "COMPLETED")
  <2>1. Exists(j) => r.deferred = store[j].deferred
    BY RecordFields DEF States
  <2>2. Mutated(j, r)
    BY <1>5 DEF SimComplete
  <2> HIDE DEF r
  <2>3. QED
    BY <1>2, <1>3, <1>5, <2>1, <2>2 DEF SimComplete, Mutated, Kinds
<1>6. QED
  BY <1>1, <1>4, <1>5 DEF Simulator

LEMMA LoadHeld ==
    ASSUME TypeOK, HeldInv, NEW t \in Threads, NEW j \in Job, NEW k \in Kinds,
           NEW step \in Steps, step # "release", Load(t, j, k, step)
    PROVE  HeldInv'
<1>1. ~NoTask(j) /\ \A i \in Job \ {j} : pending'[i] = pending[i]
  BY TaskDoneHeld DEF Load
<1>2. JobHeld(j)
  BY DEF HeldInv
<1>3. CASE /\ Exists(j)
           /\ thread' = [thread EXCEPT ![t] = [step |-> step, job |-> j, seen |-> store[j]]]
  <2>1. ~store[j].deferred
    BY <1>1, <1>2, <1>3 DEF JobHeld
  <2>2. QED
    BY <1>1, <1>3, <2>1, TakenHeld DEF Load
<1>4. CASE UNCHANGED thread
  BY <1>4, TaskLost DEF Load
<1>5. QED
  BY <1>3, <1>4 DEF Load

\* A thread that writes its copy writes a record that is not deferred.
LEMMA CopySet ==
    ASSUME TypeOK, HeldInv, NEW t \in Threads, NEW step, step # "release", InStep(t, step),
           NEW r, r.deferred = thread[t].seen.deferred, SetRecord(t, r),
           \A i \in Job \ {thread[t].job} : pending'[i] = pending[i],
           NEW hand \in {Idle, [thread[t] EXCEPT !.step = "voCaught"]},
           thread' = [thread EXCEPT ![t] = hand]
    PROVE  HeldInv'
<1>1. ~r.deferred /\ thread[t] # Idle /\ thread[t].step # "release"
  BY DEF HeldInv, CopyHeld, InStep
<1>2. Put(thread[t].job, r) \/ UNCHANGED store
  BY DEF SetRecord
<1>3. submitted' = submitted /\ recovering' = recovering
  BY DEF SetRecord
<1>4. QED
  BY <1>1, <1>2, <1>3, WriteHeld

LEMMA CopyWritten ==
    ASSUME TypeOK, HeldInv, NEW t \in Threads, NEW step, step # "release", InStep(t, step),
           NEW r, r.deferred = thread[t].seen.deferred, Write(t, r),
           \A i \in Job \ {thread[t].job} : pending'[i] = pending[i]
    PROVE  HeldInv'
BY CopySet DEF Write

LEMMA ReleaseWriteHeld ==
    ASSUME TypeOK, HeldInv, NEW t \in Releasers, ReleaseWrite(t) PROVE HeldInv'
<1> DEFINE r == [thread[t].seen EXCEPT !.deferred = FALSE, !.version = @ + 1]
<1>1. t \in Threads /\ thread[t] # Idle
  BY ThreadsType DEF ReleaseWrite, InStep
<1>2. r.deferred = FALSE
  BY <1>1, InStepType DEF Record
<1>3. Write(t, r) /\ UNCHANGED pending
  BY DEF ReleaseWrite
<1> HIDE DEF r
<1>4. QED
  BY <1>1, <1>2, <1>3, WriteHeld DEF Write, SetRecord

LEMMA TaccHeld == ASSUME TypeOK, HeldInv, Tacc PROVE HeldInv'
<1> USE ThreadsType
<1>1. ASSUME NEW j \in Job, TaccLoad(j) PROVE HeldInv'
  BY <1>1, LoadHeld DEF TaccLoad, Kinds, Steps
<1>2. CASE TaccSubmitted
  <2> DEFINE t == TaccThread
             r == [thread[t].seen EXCEPT !.state = "RUNNING", !.executor = "tacc"]
  <2>1. InStep(t, "taccSubmit") /\ Write(t, r)
    BY <1>2 DEF TaccSubmitted
  <2>2. r.deferred = thread[t].seen.deferred
    BY <2>1, InStepType DEF InStep, Record
  <2>3. \A i \in Job \ {thread[t].job} : pending'[i] = pending[i]
    BY <1>2 DEF TaccSubmitted, TypeOK
  <2>4. QED
    <3> HIDE DEF r
    <3>1. QED
      BY <2>1, <2>2, <2>3, CopyWritten
<1>3. CASE TaccCompleted
  <2> DEFINE t == TaccThread
             r == [thread[t].seen EXCEPT !.state = "COMPLETED"]
  <2>1. InStep(t, "taccComplete") /\ Write(t, r) /\ UNCHANGED pending
    BY <1>3 DEF TaccCompleted
  <2>2. r.deferred = thread[t].seen.deferred
    BY <2>1, InStepType DEF InStep, Record
  <2>3. QED
    <3> HIDE DEF r
    <3>1. QED
      BY <2>1, <2>2, CopyWritten
<1>4. QED
  BY <1>1, <1>2, <1>3 DEF Tacc

LEMMA VoHeld == ASSUME TypeOK, HeldInv, NEW t \in VoThreads, Vo(t) PROVE HeldInv'
<1> USE ThreadsType
<1>1. ASSUME NEW j \in Job, VoLoadStart(t, j) \/ VoLoadRun(t, j) PROVE HeldInv'
  BY <1>1, LoadHeld DEF VoLoadStart, VoLoadRun, Kinds, Steps
<1>2. CASE VoStarted(t)
  <2> DEFINE r == [Moved(thread[t].seen, "RUNNING") EXCEPT !.executor = "vo"]
  <2>1. InStep(t, "voStart") /\ Write(t, r) /\ UNCHANGED pending
    BY <1>2 DEF VoStarted
  <2>2. r.deferred = thread[t].seen.deferred
    BY <2>1, InStepType DEF InStep, Moved, Record
  <2> HIDE DEF r
  <2>3. QED
    BY <2>1, <2>2, CopyWritten
<1>3. ASSUME thread[t] # Idle, thread[t].step # "release",
             NEW steps \in SUBSET {"voComplete", "voFail"}, ReadAgain(t, steps)
      PROVE  HeldInv'
  <2>1. PICK j \in Job : j = thread[t].job
    BY <1>3, InStepType
  <2>2. Exists(j) => ~store[j].deferred
    BY <1>3, <2>1 DEF HeldInv, JobHeld, Handles
  <2>3. ASSUME Exists(j), NEW step \in {"voComplete", "voFail"}, Reload(t, j, step)
        PROVE  HeldInv'
    <3>1. step \in Steps /\ step # "release"
      BY DEF Steps
    <3>2. QED
      BY <1>3, <2>1, <2>2, <2>3, <3>1, TakenHeld DEF ReadAgain, Reload, NoTask
  <2>4. CASE thread' = [thread EXCEPT ![t] = Idle]
    BY <1>3, <2>4, WriteHeld DEF ReadAgain
  <2>5. QED
    BY <1>3, <2>1, <2>3, <2>4 DEF ReadAgain
<1>4. CASE VoCompleted(t)
  <2> DEFINE r == Moved(thread[t].seen, "COMPLETED")
             hands == {Idle, [thread[t] EXCEPT !.step = "voCaught"]}
  <2>1. InStep(t, "voComplete") /\ SetRecord(t, r) /\ UNCHANGED pending
    BY <1>4 DEF VoCompleted
  <2>2. r.deferred = thread[t].seen.deferred
    BY <2>1, SeenFields DEF InStep, States
  <2>3. \E hand \in hands : thread' = [thread EXCEPT ![t] = hand]
    BY <1>4 DEF VoCompleted
  <2> HIDE DEF r
  <2>4. QED
    BY <2>1, <2>2, <2>3, CopySet
<1>5. CASE VoFailed(t)
  <2> DEFINE r == Moved(thread[t].seen, "FAILED")
  <2>1. InStep(t, "voFail") /\ Write(t, r) /\ UNCHANGED pending
    BY <1>5 DEF VoFailed
  <2>2. r.deferred = thread[t].seen.deferred
    BY <2>1, SeenFields DEF InStep, States
  <2> HIDE DEF r
  <2>3. QED
    BY <2>1, <2>2, CopyWritten
<1>6. QED
  BY <1>1, <1>2, <1>3, <1>4, <1>5 DEF Vo, VoDispatched, VoCaught, InStep

LEMMA RecoveryHeld == ASSUME TypeOK, HeldInv, Recovery PROVE HeldInv'
<1> USE ThreadsType
<1>1. ASSUME NEW j \in Job, RecoverLoad(j) PROVE HeldInv'
  <2>1. ClientsDoNotStart
    BY <1>1 DEF HeldInv, SweepHarmless, RecoverLoad
  <2>2. recovering' \subseteq recovering
    BY <1>1 DEF RecoverLoad
  <2>3. CASE UNCHANGED thread
    BY <1>1, <2>2, <2>3, NoStepHeld DEF RecoverLoad
  <2>4. CASE ~UNCHANGED thread
    <3>1. /\ Exists(j) /\ store[j].state = "RUNNING"
          /\ thread' = [thread EXCEPT ![RecoveryThread] =
                            [step |-> "stale", job |-> j, seen |-> store[j]]]
      BY <1>1, <2>4 DEF RecoverLoad, Reload
    <3>2. ~store[j].deferred
      BY <2>1, <3>1 DEF HeldInv, JobHeld
    <3>3. QED
      BY <1>1, <2>2, <3>1, <3>2, TakenHeld DEF RecoverLoad, Steps, NoTask
  <2>5. QED
    BY <2>3, <2>4
<1>2. CASE RecoverWrite
  <2> DEFINE t == RecoveryThread
             r == Moved(thread[t].seen, "COMPLETED")
  <2>1. InStep(t, "stale") /\ Write(t, r) /\ UNCHANGED pending
    BY <1>2 DEF RecoverWrite
  <2>2. r.deferred = thread[t].seen.deferred
    BY <2>1, SeenFields DEF InStep, States
  <2>3. QED
    <3> HIDE DEF r
    <3>1. QED
      BY <2>1, <2>2, CopyWritten
<1>3. QED
  BY <1>1, <1>2 DEF Recovery

LEMMA RestartHeld == ASSUME TypeOK, HeldInv, Restart PROVE HeldInv'
<1>1. \A t \in Threads : thread'[t] = Idle
  BY DEF Restart
<1>2. \A j \in Job : NoTask(j)'
  BY DEF Restart, NoTask
<1>3. \A j \in Job : JobHeld(j)'
  BY <1>1, <1>2 DEF Restart, HeldInv, JobHeld, Handles, Exists
<1>4. \A t \in Threads : CopyHeld(t)'
  BY <1>1 DEF CopyHeld
<1>5. SweepHarmless'
  BY BoundsAssumption DEF Restart, HeldInv, SweepHarmless, TypeOK
<1>6. QED
  BY <1>3, <1>4, <1>5 DEF HeldInv

\* A deferred job is held until it is released, whatever executors, scanner, releasers
\* and restarts do at once and however stale the records are that threads write
\* back, provided clients do not start jobs, or the service does not restart.
THEOREM DeferredJobsAreHeld ==
    (ClientsDoNotStart \/ MaxRestarts = 0) /\ Spec => []DeferredIsHeld
<1>1. (ClientsDoNotStart \/ MaxRestarts = 0) /\ Init => TypeOK /\ HeldInv
  <2> SUFFICES ASSUME ClientsDoNotStart \/ MaxRestarts = 0, Init PROVE HeldInv
    BY InitType
  <2>1. \A j \in Job : ~Exists(j) /\ NoTask(j)
    BY DEF Init, Exists, NoTask
  <2>2. \A t \in Threads : thread[t] = Idle
    BY DEF Init
  <2>3. QED
    BY <2>1, <2>2 DEF Init, HeldInv, JobHeld, CopyHeld, Handles, SweepHarmless
<1>2. TypeOK /\ HeldInv /\ [Next]_vars => TypeOK' /\ HeldInv'
  <2> SUFFICES ASSUME TypeOK, HeldInv, [Next]_vars PROVE HeldInv'
    BY StepType
  <2>1. CASE UNCHANGED vars
    BY <2>1, NoStepHeld DEF vars
  <2>2. QED
    BY <2>1, ApiHeld, TaskHeld, ReleaseWriteHeld, TaccHeld, VoHeld, RecoveryHeld, RestartHeld
       DEF Next
<1>3. HeldInv => DeferredIsHeld
  BY DEF HeldInv, JobHeld, NoTask, DeferredIsHeld
<1>4. CASE (ClientsDoNotStart \/ MaxRestarts = 0)
  BY <1>1, <1>2, <1>3, <1>4, PTL DEF Spec
<1>5. QED
  BY <1>4
=============================================================================
