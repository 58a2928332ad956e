-------------------------- MODULE ForgeStoreProofs --------------------------
(***************************************************************************)
(* Proofs about the Cosmic Forge job store, for any number of executions,  *)
(* jobs, retries and crashes, and for any clients: StoreNext lets whoever  *)
(* asks claim and execute in any order.                                    *)
(*                                                                         *)
(* TypeInv adds to the types that executions are of jobs in the store, and *)
(* that a process that is down has none in memory.  What is proved of the  *)
(* store is proved of its state and of its file together: a restart takes  *)
(* the one from the other.                                                 *)
(***************************************************************************)
EXTENDS ForgeStore, SequenceTheorems, TLAPS

RunsAreOfJobs == \A s \in Slot : runs[s] # Idle => runs[s].job \in Jobs

DownIsEmpty == api = "down" => state = EmptyState

TypeInv == StoreTypeOK /\ RunsAreOfJobs /\ DownIsEmpty

\* A step that writes job j, and no other, and takes no image away.
WritesJob(j) ==
    /\ state' \in State /\ Jobs' = Jobs
    /\ state'.jobs[j].kind = state.jobs[j].kind
    /\ \A k \in Jobs : k # j => state'.jobs[k] = state.jobs[k]

-----------------------------------------------------------------------------
(* What each kind of write does to the state.                              *)

LEMMA JobAt ==
    ASSUME NEW st \in State
    PROVE  /\ DOMAIN st.jobs = 1..Len(st.jobs) /\ Len(st.jobs) \in Nat
           /\ \A j \in DOMAIN st.jobs : st.jobs[j] \in Job
<1>1. st.jobs \in Seq(Job)
  BY DEF State
<1> QED BY <1>1, LenProperties, ElementOfSeq

LEMMA WriteJob ==
    ASSUME NEW st \in State, NEW j \in DOMAIN st.jobs, NEW job \in Job, NEW u,
           u = [st EXCEPT !.jobs = [st.jobs EXCEPT ![j] = job]]
    PROVE  /\ u \in State /\ DOMAIN u.jobs = DOMAIN st.jobs
           /\ u.images = st.images /\ u.imageCounter = st.imageCounter
           /\ u.jobs[j] = job
           /\ \A k \in DOMAIN st.jobs : k # j => u.jobs[k] = st.jobs[k]
<1>1. st.jobs \in Seq(Job) /\ j \in 1..Len(st.jobs)
  BY JobAt DEF State
<1>2. u.jobs = [st.jobs EXCEPT ![j] = job] /\ u.images = st.images
      /\ u.imageCounter = st.imageCounter /\ u \in [jobs : {u.jobs}, images : {st.images}, imageCounter : {st.imageCounter}]
  BY DEF State
<1>3. u.jobs \in Seq(Job)
  BY <1>1, <1>2, ExceptSeq
<1> QED BY <1>1, <1>2, <1>3 DEF State

LEMMA SetStatusWrites ==
    ASSUME StoreTypeOK, NEW j \in Jobs, NEW to \in Statuses, SetStatus(j, to)
    PROVE  /\ WritesJob(j) /\ StatusOf(j)' = to
           /\ state'.jobs[j].claims = state.jobs[j].claims
           /\ state'.jobs[j].result = state.jobs[j].result
           /\ state'.images = state.images
<1> DEFINE job == [state.jobs[j] EXCEPT !.status = to]
<1>1. state \in State /\ state.jobs[j] \in Job
  BY JobAt DEF StoreTypeOK, Jobs
<1>2. job \in Job /\ job.kind = state.jobs[j].kind /\ job.status = to
      /\ job.claims = state.jobs[j].claims /\ job.result = state.jobs[j].result
  BY <1>1 DEF Job
<1>3. state' = [state EXCEPT !.jobs = [state.jobs EXCEPT ![j] = job]]
  BY DEF SetStatus
<1> HIDE DEF job
<1> QED BY <1>1, <1>2, <1>3, WriteJob DEF WritesJob, Jobs, StatusOf

LEMMA ClaimWrites ==
    ASSUME StoreTypeOK, NEW j \in Jobs, ClaimNext(j)
    PROVE  /\ WritesJob(j) /\ StatusOf(j)' = "RUNNING"
           /\ state'.jobs[j].claims = state.jobs[j].claims + 1
           /\ state'.images = state.images
<1> DEFINE job == [state.jobs[j] EXCEPT !.status = "RUNNING", !.claims = @ + 1]
<1>1. state \in State /\ state.jobs[j] \in Job
  BY JobAt DEF StoreTypeOK, Jobs
<1>2. job \in Job /\ job.kind = state.jobs[j].kind /\ job.status = "RUNNING"
      /\ job.claims = state.jobs[j].claims + 1
  <2>1. PICK n \in Nat : n = state.jobs[j].claims
    BY <1>1 DEF Job
  <2>2. n + 1 \in Nat /\ job = [state.jobs[j] EXCEPT !.status = "RUNNING", !.claims = n + 1]
    BY <2>1
  <2> HIDE DEF job
  <2> QED BY <1>1, <2>1, <2>2 DEF Job, Statuses
<1>3. state' = [state EXCEPT !.jobs = [state.jobs EXCEPT ![j] = job]]
  BY <1>1 DEF ClaimNext, State, Job
<1> HIDE DEF job
<1> QED BY <1>1, <1>2, <1>3, WriteJob DEF WritesJob, Jobs, StatusOf

LEMMA PublishedWrites ==
    ASSUME NEW st \in State, NEW j \in DOMAIN st.jobs, NEW i \in Nat, NEW cut \in BOOLEAN
    PROVE  LET u == Published(st, j, i, cut)
           IN  /\ u \in State /\ DOMAIN u.jobs = DOMAIN st.jobs
               /\ u.images = st.images \cup {[id |-> i, job |-> j, cut |-> cut]}
               /\ u.jobs[j].kind = st.jobs[j].kind /\ u.jobs[j].status = "COMPLETED"
               /\ u.jobs[j].result = i /\ u.jobs[j].claims = st.jobs[j].claims
               /\ \A k \in DOMAIN st.jobs : k # j => u.jobs[k] = st.jobs[k]
<1> DEFINE job == [st.jobs[j] EXCEPT !.status = "COMPLETED", !.result = i]
           image == [id |-> i, job |-> j, cut |-> cut]
           v == [st EXCEPT !.jobs = [st.jobs EXCEPT ![j] = job]]
<1>1. st.jobs[j] \in Job /\ j \in Nat
  BY JobAt
<1>2. job \in Job /\ job.kind = st.jobs[j].kind /\ job.status = "COMPLETED"
      /\ job.result = i /\ job.claims = st.jobs[j].claims
  BY <1>1 DEF Job, Statuses
<1>3. image \in Image
  BY <1>1 DEF Image
<1>4. Published(st, j, i, cut) = [v EXCEPT !.images = st.images \cup {image}]
  BY <1>1 DEF Published, State, Job
<1> HIDE DEF job, image
<1>5. /\ v \in State /\ DOMAIN v.jobs = DOMAIN st.jobs
      /\ v.images = st.images /\ v.imageCounter = st.imageCounter
      /\ v.jobs[j] = job
      /\ \A k \in DOMAIN st.jobs : k # j => v.jobs[k] = st.jobs[k]
  BY <1>2, WriteJob
<1> HIDE DEF v
<1>6. [v EXCEPT !.images = st.images \cup {image}] \in State
  BY <1>3, <1>5 DEF State
<1>7. [v EXCEPT !.images = st.images \cup {image}].jobs = v.jobs
      /\ [v EXCEPT !.images = st.images \cup {image}].images = st.images \cup {image}
  BY <1>5 DEF State
<1> QED BY <1>2, <1>4, <1>5, <1>6, <1>7 DEF image

LEMMA NextImageIdWrites ==
    ASSUME StoreTypeOK
    PROVE  /\ NextImageId \in State /\ NextImageId.jobs = state.jobs
           /\ NextImageId.images = state.images
BY DEF StoreTypeOK, NextImageId, State

LEMMA PreviewWrites ==
    ASSUME StoreTypeOK, NEW j \in Nat, ExecutePreview(j)
    PROVE  /\ j \in Jobs /\ WritesJob(j) /\ StatusOf(j)' = "COMPLETED"
           /\ state'.jobs[j].claims = state.jobs[j].claims
           /\ \E i \in Nat, cut \in BOOLEAN :
                  /\ state'.jobs[j].result = i
                  /\ state'.images = state.images \cup {[id |-> i, job |-> j, cut |-> cut]}
<1>1. PICK st \in State : /\ st = NextImageId /\ st.jobs = state.jobs
                          /\ st.images = state.images
  BY NextImageIdWrites
<1>2. PICK i \in Nat : i = state.imageCounter + 1
  BY DEF StoreTypeOK, State
<1>3. PICK cut \in BOOLEAN : cut = FALSE
  OBVIOUS
<1>4. cut \in BOOLEAN /\ j \in Jobs /\ state' = Published(st, j, i, cut)
  BY <1>1, <1>2, <1>3 DEF ExecutePreview
<1>5. /\ state' \in State /\ DOMAIN state'.jobs = DOMAIN st.jobs
      /\ state'.images = st.images \cup {[id |-> i, job |-> j, cut |-> cut]}
      /\ state'.jobs[j].kind = st.jobs[j].kind /\ state'.jobs[j].status = "COMPLETED"
      /\ state'.jobs[j].result = i /\ state'.jobs[j].claims = st.jobs[j].claims
      /\ \A k \in DOMAIN st.jobs : k # j => state'.jobs[k] = st.jobs[k]
  <2>1. j \in DOMAIN st.jobs /\ st \in State /\ i \in Nat
    BY <1>1, <1>2, <1>4 DEF Jobs
  <2> QED BY <2>1, <1>4, PublishedWrites
<1>6. i \in Nat /\ WritesJob(j) /\ StatusOf(j)' = "COMPLETED"
  BY <1>1, <1>2, <1>4, <1>5 DEF WritesJob, Jobs, StatusOf
<1> QED BY <1>1, <1>4, <1>5, <1>6

-----------------------------------------------------------------------------
(* The type invariant.                                                     *)

LEMMA InitTypes == StoreInit => TypeInv
<1> SUFFICES ASSUME StoreInit
             PROVE  TypeInv
  OBVIOUS
<1>1. EmptyState \in State
  BY EmptySeq DEF EmptyState, State
<1>2. 0 \in 0..MaxRetries /\ 0 \in 0..MaxCrashes
  BY StoreAssumption
<1> QED BY <1>1, <1>2 DEF StoreInit, TypeInv, StoreTypeOK, RunsAreOfJobs, DownIsEmpty

\* While the API is up jobs are not removed.
LEMMA UpTypes ==
    ASSUME TypeInv, api = "up", UNCHANGED <<api, crashes, lost>>,
           state' \in State, Jobs \subseteq Jobs', disk' \in {disk, state, state'},
           told' \in {told, state'}, unsaved' \subseteq Nat,
           retries' \in 0..MaxRetries, runs' \in [Slot -> Run \cup {Idle}],
           \A s \in Slot : runs'[s] # Idle => runs'[s].job \in Jobs
    PROVE  TypeInv'
<1>1. StoreTypeOK'
  BY DEF TypeInv, StoreTypeOK
<1> QED BY <1>1 DEF TypeInv, RunsAreOfJobs, DownIsEmpty

LEMMA Created ==
    ASSUME TypeInv, NEW k \in JobKinds, Create(k)
    PROVE  \E job \in Job : /\ job.status = "QUEUED" /\ job.claims = 0
                            /\ state' \in State
                            /\ Jobs' = Jobs \cup {Len(state.jobs) + 1}
                            /\ Len(state.jobs) \in Nat /\ Jobs = 1..Len(state.jobs)
                            /\ state'.images = state.images
                            /\ state'.jobs[Len(state.jobs) + 1] = job
                            /\ \A j \in Jobs : state'.jobs[j] = state.jobs[j]
<1>1. state \in State /\ state.jobs \in Seq(Job) /\ Len(state.jobs) \in Nat
      /\ DOMAIN state.jobs = 1..Len(state.jobs)
  BY JobAt DEF TypeInv, StoreTypeOK, State
<1>2. PICK tick \in {0, 1} :
          state' = [state EXCEPT !.jobs = Append(@,
              [kind |-> k, status |-> "QUEUED", createdAt |-> Latest + tick,
               result |-> 0, claims |-> 0])]
  BY DEF Create
<1> DEFINE job == [kind |-> k, status |-> "QUEUED", createdAt |-> Latest + tick,
                   result |-> 0, claims |-> 0]
<1>3. Latest + tick \in Nat
  <2>1. CASE state.jobs = <<>>
    BY <2>1 DEF Latest
  <2>2. CASE state.jobs # <<>>
    <3>1. Len(state.jobs) \in DOMAIN state.jobs
      BY <1>1, <2>2
    <3>2. PICK t \in Nat : t = state.jobs[Len(state.jobs)].createdAt
      BY <3>1, <1>1, JobAt DEF Job
    <3>3. Latest = t
      BY <3>2, <2>2 DEF Latest
    <3> QED BY <3>3
  <2> QED BY <2>1, <2>2
<1>4. job \in Job /\ job.status = "QUEUED" /\ job.claims = 0
  BY <1>3 DEF Job, Statuses
<1> HIDE DEF job
<1>5. state' = [state EXCEPT !.jobs = Append(state.jobs, job)]
  BY <1>1, <1>2 DEF job, State
<1>6. state'.jobs = Append(state.jobs, job) /\ state'.images = state.images
  BY <1>1, <1>5 DEF State
<1>7. /\ Append(state.jobs, job) \in Seq(Job)
      /\ Len(Append(state.jobs, job)) = Len(state.jobs) + 1
      /\ Append(state.jobs, job)[Len(state.jobs) + 1] = job
      /\ \A j \in 1..Len(state.jobs) : Append(state.jobs, job)[j] = state.jobs[j]
  BY <1>1, <1>4, AppendProperties
<1>8. state' \in State
  BY <1>1, <1>5, <1>7 DEF State
<1>9. DOMAIN Append(state.jobs, job) = 1..(Len(state.jobs) + 1)
  BY <1>7, LenProperties
<1>10. 1..(Len(state.jobs) + 1) = 1..Len(state.jobs) \cup {Len(state.jobs) + 1}
  BY <1>1
<1>11. Jobs' = Jobs \cup {Len(state.jobs) + 1}
  BY <1>1, <1>6, <1>9, <1>10 DEF Jobs
<1> QED BY <1>1, <1>4, <1>6, <1>7, <1>8, <1>11 DEF Jobs

LEMMA OperatorTypes ==
    ASSUME TypeInv
    PROVE  /\ \A k \in JobKinds : Create(k) => TypeInv'
           /\ \A j \in Jobs : Cancel(j) \/ Retry(j) \/ (api = "up" /\ ClaimNext(j)) => TypeInv'
           /\ CacheImage => TypeInv'
<1>1. StoreTypeOK /\ \A s \in Slot : runs[s] # Idle => runs[s].job \in Jobs
  BY DEF TypeInv, RunsAreOfJobs
<1>2. retries \in 0..MaxRetries /\ runs \in [Slot -> Run \cup {Idle}] /\ state \in State
  BY <1>1 DEF StoreTypeOK
<1>3. ASSUME NEW k \in JobKinds, Create(k)
      PROVE  TypeInv'
  <2>1. state' \in State /\ Jobs \subseteq Jobs'
    BY <1>3, Created
  <2> QED BY <1>1, <1>2, <1>3, <2>1, UpTypes DEF Create, Persist, Save
<1>4. ASSUME NEW j \in Jobs, Cancel(j)
      PROVE  TypeInv'
  <2>1. state' \in State /\ Jobs \subseteq Jobs'
    BY <1>1, <1>4, SetStatusWrites DEF Cancel, WritesJob, Statuses
  <2>2. runs' \in [Slot -> Run \cup {Idle}]
        /\ \A s \in Slot : runs'[s] # Idle => runs'[s].job \in Jobs
    BY <1>1, <1>2, <1>4 DEF Cancel, Run
  <2> QED BY <1>2, <1>4, <2>1, <2>2, UpTypes DEF Cancel, Persist, Save
<1>5. ASSUME NEW j \in Jobs, Retry(j)
      PROVE  TypeInv'
  <2>1. state' \in State /\ Jobs \subseteq Jobs'
    BY <1>1, <1>5, SetStatusWrites DEF Retry, WritesJob, Statuses
  <2>2. retries' \in 0..MaxRetries
    BY <1>2, <1>5, StoreAssumption DEF Retry
  <2> QED BY <1>1, <1>2, <1>5, <2>1, <2>2, UpTypes DEF Retry, Persist, Save
<1>6. ASSUME NEW j \in Jobs, api = "up", ClaimNext(j)
      PROVE  TypeInv'
  <2>1. state' \in State /\ Jobs \subseteq Jobs'
    BY <1>1, <1>6, ClaimWrites DEF WritesJob
  <2> QED BY <1>1, <1>2, <1>6, <2>1, UpTypes DEF ClaimNext, Persist, Save
<1>7. ASSUME CacheImage
      PROVE  TypeInv'
  <2>1. Jobs \subseteq Jobs'
    BY <1>7 DEF CacheImage, Jobs
  <2> QED BY <1>1, <1>2, <1>7, <2>1, UpTypes DEF CacheImage, Persist, Save
<1> QED BY <1>3, <1>4, <1>5, <1>6, <1>7

LEMMA StartTypes ==
    ASSUME TypeInv, NEW s \in Slot, NEW j \in Nat, StartRun(s, j)
    PROVE  TypeInv'
<1>1. StoreTypeOK /\ \A t \in Slot : runs[t] # Idle => runs[t].job \in Jobs
  BY DEF TypeInv, RunsAreOfJobs
<1>2. retries \in 0..MaxRetries /\ runs \in [Slot -> Run \cup {Idle}] /\ state \in State
      /\ api = "up" /\ UNCHANGED <<api, retries, crashes, lost>>
  BY <1>1 DEF StoreTypeOK, StartRun
<1>3. CASE ExecuteNothing(j)
  <2>1. state' \in State /\ Jobs \subseteq Jobs' /\ UNCHANGED <<disk, runs, told, unsaved>>
    BY <1>2, <1>3 DEF ExecuteNothing, Jobs
  <2>2. unsaved' \subseteq Nat
    BY <1>1, <2>1 DEF StoreTypeOK
  <2> QED BY <1>1, <1>2, <2>1, <2>2, UpTypes
<1>4. CASE ExecutePreview(j)
  <2>1. state' \in State /\ Jobs \subseteq Jobs'
    BY <1>1, <1>4, PreviewWrites DEF WritesJob
  <2> QED BY <1>1, <1>2, <1>4, <2>1, UpTypes DEF ExecutePreview, Persist, Save
<1>5. CASE ExecuteUnsupported(j)
  <2>1. state' \in State /\ Jobs \subseteq Jobs'
    BY <1>1, <1>5, SetStatusWrites DEF ExecuteUnsupported, WritesJob, Statuses
  <2>2. unsaved' \subseteq Nat
    BY <1>1, <1>5 DEF ExecuteUnsupported, StoreTypeOK
  <2> QED BY <1>1, <1>2, <1>5, <2>1, <2>2, UpTypes DEF ExecuteUnsupported
<1>6. CASE ExecuteProvider(s, j)
  <2>1. state' \in State /\ Jobs \subseteq Jobs'
    BY <1>1, <1>6, NextImageIdWrites DEF ExecuteProvider, Jobs
  <2>2. state.imageCounter + 1 \in Nat
    BY <1>2 DEF State
  <2>3. [job |-> j, stage |-> "provider", image |-> state.imageCounter + 1, cut |-> FALSE] \in Run
    BY <2>2 DEF Run
  <2>4. runs' \in [Slot -> Run \cup {Idle}]
        /\ \A t \in Slot : runs'[t] # Idle => runs'[t].job \in Jobs
    BY <1>1, <1>2, <1>6, <2>3 DEF ExecuteProvider
  <2> QED BY <1>2, <1>6, <2>1, <2>4, UpTypes DEF ExecuteProvider
<1> QED BY <1>3, <1>4, <1>5, <1>6 DEF StartRun

LEMMA ResumeTypes ==
    ASSUME TypeInv, NEW s \in Slot, ResumeRun(s)
    PROVE  TypeInv'
<1>1. StoreTypeOK /\ \A t \in Slot : runs[t] # Idle => runs[t].job \in Jobs
  BY DEF TypeInv, RunsAreOfJobs
<1>2. retries \in 0..MaxRetries /\ runs \in [Slot -> Run \cup {Idle}] /\ state \in State
      /\ api = "up" /\ UNCHANGED <<api, retries, crashes, lost>>
  BY <1>1 DEF StoreTypeOK, ResumeRun
<1>3. runs[s] \in Run /\ runs[s].job \in Jobs
  BY <1>1, <1>2 DEF ResumeRun
<1>4. EndRun(s) => /\ runs' \in [Slot -> Run \cup {Idle}]
                   /\ \A t \in Slot : runs'[t] # Idle => runs'[t].job \in Jobs
  BY <1>1, <1>2 DEF EndRun
<1>5. CASE HonorCancellation(s)
  <2>1. state' \in State /\ Jobs \subseteq Jobs'
    BY <1>2, <1>5 DEF HonorCancellation, Jobs
  <2> QED BY <1>2, <1>4, <1>5, <2>1, UpTypes DEF HonorCancellation, Persist, Save
<1>6. CASE PublishImage(s)
  <2>1. state' \in State /\ Jobs \subseteq Jobs'
    <3>1. runs[s].image \in Nat /\ runs[s].cut \in BOOLEAN
      BY <1>3 DEF Run
    <3> QED BY <1>2, <1>3, <1>6, <3>1, PublishedWrites DEF PublishImage, Jobs
  <2> QED BY <1>2, <1>4, <1>6, <2>1, UpTypes DEF PublishImage, Persist, Save
<1>7. CASE StartCaching(s)
  <2>1. state' \in State /\ Jobs \subseteq Jobs'
    BY <1>2, <1>7 DEF StartCaching, Jobs
  <2>2. runs' \in [Slot -> Run \cup {Idle}]
        /\ \A t \in Slot : runs'[t] # Idle => runs'[t].job \in Jobs
    <3>1. [runs[s] EXCEPT !.stage = "caching"] \in Run
          /\ [runs[s] EXCEPT !.stage = "caching"].job = runs[s].job
      BY <1>3 DEF Run
    <3>2. runs' = [runs EXCEPT ![s] = [runs[s] EXCEPT !.stage = "caching"]]
      BY <1>7 DEF StartCaching
    <3> QED BY <1>1, <1>2, <1>3, <3>1, <3>2
  <2> QED BY <1>2, <1>7, <2>1, <2>2, UpTypes DEF StartCaching, Persist, Save
<1>8. CASE FailRun(s)
  <2>1. state' \in State /\ Jobs \subseteq Jobs'
    BY <1>1, <1>3, <1>8, SetStatusWrites DEF FailRun, WritesJob, Statuses
  <2> QED BY <1>2, <1>4, <1>8, <2>1, UpTypes DEF FailRun, Persist, Save
<1> QED BY <1>5, <1>6, <1>7, <1>8 DEF ResumeRun

LEMMA CrashTypes ==
    ASSUME TypeInv, Crash \/ LoadFound \/ LoadSave \/ LoadUnreadable
    PROVE  TypeInv'
<1>1. EmptyState \in State
  BY EmptySeq DEF EmptyState, State
<1>2. StoreTypeOK /\ RunsAreOfJobs /\ DownIsEmpty
  BY DEF TypeInv
<1>3. api = "down" => \A s \in Slot : runs[s] = Idle
  BY <1>2 DEF DownIsEmpty, RunsAreOfJobs, Jobs, EmptyState
<1>4. CASE Crash
  <2>1. crashes' \in 0..MaxCrashes
    BY <1>2, <1>4, StoreAssumption DEF Crash, StoreTypeOK
  <2>2. StoreTypeOK'
    BY <1>1, <1>2, <1>4, <2>1 DEF Crash, StoreTypeOK
  <2> QED BY <1>4, <2>2 DEF Crash, TypeInv, RunsAreOfJobs, DownIsEmpty
<1>5. CASE LoadFound
  <2>1. StoreTypeOK'
    BY <1>1, <1>2, <1>5 DEF LoadFound, StoreTypeOK
  <2> QED BY <1>3, <1>5, <2>1 DEF LoadFound, TypeInv, RunsAreOfJobs, DownIsEmpty
<1>6. CASE LoadSave
  <2>1. StoreTypeOK'
    BY <1>2, <1>6 DEF LoadSave, Save, StoreTypeOK
  <2> QED BY <1>2, <1>6, <2>1 DEF LoadSave, TypeInv, RunsAreOfJobs, DownIsEmpty, Jobs
<1>7. CASE LoadUnreadable
  <2>1. StoreTypeOK'
    BY <1>1, <1>2, <1>7 DEF LoadUnreadable, Save, StoreTypeOK
  <2> QED BY <1>3, <1>7, <2>1 DEF LoadUnreadable, TypeInv, RunsAreOfJobs, DownIsEmpty
<1> QED BY <1>4, <1>5, <1>6, <1>7

LEMMA StepTypes == TypeInv /\ [StoreNext]_storeVars => TypeInv'
<1> SUFFICES ASSUME TypeInv, [StoreNext]_storeVars
             PROVE  TypeInv'
  OBVIOUS
<1>1. CASE \/ \E k \in JobKinds : Create(k)
           \/ \E j \in Jobs : Cancel(j) \/ Retry(j) \/ (api = "up" /\ ClaimNext(j))
           \/ CacheImage
  BY <1>1, OperatorTypes
<1>2. CASE \E s \in Slot : ResumeRun(s)
  BY <1>2, ResumeTypes
<1>3. CASE \E s \in Slot, j \in Nat : StartRun(s, j)
  BY <1>3, StartTypes
<1>4. CASE Crash \/ LoadFound \/ LoadSave \/ LoadUnreadable
  BY <1>4, CrashTypes
<1>5. CASE UNCHANGED storeVars
  BY <1>5 DEF storeVars, TypeInv, StoreTypeOK, RunsAreOfJobs, DownIsEmpty, Jobs
<1> QED BY <1>1, <1>2, <1>3, <1>4, <1>5 DEF StoreNext

\* The store, its file and its executions keep their types, with any number of
\* clients, jobs and crashes: what it reads back is always a state.
THEOREM ForgeStoreTypeOK == StoreSpec => []StoreTypeOK
<1>1. TypeInv => StoreTypeOK
  BY DEF TypeInv
<1> QED BY <1>1, InitTypes, StepTypes, PTL DEF StoreSpec

-----------------------------------------------------------------------------
(* Cancelled jobs.                                                         *)

LEMMA JobWriteKeepsCancelled ==
    ASSUME NEW j, WritesJob(j), StatusOf(j) # "CANCELLED" \/ StatusOf(j)' # "COMPLETED"
    PROVE  \A k \in Jobs \cap Jobs' : StatusOf(k) = "CANCELLED" => StatusOf(k)' # "COMPLETED"
BY DEF WritesJob, StatusOf

\* While a job is CANCELLED no execution completes it, whoever executes it, how
\* often and from whichever await it comes back.
THEOREM ForgeCancelledIsNotCompleted == StoreSpec => CancelledIsNotCompleted
<1> DEFINE Kept == \A j \in Jobs \cap Jobs' : StatusOf(j) = "CANCELLED" => StatusOf(j)' # "COMPLETED"
<1>1. TypeInv /\ [StoreNext]_storeVars => [Kept]_storeVars
  <2> SUFFICES ASSUME TypeInv, StoreNext
               PROVE  Kept
    OBVIOUS
  <2>1. StoreTypeOK /\ \A s \in Slot : runs[s] # Idle => runs[s].job \in Jobs
    BY DEF TypeInv, RunsAreOfJobs
  <2>2. state \in State /\ runs \in [Slot -> Run \cup {Idle}]
    BY <2>1 DEF StoreTypeOK
  <2>3. (UNCHANGED state \/ state'.jobs = state.jobs) => Kept
    BY DEF Jobs, StatusOf
  <2>4. CASE \E k \in JobKinds : Create(k)
    BY <2>4, Created DEF StatusOf
  <2>5. CASE \E j \in Jobs : Cancel(j) \/ Retry(j)
    BY <2>1, <2>5, SetStatusWrites, JobWriteKeepsCancelled DEF Cancel, Retry, Statuses
  <2>6. CASE \E j \in Jobs : ClaimNext(j)
    BY <2>1, <2>6, ClaimWrites, JobWriteKeepsCancelled
  <2>7. CASE CacheImage
    BY <2>3, <2>7 DEF CacheImage
  <2>8. CASE \E s \in Slot : ResumeRun(s)
    <3>1. PICK s \in Slot : ResumeRun(s)
      BY <2>8
    <3>2. runs[s] \in Run /\ runs[s].job \in Jobs
      BY <2>1, <2>2, <3>1 DEF ResumeRun
    <3>3. CASE HonorCancellation(s) \/ StartCaching(s)
      BY <2>3, <3>3 DEF HonorCancellation, StartCaching
    <3>4. CASE PublishImage(s)
      <4>1. StatusOf(runs[s].job) # "CANCELLED" /\ runs[s].image \in Nat /\ runs[s].cut \in BOOLEAN
        BY <3>2, <3>4 DEF PublishImage, Run
      <4>2. WritesJob(runs[s].job)
        BY <2>2, <3>2, <3>4, <4>1, PublishedWrites DEF PublishImage, Jobs, WritesJob
      <4> QED BY <4>1, <4>2, JobWriteKeepsCancelled
    <3>5. CASE FailRun(s)
      BY <2>1, <3>2, <3>5, SetStatusWrites, JobWriteKeepsCancelled DEF FailRun, Statuses
    <3> QED BY <3>1, <3>3, <3>4, <3>5 DEF ResumeRun
  <2>9. CASE \E s \in Slot, j \in Nat : StartRun(s, j)
    <3>1. PICK s \in Slot, j \in Nat : StartRun(s, j)
      BY <2>9
    <3>2. CASE ExecuteNothing(j)
      BY <2>3, <3>2 DEF ExecuteNothing
    <3>3. CASE ExecutePreview(j)
      BY <2>1, <3>3, PreviewWrites, JobWriteKeepsCancelled DEF ExecutePreview
    <3>4. CASE ExecuteUnsupported(j)
      BY <2>1, <3>4, SetStatusWrites, JobWriteKeepsCancelled DEF ExecuteUnsupported, Statuses
    <3>5. CASE ExecuteProvider(s, j)
      BY <2>1, <2>3, <3>5, NextImageIdWrites DEF ExecuteProvider
    <3> QED BY <3>1, <3>2, <3>3, <3>4, <3>5 DEF StartRun
  <2>10. CASE Crash \/ LoadUnreadable
    BY <2>10 DEF Crash, LoadUnreadable, Jobs, EmptyState
  <2>11. CASE LoadFound
    BY <2>11 DEF LoadFound, TypeInv, DownIsEmpty, Jobs, EmptyState
  <2>12. CASE LoadSave
    BY <2>3, <2>12 DEF LoadSave
  <2> QED BY <2>4, <2>5, <2>6, <2>7, <2>8, <2>9, <2>10, <2>11, <2>12 DEF StoreNext
<1> QED BY <1>1, InitTypes, StepTypes, PTL DEF StoreSpec, CancelledIsNotCompleted

-----------------------------------------------------------------------------
(* Finished jobs and their images.                                         *)

Sound(st) ==
    \A j \in DOMAIN st.jobs : st.jobs[j].status = "COMPLETED" =>
        \E i \in st.images : i.id = st.jobs[j].result /\ i.job = j

\* In memory and on disk a completed job has its image.
SoundInv == Sound(state) /\ (disk # Torn => Sound(disk))

LEMMA JobWriteIsSound ==
    ASSUME Sound(state), NEW j \in Jobs, WritesJob(j), state.images \subseteq state'.images,
           \/ StatusOf(j)' # "COMPLETED"
           \/ \E i \in state'.images : i.id = state'.jobs[j].result /\ i.job = j
    PROVE  Sound(state')
BY DEF Sound, WritesJob, StatusOf, Jobs

LEMMA ImagedIsSound ==
    ASSUME Sound(state), NEW j \in Jobs, WritesJob(j), NEW i, NEW cut,
           state'.jobs[j].result = i,
           state'.images = state.images \cup {[id |-> i, job |-> j, cut |-> cut]}
    PROVE  Sound(state')
<1>1. [id |-> i, job |-> j, cut |-> cut].id = i /\ [id |-> i, job |-> j, cut |-> cut].job = j
  OBVIOUS
<1> QED BY <1>1, JobWriteIsSound

\* Every step of a store that is up leaves it sound.
LEMMA UpIsSound ==
    ASSUME TypeInv, Sound(state), StoreNext, api = "up", api' = "up"
    PROVE  Sound(state')
<1>1. StoreTypeOK /\ \A s \in Slot : runs[s] # Idle => runs[s].job \in Jobs
  BY DEF TypeInv, RunsAreOfJobs
<1>2. state \in State /\ runs \in [Slot -> Run \cup {Idle}]
  BY <1>1 DEF StoreTypeOK
<1>3. state'.jobs = state.jobs /\ state'.images = state.images => Sound(state')
  BY DEF Sound
<1>4. CASE \E k \in JobKinds : Create(k)
  <2>1. PICK job \in Job : /\ job.status = "QUEUED"
                           /\ Jobs' = Jobs \cup {Len(state.jobs) + 1}
                           /\ state'.images = state.images
                           /\ state'.jobs[Len(state.jobs) + 1] = job
                           /\ \A j \in Jobs : state'.jobs[j] = state.jobs[j]
    BY <1>4, Created
  <2> QED BY <2>1 DEF Sound, Jobs
<1>5. CASE \E j \in Jobs : Cancel(j) \/ Retry(j)
  BY <1>1, <1>5, SetStatusWrites, JobWriteIsSound DEF Cancel, Retry, Statuses
<1>6. CASE \E j \in Jobs : ClaimNext(j)
  BY <1>1, <1>6, ClaimWrites, JobWriteIsSound
<1>7. CASE CacheImage
  BY <1>3, <1>7 DEF CacheImage
<1>8. CASE \E s \in Slot : ResumeRun(s)
  <2>1. PICK s \in Slot : ResumeRun(s)
    BY <1>8
  <2>2. runs[s] \in Run /\ runs[s].job \in Jobs
    BY <1>1, <1>2, <2>1 DEF ResumeRun
  <2>3. CASE HonorCancellation(s) \/ StartCaching(s)
    BY <1>3, <2>3 DEF HonorCancellation, StartCaching
  <2>4. CASE PublishImage(s)
    <3>1. runs[s].image \in Nat /\ runs[s].cut \in BOOLEAN
      BY <2>2 DEF Run
    <3>2. /\ WritesJob(runs[s].job) /\ state'.jobs[runs[s].job].result = runs[s].image
          /\ state'.images = state.images \cup
                 {[id |-> runs[s].image, job |-> runs[s].job, cut |-> runs[s].cut]}
      BY <1>2, <2>2, <2>4, <3>1, PublishedWrites DEF PublishImage, Jobs, WritesJob
    <3> QED BY <2>2, <3>2, ImagedIsSound
  <2>5. CASE FailRun(s)
    BY <1>1, <2>2, <2>5, SetStatusWrites, JobWriteIsSound DEF FailRun, Statuses
  <2> QED BY <2>1, <2>3, <2>4, <2>5 DEF ResumeRun
<1>9. CASE \E s \in Slot, j \in Nat : StartRun(s, j)
  <2>1. PICK s \in Slot, j \in Nat : StartRun(s, j)
    BY <1>9
  <2>2. CASE ExecuteNothing(j)
    BY <1>3, <2>2 DEF ExecuteNothing
  <2>3. CASE ExecutePreview(j)
    BY <1>1, <2>3, PreviewWrites, ImagedIsSound
  <2>4. CASE ExecuteUnsupported(j)
    BY <1>1, <2>4, SetStatusWrites, JobWriteIsSound DEF ExecuteUnsupported, Statuses
  <2>5. CASE ExecuteProvider(s, j)
    BY <1>1, <1>3, <2>5, NextImageIdWrites DEF ExecuteProvider
  <2> QED BY <2>1, <2>2, <2>3, <2>4, <2>5 DEF StartRun
<1>10. CASE Crash \/ LoadFound \/ LoadSave \/ LoadUnreadable
  BY <1>10 DEF Crash, LoadFound, LoadSave, LoadUnreadable
<1> QED BY <1>4, <1>5, <1>6, <1>7, <1>8, <1>9, <1>10 DEF StoreNext

\* The operator and the workers are served by a process that is up.
LEMMA UpOrProcess ==
    ASSUME StoreNext
    PROVE  \/ api = "up" /\ api' = "up" /\ disk' \in {disk, state, state'}
           \/ Crash \/ LoadFound \/ LoadSave \/ LoadUnreadable
<1>1. CASE \E k \in JobKinds : Create(k)
  BY <1>1 DEF Create, Persist, Save
<1>2. CASE \E j \in Jobs : Cancel(j) \/ Retry(j) \/ (api = "up" /\ ClaimNext(j))
  BY <1>2 DEF Cancel, Retry, ClaimNext, Persist, Save
<1>3. CASE CacheImage
  BY <1>3 DEF CacheImage, Persist, Save
<1>4. CASE \E s \in Slot : ResumeRun(s)
  BY <1>4 DEF ResumeRun, HonorCancellation, PublishImage, StartCaching, FailRun, Persist, Save
<1>5. CASE \E s \in Slot, j \in Nat : StartRun(s, j)
  BY <1>5 DEF StartRun, ExecuteNothing, ExecutePreview, ExecuteUnsupported, ExecuteProvider, Persist, Save
<1> QED BY <1>1, <1>2, <1>3, <1>4, <1>5 DEF StoreNext

LEMMA EmptyIsSound == Sound(EmptyState)
BY DEF Sound, EmptyState

LEMMA StepIsSound == TypeInv /\ SoundInv /\ [StoreNext]_storeVars => SoundInv'
<1> SUFFICES ASSUME TypeInv, SoundInv, [StoreNext]_storeVars
             PROVE  Sound(state') /\ (disk' # Torn => Sound(disk'))
  BY DEF SoundInv
<1>1. CASE StoreNext /\ api = "up" /\ api' = "up" /\ disk' \in {disk, state, state'}
  <2>1. Sound(state')
    BY <1>1, UpIsSound DEF SoundInv
  <2> QED BY <1>1, <2>1 DEF SoundInv
<1>2. CASE Crash
  BY <1>2, EmptyIsSound DEF Crash, SoundInv
<1>3. CASE LoadFound
  BY <1>3, EmptyIsSound DEF LoadFound, SoundInv
<1>4. CASE LoadSave
  BY <1>4 DEF LoadSave, Save, SoundInv
<1>5. CASE LoadUnreadable
  BY <1>5, EmptyIsSound DEF LoadUnreadable, Save
<1>6. CASE UNCHANGED storeVars
  BY <1>6 DEF storeVars, SoundInv
<1> QED BY <1>1, <1>2, <1>3, <1>4, <1>5, <1>6, UpOrProcess

\* A completed job shows an image that is in the store and was made for it,
\* whatever was cancelled, retried, executed twice or lost in a crash.
THEOREM ForgeCompletedHasItsImage == StoreSpec => []CompletedHasItsImage
<1>1. StoreInit => SoundInv
  BY EmptyIsSound DEF StoreInit, SoundInv
<1>2. SoundInv => CompletedHasItsImage
  BY DEF SoundInv, Sound, CompletedHasItsImage, Jobs, StatusOf
<1> QED BY <1>1, <1>2, InitTypes, StepTypes, StepIsSound, PTL DEF StoreSpec

-----------------------------------------------------------------------------
(* The state in memory and its file.                                       *)

\* st holds what t does, but for the failures told and not saved.
Holds(st, t) ==
    /\ st.images = t.images
    /\ DOMAIN st.jobs = DOMAIN t.jobs
    /\ \A j \in DOMAIN t.jobs \ unsaved : st.jobs[j] = t.jobs[j]

\* While the API is up the file holds what is in memory, every claim included; while
\* it loads the file is empty; a torn file holds nothing.
SavedInv ==
    /\ api = "up" => /\ disk # Torn /\ Holds(disk, state)
                     /\ \A j \in Jobs : disk.jobs[j].claims = state.jobs[j].claims
    /\ api = "loading" => disk = EmptyState
    /\ disk = Torn => told = EmptyState

Told == WhatWasToldIsOnDisk /\ SavedInv

LEMMA EmptyIsState == EmptyState \in State /\ EmptyState # Torn
<1>1. EmptyState \in State
  BY EmptySeq DEF EmptyState, State
<1> QED BY <1>1, StoreAssumption

LEMMA SavedIsTold ==
    ASSUME api' = "up", state' \in State, disk' \in State, told' = state',
           disk'.jobs = state'.jobs, disk'.images = state'.images
    PROVE  Told'
<1>1. disk' # Torn
  BY StoreAssumption
<1> QED BY <1>1 DEF Told, SavedInv, Holds, WhatWasToldIsOnDisk, Jobs

LEMMA StepIsTold == TypeInv /\ Told /\ [StoreNext]_storeVars => Told'
<1> SUFFICES ASSUME TypeInv, Told, [StoreNext]_storeVars
             PROVE  Told'
  OBVIOUS
<1>1. StoreTypeOK /\ state' \in State
  BY StepTypes DEF TypeInv, StoreTypeOK
<1>2. CASE UNCHANGED <<state, disk, api, told, unsaved>>
  BY <1>2 DEF Told, SavedInv, Holds, WhatWasToldIsOnDisk, Jobs
<1>3. CASE \/ \E k \in JobKinds : Create(k)
           \/ \E j \in Jobs : Cancel(j) \/ Retry(j) \/ (api = "up" /\ ClaimNext(j))
           \/ CacheImage
  <2>1. disk' = state' /\ told' = state' /\ api' = "up"
    BY <1>3 DEF Create, Cancel, Retry, ClaimNext, CacheImage, Persist, Save
  <2> QED BY <2>1, <1>1, SavedIsTold
<1>4. CASE \E s \in Slot : ResumeRun(s)
  <2>1. disk' = state' /\ told' = state' /\ api' = "up"
    BY <1>4 DEF ResumeRun, HonorCancellation, PublishImage, StartCaching, FailRun, Persist, Save
  <2> QED BY <2>1, <1>1, SavedIsTold
<1>5. CASE \E s \in Slot, j \in Nat : StartRun(s, j)
  <2>1. PICK s \in Slot, j \in Nat : StartRun(s, j)
    BY <1>5
  <2>2. api = "up" /\ api' = "up"
    BY <2>1 DEF StartRun
  <2>3. CASE ExecuteNothing(j)
    BY <1>2, <2>1, <2>3 DEF ExecuteNothing, StartRun
  <2>4. CASE ExecutePreview(j)
    BY <1>1, <2>2, <2>4, SavedIsTold DEF ExecutePreview, Persist, Save
  <2>5. CASE ExecuteUnsupported(j)
    <3>1. /\ j \in Jobs /\ UNCHANGED disk /\ told' = state' /\ unsaved' = unsaved \cup {j}
      BY <2>5 DEF ExecuteUnsupported
    <3>2. WritesJob(j) /\ state'.images = state.images
      BY <1>1, <2>5, SetStatusWrites DEF ExecuteUnsupported, Statuses
    <3>3. state'.jobs[j].claims = state.jobs[j].claims
      BY <1>1, <2>5, SetStatusWrites DEF ExecuteUnsupported, Statuses
    <3>4. disk' # Torn /\ Holds(disk, state)'
      BY <2>2, <3>1, <3>2 DEF Told, SavedInv, Holds, WritesJob, Jobs
    <3>5. \A k \in Jobs' : disk'.jobs[k].claims = state'.jobs[k].claims
      BY <2>2, <3>1, <3>2, <3>3 DEF Told, SavedInv, WritesJob
    <3> QED BY <2>2, <3>1, <3>4, <3>5 DEF Told, SavedInv, Holds, WhatWasToldIsOnDisk
  <2>6. CASE ExecuteProvider(s, j)
    <3>1. /\ disk' = state /\ told' = state'
          /\ state'.jobs = state.jobs /\ state'.images = state.images
      BY <1>1, <2>6, NextImageIdWrites DEF ExecuteProvider
    <3>2. state \in State
      BY <1>1 DEF StoreTypeOK
    <3> QED BY <1>1, <2>2, <3>1, <3>2, SavedIsTold
  <2> QED BY <2>1, <2>3, <2>4, <2>5, <2>6 DEF StartRun
<1>6. CASE Crash
  <2>1. CASE api = "loading" \/ disk' = Torn
    BY <1>6, <2>1 DEF Crash, Told, SavedInv, WhatWasToldIsOnDisk
  <2>2. CASE api = "up" /\ disk' # Torn
    BY <1>6, <2>2 DEF Crash, Told, SavedInv, WhatWasToldIsOnDisk
  <2> QED BY <1>6, <2>1, <2>2 DEF Crash
<1>7. CASE LoadFound
  BY <1>7, EmptyIsState DEF LoadFound, Told, SavedInv, WhatWasToldIsOnDisk
<1>8. CASE LoadSave
  <2>1. /\ api = "loading" /\ api' = "up" /\ disk' = state /\ UNCHANGED <<state, told, unsaved>>
    BY <1>8 DEF LoadSave, Save
  <2>2. disk # Torn /\ state # Torn
    BY <1>1, <2>1, EmptyIsState, StoreAssumption DEF Told, SavedInv
  <2> QED BY <2>1, <2>2 DEF Told, SavedInv, Holds, WhatWasToldIsOnDisk, Jobs
<1>9. CASE LoadUnreadable
  <2>1. /\ api' = "up" /\ disk' = EmptyState /\ state' = EmptyState /\ told = EmptyState
        /\ UNCHANGED <<told, unsaved>>
    BY <1>9 DEF LoadUnreadable, Save, Told, SavedInv
  <2> QED BY <2>1, EmptyIsState DEF Told, SavedInv, Holds, WhatWasToldIsOnDisk, Jobs
<1> QED BY <1>2, <1>3, <1>4, <1>5, <1>6, <1>7, <1>8, <1>9 DEF StoreNext, storeVars

LEMMA StoreTold == StoreSpec => []Told
<1>1. StoreInit => Told
  BY EmptyIsState DEF StoreInit, Told, SavedInv, Holds, WhatWasToldIsOnDisk, Jobs
<1> QED BY <1>1, InitTypes, StepTypes, StepIsTold, PTL DEF StoreSpec

\* What callers were told about jobs and images is what a restart finds, for any jobs,
\* executions and crashes, except what a crash that tears the file, or falls between
\* load's two saves, has wiped, and the failures of unsupported jobs since the last
\* save.
THEOREM ForgeWhatWasToldIsOnDisk == StoreSpec => []WhatWasToldIsOnDisk
<1>1. Told => WhatWasToldIsOnDisk
  BY DEF Told
<1> QED BY <1>1, StoreTold, PTL
=============================================================================
