-------------------------- MODULE ForgeWorkerProofs --------------------------
(***************************************************************************)
(* Proofs about the Cosmic Forge worker and the store it works for, for    *)
(* any MAX_CONCURRENCY and any number of slots, jobs, retries, crashes and *)
(* lost requests.  What the worker does is what the store allows, so that  *)
(* what is proved of the store for any client holds with this one.         *)
(***************************************************************************)
EXTENDS ForgeWorker, ForgeStoreProofs, FiniteSetTheorems

\* A request on its way has nothing running in its slot.
SentIsIdle == \A s \in Slot : calls[s] # Idle /\ calls[s].at = "sent" => runs[s] = Idle

WorkerTypes ==
    /\ pump \in [at : {"idle", "asked", "answered"}, job : Nat, pending : BOOLEAN]
    /\ active \subseteq Nat
    /\ calls \in [Slot -> Call \cup {Idle}]
    /\ overlapped \in BOOLEAN
    /\ faults \in 0..MaxFaults

WorkerInv == TypeInv /\ WorkerTypes /\ SentIsIdle

-----------------------------------------------------------------------------
(* Every step is one of the store's or leaves it alone.                    *)

LEMMA StepOfStore == WorkerInv /\ [Next]_vars => [StoreNext]_storeVars
<1> SUFFICES ASSUME WorkerInv, [Next]_vars
             PROVE  StoreNext \/ UNCHANGED storeVars
  OBVIOUS
<1>1. CASE Operator
  BY <1>1 DEF Operator, StoreNext
<1>2. CASE Process
  BY <1>2 DEF Process, StoreNext
<1>3. CASE Poll
  BY <1>3 DEF Poll
<1>4. CASE Claims
  <2>1. CASE ClaimArrives
    BY <2>1 DEF ClaimArrives, StoreNext
  <2>2. CASE NothingToClaim \/ ClaimLost \/ \E s \in Slot : JobClaimed(s)
    BY <2>2 DEF NothingToClaim, ClaimLost, JobClaimed
  <2> QED BY <1>4, <2>1, <2>2 DEF Claims
<1>5. CASE \E s \in Slot : Executes(s)
  <2>1. PICK s \in Slot : Executes(s)
    BY <1>5
  <2>2. CASE ExecuteArrives(s)
    <3>1. calls[s] # Idle /\ calls[s].at = "sent" /\ StartRun(s, calls[s].job)
      BY <2>2 DEF ExecuteArrives
    <3>2. runs[s] = Idle /\ calls[s].job \in Nat
      BY <3>1 DEF WorkerInv, WorkerTypes, SentIsIdle, Call
    <3> QED BY <3>1, <3>2 DEF StoreNext
  <2>3. CASE Resume(s)
    BY <2>3 DEF Resume, StoreNext
  <2>4. CASE ExecuteHeard(s) \/ ExecuteLost(s)
    BY <2>4 DEF ExecuteHeard, ExecuteLost, FreeSlot
  <2> QED BY <2>1, <2>2, <2>3, <2>4 DEF Executes
<1>6. CASE UNCHANGED vars
  BY <1>6 DEF vars
<1> QED BY <1>1, <1>2, <1>3, <1>4, <1>5, <1>6 DEF Next

-----------------------------------------------------------------------------
(* The type invariant.                                                     *)

LEMMA InitWorker == Init => WorkerInv
<1> SUFFICES ASSUME Init
             PROVE  WorkerInv
  OBVIOUS
<1>1. 0 \in 0..MaxFaults
  BY ConcurrencyAssumption
<1>2. WorkerTypes
  BY <1>1 DEF Init, WorkerTypes, PumpIdle
<1>3. SentIsIdle
  BY DEF Init, SentIsIdle
<1> QED BY <1>2, <1>3, InitTypes DEF Init, WorkerInv

\* Where the pump may go.
PumpGoesOn ==
    pump' \in [at : {"idle", "asked", "answered"}, job : Nat, pending : BOOLEAN]

LEMMA PumpTypes ==
    ASSUME WorkerTypes, NEW act
    PROVE  /\ StartPump(act) => PumpGoesOn
           /\ PumpQueue(act) => PumpGoesOn
           /\ EndPump(act) => PumpGoesOn
<1>1. StartPump(act) => PumpGoesOn
  BY DEF StartPump, Asking, PumpIdle, PumpGoesOn
<1>2. pump' = [pump EXCEPT !.pending = TRUE] => PumpGoesOn
  BY DEF WorkerTypes, PumpGoesOn
<1>3. pump' = PumpIdle => PumpGoesOn
  BY DEF PumpIdle, PumpGoesOn
<1> QED BY <1>1, <1>2, <1>3 DEF PumpQueue, EndPump

\* A slot whose run does not change may be asked of, or freed.
LEMMA CallsTypes ==
    ASSUME WorkerInv, NEW s \in Slot, NEW call \in Call \cup {Idle},
           calls' = [calls EXCEPT ![s] = call], PumpGoesOn, active' \subseteq Nat,
           overlapped' \in BOOLEAN, faults' \in 0..MaxFaults,
           \A t \in Slot : t # s => runs'[t] = runs[t],
           call # Idle /\ call.at = "sent" => runs'[s] = Idle
    PROVE  WorkerTypes' /\ SentIsIdle'
<1>1. WorkerTypes'
  BY DEF WorkerInv, WorkerTypes, PumpGoesOn
<1>2. SentIsIdle'
  BY DEF WorkerInv, WorkerTypes, SentIsIdle
<1> QED BY <1>1, <1>2

LEMMA OnlyItsRun ==
    ASSUME NEW s \in Slot, (\E j \in Nat : StartRun(s, j)) \/ ResumeRun(s),
           runs \in [Slot -> Run \cup {Idle}]
    PROVE  \A t \in Slot : t # s => runs'[t] = runs[t]
<1>1. UNCHANGED runs \/ \E r : runs' = [runs EXCEPT ![s] = r]
  BY DEF StartRun, ExecuteNothing, ExecutePreview, ExecuteUnsupported, ExecuteProvider, ResumeRun,
         HonorCancellation, PublishImage, StartCaching, FailRun, EndRun
<1> QED BY <1>1

LEMMA AnsweredTypes ==
    ASSUME WorkerInv, NEW s \in Slot, calls[s] # Idle, Answered(s)
    PROVE  \E call \in Call : /\ call.job = calls[s].job /\ call.at # "sent"
                              /\ calls' = [calls EXCEPT ![s] = call]
<1>1. calls[s] \in Call
  BY DEF WorkerInv, WorkerTypes
<1>2. PICK where \in {"answered", "executing"} : calls' = [calls EXCEPT ![s].at = where]
  BY DEF Answered
<1> DEFINE call == [calls[s] EXCEPT !.at = where]
<1>3. call \in Call /\ call.job = calls[s].job /\ call.at # "sent"
  BY <1>1, <1>2 DEF Call
<1>4. calls' = [calls EXCEPT ![s] = call]
  BY <1>2
<1> HIDE DEF call
<1> QED BY <1>3, <1>4

LEMMA ClaimTypes == WorkerInv /\ Claims => WorkerTypes' /\ SentIsIdle'
<1> SUFFICES ASSUME WorkerInv, Claims
             PROVE  WorkerTypes' /\ SentIsIdle'
  OBVIOUS
<1>1. WorkerTypes /\ SentIsIdle /\ TypeInv
  BY DEF WorkerInv
<1>2. CASE ClaimArrives
  <2>1. \E j \in Nat : ClaimAnswered(j)
    BY <1>1, <1>2, JobAt DEF ClaimArrives, Jobs, TypeInv, StoreTypeOK
  <2>2. PumpGoesOn
    BY <1>1, <2>1 DEF ClaimAnswered, WorkerTypes, PumpGoesOn
  <2>3. UNCHANGED <<active, calls, overlapped, faults, runs>>
    BY <1>2 DEF ClaimArrives, ClaimNext, storeVars
  <2> QED BY <1>1, <2>2, <2>3 DEF WorkerTypes, SentIsIdle, PumpGoesOn
<1>3. CASE NothingToClaim
  <2>1. PumpGoesOn /\ UNCHANGED <<active, calls, overlapped, faults, runs>>
    BY <1>1, <1>3, PumpTypes DEF NothingToClaim, storeVars
  <2> QED BY <1>1, <2>1 DEF WorkerTypes, SentIsIdle, PumpGoesOn
<1>4. CASE ClaimLost
  <2>1. PumpGoesOn /\ UNCHANGED <<active, calls, overlapped, runs>>
    BY <1>1, <1>4, PumpTypes DEF ClaimLost, storeVars
  <2>2. faults' \in 0..MaxFaults
    BY <1>1, <1>4, ConcurrencyAssumption DEF ClaimLost, WorkerTypes
  <2> QED BY <1>1, <2>1, <2>2 DEF WorkerTypes, SentIsIdle, PumpGoesOn
<1>5. CASE \E s \in Slot : JobClaimed(s)
  <2>1. PICK s \in Slot : JobClaimed(s)
    BY <1>5
  <2>2. /\ runs[s] = Idle /\ UNCHANGED <<runs, faults>>
        /\ calls' = [calls EXCEPT ![s] = [job |-> pump.job, at |-> "sent"]]
        /\ active' = active \cup {pump.job}
        /\ overlapped' = (overlapped \/ pump.job \in active)
    BY <2>1 DEF JobClaimed, storeVars
  <2>3. PumpGoesOn
    <3>1. Asking(pump.pending) \in [at : {"idle", "asked", "answered"}, job : Nat, pending : BOOLEAN]
      BY <1>1 DEF Asking, WorkerTypes
    <3> QED BY <1>1, <2>1, <3>1, PumpTypes DEF JobClaimed, PumpGoesOn
  <2>4. [job |-> pump.job, at |-> "sent"] \in Call /\ pump.job \in Nat
    BY <1>1 DEF WorkerTypes, Call
  <2>5. active' \subseteq Nat /\ overlapped' \in BOOLEAN /\ faults' \in 0..MaxFaults
    BY <1>1, <2>2, <2>4 DEF WorkerTypes
  <2> QED BY <2>2, <2>3, <2>4, <2>5, CallsTypes
<1> QED BY <1>2, <1>3, <1>4, <1>5 DEF Claims

LEMMA ExecuteTypes ==
    ASSUME WorkerInv, NEW s \in Slot, Executes(s)
    PROVE  WorkerTypes' /\ SentIsIdle'
<1>1. WorkerTypes /\ SentIsIdle /\ TypeInv /\ runs \in [Slot -> Run \cup {Idle}]
  BY DEF WorkerInv, TypeInv, StoreTypeOK
<1>2. pump \in [at : {"idle", "asked", "answered"}, job : Nat, pending : BOOLEAN]
      /\ active \subseteq Nat /\ overlapped \in BOOLEAN /\ faults \in 0..MaxFaults
  BY <1>1 DEF WorkerTypes
<1>3. CASE ExecuteArrives(s)
  <2>1. calls[s] # Idle /\ StartRun(s, calls[s].job) /\ Answered(s)
        /\ UNCHANGED <<pump, active, overlapped, faults>>
    BY <1>3 DEF ExecuteArrives
  <2>2. calls[s].job \in Nat
    BY <1>1, <2>1 DEF WorkerTypes, Call
  <2>3. PICK call \in Call : call.at # "sent" /\ calls' = [calls EXCEPT ![s] = call]
    BY <2>1, AnsweredTypes
  <2>4. \A t \in Slot : t # s => runs'[t] = runs[t]
    BY <1>1, <2>1, <2>2, OnlyItsRun
  <2> QED BY <1>2, <2>1, <2>3, <2>4, CallsTypes DEF PumpGoesOn
<1>4. CASE Resume(s)
  <2>1. ResumeRun(s) /\ runs[s] # Idle /\ UNCHANGED <<pump, active, overlapped, faults>>
    BY <1>4 DEF Resume, ResumeRun
  <2>2. \A t \in Slot : t # s => runs'[t] = runs[t]
    BY <1>1, <2>1, OnlyItsRun
  <2>3. CASE calls[s] = Idle
    <3>1. UNCHANGED calls
      BY <1>4, <2>3 DEF Resume
    <3> QED BY <1>1, <2>1, <2>2, <2>3, <3>1 DEF WorkerTypes, SentIsIdle
  <2>4. CASE calls[s] # Idle
    <3>1. PICK call \in Call : call.at # "sent" /\ calls' = [calls EXCEPT ![s] = call]
      BY <1>4, <2>4, AnsweredTypes DEF Resume
    <3> QED BY <1>2, <2>1, <2>2, <3>1, CallsTypes DEF PumpGoesOn
  <2> QED BY <2>3, <2>4
<1>5. CASE ExecuteHeard(s) \/ ExecuteLost(s)
  <2>1. FreeSlot(s)
    BY <1>5 DEF ExecuteHeard, ExecuteLost
  <2>2. faults' \in 0..MaxFaults
    BY <1>2, <1>5, ConcurrencyAssumption DEF ExecuteHeard, ExecuteLost
  <2>3. calls' = [calls EXCEPT ![s] = Idle] /\ active' = active \ {calls[s].job}
        /\ UNCHANGED <<runs, overlapped>> /\ PumpGoesOn
    BY <1>1, <2>1, PumpTypes DEF FreeSlot, storeVars
  <2> QED BY <1>2, <2>2, <2>3, CallsTypes
<1> QED BY <1>3, <1>4, <1>5 DEF Executes

\* What the operator asks, and a crash, start no execution.
LEMMA OthersTypes == WorkerInv /\ (Operator \/ Process) => WorkerTypes' /\ SentIsIdle'
<1> SUFFICES ASSUME WorkerInv, Operator \/ Process
             PROVE  WorkerTypes' /\ SentIsIdle'
  OBVIOUS
<1>1. UNCHANGED <<pump, active, calls, overlapped, faults>>
  BY DEF Operator, Process
<1>2. \A s \in Slot : runs[s] = Idle => runs'[s] = Idle
  BY DEF Operator, Process, Create, Cancel, Retry, CacheImage, Crash, LoadFound, LoadSave,
         LoadUnreadable
<1> QED BY <1>1, <1>2 DEF WorkerInv, WorkerTypes, SentIsIdle

LEMMA StepWorker == WorkerInv /\ [Next]_vars => WorkerInv'
<1> SUFFICES ASSUME WorkerInv, [Next]_vars
             PROVE  WorkerInv'
  OBVIOUS
<1>1. TypeInv'
  BY StepOfStore, StepTypes DEF WorkerInv
<1>2. CASE Poll
  <2>1. PumpGoesOn /\ UNCHANGED <<active, calls, overlapped, faults, runs>>
    BY <1>2, PumpTypes DEF Poll, storeVars, WorkerInv
  <2> QED BY <1>1, <2>1 DEF WorkerInv, WorkerTypes, SentIsIdle, PumpGoesOn
<1>3. CASE UNCHANGED vars
  BY <1>1, <1>3 DEF vars, storeVars, WorkerInv, WorkerTypes, SentIsIdle
<1> QED BY <1>1, <1>2, <1>3, OthersTypes, ClaimTypes, ExecuteTypes DEF Next, WorkerInv

\* The worker's variables keep their types with the store's, however requests
\* and replies are lost and the API crashes.
THEOREM ForgeTypeOK == Spec => []TypeOK
<1>1. WorkerInv => TypeOK
  BY DEF WorkerInv, TypeInv, WorkerTypes, TypeOK
<1> QED BY <1>1, InitWorker, StepWorker, PTL DEF Spec

\* What the worker, the operator and the process do together is what the store
\* allows its clients: no slot is used for a second execution while the first
\* one runs.
THEOREM ForgeWorkerServesStore == Spec => StoreSpec
<1>1. Init => StoreInit
  BY DEF Init
<1> QED BY <1>1, InitWorker, StepWorker, StepOfStore, PTL DEF Spec, StoreSpec

\* With this worker, then, no cancelled job is completed, a completed job has
\* its image, and what was told is what a restart finds, with the exceptions that
\* WhatWasToldIsOnDisk names.
THEOREM ForgeWorkerKeepsPromises ==
    Spec => CancelledIsNotCompleted /\ []CompletedHasItsImage /\ []WhatWasToldIsOnDisk
BY ForgeWorkerServesStore, ForgeCancelledIsNotCompleted, ForgeCompletedHasItsImage,
   ForgeWhatWasToldIsOnDisk, PTL

-----------------------------------------------------------------------------
(* MAX_CONCURRENCY.                                                        *)

\* The pump asks for a job only when there is room for it.
Room ==
    /\ IsFiniteSet(active) /\ Cardinality(active) <= MaxConcurrency
    /\ pump.at # "idle" => Cardinality(active) < MaxConcurrency

\* Without a second claim, each request the worker waits for is of an active
\* job of its own.
OneCallEach ==
    ~overlapped => /\ \A s \in Waiting : calls[s].job \in active
                   /\ \A s, t \in Waiting : calls[s].job = calls[t].job => s = t

Bounded == Room /\ OneCallEach

LEMMA PumpHasRoom ==
    ASSUME WorkerInv, NEW act, IsFiniteSet(act), Cardinality(act) <= MaxConcurrency,
           active' = act,
           \/ StartPump(act) \/ EndPump(act)
           \/ /\ PumpQueue(act)
              /\ pump.at # "idle" => Cardinality(act) < MaxConcurrency
           \/ Cardinality(act) < MaxConcurrency
    PROVE  Room'
<1>1. StartPump(act) => Room'
  BY DEF StartPump, Asking, PumpIdle, Room
<1>2. EndPump(act) => Room'
  BY <1>1 DEF EndPump, PumpIdle, Room
<1>3. pump' = [pump EXCEPT !.pending = TRUE] => pump'.at = pump.at
  BY DEF WorkerInv, WorkerTypes
<1> QED BY <1>1, <1>2, <1>3 DEF PumpQueue, Room

LEMMA JobClaimedBounded ==
    ASSUME WorkerInv, Bounded, NEW s \in Slot, JobClaimed(s)
    PROVE  Bounded'
<1> DEFINE act == active \cup {pump.job}
           call == [job |-> pump.job, at |-> "sent"]
<1>1. /\ pump.at = "answered" /\ calls[s] = Idle
      /\ calls' = [calls EXCEPT ![s] = call]
      /\ active' = act
      /\ overlapped' = (overlapped \/ pump.job \in active)
      /\ IF Cardinality(act) < MaxConcurrency THEN pump' = Asking(pump.pending)
                                              ELSE EndPump(act)
  BY DEF JobClaimed
<1>2. /\ IsFiniteSet(active) /\ Cardinality(active) \in Nat
      /\ Cardinality(active) < MaxConcurrency /\ MaxConcurrency \in Nat
  BY <1>1, FS_CardinalityType, ConcurrencyAssumption DEF Bounded, Room
<1>3. IsFiniteSet(act) /\ Cardinality(act) <= MaxConcurrency
  <2>1. IsFiniteSet(act) /\ Cardinality(act) \in {Cardinality(active), Cardinality(active) + 1}
    BY <1>2, FS_AddElement
  <2> HIDE DEF act
  <2> QED BY <1>2, <2>1
<1>4. Room'
  <2> HIDE DEF act
  <2> QED BY <1>1, <1>3, PumpHasRoom
<1>5. OneCallEach'
  <2> SUFFICES ASSUME ~overlapped'
               PROVE  /\ \A t \in Waiting' : calls'[t].job \in active'
                      /\ \A t, u \in Waiting' : calls'[t].job = calls'[u].job => t = u
    BY DEF OneCallEach
  <2>1. ~overlapped /\ pump.job \notin active
    BY <1>1
  <2>2. \A t \in Slot : calls'[t] = IF t = s THEN call ELSE calls[t]
    BY <1>1 DEF WorkerInv, WorkerTypes
  <2>3. call.job = pump.job
    OBVIOUS
  <2> HIDE DEF call
  <2>4. \A t \in Waiting' : t = s \/ t \in Waiting
    BY <2>2 DEF Waiting
  <2> QED BY <1>1, <2>1, <2>2, <2>3, <2>4 DEF Bounded, OneCallEach, Waiting
<1> QED BY <1>4, <1>5 DEF Bounded

LEMMA FreeSlotBounded ==
    ASSUME WorkerInv, Bounded, NEW s \in Slot, calls[s] # Idle, FreeSlot(s)
    PROVE  Bounded'
<1> DEFINE act == active \ {calls[s].job}
<1>1. /\ calls' = [calls EXCEPT ![s] = Idle] /\ active' = act /\ PumpQueue(act)
      /\ UNCHANGED overlapped
  BY DEF FreeSlot
<1>2. /\ IsFiniteSet(active) /\ Cardinality(active) \in Nat /\ MaxConcurrency \in Nat
      /\ Cardinality(active) <= MaxConcurrency
      /\ pump.at # "idle" => Cardinality(active) < MaxConcurrency
  BY FS_CardinalityType, ConcurrencyAssumption DEF Bounded, Room
<1>3. IsFiniteSet(act) /\ Cardinality(act) <= Cardinality(active) /\ Cardinality(act) \in Nat
  BY <1>2, FS_Subset, FS_CardinalityType
<1>4. Room'
  <2>1. Cardinality(act) <= MaxConcurrency
        /\ (pump.at # "idle" => Cardinality(act) < MaxConcurrency)
    BY <1>2, <1>3
  <2> HIDE DEF act
  <2> QED BY <1>1, <1>3, <2>1, PumpHasRoom
<1>5. \A t \in Slot : calls'[t] = IF t = s THEN Idle ELSE calls[t]
  BY <1>1 DEF WorkerInv, WorkerTypes
<1>6. Waiting' = Waiting \ {s} /\ s \in Waiting
  BY <1>5 DEF Waiting
<1>7. OneCallEach'
  BY <1>1, <1>5, <1>6 DEF Bounded, OneCallEach, Waiting
<1> QED BY <1>4, <1>7 DEF Bounded

\* A request that is answered or under way stays the job's.
LEMMA SameCallsBounded ==
    ASSUME Bounded, UNCHANGED <<pump, active, overlapped>>, Waiting' = Waiting,
           \A s \in Waiting : calls'[s].job = calls[s].job
    PROVE  Bounded'
BY DEF Bounded, Room, OneCallEach

LEMMA AnsweredBounded ==
    ASSUME WorkerInv, Bounded, NEW s \in Slot, calls[s] # Idle, Answered(s),
           UNCHANGED <<pump, active, overlapped>>
    PROVE  Bounded'
<1>1. PICK call \in Call : call.job = calls[s].job /\ calls' = [calls EXCEPT ![s] = call]
  BY AnsweredTypes
<1>2. \A t \in Slot : calls'[t] = IF t = s THEN call ELSE calls[t]
  BY <1>1 DEF WorkerInv, WorkerTypes
<1>3. Waiting' = Waiting
  BY <1>1, <1>2, ConcurrencyAssumption DEF Waiting
<1> QED BY <1>1, <1>2, <1>3, SameCallsBounded DEF Waiting

LEMMA StepBounded == WorkerInv /\ Bounded /\ [Next]_vars => Bounded'
<1> SUFFICES ASSUME WorkerInv, Bounded, [Next]_vars
             PROVE  Bounded'
  OBVIOUS
<1>1. /\ IsFiniteSet(active) /\ Cardinality(active) <= MaxConcurrency
      /\ pump.at # "idle" => Cardinality(active) < MaxConcurrency
  BY DEF Bounded, Room
<1>2. UNCHANGED <<calls, overlapped, active>> => OneCallEach'
  BY DEF Bounded, OneCallEach, Waiting
<1>3. CASE Operator \/ Process \/ UNCHANGED vars
  <2>1. UNCHANGED <<pump, active, calls, overlapped>>
    BY <1>3 DEF Operator, Process, vars
  <2> QED BY <2>1, SameCallsBounded DEF Waiting
<1>4. CASE Poll
  <2>1. PumpQueue(active) /\ UNCHANGED <<active, calls, overlapped>>
    BY <1>4 DEF Poll
  <2> QED BY <1>1, <1>2, <2>1, PumpHasRoom DEF Bounded
<1>5. CASE ClaimArrives
  <2>1. pump.at = "asked" /\ UNCHANGED <<active, calls, overlapped>>
    BY <1>5 DEF ClaimArrives
  <2> QED BY <1>1, <1>2, <2>1, PumpHasRoom DEF Bounded
<1>6. CASE NothingToClaim \/ ClaimLost
  <2>1. EndPump(active) /\ UNCHANGED <<active, calls, overlapped>>
    BY <1>6 DEF NothingToClaim, ClaimLost
  <2> QED BY <1>1, <1>2, <2>1, PumpHasRoom DEF Bounded
<1>7. CASE \E s \in Slot : JobClaimed(s)
  BY <1>7, JobClaimedBounded
<1>8. CASE \E s \in Slot : ExecuteArrives(s)
  BY <1>8, AnsweredBounded DEF ExecuteArrives
<1>9. CASE \E s \in Slot : Resume(s)
  <2>1. PICK s \in Slot : Resume(s)
    BY <1>9
  <2>2. CASE calls[s] = Idle
    BY <2>1, <2>2, SameCallsBounded DEF Resume, Waiting
  <2>3. CASE calls[s] # Idle
    BY <2>1, <2>3, AnsweredBounded DEF Resume
  <2> QED BY <2>2, <2>3
<1>10. CASE \E s \in Slot : ExecuteHeard(s) \/ ExecuteLost(s)
  BY <1>10, FreeSlotBounded DEF ExecuteHeard, ExecuteLost
<1> QED BY <1>3, <1>4, <1>5, <1>6, <1>7, <1>8, <1>9, <1>10 DEF Next, Claims, Executes

\* The worker has at most MAX_CONCURRENCY jobs active, and as many executions in
\* progress unless a job was claimed again while it was active, however its
\* timer, the ends of executions, its claims and their losses interleave.
THEOREM ForgeBoundedConcurrency == Spec => []BoundedConcurrency
<1>1. Init => Bounded
  <2> SUFFICES ASSUME Init
               PROVE  Bounded
    OBVIOUS
  <2>1. Waiting = {}
    BY DEF Init, Waiting
  <2> QED BY <2>1, FS_EmptySet, ConcurrencyAssumption DEF Init, PumpIdle, Bounded, Room, OneCallEach
<1>2. Bounded => BoundedConcurrency
  <2> SUFFICES ASSUME Bounded
               PROVE  BoundedConcurrency
    OBVIOUS
  <2>1. IsFiniteSet(active) /\ Cardinality(active) <= MaxConcurrency
    BY DEF Bounded, Room
  <2>2. ASSUME ~overlapped
        PROVE  Cardinality(Waiting) <= MaxConcurrency
    <3> DEFINE jobOf == [s \in Waiting |-> calls[s].job]
    <3>1. jobOf \in Injection(Waiting, active)
      BY <2>2 DEF Bounded, OneCallEach, Injection, IsInjective
    <3>2. IsFiniteSet(Waiting) /\ Cardinality(Waiting) <= Cardinality(active)
      BY <2>1, <3>1, FS_Injection
    <3>3. Cardinality(Waiting) \in Nat /\ Cardinality(active) \in Nat /\ MaxConcurrency \in Nat
      BY <2>1, <3>2, FS_CardinalityType, ConcurrencyAssumption
    <3> QED BY <2>1, <3>2, <3>3
  <2> QED BY <2>1, <2>2 DEF BoundedConcurrency
<1> QED BY <1>1, <1>2, InitWorker, StepWorker, StepBounded, PTL DEF Spec

-----------------------------------------------------------------------------
(* Claims and images.                                                      *)

\* What a restart would find, or has found.
Durable == IF api = "down" THEN disk ELSE state

\* A claim is spent once: on the reply that carries it, the request that is
\* sent for it, the execution the request starts, or the image that yields.
ImagesOf(j) == {i \in Durable.images : i.job = j}
RunsOf(j) == {s \in Slot : runs[s] # Idle /\ runs[s].job = j}
SentOf(j) == {s \in Slot : calls[s] # Idle /\ calls[s].at = "sent" /\ calls[s].job = j}
InHand(j) == {c \in {0} : pump.at = "answered" /\ pump.job = j}

Tagged(images, running, sent, hand) ==
    ({"image"} \X images) \cup ({"run"} \X running) \cup ({"sent"} \X sent) \cup ({"claim"} \X hand)

Spent(j) == Tagged(ImagesOf(j), RunsOf(j), SentOf(j), InHand(j))

Paid ==
    ~lost =>
        /\ api = "down" => disk # Torn
        /\ \A j \in DOMAIN Durable.jobs :
               IsFiniteSet(Spent(j)) /\ Cardinality(Spent(j)) <= Durable.jobs[j].claims
        /\ \A j \in Nat \ {0} : Spent(j) # {} => j \in DOMAIN Durable.jobs

LEMMA SwapCounts ==
    ASSUME NEW S, IsFiniteSet(S), NEW T,
           T \subseteq S \/ \E x \in S : \E y : T \subseteq (S \ {x}) \cup {y}
    PROVE  IsFiniteSet(T) /\ Cardinality(T) <= Cardinality(S)
<1>1. CASE T \subseteq S
  BY <1>1, FS_Subset
<1>2. CASE \E x \in S : \E y : T \subseteq (S \ {x}) \cup {y}
  <2>0. PICK x \in S : \E y : T \subseteq (S \ {x}) \cup {y}
    BY <1>2
  <2>1. PICK y : T \subseteq (S \ {x}) \cup {y}
    BY <2>0
  <2>2. IsFiniteSet(S \ {x}) /\ Cardinality(S \ {x}) = Cardinality(S) - 1
    BY <2>1, FS_RemoveElement
  <2>3. Cardinality(S \ {x}) \in Nat /\ Cardinality(S) \in Nat
    BY <2>2, FS_CardinalityType
  <2> DEFINE R == S \ {x}
             U == R \cup {y}
  <2>4. IsFiniteSet(U) /\ Cardinality(U) \in {Cardinality(R), Cardinality(R) + 1}
    BY <2>2, FS_AddElement
  <2>5. T \in SUBSET U
    BY <2>1
  <2> HIDE DEF U
  <2>6. IsFiniteSet(T) /\ Cardinality(T) <= Cardinality(U)
    BY <2>4, <2>5, FS_Subset
  <2>7. Cardinality(T) \in Nat
    BY <2>6, FS_CardinalityType
  <2>8. Cardinality(U) <= Cardinality(S) /\ Cardinality(U) \in Nat
    BY <2>2, <2>3, <2>4
  <2> QED BY <2>3, <2>6, <2>7, <2>8
<1> QED BY <1>1, <1>2

LEMMA OneMoreCounts ==
    ASSUME NEW S, IsFiniteSet(S), NEW y, NEW T \in SUBSET (S \cup {y})
    PROVE  IsFiniteSet(T) /\ Cardinality(T) <= Cardinality(S) + 1
<1> DEFINE U == S \cup {y}
<1>1. Cardinality(S) \in Nat
  BY FS_CardinalityType
<1>2. IsFiniteSet(U) /\ Cardinality(U) \in {Cardinality(S), Cardinality(S) + 1}
  BY FS_AddElement
<1>3. T \in SUBSET U
  OBVIOUS
<1> HIDE DEF U
<1>4. IsFiniteSet(T) /\ Cardinality(T) <= Cardinality(U)
  BY <1>2, <1>3, FS_Subset
<1>5. Cardinality(T) \in Nat
  BY <1>4, FS_CardinalityType
<1> QED BY <1>1, <1>2, <1>4, <1>5

\* One thing takes the place of another, or there are no more than there were.
Swapped(S, T) == T \subseteq S \/ \E x \in S : \E y : T \subseteq (S \ {x}) \cup {y}

\* The reply's place is taken by the request, the request's by the execution or
\* the image, the execution's by the image.
LEMMA TakesPlace ==
    ASSUME NEW A, NEW B, NEW C, NEW D, NEW A2, NEW B2, NEW C2, NEW D2, NEW e, NEW f,
           \/ A2 \subseteq A /\ B2 \subseteq B /\ C2 \subseteq C /\ D2 \subseteq D
           \/ /\ A2 \subseteq A /\ B2 \subseteq B /\ C2 \subseteq C \cup {f}
              /\ e \in D /\ D2 \subseteq D \ {e}
           \/ /\ A2 \subseteq A /\ B2 \subseteq B \cup {f} /\ D2 \subseteq D
              /\ e \in C /\ C2 \subseteq C \ {e}
           \/ /\ A2 \subseteq A \cup {f} /\ B2 \subseteq B /\ D2 \subseteq D
              /\ e \in C /\ C2 \subseteq C \ {e}
           \/ /\ A2 \subseteq A \cup {f} /\ C2 \subseteq C /\ D2 \subseteq D
              /\ e \in B /\ B2 \subseteq B \ {e}
    PROVE  Swapped(Tagged(A, B, C, D), Tagged(A2, B2, C2, D2))
<1> DEFINE S == Tagged(A, B, C, D)
           T == Tagged(A2, B2, C2, D2)
<1>1. CASE A2 \subseteq A /\ B2 \subseteq B /\ C2 \subseteq C /\ D2 \subseteq D
  <2>1. T \subseteq S
    BY <1>1 DEF Tagged
  <2> QED BY <2>1 DEF Swapped
<1>2. CASE /\ A2 \subseteq A /\ B2 \subseteq B /\ C2 \subseteq C \cup {f}
           /\ e \in D /\ D2 \subseteq D \ {e}
  <2>1. <<"claim", e>> \in S /\ T \subseteq (S \ {<<"claim", e>>}) \cup {<<"sent", f>>}
    BY <1>2 DEF Tagged
  <2> HIDE DEF S, T
  <2>2. Swapped(S, T)
    BY <2>1 DEF Swapped
  <2> QED BY <2>2 DEF S, T
<1>3. CASE /\ A2 \subseteq A /\ B2 \subseteq B \cup {f} /\ D2 \subseteq D
           /\ e \in C /\ C2 \subseteq C \ {e}
  <2>1. <<"sent", e>> \in S /\ T \subseteq (S \ {<<"sent", e>>}) \cup {<<"run", f>>}
    BY <1>3 DEF Tagged
  <2> HIDE DEF S, T
  <2>2. Swapped(S, T)
    BY <2>1 DEF Swapped
  <2> QED BY <2>2 DEF S, T
<1>4. CASE /\ A2 \subseteq A \cup {f} /\ B2 \subseteq B /\ D2 \subseteq D
           /\ e \in C /\ C2 \subseteq C \ {e}
  <2>1. <<"sent", e>> \in S /\ T \subseteq (S \ {<<"sent", e>>}) \cup {<<"image", f>>}
    BY <1>4 DEF Tagged
  <2> HIDE DEF S, T
  <2>2. Swapped(S, T)
    BY <2>1 DEF Swapped
  <2> QED BY <2>2 DEF S, T
<1>5. CASE /\ A2 \subseteq A \cup {f} /\ C2 \subseteq C /\ D2 \subseteq D
           /\ e \in B /\ B2 \subseteq B \ {e}
  <2>1. <<"run", e>> \in S /\ T \subseteq (S \ {<<"run", e>>}) \cup {<<"image", f>>}
    BY <1>5 DEF Tagged
  <2> HIDE DEF S, T
  <2>2. Swapped(S, T)
    BY <2>1 DEF Swapped
  <2> QED BY <2>2 DEF S, T
<1> QED BY <1>1, <1>2, <1>3, <1>4, <1>5

\* The jobs and their claims are those a restart would find.
SameBooks ==
    /\ ~lost /\ ~lost' /\ (api' = "down" => disk' # Torn)
    /\ DOMAIN Durable'.jobs = DOMAIN Durable.jobs
    /\ \A j \in DOMAIN Durable.jobs : Durable'.jobs[j].claims = Durable.jobs[j].claims

LEMMA DurableJobs ==
    ASSUME WorkerInv, Paid, ~lost
    PROVE  /\ Durable \in State /\ DOMAIN Durable.jobs \subseteq Nat \ {0}
           /\ \A j \in DOMAIN Durable.jobs : Durable.jobs[j].claims \in Nat
<1>1. Durable \in State
  BY DEF WorkerInv, TypeInv, StoreTypeOK, Paid, Durable
<1>2. PICK st \in State : st = Durable
  BY <1>1
<1>3. DOMAIN st.jobs = 1..Len(st.jobs) /\ \A j \in DOMAIN st.jobs : st.jobs[j] \in Job
  BY <1>2, JobAt
<1> QED BY <1>2, <1>3 DEF Job

LEMMA JobStaysPaid ==
    ASSUME WorkerInv, Paid, ~lost, NEW j \in DOMAIN Durable.jobs,
           Durable'.jobs[j].claims = Durable.jobs[j].claims, Swapped(Spent(j), Spent(j)')
    PROVE  IsFiniteSet(Spent(j)') /\ Cardinality(Spent(j)') <= Durable'.jobs[j].claims
<1>1. PICK S : S = Spent(j)
  OBVIOUS
<1>2. PICK T : T = Spent(j)'
  OBVIOUS
<1>3. IsFiniteSet(S) /\ Cardinality(S) <= Durable.jobs[j].claims
  BY <1>1 DEF Paid
<1>4. Swapped(S, T)
  BY <1>1, <1>2
<1>5. IsFiniteSet(T) /\ Cardinality(T) <= Cardinality(S)
  BY <1>3, <1>4, SwapCounts DEF Swapped
<1>6. Cardinality(S) \in Nat /\ Cardinality(T) \in Nat /\ Durable.jobs[j].claims \in Nat
  BY <1>3, <1>5, FS_CardinalityType, DurableJobs
<1> QED BY <1>2, <1>3, <1>5, <1>6

LEMMA PaidBySwaps ==
    ASSUME WorkerInv, Paid, SameBooks, \A j \in Nat \ {0} : Swapped(Spent(j), Spent(j)')
    PROVE  Paid'
<1>1. ~lost /\ DOMAIN Durable.jobs \subseteq Nat \ {0}
  BY DurableJobs DEF SameBooks
<1>2. \A j \in DOMAIN Durable.jobs :
          IsFiniteSet(Spent(j)') /\ Cardinality(Spent(j)') <= Durable'.jobs[j].claims
  BY <1>1, JobStaysPaid DEF SameBooks
<1>3. ASSUME NEW j \in Nat \ {0}, Spent(j)' # {}
      PROVE  Spent(j) # {}
  BY <1>3 DEF Swapped
<1> QED BY <1>2, <1>3 DEF Paid, SameBooks

\* How the parts of Spent follow from the variables.
LEMMA PartsKept ==
    /\ Durable' = Durable => \A j : ImagesOf(j)' = ImagesOf(j)
    /\ UNCHANGED runs => \A j : RunsOf(j)' = RunsOf(j)
    /\ UNCHANGED calls => \A j : SentOf(j)' = SentOf(j)
    /\ UNCHANGED pump => \A j : InHand(j)' = InHand(j)
BY DEF ImagesOf, RunsOf, SentOf, InHand

LEMMA PartsSwap ==
    ASSUME NEW j, NEW e, NEW f,
           LET A == ImagesOf(j)  A2 == ImagesOf(j)'
               B == RunsOf(j)    B2 == RunsOf(j)'
               C == SentOf(j)    C2 == SentOf(j)'
               D == InHand(j)    D2 == InHand(j)'
           IN  \/ A2 \subseteq A /\ B2 \subseteq B /\ C2 \subseteq C /\ D2 \subseteq D
               \/ /\ A2 \subseteq A /\ B2 \subseteq B /\ C2 \subseteq C \cup {f}
                  /\ e \in D /\ D2 \subseteq D \ {e}
               \/ /\ A2 \subseteq A /\ B2 \subseteq B \cup {f} /\ D2 \subseteq D
                  /\ e \in C /\ C2 \subseteq C \ {e}
               \/ /\ A2 \subseteq A \cup {f} /\ B2 \subseteq B /\ D2 \subseteq D
                  /\ e \in C /\ C2 \subseteq C \ {e}
               \/ /\ A2 \subseteq A \cup {f} /\ C2 \subseteq C /\ D2 \subseteq D
                  /\ e \in B /\ B2 \subseteq B \ {e}
    PROVE  Swapped(Spent(j), Spent(j)')
<1>1. PICK A, B, C, D : A = ImagesOf(j) /\ B = RunsOf(j) /\ C = SentOf(j) /\ D = InHand(j)
  OBVIOUS
<1>2. PICK A2, B2, C2, D2 : /\ A2 = ImagesOf(j)' /\ B2 = RunsOf(j)'
                            /\ C2 = SentOf(j)' /\ D2 = InHand(j)'
  OBVIOUS
<1>3. Swapped(Tagged(A, B, C, D), Tagged(A2, B2, C2, D2))
  BY <1>1, <1>2, TakesPlace
<1>4. Spent(j) = Tagged(A, B, C, D) /\ Spent(j)' = Tagged(A2, B2, C2, D2)
  BY <1>1, <1>2 DEF Spent
<1> QED BY <1>3, <1>4

LEMMA PumpDropsClaims ==
    ASSUME WorkerInv, NEW act
    PROVE  /\ PumpQueue(act) => \A j : InHand(j)' \subseteq InHand(j)
           /\ EndPump(act) \/ pump' = Asking(pump.pending) => \A j : InHand(j)' = {}
<1>1. StartPump(act) => \A j : InHand(j)' = {}
  BY DEF StartPump, Asking, PumpIdle, InHand
<1>2. pump' = PumpIdle \/ pump' = Asking(pump.pending) => \A j : InHand(j)' = {}
  BY DEF PumpIdle, Asking, InHand
<1>3. pump' = [pump EXCEPT !.pending = TRUE] => pump'.at = pump.at /\ pump'.job = pump.job
  BY DEF WorkerInv, WorkerTypes
<1>4. pump' = [pump EXCEPT !.pending = TRUE] => \A j : InHand(j)' = InHand(j)
  BY <1>3 DEF InHand
<1> QED BY <1>1, <1>2, <1>4 DEF PumpQueue, EndPump

LEMMA StoreUntouched ==
    ASSUME Paid, ~lost, UNCHANGED storeVars
    PROVE  SameBooks /\ Durable' = Durable /\ UNCHANGED runs
BY DEF Paid, SameBooks, storeVars, Durable

\* While the API is up and no job is created or claimed, the books are the same.
LEMMA UpSameBooks ==
    ASSUME WorkerInv, ~lost, api = "up", UNCHANGED <<api, lost>>,
           \/ state'.jobs = state.jobs
           \/ \E j \in Jobs : WritesJob(j) /\ state'.jobs[j].claims = state.jobs[j].claims
    PROVE  SameBooks
BY DEF SameBooks, Durable, WritesJob, Jobs

LEMMA FreeSlotPaid ==
    ASSUME WorkerInv, Paid, ~lost, NEW s \in Slot, FreeSlot(s)
    PROVE  Paid'
<1>1. /\ calls' = [calls EXCEPT ![s] = Idle] /\ PumpQueue(active \ {calls[s].job})
      /\ UNCHANGED storeVars
  BY DEF FreeSlot
<1>2. \A j : SentOf(j)' \subseteq SentOf(j)
  BY <1>1 DEF SentOf, WorkerInv, WorkerTypes
<1>3. \A j : InHand(j)' \subseteq InHand(j)
  BY <1>1, PumpDropsClaims
<1>4. SameBooks /\ \A j : ImagesOf(j)' = ImagesOf(j) /\ RunsOf(j)' = RunsOf(j)
  BY <1>1, StoreUntouched, PartsKept
<1> QED BY <1>2, <1>3, <1>4, PartsSwap, PaidBySwaps

LEMMA JobClaimedPaid ==
    ASSUME WorkerInv, Paid, ~lost, NEW s \in Slot, JobClaimed(s)
    PROVE  Paid'
<1>1. /\ pump.at = "answered"
      /\ calls' = [calls EXCEPT ![s] = [job |-> pump.job, at |-> "sent"]]
      /\ pump' = Asking(pump.pending) \/ EndPump(active \cup {pump.job})
      /\ UNCHANGED storeVars
  BY DEF JobClaimed
<1>2. SameBooks /\ \A j : ImagesOf(j)' = ImagesOf(j) /\ RunsOf(j)' = RunsOf(j)
  BY <1>1, StoreUntouched, PartsKept
<1>3. \A j : InHand(j)' = {}
  BY <1>1, PumpDropsClaims
<1>4. \A j : j # pump.job => SentOf(j)' \subseteq SentOf(j)
  BY <1>1 DEF SentOf, WorkerInv, WorkerTypes
<1>5. \A j : SentOf(j)' \subseteq SentOf(j) \cup {s}
  BY <1>1 DEF SentOf, WorkerInv, WorkerTypes
<1>6. 0 \in InHand(pump.job)
  BY <1>1 DEF InHand
<1>7. ASSUME NEW j \in Nat \ {0}
      PROVE  Swapped(Spent(j), Spent(j)')
  <2>1. CASE j = pump.job
    <3>1. 0 \in InHand(j) /\ InHand(j)' \subseteq InHand(j) \ {0}
      BY <1>3, <1>6, <2>1
    <3> QED BY <3>1, <1>2, <1>5, PartsSwap
  <2>2. CASE j # pump.job
    BY <2>2, <1>2, <1>3, <1>4, PartsSwap
  <2> QED BY <2>1, <2>2
<1> QED BY <1>2, <1>7, PaidBySwaps

LEMMA UpImages ==
    ASSUME api = "up", UNCHANGED api
    PROVE  /\ state'.images = state.images => \A j : ImagesOf(j)' = ImagesOf(j)
           /\ \A i, k, cut : state'.images = state.images \cup {[id |-> i, job |-> k, cut |-> cut]} =>
                  \A j : /\ ImagesOf(j)' \subseteq ImagesOf(j) \cup {[id |-> i, job |-> k, cut |-> cut]}
                         /\ j # k => ImagesOf(j)' \subseteq ImagesOf(j)
<1>1. Durable = state /\ Durable' = state'
  BY DEF Durable
<1>2. \A i, k, cut : [id |-> i, job |-> k, cut |-> cut].job = k
  OBVIOUS
<1> QED BY <1>1, <1>2 DEF ImagesOf

LEMMA AnsweredSpends ==
    ASSUME WorkerInv, NEW s \in Slot, calls[s] # Idle, Answered(s)
    PROVE  \A j : SentOf(j)' \subseteq SentOf(j) \ {s}
<1>1. PICK call \in Call : call.at # "sent" /\ calls' = [calls EXCEPT ![s] = call]
  BY AnsweredTypes
<1>2. \A t \in Slot : calls'[t] = IF t = s THEN call ELSE calls[t]
  BY <1>1 DEF WorkerInv, WorkerTypes
<1> QED BY <1>1, <1>2 DEF SentOf

LEMMA ExecuteArrivesPaid ==
    ASSUME WorkerInv, Paid, ~lost, NEW s \in Slot, ExecuteArrives(s)
    PROVE  Paid'
<1>1. /\ calls[s] # Idle /\ calls[s].at = "sent" /\ calls[s].job \in Nat
      /\ StartRun(s, calls[s].job) /\ Answered(s)
      /\ UNCHANGED <<pump, api, lost>> /\ api = "up"
  BY DEF ExecuteArrives, StartRun, WorkerInv, WorkerTypes, Call
<1>2. PICK k \in Nat : k = calls[s].job
  BY <1>1
<1>3. StoreTypeOK /\ runs \in [Slot -> Run \cup {Idle}]
  BY DEF WorkerInv, TypeInv, StoreTypeOK
<1>4. s \in SentOf(k) /\ \A j : SentOf(j)' \subseteq SentOf(j) \ {s} /\ InHand(j)' = InHand(j)
  BY <1>1, <1>2, AnsweredSpends, PartsKept DEF SentOf
<1>5. CASE ExecuteNothing(k) \/ ExecuteUnsupported(k)
  <2>1. state'.images = state.images /\ UNCHANGED runs
        /\ \/ state'.jobs = state.jobs
           \/ k \in Jobs /\ WritesJob(k) /\ state'.jobs[k].claims = state.jobs[k].claims
    BY <1>3, <1>5, SetStatusWrites DEF ExecuteNothing, ExecuteUnsupported, Statuses
  <2>2. SameBooks /\ \A j : ImagesOf(j)' = ImagesOf(j) /\ RunsOf(j)' = RunsOf(j)
    BY <1>1, <2>1, UpSameBooks, UpImages, PartsKept
  <2> QED BY <1>4, <2>2, PartsSwap, PaidBySwaps
<1>6. CASE ExecutePreview(k)
  <2>1. PICK i \in Nat, cut \in BOOLEAN :
            state'.images = state.images \cup {[id |-> i, job |-> k, cut |-> cut]}
    BY <1>3, <1>6, PreviewWrites
  <2>2. k \in Jobs /\ WritesJob(k) /\ state'.jobs[k].claims = state.jobs[k].claims /\ UNCHANGED runs
    BY <1>3, <1>6, PreviewWrites DEF ExecutePreview
  <2>3. SameBooks /\ \A j : RunsOf(j)' = RunsOf(j)
    BY <1>1, <2>2, UpSameBooks, PartsKept
  <2>4. \A j : /\ ImagesOf(j)' \subseteq ImagesOf(j) \cup {[id |-> i, job |-> k, cut |-> cut]}
               /\ j # k => ImagesOf(j)' \subseteq ImagesOf(j)
    BY <1>1, <2>1, UpImages
  <2>5. ASSUME NEW j \in Nat \ {0}
        PROVE  Swapped(Spent(j), Spent(j)')
    <3>1. CASE j = k
      BY <3>1, <1>4, <2>3, <2>4, PartsSwap
    <3>2. CASE j # k
      BY <3>2, <1>4, <2>3, <2>4, PartsSwap
    <3> QED BY <3>1, <3>2
  <2> QED BY <2>3, <2>5, PaidBySwaps
<1>7. CASE ExecuteProvider(s, k)
  <2>1. PICK i \in Nat : i = state.imageCounter + 1
    BY <1>3 DEF StoreTypeOK, State
  <2>2. state'.images = state.images /\ state'.jobs = state.jobs
        /\ runs' = [runs EXCEPT ![s] = [job |-> k, stage |-> "provider", image |-> i, cut |-> FALSE]]
    BY <1>3, <1>7, <2>1, NextImageIdWrites DEF ExecuteProvider
  <2>3. SameBooks /\ \A j : ImagesOf(j)' = ImagesOf(j)
    BY <1>1, <2>2, UpSameBooks, UpImages
  <2>4. \A j : /\ RunsOf(j)' \subseteq RunsOf(j) \cup {s}
               /\ j # k => RunsOf(j)' \subseteq RunsOf(j)
    BY <1>3, <2>2 DEF RunsOf
  <2>5. ASSUME NEW j \in Nat \ {0}
        PROVE  Swapped(Spent(j), Spent(j)')
    <3>1. CASE j = k
      BY <3>1, <1>4, <2>3, <2>4, PartsSwap
    <3>2. CASE j # k
      BY <3>2, <1>4, <2>3, <2>4, PartsSwap
    <3> QED BY <3>1, <3>2
  <2> QED BY <2>3, <2>5, PaidBySwaps
<1> QED BY <1>1, <1>2, <1>5, <1>6, <1>7 DEF StartRun

LEMMA ResumePaid ==
    ASSUME WorkerInv, Paid, ~lost, NEW s \in Slot, Resume(s)
    PROVE  Paid'
<1>1. /\ ResumeRun(s) /\ runs[s] # Idle /\ api = "up" /\ UNCHANGED <<pump, api, lost>>
      /\ (calls[s] # Idle /\ Answered(s)) \/ UNCHANGED calls
  BY DEF Resume, ResumeRun
<1>2. StoreTypeOK /\ runs \in [Slot -> Run \cup {Idle}]
  BY DEF WorkerInv, TypeInv, StoreTypeOK
<1>3. runs[s] \in Run /\ runs[s].job \in Jobs
  BY <1>1, <1>2 DEF WorkerInv, TypeInv, RunsAreOfJobs
<1>4. PICK k \in Jobs : k = runs[s].job
  BY <1>3
<1>5. s \in RunsOf(k)
  BY <1>1, <1>4 DEF RunsOf
<1>6. \A j : SentOf(j)' \subseteq SentOf(j) /\ InHand(j)' = InHand(j)
  BY <1>1, AnsweredSpends, PartsKept
<1>7. EndRun(s) => \A j : RunsOf(j)' \subseteq RunsOf(j) \ {s}
  BY <1>2 DEF EndRun, RunsOf
<1>8. CASE HonorCancellation(s) \/ FailRun(s)
  <2>1. EndRun(s) /\ state'.images = state.images
        /\ \/ state'.jobs = state.jobs
           \/ WritesJob(k) /\ state'.jobs[k].claims = state.jobs[k].claims
    BY <1>2, <1>4, <1>8, SetStatusWrites DEF HonorCancellation, FailRun, Statuses
  <2>2. SameBooks /\ \A j : ImagesOf(j)' = ImagesOf(j)
    BY <1>1, <1>4, <2>1, UpSameBooks, UpImages
  <2> QED BY <1>6, <1>7, <2>1, <2>2, PartsSwap, PaidBySwaps
<1>9. CASE PublishImage(s)
  <2>1. PICK i \in Nat, cut \in BOOLEAN : i = runs[s].image /\ cut = runs[s].cut
    BY <1>3 DEF Run
  <2>2. EndRun(s) /\ state' = Published(state, k, i, cut) /\ state \in State
    BY <1>2, <1>4, <1>9, <2>1 DEF PublishImage, StoreTypeOK
  <2>3. /\ WritesJob(k) /\ state'.jobs[k].claims = state.jobs[k].claims
        /\ state'.images = state.images \cup {[id |-> i, job |-> k, cut |-> cut]}
    BY <1>4, <2>1, <2>2, PublishedWrites DEF Jobs, WritesJob
  <2>4. SameBooks /\ \A j : RunsOf(j)' \subseteq RunsOf(j) \ {s}
    BY <1>1, <1>4, <1>7, <2>2, <2>3, UpSameBooks
  <2>5. \A j : /\ ImagesOf(j)' \subseteq ImagesOf(j) \cup {[id |-> i, job |-> k, cut |-> cut]}
               /\ j # k => ImagesOf(j)' \subseteq ImagesOf(j)
    BY <1>1, <2>3, UpImages
  <2>6. ASSUME NEW j \in Nat \ {0}
        PROVE  Swapped(Spent(j), Spent(j)')
    <3>1. CASE j = k
      <4>1. s \in RunsOf(j) /\ RunsOf(j)' \subseteq RunsOf(j) \ {s}
        BY <1>5, <2>4, <3>1
      <4>2. SentOf(j)' \subseteq SentOf(j) /\ InHand(j)' \subseteq InHand(j)
            /\ ImagesOf(j)' \subseteq ImagesOf(j) \cup {[id |-> i, job |-> k, cut |-> cut]}
        BY <1>6, <2>5
      <4> QED BY <4>1, <4>2, PartsSwap
    <3>2. CASE j # k
      BY <3>2, <1>6, <2>4, <2>5, PartsSwap
    <3> QED BY <3>1, <3>2
  <2> QED BY <2>4, <2>6, PaidBySwaps
<1>10. CASE StartCaching(s)
  <2>1. /\ UNCHANGED state /\ runs' = [runs EXCEPT ![s] = [runs[s] EXCEPT !.stage = "caching"]]
        /\ [runs[s] EXCEPT !.stage = "caching"].job = runs[s].job
    BY <1>3, <1>10 DEF StartCaching, Run
  <2>2. SameBooks /\ \A j : ImagesOf(j)' = ImagesOf(j)
    BY <1>1, <2>1, UpSameBooks, UpImages
  <2>3. \A j : RunsOf(j)' \subseteq RunsOf(j)
    BY <1>1, <1>2, <2>1 DEF RunsOf
  <2> QED BY <1>6, <2>2, <2>3, PartsSwap, PaidBySwaps
<1> QED BY <1>1, <1>8, <1>9, <1>10 DEF ResumeRun

LEMMA ClaimArrivesPaid ==
    ASSUME WorkerInv, Paid, ~lost, ClaimArrives
    PROVE  Paid'
<1>1. pump.at = "asked" /\ api = "up" /\ UNCHANGED calls
  BY DEF ClaimArrives
<1>2. \A k, j : ClaimAnswered(k) /\ j # k => InHand(j)' = {}
  BY DEF ClaimAnswered, InHand, WorkerInv, WorkerTypes
<1>3. CASE ClaimAnswered(0) /\ UNCHANGED storeVars
  <2>1. SameBooks /\ \A j : /\ ImagesOf(j)' = ImagesOf(j) /\ RunsOf(j)' = RunsOf(j)
                            /\ SentOf(j)' = SentOf(j)
    BY <1>1, <1>3, StoreUntouched, PartsKept
  <2>2. \A j \in Nat \ {0} : InHand(j)' = {}
    BY <1>2, <1>3
  <2> QED BY <2>1, <2>2, PartsSwap, PaidBySwaps
<1>4. CASE \E k \in Jobs : ClaimNext(k) /\ ClaimAnswered(k)
  <2>1. PICK k \in Jobs : ClaimNext(k) /\ ClaimAnswered(k)
    BY <1>4
  <2>2. /\ WritesJob(k) /\ state'.jobs[k].claims = state.jobs[k].claims + 1
        /\ state'.images = state.images /\ UNCHANGED <<api, lost, runs>>
    BY <2>1, ClaimWrites DEF WorkerInv, TypeInv, ClaimNext
  <2>3. \A j : ImagesOf(j)' = ImagesOf(j) /\ RunsOf(j)' = RunsOf(j) /\ SentOf(j)' = SentOf(j)
    BY <1>1, <2>2, UpImages, PartsKept
  <2>4. /\ Durable = state /\ Durable' = state' /\ DOMAIN state'.jobs = Jobs
        /\ Jobs = DOMAIN Durable.jobs
        /\ \A j \in Jobs : j # k => state'.jobs[j].claims = state.jobs[j].claims
    BY <1>1, <2>2 DEF Durable, Jobs, WritesJob
  <2>5. \A j : j # k => Swapped(Spent(j), Spent(j)')
    BY <1>2, <2>1, <2>3, PartsSwap
  <2>6. \A j \in Jobs : j # k =>
            IsFiniteSet(Spent(j)') /\ Cardinality(Spent(j)') <= Durable'.jobs[j].claims
    BY <2>4, <2>5, JobStaysPaid
  <2>7. IsFiniteSet(Spent(k)') /\ Cardinality(Spent(k)') <= Durable'.jobs[k].claims
    <3>1. PICK S : S = Spent(k)
      OBVIOUS
    <3>2. PICK T : T = Spent(k)'
      OBVIOUS
    <3>3. T \in SUBSET (S \cup {<<"claim", 0>>})
      <4>1. InHand(k)' \subseteq {0}
        BY DEF InHand
      <4> QED BY <2>3, <3>1, <3>2, <4>1 DEF Spent, Tagged
    <3>4. IsFiniteSet(S) /\ Cardinality(S) <= Durable.jobs[k].claims
      BY <2>1, <2>4, <3>1 DEF Paid
    <3>5. IsFiniteSet(T) /\ Cardinality(T) <= Cardinality(S) + 1
      BY <3>3, <3>4, OneMoreCounts
    <3>6. Cardinality(S) \in Nat /\ Cardinality(T) \in Nat /\ Durable.jobs[k].claims \in Nat
      BY <2>1, <2>4, <3>4, <3>5, FS_CardinalityType, DurableJobs
    <3> QED BY <2>2, <2>4, <3>2, <3>4, <3>5, <3>6
  <2>8. \A j \in Nat \ {0} : Spent(j)' # {} => j \in Jobs
    <3>1. \A j \in Nat \ {0} : Spent(j) # {} => j \in Jobs
      BY <2>4 DEF Paid
    <3> QED BY <2>1, <2>5, <3>1 DEF Swapped
  <2>9. api' # "down"
    BY <1>1, <2>2
  <2> QED BY <2>4, <2>6, <2>7, <2>8, <2>9 DEF Paid
<1> QED BY <1>3, <1>4 DEF ClaimArrives

LEMMA CreatePaid ==
    ASSUME WorkerInv, Paid, ~lost, NEW kind \in JobKinds, Create(kind), UNCHANGED <<pump, calls>>
    PROVE  Paid'
<1>1. api = "up" /\ UNCHANGED <<api, lost, runs>>
  BY DEF Create
<1>2. PICK job \in Job : /\ job.claims = 0
                         /\ Jobs' = Jobs \cup {Len(state.jobs) + 1}
                         /\ Len(state.jobs) \in Nat /\ Jobs = 1..Len(state.jobs)
                         /\ state'.images = state.images
                         /\ state'.jobs[Len(state.jobs) + 1] = job
                         /\ \A j \in Jobs : state'.jobs[j] = state.jobs[j]
  BY Created DEF WorkerInv
<1>3. PICK n \in Nat \ {0} : n = Len(state.jobs) + 1
  BY <1>2
<1>4. /\ Durable = state /\ Durable' = state' /\ DOMAIN Durable'.jobs = Jobs \cup {n}
      /\ Jobs = DOMAIN Durable.jobs /\ n \notin Jobs
  BY <1>1, <1>2, <1>3 DEF Durable, Jobs
<1>5. \A j : Swapped(Spent(j), Spent(j)')
  BY <1>1, <1>2, UpImages, PartsKept, PartsSwap
<1>6. \A j \in Jobs : IsFiniteSet(Spent(j)') /\ Cardinality(Spent(j)') <= Durable'.jobs[j].claims
  BY <1>2, <1>4, <1>5, JobStaysPaid
<1>7. \A j \in Nat \ {0} : Spent(j)' # {} => j \in Jobs
  <2>1. \A j \in Nat \ {0} : Spent(j) # {} => j \in Jobs
    BY <1>4 DEF Paid
  <2> QED BY <1>5, <2>1 DEF Swapped
<1>8. IsFiniteSet(Spent(n)') /\ Cardinality(Spent(n)') <= Durable'.jobs[n].claims
  <2>1. PICK T : T = Spent(n)'
    OBVIOUS
  <2>2. T = {}
    BY <1>4, <1>7, <2>1
  <2>3. IsFiniteSet(T) /\ Cardinality(T) = 0
    BY <2>2, FS_EmptySet
  <2>4. Durable'.jobs[n] = job
    BY <1>2, <1>3, <1>4
  <2>5. Durable'.jobs[n].claims = 0
    BY <1>2, <2>4
  <2> QED BY <2>1, <2>3, <2>5
<1> QED BY <1>1, <1>4, <1>6, <1>7, <1>8 DEF Paid

LEMMA OperatorPaid ==
    ASSUME WorkerInv, Paid, ~lost, Operator
    PROVE  Paid'
<1>1. UNCHANGED <<pump, calls>> /\ StoreTypeOK
  BY DEF Operator, WorkerInv, TypeInv
<1>2. CASE \E k \in JobKinds : Create(k)
  BY <1>1, <1>2, CreatePaid
<1>3. CASE \E j \in Jobs : Cancel(j) \/ Retry(j)
  <2>1. PICK k \in Jobs : Cancel(k) \/ Retry(k)
    BY <1>3
  <2>2. /\ WritesJob(k) /\ state'.jobs[k].claims = state.jobs[k].claims
        /\ state'.images = state.images /\ api = "up" /\ UNCHANGED <<api, lost>>
    BY <1>1, <2>1, SetStatusWrites DEF Cancel, Retry, Statuses
  <2>3. \A j : RunsOf(j)' \subseteq RunsOf(j)
    BY <2>1 DEF Cancel, Retry, RunsOf, WorkerInv, TypeInv, StoreTypeOK, Run
  <2>4. SameBooks /\ \A j : /\ ImagesOf(j)' = ImagesOf(j) /\ SentOf(j)' = SentOf(j)
                            /\ InHand(j)' = InHand(j)
    BY <1>1, <2>2, UpSameBooks, UpImages, PartsKept
  <2> QED BY <2>3, <2>4, PartsSwap, PaidBySwaps
<1>4. CASE CacheImage
  <2>1. state'.jobs = state.jobs /\ state'.images = state.images /\ api = "up"
        /\ UNCHANGED <<api, lost, runs>>
    BY <1>4 DEF CacheImage
  <2>2. SameBooks /\ \A j : /\ ImagesOf(j)' = ImagesOf(j) /\ SentOf(j)' = SentOf(j)
                            /\ InHand(j)' = InHand(j) /\ RunsOf(j)' = RunsOf(j)
    BY <1>1, <2>1, UpSameBooks, UpImages, PartsKept
  <2> QED BY <2>2, PartsSwap, PaidBySwaps
<1> QED BY <1>2, <1>3, <1>4 DEF Operator

\* A crash that loses nothing leaves the file to go on from.
LEMMA ProcessPaid ==
    ASSUME WorkerInv, Told, Paid, ~lost, ~lost', Process
    PROVE  Paid'
<1>1. UNCHANGED <<pump, calls>>
  BY DEF Process
<1>2. CASE Crash
  <2>1. api = "up" /\ api' = "down" /\ UNCHANGED disk /\ \A s \in Slot : runs'[s] = Idle
    BY <1>2 DEF Crash
  <2>2. /\ disk # Torn /\ disk.images = state.images /\ DOMAIN disk.jobs = DOMAIN state.jobs
        /\ \A j \in DOMAIN state.jobs : disk.jobs[j].claims = state.jobs[j].claims
    BY <2>1 DEF Told, SavedInv, Holds, Jobs
  <2>3. Durable = state /\ Durable' = disk
    BY <2>1 DEF Durable
  <2>4. SameBooks /\ \A j : ImagesOf(j)' = ImagesOf(j) /\ RunsOf(j)' = {}
    BY <2>1, <2>2, <2>3 DEF SameBooks, ImagesOf, RunsOf
  <2> QED BY <1>1, <2>4, PartsKept, PartsSwap, PaidBySwaps
<1>3. CASE LoadFound \/ LoadSave
  <2>1. Durable' = Durable /\ api' # "down" /\ UNCHANGED runs
    BY <1>3 DEF LoadFound, LoadSave, Durable
  <2>2. SameBooks /\ \A j : ImagesOf(j)' = ImagesOf(j) /\ RunsOf(j)' = RunsOf(j)
    BY <2>1, PartsKept DEF SameBooks
  <2> QED BY <1>1, <2>2, PartsKept, PartsSwap, PaidBySwaps
<1>4. CASE LoadUnreadable
  BY <1>4 DEF LoadUnreadable, Paid
<1> QED BY <1>2, <1>3, <1>4 DEF Process

LEMMA StepPaid == WorkerInv /\ Told /\ Paid /\ [Next]_vars => Paid'
<1> SUFFICES ASSUME WorkerInv, Told, Paid, [Next]_vars, ~lost'
             PROVE  Paid'
  BY DEF Paid
<1>1. ~lost
  <2>1. lost => lost'
    BY StepOfStore DEF StoreNext, Create, Cancel, Retry, ClaimNext, CacheImage, ResumeRun, StartRun,
       Crash, LoadFound, LoadSave, LoadUnreadable, storeVars
  <2> QED BY <2>1
<1>2. UNCHANGED <<storeVars, calls>> /\ (\A j : InHand(j)' \subseteq InHand(j)) => Paid'
  BY <1>1, StoreUntouched, PartsKept, PartsSwap, PaidBySwaps
<1>3. CASE UNCHANGED vars
  BY <1>2, <1>3, PartsKept DEF vars
<1>4. CASE Poll
  BY <1>2, <1>4, PumpDropsClaims DEF Poll
<1>5. CASE NothingToClaim \/ ClaimLost
  BY <1>2, <1>5, PumpDropsClaims DEF NothingToClaim, ClaimLost
<1>6. CASE \E s \in Slot : JobClaimed(s)
  BY <1>1, <1>6, JobClaimedPaid
<1>7. CASE \E s \in Slot : Executes(s)
  BY <1>1, <1>7, ExecuteArrivesPaid, ResumePaid, FreeSlotPaid DEF Executes, ExecuteHeard, ExecuteLost
<1> QED BY <1>1, <1>3, <1>4, <1>5, <1>6, <1>7, ClaimArrivesPaid, OperatorPaid, ProcessPaid
        DEF Next, Claims

\* A job yields at most one image for each time it was claimed, though replies
\* are lost, executions outlive retries and the API restarts with its file.
THEOREM ForgeOneImagePerClaim == Spec => []OneImagePerClaim
<1>1. Init => Paid
  <2> SUFFICES ASSUME Init
               PROVE  Paid
    OBVIOUS
  <2>1. Durable = EmptyState /\ DOMAIN Durable.jobs = {} /\ api = "up"
    BY DEF Init, StoreInit, Durable, EmptyState
  <2>2. \A j : ImagesOf(j) = {} /\ RunsOf(j) = {} /\ SentOf(j) = {} /\ InHand(j) = {}
    BY <2>1 DEF Init, StoreInit, EmptyState, PumpIdle, ImagesOf, RunsOf, SentOf, InHand
  <2>3. \A j : Spent(j) = {}
    BY <2>2 DEF Spent, Tagged
  <2> QED BY <2>1, <2>3 DEF Paid
<1>2. WorkerInv /\ Paid => OneImagePerClaim
  <2> SUFFICES ASSUME WorkerInv, Paid, ~lost, NEW j \in Jobs
               PROVE  Cardinality({i \in state.images : i.job = j}) <= state.jobs[j].claims
    BY DEF OneImagePerClaim
  <2>1. Durable = state
    BY DEF Durable, WorkerInv, TypeInv, DownIsEmpty, EmptyState, Jobs
  <2>2. PICK I : I = {i \in state.images : i.job = j}
    OBVIOUS
  <2>3. I = ImagesOf(j)
    BY <2>1, <2>2 DEF ImagesOf
  <2>4. PICK S : S = Spent(j)
    OBVIOUS
  <2>5. IsFiniteSet(S) /\ Cardinality(S) <= state.jobs[j].claims /\ state.jobs[j].claims \in Nat
    BY <2>1, <2>4, DurableJobs DEF Paid, Jobs
  <2> DEFINE tag == [i \in I |-> <<"image", i>>]
  <2>6. tag \in Injection(I, S)
    <3>1. \A i \in I : <<"image", i>> \in S
      BY <2>3, <2>4 DEF Spent, Tagged
    <3> QED BY <3>1 DEF Injection, IsInjective
  <2>7. IsFiniteSet(I) /\ Cardinality(I) <= Cardinality(S)
    BY <2>5, <2>6, FS_Injection
  <2>8. Cardinality(I) \in Nat /\ Cardinality(S) \in Nat
    BY <2>5, <2>7, FS_CardinalityType
  <2> QED BY <2>2, <2>5, <2>7, <2>8
<1> QED BY <1>1, <1>2, InitWorker, StepWorker, StepPaid, ForgeWorkerServesStore, StoreTold, PTL
        DEF Spec
=============================================================================
