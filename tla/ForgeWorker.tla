----------------------------- MODULE ForgeWorker -----------------------------
(***************************************************************************)
(* The Cosmic Forge worker and the store it works for.  The worker is one  *)
(* process: pumpQueue claims jobs over HTTP while fewer than               *)
(* MAX_CONCURRENCY are active and starts an execute request for each; a    *)
(* timer and the end of every execution call pumpQueue again.  A request   *)
(* or its reply may be lost; the API then goes on with what it was asked.  *)
(***************************************************************************)
EXTENDS ForgeStore

CONSTANTS
    MaxConcurrency, \* MAX_CONCURRENCY
    MaxFaults       \* bound: requests or replies lost while the API is up

VARIABLES
    pump,       \* pumpInProgress, where its claim request stands, pumpPending
    active,     \* currentActiveJobIds, a set as addActiveJob keeps it
    calls,      \* execute requests the worker waits for, by slot
    overlapped, \* a job was claimed while it was active: history
    faults      \* requests or replies lost so far

vars == <<storeVars, pump, active, calls, overlapped, faults>>

PumpIdle == [at |-> "idle", job |-> 0, pending |-> FALSE]

Call == [job : Nat, at : {"sent", "executing", "answered"}]

ASSUME ConcurrencyAssumption ==
    MaxConcurrency \in Nat \ {0} /\ MaxFaults \in Nat /\ Idle \notin Call

Init ==
    /\ StoreInit
    /\ pump = PumpIdle
    /\ active = {}
    /\ calls = [s \in Slot |-> Idle]
    /\ overlapped = FALSE
    /\ faults = 0

Asking(pending) == [at |-> "asked", job |-> 0, pending |-> pending]

\* Mutated form: one claim too many.
StartPumpAtLimit(act) ==
    pump' = IF Cardinality(act) <= MaxConcurrency THEN Asking(FALSE) ELSE PumpIdle

\* pumpQueue when none is in progress; act is what is then active.
StartPump(act) ==
    pump' = IF Cardinality(act) < MaxConcurrency THEN Asking(FALSE) ELSE PumpIdle

PumpQueue(act) ==
    IF pump.at = "idle" THEN StartPump(act) ELSE pump' = [pump EXCEPT !.pending = TRUE]

\* pumpQueue's finally: a call that came meanwhile starts it again.
EndPump(act) == IF pump.pending THEN StartPump(act) ELSE pump' = PumpIdle

Poll ==
    /\ PumpQueue(active)
    /\ UNCHANGED <<storeVars, active, calls, overlapped, faults>>

-----------------------------------------------------------------------------
(* claimNextJob, over HTTP.                                                *)

ClaimAnswered(j) == pump' = [pump EXCEPT !.at = "answered", !.job = j]

ClaimArrives ==
    /\ api = "up"
    /\ pump.at = "asked"
    /\ \/ \E j \in Jobs : ClaimNext(j) /\ ClaimAnswered(j)
       \/ Queued = {} /\ ClaimAnswered(0) /\ UNCHANGED storeVars
    /\ UNCHANGED <<active, calls, overlapped, faults>>

NothingToClaim ==
    /\ pump.at = "answered" /\ pump.job = 0
    /\ EndPump(active)
    /\ UNCHANGED <<storeVars, active, calls, overlapped, faults>>

\* The execution starts and the loop goes round in one piece.
JobClaimed(s) ==
    LET j == pump.job
        act == active \cup {j}
    IN /\ pump.at = "answered" /\ j # 0
       /\ calls[s] = Idle /\ runs[s] = Idle
       /\ calls' = [calls EXCEPT ![s] = [job |-> j, at |-> "sent"]]
       /\ active' = act
       /\ overlapped' = (overlapped \/ j \in active)
       /\ IF Cardinality(act) < MaxConcurrency THEN pump' = Asking(pump.pending)
                                               ELSE EndPump(act)
       /\ UNCHANGED <<storeVars, faults>>

\* Mutated form: without the finally pumpInProgress is never cleared.
ClaimLostInProgress ==
    /\ pump.at \in {"asked", "answered"}
    /\ \/ pump.at = "asked" /\ api # "up" /\ UNCHANGED faults
       \/ faults < MaxFaults /\ faults' = faults + 1
    /\ pump' = [pump EXCEPT !.at = "inProgress"]
    /\ UNCHANGED <<storeVars, active, calls, overlapped>>

\* The claim request fails.  If only its reply was lost the job stays RUNNING.
ClaimLost ==
    /\ pump.at \in {"asked", "answered"}
    /\ \/ pump.at = "asked" /\ api # "up" /\ UNCHANGED faults
       \/ faults < MaxFaults /\ faults' = faults + 1
    /\ EndPump(active)
    /\ UNCHANGED <<storeVars, active, calls, overlapped>>

-----------------------------------------------------------------------------
(* executeJob, over HTTP.                                                  *)

Answered(s) == calls' = [calls EXCEPT ![s].at = IF runs'[s] = Idle THEN "answered"
                                                ELSE "executing"]

ExecuteArrives(s) ==
    /\ calls[s] # Idle /\ calls[s].at = "sent"
    /\ StartRun(s, calls[s].job)
    /\ Answered(s)
    /\ UNCHANGED <<pump, active, overlapped, faults>>

Resume(s) ==
    /\ ResumeRun(s)
    /\ IF calls[s] = Idle THEN UNCHANGED calls ELSE Answered(s)
    /\ UNCHANGED <<pump, active, overlapped, faults>>

\* executeJob's finally.
FreeSlot(s) ==
    /\ calls' = [calls EXCEPT ![s] = Idle]
    /\ active' = active \ {calls[s].job}
    /\ PumpQueue(active \ {calls[s].job})
    /\ UNCHANGED <<storeVars, overlapped>>

ExecuteHeard(s) ==
    /\ calls[s] # Idle /\ calls[s].at = "answered"
    /\ FreeSlot(s)
    /\ UNCHANGED faults

\* Mutated form: a lost execute request is sent again.
ExecuteLostAgain(s) ==
    /\ calls[s] # Idle
    /\ faults < MaxFaults /\ faults' = faults + 1
    /\ \E t \in Slot :
          /\ calls[t] = Idle /\ runs[t] = Idle
          /\ calls' = [calls EXCEPT ![s] = Idle,
                                   ![t] = [job |-> calls[s].job, at |-> "sent"]]
    /\ UNCHANGED <<storeVars, pump, active, overlapped>>

\* The connection is refused, ended by a crash of the API, or lost.
ExecuteLost(s) ==
    /\ calls[s] # Idle
    /\ \/ calls[s].at = "sent" /\ api # "up" /\ UNCHANGED faults
       \/ calls[s].at = "executing" /\ runs[s] = Idle /\ UNCHANGED faults
       \/ faults < MaxFaults /\ faults' = faults + 1
    /\ FreeSlot(s)

-----------------------------------------------------------------------------

Operator ==
    /\ \/ \E k \in JobKinds : Create(k)
       \/ \E j \in Jobs : Cancel(j) \/ Retry(j)
       \/ CacheImage
    /\ UNCHANGED <<pump, active, calls, overlapped, faults>>

Process ==
    /\ Crash \/ LoadFound \/ LoadSave \/ LoadUnreadable
    /\ UNCHANGED <<pump, active, calls, overlapped, faults>>

Claims == ClaimArrives \/ NothingToClaim \/ ClaimLost \/ \E s \in Slot : JobClaimed(s)

Executes(s) == ExecuteArrives(s) \/ Resume(s) \/ ExecuteHeard(s) \/ ExecuteLost(s)

Next == Operator \/ Process \/ Poll \/ Claims \/ \E s \in Slot : Executes(s)

\* The timer fires again and again, a request or its loss is noticed, and a
\* provider is given 15 seconds.  That caching an image ends rests on fetch's own
\* limits and on a FITS renderer that ends: neither has a timeout in the code.
\* Nothing restarts the API and nobody need ask anything of it.
Fairness ==
    /\ WF_vars(Poll)
    /\ WF_vars(Claims)
    /\ \A s \in Slot : WF_vars(Executes(s))

Spec == Init /\ [][Next]_vars /\ Fairness

-----------------------------------------------------------------------------

Waiting == {s \in Slot : calls[s] # Idle}

TypeOK ==
    /\ StoreTypeOK
    /\ pump \in [at : {"idle", "asked", "answered"}, job : Nat, pending : BOOLEAN]
    /\ active \subseteq Nat
    /\ calls \in [Slot -> Call \cup {Idle}]
    /\ overlapped \in BOOLEAN
    /\ faults \in 0..MaxFaults

\* The worker has at most MAX_CONCURRENCY executions in progress, however its
\* timer, the ends of executions and its claims interleave, unless a job was
\* claimed again while an execution of it was still in progress.
BoundedConcurrency ==
    /\ Cardinality(active) <= MaxConcurrency
    /\ overlapped \/ Cardinality(Waiting) <= MaxConcurrency

\* While the API stays up every queued job is taken from the queue, whatever
\* claims and replies are lost.
QueuedIsClaimed ==
    \A j \in 1..MaxJobs :
        (j \in Jobs /\ StatusOf(j) = "QUEUED")
            ~> (api # "up" \/ j \notin Jobs \/ StatusOf(j) # "QUEUED")

\* With no request lost and the API up a job the worker was given is finished
\* or cancelled; nothing but its own worker ever takes a RUNNING job up.
RunningEnds ==
    \A j \in 1..MaxJobs :
        (j \in Jobs /\ StatusOf(j) = "RUNNING")
            ~> (crashes > 0 \/ faults > 0 \/ j \notin Jobs \/ StatusOf(j) # "RUNNING")

=============================================================================
