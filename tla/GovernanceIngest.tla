-------------------------- MODULE GovernanceIngest --------------------------
(***************************************************************************)
(* Governance turns broker messages into jobs: a Kafka, a Pulsar and a     *)
(* RabbitMQ listener, one thread each, call process, which validates a     *)
(* message, claims its request id in Redis, submits a job and gives it a   *)
(* lifetime.  What fails goes to the dead letters of its broker.  A        *)
(* message is delivered until it is acknowledged, so a restart repeats it; *)
(* operators submit jobs with the same request ids over HTTP meanwhile.    *)
(* Left out: the end of a job whose TTL is over, the set of request ids    *)
(* from before the window, a service without Redis or a window, and Redis  *)
(* failures other than of the claim and of the record's first write.       *)
(***************************************************************************)
EXTENDS Naturals, Sequences, FiniteSets

CONSTANTS
    Message,        \* broker messages and the submissions of operators
    From,           \* [Message -> Thread]
    IdOf,           \* [Message -> Id], NoId for a message without requestId
    NoId,
    Fates,          \* sets of fates a message may have
    NoMessage,
    MaxFaults,      \* bound: restarts, Redis and broker failures, claims gone
    MaxJobs         \* bound on the jobs submitted

Broker == {"kafka", "pulsar", "rabbit"}
Thread == Broker \cup {"api"}
\* What becomes of a message: it is accepted, fails validation, or makes
\* submit throw (a null value Map.copyOf refuses) before or after the record
\* is stored; or it was never sent.
Fate == {"good", "invalid", "thrown", "late", "unsent"}

ASSUME IngestAssumption ==
    /\ From \in [Message -> Thread] /\ NoMessage \notin Message
    /\ Fates \subseteq [Message -> Fate]
    /\ \A f \in Fates, m \in Message : From[m] = "api" => f[m] # "invalid"
    /\ MaxFaults \in Nat /\ MaxJobs \in Nat

Id == {IdOf[m] : m \in Message} \ {NoId}

VARIABLES
    fate,       \* of each message, which does not change
    createJobs, \* governance.ingest.create-jobs
    waiting,    \* messages their broker has not had acknowledged
    thread,     \* per thread, its message and how far it is
    claims,     \* keys job:requestid:<id>
    memory,     \* inMemoryRequestIds
    jobs,       \* per job submitted, of which message and whether it has a TTL
    deadLetters,
    swallowed,  \* messages acknowledged as duplicates: history
    dropped,    \* messages acknowledged though no dead letter was written: history
    burnt,      \* ids claimed by an attempt that stored no job: history
    unrecorded, \* messages whose job's record Redis threw at: history
    troubled,   \* a claim failed, expired or was swept: history
    faults      \* what MaxFaults counts, so far

history == <<swallowed, dropped, burnt, unrecorded, troubled>>
vars == <<fate, createJobs, waiting, thread, claims, memory, jobs, deadLetters, history, faults>>

Idle == [of |-> NoMessage, at |-> "idle"]

Sent == {m \in Message : fate[m] # "unsent"}

Init ==
    /\ fate \in Fates /\ createJobs \in BOOLEAN
    /\ waiting = Sent /\ thread = [t \in Thread |-> Idle]
    /\ claims = {} /\ memory = {} /\ jobs = <<>> /\ deadLetters = {}
    /\ swallowed = {} /\ dropped = {} /\ burnt = {} /\ unrecorded = {}
    /\ troubled = FALSE
    /\ faults = 0

Fault == faults < MaxFaults /\ faults' = faults + 1

At(t, where) == thread[t].at = where
Goes(t, where) == thread' = [thread EXCEPT ![t].at = where]
Current(t) == thread[t].of
IdAt(t) == IdOf[Current(t)]

-----------------------------------------------------------------------------
(* process.                                                                *)

\* An accepted message becomes a job if governance is told to create them.
Onwards == IF createJobs THEN "submit" ELSE "done"

\* Parse and validate.
\* Mutated form: the id is claimed first.
TakeAndClaim(t, m) ==
    /\ At(t, "idle") /\ m \in waiting /\ From[m] = t
    /\ thread' = [thread EXCEPT ![t] = [of |-> m, at |->
          IF t = "api" THEN "submit" ELSE IF fate[m] = "invalid" THEN "failed"
          ELSE IF IdOf[m] = NoId THEN Onwards ELSE "claim"]]
    /\ claims' = IF fate[m] = "invalid" THEN claims \cup {IdOf[m]} ELSE claims
    /\ UNCHANGED <<fate, createJobs, waiting, memory, jobs, deadLetters, history, faults>>

Take(t, m) ==
    /\ At(t, "idle") /\ m \in waiting /\ From[m] = t
    /\ thread' = [thread EXCEPT ![t] = [of |-> m, at |->
          IF t = "api" THEN "submit" ELSE IF fate[m] = "invalid" THEN "failed"
          ELSE IF IdOf[m] = NoId THEN Onwards ELSE "claim"]]
    /\ UNCHANGED <<fate, createJobs, waiting, claims, memory, jobs, deadLetters, history, faults>>

\* The outcome of a claim: the caller is the first, or its message a duplicate.
Claimed(t, first) ==
    /\ Goes(t, IF first THEN Onwards ELSE "done")
    /\ swallowed' = IF first THEN swallowed ELSE swallowed \cup {Current(t)}

\* claimRequestId: SET NX with a TTL.
\* Mutated form: looked up, and set without NX.
ClaimAnyway(t) ==
    /\ At(t, "claim")
    /\ Claimed(t, TRUE)
    /\ claims' = claims \cup {IdAt(t)}
    /\ UNCHANGED <<fate, createJobs, waiting, memory, jobs, deadLetters, dropped, burnt, unrecorded,
                   troubled, faults>>

Claim(t) ==
    /\ At(t, "claim")
    /\ Claimed(t, IdAt(t) \notin claims)
    /\ claims' = claims \cup {IdAt(t)}
    /\ UNCHANGED <<fate, createJobs, waiting, memory, jobs, deadLetters, dropped, burnt, unrecorded,
                   troubled, faults>>

\* Redis throws, before or after it executed the SET: memory decides.
ClaimFromMemory(t) ==
    /\ At(t, "claim") /\ Fault
    /\ Claimed(t, IdAt(t) \notin memory)
    /\ claims' \in {claims, claims \cup {IdAt(t)}}
    /\ memory' = memory \cup {IdAt(t)}
    /\ troubled' = TRUE
    /\ UNCHANGED <<fate, createJobs, waiting, jobs, deadLetters, dropped, burnt, unrecorded>>

Stored(t, life) == jobs' = Append(jobs, [of |-> Current(t), life |-> life])
CanStore(t) == At(t, "submit") /\ fate[Current(t)] # "thrown" /\ Len(jobs) < MaxJobs

\* submit: the record is written, without a TTL.
Store(t) ==
    /\ CanStore(t)
    /\ Stored(t, "lasting")
    /\ Goes(t, "stored")
    /\ UNCHANGED <<fate, createJobs, waiting, claims, memory, deadLetters, history, faults>>

\* Redis throws; setValue keeps the record in the process, whose restart loses
\* it, and which does not look there again once Redis answers.
StoreInMemory(t) ==
    /\ CanStore(t) /\ Fault
    /\ Stored(t, "memory")
    /\ Goes(t, "stored")
    /\ unrecorded' = unrecorded \cup {Current(t)}
    /\ UNCHANGED <<fate, createJobs, waiting, claims, memory, deadLetters, swallowed, dropped,
                   burnt, troubled>>

\* submit throws first; the claim stays.
Throw(t) ==
    /\ At(t, "submit") /\ fate[Current(t)] = "thrown"
    /\ Goes(t, "failed")
    /\ burnt' = IF t = "api" THEN burnt ELSE burnt \cup ({IdAt(t)} \ {NoId})
    /\ UNCHANGED <<fate, createJobs, waiting, claims, memory, jobs, deadLetters, swallowed, dropped,
                   unrecorded, troubled, faults>>

\* The rest of submit: indexRequestId, and the executor has the job, unless the
\* parameters make it throw.
\* Mutated form: a missing id is indexed too.
DispatchIndexingAll(t) ==
    /\ At(t, "stored")
    /\ claims' = claims \cup {IdAt(t)}
    /\ Goes(t, IF fate[Current(t)] = "late" THEN "failed"
               ELSE IF t = "api" THEN "done" ELSE "limit")
    /\ UNCHANGED <<fate, createJobs, waiting, memory, jobs, deadLetters, history, faults>>

Dispatch(t) ==
    /\ At(t, "stored")
    /\ claims' = claims \cup ({IdAt(t)} \ {NoId})
    /\ Goes(t, IF fate[Current(t)] = "late" THEN "failed"
               ELSE IF t = "api" THEN "done" ELSE "limit")
    /\ UNCHANGED <<fate, createJobs, waiting, memory, jobs, deadLetters, history, faults>>

\* The job a thread has submitted last.
OwnJob(t) == CHOOSE j \in 1..Len(jobs) :
    jobs[j].of = Current(t) /\ \A k \in 1..Len(jobs) : jobs[k].of = Current(t) => k <= j

\* expireJob: the record has a TTL if it is in Redis.
LimitLife(t) ==
    /\ At(t, "limit")
    /\ jobs' = IF jobs[OwnJob(t)].life = "lasting"
               THEN [jobs EXCEPT ![OwnJob(t)].life = "limited"] ELSE jobs
    /\ Goes(t, "done")
    /\ UNCHANGED <<fate, createJobs, waiting, claims, memory, deadLetters, history, faults>>

-----------------------------------------------------------------------------
(* The listeners and their brokers.                                        *)

Ended(t, left) ==
    /\ thread' = [thread EXCEPT ![t] = Idle]
    /\ waiting' = left

\* process has returned; the message is acknowledged.
Acknowledge(t) ==
    /\ At(t, "done")
    /\ Ended(t, waiting \ {Current(t)})
    /\ UNCHANGED <<fate, createJobs, claims, memory, jobs, deadLetters, history, faults>>

\* The acknowledgement does not get through: Kafka and RabbitMQ deliver the
\* message again, the Pulsar listener takes the exception for process's.
AcknowledgeFails(t) ==
    /\ At(t, "done") /\ t \in Broker /\ Fault
    /\ IF t = "pulsar" THEN Goes(t, "failed") /\ UNCHANGED waiting ELSE Ended(t, waiting)
    /\ UNCHANGED <<fate, createJobs, claims, memory, jobs, deadLetters, history>>

\* process has thrown.  The listener (Pulsar), the error handler (Kafka) or the
\* broker (RabbitMQ, which is told not to requeue) writes the dead letter; an
\* operator is answered with the error.
\* Mutated form: RabbitMQ requeues.
DeadLetterRequeuing(t) ==
    /\ At(t, "failed")
    /\ IF t = "rabbit" THEN Ended(t, waiting) /\ UNCHANGED deadLetters
       ELSE /\ Ended(t, waiting \ {Current(t)})
            /\ deadLetters' = deadLetters \cup {Current(t)}
    /\ UNCHANGED <<fate, createJobs, claims, memory, jobs, history, faults>>

DeadLetter(t) ==
    /\ At(t, "failed")
    /\ Ended(t, waiting \ {Current(t)})
    /\ deadLetters' = deadLetters \cup {Current(t)}
    /\ UNCHANGED <<fate, createJobs, claims, memory, jobs, history, faults>>

\* The dead letter cannot be written: Kafka delivers the message again,
\* the Pulsar listener logs the failure and acknowledges.
\* Mutated form: both acknowledge.
DeadLetterIgnored(t) ==
    /\ At(t, "failed") /\ t \in {"kafka", "pulsar"} /\ Fault
    /\ Ended(t, waiting \ {Current(t)})
    /\ dropped' = IF t = "kafka" THEN dropped ELSE dropped \cup {Current(t)}
    /\ UNCHANGED <<fate, createJobs, claims, memory, jobs, deadLetters, swallowed, burnt,
                   unrecorded, troubled>>

DeadLetterFails(t) ==
    /\ At(t, "failed") /\ t \in {"kafka", "pulsar"} /\ Fault
    /\ Ended(t, IF t = "kafka" THEN waiting ELSE waiting \ {Current(t)})
    /\ dropped' = IF t = "kafka" THEN dropped ELSE dropped \cup {Current(t)}
    /\ UNCHANGED <<fate, createJobs, claims, memory, jobs, deadLetters, swallowed, burnt,
                   unrecorded, troubled>>

\* Connecting or receive throws, or the acknowledgement after a dead letter, which
\* ends runLoop: no Pulsar message is received until the process restarts.
ListenerEnds ==
    /\ Fault
    /\ \/ At("pulsar", "idle") /\ UNCHANGED deadLetters
       \/ /\ At("pulsar", "failed")
          /\ deadLetters' \in {deadLetters, deadLetters \cup {Current("pulsar")}}
    /\ thread' = [thread EXCEPT !["pulsar"] = [of |-> NoMessage, at |-> "ended"]]
    /\ UNCHANGED <<fate, createJobs, waiting, claims, memory, jobs, history>>

-----------------------------------------------------------------------------
(* What happens meanwhile.                                                 *)

\* The executor writes the record with SET, which takes its TTL away.
Advance(j) ==
    /\ jobs[j].life = "limited"
    /\ jobs' = [jobs EXCEPT ![j].life = "lasting"]
    /\ UNCHANGED <<fate, createJobs, waiting, thread, claims, memory, deadLetters, history, faults>>

\* The window is over, or a purge, which sweeps job:*, takes the claim with it.
Forget(i) ==
    /\ i \in claims /\ Fault
    /\ claims' = claims \ {i}
    /\ troubled' = TRUE
    /\ UNCHANGED <<fate, createJobs, waiting, thread, memory, jobs, deadLetters, swallowed, dropped,
                   burnt, unrecorded>>

\* The process dies.  Brokers deliver again; an operator's request is broken.
Restart ==
    /\ Fault
    /\ burnt' = burnt \cup ({IdAt(t) : t \in {b \in Broker : At(b, "submit")}} \ {NoId})
    /\ waiting' = waiting \ {Current("api")}
    /\ thread' = [t \in Thread |-> Idle]
    /\ memory' = {}
    /\ jobs' = [j \in DOMAIN jobs |-> IF jobs[j].life = "memory"
                                      THEN [jobs[j] EXCEPT !.life = "gone"] ELSE jobs[j]]
    /\ UNCHANGED <<fate, createJobs, claims, deadLetters, swallowed, dropped, unrecorded,
                   troubled>>

-----------------------------------------------------------------------------

Step(t) ==
    \/ \E m \in Message : Take(t, m)
    \/ Claim(t) \/ ClaimFromMemory(t)
    \/ Store(t) \/ StoreInMemory(t) \/ Throw(t) \/ Dispatch(t) \/ LimitLife(t)
    \/ Acknowledge(t) \/ AcknowledgeFails(t) \/ DeadLetter(t) \/ DeadLetterFails(t)

Next ==
    \/ \E t \in Thread : Step(t)
    \/ \E j \in 1..Len(jobs) : Advance(j)
    \/ \E i \in Id : Forget(i)
    \/ ListenerEnds \/ Restart

\* The listener threads run; nobody owes the system a fault.
Spec ==
    /\ Init /\ [][Next]_vars
    /\ \A t \in Thread : WF_vars(Step(t) /\ UNCHANGED faults)

-----------------------------------------------------------------------------

\* The variables keep their types.
TypeOK ==
    /\ fate \in Fates /\ createJobs \in BOOLEAN
    /\ waiting \subseteq Message
    /\ thread \in [Thread -> [of : Message \cup {NoMessage}, at : {"idle", "claim", "submit",
                              "stored", "limit", "done", "failed", "ended"}]]
    /\ claims \subseteq Id /\ memory \subseteq Id
    /\ jobs \in Seq([of : Message, life : {"lasting", "limited", "memory", "gone"}])
    /\ Len(jobs) <= MaxJobs
    /\ deadLetters \subseteq Message /\ swallowed \subseteq Message /\ dropped \subseteq Message
    /\ burnt \subseteq Id /\ unrecorded \subseteq Message
    /\ troubled \in BOOLEAN /\ faults \in 0..MaxFaults

BrokerJobs(i) == {j \in 1..Len(jobs) : From[jobs[j].of] \in Broker /\ IdOf[jobs[j].of] = i}

\* A job there is: its record is in Redis, not in the memory of a process, or gone.
InRedis(j) == jobs[j].life \in {"lasting", "limited"}
IsJob(m) == \E j \in 1..Len(jobs) : jobs[j].of = m /\ InRedis(j)
HasJob(i) == \E j \in 1..Len(jobs) : IdOf[jobs[j].of] = i /\ InRedis(j)

\* As long as Redis answers and keeps its claims, no request id becomes two
\* jobs: not on two brokers at once, not when a restart repeats a message.
OneJobPerRequest == ~troubled => \A i \in Id : Cardinality(BrokerJobs(i)) <= 1

\* A message is taken for a duplicate only of a request that has its record in
\* Redis or is about to, unless the first attempt died, or threw, between claim
\* and record, or Redis threw at the record and only a process has it, or had it:
\* the job may be gone, and its message is swallowed nevertheless.
SwallowedHasItsJob ==
    createJobs => \A m \in swallowed :
        \/ HasJob(IdOf[m]) \/ IdOf[m] \in burnt
        \/ \E t \in Broker : At(t, "submit") /\ IdAt(t) = IdOf[m]
        \/ \E u \in unrecorded : IdOf[u] = IdOf[m]

\* A message is acknowledged when its job's record is in Redis, or it is a
\* duplicate or a dead letter; only Pulsar lets go of one whose dead letter could
\* not be written, and every broker of one whose record only a process has.
NothingIsLost ==
    \A m \in Sent \ waiting : From[m] \in Broker =>
        \/ m \in deadLetters \cup swallowed
        \/ m \in dropped /\ From[m] = "pulsar"
        \/ IF createJobs THEN IsJob(m) \/ m \in unrecorded ELSE fate[m] # "invalid"

\* Every message is dealt with at last, none is delivered for ever, unless the
\* Pulsar listener has ended with messages still to come.
EveryMessageEnds == <>[](\A m \in waiting : At(From[m], "ended"))

\* "These jobs are generated, not requested, [...] so they are given a lifetime
\* rather than accumulating" (GovernanceIngestProcessingService): once its
\* message is dealt with, the record of a broker's job has a TTL.
JobsHaveALifetime ==
    \A j \in 1..Len(jobs) :
        From[jobs[j].of] \in Broker /\ jobs[j].of \notin waiting \cup deadLetters
            => jobs[j].life # "lasting"
=============================================================================
