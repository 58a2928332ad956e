-------------------------- MODULE JobRecordMutator --------------------------
(***************************************************************************)
(* JobRecordMutator.mutate: the read-modify-write of one stored job record *)
(* that the HTTP API and the simulator's scheduled transitions share.      *)
(*                                                                         *)
(* With a Redis template a call runs WATCH, GET, the mutator, MULTI, SET,  *)
(* EXEC, and starts over when EXEC saw a competing write.  Without one, or *)
(* when Redis throws and the caller handed over a RecordAccess, it reads   *)
(* and writes under a lock of this process; that access is JobService's    *)
(* getValue and setValue, which themselves try Redis first.                *)
(*                                                                         *)
(* Keys do not interact, so the module has one key.  A record is           *)
(* abstracted to how often each call's change is in it.                    *)
(***************************************************************************)
EXTENDS Naturals, FiniteSets

CONSTANTS
    Call,          \* the invocations of mutate on this key
    WithAccess,    \* those of JobService; the executors pass access = null
    NoRecord,      \* a read of a missing key
    Nobody,        \* the holder of a free lock
    HasRedis,      \* was the service built with a RedisTemplate?
    MaxAttempts,   \* MAX_ATTEMPTS
    MaxFaults      \* bound: Redis operations that throw in one behaviour

ASSUME CallAssumption ==
    /\ WithAccess \subseteq Call
    /\ NoRecord \notin [Call -> Nat]
    /\ Nobody \notin Call
ASSUME BoundAssumption ==
    /\ HasRedis \in BOOLEAN
    /\ MaxAttempts \in Nat \ {0}
    /\ MaxFaults \in Nat

VARIABLES
    redis,     \* the record under the key in Redis
    memory,    \* the record under the key in inMemoryStore
    lock,      \* who holds KEY_LOCKS[key]
    pc,        \* where each call is
    attempt,   \* its attempt counter
    broken,    \* has the key been written since the call's WATCH?
    copy,      \* the mutated copy it is about to write
    outcome,   \* what it found out, or "pending"
    faults     \* Redis operations that have thrown

vars == <<redis, memory, lock, pc, attempt, broken, copy, outcome, faults>>

-----------------------------------------------------------------------------

Record == [Call -> Nat]

Untouched == [c \in Call |-> 0]

\* The mutator, as far as the properties tell records apart.
Applied(r, c) == [r EXCEPT ![c] = @ + 1]

Outcomes == {"pending", "committed", "missing", "declined", "gaveUp", "unavailable"}

PcValues == {"watch", "load", "exec", "lock", "read", "write", "done"}

Init ==
    /\ redis = (IF HasRedis THEN Untouched ELSE NoRecord)
    /\ memory = (IF HasRedis THEN NoRecord ELSE Untouched)
    /\ lock = Nobody
    /\ pc = [c \in Call |-> IF HasRedis THEN "watch"
                            ELSE IF c \in WithAccess THEN "lock" ELSE "done"]
    /\ attempt = [c \in Call |-> 1]
    /\ broken = [c \in Call |-> FALSE]
    /\ copy = [c \in Call |-> NoRecord]
    /\ outcome = [c \in Call |-> IF HasRedis \/ c \in WithAccess
                                 THEN "pending" ELSE "unavailable"]
    /\ faults = 0

\* Call c returns; every outcome but "committed" is Optional.empty to it.
Return(c, what) ==
    /\ pc' = [pc EXCEPT ![c] = "done"]
    /\ outcome' = [outcome EXCEPT ![c] = what]

\* A write to the key in Redis breaks every WATCH on it.
SetRedis(value) ==
    /\ redis' = value
    /\ broken' = [c \in Call |-> TRUE]

Throw ==
    /\ faults < MaxFaults
    /\ faults' = faults + 1

\* Mutated form: an exception is taken for contention and the call starts over.
FallBackByRetrying(c) ==
    /\ pc' = [pc EXCEPT ![c] = "watch"]
    /\ UNCHANGED outcome

\* A Redis exception inside an attempt: fall back to the access, if any.
FallBack(c) ==
    IF c \in WithAccess
    THEN pc' = [pc EXCEPT ![c] = "lock"] /\ UNCHANGED outcome
    ELSE Return(c, "unavailable")

-----------------------------------------------------------------------------
\* mutateWithWatch

Watch(c) ==
    /\ pc[c] = "watch"
    /\ pc' = [pc EXCEPT ![c] = "load"]
    /\ broken' = [broken EXCEPT ![c] = FALSE]
    /\ UNCHANGED <<redis, memory, lock, attempt, copy, outcome, faults>>

\* GET, then the mutator on the record it returned.
LoadMissing(c) ==
    /\ pc[c] = "load"
    /\ redis = NoRecord
    /\ Return(c, "missing")
    /\ UNCHANGED <<redis, memory, lock, attempt, broken, copy, faults>>

LoadDeclined(c) ==
    /\ pc[c] = "load"
    /\ redis # NoRecord
    /\ Return(c, "declined")
    /\ UNCHANGED <<redis, memory, lock, attempt, broken, copy, faults>>

LoadAccepted(c) ==
    /\ pc[c] = "load"
    /\ redis # NoRecord
    /\ copy' = [copy EXCEPT ![c] = Applied(redis, c)]
    /\ pc' = [pc EXCEPT ![c] = "exec"]
    /\ UNCHANGED <<redis, memory, lock, attempt, broken, outcome, faults>>

\* Mutated form: a plain SET, whatever happened since the GET.
ExecCommitsUnwatched(c) ==
    /\ pc[c] = "exec"
    /\ SetRedis(copy[c])
    /\ Return(c, "committed")
    /\ UNCHANGED <<memory, lock, attempt, copy, faults>>

\* MULTI, SET, EXEC: Redis runs the SET only if the WATCH is unbroken.
ExecCommits(c) ==
    /\ pc[c] = "exec"
    /\ ~broken[c]
    /\ SetRedis(copy[c])
    /\ Return(c, "committed")
    /\ UNCHANGED <<memory, lock, attempt, copy, faults>>

\* Mutated form: the attempt bound off by one.
ExecConflictsTooLong(c) ==
    /\ pc[c] = "exec"
    /\ broken[c]
    /\ IF attempt[c] <= MaxAttempts
       THEN /\ attempt' = [attempt EXCEPT ![c] = @ + 1]
            /\ pc' = [pc EXCEPT ![c] = "watch"]
            /\ UNCHANGED outcome
       ELSE /\ Return(c, "gaveUp")
            /\ UNCHANGED attempt
    /\ UNCHANGED <<redis, memory, lock, broken, copy, faults>>

ExecConflicts(c) ==
    /\ pc[c] = "exec"
    /\ broken[c]
    /\ IF attempt[c] < MaxAttempts
       THEN /\ attempt' = [attempt EXCEPT ![c] = @ + 1]
            /\ pc' = [pc EXCEPT ![c] = "watch"]
            /\ UNCHANGED outcome
       ELSE /\ Return(c, "gaveUp")
            /\ UNCHANGED attempt
    /\ UNCHANGED <<redis, memory, lock, broken, copy, faults>>

\* WATCH, GET or EXEC throws before Redis has acted on it.
RedisThrows(c) ==
    /\ pc[c] \in {"watch", "load", "exec"}
    /\ Throw
    /\ FallBack(c)
    /\ UNCHANGED <<redis, memory, lock, attempt, broken, copy>>

\* EXEC throws after Redis committed it: only the reply is lost.
ExecReplyLost(c) ==
    /\ pc[c] = "exec"
    /\ ~broken[c]
    /\ Throw
    /\ SetRedis(copy[c])
    /\ FallBack(c)
    /\ UNCHANGED <<memory, lock, attempt, copy>>

-----------------------------------------------------------------------------
\* mutateUnderLock, over JobService.getValue and setValue

Acquire(c) ==
    /\ pc[c] = "lock"
    /\ lock = Nobody
    /\ lock' = c
    /\ pc' = [pc EXCEPT ![c] = "read"]
    /\ UNCHANGED <<redis, memory, attempt, broken, copy, outcome, faults>>

\* Mutated form: the early returns leave the lock taken (no finally).
ReadUnderLockLeaks(c, value) ==
    \/ /\ value = NoRecord
       /\ Return(c, "missing")
       /\ UNCHANGED <<lock, copy>>
    \/ /\ value # NoRecord
       /\ Return(c, "declined")
       /\ UNCHANGED <<lock, copy>>
    \/ /\ value # NoRecord
       /\ copy' = [copy EXCEPT ![c] = Applied(value, c)]
       /\ pc' = [pc EXCEPT ![c] = "write"]
       /\ UNCHANGED <<lock, outcome>>

\* The body of the locked section up to the write; the finally clause unlocks
\* when it returns early.
ReadUnderLock(c, value) ==
    \/ /\ value = NoRecord
       /\ Return(c, "missing")
       /\ lock' = Nobody
       /\ UNCHANGED copy
    \/ /\ value # NoRecord
       /\ Return(c, "declined")
       /\ lock' = Nobody
       /\ UNCHANGED copy
    \/ /\ value # NoRecord
       /\ copy' = [copy EXCEPT ![c] = Applied(value, c)]
       /\ pc' = [pc EXCEPT ![c] = "write"]
       /\ UNCHANGED <<lock, outcome>>

\* getValue answers from Redis, and from memory without one or when it throws.
GetValue(c) ==
    /\ pc[c] = "read"
    /\ \/ /\ HasRedis
          /\ ReadUnderLock(c, redis)
          /\ UNCHANGED faults
       \/ /\ HasRedis
          /\ Throw
          /\ ReadUnderLock(c, memory)
       \/ /\ ~HasRedis
          /\ ReadUnderLock(c, memory)
          /\ UNCHANGED faults
    /\ UNCHANGED <<redis, memory, attempt, broken>>

\* setValue is a plain SET; when it throws, before or after Redis has acted on
\* it, the record goes to memory.
SetValue(c) ==
    /\ pc[c] = "write"
    /\ \/ /\ HasRedis
          /\ SetRedis(copy[c])
          /\ UNCHANGED <<memory, faults>>
       \/ /\ HasRedis
          /\ Throw
          /\ memory' = copy[c]
          /\ \/ SetRedis(copy[c])
             \/ UNCHANGED <<redis, broken>>
       \/ /\ ~HasRedis
          /\ memory' = copy[c]
          /\ UNCHANGED <<redis, broken, faults>>
    /\ Return(c, "committed")
    /\ lock' = Nobody
    /\ UNCHANGED <<attempt, copy>>

-----------------------------------------------------------------------------
\* JobService.deleteJob: DEL without WATCH, and without the lock in memory.

DeleteJob ==
    /\ \/ /\ HasRedis
          /\ redis # NoRecord
          /\ SetRedis(NoRecord)
          /\ UNCHANGED <<memory, faults>>
       \/ /\ HasRedis
          /\ memory # NoRecord
          /\ Throw
          /\ memory' = NoRecord
          /\ UNCHANGED <<redis, broken>>
       \/ /\ ~HasRedis
          /\ memory # NoRecord
          /\ memory' = NoRecord
          /\ UNCHANGED <<redis, broken, faults>>
    /\ UNCHANGED <<lock, pc, attempt, copy, outcome>>

-----------------------------------------------------------------------------

CallStep(c) ==
    \/ Watch(c)
    \/ LoadMissing(c)
    \/ LoadDeclined(c)
    \/ LoadAccepted(c)
    \/ ExecCommits(c)
    \/ ExecConflicts(c)
    \/ RedisThrows(c)
    \/ ExecReplyLost(c)
    \/ Acquire(c)
    \/ GetValue(c)
    \/ SetValue(c)

Next ==
    \/ \E c \in Call : CallStep(c)
    \/ DeleteJob

\* A thread inside mutate keeps running; nothing obliges anyone to delete.
Spec ==
    /\ Init
    /\ [][Next]_vars
    /\ \A c \in Call : WF_vars(CallStep(c))

-----------------------------------------------------------------------------
\* Properties

Store == IF HasRedis THEN redis ELSE memory

TypeOK ==
    /\ redis \in Record \cup {NoRecord}
    /\ memory \in Record \cup {NoRecord}
    /\ lock \in Call \cup {Nobody}
    /\ pc \in [Call -> PcValues]
    /\ attempt \in [Call -> 1..MaxAttempts]
    /\ broken \in [Call -> BOOLEAN]
    /\ copy \in [Call -> Record \cup {NoRecord}]
    /\ outcome \in [Call -> Outcomes]
    /\ faults \in 0..MaxFaults

\* A change the caller was told is stored is in the record for as long as the
\* record exists, however the other writers interleave.
NoLostUpdate ==
    Store # NoRecord =>
        \A c \in Call : outcome[c] = "committed" => Store[c] > 0

\* Retrying a contended write never applies the change a second time; nor does
\* a Redis exception, to a call that has no fallback.
AtMostOnce ==
    Store # NoRecord =>
        \A c \in Call : faults = 0 \/ c \notin WithAccess => Store[c] <= 1

\* Only the fallback's plain SET can drop somebody's change from a record in
\* Redis; an EXEC never does, not even next to fallback writers.
OnlyFallbackLoses ==
    [][(redis # NoRecord /\ redis' # NoRecord
           /\ \E d \in Call : redis'[d] < redis[d])
       => \E c \in Call : pc[c] = "write" /\ pc'[c] = "done"]_vars

\* Every call is answered: attempts are bounded and the lock is released on
\* every path.
EveryCallAnswered == \A c \in Call : <>(pc[c] = "done")

\* The promise: each call takes effect at one instant or not at all.
Answers ==
    [c \in Call |-> IF outcome[c] \in {"pending", "committed"} THEN outcome[c] ELSE "empty"]

Atomic == INSTANCE AtomicRecord WITH
    record <- Store, answer <- Answers, Lossy <- (MaxFaults > 0)

ImplementsAtomicRecord == Atomic!ASpec

=============================================================================
