----------------------- MODULE JobRecordMutatorProofs -----------------------
(***************************************************************************)
(* Proofs about JobRecordMutator, for every set of calls and every bound.  *)
(*                                                                         *)
(* Types, that a call's change is applied at most once, and that an EXEC   *)
(* drops nobody's change hold in every deployment.  That no acknowledged   *)
(* change is lost, and that the whole is atomic, hold whenever the lock    *)
(* and the WATCH are never used on the same store: without Redis, when     *)
(* Redis never throws, or when no caller has a RecordAccess to fall back   *)
(* to.                                                                     *)
(***************************************************************************)
EXTENDS JobRecordMutator, TLAPS

USE DEF Outcomes, PcValues

\* What Applied returns is a record again.
LEMMA AppliedType == ASSUME NEW r \in Record, NEW c \in Call
                     PROVE  Applied(r, c) \in Record
BY DEF Applied, Record

LEMMA UntouchedType == Untouched \in Record
BY DEF Untouched, Record

-----------------------------------------------------------------------------
\* Type correctness

LEMMA InitType == Init => TypeOK
<1> SUFFICES ASSUME Init PROVE TypeOK
  OBVIOUS
<1> USE DEF Init
<1>1. redis \in Record \cup {NoRecord} /\ memory \in Record \cup {NoRecord}
  BY UntouchedType
<1>2. pc \in [Call -> PcValues] /\ outcome \in [Call -> Outcomes]
  OBVIOUS
<1>3. attempt \in [Call -> 1..MaxAttempts] /\ faults \in 0..MaxFaults
  BY BoundAssumption
<1>4. QED
  BY <1>1, <1>2, <1>3 DEF TypeOK

LEMMA StepType == TypeOK /\ [Next]_vars => TypeOK'
<1> SUFFICES ASSUME TypeOK, [Next]_vars PROVE TypeOK'
  OBVIOUS
<1> USE BoundAssumption DEF TypeOK
<1>1. ASSUME NEW c \in Call, Watch(c) PROVE TypeOK'
  BY <1>1 DEF Watch
<1>2. ASSUME NEW c \in Call, LoadMissing(c) PROVE TypeOK'
  BY <1>2 DEF LoadMissing, Return
<1>3. ASSUME NEW c \in Call, LoadDeclined(c) PROVE TypeOK'
  BY <1>3 DEF LoadDeclined, Return
<1>4. ASSUME NEW c \in Call, LoadAccepted(c) PROVE TypeOK'
  BY <1>4, AppliedType DEF LoadAccepted
<1>5. ASSUME NEW c \in Call, ExecCommits(c) PROVE TypeOK'
  BY <1>5 DEF ExecCommits, SetRedis, Return
<1>6. ASSUME NEW c \in Call, ExecConflicts(c) PROVE TypeOK'
  <2>1. CASE attempt[c] < MaxAttempts
    BY <1>6, <2>1 DEF ExecConflicts
  <2>2. CASE ~(attempt[c] < MaxAttempts)
    BY <1>6, <2>2 DEF ExecConflicts, Return
  <2>3. QED
    BY <2>1, <2>2
<1>7. ASSUME NEW c \in Call, RedisThrows(c) PROVE TypeOK'
  <2>1. CASE c \in WithAccess
    BY <1>7, <2>1 DEF RedisThrows, Throw, FallBack
  <2>2. CASE c \notin WithAccess
    BY <1>7, <2>2 DEF RedisThrows, Throw, FallBack, Return
  <2>3. QED
    BY <2>1, <2>2
<1>8. ASSUME NEW c \in Call, ExecReplyLost(c) PROVE TypeOK'
  <2>1. CASE c \in WithAccess
    BY <1>8, <2>1 DEF ExecReplyLost, Throw, SetRedis, FallBack
  <2>2. CASE c \notin WithAccess
    BY <1>8, <2>2 DEF ExecReplyLost, Throw, SetRedis, FallBack, Return
  <2>3. QED
    BY <2>1, <2>2
<1>9. ASSUME NEW c \in Call, Acquire(c) PROVE TypeOK'
  BY <1>9 DEF Acquire
<1>10. ASSUME NEW c \in Call, GetValue(c) PROVE TypeOK'
  <2>1. faults' \in 0..MaxFaults
    BY <1>10 DEF GetValue, Throw
  <2>2. ASSUME NEW value \in Record \cup {NoRecord}, ReadUnderLock(c, value)
        PROVE  /\ lock' \in Call \cup {Nobody}
               /\ pc' \in [Call -> PcValues]
               /\ copy' \in [Call -> Record \cup {NoRecord}]
               /\ outcome' \in [Call -> Outcomes]
    <3>1. /\ lock' \in Call \cup {Nobody}
          /\ pc' \in [Call -> PcValues]
          /\ outcome' \in [Call -> Outcomes]
      BY <2>2 DEF ReadUnderLock, Return
    <3>2. copy' \in [Call -> Record \cup {NoRecord}]
      <4>1. CASE UNCHANGED copy
        BY <4>1
      <4>2. CASE /\ value # NoRecord
                 /\ copy' = [copy EXCEPT ![c] = Applied(value, c)]
        BY <4>2, AppliedType
      <4>3. QED
        BY <2>2, <4>1, <4>2 DEF ReadUnderLock
    <3>3. QED
      BY <3>1, <3>2
  <2>3. ReadUnderLock(c, redis) \/ ReadUnderLock(c, memory)
    BY <1>10 DEF GetValue
  <2>4. UNCHANGED <<redis, memory, attempt, broken>>
    BY <1>10 DEF GetValue
  <2>5. QED
    BY <2>1, <2>2, <2>3, <2>4
<1>11. ASSUME NEW c \in Call, SetValue(c) PROVE TypeOK'
  <2>1. faults' \in 0..MaxFaults
    BY <1>11 DEF SetValue, Throw
  <2>2. /\ redis' \in Record \cup {NoRecord}
        /\ memory' \in Record \cup {NoRecord}
        /\ broken' \in [Call -> BOOLEAN]
    BY <1>11 DEF SetValue, SetRedis
  <2>3. /\ lock' \in Call \cup {Nobody}
        /\ pc' \in [Call -> PcValues]
        /\ outcome' \in [Call -> Outcomes]
        /\ UNCHANGED <<attempt, copy>>
    BY <1>11 DEF SetValue, Return
  <2>4. QED
    BY <2>1, <2>2, <2>3
<1>12. ASSUME DeleteJob PROVE TypeOK'
  <2>1. faults' \in 0..MaxFaults
    BY <1>12 DEF DeleteJob, Throw
  <2>2. /\ redis' \in Record \cup {NoRecord}
        /\ memory' \in Record \cup {NoRecord}
        /\ broken' \in [Call -> BOOLEAN]
    BY <1>12 DEF DeleteJob, SetRedis
  <2>3. UNCHANGED <<lock, pc, attempt, copy, outcome>>
    BY <1>12 DEF DeleteJob
  <2>4. QED
    BY <2>1, <2>2, <2>3
<1>13. CASE UNCHANGED vars
  BY <1>13 DEF vars
<1>14. QED
  BY <1>1, <1>2, <1>3, <1>4, <1>5, <1>6, <1>7, <1>8, <1>9, <1>10, <1>11,
     <1>12, <1>13 DEF Next, CallStep

\* Every variable keeps its type, for any calls, attempt bound and faults.
THEOREM MutatorTypeOK == Spec => []TypeOK
<1>1. Init => TypeOK
  BY InitType
<1>2. TypeOK /\ [Next]_vars => TypeOK'
  BY StepType
<1>3. QED
  BY <1>1, <1>2, PTL DEF Spec

-----------------------------------------------------------------------------
\* No acknowledged change is lost

\* The lock and the WATCH never guard the same store.
Separated == HasRedis => (MaxFaults = 0 \/ WithAccess = {})

\* Which half of mutate a call is in, and that it has not returned yet.
PathInv ==
    \A c \in Call :
        /\ pc[c] = "done" <=> outcome[c] # "pending"
        /\ HasRedis => pc[c] \in {"watch", "load", "exec", "done"}
        /\ ~HasRedis => pc[c] \in {"lock", "read", "write", "done"}

LockInv == \A c \in Call : pc[c] \in {"read", "write"} => lock = c

\* What call c is about to write under an unbroken WATCH is the current record
\* with its own change.
FreshInv ==
    \A c \in Call :
        pc[c] = "exec" /\ ~broken[c] => redis # NoRecord /\ copy[c] = Applied(redis, c)

\* Record r holds call d's change as often as d's outcome says it may.
Faithful(r, d) ==
    /\ r[d] <= 1
    /\ outcome[d] = "committed" => r[d] > 0
    /\ outcome[d] = "pending" => r[d] = 0

StoreInv == Store # NoRecord => \A d \in Call : Faithful(Store, d)

\* The copy the lock's holder is about to write.
CopyInv ==
    \A c \in Call :
        pc[c] = "write" =>
            /\ copy[c] \in Record
            /\ copy[c][c] = 1
            /\ \A d \in Call \ {c} : Faithful(copy[c], d)

IInv == TypeOK /\ PathInv /\ LockInv /\ FreshInv /\ StoreInv /\ CopyInv

LEMMA AppliedValue == ASSUME NEW r \in Record, NEW c \in Call
                      PROVE  /\ Applied(r, c)[c] = r[c] + 1
                             /\ \A d \in Call \ {c} : Applied(r, c)[d] = r[d]
BY DEF Applied, Record

LEMMA NoRecordIsNone == NoRecord \notin Record
BY CallAssumption DEF Record

LEMMA InitInv == Init => IInv
<1> SUFFICES ASSUME Init PROVE IInv
  OBVIOUS
<1>1. TypeOK
  BY InitType
<1>2. PathInv /\ LockInv /\ FreshInv /\ CopyInv
  BY DEF Init, PathInv, LockInv, FreshInv, CopyInv
<1>3. StoreInv
  BY DEF Init, StoreInv, Store, Faithful, Untouched
<1>4. QED
  BY <1>1, <1>2, <1>3 DEF IInv

\* A step that writes nothing, lets one call move on the Redis path, and at
\* most answers it with Optional.empty.
LEMMA QuietStep ==
    ASSUME IInv, TypeOK', NEW c \in Call, HasRedis,
           UNCHANGED <<redis, memory, lock, broken, copy>>,
           pc[c] \in {"watch", "load", "exec"},
           \/ /\ pc' = [pc EXCEPT ![c] = "watch"]
              /\ UNCHANGED outcome
           \/ /\ pc' = [pc EXCEPT ![c] = "done"]
              /\ \E what \in {"missing", "declined", "gaveUp", "unavailable"} :
                    outcome' = [outcome EXCEPT ![c] = what]
    PROVE  IInv'
<1> USE DEF IInv, TypeOK
<1>1. PathInv' /\ LockInv'
  BY DEF PathInv, LockInv
<1>2. FreshInv'
  BY DEF FreshInv
<1>3. \A d \in Call : /\ outcome'[d] = "committed" => outcome[d] = "committed"
                      /\ outcome'[d] = "pending" => outcome[d] = "pending"
  OBVIOUS
<1>4. StoreInv'
  BY <1>3 DEF StoreInv, Store, Faithful
<1>5. CopyInv'
  BY DEF CopyInv, PathInv
<1>6. QED
  BY <1>1, <1>2, <1>4, <1>5

LEMMA WatchInv == ASSUME IInv, TypeOK', NEW c \in Call, Watch(c) PROVE IInv'
<1> USE DEF IInv, TypeOK, Watch
<1>1. PathInv' /\ LockInv'
  BY DEF PathInv, LockInv
<1>2. FreshInv'
  BY DEF FreshInv
<1>3. StoreInv' /\ CopyInv'
  BY DEF StoreInv, Store, CopyInv, Faithful
<1>4. QED
  BY <1>1, <1>2, <1>3

LEMMA LoadAcceptedInv ==
    ASSUME IInv, TypeOK', NEW c \in Call, LoadAccepted(c) PROVE IInv'
<1> USE DEF IInv, TypeOK, LoadAccepted
<1>1. PathInv' /\ LockInv'
  BY DEF PathInv, LockInv
<1>2. FreshInv'
  BY DEF FreshInv
<1>3. StoreInv' /\ CopyInv'
  BY DEF StoreInv, Store, CopyInv, PathInv, Faithful
<1>4. QED
  BY <1>1, <1>2, <1>3

\* An EXEC under an unbroken WATCH, whether its reply arrives or not.
LEMMA WriteInv ==
    ASSUME IInv, TypeOK', NEW c \in Call, HasRedis, pc[c] = "exec", ~broken[c],
           SetRedis(copy[c]),
           UNCHANGED <<memory, lock, copy>>,
           pc' = [pc EXCEPT ![c] = "done"],
           \E what \in {"committed", "unavailable"} :
               outcome' = [outcome EXCEPT ![c] = what]
    PROVE  IInv'
<1> USE DEF IInv, TypeOK, SetRedis
<1>1. PathInv' /\ LockInv'
  BY DEF PathInv, LockInv
<1>2. FreshInv' /\ CopyInv'
  BY DEF FreshInv, CopyInv, PathInv
<1>3. /\ redis \in Record
      /\ redis' = Applied(redis, c)
      /\ outcome[c] = "pending"
  BY DEF FreshInv, PathInv
<1>4. /\ redis'[c] = redis[c] + 1
      /\ \A d \in Call \ {c} : redis'[d] = redis[d]
  BY <1>3, AppliedValue
<1>5. \A d \in Call : Faithful(redis, d)
  BY <1>3, NoRecordIsNone DEF StoreInv, Store
<1>6. redis[c] = 0
  BY <1>3, <1>5 DEF Faithful
<1>7. \A d \in Call : Faithful(redis, d)'
  <2> SUFFICES ASSUME NEW d \in Call PROVE Faithful(redis, d)'
    OBVIOUS
  <2>1. CASE d = c
    BY <1>4, <1>6, <2>1 DEF Faithful
  <2>2. CASE d # c
    BY <1>4, <1>5, <2>2 DEF Faithful
  <2>3. QED
    BY <2>1, <2>2
<1>8. StoreInv'
  BY <1>7 DEF StoreInv, Store
<1>9. QED
  BY <1>1, <1>2, <1>8

LEMMA AcquireInv == ASSUME IInv, TypeOK', NEW c \in Call, Acquire(c) PROVE IInv'
<1> USE DEF IInv, TypeOK, Acquire
<1>1. PathInv'
  BY DEF PathInv
<1>2. LockInv'
  BY CallAssumption DEF LockInv
<1>3. FreshInv' /\ StoreInv' /\ CopyInv'
  BY DEF FreshInv, StoreInv, Store, CopyInv, Faithful
<1>4. QED
  BY <1>1, <1>2, <1>3

LEMMA GetValueInv ==
    ASSUME IInv, TypeOK', NEW c \in Call, ~HasRedis, GetValue(c) PROVE IInv'
<1> USE DEF IInv, TypeOK
<1>1. pc[c] = "read" /\ ReadUnderLock(c, memory) /\ UNCHANGED <<redis, memory, broken>>
  BY DEF GetValue
<1>2. PathInv'
  BY <1>1 DEF PathInv, ReadUnderLock, Return
<1>3. LockInv'
  BY <1>1, CallAssumption DEF LockInv, ReadUnderLock, Return
<1>4. FreshInv'
  BY <1>1 DEF FreshInv, PathInv, ReadUnderLock, Return
<1>5. outcome[c] = "pending"
  BY <1>1 DEF PathInv
<1>6. \A d \in Call : /\ outcome'[d] = "committed" => outcome[d] = "committed"
                      /\ outcome'[d] = "pending" => outcome[d] = "pending"
  BY <1>1 DEF ReadUnderLock, Return
<1>7. StoreInv'
  BY <1>1, <1>6 DEF StoreInv, Store, Faithful
<1>8. CopyInv'
  <2> SUFFICES ASSUME NEW d \in Call, pc'[d] = "write"
               PROVE  /\ copy'[d] \in Record
                      /\ copy'[d][d] = 1
                      /\ \A e \in Call \ {d} : Faithful(copy[d], e)'
    BY DEF CopyInv
  <2>1. lock' = d
    BY <1>3 DEF LockInv
  <2>2. d = c
    BY <1>1, <2>1, CallAssumption DEF LockInv, ReadUnderLock
  <2>3. /\ memory \in Record
        /\ copy'[c] = Applied(memory, c)
        /\ UNCHANGED outcome
    BY <1>1, <2>2 DEF ReadUnderLock, Return
  <2>4. \A e \in Call : Faithful(memory, e)
    BY <2>3, NoRecordIsNone DEF StoreInv, Store
  <2>5. memory[c] = 0
    BY <1>5, <2>4 DEF Faithful
  <2>6. copy'[c] \in Record /\ copy'[c][c] = 1
    <3>1. Applied(memory, c) \in Record
      BY <2>3, AppliedType
    <3>2. Applied(memory, c)[c] = memory[c] + 1
      BY <2>3, AppliedValue
    <3>3. QED
      BY <2>3, <2>5, <3>1, <3>2
  <2>7. \A e \in Call \ {c} : copy'[c][e] = memory[e]
    BY <2>3, AppliedValue
  <2>8. \A e \in Call \ {c} : Faithful(copy[c], e)'
    BY <2>3, <2>4, <2>7 DEF Faithful
  <2>9. QED
    BY <2>2, <2>6, <2>8
<1>9. QED
  BY <1>2, <1>3, <1>4, <1>7, <1>8

LEMMA SetValueInv ==
    ASSUME IInv, TypeOK', NEW c \in Call, ~HasRedis, SetValue(c) PROVE IInv'
<1> USE DEF IInv, TypeOK
<1>1. /\ pc[c] = "write"
      /\ memory' = copy[c]
      /\ pc' = [pc EXCEPT ![c] = "done"]
      /\ outcome' = [outcome EXCEPT ![c] = "committed"]
      /\ lock' = Nobody
      /\ UNCHANGED <<redis, broken, copy>>
  BY DEF SetValue, Return
<1>2. \A d \in Call \ {c} : pc[d] \notin {"read", "write"}
  BY <1>1 DEF LockInv
<1>3. PathInv'
  BY <1>1 DEF PathInv
<1>4. LockInv' /\ CopyInv'
  BY <1>1, <1>2 DEF LockInv, CopyInv
<1>5. FreshInv'
  BY <1>1 DEF FreshInv
<1>6. \A d \in Call : Faithful(memory, d)'
  BY <1>1 DEF CopyInv, Faithful
<1>7. StoreInv'
  BY <1>6 DEF StoreInv, Store
<1>8. QED
  BY <1>3, <1>4, <1>5, <1>7

LEMMA DeleteInv == ASSUME IInv, TypeOK', Separated, DeleteJob PROVE IInv'
<1> USE DEF IInv, TypeOK
<1>1. UNCHANGED <<lock, pc, copy, outcome>>
  BY DEF DeleteJob
<1>2. PathInv' /\ LockInv' /\ CopyInv'
  BY <1>1 DEF PathInv, LockInv, CopyInv, Faithful
<1>3. FreshInv'
  BY <1>1 DEF DeleteJob, FreshInv, SetRedis
<1>4. Store' = NoRecord \/ Store' = Store
  BY DEF DeleteJob, SetRedis, Store
<1>5. StoreInv'
  BY <1>1, <1>4 DEF StoreInv, Faithful
<1>6. QED
  BY <1>2, <1>3, <1>5

LEMMA StepInv == Separated /\ IInv /\ [Next]_vars => IInv'
<1> SUFFICES ASSUME Separated, IInv, [Next]_vars PROVE IInv'
  OBVIOUS
<1>1. TypeOK'
  BY StepType DEF IInv
<1>2. ASSUME NEW c \in Call, LoadMissing(c) PROVE IInv'
  BY <1>1, <1>2, QuietStep DEF IInv, PathInv, LoadMissing, Return
<1>3. ASSUME NEW c \in Call, LoadDeclined(c) PROVE IInv'
  BY <1>1, <1>3, QuietStep DEF IInv, PathInv, LoadDeclined, Return
<1>4. ASSUME NEW c \in Call, ExecConflicts(c) PROVE IInv'
  <2>1. CASE attempt[c] < MaxAttempts
    BY <1>1, <1>4, <2>1, QuietStep DEF IInv, PathInv, ExecConflicts
  <2>2. CASE ~(attempt[c] < MaxAttempts)
    BY <1>1, <1>4, <2>2, QuietStep DEF IInv, PathInv, ExecConflicts, Return
  <2>3. QED
    BY <2>1, <2>2
<1>5. ASSUME NEW c \in Call, RedisThrows(c) PROVE IInv'
  <2>1. HasRedis /\ c \notin WithAccess
    BY <1>5, BoundAssumption DEF IInv, TypeOK, PathInv, RedisThrows, Throw, Separated
  <2>2. QED
    BY <1>1, <1>5, <2>1, QuietStep DEF RedisThrows, FallBack, Return
<1>6. ASSUME NEW c \in Call, ExecCommits(c) PROVE IInv'
  BY <1>1, <1>6, WriteInv DEF IInv, PathInv, ExecCommits, Return
<1>7. ASSUME NEW c \in Call, ExecReplyLost(c) PROVE IInv'
  <2>1. HasRedis /\ c \notin WithAccess
    BY <1>7, BoundAssumption DEF IInv, TypeOK, PathInv, ExecReplyLost, Throw, Separated
  <2>2. QED
    BY <1>1, <1>7, <2>1, WriteInv DEF ExecReplyLost, FallBack, Return
<1>8. ASSUME NEW c \in Call, GetValue(c) PROVE IInv'
  BY <1>1, <1>8, GetValueInv DEF IInv, PathInv, GetValue
<1>9. ASSUME NEW c \in Call, SetValue(c) PROVE IInv'
  BY <1>1, <1>9, SetValueInv DEF IInv, PathInv, SetValue
<1>10. CASE UNCHANGED vars
  BY <1>10, <1>1 DEF vars, IInv, PathInv, LockInv, FreshInv, StoreInv, Store,
                     CopyInv, Faithful
<1>11. QED
  BY <1>1, <1>2, <1>3, <1>4, <1>5, <1>6, <1>7, <1>8, <1>9, <1>10,
     WatchInv, LoadAcceptedInv, AcquireInv, DeleteInv DEF Next, CallStep

\* A change reported as stored stays in the record while the record exists.
THEOREM MutatorNoLostUpdate == Separated /\ Spec => []NoLostUpdate
<1>1. Init => IInv
  BY InitInv
<1>2. Separated /\ IInv /\ [Next]_vars => IInv'
  BY StepInv
<1>3. IInv => NoLostUpdate
  BY DEF IInv, StoreInv, NoLostUpdate, Faithful
<1>4. CASE Separated
  BY <1>1, <1>2, <1>3, <1>4, PTL DEF Spec
<1>5. QED
  BY <1>4

-----------------------------------------------------------------------------
(* What holds of both halves of mutate on one record: an EXEC drops no     *)
(* change, and a call that tries once applies its change once.             *)

\* A call that never throws, or has nothing to fall back to, tries one half only.
OneWay(c) == faults = 0 \/ c \notin WithAccess

\* Record r holds call c's change once at most, and not before c has returned.
Marked(r, c) == r # NoRecord => r[c] <= 1 /\ (pc[c] # "done" => r[c] = 0)

\* So do both stores, and what any other call is about to write.
Single(c) ==
    /\ Marked(redis, c) /\ Marked(memory, c)
    /\ \A d \in Call : copy[d] # NoRecord =>
           copy[d][c] <= 1 /\ (d = c \/ Marked(copy[d], c))

OnceEach == \A c \in Call : OneWay(c) => Single(c)

\* How a step of call d changes the stores: not at all, or into d's copy.
Stored(r, s, d) == s = r \/ s = copy[d] \/ s = NoRecord

\* The steps that change no copy; d is the call that moves.
LEMMA StoringKeeps ==
    ASSUME TypeOK, NEW c \in Call, NEW d \in Call, Single(c), UNCHANGED copy, pc[d] # "done",
           d = c => pc'[c] = "done" \/ UNCHANGED <<redis, memory>>,
           d # c => pc'[c] = pc[c],
           Stored(redis, redis', d), Stored(memory, memory', d)
    PROVE  Single(c)'
<1>1. pc'[c] # "done" => pc[c] # "done"
  OBVIOUS
<1>2. ASSUME NEW e \in Call, copy[e] # NoRecord
      PROVE  copy[e][c] <= 1 /\ (e = c \/ (pc'[c] # "done" => copy[e][c] = 0))
  BY <1>1, <1>2 DEF Single, Marked
<1>3. ASSUME NEW r, NEW s, Marked(r, c), Stored(r, s, d), s = r \/ d # c \/ pc'[c] = "done"
      PROVE  s # NoRecord => s[c] <= 1 /\ (pc'[c] # "done" => s[c] = 0)
  BY <1>1, <1>2, <1>3 DEF Stored, Marked
<1>4. Marked(redis, c)' /\ Marked(memory, c)'
  BY <1>3 DEF Single, Marked
<1> QED BY <1>2, <1>4 DEF Single, Marked

\* The steps that make a copy of a store, with d's change.
LEMMA CopyingKeeps ==
    ASSUME TypeOK, NEW c \in Call, NEW d \in Call, Single(c), UNCHANGED <<redis, memory>>,
           NEW v \in Record, Marked(v, c), pc[d] # "done",
           copy' = [copy EXCEPT ![d] = Applied(v, d)],
           pc'[d] # "done", d # c => pc'[c] = pc[c]
    PROVE  Single(c)'
<1>1. pc'[c] # "done" <=> pc[c] # "done"
  OBVIOUS
<1>2. Marked(redis, c)' /\ Marked(memory, c)'
  BY <1>1 DEF Single, Marked
<1>3. v # NoRecord /\ v[c] \in Nat
  BY NoRecordIsNone DEF Record
<1>4. copy'[d][c] <= 1 /\ (d = c \/ (pc'[c] # "done" => copy'[d][c] = 0))
  <2>1. copy'[d] = Applied(v, d)
    BY DEF TypeOK
  <2>2. CASE d = c
    BY <1>3, <2>1, <2>2, AppliedValue DEF Marked
  <2>3. CASE d # c
    BY <1>1, <1>3, <2>1, <2>3, AppliedValue DEF Marked
  <2> QED BY <2>2, <2>3
<1>5. ASSUME NEW e \in Call \ {d}, copy'[e] # NoRecord
      PROVE  copy'[e][c] <= 1 /\ (e = c \/ (pc'[c] # "done" => copy'[e][c] = 0))
  <2>1. copy'[e] = copy[e]
    BY DEF TypeOK
  <2> QED BY <1>1, <1>5, <2>1 DEF Single, Marked
<1> QED BY <1>2, <1>4, <1>5 DEF Single, Marked

LEMMA DeletingKeeps ==
    ASSUME NEW c \in Call, Single(c), UNCHANGED <<pc, copy>>,
           redis' \in {redis, NoRecord}, memory' \in {memory, NoRecord}
    PROVE  Single(c)'
BY DEF Single, Marked

\* What one call's step does to another's, or to its own, single change.
LEMMA CallKeeps ==
    ASSUME TypeOK, NEW c \in Call, NEW d \in Call, CallStep(d), Single(c), OneWay(c)'
    PROVE  Single(c)'
<1> USE DEF TypeOK
<1>1. CASE Watch(d) \/ LoadMissing(d) \/ LoadDeclined(d) \/ ExecConflicts(d) \/ RedisThrows(d)
           \/ Acquire(d)
  <2>1. UNCHANGED <<redis, memory, copy>> /\ pc[d] # "done"
    BY <1>1 DEF Watch, LoadMissing, LoadDeclined, ExecConflicts, RedisThrows, Acquire
  <2>2. d # c => pc'[c] = pc[c]
    BY <1>1 DEF Watch, LoadMissing, LoadDeclined, ExecConflicts, RedisThrows, Acquire, Return,
                FallBack
  <2> QED BY <2>1, <2>2, StoringKeeps DEF Stored
<1>2. CASE LoadAccepted(d)
  <2>1. redis \in Record /\ Marked(redis, c)
    BY <1>2 DEF LoadAccepted, Single
  <2>2. /\ UNCHANGED <<redis, memory>> /\ pc[d] # "done" /\ pc'[d] # "done"
        /\ d # c => pc'[c] = pc[c]
    BY <1>2 DEF LoadAccepted
  <2>3. copy' = [copy EXCEPT ![d] = Applied(redis, d)]
    BY <1>2 DEF LoadAccepted
  <2> HIDE DEF TypeOK
  <2> QED BY <2>1, <2>2, <2>3, CopyingKeeps
<1>3. CASE ExecCommits(d)
  <2>1. /\ UNCHANGED copy /\ pc[d] # "done" /\ redis' = copy[d] /\ memory' = memory
        /\ pc' = [pc EXCEPT ![d] = "done"]
    BY <1>3 DEF ExecCommits, SetRedis, Return
  <2> QED BY <2>1, StoringKeeps DEF Stored
<1>4. CASE ExecReplyLost(d)
  <2>1. /\ UNCHANGED copy /\ pc[d] # "done" /\ redis' = copy[d] /\ memory' = memory
        /\ faults' # 0
    BY <1>4, BoundAssumption DEF ExecReplyLost, SetRedis, Throw
  <2>2. d = c => c \notin WithAccess
    BY <2>1 DEF OneWay
  <2>3. /\ d = c => pc'[c] = "done"
        /\ d # c => pc'[c] = pc[c]
    BY <1>4, <2>2 DEF ExecReplyLost, FallBack, Return
  <2> QED BY <2>1, <2>3, StoringKeeps DEF Stored
<1>5. CASE GetValue(d)
  <2>1. PICK v \in {redis, memory} : ReadUnderLock(d, v)
    BY <1>5 DEF GetValue
  <2>2. UNCHANGED <<redis, memory>> /\ pc[d] # "done" /\ Marked(v, c)
    BY <1>5 DEF GetValue, Single
  <2>3. CASE (Return(d, "missing") \/ Return(d, "declined")) /\ UNCHANGED copy
    <3>1. d # c => pc'[c] = pc[c]
      BY <2>3 DEF Return
    <3> QED BY <2>2, <2>3, <3>1, StoringKeeps DEF Stored
  <2>4. CASE /\ v # NoRecord
             /\ copy' = [copy EXCEPT ![d] = Applied(v, d)]
             /\ pc' = [pc EXCEPT ![d] = "write"]
    <3>1. v \in Record /\ pc'[d] # "done" /\ (d # c => pc'[c] = pc[c])
      BY <2>4
    <3> HIDE DEF TypeOK
    <3> QED BY <2>2, <2>4, <3>1, CopyingKeeps
  <2> QED BY <2>1, <2>3, <2>4 DEF ReadUnderLock
<1>6. CASE SetValue(d)
  <2>1. /\ UNCHANGED copy /\ pc[d] # "done"
        /\ pc' = [pc EXCEPT ![d] = "done"]
        /\ redis' \in {redis, copy[d]} /\ memory' \in {memory, copy[d]}
    BY <1>6 DEF SetValue, SetRedis, Return
  <2> QED BY <2>1, StoringKeeps DEF Stored
<1> QED BY <1>1, <1>2, <1>3, <1>4, <1>5, <1>6 DEF CallStep

\* Exceptions are counted, never forgotten.
LEMMA FaultsGrow == ASSUME TypeOK, [Next]_vars PROVE faults' # 0 \/ faults = 0
<1>1. ASSUME Throw PROVE faults' # 0
  BY <1>1 DEF Throw, TypeOK
<1>2. ASSUME NEW c \in Call, CallStep(c) PROVE UNCHANGED faults \/ Throw
  BY <1>2 DEF CallStep, Watch, LoadMissing, LoadDeclined, LoadAccepted, ExecCommits,
              ExecConflicts, RedisThrows, ExecReplyLost, Acquire, GetValue, SetValue
<1>3. ASSUME DeleteJob PROVE UNCHANGED faults \/ Throw
  BY <1>3 DEF DeleteJob
<1> QED BY <1>1, <1>2, <1>3 DEF Next, vars

LEMMA StepOnceEach == TypeOK /\ OnceEach /\ [Next]_vars => OnceEach'
<1> SUFFICES ASSUME TypeOK, OnceEach, [Next]_vars, NEW c \in Call, OneWay(c)'
             PROVE  Single(c)'
  BY DEF OnceEach
<1>1. Single(c)
  BY FaultsGrow DEF OnceEach, OneWay
<1>2. ASSUME DeleteJob PROVE Single(c)'
  BY <1>1, <1>2, DeletingKeeps DEF DeleteJob, SetRedis
<1>3. ASSUME UNCHANGED vars PROVE Single(c)'
  BY <1>1, <1>3, DeletingKeeps DEF vars
<1> QED BY <1>1, <1>2, <1>3, CallKeeps DEF Next

\* However often an attempt is repeated, its change is applied at most once, with
\* any mix of faults and fallbacks around it.
THEOREM MutatorAtMostOnce == Spec => []AtMostOnce
<1>1. Init => OnceEach
  BY DEF Init, OnceEach, Single, Marked, Untouched
<1>2. OnceEach => AtMostOnce
  BY DEF OnceEach, OneWay, Single, Marked, AtMostOnce, Store
<1> QED BY <1>1, <1>2, InitType, StepType, StepOnceEach, PTL DEF Spec

LEMMA StepFresh == TypeOK /\ FreshInv /\ [Next]_vars => FreshInv'
<1> SUFFICES ASSUME TypeOK, FreshInv, [Next]_vars PROVE FreshInv'
  OBVIOUS
<1> USE DEF FreshInv, TypeOK
<1>1. ASSUME NEW c \in Call, CallStep(c) PROVE FreshInv'
  <2>1. CASE Watch(c)
    BY <2>1 DEF Watch
  <2>2. CASE LoadMissing(c) \/ LoadDeclined(c) \/ LoadAccepted(c)
    BY <2>2 DEF LoadMissing, LoadDeclined, LoadAccepted, Return
  <2>3. CASE ExecCommits(c) \/ ExecReplyLost(c)
    BY <2>3 DEF ExecCommits, ExecReplyLost, SetRedis
  <2>4. CASE ExecConflicts(c) \/ RedisThrows(c)
    BY <2>4 DEF ExecConflicts, RedisThrows, FallBack, Return
  <2>5. CASE Acquire(c)
    BY <2>5 DEF Acquire
  <2>6. CASE GetValue(c)
    BY <2>6 DEF GetValue, ReadUnderLock, Return
  <2>7. CASE SetValue(c)
    BY <2>7 DEF SetValue, SetRedis, Return
  <2> QED BY <1>1, <2>1, <2>2, <2>3, <2>4, <2>5, <2>6, <2>7 DEF CallStep
<1>2. ASSUME DeleteJob PROVE FreshInv'
  BY <1>2 DEF DeleteJob, SetRedis
<1>3. ASSUME UNCHANGED vars PROVE FreshInv'
  BY <1>3 DEF vars
<1> QED BY <1>1, <1>2, <1>3 DEF Next

\* In Redis nobody's change is dropped but by the fallback's plain SET: an EXEC
\* writes what it read, next to whatever fallback writers, deletes and faults.
THEOREM MutatorOnlyFallbackLoses == Spec => OnlyFallbackLoses
<1> DEFINE Dropped == redis # NoRecord /\ redis' # NoRecord /\ \E d \in Call : redis'[d] < redis[d]
           Fallback == \E c \in Call : pc[c] = "write" /\ pc'[c] = "done"
<1>1. TypeOK /\ FreshInv /\ [Next]_vars => (Dropped => Fallback)
  <2> SUFFICES ASSUME TypeOK, FreshInv, [Next]_vars, Dropped PROVE Fallback
    OBVIOUS
  <2>1. redis \in Record /\ \A d \in Call : redis[d] \in Nat
    BY DEF TypeOK, Record
  <2>2. redis' # redis
    BY <2>1
  <2>3. ASSUME NEW c \in Call, ExecCommits(c) \/ ExecReplyLost(c) PROVE FALSE
    <3>1. redis' = Applied(redis, c)
      BY <2>3 DEF FreshInv, ExecCommits, ExecReplyLost, SetRedis
    <3> QED BY <2>1, <3>1, AppliedValue
  <2>4. ASSUME NEW c \in Call, SetValue(c) PROVE Fallback
    BY <2>4 DEF SetValue, Return, TypeOK
  <2>5. ASSUME NEW c \in Call, CallStep(c) PROVE Fallback
    BY <2>2, <2>3, <2>4, <2>5
       DEF CallStep, Watch, LoadMissing, LoadDeclined, LoadAccepted, ExecConflicts,
           RedisThrows, Acquire, GetValue
  <2>6. ~DeleteJob
    BY <2>2 DEF DeleteJob, SetRedis
  <2> QED BY <2>2, <2>5, <2>6 DEF Next, vars
<1>2. Init => FreshInv
  BY DEF Init, FreshInv
<1> QED BY <1>1, <1>2, InitType, StepType, StepFresh, PTL DEF Spec, OnlyFallbackLoses

-----------------------------------------------------------------------------
\* Refinement: with Redis, every step is a step of AtomicRecord or a stutter

\* Answering one call changes the abstract answer of that call only.
LEMMA AnswersUpdate ==
    ASSUME TypeOK, NEW c \in Call,
           NEW what \in {"committed", "missing", "declined", "gaveUp", "unavailable"},
           outcome' = [outcome EXCEPT ![c] = what]
    PROVE  Answers' = [Answers EXCEPT ![c] =
                          IF what = "committed" THEN "committed" ELSE "empty"]
<1> DEFINE shown(o) == IF o \in {"pending", "committed"} THEN o ELSE "empty"
<1>1. Answers = [d \in Call |-> shown(outcome[d])]
  BY DEF Answers
<1>2. Answers' = [d \in Call |-> shown(outcome'[d])]
  BY DEF Answers
<1>3. outcome'[c] = what /\ \A d \in Call \ {c} : outcome'[d] = outcome[d]
  BY DEF TypeOK
<1>4. shown(what) = IF what = "committed" THEN "committed" ELSE "empty"
  OBVIOUS
<1> HIDE DEF shown
<1>5. QED
  BY <1>1, <1>2, <1>3, <1>4

\* Answering with Optional.empty and writing nothing is AReject.
LEMMA RejectMaps ==
    ASSUME IInv, HasRedis, NEW c \in Call, pc[c] # "done", UNCHANGED redis,
           \E what \in {"missing", "declined", "gaveUp", "unavailable"} :
               outcome' = [outcome EXCEPT ![c] = what]
    PROVE  Atomic!AReject(c)
<1>1. Answers' = [Answers EXCEPT ![c] = "empty"]
  BY AnswersUpdate DEF IInv
<1>2. outcome[c] = "pending"
  BY DEF IInv, PathInv
<1>3. Answers[c] = "pending"
  BY <1>2 DEF Answers
<1>4. QED
  BY <1>1, <1>3 DEF Atomic!AReject, Store

\* An EXEC under an unbroken WATCH applies the change to the current record.
LEMMA ExecMaps ==
    ASSUME IInv, NEW c \in Call, pc[c] = "exec", ~broken[c], SetRedis(copy[c])
    PROVE  /\ redis # NoRecord
           /\ redis' = Atomic!Applied(redis, c)
           /\ Answers[c] = "pending"
<1>1. redis # NoRecord /\ redis' = Atomic!Applied(redis, c)
  BY DEF IInv, FreshInv, SetRedis, Applied, Atomic!Applied
<1>2. Answers[c] = "pending"
  BY DEF IInv, PathInv, Answers
<1>3. QED
  BY <1>1, <1>2

LEMMA StepMaps ==
    ASSUME Separated, HasRedis, IInv, [Next]_vars
    PROVE  [Atomic!ANext]_(Atomic!avars)
<1> USE DEF Atomic!ANext, Atomic!avars, Store
<1>1. TypeOK /\ \A c \in Call : pc[c] \in {"watch", "load", "exec", "done"}
  BY DEF IInv, PathInv
<1>2. ASSUME UNCHANGED <<redis, outcome>> PROVE UNCHANGED <<Store, Answers>>
  BY <1>2 DEF Answers
<1>3. ASSUME NEW c \in Call, Watch(c) \/ LoadAccepted(c)
      PROVE  UNCHANGED <<redis, outcome>>
  BY <1>3 DEF Watch, LoadAccepted
<1>4. ASSUME NEW c \in Call, LoadMissing(c) \/ LoadDeclined(c) PROVE Atomic!AReject(c)
  BY <1>4, RejectMaps DEF LoadMissing, LoadDeclined, Return
<1>5. ASSUME NEW c \in Call, ExecConflicts(c)
      PROVE  Atomic!AReject(c) \/ UNCHANGED <<redis, outcome>>
  BY <1>5, RejectMaps DEF ExecConflicts, Return
<1>6. ASSUME NEW c \in Call, RedisThrows(c) PROVE Atomic!AReject(c)
  <2>1. c \notin WithAccess
    BY <1>1, <1>6, BoundAssumption DEF TypeOK, RedisThrows, Throw, Separated
  <2>2. QED
    BY <1>6, <2>1, RejectMaps DEF RedisThrows, FallBack, Return
<1>7. ASSUME NEW c \in Call, ExecCommits(c) PROVE Atomic!ACommit(c)
  <2>1. Answers' = [Answers EXCEPT ![c] = "committed"]
    BY <1>1, <1>7, AnswersUpdate DEF ExecCommits, Return
  <2>2. QED
    BY <1>7, <2>1, ExecMaps DEF ExecCommits, Atomic!ACommit
<1>8. ASSUME NEW c \in Call, ExecReplyLost(c) PROVE Atomic!ACommitUnreported(c)
  <2>1. MaxFaults > 0 /\ c \notin WithAccess
    BY <1>1, <1>8, BoundAssumption DEF TypeOK, ExecReplyLost, Throw, Separated
  <2>2. Answers' = [Answers EXCEPT ![c] = "empty"]
    BY <1>1, <1>8, <2>1, AnswersUpdate DEF ExecReplyLost, FallBack, Return
  <2>3. QED
    BY <1>8, <2>1, <2>2, ExecMaps DEF ExecReplyLost, Atomic!ACommitUnreported
<1>9. ASSUME NEW c \in Call, Acquire(c) \/ GetValue(c) \/ SetValue(c) PROVE FALSE
  BY <1>1, <1>9 DEF Acquire, GetValue, SetValue
<1>10. ASSUME DeleteJob PROVE Atomic!ARemove \/ UNCHANGED <<redis, outcome>>
  BY <1>10 DEF DeleteJob, SetRedis, Atomic!ARemove, Answers
<1>11. ASSUME UNCHANGED vars PROVE UNCHANGED <<redis, outcome>>
  BY <1>11 DEF vars
<1>12. QED
  BY <1>2, <1>3, <1>4, <1>5, <1>6, <1>7, <1>8, <1>9, <1>10, <1>11
     DEF Next, CallStep

LEMMA InitMaps == ASSUME HasRedis, Init PROVE Atomic!AInit
BY DEF Init, Atomic!AInit, Untouched, Atomic!Untouched, Store, Answers

\* With Redis, mutate is atomic: each call takes effect at one instant,
\* completely and once, or not at all, and a deleted record stays deleted.
THEOREM MutatorImplementsAtomicRecord ==
    HasRedis /\ Separated /\ Spec => Atomic!ASafety
<1>1. HasRedis /\ Init => Atomic!AInit
  BY InitMaps
<1>2. Init => IInv
  BY InitInv
<1>3. Separated /\ IInv /\ [Next]_vars => IInv'
  BY StepInv
<1>4. HasRedis /\ Separated /\ IInv /\ [Next]_vars => [Atomic!ANext]_(Atomic!avars)
  BY StepMaps
<1>5. CASE HasRedis /\ Separated
  BY <1>1, <1>2, <1>3, <1>4, <1>5, PTL DEF Spec, Atomic!ASafety
<1>6. QED
  BY <1>5

=============================================================================
