----------------------- MODULE GovernanceIngestProofs -----------------------
(***************************************************************************)
(* Proofs about GovernanceIngest, for any messages, request ids, fates and *)
(* bounds: type correctness; that while Redis keeps its claims no request  *)
(* id becomes two jobs; and that a message is swallowed, or acknowledged,  *)
(* only for the sake of a job whose record is in Redis, of a dead letter,  *)
(* or for one of the reasons the properties name.                          *)
(***************************************************************************)
EXTENDS GovernanceIngest, FiniteSetTheorems, SequenceTheorems, TLAPS

Stage == {"idle", "claim", "submit", "stored", "limit", "done", "failed", "ended"}
Entry == [of : Message \cup {NoMessage}, at : Stage]
Job == [of : Message, life : {"lasting", "limited", "memory", "gone"}]

Busy(t) == thread[t].at \notin {"idle", "ended"}
JobOf(m) == \E j \in 1..Len(jobs) : jobs[j].of = m
Submitted(i) == \E j \in 1..Len(jobs) : IdOf[jobs[j].of] = i

\* A job whose record is not in Redis is one whose first write Redis threw at.
AllRecorded == \A j \in 1..Len(jobs) : InRedis(j) \/ jobs[j].of \in unrecorded

\* What a thread knows of the message in its hand: it is of the thread's broker
\* and not acknowledged; every stage says what the stages before it have done.
Carries(t, m) ==
    /\ Current(t) = m /\ m \in waiting \cap Sent /\ From[m] = t
    /\ At(t, "claim") => t \in Broker /\ IdOf[m] # NoId
    /\ At(t, "limit") => t \in Broker
    /\ t \in Broker /\ ~At(t, "failed") => fate[m] # "invalid"
    /\ t \in Broker /\ thread[t].at \in {"submit", "stored", "limit"} => createJobs
    /\ thread[t].at \in {"stored", "limit"} => JobOf(m)
    /\ t \in Broker /\ At(t, "done") => m \in swallowed \/ (createJobs => JobOf(m))

Empty(t) == ~Busy(t) /\ Current(t) = NoMessage

InHand ==
    /\ waiting \subseteq Sent
    /\ \A t \in Thread : (\E m \in Message : Carries(t, m)) \/ Empty(t)

\* A thread of a broker is about to submit a job for request i.
Submitting(t, i) == At(t, "submit") /\ IdAt(t) = i
Accounted(i) == Submitted(i) \/ i \in burnt \/ \E t \in Broker : Submitting(t, i)

\* Whoever finds a request id taken, in Redis or in memory, finds it accounted for.
ClaimsAccounted ==
    createJobs =>
        /\ \A i \in claims \cup memory : Accounted(i)
        /\ \A m \in swallowed : IdOf[m] \in Id /\ Accounted(IdOf[m])

\* While no claim was lost: whoever is about to submit a job for a request, and
\* whoever has submitted one, has its claim, and is the only one of both.
SoleAttempt(i) ==
    /\ \A j, k \in BrokerJobs(i) : j = k
    /\ BrokerJobs(i) # {} => i \in claims
    /\ \A t \in Broker : Submitting(t, i) => i \in claims /\ BrokerJobs(i) = {}
    /\ \A s, t \in Broker : Submitting(s, i) /\ Submitting(t, i) => s = t

FirstOnly == ~troubled => \A i \in Id : SoleAttempt(i)

-----------------------------------------------------------------------------
(* The jobs.  Every step keeps the jobs there are, whose they are at       *)
(* least, and adds one job or none.                                        *)

Kept == Len(jobs') = Len(jobs) /\ \A j \in 1..Len(jobs) : jobs'[j].of = jobs[j].of

Grown(m) ==
    /\ Len(jobs') = Len(jobs) + 1
    /\ \A j \in 1..Len(jobs) : jobs'[j].of = jobs[j].of
    /\ jobs'[Len(jobs) + 1].of = m

LEMMA JobsTyped ==
    ASSUME jobs \in Seq(Job)
    PROVE  Len(jobs) \in Nat /\ DOMAIN jobs = 1..Len(jobs) /\ \A j \in 1..Len(jobs) : jobs[j] \in Job
BY LenProperties, ElementOfSeq

LEMMA Growing ==
    ASSUME jobs \in Seq(Job), NEW m \in Message, NEW life \in {"lasting", "memory"},
           jobs' = Append(jobs, [of |-> m, life |-> life])
    PROVE  jobs' \in Seq(Job) /\ Grown(m)
<1> DEFINE new == [of |-> m, life |-> life]
<1>1. new \in Job /\ new.of = m
  BY DEF Job
<1> HIDE DEF new
<1>2. jobs' = Append(jobs, new)
  BY DEF new
<1>3. QED
  BY <1>1, <1>2, AppendProperties, JobsTyped DEF Grown

LEMMA Relived ==
    ASSUME jobs \in Seq(Job), NEW j \in 1..Len(jobs), NEW life \in {"lasting", "limited"},
           jobs' = [jobs EXCEPT ![j].life = life]
    PROVE  jobs' \in Seq(Job) /\ Kept
<1> DEFINE new == [jobs[j] EXCEPT !.life = life]
<1>1. new \in Job /\ new.of = jobs[j].of
  BY JobsTyped DEF Job
<1>2. jobs' = [jobs EXCEPT ![j] = new]
  OBVIOUS
<1> HIDE DEF new
<1>3. QED
  BY <1>1, <1>2, ExceptSeq DEF Kept

LEMMA Same == ASSUME jobs' = jobs PROVE Kept
BY DEF Kept

\* Some update at an index that is none of the sequence changes nothing.
LEMMA LifeLimited ==
    ASSUME jobs \in Seq(Job), NEW t \in Thread, LimitLife(t)
    PROVE  jobs' \in Seq(Job) /\ Kept
<1> DEFINE j == OwnJob(t)
<1>1. CASE jobs[j].life = "lasting" /\ j \in 1..Len(jobs)
  <2>1. jobs' = [jobs EXCEPT ![j].life = "limited"]
    BY <1>1 DEF LimitLife
  <2> HIDE DEF j
  <2>2. QED
    BY <1>1, <2>1, Relived
<1>2. CASE jobs[j].life = "lasting" /\ j \notin 1..Len(jobs)
  <2>1. jobs' = [jobs EXCEPT ![j].life = "limited"]
    BY <1>2 DEF LimitLife
  <2> HIDE DEF j
  <2>2. [jobs EXCEPT ![j].life = "limited"] = jobs
    BY <1>2, JobsTyped
  <2>3. QED
    BY <2>1, <2>2, Same
<1>3. CASE jobs[j].life # "lasting"
  <2>1. jobs' = jobs
    BY <1>3 DEF LimitLife
  <2>2. QED
    BY <2>1, Same
<1>4. QED
  BY <1>1, <1>2, <1>3

LEMMA Survivors ==
    ASSUME jobs \in Seq(Job), Restart
    PROVE  jobs' \in Seq(Job) /\ Kept
<1> DEFINE after(j) == IF jobs[j].life = "memory" THEN [jobs[j] EXCEPT !.life = "gone"] ELSE jobs[j]
<1>1. jobs' = [j \in 1..Len(jobs) |-> after(j)]
  BY JobsTyped DEF Restart
<1>2. \A j \in 1..Len(jobs) : after(j) \in Job /\ after(j).of = jobs[j].of
  BY JobsTyped DEF Job
<1> HIDE DEF after
<1>3. jobs' \in [1..Len(jobs) -> Job]
  BY <1>1, <1>2
<1>4. jobs' \in Seq(Job)
  BY <1>3, JobsTyped, SeqDef
<1>5. Len(jobs') = Len(jobs)
  BY <1>3, <1>4, JobsTyped, LenProperties
<1>6. QED
  BY <1>1, <1>2, <1>4, <1>5 DEF Kept

-----------------------------------------------------------------------------
(* Types, together with what the threads carry.                            *)

ThreadTyped == thread \in [Thread -> Entry]
JobsBounded == jobs \in Seq(Job) /\ Len(jobs) <= MaxJobs
SetsTyped ==
    /\ fate \in Fates /\ createJobs \in BOOLEAN
    /\ waiting \subseteq Message /\ claims \subseteq Id /\ memory \subseteq Id
    /\ deadLetters \subseteq Message /\ swallowed \subseteq Message /\ dropped \subseteq Message
    /\ burnt \subseteq Id /\ unrecorded \subseteq Message /\ troubled \in BOOLEAN /\ faults \in 0..MaxFaults

LEMMA TypeParts == TypeOK <=> ThreadTyped /\ JobsBounded /\ SetsTyped
BY DEF TypeOK, ThreadTyped, JobsBounded, SetsTyped, Entry, Stage, Job

LEMMA TypePartsAfter ==
    ThreadTyped' /\ JobsBounded' /\ SetsTyped' => TypeOK'
BY DEF TypeOK, ThreadTyped, JobsBounded, SetsTyped, Entry, Stage, Job

\* thread is a function; entry t of it goes on, or is done with.
LEMMA GoesOn ==
    ASSUME ThreadTyped, NEW t \in Thread, NEW where \in Stage, Goes(t, where)
    PROVE  /\ ThreadTyped'
           /\ thread'[t].of = thread[t].of /\ thread'[t].at = where
           /\ \A s \in Thread \ {t} : thread'[s] = thread[s]
<1> DEFINE to == [thread[t] EXCEPT !.at = where]
<1>1. to \in Entry /\ to.of = thread[t].of /\ to.at = where
  BY DEF ThreadTyped, Entry
<1>2. thread' = [thread EXCEPT ![t] = to]
  BY DEF Goes
<1> HIDE DEF to
<1>3. QED
  BY <1>1, <1>2 DEF ThreadTyped

LEMMA IdleEntry == Idle \in Entry /\ Idle.at = "idle" /\ Idle.of = NoMessage
BY DEF Idle, Entry, Stage

LEMMA EndedThread ==
    ASSUME ThreadTyped, NEW t \in Thread, NEW left, Ended(t, left)
    PROVE  /\ ThreadTyped'
           /\ Empty(t)' /\ waiting' = left
           /\ \A s \in Thread \ {t} : thread'[s] = thread[s]
BY IdleEntry DEF ThreadTyped, Ended, Empty, Busy, Current

LEMMA JobsStay ==
    ASSUME jobs \in Seq(Job), Kept \/ (\E m : Grown(m)), NEW m
    PROVE  JobOf(m) => JobOf(m)'
<1> USE JobsTyped
<1>1. CASE Kept
  BY <1>1 DEF Kept, JobOf
<1>2. CASE \E k : Grown(k)
  BY <1>2 DEF Grown, JobOf
<1>3. QED
  BY <1>1, <1>2

\* What a step of thread t leaves to the other threads.
OthersKept(t) ==
    /\ \A s \in Thread \ {t} : thread'[s] = thread[s]
    /\ waiting' = waiting \/ (Busy(t) /\ waiting' = waiting \ {Current(t)})
    /\ swallowed \subseteq swallowed' /\ (Kept \/ \E m : Grown(m))
    /\ fate' = fate /\ createJobs' = createJobs

LEMMA OthersCarry ==
    ASSUME InHand, jobs \in Seq(Job), NEW t \in Thread, OthersKept(t), NEW s \in Thread, s # t
    PROVE  (\E m \in Message : Carries(s, m)') \/ Empty(s)'
<1>1. thread'[s] = thread[s]
  BY DEF OthersKept
<1>2. CASE Empty(s)
  BY <1>1, <1>2 DEF Empty, Busy, Current
<1>3. CASE ~Empty(s)
  <2>1. PICK m \in Message : Carries(s, m)
    BY <1>3 DEF InHand
  <2>2. Busy(t) => From[Current(t)] = t
    BY DEF InHand, Carries, Empty
  <2>3. m \in waiting'
    BY <2>1, <2>2 DEF OthersKept, Carries
  <2>4. JobOf(m) => JobOf(m)'
    BY JobsStay DEF OthersKept
  <2>5. Carries(s, m)'
    BY <1>1, <2>1, <2>3, <2>4 DEF Carries, At, Sent, OthersKept, Current
  <2>6. QED
    BY <2>5
<1>4. QED
  BY <1>2, <1>3

\* So InHand is a matter of the thread that makes the step.
LEMMA HandKept ==
    ASSUME InHand, jobs \in Seq(Job), NEW t \in Thread, OthersKept(t),
           (\E m \in Message : Carries(t, m)') \/ Empty(t)'
    PROVE  InHand'
<1>1. ASSUME NEW s \in Thread PROVE (\E m \in Message : Carries(s, m)') \/ Empty(s)'
  BY <1>1, OthersCarry
<1>2. waiting' \subseteq Sent'
  BY DEF InHand, OthersKept, Sent
<1>3. QED
  BY <1>1, <1>2 DEF InHand

TypeInv == TypeOK /\ InHand

\* What TypeInv says of a thread that is busy.
LEMMA HandTyped ==
    ASSUME TypeInv, NEW t \in Thread, Busy(t)
    PROVE  /\ Current(t) \in Message /\ From[Current(t)] = t
           /\ IdAt(t) # NoId => IdAt(t) \in Id
           /\ Carries(t, Current(t))
<1>1. PICK m \in Message : Carries(t, m)
  BY DEF TypeInv, InHand, Empty
<1>2. QED
  BY <1>1 DEF Carries, IdAt, Id

LEMMA InitTypeInv == Init => TypeInv
<1> SUFFICES ASSUME Init PROVE TypeInv
  OBVIOUS
<1> USE IngestAssumption DEF Init, history
<1>1. ThreadTyped
  BY IdleEntry DEF ThreadTyped
<1>2. JobsBounded
  BY EmptySeq DEF JobsBounded
<1>3. SetsTyped
  <2>1. waiting \subseteq Message
    BY DEF Sent
  <2>2. faults \in 0..MaxFaults
    OBVIOUS
  <2>3. QED
    BY <2>1, <2>2 DEF SetsTyped
<1>4. InHand
  BY DEF InHand, Empty, Busy, Current, Idle
<1>5. QED
  BY <1>1, <1>2, <1>3, <1>4, TypeParts DEF TypeInv

\* A step that leaves the jobs alone.
LEMMA JobsUntouched == ASSUME JobsBounded, jobs' = jobs PROVE JobsBounded'
BY DEF JobsBounded

LEMMA TakeTypeInv ==
    ASSUME TypeInv, NEW t \in Thread, NEW m \in Message, Take(t, m) PROVE TypeInv'
<1> USE DEF history
<1>0. ThreadTyped /\ JobsBounded /\ SetsTyped /\ jobs \in Seq(Job)
  BY TypeParts DEF TypeInv, JobsBounded
<1> DEFINE at == IF t = "api" THEN "submit" ELSE IF fate[m] = "invalid" THEN "failed"
                 ELSE IF IdOf[m] = NoId THEN Onwards ELSE "claim"
           to == [of |-> m, at |-> at]
<1>1. at \in Stage /\ to \in Entry /\ to.of = m /\ to.at = at
  BY DEF Stage, Entry, Onwards
<1>2. thread' = [thread EXCEPT ![t] = to]
  BY DEF Take
<1>3. ThreadTyped' /\ thread'[t] = to /\ \A s \in Thread \ {t} : thread'[s] = thread[s]
  <2> HIDE DEF to
  <2>1. QED
    BY <1>0, <1>1, <1>2 DEF ThreadTyped
<1>4. SetsTyped' /\ JobsBounded'
  BY <1>0, JobsUntouched DEF SetsTyped, Take
<1>5. OthersKept(t)
  BY <1>3, Same DEF OthersKept, Take
<1>6. m \in Sent
  BY DEF Take, TypeInv, InHand
<1>7. t = "api" \/ t \in Broker
  BY DEF Thread
<1>8. Carries(t, m)'
  <2>1. Current(t)' = m /\ thread'[t].at = at
    BY <1>1, <1>3 DEF Current
  <2>2. m \in waiting' /\ m \in Sent' /\ From[m] = t
    BY <1>6 DEF Take, Sent
  <2>3. fate' = fate /\ createJobs' = createJobs
    BY DEF Take
  <2>4. "api" \notin Broker
    BY DEF Broker
  <2>5. QED
    BY <2>1, <2>2, <2>3, <2>4, <1>7 DEF Carries, At, Onwards
<1>9. InHand'
  BY <1>0, <1>5, <1>8, HandKept DEF TypeInv
<1>10. QED
  BY <1>3, <1>4, <1>9, TypePartsAfter DEF TypeInv

LEMMA TypeInvParts ==
    ASSUME TypeInv
    PROVE  ThreadTyped /\ JobsBounded /\ SetsTyped /\ jobs \in Seq(Job) /\ InHand
BY TypeParts DEF TypeInv, JobsBounded

\* A thread with a message in its hand goes on with it.
LEMMA HandGoesOn ==
    ASSUME TypeInv, NEW t \in Thread, Busy(t), NEW where \in Stage, Goes(t, where),
           waiting' = waiting, fate' = fate, createJobs' = createJobs,
           swallowed \subseteq swallowed', Kept \/ \E m : Grown(m)
    PROVE  /\ ThreadTyped' /\ OthersKept(t)
           /\ thread'[t].at = where /\ Current(t)' = Current(t)
           /\ \E m \in Message :
                 /\ Carries(t, m) /\ Current(t) = m
                 /\ Current(t)' = m /\ m \in waiting' \cap Sent' /\ From[m] = t
                 /\ JobOf(m) => JobOf(m)'
<1>1. /\ ThreadTyped' /\ thread'[t].of = thread[t].of /\ thread'[t].at = where
      /\ \A s \in Thread \ {t} : thread'[s] = thread[s]
  BY TypeInvParts, GoesOn
<1>2. OthersKept(t)
  BY <1>1 DEF OthersKept
<1>3. PICK m \in Message : Carries(t, m)
  BY TypeInvParts DEF InHand, Empty
<1>4. JobOf(m) => JobOf(m)'
  BY TypeInvParts, JobsStay
<1>5. QED
  BY <1>1, <1>2, <1>3, <1>4 DEF Carries, Current, Sent

LEMMA TypeInvAfter ==
    ASSUME TypeInv, NEW t \in Thread, OthersKept(t), ThreadTyped', JobsBounded', SetsTyped',
           (\E m \in Message : Carries(t, m)') \/ Empty(t)'
    PROVE  TypeInv'
<1>1. InHand'
  BY TypeInvParts, HandKept
<1>2. QED
  BY <1>1, TypePartsAfter DEF TypeInv

LEMMA ClaimTypeInv == ASSUME TypeInv, NEW t \in Thread, Claim(t) PROVE TypeInv'
<1> USE DEF history
<1>0. ThreadTyped /\ JobsBounded /\ SetsTyped /\ Busy(t)
  BY TypeInvParts DEF Claim, At, Busy
<1> DEFINE where == IF IdAt(t) \notin claims THEN Onwards ELSE "done"
<1>1. where \in Stage /\ Goes(t, where)
  BY DEF Stage, Claim, Claimed, Onwards
<1>2. Carries(t, Current(t)) /\ IdAt(t) # NoId /\ IdAt(t) \in Id /\ Current(t) \in Message
  BY <1>0, HandTyped DEF Claim, Carries, IdAt
<1>3. SetsTyped'
  BY <1>0, <1>2 DEF SetsTyped, Claim, Claimed
<1>4. PICK m \in Message :
          /\ ThreadTyped' /\ OthersKept(t) /\ thread'[t].at = where
          /\ Carries(t, m) /\ Current(t) = m
          /\ Current(t)' = m /\ m \in waiting' \cap Sent' /\ From[m] = t
  <2> HIDE DEF where
  <2>1. QED
    BY <1>0, <1>1, Same, HandGoesOn DEF Claim, Claimed
<1>5. Carries(t, m)'
  BY <1>1, <1>4 DEF Claim, Claimed, Carries, At, Onwards
<1>6. QED
  BY <1>0, <1>3, <1>4, <1>5, JobsUntouched, TypeInvAfter DEF Claim

LEMMA ClaimFromMemoryTypeInv == ASSUME TypeInv, NEW t \in Thread, ClaimFromMemory(t) PROVE TypeInv'
<1>0. ThreadTyped /\ JobsBounded /\ SetsTyped /\ Busy(t)
  BY TypeInvParts DEF ClaimFromMemory, At, Busy
<1> DEFINE where == IF IdAt(t) \notin memory THEN Onwards ELSE "done"
<1>1. where \in Stage /\ Goes(t, where)
  BY DEF Stage, ClaimFromMemory, Claimed, Onwards
<1>2. Carries(t, Current(t)) /\ IdAt(t) # NoId /\ IdAt(t) \in Id /\ Current(t) \in Message
  BY <1>0, HandTyped DEF ClaimFromMemory, Carries, IdAt
<1>3. SetsTyped'
  BY <1>0, <1>2, IngestAssumption DEF SetsTyped, ClaimFromMemory, Claimed, Fault
<1>4. PICK m \in Message :
          /\ ThreadTyped' /\ OthersKept(t) /\ thread'[t].at = where
          /\ Carries(t, m) /\ Current(t) = m
          /\ Current(t)' = m /\ m \in waiting' \cap Sent' /\ From[m] = t
  <2> HIDE DEF where
  <2>1. QED
    BY <1>0, <1>1, Same, HandGoesOn DEF ClaimFromMemory, Claimed
<1>5. Carries(t, m)'
  BY <1>1, <1>4 DEF ClaimFromMemory, Claimed, Carries, At, Onwards
<1>6. QED
  BY <1>0, <1>3, <1>4, <1>5, JobsUntouched, TypeInvAfter DEF ClaimFromMemory

\* Both ways of storing a record.
LEMMA StoringTypeInv ==
    ASSUME TypeInv, NEW t \in Thread, NEW life \in {"lasting", "memory"},
           CanStore(t), Stored(t, life), Goes(t, "stored"), faults' \in 0..MaxFaults,
           unrecorded' \in {unrecorded, unrecorded \cup {Current(t)}},
           UNCHANGED <<fate, createJobs, waiting, claims, memory, deadLetters, swallowed, dropped,
                       burnt, troubled>>
    PROVE  TypeInv' /\ Grown(Current(t)) /\ Busy(t)
<1> USE DEF history
<1>0. ThreadTyped /\ JobsBounded /\ SetsTyped /\ jobs \in Seq(Job) /\ Busy(t)
  BY TypeInvParts DEF CanStore, At, Busy
<1>1. Carries(t, Current(t)) /\ Current(t) \in Message
  BY <1>0, HandTyped
<1>2. jobs' \in Seq(Job) /\ Grown(Current(t))
  BY <1>0, <1>1, Growing DEF Stored
<1>3. JobsBounded'
  BY <1>2, JobsTyped, <1>0, IngestAssumption DEF CanStore, Grown, JobsBounded
<1>4. SetsTyped'
  BY <1>0, <1>1 DEF SetsTyped
<1>5. PICK m \in Message :
          /\ ThreadTyped' /\ OthersKept(t) /\ thread'[t].at = "stored"
          /\ Carries(t, m) /\ Current(t) = m
          /\ Current(t)' = m /\ m \in waiting' \cap Sent' /\ From[m] = t
  BY <1>0, <1>2, HandGoesOn DEF Stage
<1>6. JobOf(m)'
  BY <1>0, <1>2, <1>5, JobsTyped DEF Grown, JobOf
<1>7. Carries(t, m)'
  BY <1>5, <1>6 DEF CanStore, Carries, At
<1>8. QED
  BY <1>0, <1>2, <1>3, <1>4, <1>5, <1>7, TypeInvAfter

LEMMA StoreTypeInv ==
    ASSUME TypeInv, NEW t \in Thread, Store(t)
    PROVE  TypeInv' /\ Grown(Current(t)) /\ Busy(t)
<1>1. faults' \in 0..MaxFaults
  BY TypeInvParts DEF SetsTyped, Store
<1>2. QED
  BY <1>1, StoringTypeInv DEF Store, history

LEMMA StoreInMemoryTypeInv ==
    ASSUME TypeInv, NEW t \in Thread, StoreInMemory(t)
    PROVE  TypeInv' /\ Grown(Current(t)) /\ Busy(t)
<1>1. faults' \in 0..MaxFaults
  BY TypeInvParts, IngestAssumption DEF SetsTyped, StoreInMemory, Fault
<1>2. QED
  BY <1>1, StoringTypeInv DEF StoreInMemory

LEMMA ThrowTypeInv == ASSUME TypeInv, NEW t \in Thread, Throw(t) PROVE TypeInv'
<1>0. ThreadTyped /\ JobsBounded /\ SetsTyped /\ Busy(t)
  BY TypeInvParts DEF Throw, At, Busy
<1>1. IdAt(t) # NoId => IdAt(t) \in Id
  BY <1>0, HandTyped
<1>2. SetsTyped'
  BY <1>0, <1>1 DEF SetsTyped, Throw
<1>3. PICK m \in Message :
          /\ ThreadTyped' /\ OthersKept(t) /\ thread'[t].at = "failed"
          /\ Carries(t, m)
          /\ Current(t)' = m /\ m \in waiting' \cap Sent' /\ From[m] = t
  BY <1>0, Same, HandGoesOn DEF Throw, Stage
<1>4. Carries(t, m)'
  BY <1>3 DEF Throw, Carries, At
<1>5. QED
  BY <1>0, <1>2, <1>3, <1>4, JobsUntouched, TypeInvAfter DEF Throw

LEMMA DispatchTypeInv == ASSUME TypeInv, NEW t \in Thread, Dispatch(t) PROVE TypeInv'
<1> USE DEF history
<1>0. ThreadTyped /\ JobsBounded /\ SetsTyped /\ Busy(t)
  BY TypeInvParts DEF Dispatch, At, Busy
<1> DEFINE where == IF fate[Current(t)] = "late" THEN "failed"
                    ELSE IF t = "api" THEN "done" ELSE "limit"
<1>1. where \in Stage /\ Goes(t, where)
  BY DEF Stage, Dispatch
<1>2. IdAt(t) # NoId => IdAt(t) \in Id
  BY <1>0, HandTyped
<1>3. SetsTyped'
  BY <1>0, <1>2 DEF SetsTyped, Dispatch
<1>4. PICK m \in Message :
          /\ ThreadTyped' /\ OthersKept(t) /\ thread'[t].at = where
          /\ Carries(t, m) /\ Current(t) = m
          /\ Current(t)' = m /\ m \in waiting' \cap Sent' /\ From[m] = t
          /\ JobOf(m) => JobOf(m)'
  <2> HIDE DEF where
  <2>1. QED
    BY <1>0, <1>1, Same, HandGoesOn DEF Dispatch
<1>5. t # "api" => t \in Broker
  BY DEF Thread
<1>6. "api" \notin Broker
  BY DEF Broker
<1>7. Carries(t, m)'
  BY <1>4, <1>5, <1>6 DEF Dispatch, Carries, At
<1>8. QED
  BY <1>0, <1>3, <1>4, <1>7, JobsUntouched, TypeInvAfter DEF Dispatch

LEMMA LimitLifeTypeInv == ASSUME TypeInv, NEW t \in Thread, LimitLife(t) PROVE TypeInv' /\ Kept
<1> USE DEF history
<1>0. ThreadTyped /\ JobsBounded /\ SetsTyped /\ jobs \in Seq(Job) /\ Busy(t)
  BY TypeInvParts DEF LimitLife, At, Busy
<1>1. jobs' \in Seq(Job) /\ Kept
  BY <1>0, LifeLimited
<1>2. JobsBounded'
  BY <1>0, <1>1 DEF JobsBounded, Kept
<1>3. SetsTyped'
  BY <1>0 DEF SetsTyped, LimitLife
<1>4. PICK m \in Message :
          /\ ThreadTyped' /\ OthersKept(t) /\ thread'[t].at = "done"
          /\ Carries(t, m)
          /\ Current(t)' = m /\ m \in waiting' \cap Sent' /\ From[m] = t
          /\ JobOf(m) => JobOf(m)'
  BY <1>0, <1>1, HandGoesOn DEF LimitLife, Stage
<1>5. Carries(t, m)'
  BY <1>4 DEF LimitLife, Carries, At
<1>6. QED
  BY <1>1, <1>2, <1>3, <1>4, <1>5, TypeInvAfter

\* A thread is done with its message, which may stay with the broker.
LEMMA HandEnds ==
    ASSUME TypeInv, NEW t \in Thread, Busy(t), NEW left, Ended(t, left),
           left \in {waiting, waiting \ {Current(t)}},
           SetsTyped', swallowed' = swallowed, jobs' = jobs, fate' = fate, createJobs' = createJobs
    PROVE  TypeInv'
<1>1. /\ ThreadTyped' /\ Empty(t)' /\ waiting' = left
      /\ \A s \in Thread \ {t} : thread'[s] = thread[s]
  BY TypeInvParts, EndedThread
<1>2. OthersKept(t)
  BY <1>1, Same DEF OthersKept
<1>3. QED
  BY <1>1, <1>2, TypeInvParts, JobsUntouched, TypeInvAfter

LEMMA AcknowledgeTypeInv == ASSUME TypeInv, NEW t \in Thread, Acknowledge(t) PROVE TypeInv'
<1> USE DEF history
<1>1. SetsTyped' /\ Busy(t)
  BY TypeInvParts DEF SetsTyped, Acknowledge, Ended, At, Busy
<1>2. QED
  BY <1>1, HandEnds DEF Acknowledge

LEMMA AcknowledgeFailsTypeInv ==
    ASSUME TypeInv, NEW t \in Thread, AcknowledgeFails(t) PROVE TypeInv'
<1> USE DEF history
<1>0. Busy(t)
  BY DEF AcknowledgeFails, At, Busy
<1>1. faults' \in 0..MaxFaults
  BY TypeInvParts, IngestAssumption DEF SetsTyped, AcknowledgeFails, Fault
<1>2. SetsTyped'
  BY <1>1, TypeInvParts DEF SetsTyped, AcknowledgeFails, Ended
<1>3. CASE Goes(t, "failed") /\ UNCHANGED waiting
  <2>1. PICK m \in Message :
            /\ ThreadTyped' /\ OthersKept(t) /\ thread'[t].at = "failed"
            /\ Carries(t, m)
            /\ Current(t)' = m /\ m \in waiting' \cap Sent' /\ From[m] = t
    BY <1>0, <1>3, Same, HandGoesOn DEF AcknowledgeFails, Stage
  <2>2. Carries(t, m)'
    BY <2>1 DEF AcknowledgeFails, Carries, At
  <2>3. QED
    BY <1>2, <2>1, <2>2, TypeInvParts, JobsUntouched, TypeInvAfter DEF AcknowledgeFails
<1>4. CASE Ended(t, waiting)
  BY <1>0, <1>2, <1>4, HandEnds DEF AcknowledgeFails
<1>5. QED
  BY <1>3, <1>4 DEF AcknowledgeFails

LEMMA DeadLetterTypeInv == ASSUME TypeInv, NEW t \in Thread, DeadLetter(t) PROVE TypeInv'
<1> USE DEF history
<1>0. Busy(t)
  BY DEF DeadLetter, At, Busy
<1>1. Current(t) \in Message
  BY <1>0, HandTyped
<1>2. SetsTyped'
  BY <1>1, TypeInvParts DEF SetsTyped, DeadLetter, Ended
<1>3. QED
  BY <1>0, <1>2, HandEnds DEF DeadLetter

LEMMA DeadLetterFailsTypeInv ==
    ASSUME TypeInv, NEW t \in Thread, DeadLetterFails(t) PROVE TypeInv'
<1>0. Busy(t)
  BY DEF DeadLetterFails, At, Busy
<1>1. Current(t) \in Message
  BY <1>0, HandTyped
<1>2. faults' \in 0..MaxFaults
  BY TypeInvParts, IngestAssumption DEF SetsTyped, DeadLetterFails, Fault
<1>3. SetsTyped'
  BY <1>1, <1>2, TypeInvParts DEF SetsTyped, DeadLetterFails, Ended
<1>4. QED
  BY <1>0, <1>3, HandEnds DEF DeadLetterFails

LEMMA ListenerEndsTypeInv == ASSUME TypeInv, ListenerEnds PROVE TypeInv'
<1> USE DEF history
<1> DEFINE t == "pulsar"
           over == [of |-> NoMessage, at |-> "ended"]
<1>0. t \in Thread
  BY DEF Thread, Broker
<1>1. deadLetters' \subseteq Message
  <2>1. CASE At(t, "idle")
    BY <2>1, TypeInvParts DEF SetsTyped, ListenerEnds, At
  <2>2. CASE At(t, "failed")
    <3>1. Current(t) \in Message
      BY <1>0, <2>2, HandTyped DEF At, Busy
    <3>2. QED
      BY <2>2, <3>1, TypeInvParts DEF SetsTyped, ListenerEnds, At
  <2>3. QED
    BY <2>1, <2>2 DEF ListenerEnds
<1>2. over \in Entry /\ over.at = "ended" /\ over.of = NoMessage
  BY DEF Entry, Stage
<1>3. thread' = [thread EXCEPT ![t] = over]
  BY DEF ListenerEnds
<1>4. /\ ThreadTyped' /\ thread'[t].at = "ended" /\ thread'[t].of = NoMessage
      /\ \A s \in Thread \ {t} : thread'[s] = thread[s]
  <2> HIDE DEF over, t
  <2>1. QED
    BY <1>0, <1>2, <1>3, TypeInvParts DEF ThreadTyped
<1>5. faults' \in 0..MaxFaults
  BY TypeInvParts, IngestAssumption DEF SetsTyped, ListenerEnds, Fault
<1>6. SetsTyped'
  BY <1>1, <1>5, TypeInvParts DEF SetsTyped, ListenerEnds
<1>7. OthersKept(t)
  BY <1>4, Same DEF OthersKept, ListenerEnds
<1>8. Empty(t)'
  BY <1>4 DEF Empty, Busy, Current
<1> HIDE DEF t
<1>9. QED
  BY <1>0, <1>4, <1>6, <1>7, <1>8, TypeInvParts, JobsUntouched, TypeInvAfter DEF ListenerEnds

\* A step of no thread.
LEMMA AllThreadsKept ==
    ASSUME TypeInv, thread' = thread, waiting' = waiting, swallowed' = swallowed,
           fate' = fate, createJobs' = createJobs, Kept, JobsBounded', SetsTyped'
    PROVE  TypeInv'
<1> DEFINE t == "api"
<1>1. t \in Thread /\ OthersKept(t)
  BY DEF OthersKept, Thread
<1>2. (\E m \in Message : Carries(t, m)') \/ Empty(t)'
  <2>1. CASE Empty(t)
    BY <2>1 DEF Empty, Busy, Current
  <2>2. CASE ~Empty(t)
    <3>1. PICK m \in Message : Carries(t, m)
      BY <1>1, <2>2, TypeInvParts DEF InHand
    <3>2. JobOf(m) => JobOf(m)'
      BY TypeInvParts, JobsStay
    <3>3. Carries(t, m)'
      BY <3>1, <3>2 DEF Carries, At, Sent, Current
    <3>4. QED
      BY <3>3
  <2>3. QED
    BY <2>1, <2>2
<1>3. ThreadTyped'
  BY TypeInvParts DEF ThreadTyped
<1> HIDE DEF t
<1>4. QED
  BY <1>1, <1>2, <1>3, TypeInvAfter

LEMMA AdvanceTypeInv ==
    ASSUME TypeInv, NEW j \in 1..Len(jobs), Advance(j) PROVE TypeInv' /\ Kept
<1> USE DEF history
<1>1. jobs' \in Seq(Job) /\ Kept
  BY TypeInvParts, Relived DEF Advance
<1>2. JobsBounded'
  BY <1>1, TypeInvParts DEF JobsBounded, Kept
<1>3. SetsTyped'
  BY TypeInvParts DEF SetsTyped, Advance
<1>4. QED
  BY <1>1, <1>2, <1>3, AllThreadsKept DEF Advance

LEMMA ForgetTypeInv == ASSUME TypeInv, NEW i \in Id, Forget(i) PROVE TypeInv'
<1>1. faults' \in 0..MaxFaults
  BY TypeInvParts, IngestAssumption DEF SetsTyped, Forget, Fault
<1>2. SetsTyped'
  BY <1>1, TypeInvParts DEF SetsTyped, Forget
<1>3. QED
  BY <1>2, Same, TypeInvParts, JobsUntouched, AllThreadsKept DEF Forget

LEMMA RestartTypeInv == ASSUME TypeInv, Restart PROVE TypeInv' /\ Kept
<1>1. jobs' \in Seq(Job) /\ Kept
  BY TypeInvParts, Survivors
<1>2. JobsBounded'
  BY <1>1, TypeInvParts DEF JobsBounded, Kept
<1>3. ASSUME NEW t \in Broker, At(t, "submit"), IdAt(t) # NoId PROVE IdAt(t) \in Id
  <2>1. t \in Thread /\ Busy(t)
    BY <1>3 DEF Thread, At, Busy
  <2>2. QED
    BY <1>3, <2>1, HandTyped
<1>4. burnt' \subseteq Id
  BY <1>3, TypeInvParts DEF Restart, SetsTyped
<1>5. faults' \in 0..MaxFaults
  BY TypeInvParts, IngestAssumption DEF SetsTyped, Restart, Fault
<1>6. SetsTyped'
  BY <1>4, <1>5, TypeInvParts DEF SetsTyped, Restart
<1>7. ThreadTyped' /\ \A t \in Thread : Empty(t)'
  BY IdleEntry DEF Restart, ThreadTyped, Empty, Busy, Current
<1>8. InHand'
  BY <1>7, TypeInvParts DEF InHand, Sent, Restart
<1>9. QED
  BY <1>1, <1>2, <1>6, <1>7, <1>8, TypePartsAfter DEF TypeInv

LEMMA StutterTypeInv == ASSUME TypeInv, UNCHANGED vars PROVE TypeInv'
<1>1. SetsTyped' /\ JobsBounded'
  BY TypeInvParts DEF SetsTyped, JobsBounded, vars, history
<1>2. QED
  BY <1>1, Same, AllThreadsKept DEF vars, history

LEMMA StepTypeInv == ASSUME TypeInv, NEW t \in Thread, Step(t) PROVE TypeInv'
BY TakeTypeInv, ClaimTypeInv, ClaimFromMemoryTypeInv, StoreTypeInv, StoreInMemoryTypeInv,
   ThrowTypeInv, DispatchTypeInv, LimitLifeTypeInv, AcknowledgeTypeInv, AcknowledgeFailsTypeInv,
   DeadLetterTypeInv, DeadLetterFailsTypeInv DEF Step

LEMMA NextTypeInv == ASSUME TypeInv, [Next]_vars PROVE TypeInv'
BY StepTypeInv, AdvanceTypeInv, ForgetTypeInv, ListenerEndsTypeInv, RestartTypeInv, StutterTypeInv
   DEF Next

LEMMA AlwaysTypeInv == Spec => []TypeInv
BY InitTypeInv, NextTypeInv, PTL DEF Spec

\* The variables keep their types, whatever fails and whenever the process restarts.
THEOREM IngestTypeOK == Spec => []TypeOK
<1>1. TypeInv => TypeOK
  BY DEF TypeInv
<1>2. QED
  BY <1>1, AlwaysTypeInv, PTL

-----------------------------------------------------------------------------
(* Nothing is lost.                                                        *)

\* What no step takes back.
Onward ==
    /\ fate' = fate /\ createJobs' = createJobs
    /\ swallowed \subseteq swallowed' /\ deadLetters \subseteq deadLetters'
    /\ dropped \subseteq dropped' /\ burnt \subseteq burnt'
    /\ unrecorded \subseteq unrecorded'
    /\ Kept \/ \E m : Grown(m)

LEMMA StepOnward == ASSUME TypeInv, NEW t \in Thread, Step(t) PROVE Onward
<1> USE Same DEF Onward, history
<1>1. CASE \E m \in Message : Take(t, m)
  BY <1>1 DEF Take
<1>2. CASE Claim(t) \/ ClaimFromMemory(t)
  BY <1>2 DEF Claim, ClaimFromMemory, Claimed
<1>3. CASE Store(t)
  BY <1>3, StoreTypeInv DEF Store
<1>4. CASE StoreInMemory(t)
  BY <1>4, StoreInMemoryTypeInv DEF StoreInMemory
<1>5. CASE Throw(t) \/ Dispatch(t)
  BY <1>5 DEF Throw, Dispatch
<1>6. CASE LimitLife(t)
  BY <1>6, LimitLifeTypeInv DEF LimitLife
<1>7. CASE Acknowledge(t) \/ AcknowledgeFails(t)
  BY <1>7 DEF Acknowledge, AcknowledgeFails
<1>8. CASE DeadLetter(t) \/ DeadLetterFails(t)
  BY <1>8 DEF DeadLetter, DeadLetterFails
<1>9. QED
  BY <1>1, <1>2, <1>3, <1>4, <1>5, <1>6, <1>7, <1>8 DEF Step

LEMMA NextOnward == ASSUME TypeInv, [Next]_vars PROVE Onward
<1> USE DEF Onward, history
<1>1. CASE \E t \in Thread : Step(t)
  BY <1>1, StepOnward
<1>2. CASE \E j \in 1..Len(jobs) : Advance(j)
  BY <1>2, AdvanceTypeInv DEF Advance
<1>3. CASE \E i \in Id : Forget(i)
  BY <1>3, Same DEF Forget
<1>4. CASE ListenerEnds
  BY <1>4, Same DEF ListenerEnds
<1>5. CASE Restart
  BY <1>5, RestartTypeInv DEF Restart
<1>6. CASE UNCHANGED vars
  BY <1>6, Same DEF vars
<1>7. QED
  BY <1>1, <1>2, <1>3, <1>4, <1>5, <1>6 DEF Next

Dealt(m) ==
    \/ m \in deadLetters \cup swallowed
    \/ m \in dropped /\ From[m] = "pulsar"
    \/ IF createJobs THEN JobOf(m) ELSE fate[m] # "invalid"

LEMMA DealtForGood ==
    ASSUME jobs \in Seq(Job), Onward, NEW m, Dealt(m)
    PROVE  Dealt(m)'
BY JobsStay DEF Dealt, Onward

\* A thread that lets go of a broker's message has dealt with it.
LEMMA StepLetsGo ==
    ASSUME TypeInv, NEW t \in Thread, Step(t),
           NEW m \in waiting \ waiting', From[m] \in Broker
    PROVE  Dealt(m)'
<1> USE DEF history
<1>1. CASE Acknowledge(t)
  <2>1. Busy(t) /\ m = Current(t)
    BY <1>1 DEF Acknowledge, Ended, At, Busy
  <2>2. Carries(t, m)
    BY <2>1, HandTyped
  <2>3. Dealt(m)
    BY <1>1, <2>2 DEF Acknowledge, Carries, Dealt, At
  <2>4. QED
    BY <2>3, DealtForGood, StepOnward, TypeInvParts
<1>2. CASE DeadLetter(t)
  BY <1>2 DEF DeadLetter, Ended, Dealt
<1>3. CASE DeadLetterFails(t)
  <2>1. Busy(t) /\ m = Current(t) /\ t = "pulsar" /\ m \in dropped'
    BY <1>3 DEF DeadLetterFails, Ended, At, Busy
  <2>2. Carries(t, m)
    BY <2>1, HandTyped
  <2>3. QED
    BY <2>1, <2>2 DEF Carries, Dealt
<1>4. CASE AcknowledgeFails(t)
  BY <1>4 DEF AcknowledgeFails, Ended
<1>5. CASE \E k \in Message : Take(t, k)
  BY <1>5 DEF Take
<1>6. CASE \/ Claim(t) \/ ClaimFromMemory(t) \/ Store(t) \/ StoreInMemory(t)
           \/ Throw(t) \/ Dispatch(t) \/ LimitLife(t)
  BY <1>6 DEF Claim, ClaimFromMemory, Store, StoreInMemory, Throw, Dispatch, LimitLife
<1>7. QED
  BY <1>1, <1>2, <1>3, <1>4, <1>5, <1>6 DEF Step

\* Nor does a restart, which ends an operator's request only.
LEMMA RestartLetsGo ==
    ASSUME TypeInv, Restart, NEW m \in waiting \ waiting'
    PROVE  From[m] \notin Broker
<1> DEFINE t == "api"
<1>1. t \in Thread /\ t \notin Broker
  BY DEF Thread, Broker
<1>2. m = Current(t) /\ m \in Message
  BY TypeInvParts DEF Restart, SetsTyped
<1>3. From[m] = t
  <2> HIDE DEF t
  <2>1. QED
    BY <1>1, <1>2, TypeInvParts, IngestAssumption DEF InHand, Carries, Empty
<1>4. QED
  BY <1>1, <1>3

LEMMA NextLetsGo ==
    ASSUME TypeInv, [Next]_vars, NEW m \in waiting \ waiting', From[m] \in Broker
    PROVE  Dealt(m)'
<1>1. CASE \E t \in Thread : Step(t)
  BY <1>1, StepLetsGo
<1>2. CASE (\E j \in 1..Len(jobs) : Advance(j)) \/ (\E i \in Id : Forget(i)) \/ ListenerEnds
  BY <1>2 DEF Advance, Forget, ListenerEnds
<1>3. CASE Restart
  BY <1>3, RestartLetsGo
<1>4. CASE UNCHANGED vars
  BY <1>4 DEF vars
<1>5. QED
  BY <1>1, <1>2, <1>3, <1>4 DEF Next

AllDealt == \A m \in Sent \ waiting : From[m] \in Broker => Dealt(m)

LEMMA NextAllDealt == ASSUME TypeInv, AllDealt, [Next]_vars PROVE AllDealt'
<1>1. Onward
  BY NextOnward
<1>2. ASSUME NEW m \in Sent' \ waiting', From[m] \in Broker PROVE Dealt(m)'
  <2>1. m \in Sent
    BY <1>1 DEF Onward, Sent
  <2>2. CASE m \in waiting
    BY <1>2, <2>2, NextLetsGo
  <2>3. CASE m \notin waiting
    <3>1. Dealt(m)
      BY <1>2, <2>1, <2>3 DEF AllDealt
    <3>2. QED
      BY <1>1, <3>1, DealtForGood, TypeInvParts
  <2>4. QED
    BY <2>2, <2>3
<1>3. QED
  BY <1>2 DEF AllDealt

\* Nothing but a failed first write leaves a job without its record: a restart
\* loses only what a process had to itself.
LEMMA RecordedAsLivesChange ==
    ASSUME jobs \in Seq(Job), AllRecorded, Kept, unrecorded \subseteq unrecorded',
           \A j \in 1..Len(jobs) : InRedis(j) => InRedis(j)'
    PROVE  AllRecorded'
BY JobsTyped DEF AllRecorded, Kept

LEMMA StoredIsRecorded ==
    ASSUME TypeInv, AllRecorded, NEW t \in Thread, NEW life \in {"lasting", "memory"},
           Stored(t, life), Current(t) \in Message,
           unrecorded \subseteq unrecorded', life = "lasting" \/ Current(t) \in unrecorded'
    PROVE  AllRecorded'
<1> DEFINE new == [of |-> Current(t), life |-> life]
<1>1. new \in Job /\ new.of = Current(t) /\ new.life = life
  BY DEF Job
<1>2. jobs' = Append(jobs, new) /\ jobs \in Seq(Job)
  BY TypeInvParts DEF Stored
<1> HIDE DEF new
<1>3. /\ Len(jobs') = Len(jobs) + 1 /\ jobs'[Len(jobs) + 1] = new
      /\ \A j \in 1..Len(jobs) : jobs'[j] = jobs[j]
  BY <1>1, <1>2, AppendProperties
<1>4. ASSUME NEW j \in 1..Len(jobs') PROVE InRedis(j)' \/ jobs'[j].of \in unrecorded'
  <2>1. CASE j \in 1..Len(jobs)
    BY <1>3, <2>1 DEF AllRecorded, InRedis
  <2>2. CASE j = Len(jobs) + 1
    BY <1>1, <1>3, <2>2 DEF InRedis
  <2>3. QED
    BY <1>2, <1>3, <1>4, <2>1, <2>2, JobsTyped
<1>5. QED
  BY <1>4 DEF AllRecorded

LEMMA NextAllRecorded == ASSUME TypeInv, AllRecorded, [Next]_vars PROVE AllRecorded'
<1> USE DEF history
<1>0. jobs \in Seq(Job) /\ Onward
  BY TypeInvParts, NextOnward
<1>1. CASE \E t \in Thread : Store(t)
  <2>1. PICK t \in Thread : Store(t)
    BY <1>1
  <2>2. Current(t) \in Message
    BY <2>1, StoreTypeInv, HandTyped
  <2>3. QED
    BY <2>1, <2>2, StoredIsRecorded DEF Store
<1>2. CASE \E t \in Thread : StoreInMemory(t)
  <2>1. PICK t \in Thread : StoreInMemory(t)
    BY <1>2
  <2>2. Current(t) \in Message
    BY <2>1, StoreInMemoryTypeInv, HandTyped
  <2>3. QED
    BY <2>1, <2>2, StoredIsRecorded DEF StoreInMemory
<1>3. CASE \E t \in Thread : LimitLife(t)
  <2>1. PICK t \in Thread : LimitLife(t)
    BY <1>3
  <2>2. Kept
    BY <1>0, <2>1, LifeLimited
  <2>3. ASSUME NEW j \in 1..Len(jobs), InRedis(j) PROVE InRedis(j)'
    <3> DEFINE o == OwnJob(t)
    <3>1. jobs' = jobs \/ jobs' = [jobs EXCEPT ![o].life = "limited"]
      BY <2>1 DEF LimitLife
    <3> HIDE DEF o
    <3>2. jobs[j] \in Job /\ DOMAIN jobs = 1..Len(jobs)
      BY <1>0, JobsTyped
    <3>3. CASE jobs' = [jobs EXCEPT ![o].life = "limited"] /\ o = j
      BY <3>2, <3>3 DEF InRedis, Job
    <3>4. CASE jobs' = [jobs EXCEPT ![o].life = "limited"] /\ o # j
      BY <2>3, <3>2, <3>4 DEF InRedis
    <3>5. QED
      BY <2>3, <3>1, <3>3, <3>4 DEF InRedis
  <2>4. QED
    BY <1>0, <2>2, <2>3, RecordedAsLivesChange DEF Onward
<1>4. CASE \E j \in 1..Len(jobs) : Advance(j)
  <2>1. PICK j \in 1..Len(jobs) : Advance(j)
    BY <1>4
  <2>2. Kept
    BY <2>1, AdvanceTypeInv
  <2>3. ASSUME NEW k \in 1..Len(jobs), InRedis(k) PROVE InRedis(k)'
    BY <1>0, <2>1, <2>3, JobsTyped DEF Advance, InRedis, Job
  <2>4. QED
    BY <1>0, <2>2, <2>3, RecordedAsLivesChange DEF Onward
<1>5. CASE Restart
  <2>1. Kept
    BY <1>5, RestartTypeInv
  <2>2. ASSUME NEW k \in 1..Len(jobs), InRedis(k) PROVE InRedis(k)'
    BY <1>0, <1>5, <2>2, JobsTyped DEF Restart, InRedis
  <2>3. QED
    BY <1>0, <2>1, <2>2, RecordedAsLivesChange DEF Onward
<1>6. CASE UNCHANGED jobs
  BY <1>0, <1>6 DEF AllRecorded, InRedis, Onward
<1>7. ASSUME NEW t \in Thread, Step(t)
      PROVE  Store(t) \/ StoreInMemory(t) \/ LimitLife(t) \/ UNCHANGED jobs
  BY <1>7 DEF Step, Take, Claim, ClaimFromMemory, Throw, Dispatch, Acknowledge, AcknowledgeFails,
     DeadLetter, DeadLetterFails
<1>8. CASE (\E i \in Id : Forget(i)) \/ ListenerEnds \/ UNCHANGED vars
  BY <1>6, <1>8 DEF Forget, ListenerEnds, vars
<1>9. QED
  BY <1>1, <1>2, <1>3, <1>4, <1>5, <1>6, <1>7, <1>8 DEF Next

LEMMA AlwaysRecorded == Spec => []AllRecorded
<1>1. Init => AllRecorded
  BY EmptySeq DEF Init, AllRecorded
<1>2. TypeInv /\ AllRecorded /\ [Next]_vars => AllRecorded'
  BY NextAllRecorded
<1>3. QED
  BY <1>1, <1>2, AlwaysTypeInv, PTL DEF Spec

\* A broker's message is acknowledged only when its job's record is in Redis, or it
\* is a duplicate or a dead letter, or (Pulsar) one whose dead letter could not be
\* written, or one whose record Redis threw at: neither a failed acknowledgement,
\* nor a restart, nor a broken listener loses another.
THEOREM IngestLosesNothing == Spec => []NothingIsLost
<1>1. Init => AllDealt
  BY DEF Init, AllDealt
<1>2. TypeInv /\ AllDealt /\ [Next]_vars => AllDealt'
  BY NextAllDealt
<1>3. AllDealt /\ AllRecorded => NothingIsLost
  BY DEF AllDealt, AllRecorded, NothingIsLost, Dealt, JobOf, IsJob
<1>4. QED
  BY <1>1, <1>2, <1>3, AlwaysTypeInv, AlwaysRecorded, PTL DEF Spec

-----------------------------------------------------------------------------
(* Claims are accounted for.                                               *)

LEMMA SubmittedStays ==
    ASSUME jobs \in Seq(Job), Kept \/ (\E m : Grown(m)), NEW i, Submitted(i)
    PROVE  Submitted(i)'
<1> USE JobsTyped
<1>1. CASE Kept
  BY <1>1 DEF Kept, Submitted
<1>2. CASE \E k : Grown(k)
  BY <1>2 DEF Grown, Submitted
<1>3. QED
  BY <1>1, <1>2

LEMMA NewJob == ASSUME jobs \in Seq(Job), NEW m, Grown(m) PROVE Submitted(IdOf[m])'
BY JobsTyped DEF Grown, Submitted

LEMMA StepOthers ==
    ASSUME TypeInv, NEW t \in Thread, Step(t), NEW s \in Thread, s # t
    PROVE  thread'[s] = thread[s]
BY TypeInvParts DEF Step, Take, Claim, ClaimFromMemory, Claimed, Store, StoreInMemory, Throw,
   Dispatch, LimitLife, Acknowledge, AcknowledgeFails, DeadLetter, DeadLetterFails, Goes, Ended,
   ThreadTyped

\* A thread of a broker leaves "submit" with a job, or with its id burnt.
LEMMA StepSubmits ==
    ASSUME TypeInv, NEW t \in Thread, Step(t), NEW i \in Id, NEW s \in Broker, Submitting(s, i)
    PROVE  Submitting(s, i)' \/ Submitted(i)' \/ i \in burnt'
<1>0. s \in Thread /\ s # "api" /\ Busy(s) /\ At(s, "submit") /\ IdAt(s) = i
  BY DEF Thread, Broker, Submitting, At, Busy
<1>1. ThreadTyped /\ jobs \in Seq(Job)
  BY TypeInvParts
<1>2. CASE s # t
  BY <1>0, <1>2, StepOthers DEF Submitting, At, IdAt, Current
<1>3. CASE s = t
  <2>1. CASE Store(t) \/ StoreInMemory(t)
    BY <1>0, <1>1, <1>3, <2>1, StoreTypeInv, StoreInMemoryTypeInv, NewJob DEF IdAt, Submitting
  <2>2. CASE Throw(t)
    BY <1>0, <1>3, <2>2 DEF Throw, Id
  <2>3. QED
    BY <1>0, <1>3, <2>1, <2>2 DEF Step, Take, Claim, ClaimFromMemory, Dispatch, LimitLife,
       Acknowledge, AcknowledgeFails, DeadLetter, DeadLetterFails, At
<1>4. QED
  BY <1>2, <1>3

LEMMA NextSubmits ==
    ASSUME TypeInv, [Next]_vars, NEW i \in Id, NEW s \in Broker, Submitting(s, i)
    PROVE  Submitting(s, i)' \/ Submitted(i)' \/ i \in burnt'
<1> USE DEF Submitting, At, IdAt, Current
<1>1. CASE \E t \in Thread : Step(t)
  BY <1>1, StepSubmits
<1>2. CASE (\E j \in 1..Len(jobs) : Advance(j)) \/ (\E k \in Id : Forget(k))
  BY <1>2 DEF Advance, Forget
<1>3. CASE ListenerEnds
  <2>1. s # "pulsar"
    BY <1>3 DEF ListenerEnds
  <2>2. thread'[s] = thread[s]
    BY <1>3, <2>1, TypeInvParts DEF ListenerEnds, ThreadTyped, Thread
  <2>3. QED
    BY <2>2
<1>4. CASE Restart
  BY <1>4 DEF Restart, Id
<1>5. CASE UNCHANGED vars
  BY <1>5 DEF vars
<1>6. QED
  BY <1>1, <1>2, <1>3, <1>4, <1>5 DEF Next

\* So what is accounted for stays so.
LEMMA NextAccounted ==
    ASSUME TypeInv, [Next]_vars, NEW i \in Id, Accounted(i) PROVE Accounted(i)'
<1>1. Onward
  BY NextOnward
<1>2. CASE Submitted(i)
  BY <1>1, <1>2, SubmittedStays, TypeInvParts DEF Onward, Accounted
<1>3. CASE i \in burnt
  BY <1>1, <1>3 DEF Onward, Accounted
<1>4. CASE \E s \in Broker : Submitting(s, i)
  BY <1>4, NextSubmits DEF Accounted
<1>5. QED
  BY <1>2, <1>3, <1>4 DEF Accounted

\* A request id that is found, or newly claimed, by a thread of a broker.
LEMMA Attempt ==
    ASSUME TypeInv, NEW t \in Thread, At(t, "claim"), NEW first, Claimed(t, first),
           createJobs, first
    PROVE  Submitting(t, IdAt(t))' /\ t \in Broker /\ IdAt(t)' = IdAt(t)
<1>1. Carries(t, Current(t))
  BY HandTyped DEF At, Busy
<1>2. Goes(t, "submit")
  BY DEF Claimed, Onwards
<1>3. thread'[t].of = thread[t].of /\ thread'[t].at = "submit"
  BY <1>2, GoesOn, TypeInvParts DEF Stage
<1>4. QED
  BY <1>1, <1>3 DEF Carries, Submitting, At, IdAt, Current

\* Where the ids come from that a step adds to the claims or to memory.
LEMMA NextClaims ==
    ASSUME TypeInv, ClaimsAccounted, [Next]_vars, createJobs,
           NEW i \in Id, i \in claims' \cup memory', i \notin claims \cup memory
    PROVE  Accounted(i)'
<1>1. CASE \E t \in Thread : Claim(t) \/ ClaimFromMemory(t)
  <2>1. PICK t \in Thread : Claim(t) \/ ClaimFromMemory(t)
    BY <1>1
  <2>2. i = IdAt(t)
    <3>1. claims' \subseteq claims \cup {IdAt(t)} /\ memory' \subseteq memory \cup {IdAt(t)}
      BY <2>1 DEF Claim, ClaimFromMemory
    <3>2. QED
      BY <3>1
  <2>3. At(t, "claim") /\ \E first \in {TRUE} : Claimed(t, first)
    BY <2>1, <2>2 DEF Claim, ClaimFromMemory, Claimed
  <2>4. Submitting(t, i)' /\ t \in Broker
    BY <2>2, <2>3, Attempt DEF Submitting
  <2>5. QED
    BY <2>4 DEF Accounted
<1>2. CASE \E t \in Thread : Dispatch(t)
  <2>1. PICK t \in Thread : Dispatch(t)
    BY <1>2
  <2>2. i = IdAt(t) /\ Busy(t)
    BY <2>1 DEF Dispatch, At, Busy
  <2>3. JobOf(Current(t))
    BY <2>1, <2>2, HandTyped DEF Dispatch, Carries, At
  <2>4. Submitted(i)
    BY <2>2, <2>3 DEF Submitted, JobOf, IdAt
  <2>5. QED
    BY <2>4, NextAccounted DEF Accounted
<1>3. CASE UNCHANGED <<claims, memory>>
  BY <1>3
<1>4. CASE Restart \/ \E k \in Id : Forget(k)
  BY <1>4 DEF Restart, Forget
<1>5. ASSUME NEW t \in Thread, Step(t)
      PROVE  Claim(t) \/ ClaimFromMemory(t) \/ Dispatch(t) \/ UNCHANGED <<claims, memory>>
  BY <1>5 DEF Step, Take, Store, StoreInMemory, Throw, LimitLife, Acknowledge, AcknowledgeFails,
     DeadLetter, DeadLetterFails, history
<1>6. CASE (\E j \in 1..Len(jobs) : Advance(j)) \/ ListenerEnds \/ UNCHANGED vars
  BY <1>3, <1>6 DEF Advance, ListenerEnds, vars, history
<1>7. QED
  BY <1>1, <1>2, <1>3, <1>4, <1>5, <1>6 DEF Next

\* A message is swallowed for an id that was taken already.
LEMMA NextSwallows ==
    ASSUME TypeInv, ClaimsAccounted, [Next]_vars, createJobs,
           NEW m \in swallowed' \ swallowed
    PROVE  IdOf[m] \in Id /\ Accounted(IdOf[m])
<1>1. PICK t \in Thread : (Claim(t) \/ ClaimFromMemory(t)) /\ m = Current(t)
  <2>1. ASSUME NEW t \in Thread, Step(t)
        PROVE  Claim(t) \/ ClaimFromMemory(t) \/ UNCHANGED swallowed
    BY <2>1 DEF Step, Take, Store, StoreInMemory, Throw, Dispatch, LimitLife, Acknowledge,
       AcknowledgeFails, DeadLetter, DeadLetterFails, history
  <2>2. PICK t \in Thread : Claim(t) \/ ClaimFromMemory(t)
    BY <2>1 DEF Next, Advance, Forget, ListenerEnds, Restart, vars, history
  <2>3. QED
    BY <2>2 DEF Claim, ClaimFromMemory, Claimed
<1>2. At(t, "claim") /\ Busy(t)
  BY <1>1 DEF Claim, ClaimFromMemory, At, Busy
<1>3. IdAt(t) \in Id
  BY <1>2, HandTyped DEF Carries, IdAt
<1>4. IdAt(t) \in claims \cup memory
  BY <1>1 DEF Claim, ClaimFromMemory, Claimed
<1>5. QED
  BY <1>1, <1>3, <1>4 DEF ClaimsAccounted, IdAt

LEMMA NextClaimsAccounted ==
    ASSUME TypeInv, ClaimsAccounted, [Next]_vars PROVE ClaimsAccounted'
<1> SUFFICES ASSUME createJobs PROVE ClaimsAccounted'
  BY NextOnward DEF Onward, ClaimsAccounted
<1>1. claims \cup memory \subseteq Id /\ (claims \cup memory)' \subseteq Id
  BY NextTypeInv, TypeInvParts DEF TypeInv, TypeOK, SetsTyped
<1>2. ASSUME NEW i \in (claims \cup memory)' PROVE Accounted(i)'
  <2>1. CASE i \in claims \cup memory
    BY <1>1, <2>1, NextAccounted DEF ClaimsAccounted
  <2>2. CASE i \notin claims \cup memory
    BY <1>1, <1>2, <2>2, NextClaims
  <2>3. QED
    BY <2>1, <2>2
<1>3. ASSUME NEW m \in swallowed' PROVE IdOf[m] \in Id /\ Accounted(IdOf[m])'
  <2>1. IdOf[m] \in Id /\ Accounted(IdOf[m])
    BY <1>3, NextSwallows DEF ClaimsAccounted
  <2>2. QED
    BY <2>1, NextAccounted
<1>4. QED
  BY <1>2, <1>3 DEF ClaimsAccounted

\* A message is swallowed only for a request that has its record in Redis or is
\* about to, unless the first attempt died or threw between claim and record, or
\* Redis threw at the record; a claim decided from memory, or left by an operator's
\* submission, is no exception.
THEOREM IngestSwallowsDuplicatesOnly == Spec => []SwallowedHasItsJob
<1>1. Init => ClaimsAccounted
  BY DEF Init, ClaimsAccounted
<1>2. TypeInv /\ ClaimsAccounted /\ [Next]_vars => ClaimsAccounted'
  BY NextClaimsAccounted
<1>3. ASSUME AllRecorded, NEW i, Submitted(i)
      PROVE  HasJob(i) \/ \E u \in unrecorded : IdOf[u] = i
  BY <1>3 DEF AllRecorded, Submitted, HasJob
<1>4. ClaimsAccounted /\ AllRecorded => SwallowedHasItsJob
  BY <1>3 DEF ClaimsAccounted, SwallowedHasItsJob, Accounted, Submitting
<1>5. QED
  BY <1>1, <1>2, <1>4, AlwaysTypeInv, AlwaysRecorded, PTL DEF Spec

-----------------------------------------------------------------------------
(* One job per request.                                                    *)

LEMMA NoFewerBrokerJobs ==
    ASSUME Kept, NEW i
    PROVE  BrokerJobs(i)' = BrokerJobs(i)
BY DEF Kept, BrokerJobs

LEMMA OneMoreBrokerJob ==
    ASSUME jobs \in Seq(Job), NEW m, Grown(m), NEW i
    PROVE  BrokerJobs(i)' = BrokerJobs(i) \cup
               (IF From[m] \in Broker /\ IdOf[m] = i THEN {Len(jobs) + 1} ELSE {})
BY JobsTyped DEF Grown, BrokerJobs

\* FirstOnly is kept when no broker gets to submit, and claims and jobs are kept.
LEMMA SoleAttemptKept ==
    ASSUME NEW i \in Id, SoleAttempt(i), Kept, claims \subseteq claims',
           \A s \in Broker : Submitting(s, i)' => Submitting(s, i)
    PROVE  SoleAttempt(i)'
BY NoFewerBrokerJobs DEF SoleAttempt

\* Only a claim brings a thread of a broker to "submit" with a request id.
LEMMA StepArrives ==
    ASSUME TypeInv, NEW t \in Thread, Step(t), ~Claim(t), ~ClaimFromMemory(t),
           NEW i \in Id, NEW s \in Broker, Submitting(s, i)'
    PROVE  Submitting(s, i)
<1>0. s \in Thread /\ s # "api" /\ i # NoId
  BY DEF Thread, Broker, Id
<1>1. CASE s # t
  BY <1>0, <1>1, StepOthers DEF Submitting, At, IdAt, Current
<1>2. CASE s = t
  <2>1. CASE \E m \in Message : Take(t, m)
    <3>1. PICK m \in Message : Take(t, m)
      BY <2>1
    <3>2. thread'[t].of = m /\ thread'[t].at \in {"failed", "claim"} \cup
             (IF IdOf[m] = NoId THEN {"submit", "done"} ELSE {})
      BY <1>0, <1>2, <3>1, TypeInvParts DEF Take, Onwards, ThreadTyped
    <3>3. QED
      BY <1>0, <1>2, <3>2 DEF Submitting, At, IdAt, Current
  <2>2. CASE ~\E m \in Message : Take(t, m)
    <3>1. \/ \E where \in {"stored", "failed", "limit", "done"} : Goes(t, where)
          \/ \E left : Ended(t, left)
      BY <2>2 DEF Step, Store, StoreInMemory, Throw, Dispatch, LimitLife,
         Acknowledge, AcknowledgeFails, DeadLetter, DeadLetterFails
    <3>2. thread'[t].at # "submit"
      BY <3>1, TypeInvParts, IdleEntry, GoesOn DEF Stage, Ended, ThreadTyped
    <3>3. QED
      BY <1>2, <3>2 DEF Submitting, At
  <2>3. QED
    BY <2>1, <2>2
<1>3. QED
  BY <1>1, <1>2

\* The claim decides who is the first.
LEMMA ClaimFirstOnly ==
    ASSUME TypeInv, FirstOnly, NEW t \in Thread, Claim(t) PROVE FirstOnly'
<1> SUFFICES ASSUME ~troubled, NEW i \in Id PROVE SoleAttempt(i)'
  BY DEF FirstOnly, Claim
<1>1. SoleAttempt(i)
  BY DEF FirstOnly
<1>2. BrokerJobs(i)' = BrokerJobs(i)
  BY Same, NoFewerBrokerJobs DEF Claim
<1>3. \A s \in Broker \ {t} : Submitting(s, i)' <=> Submitting(s, i)
  BY StepOthers DEF Step, Thread, Submitting, At, IdAt, Current
<1>4. CASE Submitting(t, i)'
  <2>1. thread'[t].of = thread[t].of /\ ~Submitting(t, i)
    BY TypeInvParts DEF Claim, Claimed, Goes, ThreadTyped, Submitting, At
  <2>2. IdAt(t) = i
    BY <1>4, <2>1 DEF Submitting, IdAt, Current
  <2>3. IdAt(t) \notin claims
    <3>1. IdAt(t) \in claims => thread'[t].at = "done"
      BY TypeInvParts DEF Claim, Claimed, Goes, ThreadTyped
    <3>2. QED
      BY <1>4, <3>1 DEF Submitting, At
  <2>4. i \in claims'
    BY <2>2 DEF Claim
  <2>5. BrokerJobs(i) = {} /\ \A s \in Broker : ~Submitting(s, i)
    BY <1>1, <2>2, <2>3 DEF SoleAttempt
  <2>6. QED
    BY <1>2, <1>3, <2>4, <2>5 DEF SoleAttempt
<1>5. CASE ~Submitting(t, i)'
  BY <1>1, <1>3, <1>5, Same, SoleAttemptKept DEF Claim
<1>6. QED
  BY <1>4, <1>5

\* Who stores the record was the only one to submit, and there was no record.
LEMMA StoreFirstOnly ==
    ASSUME TypeInv, FirstOnly, NEW t \in Thread, Store(t) \/ StoreInMemory(t) PROVE FirstOnly'
<1> SUFFICES ASSUME ~troubled, NEW i \in Id PROVE SoleAttempt(i)'
  BY DEF FirstOnly, Store, StoreInMemory, history
<1>1. SoleAttempt(i) /\ jobs \in Seq(Job) /\ Len(jobs) \in Nat
  BY TypeInvParts, JobsTyped DEF FirstOnly
<1>2. Grown(Current(t)) /\ Busy(t) /\ claims' = claims /\ At(t, "submit")
  BY StoreTypeInv, StoreInMemoryTypeInv DEF Store, StoreInMemory, CanStore
<1>3. From[Current(t)] = t
  BY <1>2, HandTyped
<1>4. BrokerJobs(i)' = BrokerJobs(i) \cup
          (IF From[Current(t)] \in Broker /\ IdOf[Current(t)] = i THEN {Len(jobs) + 1} ELSE {})
  <2> DEFINE m == Current(t)
  <2>1. Grown(m)
    BY <1>2
  <2> HIDE DEF m
  <2>2. PICK k : k = m
    OBVIOUS
  <2>3. Grown(k)
    BY <2>1, <2>2
  <2>4. BrokerJobs(i)' = BrokerJobs(i) \cup
            (IF From[k] \in Broker /\ IdOf[k] = i THEN {Len(jobs) + 1} ELSE {})
    BY <1>1, <2>3, OneMoreBrokerJob
  <2>5. QED
    BY <2>2, <2>4 DEF m
<1>5. \A s \in Broker : Submitting(s, i)' => Submitting(s, i) /\ s # t
  <2>1. ~Claim(t) /\ ~ClaimFromMemory(t) /\ Step(t)
    BY <1>2 DEF Step, Claim, ClaimFromMemory, At
  <2>2. thread'[t].at = "stored"
    BY TypeInvParts, GoesOn DEF Store, StoreInMemory, Stage
  <2>3. QED
    BY <2>1, <2>2, StepArrives DEF Submitting, At
<1>6. CASE t \in Broker /\ IdAt(t) = i
  <2>1. Submitting(t, i)
    BY <1>2, <1>6 DEF Submitting
  <2>2. i \in claims /\ BrokerJobs(i) = {} /\ \A s \in Broker : Submitting(s, i) => s = t
    BY <1>1, <1>6, <2>1 DEF SoleAttempt
  <2>3. BrokerJobs(i)' = {Len(jobs) + 1}
    BY <1>3, <1>4, <1>6, <2>2 DEF IdAt
  <2>4. QED
    BY <1>2, <1>5, <2>2, <2>3 DEF SoleAttempt
<1>7. CASE ~(t \in Broker /\ IdAt(t) = i)
  <2>1. BrokerJobs(i)' = BrokerJobs(i)
    BY <1>3, <1>4, <1>7 DEF IdAt
  <2>2. QED
    BY <1>1, <1>2, <1>5, <2>1 DEF SoleAttempt
<1>8. QED
  BY <1>6, <1>7

LEMMA NextFirstOnly == ASSUME TypeInv, FirstOnly, [Next]_vars PROVE FirstOnly'
<1> USE DEF history
<1>1. ASSUME NEW t \in Thread, Step(t), ~Claim(t), ~Store(t), ~StoreInMemory(t) PROVE FirstOnly'
  <2>1. CASE ClaimFromMemory(t)
    BY <2>1 DEF ClaimFromMemory, FirstOnly
  <2>2. CASE ~ClaimFromMemory(t)
    <3>1. Kept
      BY <1>1, <2>2, Same, LimitLifeTypeInv DEF Step, Take, Throw, Dispatch, Acknowledge,
         AcknowledgeFails, DeadLetter, DeadLetterFails
    <3>2. claims \subseteq claims' /\ troubled' = troubled
      BY <1>1, <2>2 DEF Step, Take, Throw, Dispatch, LimitLife, Acknowledge, AcknowledgeFails,
         DeadLetter, DeadLetterFails
    <3>3. QED
      BY <1>1, <2>2, <3>1, <3>2, StepArrives, SoleAttemptKept DEF FirstOnly
  <2>3. QED
    BY <2>1, <2>2
<1>2. CASE \E j \in 1..Len(jobs) : Advance(j)
  <2>1. Kept
    BY <1>2, AdvanceTypeInv
  <2>2. QED
    BY <1>2, <2>1, SoleAttemptKept DEF Advance, FirstOnly, Submitting, At, IdAt, Current
<1>3. CASE \E i \in Id : Forget(i)
  BY <1>3 DEF Forget, FirstOnly
<1>4. CASE ListenerEnds
  <2>1. \A s \in Broker : s = "pulsar" \/ thread'[s] = thread[s]
    BY <1>4, TypeInvParts DEF ListenerEnds, ThreadTyped, Thread
  <2>2. thread'["pulsar"].at # "submit"
    BY <1>4, TypeInvParts DEF ListenerEnds, ThreadTyped, Thread, Broker
  <2>3. \A i \in Id, s \in Broker : Submitting(s, i)' => Submitting(s, i)
    BY <2>1, <2>2 DEF Submitting, At, IdAt, Current
  <2>4. QED
    BY <1>4, <2>3, Same, SoleAttemptKept DEF ListenerEnds, FirstOnly
<1>5. CASE Restart
  <2>1. Kept
    BY <1>5, RestartTypeInv
  <2>2. \A s \in Broker : ~At(s, "submit")'
    BY <1>5, IdleEntry DEF Restart, Thread, At
  <2>3. QED
    BY <1>5, <2>1, <2>2, SoleAttemptKept DEF Restart, FirstOnly, Submitting
<1>6. CASE UNCHANGED vars
  BY <1>6, Same, SoleAttemptKept DEF vars, FirstOnly, Submitting, At, IdAt, Current
<1>7. QED
  BY <1>1, <1>2, <1>3, <1>4, <1>5, <1>6, ClaimFirstOnly, StoreFirstOnly DEF Next

\* As long as Redis answers and keeps its claims, no request id becomes two jobs of
\* the brokers, whichever brokers carry it and however often a restart or a failed
\* acknowledgement repeats it: SET NX is what makes process idempotent.
THEOREM IngestOneJobPerRequest == Spec => []OneJobPerRequest
<1>1. Init => FirstOnly
  BY DEF Init, FirstOnly, SoleAttempt, BrokerJobs, Submitting, At, Idle, Thread
<1>2. TypeInv /\ FirstOnly /\ [Next]_vars => FirstOnly'
  BY NextFirstOnly
<1>3. FirstOnly => OneJobPerRequest
  <2> SUFFICES ASSUME FirstOnly, ~troubled, NEW i \in Id PROVE Cardinality(BrokerJobs(i)) <= 1
    BY DEF OneJobPerRequest
  <2>1. \A j, k \in BrokerJobs(i) : j = k
    BY DEF FirstOnly, SoleAttempt
  <2>2. CASE BrokerJobs(i) = {}
    BY <2>2, FS_EmptySet
  <2>3. CASE BrokerJobs(i) # {}
    <3>1. PICK j : j \in BrokerJobs(i)
      BY <2>3
    <3>2. BrokerJobs(i) = {j}
      BY <2>1, <3>1
    <3>3. Cardinality({j}) = 1
      BY FS_Singleton
    <3>4. QED
      BY <3>2, <3>3
  <2>4. QED
    BY <2>2, <2>3
<1>4. QED
  BY <1>1, <1>2, <1>3, AlwaysTypeInv, PTL DEF Spec
=============================================================================
