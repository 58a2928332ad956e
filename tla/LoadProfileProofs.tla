------------------------- MODULE LoadProfileProofs -------------------------
(***************************************************************************)
(* Proofs about RuntimeLoadProfileService, for any number of requests, any *)
(* machine and environment and any number of failures.                     *)
(*                                                                         *)
(* The types are inductive with StartedInOrder: the containers a call has  *)
(* up so far are the first ones of its own, and fewer than it wants.       *)
(* OrphansNeedARace is about calls that have ended; Supervised says where  *)
(* the live workers are while one is at work, and SignalledIsAwaited that  *)
(* whoever ignores a SIGTERM of stopWorkers still has a SIGKILL to come.   *)
(***************************************************************************)
EXTENDS LoadProfile, FiniteSetTheorems, TLAPS

StartedInOrder ==
    \A c \in Call :
        IF at[c] = "spawning"
        THEN /\ asked[c] # 10
             /\ \E n \in Nat : n < EffectiveWorkers(asked[c]) /\ started[c] = Numbered(c, n)
        ELSE started[c] = {}

TypeInv == TypeOK /\ StartedInOrder

\* Without a race, one call at most is at work; while it stops workers none is
\* alive, while it starts them its own are, and otherwise those on the list.
Supervised ==
    ~overlapped /\ ~mistaken =>
        /\ \A a, b \in Busy : a = b
        /\ \A a \in Act : at[a] = "stopping" => Alive = {}
        /\ \A c \in Call : at[c] = "spawning" => Alive \subseteq started[c]
        /\ Busy = {} => Alive \subseteq workers

\* A timer and shutdown start no workers.
OnlyCallsStart == \A a \in Act : at[a] = "spawning" => a \in Call

\* With the kill switch on there is one profile.
KillSwitch == env.disable => profile = 10 /\ telemetry = 10

\* Whoever sets another profile reports it, or will when its workers are up.
Reported ==
    telemetry # profile =>
        setBy \in {"revert", "failure"} \/ \E c \in Call : at[c] = "spawning"

-----------------------------------------------------------------------------
(* How many workers a profile wants.                                       *)

LEMMA ShareOfWorkers ==
    ASSUME NEW pct \in {25, 50, 100}, NEW max \in Nat \ {0}
    PROVE  calibrateWorkers(pct, max) \in 1..max
<1>1. (max * pct + 50) \div 100 \in Int
  <2>1. CASE pct = 25
    BY <2>1
  <2>2. CASE pct = 50
    BY <2>2
  <2>3. CASE pct = 100
    BY <2>3
  <2> QED BY <2>1, <2>2, <2>3
<1>2. PICK n \in Int : n = (max * pct + 50) \div 100
  BY <1>1
<1>3. Larger(1, n) \in Int /\ Larger(1, n) >= 1
  BY DEF Larger
<1>4. Smaller(Larger(1, n), max) \in 1..max
  BY <1>3 DEF Smaller
<1> QED BY <1>2, <1>4 DEF calibrateWorkers

LEMMA FixedWorkers ==
    ASSUME NEW pct \in {25, 50, 100}, NEW max \in Nat \ {0}
    PROVE  Smaller(PROFILE_MAP[pct], max) \in 1..max
<1>1. PROFILE_MAP[pct] \in {2, 4, 8}
  BY DEF PROFILE_MAP
<1> QED BY <1>1 DEF Smaller

\* A profile other than the base wants a worker at least and at most all.
LEMMA EffectiveWorkersType ==
    ASSUME NEW pct \in Pcts, pct # 10
    PROVE  EffectiveWorkers(pct) \in 1..MaxWorkers
<1>1. pct \in {25, 50, 100} /\ MaxWorkers \in Nat \ {0}
  BY LoadAssumption
<1> QED BY <1>1, ShareOfWorkers, FixedWorkers DEF EffectiveWorkers

LEMMA NumberedType ==
    ASSUME NEW c \in Call, NEW n \in Nat, n <= MaxWorkers
    PROVE  Numbered(c, n) \subseteq Worker
<1>1. MaxWorkers \in Nat
  BY LoadAssumption
<1>2. 1..n \subseteq 1..MaxWorkers
  BY <1>1
<1> QED BY <1>2 DEF Numbered, Worker

LEMMA NumberedSize ==
    ASSUME NEW c, NEW n \in Nat
    PROVE  Cardinality(Numbered(c, n)) = n
<1>1. IsFiniteSet({c}) /\ Cardinality({c}) = 1
  BY FS_Singleton
<1>2. IsFiniteSet(1..n) /\ Cardinality(1..n) = n
  BY FS_Interval
<1>3. Cardinality({c} \X (1..n)) = 1 * n
  BY <1>1, <1>2, FS_Product
<1> QED BY <1>3 DEF Numbered

LEMMA NumberedNext ==
    ASSUME NEW c, NEW n \in Nat
    PROVE  Numbered(c, n) \cup {<<c, n + 1>>} = Numbered(c, n + 1)
<1>1. 1..(n + 1) = 1..n \cup {n + 1}
  OBVIOUS
<1> QED BY <1>1 DEF Numbered

-----------------------------------------------------------------------------
(* The type invariant.                                                     *)

LEMMA InitTypes == Init => TypeInv
<1> SUFFICES ASSUME Init
             PROVE  TypeInv
  OBVIOUS
<1>1. TypeOK
  <2>1. 0 \in 0..MaxFailures
    BY LoadAssumption
  <2>2. /\ proc \in [Worker -> Fate]
        /\ at \in [Act -> {"idle", "stopping", "spawning", "done"}]
        /\ awaited \in [Act -> SUBSET Worker] /\ started \in [Call -> SUBSET Worker]
    BY DEF Init, Fate
  <2> QED BY <2>1, <2>2 DEF Init, TypeOK
<1>2. StartedInOrder
  BY DEF Init, StartedInOrder, Act
<1> QED BY <1>1, <1>2 DEF TypeInv

\* Steps that are not about a starting call leave what was started in order.
LEMMA OrderKept ==
    ASSUME StartedInOrder, UNCHANGED <<env, asked, started>>,
           \A c \in Call : at'[c] = "spawning" <=> at[c] = "spawning"
    PROVE  StartedInOrder'
<1>1. \A c \in Call : EffectiveWorkers(asked[c])' = EffectiveWorkers(asked[c])
  BY DEF EffectiveWorkers
<1> QED BY <1>1 DEF StartedInOrder

LEMMA CallsAct == /\ Call \subseteq Act /\ Shutdown \in Act
                  /\ \A c \in Call : <<c>> \in Act
BY DEF Act, Revert

LEMMA FailureType ==
    ASSUME TypeOK, Failure \/ UNCHANGED failures
    PROVE  failures' \in 0..MaxFailures
BY LoadAssumption DEF TypeOK, Failure

LEMMA StopTypes ==
    ASSUME TypeOK, NEW a \in Act, stopWorkers(a)
    PROVE  /\ proc' \in [Worker -> Fate]
           /\ awaited' \in [Act -> SUBSET Worker] /\ thread' \in Act \cup {Nobody}
           /\ workers' = {} /\ failures' \in 0..MaxFailures
           /\ \A w \in Worker : proc'[w] = "running" => proc[w] = "running" /\ w \notin workers
<1>1. /\ \E lost : \/ proc' = Removed(workers \cap Alive, lost)
                   \/ proc' = [w \in Worker |-> IF w \in workers \cap Alive THEN "signalled"
                                                ELSE proc[w]]
      /\ UNCHANGED failures \/ Failure
      /\ awaited' = [awaited EXCEPT ![a] = IF env.docker THEN {} ELSE workers \cap Alive]
      /\ thread' \in {a, Nobody} /\ workers' = {}
  BY DEF stopWorkers
<1>2. \A w \in Worker : proc'[w] = "running" => proc[w] = "running" /\ w \notin workers
  BY <1>1 DEF Alive, Removed
<1>3. workers \cap Alive \subseteq Worker
  BY DEF TypeOK
<1>4. proc' \in [Worker -> Fate]
  BY <1>1 DEF TypeOK, Removed, Fate
<1>5. failures' \in 0..MaxFailures
  BY <1>1, FailureType
<1> QED BY <1>1, <1>2, <1>3, <1>4, <1>5 DEF TypeOK

LEMMA BeginTypes ==
    ASSUME TypeInv, NEW a \in Act, Begin(a), armed' \subseteq armed, timer' = Nobody
    PROVE  TypeInv'
<1>1. /\ at[a] = "idle" /\ at' = [at EXCEPT ![a] = "stopping"]
      /\ overlapped' = (overlapped \/ Busy # {})
      /\ (profile' = 10 /\ setBy' = "disable") \/ UNCHANGED <<profile, setBy>>
      /\ stopWorkers(a)
      /\ UNCHANGED <<env, asked, started, telemetry, mistaken>>
  BY DEF Begin
<1>2. TypeOK /\ StartedInOrder
  BY DEF TypeInv
<1>3. /\ proc' \in [Worker -> Fate]
      /\ awaited' \in [Act -> SUBSET Worker] /\ thread' \in Act \cup {Nobody}
      /\ workers' = {} /\ failures' \in 0..MaxFailures
  BY <1>1, <1>2, StopTypes
<1>4. TypeOK'
  BY <1>1, <1>2, <1>3 DEF TypeOK
<1>5. \A c \in Call : at'[c] = "spawning" <=> at[c] = "spawning"
  BY <1>1, <1>2, CallsAct DEF TypeOK
<1> QED BY <1>1, <1>2, <1>4, <1>5, OrderKept DEF TypeInv

LEMMA EndTypes ==
    ASSUME TypeInv, NEW w \in Worker, Exit(w) \/ StrayExit(w) \/ GraceOver(w)
    PROVE  TypeInv'
<1>1. /\ proc' = [proc EXCEPT ![w] = "exited"] \/ proc' = [proc EXCEPT ![w] = "doomed"]
      /\ workers' \subseteq workers /\ mistaken' \in BOOLEAN
      /\ WaitIsOver(w) \/ UNCHANGED <<awaited, thread>>
      /\ UNCHANGED <<env, profile, at, asked, started, armed, timer, telemetry, failures,
                     overlapped, setBy>>
  BY DEF Exit, StrayExit, GraceOver, TypeInv, TypeOK
<1>2. TypeOK /\ StartedInOrder
  BY DEF TypeInv
<1>3. thread' \in Act \cup {Nobody} /\ awaited' \in [Act -> SUBSET Worker]
  BY <1>1, <1>2 DEF WaitIsOver, TypeOK
<1>4. TypeOK'
  BY <1>1, <1>2, <1>3 DEF TypeOK, Fate
<1> QED BY <1>1, <1>2, <1>4, OrderKept DEF TypeInv

LEMMA ResumeStoppedTypes ==
    ASSUME TypeInv, NEW a \in Act, ResumeStopped(a)
    PROVE  TypeInv'
<1>1. /\ at[a] = "stopping" /\ at' = [at EXCEPT ![a] = "done"]
      /\ (profile' = 10 /\ setBy' \in {"revert", "request"}) \/ UNCHANGED <<profile, setBy>>
      /\ telemetry' \in {telemetry, profile'} /\ thread' = Nobody
      /\ UNCHANGED <<env, workers, proc, asked, awaited, started, armed, timer, failures,
                     overlapped, mistaken>>
  BY DEF ResumeStopped, Return
<1>2. TypeOK /\ StartedInOrder
  BY DEF TypeInv
<1>3. TypeOK'
  BY <1>1, <1>2 DEF TypeOK
<1>4. \A c \in Call : at'[c] = "spawning" <=> at[c] = "spawning"
  BY <1>1, <1>2, CallsAct DEF TypeOK
<1> QED BY <1>1, <1>2, <1>3, <1>4, OrderKept DEF TypeInv

LEMMA ResumeLocalTypes ==
    ASSUME TypeInv, NEW c \in Call, ResumeLocal(c)
    PROVE  TypeInv' /\ \A w \in Worker : proc'[w] = "running" => w \in workers' \/ proc[w] = "running"
<1> DEFINE new == Numbered(c, EffectiveWorkers(asked[c]))
<1>1. /\ at[c] = "stopping" /\ asked[c] # 10 /\ at' = [at EXCEPT ![c] = "done"]
      /\ profile' = asked[c] /\ setBy' = "request"
      /\ proc' = [w \in Worker |-> IF w \in new THEN "running" ELSE proc[w]]
      /\ workers' = new /\ telemetry' = profile' /\ thread' = Nobody
      /\ armed' \subseteq armed \cup {c} /\ timer' \in {timer, c}
      /\ UNCHANGED <<env, asked, awaited, started, failures, overlapped, mistaken>>
  BY DEF ResumeLocal, CanStart, Return, Finish
<1>2. TypeOK /\ StartedInOrder
  BY DEF TypeInv
<1>3. asked[c] \in Pcts
  BY <1>2 DEF TypeOK
<1>4. new \subseteq Worker
  <2>1. EffectiveWorkers(asked[c]) \in 1..MaxWorkers
    BY <1>1, <1>3, EffectiveWorkersType
  <2> QED BY <2>1, NumberedType, LoadAssumption
<1> HIDE DEF new
<1>5. TypeOK'
  BY <1>1, <1>2, <1>3, <1>4 DEF TypeOK, Fate
<1>6. \A d \in Call : at'[d] = "spawning" <=> at[d] = "spawning"
  BY <1>1, <1>2, CallsAct DEF TypeOK
<1> QED BY <1>1, <1>2, <1>5, <1>6, OrderKept DEF TypeInv

LEMMA ResumeLocalFailsTypes ==
    ASSUME TypeInv, NEW c \in Call, ResumeLocalFails(c)
    PROVE  TypeInv'
<1>1. /\ at[c] = "stopping" /\ at' = [at EXCEPT ![c] = "done"]
      /\ Failure
      /\ \E S : proc' = [w \in Worker |-> IF w \in S THEN "left" ELSE proc[w]]
      /\ workers' = {} /\ profile' = 10 /\ setBy' = "failure" /\ thread' = Nobody
      /\ UNCHANGED <<env, asked, awaited, started, armed, timer, telemetry, overlapped, mistaken>>
  BY DEF ResumeLocalFails, CanStart
<1>2. TypeOK /\ StartedInOrder
  BY DEF TypeInv
<1>3. failures' \in 0..MaxFailures
  BY <1>1, <1>2, FailureType
<1>4. TypeOK'
  BY <1>1, <1>2, <1>3 DEF TypeOK, Fate
<1>5. \A d \in Call : at'[d] = "spawning" <=> at[d] = "spawning"
  BY <1>1, <1>2, CallsAct DEF TypeOK
<1> QED BY <1>1, <1>2, <1>4, <1>5, OrderKept DEF TypeInv

LEMMA ResumeDockerTypes ==
    ASSUME TypeInv, NEW c \in Call, ResumeDocker(c)
    PROVE  TypeInv'
<1>1. /\ at[c] = "stopping" /\ asked[c] # 10 /\ at' = [at EXCEPT ![c] = "spawning"]
      /\ profile' = asked[c] /\ setBy' = "request" /\ thread' = Nobody
      /\ UNCHANGED <<env, workers, proc, asked, awaited, started, armed, timer, telemetry,
                     failures, overlapped, mistaken>>
  BY DEF ResumeDocker, CanStart
<1>2. TypeOK /\ StartedInOrder
  BY DEF TypeInv
<1>3. TypeOK'
  BY <1>1, <1>2 DEF TypeOK
<1>4. \A d \in Call : at'[d] = IF d = c THEN "spawning" ELSE at[d]
  BY <1>1, <1>2, CallsAct DEF TypeOK
<1>5. \A d \in Call : EffectiveWorkers(asked[d])' = EffectiveWorkers(asked[d])
  BY <1>1 DEF EffectiveWorkers
<1>6. PICK k \in 1..MaxWorkers : k = EffectiveWorkers(asked[c])
  BY <1>1, <1>2, EffectiveWorkersType DEF TypeOK
<1>7. 0 \in Nat /\ 0 < k /\ started[c] = Numbered(c, 0)
  BY <1>1, <1>2, LoadAssumption DEF StartedInOrder, Numbered
<1>8. StartedInOrder'
  <2> SUFFICES ASSUME NEW d \in Call
               PROVE  IF at'[d] = "spawning"
                      THEN /\ asked[d] # 10
                           /\ \E n \in Nat : n < EffectiveWorkers(asked[d]) /\ started[d] = Numbered(d, n)
                      ELSE started[d] = {}
    BY <1>1, <1>5 DEF StartedInOrder, Numbered
  <2>1. CASE d = c
    BY <2>1, <1>1, <1>4, <1>6, <1>7
  <2>2. CASE d # c
    BY <2>2, <1>2, <1>4 DEF StartedInOrder
  <2> QED BY <2>1, <2>2
<1> QED BY <1>3, <1>8 DEF TypeInv

\* A container more, which is the call's next; the last one ends the call.
Spawned(c, n) ==
    /\ n + 1 \in 1..EffectiveWorkers(asked[c]) /\ EffectiveWorkers(asked[c]) \in 1..MaxWorkers
    /\ asked[c] # 10 /\ at[c] = "spawning" /\ started[c] = Numbered(c, n)
    /\ Numbered(c, n + 1) \subseteq Worker /\ <<c, n + 1>> \in Numbered(c, n + 1)
    /\ Numbered(c, n) \subseteq Numbered(c, n + 1)
    /\ proc' = [proc EXCEPT ![<<c, n + 1>>] = "running"]
    /\ \/ /\ n + 1 < EffectiveWorkers(asked[c])
          /\ started' = [started EXCEPT ![c] = Numbered(c, n + 1)]
          /\ UNCHANGED <<workers, at, armed, timer, telemetry>>
       \/ /\ started' = [started EXCEPT ![c] = {}] /\ workers' = Numbered(c, n + 1)
          /\ armed' \subseteq armed \cup {c} /\ timer' \in {timer, c}
          /\ at' = [at EXCEPT ![c] = "done"] /\ telemetry' = profile
    /\ UNCHANGED <<env, profile, asked, awaited, failures, overlapped, mistaken, setBy, thread>>

LEMMA SpawnWrites ==
    ASSUME TypeInv, NEW c \in Call, SpawnDocker(c)
    PROVE  \E n \in Nat : Spawned(c, n)
<1>1. at[c] = "spawning" /\ TypeOK /\ StartedInOrder
  BY DEF SpawnDocker, TypeInv
<1>2. asked[c] # 10 /\ asked[c] \in Pcts
  BY <1>1 DEF StartedInOrder, TypeOK
<1>3. PICK k \in 1..MaxWorkers : k = EffectiveWorkers(asked[c])
  BY <1>2, EffectiveWorkersType
<1>4. PICK n \in Nat : n < k /\ started[c] = Numbered(c, n)
  BY <1>1, <1>3 DEF StartedInOrder
<1>5. k \in Nat /\ MaxWorkers \in Nat /\ n + 1 \in 1..k /\ n + 1 <= MaxWorkers /\ n + 1 \in Nat
  BY <1>3, <1>4, LoadAssumption
<1>6. Cardinality(started[c]) = n /\ started[c] \cup {<<c, n + 1>>} = Numbered(c, n + 1)
      /\ Cardinality(Numbered(c, n + 1)) = n + 1
  BY <1>4, <1>5, NumberedSize, NumberedNext
<1>7. Numbered(c, n + 1) \subseteq Worker
  BY <1>5, NumberedType
<1> DEFINE new == Numbered(c, n + 1)
<1> HIDE DEF new
<1>8. /\ proc' = [proc EXCEPT ![<<c, n + 1>>] = "running"]
      /\ IF n + 1 < k
         THEN /\ started' = [started EXCEPT ![c] = new]
              /\ UNCHANGED <<workers, at, armed, timer, thread, telemetry>>
         ELSE /\ started' = [started EXCEPT ![c] = {}]
              /\ Finish(c, new)
              /\ at' = [at EXCEPT ![c] = "done"] /\ telemetry' = profile
              /\ UNCHANGED thread
      /\ UNCHANGED <<env, profile, asked, awaited, failures, overlapped, mistaken, setBy>>
  BY <1>3, <1>6 DEF SpawnDocker, new
<1>9. new = Numbered(c, n + 1)
  BY DEF new
<1>10. Finish(c, new) => workers' = new /\ armed' \subseteq armed \cup {c} /\ timer' \in {timer, c}
  BY DEF Finish
<1>11. <<c, n + 1>> \in new /\ Numbered(c, n) \subseteq new
  BY <1>4, <1>6, <1>9
<1> QED BY <1>1, <1>2, <1>3, <1>4, <1>5, <1>7, <1>8, <1>9, <1>10, <1>11 DEF Spawned

LEMMA SpawnDockerTypes ==
    ASSUME TypeInv, NEW c \in Call, SpawnDocker(c)
    PROVE  TypeInv'
<1>1. TypeOK /\ StartedInOrder
  BY DEF TypeInv
<1>2. PICK n \in Nat : Spawned(c, n)
  BY SpawnWrites
<1> USE DEF Spawned
<1> DEFINE new == Numbered(c, n + 1)
<1>3. new \subseteq Worker
  BY <1>2
<1>4. \A d \in Call : EffectiveWorkers(asked[d])' = EffectiveWorkers(asked[d])
  BY <1>2 DEF EffectiveWorkers
<1>5. CASE /\ n + 1 < EffectiveWorkers(asked[c])
           /\ started' = [started EXCEPT ![c] = new]
           /\ UNCHANGED <<workers, at, armed, timer, telemetry>>
  <2>1. TypeOK'
    <3> HIDE DEF new
    <3> QED BY <1>1, <1>2, <1>3, <1>5 DEF TypeOK, Fate
  <2>2. \A d \in Call : started'[d] = IF d = c THEN new ELSE started[d]
    BY <1>1, <1>5 DEF TypeOK
  <2>3. n + 1 \in Nat
    OBVIOUS
  <2>4. StartedInOrder'
    <3> SUFFICES ASSUME NEW d \in Call
                 PROVE  IF at[d] = "spawning"
                        THEN /\ asked[d] # 10
                             /\ \E i \in Nat : i < EffectiveWorkers(asked[d]) /\ started'[d] = Numbered(d, i)
                        ELSE started'[d] = {}
      BY <1>2, <1>4, <1>5 DEF StartedInOrder, Numbered
    <3>1. CASE d = c
      BY <3>1, <1>2, <1>5, <2>2, <2>3
    <3>2. CASE d # c
      BY <3>2, <1>1, <2>2 DEF StartedInOrder
    <3> QED BY <3>1, <3>2
  <2> QED BY <2>1, <2>4 DEF TypeInv
<1>6. CASE /\ started' = [started EXCEPT ![c] = {}] /\ workers' = new
           /\ armed' \subseteq armed \cup {c} /\ timer' \in {timer, c}
           /\ at' = [at EXCEPT ![c] = "done"] /\ telemetry' = profile
  <2>1. TypeOK'
    <3> HIDE DEF new
    <3> QED BY <1>1, <1>2, <1>3, <1>6 DEF TypeOK, Fate
  <2>2. \A d \in Call : started'[d] = IF d = c THEN {} ELSE started[d]
    BY <1>1, <1>6 DEF TypeOK
  <2>3. \A d \in Call : at'[d] = IF d = c THEN "done" ELSE at[d]
    BY <1>1, <1>6, CallsAct DEF TypeOK
  <2>4. StartedInOrder'
    <3> SUFFICES ASSUME NEW d \in Call
                 PROVE  IF at'[d] = "spawning"
                        THEN /\ asked[d] # 10
                             /\ \E i \in Nat : i < EffectiveWorkers(asked[d]) /\ started'[d] = Numbered(d, i)
                        ELSE started'[d] = {}
      BY <1>2, <1>4 DEF StartedInOrder, Numbered
    <3>1. CASE d = c
      BY <3>1, <2>2, <2>3
    <3>2. CASE d # c
      BY <3>2, <1>1, <2>2, <2>3 DEF StartedInOrder
    <3> QED BY <3>1, <3>2
  <2> QED BY <2>1, <2>4 DEF TypeInv
<1> QED BY <1>2, <1>5, <1>6

\* What a call that gives up on its containers makes of the workers.
LEMMA GiveUpWrites ==
    ASSUME NEW c \in Call, SpawnDockerFails(c)
    PROVE  \E strays, lost :
               proc' = [w \in Worker |-> IF w \in strays THEN "stray"
                                         ELSE Removed(started[c] \cap Alive, lost)[w]]
BY DEF SpawnDockerFails, GiveUp

LEMMA SpawnDockerFailsTypes ==
    ASSUME TypeInv, NEW c \in Call, SpawnDockerFails(c)
    PROVE  TypeInv'
<1>1. /\ at[c] = "spawning" /\ at' = [at EXCEPT ![c] = "done"]
      /\ started' = [started EXCEPT ![c] = {}]
      /\ Failure
      /\ workers' = {} /\ profile' = 10 /\ setBy' = "failure" /\ thread' = Nobody
      /\ UNCHANGED <<env, asked, awaited, armed, timer, telemetry, overlapped, mistaken>>
  BY DEF SpawnDockerFails, GiveUp
<1>2. TypeOK /\ StartedInOrder
  BY DEF TypeInv
<1>3. failures' \in 0..MaxFailures /\ proc' \in [Worker -> Fate]
  BY <1>1, <1>2, FailureType, GiveUpWrites DEF TypeOK, Removed, Fate
<1>4. TypeOK'
  BY <1>1, <1>2, <1>3 DEF TypeOK
<1>5. \A d \in Call : EffectiveWorkers(asked[d])' = EffectiveWorkers(asked[d])
  BY <1>1 DEF EffectiveWorkers
<1>6. \A d \in Call : /\ at'[d] = IF d = c THEN "done" ELSE at[d]
                      /\ started'[d] = IF d = c THEN {} ELSE started[d]
  BY <1>1, <1>2, CallsAct DEF TypeOK
<1>7. StartedInOrder'
  BY <1>1, <1>2, <1>5, <1>6 DEF StartedInOrder
<1> QED BY <1>4, <1>7 DEF TypeInv

LEMMA StepTypes == TypeInv /\ [Next]_vars => TypeInv'
<1> SUFFICES ASSUME TypeInv, [Next]_vars
             PROVE  TypeInv'
  OBVIOUS
<1>1. CASE \E c \in Call : SetLoadProfile(c)
  BY <1>1, BeginTypes, CallsAct DEF SetLoadProfile, clearAutoRevertTimer
<1>2. CASE \E c \in Call : AutoRevert(c)
  BY <1>2, BeginTypes, CallsAct DEF AutoRevert
<1>3. CASE ShutDown
  BY <1>3, BeginTypes, CallsAct DEF ShutDown, clearAutoRevertTimer
<1>4. CASE \E w \in Worker : Exit(w) \/ StrayExit(w) \/ GraceOver(w)
  BY <1>4, EndTypes
<1>5. CASE \E a \in Act : ResumeStopped(a)
  BY <1>5, ResumeStoppedTypes
<1>6. CASE \E c \in Call : ResumeLocal(c) \/ ResumeLocalFails(c) \/ ResumeDocker(c)
                           \/ SpawnDocker(c) \/ SpawnDockerFails(c)
  BY <1>6, ResumeLocalTypes, ResumeLocalFailsTypes, ResumeDockerTypes, SpawnDockerTypes,
     SpawnDockerFailsTypes
<1>7. CASE UNCHANGED vars
  <2>1. TypeOK' /\ UNCHANGED <<env, asked, started, at>> /\ StartedInOrder
    BY <1>7 DEF vars, TypeInv, TypeOK
  <2> QED BY <2>1, OrderKept DEF TypeInv
<1> QED BY <1>1, <1>2, <1>3, <1>4, <1>5, <1>6, <1>7 DEF Next

\* Every variable of the load profile service keeps its type: no call has more
\* workers than the machine allows, and ids go by number.
THEOREM LoadTypeOK == Spec => []TypeOK
<1>1. TypeInv => TypeOK
  BY DEF TypeInv
<1> QED BY <1>1, InitTypes, StepTypes, PTL DEF Spec

-----------------------------------------------------------------------------
(* Where the live workers are.                                             *)

\* A call that begins alone finds every live worker on the list.
LEMMA BeginSupervised ==
    ASSUME TypeInv, Supervised, NEW a \in Act, Begin(a)
    PROVE  Supervised'
<1>1. /\ at[a] = "idle" /\ at' = [at EXCEPT ![a] = "stopping"]
      /\ overlapped' = (overlapped \/ Busy # {}) /\ UNCHANGED mistaken /\ stopWorkers(a)
  BY DEF Begin
<1>2. at \in [Act -> {"idle", "stopping", "spawning", "done"}]
  BY DEF TypeInv, TypeOK
<1>3. \A w \in Worker : proc'[w] = "running" => w \in Alive /\ w \notin workers
  BY <1>1, StopTypes DEF TypeInv, Alive
<1>4. SUFFICES ASSUME ~overlapped', ~mistaken'
               PROVE  /\ \A b, c \in Busy' : b = c
                      /\ \A b \in Act : at'[b] = "stopping" => Alive' = {}
                      /\ \A c \in Call : at'[c] = "spawning" => Alive' \subseteq started'[c]
                      /\ Busy' = {} => Alive' \subseteq workers'
  BY DEF Supervised
<1>5. ~overlapped /\ ~mistaken /\ Busy = {}
  BY <1>1, <1>4
<1>6. Alive' = {}
  BY <1>3, <1>5 DEF Supervised, Alive
<1>7. \A b \in Act : at'[b] = IF b = a THEN "stopping" ELSE at[b]
  BY <1>1, <1>2
<1>8. Busy' = {a}
  BY <1>5, <1>7 DEF Busy
<1> QED BY <1>6, <1>8

\* An exit takes its own worker off the list, or is mistaken.
LEMMA EndSupervised ==
    ASSUME TypeInv, Supervised, NEW w \in Worker, Exit(w) \/ StrayExit(w) \/ GraceOver(w)
    PROVE  Supervised'
<1>1. UNCHANGED <<at, started, overlapped>>
  BY DEF Exit, StrayExit, GraceOver
<1>2. Busy' = Busy
  BY <1>1 DEF Busy
<1>3. proc \in [Worker -> Fate]
  BY DEF TypeInv, TypeOK
<1>4. Alive' \subseteq Alive \ {w}
  <2>1. proc' = [proc EXCEPT ![w] = "exited"] \/ proc' = [proc EXCEPT ![w] = "doomed"]
    BY DEF Exit, StrayExit, GraceOver
  <2> QED BY <2>1, <1>3 DEF Alive
<1>5. SUFFICES ASSUME ~overlapped, ~mistaken'
               PROVE  ~mistaken /\ (Alive \subseteq workers => Alive' \subseteq workers')
  BY <1>1, <1>2, <1>4 DEF Supervised
<1>6. CASE GraceOver(w) \/ StrayExit(w)
  BY <1>4, <1>5, <1>6 DEF GraceOver, StrayExit
<1>7. CASE Exit(w)
  <2>1. workers' = {v \in workers : v[2] # w[2]}
        /\ mistaken' = (mistaken \/ \E v \in workers \cap Alive : v # w /\ v[2] = w[2])
    BY <1>7 DEF Exit
  <2>2. ~mistaken /\ ~ \E v \in workers \cap Alive : v # w /\ v[2] = w[2]
    BY <2>1, <1>5
  <2> QED BY <2>1, <2>2, <1>4
<1> QED BY <1>6, <1>7

\* A call at work that ends, or that goes on to start workers, was alone.
LEMMA AloneAtWork ==
    ASSUME TypeInv, Supervised, ~overlapped, ~mistaken, NEW a \in Act, a \in Busy,
           NEW next, next \in {"done", "spawning"}, at' = [at EXCEPT ![a] = next]
    PROVE  /\ next = "done" => Busy' = {}
           /\ \A b \in Act : at'[b] \in {"stopping", "spawning"} => b = a /\ next = "spawning"
<1>1. \A b \in Act : at'[b] = IF b = a THEN next ELSE at[b]
  BY DEF TypeInv, TypeOK
<1>2. \A b \in Act : at[b] \in {"stopping", "spawning"} => b = a
  BY DEF Supervised, Busy
<1> QED BY <1>1, <1>2 DEF Busy

LEMMA ResumeSupervised ==
    ASSUME TypeInv, Supervised, NEW a \in Act, at[a] = "stopping",
           NEW next, next \in {"done", "spawning"}, at' = [at EXCEPT ![a] = next],
           UNCHANGED <<overlapped, mistaken>>,
           \A w \in Worker : proc'[w] = "running" =>
               proc[w] = "running" \/ (next = "done" /\ w \in workers')
    PROVE  Supervised'
<1>1. SUFFICES ASSUME ~overlapped, ~mistaken
               PROVE  Supervised'
  BY DEF Supervised
<1>2. a \in Busy /\ Alive = {}
  BY <1>1 DEF Busy, Supervised
<1>3. /\ next = "done" => Busy' = {}
      /\ \A b \in Act : at'[b] \in {"stopping", "spawning"} => b = a /\ next = "spawning"
  BY <1>1, <1>2, AloneAtWork
<1>4. Alive' \subseteq workers' /\ (next = "spawning" => Alive' = {})
  BY <1>2 DEF Alive
<1>5. \A b, c \in Busy' : b = c
  BY <1>3 DEF Busy
<1> QED BY <1>3, <1>4, <1>5, CallsAct DEF Supervised

LEMMA SpawnSupervised ==
    ASSUME TypeInv, Supervised, NEW c \in Call, SpawnDocker(c)
    PROVE  Supervised'
<1>1. PICK n \in Nat : Spawned(c, n)
  BY SpawnWrites
<1>2. SUFFICES ASSUME ~overlapped, ~mistaken
               PROVE  Supervised'
  BY <1>1 DEF Supervised, Spawned
<1>3. TypeOK /\ c \in Act
  BY CallsAct DEF TypeInv
<1>4. c \in Busy /\ Alive \subseteq Numbered(c, n)
  BY <1>1, <1>2, <1>3 DEF Busy, Supervised, Spawned
<1>5. Alive' \subseteq Numbered(c, n + 1)
  <2>1. \A w \in Worker : proc'[w] = "running" => w = <<c, n + 1>> \/ proc[w] = "running"
    BY <1>1, <1>3 DEF Spawned, TypeOK
  <2> QED BY <2>1, <1>1, <1>4 DEF Alive, Spawned
<1>6. CASE started' = [started EXCEPT ![c] = Numbered(c, n + 1)] /\ UNCHANGED at
  <2>1. Busy' = Busy /\ started'[c] = Numbered(c, n + 1)
    BY <1>3, <1>6 DEF Busy, TypeOK
  <2>2. \A b \in Act : at[b] \in {"stopping", "spawning"} => b = c
    BY <1>2, <1>4 DEF Supervised, Busy
  <2>3. at[c] # "stopping"
    BY <1>1 DEF Spawned
  <2> QED BY <2>1, <2>2, <2>3, <1>4, <1>5, <1>6, CallsAct DEF Supervised, Busy
<1>7. CASE workers' = Numbered(c, n + 1) /\ at' = [at EXCEPT ![c] = "done"]
  <2>1. Busy' = {} /\ \A b \in Act : at'[b] \notin {"stopping", "spawning"}
    BY <1>2, <1>3, <1>4, <1>7, AloneAtWork
  <2> QED BY <2>1, <1>5, <1>7, CallsAct DEF Supervised
<1> QED BY <1>1, <1>6, <1>7 DEF Spawned

LEMMA SpawnFailsSupervised ==
    ASSUME TypeInv, Supervised, NEW c \in Call, SpawnDockerFails(c)
    PROVE  Supervised'
<1>1. /\ at[c] = "spawning" /\ at' = [at EXCEPT ![c] = "done"]
      /\ UNCHANGED <<overlapped, mistaken>>
  BY DEF SpawnDockerFails, GiveUp
<1>2. SUFFICES ASSUME ~overlapped, ~mistaken
               PROVE  Supervised'
  BY <1>1 DEF Supervised
<1>3. c \in Act /\ c \in Busy /\ Alive \subseteq started[c]
  BY <1>1, <1>2, CallsAct DEF Busy, Supervised
<1>4. Alive' = {}
  BY <1>3, GiveUpWrites DEF Alive, Removed
<1>5. Busy' = {} /\ \A b \in Act : at'[b] \notin {"stopping", "spawning"}
  BY <1>1, <1>2, <1>3, AloneAtWork
<1> QED BY <1>4, <1>5 DEF Supervised

LEMMA StepCalls == TypeInv /\ OnlyCallsStart /\ [Next]_vars => OnlyCallsStart'
<1> SUFFICES ASSUME TypeInv, OnlyCallsStart, [Next]_vars
             PROVE  OnlyCallsStart'
  OBVIOUS
<1>1. \/ UNCHANGED at
      \/ \E a \in Act : at' = [at EXCEPT ![a] = "stopping"] \/ at' = [at EXCEPT ![a] = "done"]
      \/ \E c \in Call : at' = [at EXCEPT ![c] = "spawning"]
  <2>1. CASE \E c \in Call : SetLoadProfile(c) \/ AutoRevert(c)
    BY <2>1, CallsAct DEF SetLoadProfile, AutoRevert, Begin
  <2>2. CASE ShutDown
    BY <2>2, CallsAct DEF ShutDown, Begin
  <2>3. CASE \E w \in Worker : Exit(w) \/ StrayExit(w) \/ GraceOver(w)
    BY <2>3 DEF Exit, StrayExit, GraceOver
  <2>4. CASE \E a \in Act : ResumeStopped(a)
    BY <2>4 DEF ResumeStopped, Return
  <2>5. CASE \E c \in Call : ResumeLocal(c) \/ ResumeLocalFails(c) \/ ResumeDocker(c)
    BY <2>5, CallsAct DEF ResumeLocal, ResumeLocalFails, ResumeDocker, Return
  <2>6. CASE \E c \in Call : SpawnDocker(c)
    <3>1. PICK c \in Call : SpawnDocker(c)
      BY <2>6
    <3>2. PICK n \in Nat : Spawned(c, n)
      BY <3>1, SpawnWrites
    <3> QED BY <3>2, CallsAct DEF Spawned
  <2>7. CASE \E c \in Call : SpawnDockerFails(c)
    BY <2>7, CallsAct DEF SpawnDockerFails, GiveUp
  <2>8. CASE UNCHANGED vars
    BY <2>8 DEF vars
  <2> QED BY <2>1, <2>2, <2>3, <2>4, <2>5, <2>6, <2>7, <2>8 DEF Next
<1> QED BY <1>1 DEF OnlyCallsStart, TypeInv, TypeOK

LEMMA InitSupervised == Init => Supervised
BY DEF Init, Supervised, Busy, Alive

LEMMA StepSupervised == TypeInv /\ Supervised /\ [Next]_vars => Supervised'
<1> SUFFICES ASSUME TypeInv, Supervised, [Next]_vars
             PROVE  Supervised'
  OBVIOUS
<1>1. CASE \/ \E c \in Call : SetLoadProfile(c) \/ AutoRevert(c)
           \/ ShutDown
  BY <1>1, BeginSupervised, CallsAct DEF SetLoadProfile, AutoRevert, ShutDown
<1>2. CASE \E w \in Worker : Exit(w) \/ StrayExit(w) \/ GraceOver(w)
  BY <1>2, EndSupervised
<1>3. CASE \E a \in Act : ResumeStopped(a)
  BY <1>3, ResumeSupervised DEF ResumeStopped, Return
<1>4. CASE \E c \in Call : ResumeLocal(c)
  <2>1. PICK c \in Call : ResumeLocal(c)
    BY <1>4
  <2>2. /\ at[c] = "stopping" /\ at' = [at EXCEPT ![c] = "done"]
        /\ UNCHANGED <<overlapped, mistaken>>
    BY <2>1 DEF ResumeLocal, CanStart, Return
  <2> QED BY <2>1, <2>2, ResumeLocalTypes, ResumeSupervised, CallsAct
<1>5. CASE \E c \in Call : ResumeLocalFails(c)
  <2>1. PICK c \in Call : ResumeLocalFails(c)
    BY <1>5
  <2>2. /\ at[c] = "stopping" /\ at' = [at EXCEPT ![c] = "done"]
        /\ UNCHANGED <<overlapped, mistaken>>
        /\ \E S : proc' = [w \in Worker |-> IF w \in S THEN "left" ELSE proc[w]]
    BY <2>1 DEF ResumeLocalFails, CanStart
  <2>3. \A w \in Worker : proc'[w] = "running" => proc[w] = "running"
    BY <2>2
  <2> QED BY <2>2, <2>3, ResumeSupervised, CallsAct
<1>6. CASE \E c \in Call : ResumeDocker(c)
  BY <1>6, ResumeSupervised, CallsAct DEF ResumeDocker, CanStart
<1>7. CASE \E c \in Call : SpawnDocker(c) \/ SpawnDockerFails(c)
  BY <1>7, SpawnSupervised, SpawnFailsSupervised
<1>8. CASE UNCHANGED vars
  BY <1>8 DEF vars, Supervised, Busy, Alive
<1> QED BY <1>1, <1>2, <1>3, <1>4, <1>5, <1>6, <1>7, <1>8 DEF Next

\* Whoever got a SIGTERM and no more is awaited by the call that sent it.
SignalledIsAwaited ==
    /\ \A w \in Worker : proc[w] = "signalled" => \E a \in Act : w \in awaited[a]
    /\ \A a \in Act : at[a] = "idle" => awaited[a] = {}

LEMMA BeginAwaits ==
    ASSUME TypeInv, SignalledIsAwaited, NEW a \in Act, Begin(a)
    PROVE  SignalledIsAwaited'
<1>1. /\ at[a] = "idle" /\ at' = [at EXCEPT ![a] = "stopping"] /\ stopWorkers(a) /\ TypeOK
  BY DEF Begin, TypeInv
<1> DEFINE live == workers \cap Alive
<1>2. /\ awaited' = [awaited EXCEPT ![a] = IF env.docker THEN {} ELSE live]
      /\ \/ env.docker /\ \E lost : proc' = Removed(live, lost)
         \/ ~env.docker /\ proc' = [w \in Worker |-> IF w \in live THEN "signalled" ELSE proc[w]]
  BY <1>1 DEF stopWorkers
<1> HIDE DEF live
<1>3. \A b \in Act : awaited'[b] = IF b = a THEN (IF env.docker THEN {} ELSE live) ELSE awaited[b]
  BY <1>1, <1>2 DEF TypeOK
<1>4. awaited[a] = {}
  BY <1>1 DEF SignalledIsAwaited
<1>5. ASSUME NEW w \in Worker, proc'[w] = "signalled"
      PROVE  \E b \in Act : w \in awaited'[b]
  <2>1. proc[w] = "signalled" \/ (~env.docker /\ w \in live)
    BY <1>2, <1>5 DEF Removed
  <2>2. CASE proc[w] = "signalled"
    BY <1>3, <1>4, <2>2 DEF SignalledIsAwaited
  <2>3. CASE ~env.docker /\ w \in live
    BY <1>3, <2>3
  <2> QED BY <2>1, <2>2, <2>3
<1>6. \A b \in Act : at'[b] = "idle" => b # a /\ at[b] = "idle"
  BY <1>1 DEF TypeOK
<1> QED BY <1>3, <1>5, <1>6 DEF SignalledIsAwaited

\* Everybody else signals nobody, and starts only calls that have begun.
LEMMA AwaitedStays ==
    ASSUME SignalledIsAwaited, UNCHANGED awaited,
           \A w \in Worker : proc'[w] = "signalled" => proc[w] = "signalled",
           \A a \in Act : at'[a] = "idle" => at[a] = "idle"
    PROVE  SignalledIsAwaited'
BY DEF SignalledIsAwaited

LEMMA EndAwaits ==
    ASSUME TypeInv, SignalledIsAwaited, NEW w \in Worker, Exit(w) \/ StrayExit(w) \/ GraceOver(w)
    PROVE  SignalledIsAwaited'
<1>1. /\ proc' = [proc EXCEPT ![w] = "exited"] \/ proc' = [proc EXCEPT ![w] = "doomed"]
      /\ WaitIsOver(w) \/ UNCHANGED awaited
      /\ UNCHANGED at /\ TypeOK
  BY DEF Exit, StrayExit, GraceOver, TypeInv
<1>2. \A v \in Worker : proc'[v] = "signalled" => v # w /\ proc[v] = "signalled"
  BY <1>1 DEF TypeOK
<1>3. \A a \in Act : awaited'[a] = awaited[a] \/ awaited'[a] = awaited[a] \ {w}
  BY <1>1 DEF WaitIsOver, TypeOK
<1> QED BY <1>1, <1>2, <1>3 DEF SignalledIsAwaited

LEMMA StepAwaited == TypeInv /\ SignalledIsAwaited /\ [Next]_vars => SignalledIsAwaited'
<1> SUFFICES ASSUME TypeInv, SignalledIsAwaited, [Next]_vars
             PROVE  SignalledIsAwaited'
  OBVIOUS
<1>0. at \in [Act -> {"idle", "stopping", "spawning", "done"}] /\ proc \in [Worker -> Fate]
  BY DEF TypeInv, TypeOK
<1>1. CASE \/ \E c \in Call : SetLoadProfile(c) \/ AutoRevert(c)
           \/ ShutDown
  BY <1>1, BeginAwaits, CallsAct DEF SetLoadProfile, AutoRevert, ShutDown
<1>2. CASE \E w \in Worker : Exit(w) \/ StrayExit(w) \/ GraceOver(w)
  BY <1>2, EndAwaits
<1>3. CASE \E a \in Act : ResumeStopped(a)
  BY <1>0, <1>3, AwaitedStays DEF ResumeStopped, Return
<1>4. ASSUME NEW c \in Call, ResumeLocal(c) \/ ResumeLocalFails(c) \/ ResumeDocker(c)
      PROVE  SignalledIsAwaited'
  <2>1. /\ UNCHANGED awaited
        /\ at' = [at EXCEPT ![c] = "done"] \/ at' = [at EXCEPT ![c] = "spawning"]
    BY <1>4 DEF ResumeLocal, ResumeLocalFails, ResumeDocker, Return
  <2>2. \A w \in Worker : proc'[w] = "signalled" => proc[w] = "signalled"
    BY <1>4 DEF ResumeLocal, ResumeLocalFails, ResumeDocker
  <2> QED BY <1>0, <2>1, <2>2, AwaitedStays
<1>5. ASSUME NEW c \in Call, SpawnDocker(c)
      PROVE  SignalledIsAwaited'
  <2>1. PICK n \in Nat : Spawned(c, n)
    BY <1>5, SpawnWrites
  <2>2. UNCHANGED awaited /\ (UNCHANGED at \/ at' = [at EXCEPT ![c] = "done"])
    BY <2>1 DEF Spawned
  <2>3. \A w \in Worker : proc'[w] = "signalled" => proc[w] = "signalled"
    BY <1>0, <2>1 DEF Spawned
  <2> QED BY <1>0, <2>2, <2>3, AwaitedStays
<1>6. ASSUME NEW c \in Call, SpawnDockerFails(c)
      PROVE  SignalledIsAwaited'
  <2>1. UNCHANGED awaited /\ at' = [at EXCEPT ![c] = "done"]
    BY <1>6 DEF SpawnDockerFails, GiveUp
  <2>2. \A w \in Worker : proc'[w] = "signalled" => proc[w] = "signalled"
    BY <1>6, GiveUpWrites DEF Removed
  <2> QED BY <1>0, <2>1, <2>2, AwaitedStays
<1>7. CASE UNCHANGED vars
  BY <1>7 DEF vars, SignalledIsAwaited
<1> QED BY <1>1, <1>2, <1>3, <1>4, <1>5, <1>6, <1>7 DEF Next

\* A generator runs where neither the timer nor shutdown will find it only if two
\* calls were at work at a time, an old worker's exit was taken for a new one's, or it
\* is one the service tried to end, or to start, once and in vain: its removal failed,
\* its start threw when it was up, or it got the SIGTERM of a call that gave up.
THEOREM LoadOrphansNeedARace == Spec => []OrphansNeedARace
<1>1. TypeInv /\ Supervised /\ OnlyCallsStart /\ SignalledIsAwaited => OrphansNeedARace
  <2> SUFFICES ASSUME TypeInv, Supervised, OnlyCallsStart, SignalledIsAwaited,
                      ~overlapped, ~mistaken, NEW w \in Orphans, w \notin Stranded
               PROVE  FALSE
    BY DEF OrphansNeedARace
  <2>1. w \in Alive /\ w \notin workers /\ \A c \in Call : w \notin started[c]
    BY DEF Orphans, Loose, Stranded, Alive, SignalledIsAwaited
  <2>2. PICK a \in Act : at[a] \in {"stopping", "spawning"}
    BY <2>1 DEF Supervised, Busy
  <2>3. at[a] = "spawning" /\ a \in Call
    BY <2>1, <2>2 DEF Supervised, OnlyCallsStart
  <2> QED BY <2>1, <2>3 DEF Supervised
<1>2. Init => OnlyCallsStart /\ SignalledIsAwaited
  BY DEF Init, OnlyCallsStart, SignalledIsAwaited
<1> QED BY <1>1, <1>2, InitTypes, StepTypes, StepCalls, InitSupervised, StepSupervised, StepAwaited,
           PTL DEF Spec

-----------------------------------------------------------------------------
(* The telemetry and the profile.                                          *)

\* What Reported and KillSwitch are about.
Shown == Reported /\ KillSwitch

LEMMA BeginShown ==
    ASSUME TypeInv, Shown, NEW a \in Act, Begin(a)
    PROVE  Shown'
<1>1. /\ at[a] = "idle" /\ at' = [at EXCEPT ![a] = "stopping"]
      /\ (env.disable /\ profile' = 10) \/ UNCHANGED <<profile, setBy>>
      /\ UNCHANGED <<env, telemetry>>
  BY DEF Begin
<1>2. \A c \in Call : at[c] = "spawning" => at'[c] = "spawning"
  BY <1>1, CallsAct DEF TypeInv, TypeOK
<1>3. KillSwitch'
  BY <1>1 DEF Shown, KillSwitch
<1>4. Reported'
  BY <1>1, <1>2 DEF Shown, Reported, KillSwitch
<1> QED BY <1>3, <1>4 DEF Shown

LEMMA ResumeStoppedShown ==
    ASSUME TypeInv, Shown, NEW a \in Act, ResumeStopped(a)
    PROVE  Shown'
<1>1. /\ at[a] = "stopping" /\ at' = [at EXCEPT ![a] = "done"]
      /\ IF env.disable \/ a = Shutdown THEN UNCHANGED <<profile, setBy>>
         ELSE profile' = 10 /\ setBy' = IF a \in Revert THEN "revert" ELSE "request"
      /\ telemetry' = IF a \in Call THEN profile' ELSE telemetry
      /\ UNCHANGED env
  BY DEF ResumeStopped, Return
<1>2. \A c \in Call : at[c] = "spawning" => at'[c] = "spawning"
  BY <1>1, CallsAct DEF TypeInv, TypeOK
<1>3. KillSwitch'
  BY <1>1 DEF Shown, KillSwitch
<1>4. CASE a \in Call
  BY <1>1, <1>3, <1>4 DEF Shown, Reported
<1>5. CASE a \in Revert
  <2>1. a \notin Call \/ a \in Call
    OBVIOUS
  <2> QED BY <1>1, <1>2, <1>3, <1>4, <1>5 DEF Shown, Reported, KillSwitch
<1>6. CASE a = Shutdown
  BY <1>1, <1>2, <1>3, <1>4, <1>6 DEF Shown, Reported
<1> QED BY <1>4, <1>5, <1>6 DEF Act

\* A call that starts workers, or fails to, says so or is about to.
LEMMA StartShown ==
    ASSUME TypeInv, Shown, NEW c \in Call, UNCHANGED env, ~env.disable,
           telemetry' = profile' \/ setBy' = "failure" \/ at'[c] = "spawning"
    PROVE  Shown'
BY DEF Shown, Reported, KillSwitch

LEMMA SpawnShown ==
    ASSUME TypeInv, Shown, NEW c \in Call, SpawnDocker(c)
    PROVE  Shown'
<1>1. PICK n \in Nat : Spawned(c, n)
  BY SpawnWrites
<1>2. CASE UNCHANGED <<at, telemetry>>
  BY <1>1, <1>2 DEF Shown, Reported, KillSwitch, Spawned
<1>3. CASE telemetry' = profile
  BY <1>1, <1>3 DEF Shown, Reported, KillSwitch, Spawned
<1> QED BY <1>1, <1>2, <1>3 DEF Spawned

LEMMA StepShown == TypeInv /\ Shown /\ [Next]_vars => Shown'
<1> SUFFICES ASSUME TypeInv, Shown, [Next]_vars
             PROVE  Shown'
  OBVIOUS
<1>1. CASE \/ \E c \in Call : SetLoadProfile(c) \/ AutoRevert(c)
           \/ ShutDown
  BY <1>1, BeginShown, CallsAct DEF SetLoadProfile, AutoRevert, ShutDown
<1>2. CASE \E w \in Worker : Exit(w) \/ StrayExit(w) \/ GraceOver(w)
  BY <1>2 DEF Exit, StrayExit, GraceOver, Shown, Reported, KillSwitch
<1>3. CASE \E a \in Act : ResumeStopped(a)
  BY <1>3, ResumeStoppedShown
<1>4. CASE \E c \in Call : ResumeLocal(c)
  BY <1>4, StartShown DEF ResumeLocal, CanStart, Return
<1>5. CASE \E c \in Call : ResumeLocalFails(c)
  BY <1>5, StartShown DEF ResumeLocalFails, CanStart
<1>6. CASE \E c \in Call : ResumeDocker(c)
  <2>1. PICK c \in Call : ResumeDocker(c)
    BY <1>6
  <2>2. at'[c] = "spawning" /\ ~env.disable /\ UNCHANGED env
    BY <2>1, CallsAct DEF ResumeDocker, CanStart, TypeInv, TypeOK
  <2> QED BY <2>2, StartShown
<1>7. CASE \E c \in Call : SpawnDocker(c)
  BY <1>7, SpawnShown
<1>8. CASE \E c \in Call : SpawnDockerFails(c)
  <2>1. profile' = 10 /\ setBy' = "failure" /\ UNCHANGED <<env, telemetry>>
    BY <1>8 DEF SpawnDockerFails, GiveUp
  <2> QED BY <2>1 DEF Shown, Reported, KillSwitch
<1>9. CASE UNCHANGED vars
  BY <1>9 DEF vars, Shown, Reported, KillSwitch
<1> QED BY <1>1, <1>2, <1>3, <1>4, <1>5, <1>6, <1>7, <1>8, <1>9 DEF Next

\* With no call at work the metrics show another profile than the service has
\* only when the timer or a failed start set it last: every other change of
\* the profile is reported, however the calls overlap.
THEOREM LoadTelemetryLagsOnlyReverts == Spec => []TelemetryLagsOnlyReverts
<1>1. Init => Shown
  BY DEF Init, Shown, Reported, KillSwitch
<1>2. Shown => TelemetryLagsOnlyReverts
  BY CallsAct DEF Shown, Reported, TelemetryLagsOnlyReverts, Busy
<1> QED BY <1>1, <1>2, InitTypes, StepTypes, StepShown, PTL DEF Spec
=============================================================================
