---------------------------- MODULE LoadProfile ----------------------------
(***************************************************************************)
(* RuntimeLoadProfileService, which sets the stress profile of the system  *)
(* by starting and stopping load generators, and the Nest endpoint that    *)
(* calls it.  A setProfile call stops the workers it finds, waits for      *)
(* them, starts its own and arms a timer that sets the profile back.       *)
(* Nothing keeps two calls apart: they interleave at each await.  The code *)
(* between two awaits is one step; variable thread holds the call whose    *)
(* continuation the event loop has queued and runs before anything else.   *)
(* A worker is named by the call that started it and its id, 1, 2, ...;    *)
(* the service knows it by the id alone.                                   *)
(***************************************************************************)
EXTENDS Integers, FiniteSets

CONSTANTS
    Call,           \* requests POST /api/load-profile; each has a timer to set it back
    Shutdown,       \* the call of shutdown()
    Nobody,         \* no call
    Pcts,           \* profiles the requests ask for
    MaxWorkers,     \* STRESS_MAX_WORKERS or the CPUs, whichever is less
    Settings,       \* environments the server may be started in
    MaxFailures     \* bound: calls in which a start or removals fail

ASSUME LoadAssumption ==
    /\ Shutdown \notin Call /\ Nobody \notin Call \cup {Shutdown}
    /\ Pcts \subseteq {10, 25, 50, 100}
    /\ MaxWorkers \in Nat \ {0} /\ MaxFailures \in Nat
    /\ Settings \subseteq [docker : BOOLEAN, disable : BOOLEAN, revert : BOOLEAN,
                           calibrate : BOOLEAN]

VARIABLES
    env,        \* the environment, which does not change
    profile,    \* this.profile
    workers,    \* this.workers
    proc,       \* what became of each worker's process
    at,         \* where each call stands
    asked,      \* the profile each request asks for
    awaited,    \* processes whose exit a call awaits in stopWorkers
    started,    \* workers a call has started and not yet put in this.workers
    armed,      \* requests whose timer is running
    timer,      \* this.maxDurationTimer: the request it is of
    thread,     \* the call that goes on at once
    telemetry,  \* profilePct of the metrics the SSE channel carries
    failures,   \* failures so far
    overlapped, \* a call began while another was at work: history
    mistaken,   \* an old worker's exit took a new one off the list: history
    setBy       \* what set the profile last: history

vars == <<env, profile, workers, proc, at, asked, awaited, started, armed, timer, thread,
          telemetry, failures, overlapped, mistaken, setBy>>

\* A worker that is left runs after the one attempt to end it; a stray is a container
\* nobody has waited for.
Fate == {"none", "running", "signalled", "doomed", "left", "stray", "exited"}

\* A request's call and the call its timer makes, which is setProfile(10).
Revert == {<<c>> : c \in Call}
Act == Call \cup Revert \cup {Shutdown}

Worker == Call \X (1..MaxWorkers)

Smaller(a, b) == IF a < b THEN a ELSE b
Larger(a, b) == IF a < b THEN b ELSE a

PROFILE_MAP == [pct \in {10, 25, 50, 100} |->
    CASE pct = 10 -> 0 [] pct = 25 -> 2 [] pct = 50 -> 4 [] pct = 100 -> 8]

\* Mutated form: one worker more than the share.
calibrateWorkersUp(pct, max) == IF pct = 10 THEN 0 ELSE (max * pct) \div 100 + 1

\* Math.round of max * pct / 100, at least one worker.
calibrateWorkers(pct, max) ==
    IF pct = 10 THEN 0 ELSE Smaller(Larger(1, (max * pct + 50) \div 100), max)

EffectiveWorkers(pct) ==
    IF env.calibrate THEN calibrateWorkers(pct, MaxWorkers)
    ELSE Smaller(PROFILE_MAP[pct], MaxWorkers)

Init ==
    /\ env \in Settings
    /\ profile = 10 /\ workers = {}
    /\ proc = [w \in Worker |-> "none"]
    /\ at = [a \in Act |-> "idle"]
    /\ asked \in [Call -> Pcts]
    /\ awaited = [a \in Act |-> {}] /\ started = [c \in Call |-> {}]
    /\ armed = {} /\ timer = Nobody
    /\ thread = Nobody
    /\ telemetry = 10
    /\ failures = 0
    /\ overlapped = FALSE /\ mistaken = FALSE /\ setBy = "start"

Busy == {a \in Act : at[a] \in {"stopping", "spawning"}}
Alive == {w \in Worker : proc[w] = "running"}
AskedBy(a) == IF a \in Call THEN asked[a] ELSE 10

-----------------------------------------------------------------------------
(* The part of setProfile and of shutdown before the first await.          *)

clearAutoRevertTimer == armed' = armed \ {timer} /\ timer' = Nobody

Failure == failures < MaxFailures /\ failures' = failures + 1

\* What removing the containers makes of them; a removal that fails is not noticed.
Removed(containers, lost) ==
    [w \in Worker |-> IF w \in lost THEN "left" ELSE IF w \in containers THEN "doomed" ELSE proc[w]]

stopWorkers(a) ==
    LET live == workers \cap Alive
    IN /\ \/ /\ env.docker
             /\ \E lost \in SUBSET live :
                   /\ IF lost = {} THEN UNCHANGED failures ELSE Failure
                   /\ proc' = Removed(live, lost)
          \/ /\ ~env.docker /\ UNCHANGED failures
             /\ proc' = [w \in Worker |-> IF w \in live THEN "signalled" ELSE proc[w]]
       /\ awaited' = [awaited EXCEPT ![a] = IF env.docker THEN {} ELSE live]
       /\ thread' = IF env.docker \/ live = {} THEN a ELSE Nobody
       /\ workers' = {}

Begin(a) ==
    /\ thread = Nobody /\ at[a] = "idle"
    /\ at' = [at EXCEPT ![a] = "stopping"]
    /\ overlapped' = (overlapped \/ Busy # {})
    /\ IF env.disable /\ a # Shutdown THEN profile' = 10 /\ setBy' = "disable"
       ELSE UNCHANGED <<profile, setBy>>
    /\ stopWorkers(a)
    /\ UNCHANGED <<env, asked, started, telemetry, mistaken>>

\* The HTTP server takes no request once it is being shut down.
SetLoadProfile(c) == at[Shutdown] = "idle" /\ Begin(c) /\ clearAutoRevertTimer

\* Firing does not reset maxDurationTimer; the call that follows clears it,
\* which may be another's.
AutoRevert(c) ==
    /\ c \in armed
    /\ Begin(<<c>>)
    /\ armed' = armed \ {c, timer} /\ timer' = Nobody

ShutDown == Begin(Shutdown) /\ clearAutoRevertTimer

-----------------------------------------------------------------------------
(* The end of a process, awaited or not.                                   *)

WaitIsOver(w) ==
    /\ awaited' = [a \in Act |-> awaited[a] \ {w}]
    /\ thread' = IF \E a \in Act : awaited[a] = {w}
                 THEN CHOOSE a \in Act : awaited[a] = {w} ELSE Nobody

\* The handler of 'exit', or of a container's wait(): it takes every worker
\* of that id off the list.  A stray has none.
Exit(w) ==
    /\ thread = Nobody /\ proc[w] \in {"running", "signalled", "doomed", "left"}
    /\ proc' = [proc EXCEPT ![w] = "exited"]
    /\ workers' = {v \in workers : v[2] # w[2]}
    /\ mistaken' = (mistaken \/ \E v \in workers \cap Alive : v # w /\ v[2] = w[2])
    /\ WaitIsOver(w)
    /\ UNCHANGED <<env, profile, at, asked, started, armed, timer, telemetry, failures,
                   overlapped, setBy>>

StrayExit(w) ==
    /\ thread = Nobody /\ proc[w] = "stray"
    /\ proc' = [proc EXCEPT ![w] = "exited"]
    /\ UNCHANGED <<env, profile, workers, at, asked, awaited, started, armed, timer, thread,
                   telemetry, failures, overlapped, mistaken, setBy>>

\* Two seconds after a SIGTERM without an exit.
GraceOver(w) ==
    /\ thread = Nobody /\ \E a \in Act : w \in awaited[a]
    /\ proc' = [proc EXCEPT ![w] = "doomed"]
    /\ WaitIsOver(w)
    /\ UNCHANGED <<env, profile, workers, at, asked, started, armed, timer, telemetry,
                   failures, overlapped, mistaken, setBy>>

-----------------------------------------------------------------------------
(* setProfile after stopWorkers.                                           *)

\* The endpoint copies the returned status to the telemetry in the same step.
\* Mutated form: it reports the profile asked for.
ReturnAsked(a) ==
    /\ at' = [at EXCEPT ![a] = "done"]
    /\ telemetry' = IF a \in Call THEN asked[a] ELSE telemetry
    /\ thread' = Nobody

Return(a) ==
    /\ at' = [at EXCEPT ![a] = "done"]
    /\ telemetry' = IF a \in Call THEN profile' ELSE telemetry
    /\ thread' = Nobody

\* this.workers = started, and the timer.
Finish(c, new) ==
    /\ workers' = new
    /\ IF env.revert /\ asked[c] # 10 THEN armed' = armed \cup {c} /\ timer' = c
       ELSE UNCHANGED <<armed, timer>>

\* The catch block: what was started is to be removed, which may fail; a container
\* that is up although its start threw is a stray.
\* Mutated form: the profile stays as asked.
GiveUpKeepingProfile(c, begun, strays) ==
    /\ Failure
    /\ \E lost \in SUBSET (begun \cap Alive) :
          proc' = [w \in Worker |-> IF w \in strays THEN "stray"
                                    ELSE Removed(begun \cap Alive, lost)[w]]
    /\ workers' = {} /\ UNCHANGED profile /\ setBy' = "failure"
    /\ at' = [at EXCEPT ![c] = "done"] /\ thread' = Nobody
    /\ UNCHANGED <<telemetry, armed, timer>>

\* Mutated form: what was started is left alone.
GiveUpLeavingStarted(c, begun, strays) ==
    /\ Failure
    /\ UNCHANGED proc
    /\ workers' = {} /\ profile' = 10 /\ setBy' = "failure"
    /\ at' = [at EXCEPT ![c] = "done"] /\ thread' = Nobody
    /\ UNCHANGED <<telemetry, armed, timer>>

GiveUp(c, begun, strays) ==
    /\ Failure
    /\ \E lost \in SUBSET (begun \cap Alive) :
          proc' = [w \in Worker |-> IF w \in strays THEN "stray"
                                    ELSE Removed(begun \cap Alive, lost)[w]]
    /\ workers' = {} /\ profile' = 10 /\ setBy' = "failure"
    /\ at' = [at EXCEPT ![c] = "done"] /\ thread' = Nobody
    /\ UNCHANGED <<telemetry, armed, timer>>

Numbered(c, n) == {c} \X (1..n)

\* The kill switch, the base profile and shutdown have nothing to start.
ResumeStopped(a) ==
    /\ thread = a /\ at[a] = "stopping"
    /\ env.disable \/ AskedBy(a) = 10
    /\ IF env.disable \/ a = Shutdown THEN UNCHANGED <<profile, setBy>>
       ELSE profile' = 10 /\ setBy' = IF a \in Revert THEN "revert" ELSE "request"
    /\ Return(a)
    /\ UNCHANGED <<env, workers, proc, asked, awaited, started, armed, timer, failures,
                   overlapped, mistaken>>

CanStart(c) == thread = c /\ at[c] = "stopping" /\ ~env.disable /\ asked[c] # 10

\* spawnLocalWorker does not wait for anything: the loop runs to its end.
ResumeLocal(c) ==
    /\ CanStart(c) /\ ~env.docker
    /\ profile' = asked[c] /\ setBy' = "request"
    /\ LET new == Numbered(c, EffectiveWorkers(asked[c]))
       IN /\ proc' = [w \in Worker |-> IF w \in new THEN "running" ELSE proc[w]]
          /\ Finish(c, new)
    /\ Return(c)
    /\ UNCHANGED <<env, asked, awaited, started, failures, overlapped, mistaken>>

\* The n-th start throws; those before it have just been started, and get a SIGTERM
\* that no SIGKILL follows.
ResumeLocalFails(c) ==
    /\ CanStart(c) /\ ~env.docker /\ Failure
    /\ \E n \in 1..EffectiveWorkers(asked[c]) :
          proc' = [w \in Worker |-> IF w \in Numbered(c, n - 1) THEN "left" ELSE proc[w]]
    /\ workers' = {} /\ profile' = 10 /\ setBy' = "failure"
    /\ at' = [at EXCEPT ![c] = "done"] /\ thread' = Nobody
    /\ UNCHANGED <<env, asked, awaited, started, armed, timer, telemetry, overlapped, mistaken>>

ResumeDocker(c) ==
    /\ CanStart(c) /\ env.docker
    /\ profile' = asked[c] /\ setBy' = "request"
    /\ at' = [at EXCEPT ![c] = "spawning"] /\ thread' = Nobody
    /\ UNCHANGED <<env, workers, proc, asked, awaited, started, armed, timer, telemetry,
                   failures, overlapped, mistaken>>

\* One container is up, and the loop goes on to the next or ends.
SpawnDocker(c) ==
    /\ thread = Nobody /\ at[c] = "spawning"
    /\ LET w == <<c, Cardinality(started[c]) + 1>>
           new == started[c] \cup {w}
       IN /\ proc' = [proc EXCEPT ![w] = "running"]
          /\ IF Cardinality(new) < EffectiveWorkers(asked[c])
             THEN /\ started' = [started EXCEPT ![c] = new]
                  /\ UNCHANGED <<workers, at, armed, timer, thread, telemetry>>
             ELSE /\ started' = [started EXCEPT ![c] = {}]
                  /\ Finish(c, new)
                  /\ at' = [at EXCEPT ![c] = "done"] /\ telemetry' = profile
                  /\ UNCHANGED thread
    /\ UNCHANGED <<env, profile, asked, awaited, failures, overlapped, mistaken, setBy>>

\* Neither dockerode nor the docker command starts the container; or dockerode did,
\* its start() threw all the same, and the command fails on the name.
SpawnDockerFails(c) ==
    /\ thread = Nobody /\ at[c] = "spawning"
    /\ started' = [started EXCEPT ![c] = {}]
    /\ \E strays \in SUBSET {<<c, Cardinality(started[c]) + 1>>} : GiveUp(c, started[c], strays)
    /\ UNCHANGED <<env, asked, awaited, overlapped, mistaken>>

-----------------------------------------------------------------------------

\* What the event loop and the operating system get done of themselves.
Progress ==
    \/ \E w \in Worker : GraceOver(w) \/ (proc[w] = "doomed" /\ Exit(w))
    \/ \E a \in Act : ResumeStopped(a)
    \/ \E c \in Call : ResumeLocal(c) \/ ResumeDocker(c) \/ SpawnDocker(c)

Next ==
    \/ \E c \in Call : SetLoadProfile(c) \/ AutoRevert(c)
    \/ ShutDown
    \/ \E w \in Worker : Exit(w) \/ StrayExit(w) \/ GraceOver(w)
    \/ \E a \in Act : ResumeStopped(a)
    \/ \E c \in Call : ResumeLocal(c) \/ ResumeLocalFails(c) \/ ResumeDocker(c)
                       \/ SpawnDocker(c) \/ SpawnDockerFails(c)

\* Timers fire, continuations run, the Docker daemon answers, and a killed process
\* ends.  Nobody owes the system a request, a shutdown, a failure or the exit of a
\* process that has only been asked.
Fairness == WF_vars(Progress) /\ \A c \in Call : WF_vars(AutoRevert(c))

Spec == Init /\ [][Next]_vars /\ Fairness

-----------------------------------------------------------------------------

\* The variables keep their types.
TypeOK ==
    /\ env \in Settings
    /\ profile \in Pcts \cup {10} /\ telemetry \in Pcts \cup {10}
    /\ workers \subseteq Worker
    /\ proc \in [Worker -> Fate]
    /\ at \in [Act -> {"idle", "stopping", "spawning", "done"}]
    /\ asked \in [Call -> Pcts]
    /\ awaited \in [Act -> SUBSET Worker] /\ started \in [Call -> SUBSET Worker]
    /\ armed \subseteq Call /\ timer \in Call \cup {Nobody}
    /\ thread \in Act \cup {Nobody}
    /\ failures \in 0..MaxFailures
    /\ overlapped \in BOOLEAN /\ mistaken \in BOOLEAN
    /\ setBy \in {"start", "disable", "revert", "request", "failure"}

\* Generators that run and that nobody is about to kill.
Loose == {w \in Worker : \/ proc[w] \in {"running", "left", "stray"}
                         \/ proc[w] = "signalled" /\ \A a \in Act : w \notin awaited[a]}

Orphans == {w \in Loose : w \notin workers /\ \A c \in Call : w \notin started[c]}

\* The service has let go of them: their removal failed, their start threw when they
\* were up, or they got the SIGTERM of a call that gave up.
Stranded == {w \in Worker : proc[w] \in {"left", "stray"}}

\* A generator runs outside the list, where neither the timer nor shutdown
\* will find it, only if two calls were at work at a time, an old worker's exit was
\* taken for a new one's, or the service's one attempt to end it, or to start it, failed.
OrphansNeedARace == Orphans \subseteq Stranded \/ overlapped \/ mistaken

\* With no call at work, the telemetry shows another profile than the service
\* has only when the timer or a failed start set it last: neither reports.
TelemetryLagsOnlyReverts ==
    Busy = {} /\ telemetry # profile => setBy \in {"revert", "failure"}

\* However the requests overlap, the service ends with an empty list and, unless
\* it was shut down meanwhile, at the base profile.
RevertsToBaseline ==
    env.revert => <>[](workers = {} /\ (profile = 10 \/ at[Shutdown] = "done"))

=============================================================================
