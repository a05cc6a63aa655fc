------------------------------- MODULE Service -------------------------------
(***************************************************************************)
(* run_service: the configuration is loaded and wired, three triggers ask  *)
(* the executor for runs, and a signal takes it all down again.  Of the    *)
(* executor only what RunAdmission promises is used here, of the listener  *)
(* that it waits for each run it submits.  uvicorn, APScheduler and        *)
(* asyncio.run are external: what they do at a shutdown is said below.     *)
(***************************************************************************)
EXTENDS AgentLoader, FiniteSets

CONSTANTS
  Agent,        \* ids an agent may have
  Cron,         \* the cron expressions the scheduler understands
  File,         \* agent files: records as in AgentLoader
  Disk,         \* what may be on disk: records of a config and of files
  Request,      \* what a trigger asks for, once each
  Trigger,      \* "cron", "event" or "http"
  Target,       \* the agent it is for
  Authorized,   \* the HTTP requests with the right token
  GlobalLimit, MaxRuns,  \* as in RunAdmission
  Faults        \* what may go wrong: see ServiceFaults

ServiceFaults ==
  {"storeError", "portError", "bindError", "subscribeError", "closeError", "crash"}

ASSUME FileAssumption == \A f \in File : f.crons \in Seq(Range(f.crons))
ASSUME DiskAssumption == \A d \in Disk : d.files \in Seq(File)
ASSUME TriggerAssumption == Trigger \in [Request -> {"cron", "event", "http"}]
ASSUME TargetAssumption == Target \in [Request -> Agent]
ASSUME FaultsAssumption == Faults \subseteq ServiceFaults

VARIABLES
  disk,
  phase,        \* how far run_service() has come
  agents,       \* the list load_agent_files() makes
  cursor,       \* build_service's loop: the place of an agent and of a cron
  definitions,  \* definitions_by_id, as a set of files
  jobs,         \* the jobs of the scheduler, as records of agent and cron
  scheduler,    \* it is started and was not shut down
  loops,        \* the listener: "off", "subscribing", "on" or "failed", or
                \* "swallowed": its tick task goes on after it was cancelled
  redis,        \* the client is open
  captured,     \* the signals uvicorn has caught
  doomed,       \* the main task has a cancellation to be delivered
  state,        \* of each request in the executor: see RunAdmission
  answer,       \* of each HTTP request
  job           \* of each request of the scheduler: the job, or {}

loaded == <<disk, agents>>
wiring == <<cursor, definitions, jobs>>
subsystems == <<scheduler, loops, redis>>
signals == <<captured, doomed>>
requests == <<state, answer, job>>
vars == <<loaded, phase, wiring, subsystems, signals, requests>>

Executor == INSTANCE RunAdmission
  WITH Process <- {"service"}, Home <- [r \in Request |-> "service"],
       Definitions <- Agent

Wired == {d.id : d \in definitions}
Open(r) == state[r] \in {"queued", "running"}
Serving == phase \in {"serving", "draining", "finally", "stopping"}
Ended == {"failed", "down", "killed", "crashed"}

Init ==
  /\ disk \in Disk
  /\ phase = "configuring" /\ agents = <<>>
  /\ cursor = [agent |-> 1, cron |-> 1]
  /\ definitions = {} /\ jobs = {}
  /\ scheduler = FALSE /\ loops = "off" /\ redis = FALSE
  /\ captured = {} /\ doomed = FALSE
  /\ Executor!Init
  /\ answer = [r \in Request |-> "none"]
  /\ job = [r \in Request |-> {}]
-----------------------------------------------------------------------------
(* Startup.                                                                *)

LoadConfig ==
  /\ phase = "configuring"
  /\ phase' = IF ConfigLoads(disk.config) THEN "loading" ELSE "failed"
  /\ UNCHANGED <<loaded, wiring, subsystems, signals, requests>>

\* The files in the order of their names: the first that raises ends it.
LoadFile ==
  /\ phase = "loading" /\ Len(agents) < Len(disk.files)
  /\ LET file == disk.files[Len(agents) + 1]
     IN  IF LoadError(agents, file) = "none"
           THEN agents' = Append(agents, file) /\ UNCHANGED phase
           ELSE phase' = "failed" /\ UNCHANGED agents
  /\ UNCHANGED <<disk, wiring, subsystems, signals, requests>>

AllLoaded ==
  /\ phase = "loading" /\ Len(agents) = Len(disk.files)
  /\ phase' = "starting" /\ redis' = TRUE
  /\ UNCHANGED <<loaded, wiring, scheduler, loops, signals, requests>>

\* Redis is pinged in vain or not, the store opened; build_service begins.
OpenStore ==
  /\ phase = "starting"
  /\ phase' = "wiring"
  /\ definitions' = {d \in Range(agents) : d.enabled}
  /\ UNCHANGED <<loaded, cursor, jobs, subsystems, signals, requests>>

OpenStoreFails ==
  /\ phase = "starting" /\ "storeError" \in Faults
  /\ phase' = "failed"
  /\ UNCHANGED <<loaded, wiring, subsystems, signals, requests>>

\* Only agents that are wired are scheduled.
SchedulesOfAll(agent) == agent.crons                             \* mutant
Schedules(agent) == IF agent.enabled THEN agent.crons ELSE <<>>

\* The id of a job is made of its agent's: a later one replaces it.
AddAnother(set, j) == set \union {j}                             \* mutant
AddJob(set, j) == {k \in set : k.agent # j.agent} \union {j}

\* One scheduler.add(); a bad expression is an exception of build_service.
AddSchedule ==
  /\ phase = "wiring" /\ cursor.agent <= Len(agents)
  /\ LET agent == agents[cursor.agent]
         crons == Schedules(agent)
     IN  /\ cursor.cron <= Len(crons)
         /\ IF crons[cursor.cron] \in Cron
              THEN /\ jobs' = AddJob(jobs, [agent |-> agent.id, cron |-> crons[cursor.cron]])
                   /\ cursor' = [cursor EXCEPT !.cron = @ + 1]
                   /\ UNCHANGED phase
              ELSE phase' = "failed" /\ UNCHANGED <<cursor, jobs>>
  /\ UNCHANGED <<loaded, definitions, subsystems, signals, requests>>

NextAgent ==
  /\ phase = "wiring" /\ cursor.agent <= Len(agents)
  /\ cursor.cron > Len(Schedules(agents[cursor.agent]))
  /\ cursor' = [agent |-> cursor.agent + 1, cron |-> 1]
  /\ UNCHANGED <<loaded, phase, definitions, jobs, subsystems, signals, requests>>

\* Everything is started.  A port that is no number raises before the try, one
\* that is taken inside it.
Start ==
  /\ phase = "wiring" /\ cursor.agent > Len(agents)
  /\ scheduler' = TRUE /\ loops' = "subscribing"
  /\ \/ phase' = "serving"
     \/ "portError" \in Faults /\ phase' = "unwinding"
     \/ "bindError" \in Faults /\ phase' = "finally"
  /\ UNCHANGED <<loaded, wiring, redis, signals, requests>>

Subscribed ==
  /\ Serving /\ loops = "subscribing"
  /\ loops' = "on"
  /\ UNCHANGED <<loaded, phase, wiring, scheduler, redis, signals, requests>>

SubscribeFails ==
  /\ Serving /\ loops = "subscribing" /\ "subscribeError" \in Faults
  /\ loops' = "failed"
  /\ UNCHANGED <<loaded, phase, wiring, scheduler, redis, signals, requests>>
-----------------------------------------------------------------------------
(* The triggers, and the runs they ask for.                                *)

\* submit() up to its first await; it may also end there, skipped or raised.
Submit(r) == Executor!Queue(r) \/ Executor!Start(r) \/ Executor!End(r)

\* The tick loop waits for each submit, the scheduler skips a job whose last
\* firing is still in submit(), and a handler is there for each request.
EventDue(r) ==
  /\ \/ Serving /\ loops = "on"
     \/ phase \in {"stopping", "unwinding"} /\ loops = "swallowed"
  /\ Trigger[r] = "event" /\ Target[r] \in Wired
  /\ ~\E s \in Request : Trigger[s] = "event" /\ Open(s)
  /\ state[r] = "idle" /\ Submit(r)
  /\ UNCHANGED <<loaded, phase, wiring, subsystems, signals, answer, job>>

CronFires(r) ==
  /\ (Serving \/ phase = "unwinding") /\ scheduler
  /\ Trigger[r] = "cron" /\ state[r] = "idle"
  /\ \E j \in jobs :
       /\ j.agent = Target[r]
       /\ IF \E s \in Request : Open(s) /\ j \in job[s]
            THEN Executor!End(r) /\ UNCHANGED job
            ELSE Submit(r) /\ job' = [job EXCEPT ![r] = {j}]
  /\ UNCHANGED <<loaded, phase, wiring, subsystems, signals, answer>>

HttpArrives(r) ==
  /\ phase = "serving" /\ Trigger[r] = "http" /\ answer[r] = "none"
  /\ IF r \in Authorized /\ Target[r] \in Wired
       THEN Submit(r) /\ answer' = [answer EXCEPT ![r] = "open"]
       ELSE /\ answer' = [answer EXCEPT ![r] = IF r \in Authorized THEN "404" ELSE "403"]
            /\ UNCHANGED state
  /\ UNCHANGED <<loaded, phase, wiring, subsystems, signals, job>>

\* 202 for whatever became of the run, 500 when submit() raised.
HttpAnswered(r) ==
  /\ Serving /\ answer[r] = "open" /\ state[r] = "over"
  /\ \E a \in {"202", "500"} : answer' = [answer EXCEPT ![r] = a]
  /\ UNCHANGED <<loaded, phase, wiring, subsystems, signals, state, job>>

\* A task that has not been cancelled when the others were.
GoesOn(r) ==
  \/ Trigger[r] = "event" /\ loops = "swallowed"
  \/ Trigger[r] = "cron" /\ scheduler

RunStarts(r) ==
  /\ Serving \/ (phase = "unwinding" /\ GoesOn(r))
  /\ Open(r) /\ Executor!Start(r)
  /\ UNCHANGED <<loaded, phase, wiring, subsystems, signals, answer, job>>

\* At the end of the process by cancellation, before that by itself.
SubmitEnds(r) ==
  /\ Serving \/ phase = "unwinding"
  /\ Open(r) /\ Executor!End(r)
  /\ UNCHANGED <<loaded, phase, wiring, subsystems, signals, answer, job>>
-----------------------------------------------------------------------------
(* Shutdown.                                                               *)

\* uvicorn takes no more requests; an interrupt after that lets go of those it has.
Signalled(s) ==
  /\ phase \in {"serving", "draining"}
  /\ phase' = "draining"
  /\ captured' = captured \union {s}
       \union (IF phase = "draining" /\ s = "SIGINT" THEN {"force"} ELSE {})
  /\ UNCHANGED <<loaded, wiring, subsystems, doomed, requests>>

\* All that is open ends with the process.
Dies(how) ==
  /\ phase' = how
  /\ Executor!Kill("service")
  /\ answer' = [r \in Request |-> IF answer[r] = "open" THEN "lost" ELSE answer[r]]

\* serve() is over, and uvicorn raises what it has caught once more: SIGTERM
\* finds nobody to handle it, SIGINT is asyncio's, which cancels the main task.
Drained ==
  /\ phase = "draining"
  /\ "force" \in captured \/ \A r \in Request : answer[r] # "open"
  /\ IF "SIGTERM" \in captured
       THEN Dies("killed") /\ UNCHANGED doomed
       ELSE phase' = "finally" /\ doomed' = TRUE /\ UNCHANGED <<state, answer>>
  /\ UNCHANGED <<loaded, wiring, subsystems, captured, job>>

\* listener.stop() awaits the tasks it cancels, in a suppress that swallows a
\* cancellation of the main task.  With no task to await, unsubscribe() gets it,
\* and a subscription that completes meanwhile starts tasks behind its back.
StopSubscribed ==                                                \* mutant
  /\ phase = "finally" /\ loops \in {"on", "failed"}
  /\ phase' = "stopping" /\ doomed' = FALSE /\ loops' = "off"
  /\ UNCHANGED <<loaded, wiring, scheduler, redis, captured, requests>>
StopUnsuppressed ==                                              \* mutant
  /\ phase = "finally"
  /\ doomed' = FALSE
  /\ IF doomed THEN phase' = "unwinding" /\ UNCHANGED loops
               ELSE phase' = "stopping" /\ loops' = "off"
  /\ UNCHANGED <<loaded, wiring, scheduler, redis, captured, requests>>
StopListener ==
  /\ phase = "finally"
  /\ doomed' = FALSE
  /\ IF doomed /\ loops # "on"
       THEN phase' = "unwinding" /\ UNCHANGED loops
       ELSE /\ phase' = "stopping"
            /\ (loops' = "off" \/ (loops = "subscribing" /\ loops' = "on"))
  /\ UNCHANGED <<loaded, wiring, scheduler, redis, captured, requests>>

\* The cancelled run raises while its connections are closed, the runner takes
\* that for a failed run, submit() returns, and the tick loop goes on.  Who has
\* cancelled it, stop() or asyncio.run, waits for it forever.
CancelSwallowed(r) ==
  /\ "closeError" \in Faults
  /\ <<phase, loops>> \in {<<"stopping", "off">>, <<"unwinding", "on">>}
  /\ Trigger[r] = "event" /\ state[r] = "running" /\ Executor!End(r)
  /\ loops' = "swallowed"
  /\ UNCHANGED <<loaded, phase, wiring, scheduler, redis, signals, answer, job>>

\* The tick task has ended, with the run it waited for, or was never awaited; the
\* scheduler cancels its own.
ListenerStopped ==
  /\ phase = "stopping"
  /\ loops # "swallowed"
  /\ loops = "on" \/ \A r \in Request : Trigger[r] = "event" => ~Open(r)
  /\ phase' = "unwinding"
  /\ scheduler' = FALSE /\ redis' = FALSE
  /\ UNCHANGED <<loaded, wiring, loops, signals, requests>>

\* asyncio.run cancels what is left and awaits it, except for what a scheduler
\* nobody has stopped starts meanwhile.
Unwound ==
  /\ phase = "unwinding" /\ loops # "swallowed"
  /\ \A r \in Request : Open(r) => scheduler /\ Trigger[r] = "cron"
  /\ Dies("down")
  /\ UNCHANGED <<loaded, wiring, subsystems, signals, job>>

Crash ==
  /\ "crash" \in Faults /\ phase \notin Ended
  /\ Dies("crashed")
  /\ UNCHANGED <<loaded, wiring, subsystems, signals, job>>

Next ==
  \/ LoadConfig \/ LoadFile \/ AllLoaded \/ OpenStore \/ OpenStoreFails
  \/ AddSchedule \/ NextAgent \/ Start \/ Subscribed \/ SubscribeFails
  \/ \E r \in Request :
       \/ EventDue(r) \/ CronFires(r) \/ HttpArrives(r)
       \/ HttpAnswered(r) \/ RunStarts(r) \/ SubmitEnds(r)
       \/ CancelSwallowed(r)
  \/ \E s \in {"SIGINT", "SIGTERM"} : Signalled(s)
  \/ Drained \/ StopListener \/ ListenerStopped \/ Unwound
  \/ Crash

Spec == Init /\ [][Next]_vars

\* Tasks that can go on are resumed, and every submit ends (RunExecutor's
\* EverySubmitEnds).  Redis need never answer the subscription.
Fairness ==
  /\ \A r \in Request : WF_vars(SubmitEnds(r)) /\ WF_vars(HttpAnswered(r))
  /\ WF_vars(Drained) /\ WF_vars(StopListener)
  /\ WF_vars(ListenerStopped) /\ WF_vars(Unwound)

FairSpec == Spec /\ Fairness
-----------------------------------------------------------------------------
(* Properties.                                                             *)

\* Every variable has its type; jobs and open requests are those of agents that
\* are wired.
TypeOK ==
  /\ disk \in Disk
  /\ phase \in {"configuring", "loading", "starting", "wiring", "serving", "draining",
                "finally", "stopping", "unwinding"} \union Ended
  /\ agents \in Seq(Range(disk.files))
  /\ cursor \in [agent : Nat, cron : Nat]
  /\ definitions \subseteq Range(disk.files)
  /\ \A j \in jobs : j.agent \in Wired
  /\ scheduler \in BOOLEAN /\ redis \in BOOLEAN /\ doomed \in BOOLEAN
  /\ loops \in {"off", "subscribing", "on", "failed", "swallowed"}
  /\ captured \subseteq {"SIGINT", "SIGTERM", "force"}
  /\ state \in [Request -> {"idle", "queued", "running", "over"}]
  /\ answer \in [Request -> {"none", "open", "202", "403", "404", "500", "lost"}]
  /\ \A r \in Request : job[r] \subseteq jobs /\ (Open(r) => Target[r] \in Wired)

\* What the files say, without a loader: all of them are good and no two have
\* one id.
Consistent(files) ==
  /\ \A i \in DOMAIN files : Parses(files[i])
  /\ \A i, k \in DOMAIN files : files[i].id = files[k].id => i = k

\* The service is wired to all enabled agents or does not start: one bad file or
\* one repeated id, of a disabled agent too, keeps all from starting, a bad cron
\* expression only when its agent is enabled, and nothing else does but the store,
\* between the client of Redis and the wiring.
WiredAsWritten ==
  /\ phase \notin {"configuring", "loading"} \union Ended => Consistent(disk.files)
  /\ Serving => definitions = {f \in Range(disk.files) : f.enabled}
  /\ phase = "failed" => \/ ~Consistent(disk.files)
                         \/ ~ConfigLoads(disk.config)
                         \/ "storeError" \in Faults /\ redis /\ definitions = {}
                         \/ \E f \in Range(disk.files) :
                              f.enabled /\ ~(Range(f.crons) \subseteq Cron)

\* An agent with several schedules still has one scheduled run at a time.
CronNeverStacks ==
  \A r, s \in Request :
    /\ Trigger[r] = "cron" /\ Trigger[s] = "cron" /\ Target[r] = Target[s]
    /\ Open(r) /\ Open(s)
    => r = s

\* A single signal costs no HTTP request its answer, and after an interrupt of a
\* service that listens the shutdown is complete, though the interrupt cancels
\* the task that shuts down.  (A listener that is not subscribed lets that
\* cancellation through, and SIGTERM leaves no shutdown: see the README.)
GracefulStop ==
  /\ phase \in {"down", "killed"} /\ captured # {} /\ "force" \notin captured =>
       \A r \in Request : answer[r] # "lost"
  /\ phase = "down" /\ captured # {} /\ loops \notin {"subscribing", "failed"} =>
       ~scheduler /\ ~redis /\ loops = "off"

\* A signal ends the service, though Redis never answers a subscription, unless
\* the run of an event swallows the cancellation of the tick task: then the
\* shutdown waits for that task forever.
ShutdownEnds == phase = "draining" ~> phase \in Ended \/ loops = "swallowed"
-----------------------------------------------------------------------------
(* What the source says and the code does not do.                          *)

\* tests/test_app_wiring.py:41: "Scheduler has one job per ScheduleTrigger
\* across all enabled definitions."
OneJobPerTrigger ==
  Serving => \A d \in definitions :
               Cardinality({j \in jobs : j.agent = d.id}) = Len(d.crons)
=============================================================================
