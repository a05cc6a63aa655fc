---------------------------- MODULE RunExecutor ----------------------------
(***************************************************************************)
(* RunExecutor.submit: the admission of agent runs, in every process that  *)
(* shares one Redis.  A request passes two semaphores of its process, then *)
(* the advisory lock of its agent, runs, and gives everything back.  An    *)
(* action ends where submit() awaits: between two awaits an event loop     *)
(* runs one task only.                                                     *)
(***************************************************************************)
EXTENDS AsyncSemaphore

CONSTANTS
  Process,      \* service processes that share one Redis
  Agent,        \* agent ids that may be asked for
  Request,      \* calls of submit(); each also stands for its lock token
  NoToken,      \* the lock key does not exist
  Definitions,  \* agents the executor was built with (enabled ones)
  Target,       \* req.agent_id
  Home,         \* the process submit() is called in
  GlobalLimit,  \* runtime.max_concurrent_runs_global
  MaxRuns,      \* limits.max_concurrent_runs
  Timeout,      \* limits.timeout_seconds
  HasRedis,     \* a Redis client was passed to the executor
  Faults        \* what the environment may do: see FaultKinds

FaultKinds == {"crash", "stop", "redisError", "lostReply"}

ASSUME RequestsFinite == IsFiniteSet(Request)
ASSUME NoTokenAssumption == NoToken \notin Request
ASSUME DefinitionsAssumption == Definitions \subseteq Agent
ASSUME TargetAssumption == Target \in [Request -> Agent]
ASSUME HomeAssumption == Home \in [Request -> Process]
ASSUME LimitsAssumption == /\ GlobalLimit \in Nat
                           /\ MaxRuns \in [Agent -> Nat]
ASSUME TimeoutAssumption == Timeout \in [Agent -> Nat \ {0}]
ASSUME HasRedisAssumption == HasRedis \in BOOLEAN
ASSUME FaultsAssumption == Faults \subseteq FaultKinds

VARIABLES
  procState,  \* per process: "up", "stopping" (run_service unwinds) or "down"
  globalSem,  \* _global_sem of each process
  agentSem,   \* _agent_sems of each process
  inflight,   \* AGENT_INFLIGHT of each process
  lock,       \* Redis: the token stored under agent:lock:<agent>
  ttl,        \* Redis: seconds until that key expires
  pc,         \* the await each submit() is suspended at
  outcome,    \* how each submit() ended
  spent,      \* seconds the run has spent under asyncio.timeout
  age         \* seconds since the run's SET, at most its timeout (not in the code)

sems == <<globalSem, agentSem>>
redis == <<lock, ttl>>
clocks == <<spent, age>>
vars == <<procState, globalSem, agentSem, inflight, lock, ttl, pc, outcome,
          spent, age>>

\* Awaits with the run in progress, and awaits with both permits held.
Run == {"setup", "llm", "persist"}
Inside == Run \union {"lock", "release"}
Active == Inside \union {"gwait", "await"}

PC == Active \union {"new", "done"}
Outcome == {"none", "ran", "skipped", "raised", "cancelled", "killed"}

Running(r) == pc[r] \in Run
GlobalHolders(p) == {r \in Request : Home[r] = p /\ pc[r] \in Inside \union {"await"}}
AgentHolders(p, a) == {r \in Request : Home[r] = p /\ Target[r] = a /\ pc[r] \in Inside}
InFlight(p) == {r \in Request : Home[r] = p /\ Running(r)}

Init ==
  /\ procState = [p \in Process |-> "up"]
  /\ globalSem = [p \in Process |-> NewSemaphore(GlobalLimit)]
  /\ agentSem = [p \in Process |-> [a \in Agent |-> NewSemaphore(MaxRuns[a])]]
  /\ inflight = [p \in Process |-> 0]
  /\ lock = [a \in Agent |-> NoToken]
  /\ ttl = [a \in Agent |-> 0]
  /\ pc = [r \in Request |-> "new"]
  /\ outcome = [r \in Request |-> "none"]
  /\ spent = [r \in Request |-> 0]
  /\ age = [r \in Request |-> 0]
-----------------------------------------------------------------------------
(* Steps shared by the handlers.  Each names the variables it assigns.     *)

Goto(r, label) == pc' = [pc EXCEPT ![r] = label]

Alive(p) == procState[p] \in {"up", "stopping"}

\* The run begins: AGENT_INFLIGHT.inc() and runner.run() up to its first await.
Gauge(r, n) == inflight' = [inflight EXCEPT ![Home[r]] = @ + n]

\* Both permits held: the advisory lock comes next, or the run itself.
PastPermits(r) ==
  IF HasRedis THEN Goto(r, "lock") /\ UNCHANGED inflight
              ELSE Goto(r, "setup") /\ Gauge(r, 1)

\* The global permit is held, the agent's is asked for.
AskAgentPermit(r) ==
  LET p == Home[r]
      a == Target[r]
  IN  IF Locked(agentSem[p][a])
        THEN /\ agentSem' = [agentSem EXCEPT ![p][a] = Enqueue(@, r)]
             /\ Goto(r, "await")
             /\ UNCHANGED inflight
        ELSE /\ agentSem' = [agentSem EXCEPT ![p][a] = Take(@)]
             /\ PastPermits(r)

\* Leaving "async with self._global_sem, self._agent_sems[agent_id]".
ReleaseGlobal(r) == globalSem' = [globalSem EXCEPT ![Home[r]] = Release(@)]
ReleaseAgent(r) ==
  agentSem' = [agentSem EXCEPT ![Home[r]][Target[r]] = Release(@)]

\* submit() ends with the given outcome, the permits given back.
Leave(r, result) ==
  /\ Goto(r, "done")
  /\ outcome' = [outcome EXCEPT ![r] = result]
  /\ ReleaseGlobal(r)
  /\ ReleaseAgent(r)

\* The finally clause of the run: the gauge drops, the release of the lock is
\* awaited when there is one.
Finish(r, result) ==
  /\ Gauge(r, -1)
  /\ spent' = [spent EXCEPT ![r] = 0]
  /\ age' = [age EXCEPT ![r] = 0]
  /\ IF HasRedis
       THEN /\ Goto(r, "release")
            /\ outcome' = [outcome EXCEPT ![r] = result]
            /\ UNCHANGED sems
       ELSE Leave(r, result)

SetWithoutExpiry(r) ==                                           \* mutant
  lock' = [lock EXCEPT ![Target[r]] = r] /\ UNCHANGED ttl
\* Redis executes SET key token NX EX timeout_seconds on a missing key.
SetLock(r) ==
  /\ lock' = [lock EXCEPT ![Target[r]] = r]
  /\ ttl' = [ttl EXCEPT ![Target[r]] = Timeout[Target[r]]]

DeleteAnyway(r) ==                                               \* mutant
  /\ lock' = [lock EXCEPT ![Target[r]] = NoToken]
  /\ ttl' = [ttl EXCEPT ![Target[r]] = 0]
\* The Lua script of the release: delete the key when its value is the token.
CompareAndDelete(r) ==
  IF lock[Target[r]] = r
    THEN /\ lock' = [lock EXCEPT ![Target[r]] = NoToken]
         /\ ttl' = [ttl EXCEPT ![Target[r]] = 0]
    ELSE UNCHANGED redis
-----------------------------------------------------------------------------
(* submit(), one action from each await to the next.                       *)

\* An id the executor was not built with, or a disabled agent: logged, no more.
SkipUnknown(r) ==
  /\ pc[r] = "new" /\ Alive(Home[r])
  /\ Target[r] \notin Definitions
  /\ Goto(r, "done")
  /\ outcome' = [outcome EXCEPT ![r] = "skipped"]
  /\ UNCHANGED <<procState, sems, inflight, redis, clocks>>

Submit(r) ==
  /\ pc[r] = "new" /\ Alive(Home[r])
  /\ Target[r] \in Definitions
  /\ IF Locked(globalSem[Home[r]])
       THEN /\ globalSem' = [globalSem EXCEPT ![Home[r]] = Enqueue(@, r)]
            /\ Goto(r, "gwait")
            /\ UNCHANGED <<agentSem, inflight>>
       ELSE /\ globalSem' = [globalSem EXCEPT ![Home[r]] = Take(@)]
            /\ AskAgentPermit(r)
  /\ UNCHANGED <<procState, redis, outcome, clocks>>

\* A release handed this task the global permit and the loop resumes it.
WakeGlobal(r) ==
  /\ pc[r] = "gwait" /\ r \in globalSem[Home[r]].woken
  /\ globalSem' = [globalSem EXCEPT ![Home[r]] = Resume(@, r)]
  /\ AskAgentPermit(r)
  /\ UNCHANGED <<procState, redis, outcome, clocks>>

WakeAgent(r) ==
  /\ pc[r] = "await" /\ r \in agentSem[Home[r]][Target[r]].woken
  /\ agentSem' = [agentSem EXCEPT ![Home[r]][Target[r]] = Resume(@, r)]
  /\ PastPermits(r)
  /\ UNCHANGED <<procState, globalSem, redis, outcome, clocks>>

LockTakenOver(r) ==                                              \* mutant
  /\ pc[r] = "lock"
  /\ SetLock(r)
  /\ Goto(r, "setup")
  /\ Gauge(r, 1)
  /\ UNCHANGED <<procState, sems, outcome, clocks>>
LockAcquired(r) ==
  /\ pc[r] = "lock"
  /\ lock[Target[r]] = NoToken
  /\ SetLock(r)
  /\ Goto(r, "setup")
  /\ Gauge(r, 1)
  /\ UNCHANGED <<procState, sems, outcome, clocks>>

\* The key exists: the run is skipped, not queued.
LockRefused(r) ==
  /\ pc[r] = "lock"
  /\ lock[Target[r]] # NoToken
  /\ Leave(r, "skipped")
  /\ UNCHANGED <<procState, inflight, redis, clocks>>

\* The SET fails, executed or not: the exception leaves submit() before the
\* try whose finally releases the lock.
LockError(r) ==
  /\ pc[r] = "lock"
  /\ \/ "redisError" \in Faults /\ UNCHANGED redis
     \/ "lostReply" \in Faults /\ lock[Target[r]] = NoToken /\ SetLock(r)
  /\ Leave(r, "raised")
  /\ UNCHANGED <<procState, inflight, clocks>>

\* The SET is executed, its reply lost and the client's retry sends it again:
\* the second is refused by the first one's own key.
LockRefusedByRetry(r) ==
  /\ pc[r] = "lock" /\ "lostReply" \in Faults
  /\ lock[Target[r]] = NoToken
  /\ SetLock(r)
  /\ Leave(r, "skipped")
  /\ UNCHANGED <<procState, inflight, clocks>>

\* runner.run(): the prompt and the guidance are there (the agent loop starts
\* under asyncio.timeout), or they are not and the run is over.
SetupDone(r) ==
  /\ pc[r] = "setup"
  /\ Goto(r, "llm")
  /\ UNCHANGED <<procState, sems, inflight, redis, outcome, clocks>>

SetupFails(r) ==
  /\ pc[r] = "setup"
  /\ Finish(r, "ran")
  /\ UNCHANGED <<procState, redis>>

\* The agent loop returns, fails or hits a usage limit before the timeout.
LlmEnds(r) ==
  /\ pc[r] = "llm" /\ spent[r] < Timeout[Target[r]]
  /\ Goto(r, "persist")
  /\ UNCHANGED <<procState, sems, inflight, redis, outcome, clocks>>

LlmTimeout(r) ==
  /\ pc[r] = "llm" /\ spent[r] = Timeout[Target[r]]
  /\ Goto(r, "persist")
  /\ UNCHANGED <<procState, sems, inflight, redis, outcome, clocks>>

\* The proposals are stored, the report returned (or an exception raised).
PersistDone(r) ==
  /\ pc[r] = "persist"
  /\ Finish(r, "ran")
  /\ UNCHANGED <<procState, redis>>

ReleaseLock(r) ==
  /\ pc[r] = "release"
  /\ CompareAndDelete(r)
  /\ Leave(r, outcome[r])
  /\ UNCHANGED <<procState, inflight, clocks>>

\* The release fails before Redis sees it; the exception is suppressed.
ReleaseFails(r) ==
  /\ pc[r] = "release" /\ "redisError" \in Faults
  /\ Leave(r, outcome[r])
  /\ UNCHANGED <<procState, inflight, redis, clocks>>
-----------------------------------------------------------------------------
(* Shutdown, crash, restart and time.                                      *)

\* run_service's finally: from here on tasks are cancelled, those of the
\* listener first, at the end all that asyncio.run() still finds.  The cron
\* scheduler may submit in between.
Stop(p) ==
  /\ "stop" \in Faults /\ procState[p] = "up"
  /\ procState' = [procState EXCEPT ![p] = "stopping"]
  /\ UNCHANGED <<sems, inflight, redis, pc, outcome, clocks>>

Stopping(r) == procState[Home[r]] = "stopping"

CancelGlobalWait(r) ==
  /\ Stopping(r) /\ pc[r] = "gwait"
  /\ globalSem' = [globalSem EXCEPT ![Home[r]] = Abandon(@, r)]
  /\ Goto(r, "done")
  /\ outcome' = [outcome EXCEPT ![r] = "cancelled"]
  /\ UNCHANGED <<procState, agentSem, inflight, redis, clocks>>

CancelAgentWait(r) ==
  /\ Stopping(r) /\ pc[r] = "await"
  /\ agentSem' = [agentSem EXCEPT ![Home[r]][Target[r]] = Abandon(@, r)]
  /\ ReleaseGlobal(r)
  /\ Goto(r, "done")
  /\ outcome' = [outcome EXCEPT ![r] = "cancelled"]
  /\ UNCHANGED <<procState, inflight, redis, clocks>>

\* Cancelled in the SET: Redis may have executed it, nothing will release it.
CancelLock(r) ==
  /\ Stopping(r) /\ pc[r] = "lock"
  /\ \/ lock[Target[r]] = NoToken /\ SetLock(r)
     \/ UNCHANGED redis
  /\ Leave(r, "cancelled")
  /\ UNCHANGED <<procState, inflight, clocks>>

CancelRunAbruptly(r) ==                                          \* mutant
  /\ Stopping(r) /\ Running(r)
  /\ Leave(r, "cancelled")
  /\ UNCHANGED <<procState, inflight, redis, clocks>>
\* Cancelled in the run: the finally clause still awaits the release.
CancelRun(r) ==
  /\ Stopping(r) /\ Running(r)
  /\ Finish(r, "cancelled")
  /\ UNCHANGED <<procState, redis>>

\* Cancelled again in the release: suppress(Exception) lets it through.
CancelRelease(r) ==
  /\ Stopping(r) /\ pc[r] = "release"
  /\ CompareAndDelete(r) \/ UNCHANGED redis
  /\ Leave(r, "cancelled")
  /\ UNCHANGED <<procState, inflight, clocks>>

\* The process dies: its tasks, its semaphores and its gauge with it, not the
\* keys it set.  A SET on its way may still reach Redis.
Crash(p) ==
  LET lost == {r \in Request : Home[r] = p /\ pc[r] \in Active}
  IN  /\ "crash" \in Faults /\ Alive(p)
      /\ procState' = [procState EXCEPT ![p] = "down"]
      /\ globalSem' = [globalSem EXCEPT ![p] = NewSemaphore(GlobalLimit)]
      /\ agentSem' = [agentSem EXCEPT ![p] = [a \in Agent |-> NewSemaphore(MaxRuns[a])]]
      /\ inflight' = [inflight EXCEPT ![p] = 0]
      /\ pc' = [r \in Request |-> IF r \in lost THEN "done" ELSE pc[r]]
      /\ outcome' = [r \in Request |-> IF r \in lost THEN "killed" ELSE outcome[r]]
      /\ spent' = [r \in Request |-> IF r \in lost THEN 0 ELSE spent[r]]
      /\ age' = [r \in Request |-> IF r \in lost THEN 0 ELSE age[r]]
      /\ \/ UNCHANGED redis
         \/ \E r \in lost : pc[r] = "lock" /\ lock[Target[r]] = NoToken /\ SetLock(r)

\* The container comes back with fresh semaphores, after a crash or when the
\* last task of a stopping process has ended.
Restart(p) ==
  /\ \/ procState[p] = "down"
     \/ procState[p] = "stopping" /\ \A r \in Request : Home[r] = p => pc[r] \notin Active
  /\ procState' = [procState EXCEPT ![p] = "up"]
  /\ globalSem' = [globalSem EXCEPT ![p] = NewSemaphore(GlobalLimit)]
  /\ agentSem' = [agentSem EXCEPT ![p] = [a \in Agent |-> NewSemaphore(MaxRuns[a])]]
  /\ UNCHANGED <<inflight, redis, pc, outcome, clocks>>

\* One second passes: keys expire, runs age.  The timer of asyncio.timeout
\* fires on time, so a second does not pass over a run that is out of time.
Tick ==
  /\ \/ \E a \in Agent : lock[a] # NoToken
     \/ \E r \in Request : pc[r] = "llm"
  /\ \A r \in Request : pc[r] = "llm" => spent[r] < Timeout[Target[r]]
  /\ ttl' = [a \in Agent |-> IF ttl[a] > 0 THEN ttl[a] - 1 ELSE 0]
  /\ lock' = [a \in Agent |-> IF ttl[a] = 1 THEN NoToken ELSE lock[a]]
  /\ spent' = [r \in Request |-> IF pc[r] = "llm" THEN spent[r] + 1 ELSE spent[r]]
  /\ age' = [r \in Request |->
               IF Running(r) THEN Least(age[r] + 1, Timeout[Target[r]]) ELSE age[r]]
  /\ UNCHANGED <<procState, sems, inflight, pc, outcome>>

\* Every submit has ended and every key is gone: nothing has to happen.
Quiet ==
  /\ \A r \in Request : pc[r] = "done"
  /\ \A a \in Agent : lock[a] = NoToken
  /\ UNCHANGED vars

Step(r) ==
  \/ WakeGlobal(r) \/ WakeAgent(r)
  \/ LockAcquired(r) \/ LockRefused(r)
  \/ SetupDone(r) \/ SetupFails(r)
  \/ LlmTimeout(r) \/ PersistDone(r) \/ ReleaseLock(r)

Cancel(r) ==
  \/ CancelGlobalWait(r) \/ CancelAgentWait(r)
  \/ CancelLock(r) \/ CancelRun(r) \/ CancelRelease(r)

Next ==
  \/ \E r \in Request :
       \/ SkipUnknown(r) \/ Submit(r) \/ Step(r)
       \/ LockError(r) \/ LockRefusedByRetry(r)
       \/ LlmEnds(r) \/ ReleaseFails(r) \/ Cancel(r)
  \/ \E p \in Process : Stop(p) \/ Crash(p) \/ Restart(p)
  \/ Tick
  \/ Quiet

Spec == Init /\ [][Next]_vars

\* The event loop resumes every task that can go on, Redis and the tool server
\* answer, and time passes.  The model may never answer: only the timeout of
\* the run is relied on.  No fairness for triggers, faults and cancellation.
Fairness ==
  /\ \A r \in Request : WF_vars(Step(r))
  /\ WF_vars(Tick)

FairSpec == Spec /\ Fairness
-----------------------------------------------------------------------------
(* Properties.                                                             *)

\* Every variable has its type.
TypeOK ==
  /\ procState \in [Process -> {"up", "stopping", "down"}]
  /\ globalSem \in [Process -> Semaphores(Request)]
  /\ agentSem \in [Process -> [Agent -> Semaphores(Request)]]
  /\ inflight \in [Process -> Int]
  /\ lock \in [Agent -> Request \union {NoToken}]
  /\ ttl \in [Agent -> Nat]
  /\ pc \in [Request -> PC]
  /\ outcome \in [Request -> Outcome]
  /\ spent \in [Request -> Nat]
  /\ age \in [Request -> Nat]

\* The two layers of the class docstring: in a process, no more runs than
\* max_concurrent_runs_global, and of one agent no more than its own limit.
ConcurrencyCaps ==
  \A p \in Process :
    /\ Cardinality(InFlight(p)) <= GlobalLimit
    /\ \A a \in Agent :
         Cardinality({r \in InFlight(p) : Target[r] = a}) <= MaxRuns[a]

\* No exit of submit() (skip, error, cancellation in any await) loses a permit
\* or gives one back twice: the free ones, those on their way to a woken task
\* and those held always add up to the limit.
PermitsConserved ==
  \A p \in Process :
    /\ globalSem[p].value + Cardinality(globalSem[p].woken \union GlobalHolders(p))
         = GlobalLimit
    /\ \A a \in Agent :
         agentSem[p][a].value
           + Cardinality(agentSem[p][a].woken \union AgentHolders(p, a)) = MaxRuns[a]

\* A submit that waits is one the semaphore knows of, and the semaphore never
\* has permits and sleepers without a woken task that will serve them.
Served(s, waiting) ==
  /\ waiting = Sleepers(s) \union s.woken
  /\ s.value > 0 /\ s.queue # <<>> => s.woken # {}
NoLostWakeup ==
  \A p \in Process :
    /\ Served(globalSem[p], {r \in Request : Home[r] = p /\ pc[r] = "gwait"})
    /\ \A a \in Agent :
         Served(agentSem[p][a],
                {r \in Request : Home[r] = p /\ Target[r] = a /\ pc[r] = "await"})

\* Permits are given out in order of arrival: a new submit does not overtake
\* one that waits for the same permit, and sleepers are woken first come first.
GrantsInOrder(s, next, granted) ==
  /\ \A r \in granted : s.queue # <<>> \/ s.woken # {} => r \in s.woken
  /\ \A i, j \in DOMAIN s.queue :
       i < j /\ s.queue[j] \in next.woken => s.queue[i] \notin Sleepers(next)
NoOvertaking ==
  [][\A p \in Process :
       /\ GrantsInOrder(globalSem[p], globalSem[p]', GlobalHolders(p)' \ GlobalHolders(p))
       /\ \A a \in Agent :
            GrantsInOrder(agentSem[p][a], agentSem[p][a]',
                          AgentHolders(p, a)' \ AgentHolders(p, a))]_vars

\* AGENT_INFLIGHT is the number of runs in progress, however they end.
GaugeExact == \A p \in Process : inflight[p] = Cardinality(InFlight(p))

\* What the advisory lock does give: of the runs of one agent in progress, in
\* one process or in several, at most one is younger than timeout_seconds.
OverlapOnlyAfterTtl ==
  HasRedis =>
    \A r, s \in Request :
      /\ r # s /\ Target[r] = Target[s]
      /\ Running(r) /\ Running(s)
      => age[r] = Timeout[Target[r]] \/ age[s] = Timeout[Target[s]]

\* Before it expires, a lock is deleted by the submit that set it and by no
\* other, even one whose own lock has expired.
ForeignLockKept ==
  [][\A a \in Agent :
       lock[a] # NoToken /\ lock'[a] # lock[a]
         => lock'[a] = NoToken /\ (ttl[a] = 1 \/ pc[lock[a]] = "release")]_vars

\* A key always goes away, though its owner crashed or its release failed.
LockFreed ==
  \A r \in Request : lock[Target[r]] = r ~> lock[Target[r]] # r

\* Every submit ends: no run waits forever for a permit, and no run is endless.
EverySubmitEnds ==
  \A r \in Request : pc[r] \in Active ~> pc[r] = "done"

\* The phases of a submit as its caller sees them, and the promise they keep.
Phase(r) ==
  CASE pc[r] = "new" -> "idle"
    [] pc[r] \in {"gwait", "await", "lock"} -> "queued"
    [] pc[r] \in Run -> "running"
    [] OTHER -> "over"
Admission == INSTANCE RunAdmission WITH state <- [r \in Request |-> Phase(r)]
\* Every behaviour of the executor is one of RunAdmission.
ImplementsAdmission == Admission!Spec
-----------------------------------------------------------------------------
(* What the source says and the code does not do.                          *)

\* executor.py:39: the lock is "a third, cross-process layer" of concurrency
\* control, so runs of one agent in two processes do not overlap.
OneRunPerAgentAcrossProcesses ==
  \A r, s \in Request :
    Home[r] # Home[s] /\ Target[r] = Target[s] => ~(Running(r) /\ Running(s))

\* app.py:182: without Redis, "schedule/external triggers still work".
TriggersSurviveRedisOutage == \A r \in Request : outcome[r] # "raised"
=============================================================================
