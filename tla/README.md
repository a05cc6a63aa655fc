# A verification model of saga-agents

saga-agents runs LLM agents against the SAGA document archive. Triggers (cron
expressions, Redis events, HTTP calls) ask for a run of an agent. An executor
decides when a run may start, a runner drives the agent under a timeout, and an
agent in proposal mode leaves proposals in SQLite that a person approves or
rejects over HTTP. Everything is asyncio: one event loop per process, and state
changes hands only at an `await`. Several processes may share one Redis.

This directory models the parts of that program where the order of steps
matters, checks them with TLC on small instances, and proves the properties
that matter most with TLAPS. Source paths below are relative to
`src/saga_agents/`.

## Inventory

| component | source | state | operations | talks to |
|---|---|---|---|---|
| Run executor | `triggers/executor.py` | two layers of semaphores, `AGENT_INFLIGHT`, the key `agent:lock:<agent>` in Redis | `submit` | runner, Redis |
| Proposal store | `proposals/store.py` | one row per proposal, `AGENT_PROPOSALS` | `init`, `add`, `list_pending`, `get`, `set_status` | SQLite |
| Review endpoints | `triggers/api.py`, `proposals/apply.py`, `runtime/mcp_call.py` | none of their own | `approve`, `reject` | store, SAGA's MCP tools |
| HTTP triggers | `triggers/api.py` | none | `POST /triggers/{agent_id}`, read-only endpoints | executor |
| Event listener | `triggers/redis_listener.py` | a debouncer per event trigger, two tasks, a subscription | `run`, `stop`, listener loop, tick loop | Redis, executor |
| Cron scheduler | `triggers/scheduler.py` | jobs by id | `add`, `start`, `shutdown` | executor |
| Agent runner | `runtime/runner.py`, `propose.py`, `report.py` | the proposals of a run in progress | `run`, `propose` | guidance, model, tools, store |
| Guidance provider | `runtime/guidance.py` | a cached answer and its time | `get` | SAGA's MCP tools |
| Tool visibility | `runtime/toolset.py` | none | `visible_tool_names` | - |
| Service | `app.py` | which subsystems run | `build_service`, `run_service` | all of them |
| Configuration | `config/`, `core/env.py` | none after startup | load, validate, substitute | files |
| Metrics, tracing, logging | `metrics/`, `tracing/`, `core/logging.py` | counters, a configured flag | - | - |

What is hard in them, and what makes each correct:

* **Executor.** A submit waits in up to four places and leaves in about ten
  ways: unknown agent, lock refused, lock call raised, run done, run failed,
  cancelled in each wait. Correct means: no more runs than the limits allow, no
  permit lost or doubled on any path, nobody asleep beside a free permit, the
  gauge exact, and a lock that keeps runs of one agent apart across processes
  for as long as its TTL allows, that is never deleted by a stranger, and that
  goes away even if its owner died.
* **Store and review.** Approve reads a status, calls a tool and writes a
  status, in three awaits and without claiming the proposal. Correct means: an
  action is executed at most once, the stored status says what happened, a
  settled proposal stays settled, and what a reviewer was told stays true.
* **Event listener.** Debouncers are marked by one task and polled by another
  that waits for every run it submits. Correct means: a run only after silence,
  no event lost between `reset()` and the run, and no trigger blocked for good.
* **Scheduler.** Jobs are keyed by agent, not by trigger, and a job runs in one
  instance at a time. Correct means: every configured schedule fires (it does
  not), and slow runs do not pile up behind it.
* **Runner.** A timeout, usage limits and failures compete, then proposals are
  stored one by one. Correct means: a report for every end, proposals stored or
  reported as lost, write tools out of reach in proposal mode.
* **Guidance provider.** Overlapping runs share one cache across an await.
  Correct means: no fetch within the TTL of another's reply, and outdated
  guidance gone a TTL after the last outdated reply was on its way. (An older
  reply may replace a newer one meanwhile: nothing orders them.)
* **Service.** Startup and shutdown start and cancel the rest in some order, and
  the signal that begins the shutdown is delivered once more in the middle of it.
  Correct means: requests get their answers, the shutdown runs to its end and
  leaves nothing open.
* **Configuration.** Files are loaded one by one. Correct means: the service is
  wired to exactly the enabled agents, or does not start.

`PROJECT.json` lists the hazards one by one, each at its line, with the
properties that would catch it.

## Modules

    AsyncSemaphore          asyncio.Semaphore as an operator library (external)
      RunExecutor           submit() in every process that shares a Redis
        MCRunExecutor       TLC instances: exec_*.cfg
        RunExecutorProofs   permits: types, conservation, wakeups, caps, order
          RunLockProofs     lock, gauge, refinement of RunAdmission
      AsyncSemaphoreProofs  what each semaphore operation preserves
    RunAdmission            what the executor promises (abstract)
    ProposalReview          store, approve, reject, tool call
      MCProposalReview      TLC instances: proposals*.cfg
      ProposalReviewProofs  invariants, counters, refinement of ProposalLifecycle
    ProposalLifecycle       what the review promises (abstract)
    AgentRunner             a run from its prompt to its report
      ProposalPipeline      runs and reviews on one store (uses ProposalReview)
        MCProposalPipeline  TLC instance: pipeline.cfg
        ProposalPipelineProofs  reports, order of storing, reviewed writes,
                            refinement of runner, review and ProposalLifecycle
    AgentLoader             what the loaders make of one file
      Service               startup, triggers, shutdown (uses RunAdmission)
        MCService           TLC instances: service*.cfg
        ServiceProofs       wiring, scheduled runs, shutdown
    EventListener           debouncers, listener task, tick task, run(), stop()
      MCEventListener       TLC instances: listener*.cfg
      EventListenerProofs   silence, punctuality, shutdown
    GuidanceCache           GuidanceProvider.get() in overlapping runs
      MCGuidanceCache       TLC instance: guidance.cfg
      GuidanceCacheProofs   when to fetch, how old an answer may be

### AsyncSemaphore

`executor.py` uses `asyncio.Semaphore`, whose code is not in the repository, so
every definition is marked external. The model follows CPython 3.12: a value, a
queue of sleepers, and the tasks that hold a permit but were not resumed yet
(`woken`). That middle state is what cancellation and late arrivals race with.
The operators are functions from a semaphore to a semaphore. They contain no
action, so both layers of `submit()` use the same ones and the lemmas about
them are proved once.

### RunExecutor

One request is one call of `submit()`; `pc` is the await it is suspended at.

| `pc` | in the code |
|---|---|
| `new` | before `submit()` |
| `gwait`, `await` | asleep in `async with self._global_sem, self._agent_sems[agent_id]` (line 87) |
| `lock` | `await self._redis.set(...)` (lines 89-96) |
| `setup` | `runner.run` before its timeout: guidance and agent |
| `llm` | the agent loop under `asyncio.timeout` |
| `persist` | proposals are stored, no timeout |
| `release` | `await self._redis.eval(...)` in the finally clause (lines 121-124) |
| `done` | `submit()` is over, `outcome` says how |

Each action runs from one await to the next: `Submit` includes taking both
permits when they are free, and without Redis goes straight to the run. `Leave`
is the exit of the `async with`, `Finish` the `finally` clause. Faults are
switched on by the constant `Faults`: `redisError` (the command is not
executed), `lostReply` (it is executed and the caller gets an error, or its
client retries and is refused by its own key), `stop` (`run_service` unwinds
and tasks are cancelled, one at any await), `crash` (tasks, semaphores and gauge
vanish, keys stay). `Tick` is a second of Redis time and of `asyncio.timeout`.
`age` is the only history variable: how old a run is, up to its timeout.

Two abstractions matter. Redis decides a command when its reply is handled, so
a command and its reply are one step except for the lost replies above. The
clocks of Redis and of the processes run at the same speed.

### ProposalReview

One `Call` is one HTTP request to approve or reject; `pc` is the await it is
suspended at (`tool`, or `set_status` with one of its three values) or how it
was answered. `status` is the column, `effects` counts how often SAGA executed
the action, and `counted` is `AGENT_PROPOSALS`. `Read` is `get` plus the check;
the store is looked at there and nowhere else. `mishap` is a history variable:
it marks proposals on which decisions overlapped or an approval was interrupted,
by a crash or a failing UPDATE. The properties that hold only without a mishap
say so, and the run `proposals_approve_twice` shows what a mishap costs.

### EventListener

| variable | in the code |
|---|---|
| `pending`, `age` | a `Debouncer`: its flag, and the time since its last mark |
| `listener` | the task of `_listener_loop` |
| `tick`, `timer`, `current` | the task of `_tick_loop`: asleep and for how long, or in `submit()` for which trigger, before (`waiting`) or after (`running`) its run has started |
| `cancel` | `stop()` has cancelled the tick task, and whether that was lost |
| `runPc`, `stopPc` | `run()`, and `stop()` with the rest of `run_service`'s shutdown |

`Scan` is the loop of `_check_due_and_dispatch` from one await to the next: it
passes over triggers that are not due and stops at the first that is, resets it
and enters `submit()`. `Wake` starts it, `SubmitEnds` goes on behind the trigger
it served. `submit()` itself is the one of `RunExecutor`, here reduced to how
long it takes. `CancelSwallowed` is the one way a cancellation gets lost: the
runner catches what the agent's connections raise while they are closed
(`runner.py:226`). `silence`, `owed`, `late` and `early` are history variables:
they record what happened to a trigger, whatever its debouncer believes. The
last topic of a trigger is left out, since it only labels the run; broken
messages change nothing. Time does not pass a task whose sleep is over.

### GuidanceCache

A `Run` is a slot in which runs of the process follow each other; `pc` says
whether it is idle, has `asked` the server, was `answered` (the reply is on its
way) or is `prompted`. `Get` is `get()` up to its await, `Arrived` the rest. The
guidance is a version number that `Change` moves on. `FetchFailed` covers
errors, unusable answers and cancellation. `sinceReply` and `sinceOld` are
history variables.

### AgentRunner

| `pc` | in the code |
|---|---|
| `idle` | before `run()` |
| `guidance` | `await self._guidance.get()` (line 124) |
| `agent` | the agent loop under `asyncio.timeout` (lines 202-211) |
| `persist` | `await self._proposal_sink.add(...)` for proposal `next` (lines 234-242) |
| `over` | `run()` is over, `status` says how |

The agent loop is Pydantic AI's and is seen by what it may do in any order: call
a tool it was shown (`CallTool`, restricted by `Visible`), call `propose`, end
with an answer, a usage limit, an error or a timeout. A proposal is its run and
its place in `deps.proposals`. `Ended` is what all four endings share, and the
only place that decides whether proposals are stored. `Advance` is the loop over
them. `Cancel` may leave the row of the `add()` it interrupts behind, since
aiosqlite commits in a thread of its own. `made` is the length of
`deps.proposals`, `written` a history variable.

### ProposalPipeline

The runs of `AgentRunner` and the calls of `ProposalReview` on one store: an
`Added` of the one is the `Add` of the other, their crash is one crash, all else
interleaves. `Review == INSTANCE ProposalReview` shares with the runner only
whether the process is up, so a reader finds each step in the module of its
component. Of the faults it gets those that concern a review.

### AgentLoader

A file is a record of what the loaders ask of it: how far its frame goes, which
variables it needs and where, what its frontmatter is, its fields. `ConfigLoads`
and `Parses` are the two loaders for one file. They differ in where they look for
`${VAR}`: in the raw text of an agent file, comments included, in the parsed tree
of the global one. `LoadError` is what one turn of the loop of `load_agent_files`
raises, given the agents it has; the loop itself is `Service`'s action `LoadFile`.

### Service

| `phase` | in the code |
|---|---|
| `configuring`, `loading` | `load_global_config`, the loop of `load_agent_files` |
| `starting` | the ping of Redis and `init()` of the store |
| `wiring` | `build_service`, with its loops over agents and schedules |
| `serving`, `draining` | `await server.serve()`, before and after a signal |
| `finally`, `stopping` | the finally clause before and in `listener.stop()` |
| `unwinding` | `run_service` is over, `asyncio.run` cancels what is left |
| `failed`, `down`, `killed`, `crashed` | the process has ended |

`agents` is the list `load_agent_files` makes, `cursor` where the two loops of
`build_service` are; `definitions`, `jobs`, `scheduler`, `loops` and `redis` are
what `run_service` builds and starts. `state` is the executor as `RunAdmission` describes it: a
request is idle, queued, running or over, and a submit may end at any time. The
module does not repeat semaphores and lock: it moves requests by the actions of
`RunAdmission` only, and that the executor implements those is checked by
`exec_local` and proved. `CronFires`, `EventDue` and `HttpArrives` differ in what
holds them back: a job is skipped while its last firing is still in `submit()`, the
tick loop waits for every submit, HTTP does neither.

Libraries decide what a shutdown is. Uvicorn's `serve()` catches signals, lets
open requests finish, and raises what it has caught once more when it returns. SIGTERM
then finds no handler and kills the process before the finally clause. SIGINT
finds the one of `asyncio.run`, which cancels the main task: the cancellation is
delivered at the first `await` of the finally clause, in `listener.stop()`. There a
`suppress(CancelledError)` swallows it if a task is being awaited, and
otherwise it ends the clause (`StopListener`). The model follows uvicorn 0.49,
APScheduler 3.11 and CPython 3.12. Signals before `serve()` and after its return
are left out.

`stop()` then waits for the run of an event, if there is one. That run may swallow
the cancellation (`CancelSwallowed`, as in `EventListener`): `loops` becomes
`"swallowed"`, the tick loop goes on, also with further runs, and `stop()` never
returns, so neither do the scheduler and Redis get closed nor does the process end.
The same can happen to `asyncio.run`, when it cancels a tick task that `stop()`
did not find. `ListenerStopped` and `Unwound` therefore need a tick task that has
really ended.

## Runs

| run | question | bounds |
|---|---|---|
| `exec_local` | permits, queues, gauge, order and progress in one process without Redis, with shutdown, crash and restart | 5 requests for 2 global permits: 3 for an agent that may run once, 1 for another, 1 for an unknown one; timeout 1 |
| `exec_redis` | what the lock gives two processes on a Redis that fails, loses replies and outlives them | 3 requests of one agent, 2 in one process; timeout 2 |
| `proposals` | review with every fault | 2 approvals and a rejection of one proposal, an approval of another |
| `listener` | what the listener makes of messages, long submits, lost subscriptions and shutdown | 3 triggers on 2 topics, windows of 0 (counts as 1), 3 and 2, a tick of 2, 5 messages |
| `guidance` | the cache under overlapping, failing and overtaking fetches | 3 slots, 2 changes, a TTL of 2 |
| `pipeline` | what becomes of proposals, with every fault | a proposal-mode run and an autonomous one, 2 proposals each at most, timeout 1, 2 approvals |
| `service` | configuration, triggers and shutdown | all lists of up to 3 good files out of 4 kinds, 11 kinds of bad file before or behind a good one, 5 global files; 2 firings, 2 events, 2 HTTP requests; both signals, any number of times |
| `listener_silence` | does a run start only after silence? (violated) | as `listener`, no faults |
| `exec_cross_process` | does the lock keep runs in two processes apart? (violated) | 3 requests, no faults |
| `exec_redis_outage` | do triggers work without Redis? (violated) | as above, `redisError` |
| `proposals_approve_twice` | is an action executed at most once? (violated) | as `proposals`, no faults |
| `service_one_job` | is there one job per schedule? (violated) | one agent with two schedules, no faults |

Why the bounds are enough to be interesting. Five requests fill both queues:
while an agent runs, its second request waits with the other global permit in
hand and the rest wait for that one, so heads of lines block, woken tasks
are cancelled, and newcomers meet a free permit that is already promised. A
timeout of two is the smallest in which a key can be young, old and expired
under a run, and the third request can find it in each state. Two approvals and
a rejection give every pair of conflicting decisions and a third call after
them. Three triggers are the fewest with one before and one behind the trigger
whose submit blocks the tick task, and their windows are shorter than, equal to
and longer than its sleep. Three slots let a reply overtake another while a
third run hits the cache. With two proposals a run can be stopped between two
adds, and an approval of the second can come while the first is the only row. The
autonomous run shows that `OnlyReviewedWrites` is not about having no writes. Two
firings and an agent with two schedules are the fewest that can pile up; with two
events one can be submitted after the other has swallowed a cancellation. Three
files suffice for a pair of equal ids with one between them; the bad file stands
first or last. Requests and calls have different targets, homes and verbs, so no
symmetry set is declared.

The fairness. `RunExecutor` assumes that a task that can go on is resumed, that
Redis and the tool server answer before a run has started its agent loop, and
that time passes; it does not assume that the model ever answers, since
`asyncio.timeout` ends that wait (`LlmEnds` has no fairness, `LlmTimeout` has).
`ProposalReview` assumes that a tool call and an UPDATE return or raise,
`EventListener` that `submit()` ends (which `EverySubmitEnds` checks) and that
tasks are resumed, `GuidanceCache` that fetches and runs end one way or the
other. `ProposalPipeline` assumes that time passes and that the store answers, not
that model, tools or guidance do; a run that waits for its guidance is therefore
outside `PromptedRunsEnd`. `Service` assumes that submits end and the tasks of the
shutdown are resumed, not that Redis ever answers a subscription. No
fairness is assumed for triggers, faults, cancellation, crashes or restarts. The
first assumption is not free: `runner.py:156` fetches the guidance outside the
timeout, which is listed as a hazard.

## What the code does not keep

* **Lock TTL.** The key lives `timeout_seconds`, the run longer (guidance before
  the timeout, storing proposals after it). Two processes then run one agent at
  a time. What does hold is `OverlapOnlyAfterTtl`.
* **Redis outage.** `app.py:182` says schedule and external triggers still work;
  in fact every submit raises out of the SET.
* **One job per agent.** The job id of a schedule is made of the agent's id and
  replaces its predecessor, so of an agent's schedules only the last fires
  (`service_one_job`), against `tests/test_app_wiring.py:41`.
* **Self skip** (no run of its own). With `max_concurrent_runs` above one, the lock refuses the
  second run of the same process, which the docstring calls a cross-process
  duplicate.
* **Double approval and lost approval.** Both endpoints check and act in
  different awaits, so an action may be executed twice
  (`proposals_approve_twice`) and a rejection may overwrite `applied`, which
  `tests/triggers/test_api.py:306` excludes (no run of its own).
* **Silence before a run.** A debouncer is reset before `submit()` waits for its
  turn, so a run may start right after a new event, against README.md:49 of the
  repository. What does hold is silence before the submit (`SubmitsInSilence`).

Found while modelling, without a run of their own:

* `AgentRunner.run` "never raises" (`runner.py:135`), but the model, the tool server
  and the agent are built outside its try (`Start`, "raised").
* `load_agent_files` raises `ConfigError` "if any file fails to parse"
  (`loader.py:128`), but a read error and broken YAML come through as what they are
  (`ParseError`); the start fails all the same.
* The README promises 03:00 UTC for a cron expression (README.md:50 of the
  repository); `from_crontab` uses the local time zone, and Monday for 0.
* `run_service` "performs a graceful shutdown" (`app.py:164`), but after SIGTERM,
  with which a container is stopped, its finally clause is never run (`Drained`).
* A proposal that could not be stored is noted in the summary of an OK run only
  (`Noted`); a run that ended otherwise says nothing of it. A connection that
  times out early is reported as the timeout of the run.

Three more weaknesses are modelled and excluded by name from the properties that
hold. A `stop()` that comes while `run()` still subscribes leaves both tasks to
`asyncio.run` (`early` in `StopIsComplete`). A `stop()` whose cancellation is
swallowed by a run waits forever, and with it the whole shutdown (`cancel` in
`StopEnds`, `loops` in `ShutdownEnds`): after such a signal the process has to be
killed. An interrupt of a service whose listener is not subscribed skips the
shutdown of the scheduler and the close of Redis (`loops` in `GracefulStop`),
although the docstring of `run_service` (`app.py:163-165`) promises both without
that condition.

## Proofs

The theorems about the executor hold for every finite set of requests, every set
of processes and agents, all targets and all limits, zero included. The
assumptions are the named `ASSUME`s of `RunExecutor`; `TimeoutAssumption`
(positive timeouts) is the only one the configuration does not force.

*Permits.* `PermitsConserved` is not inductive: a release by one submit changes
what another will find. `AsyncSemaphoreProofs` therefore defines when a
semaphore is `Sound` for a set of holders: queue, woken tasks and holders are
disjoint and without repetition, the permits add up to the limit, and free
permits with sleepers imply a woken task. It shows that each operation keeps it
and moves exactly one task. `RunExecutorProofs` ties the semaphores to the
submits: `PermitInv` says that each semaphore is sound for the submits whose
`pc` lies inside, that it knows exactly the submits whose `pc` waits for it,
and that a dead process has no open submit (so `Restart` may begin with fresh
semaphores). From it follow `TypeCorrect`, `PermitsAreConserved`,
`WakeupsAreNotLost` and `CapsAreKept`.

*Order.* `NobodyOvertakes` is an action property of both layers. `InOrder` says
of one operation that it wakes nobody behind a task it leaves asleep, which each
operation of the semaphore is shown to keep, also when a task leaves the queue
from its middle. A task that takes a permit was woken, or found nobody asleep or
woken (`PermitsKept`, `NothingGranted`).

*Lock.* `RunLockProofs` first gives every step a shape: a run starts, a submit
moves, a run ends, a crash, a tick, or nothing. The invariant `LockInv` says a
key has a token as long as it has time to live, and that a run younger than its
timeout owns its agent's lock, which will live until the run is that old. So two
young runs of one agent would own the same key, and `OverlapNeedsExpiry`
follows. `ForeignLocksAreKept` needs only the shapes. `GaugeIsExact` counts the
runs in each shape.

*Admission.* For `ExecutorImplementsAdmission` a request's `pc` is mapped to idle,
queued, running or over. `StepAdvances` shows that every step moves one request
forward, kills a process or moves nobody; a request that gets to run finds room,
because the caps hold after the step as well (`RoomBefore`); and only requests for
known agents wait or run (`KnownOnly`). Moves inside one phase stutter.

*Review.* `ReviewInv` adds to the checked invariants that only one call works on
an undisturbed proposal, which is pending meanwhile (`Alone`), and that its
effects are those its status and that call account for (`Accounted`); without
the second, "at most once" would not survive a return of the tool. From it
follow `AppliedIsTrue`, `ExecutedOnce`, `AnswersStand`, the action property
`SettledStays` and the refinement `LifecycleIsImplemented`: a step that settles
an undisturbed proposal is `Apply`, `Fail` or `Reject`, one that befalls it is
`Disturb`, all others stutter. `CountersAreHonest` is inductive beside it, by
counting the settled proposals. Proposals and calls may be any finite sets.

*Listener.* `LateBounds` says how late each trigger can be at each point of the
tick task: everything up to the one in `submit()` is on time, and the rest of a
sleep still fits into one interval. `StopProgress` says what `stop()` has behind
it at each await. `DueSoon`, `SilenceComesFirst` and `StopIsCompleted` follow,
for any number of triggers and any windows.

*Guidance.* An outdated cache has been so for at most as long as its stamp is
old, and an outdated reply on its way keeps `sinceOld` at zero (`OldIsRecent`).
`NoNeedlessFetch` and `OldGuidanceExpires` follow for any TTL, zero included.

*Runs and proposals.* `ReportIsComplete` needs to know where the storing loop is:
`StoredInTurn` says that all proposals before `next` are stored unless an `add()`
failed, and `MadeInTheLoop` that nobody proposes after the loop began. From them
follow `ReportsAreComplete` and `StoresABeginning`. `PipelineRunsAgents` shows that
the composition implements the runner, so what holds of the runner holds in it.
`WritesAreReviewed` adds that an effect has a row and an approval that has left
`new`. `PipelineReviews` shows that the composition implements the review too: what
a run adds is new to the store, and nothing else it does touches a row. With the
assumptions of the review proved for the instance (`ReviewAssumptions`), its
theorems are cited for the pipeline: `PipelineExecutesOnce`, `PipelineAnswersStand`
and `PipelineImplementsLifecycle`. Runs and calls may be any finite sets, tools any
set, timeouts zero.

*Wiring.* `WiredAsWritten` speaks of the files as a whole, the code goes through
them one by one. `LoadedInOrder` says that the list is a beginning of the files and
consistent, so a file that is refused shows that the files are not, and a list
that is complete shows that they are. `WiredSoFar` and `OneJobPerAgent` say the same
of the two loops behind it. `RunsAreOfJobs` ties an open scheduled run to the one
job of its agent; since that job is skipped while it has an open run,
`ScheduledRunsNeverStack` follows for any schedules and any limit of the agent. No
induction over the files is needed, because the loops are actions.

*Shutdown.* `StopInv` follows a signal through the finally clause: a captured
signal means a cancellation still to come, requests are closed by the time uvicorn
is done with them, and a clause that has passed `stop()` closes the rest. One that
waits in `stop()` for a swallowed cancellation never passes it, so it claims nothing.
`StopIsGraceful` holds for any files, requests, limits and faults.

Left to TLC is what is out of the prover's reach, liveness under fairness (`EverySubmitEnds`, `LockFreed`, `DecisionsSettle`,
`EventsAreFollowed`, `StopEnds`, `GuidanceSpreads`, `PromptedRunsEnd`,
`ProposalsReachReview`, `ShutdownEnds`). Every invariant, every action property and
every refinement that a passing run checks is proved.

## Not modelled

* Payloads, prompts, rationale texts, log lines, the count of tool calls.
* `AGENT_RUNS`, `AGENT_RUN_DURATION` and `AGENT_CONCURRENCY_LIMIT`, which are only
  exported, and `AGENT_TOKENS`, which nothing writes.
* `configure_tracing`: it is called once per process and never raises, so its guard
  against a second call is never used; the export of spans is logfire's.
* `build_model` and `build_mcp_server`: they build client objects without state. That
  they may raise is part of `AgentRunner`'s `Start`.
* Endpoints that only read, and `list_pending`.
* The text that environment substitution and placeholder substitution produce; a
  variable whose value changes the YAML around it.
* Cron arithmetic: when a job fires is free.
* The loss of Redis data in a Redis restart. SQLite is taken to be atomic per
  statement and to survive crashes of the process.

## Plan

`ProposalPipeline` could take the executor's admission in front of its runs; they
share no state but the cancellation that both model. The bounds of `GuidanceCache`
on the age of guidance could be carried over to `AgentRunner`, which now only knows
that guidance arrives or does not.
