---------------------------- MODULE ServiceProofs ----------------------------
(***************************************************************************)
(* Theorems about Service, for any files on disk, requests, limits and     *)
(* faults: what it is wired to and why it does not start, that scheduled   *)
(* runs of an agent never stack, and what a shutdown leaves behind.        *)
(***************************************************************************)
EXTENDS Service, TLAPS

(***************************************************************************)
(* The wiring.                                                             *)
(***************************************************************************)

\* The list is the files so far, in their order, and load_agent_files left none
\* out when it returned.
LoadedInOrder ==
  /\ Len(agents) <= Len(disk.files)
  /\ \A i \in DOMAIN agents : agents[i] = disk.files[i]
  /\ Consistent(agents)
  /\ phase \notin {"configuring", "loading"} \union Ended => Len(agents) = Len(disk.files)

\* Nothing is wired before the store is open, then the enabled agents are; Redis
\* has its client before the store.
WiredSoFar ==
  /\ cursor.agent >= 1 /\ cursor.cron >= 1
  /\ phase \in {"configuring", "loading", "starting"} => definitions = {} /\ jobs = {}
  /\ phase = "starting" => redis
  /\ phase \notin {"configuring", "loading", "starting"} \union Ended =>
       definitions = {f \in Range(disk.files) : f.enabled}

OneJobPerAgent == \A j, k \in jobs : j.agent = k.agent => j = k

\* Nothing is asked for before all is wired, and an open run that the scheduler
\* asked for belongs to the job of its agent.
RunsAreOfJobs ==
  /\ DOMAIN job = Request
  /\ phase \in {"configuring", "loading", "starting", "wiring"} =>
       \A r \in Request : state[r] = "idle" /\ job[r] = {}
  /\ \A r \in Request : Open(r) /\ Trigger[r] = "cron" =>
       \E j \in jobs : job[r] = {j} /\ j.agent = Target[r]

WiringInv ==
  /\ TypeOK /\ WiredAsWritten /\ CronNeverStacks
  /\ LoadedInOrder /\ WiredSoFar /\ OneJobPerAgent /\ RunsAreOfJobs

USE DEF Ended, Serving, vars, loaded, wiring, subsystems, signals, requests

\* A file is taken when it parses and its id is new, and only then.
LEMMA LoadErrors ==
  ASSUME NEW file
  PROVE  LoadError(agents, file) = "none" <=> Parses(file) /\ ~SameId(agents, file)
  BY DEF LoadError, ParseError, Parses

LEMMA FilesAreSeq == ASSUME disk \in Disk PROVE disk.files \in Seq(File)
  BY DiskAssumption

LEMMA AllFilesLoaded ==
  ASSUME TypeOK, LoadedInOrder, Len(agents) = Len(disk.files)
  PROVE  agents = disk.files
<1>1. agents \in Seq(Range(disk.files)) /\ disk.files \in Seq(File)
  BY FilesAreSeq DEF TypeOK
<1>2. QED
  BY <1>1 DEF LoadedInOrder

LEMMA WiringInit == Init => WiringInv
<1> SUFFICES ASSUME Init PROVE WiringInv
  OBVIOUS
<1>1. disk.files \in Seq(File)
  BY FilesAreSeq DEF Init
<1>2. TypeOK
  <2>1. /\ scheduler \in BOOLEAN /\ redis \in BOOLEAN /\ doomed \in BOOLEAN
        /\ loops = "off" /\ phase = "configuring"
    BY DEF Init
  <2>2. /\ agents \in Seq(Range(disk.files)) /\ cursor \in [agent : Nat, cron : Nat]
        /\ disk \in Disk /\ definitions = {} /\ jobs = {} /\ captured = {}
    BY DEF Init
  <2>3. /\ state \in [Request -> {"idle", "queued", "running", "over"}]
        /\ answer \in [Request -> {"none", "open", "202", "403", "404", "500", "lost"}]
        /\ \A r \in Request : job[r] = {} /\ ~Open(r)
    BY DEF Init, Executor!Init, Open
  <2>4. QED
    BY <2>1, <2>2, <2>3 DEF TypeOK
<1>3. LoadedInOrder /\ WiredSoFar /\ OneJobPerAgent /\ RunsAreOfJobs
  BY <1>1 DEF Init, LoadedInOrder, WiredSoFar, OneJobPerAgent, RunsAreOfJobs, Consistent,
              Executor!Init, Open
<1>4. WiredAsWritten /\ CronNeverStacks
  BY DEF Init, WiredAsWritten, CronNeverStacks, Executor!Init, Open
<1>5. QED
  BY <1>2, <1>3, <1>4 DEF WiringInv

\* Steps that leave the requests alone and no request was made before.
NothingAsked == \A r \in Request : state[r] = "idle" /\ job[r] = {}

LEMMA LoadConfigKeeps == ASSUME WiringInv, LoadConfig PROVE WiringInv'
<1> USE DEF WiringInv, LoadConfig
<1>1. TypeOK'
  BY DEF TypeOK, Open, Wired
<1>2. LoadedInOrder' /\ WiredSoFar' /\ OneJobPerAgent' /\ RunsAreOfJobs'
  BY DEF LoadedInOrder, WiredSoFar, OneJobPerAgent, RunsAreOfJobs, Consistent, Open
<1>3. WiredAsWritten'
  BY DEF WiredAsWritten, Consistent
<1>4. CronNeverStacks'
  BY DEF CronNeverStacks, Open
<1>5. QED
  BY <1>1, <1>2, <1>3, <1>4

\* One more file keeps the list consistent, and the file that fails shows that
\* the files are not.
LEMMA LoadFileKeeps == ASSUME WiringInv, LoadFile PROVE WiringInv'
<1> DEFINE n == Len(agents) + 1
           file == disk.files[n]
<1>1. /\ agents \in Seq(Range(disk.files)) /\ disk.files \in Seq(File)
      /\ n \in DOMAIN disk.files /\ file \in Range(disk.files)
      /\ DOMAIN agents = 1..Len(agents) /\ DOMAIN disk.files = 1..Len(disk.files)
  BY FilesAreSeq DEF WiringInv, TypeOK, LoadFile, Range
<1>2. CASE LoadError(agents, file) = "none"
  <2>1. agents' = Append(agents, file) /\ UNCHANGED phase /\ phase = "loading"
    BY <1>2 DEF LoadFile
  <2>2. Parses(file) /\ ~SameId(agents, file)
    BY <1>2, LoadErrors
  <2>3. /\ agents' \in Seq(Range(disk.files)) /\ Len(agents') = n
        /\ \A i \in 1..Len(agents) : agents'[i] = agents[i]
        /\ agents'[n] = file
    BY <1>1, <2>1
  <2>4. TypeOK'
    BY <2>1, <2>3 DEF WiringInv, TypeOK, LoadFile, Open, Wired
  <2>5. Consistent(agents)'
    BY <1>1, <2>2, <2>3 DEF WiringInv, LoadedInOrder, Consistent, SameId
  <2>6. LoadedInOrder'
    BY <1>1, <2>1, <2>3, <2>5 DEF WiringInv, LoadedInOrder, LoadFile
  <2>7. WiredSoFar' /\ OneJobPerAgent' /\ RunsAreOfJobs' /\ WiredAsWritten' /\ CronNeverStacks'
    BY <2>1 DEF WiringInv, WiredSoFar, OneJobPerAgent, RunsAreOfJobs, WiredAsWritten,
                CronNeverStacks, LoadFile, Open
  <2>8. QED
    BY <2>4, <2>6, <2>7 DEF WiringInv
<1>3. CASE LoadError(agents, file) # "none"
  <2>1. phase' = "failed" /\ UNCHANGED agents /\ phase = "loading"
    BY <1>3 DEF LoadFile
  <2>2. ~Parses(file) \/ \E i \in DOMAIN agents : disk.files[i].id = file.id /\ i < n
    BY <1>1, <1>3, LoadErrors DEF SameId, WiringInv, LoadedInOrder
  <2>3. ~Consistent(disk.files)
    BY <1>1, <2>2 DEF Consistent
  <2>4. TypeOK'
    BY <2>1 DEF WiringInv, TypeOK, LoadFile, Open, Wired
  <2>5. WiredAsWritten'
    BY <2>1, <2>3 DEF WiringInv, WiredAsWritten, LoadFile
  <2>6. LoadedInOrder' /\ WiredSoFar' /\ OneJobPerAgent' /\ RunsAreOfJobs' /\ CronNeverStacks'
    BY <2>1 DEF WiringInv, LoadedInOrder, WiredSoFar, OneJobPerAgent, RunsAreOfJobs,
                CronNeverStacks, LoadFile, Open, Consistent
  <2>7. QED
    BY <2>4, <2>5, <2>6 DEF WiringInv
<1>4. QED
  BY <1>2, <1>3

LEMMA AllLoadedKeeps == ASSUME WiringInv, AllLoaded PROVE WiringInv'
<1> USE DEF WiringInv, AllLoaded
<1>1. TypeOK'
  BY DEF TypeOK, Open, Wired
<1>2. LoadedInOrder' /\ WiredSoFar' /\ OneJobPerAgent' /\ RunsAreOfJobs'
  BY DEF LoadedInOrder, WiredSoFar, OneJobPerAgent, RunsAreOfJobs, Consistent, Open
<1>3. Consistent(disk.files)
  BY AllFilesLoaded DEF LoadedInOrder
<1>4. WiredAsWritten' /\ CronNeverStacks'
  BY <1>3 DEF WiredAsWritten, CronNeverStacks, Open
<1>5. QED
  BY <1>1, <1>2, <1>4

LEMMA OpenStoreKeeps == ASSUME WiringInv, OpenStore \/ OpenStoreFails PROVE WiringInv'
<1> USE DEF WiringInv, OpenStore, OpenStoreFails
<1>1. phase = "starting" /\ agents = disk.files
  BY AllFilesLoaded DEF LoadedInOrder
<1>2. TypeOK'
  BY <1>1 DEF TypeOK, RunsAreOfJobs, WiredSoFar, Open, Wired
<1>3. LoadedInOrder' /\ WiredSoFar' /\ OneJobPerAgent' /\ RunsAreOfJobs'
  BY <1>1 DEF LoadedInOrder, WiredSoFar, OneJobPerAgent, RunsAreOfJobs, Consistent, Open
<1>4. WiredAsWritten' /\ CronNeverStacks'
  BY <1>1 DEF WiredAsWritten, WiredSoFar, CronNeverStacks, Open
<1>5. QED
  BY <1>2, <1>3, <1>4

\* Only enabled agents are scheduled, each of them with one job.
LEMMA AddScheduleKeeps == ASSUME WiringInv, AddSchedule PROVE WiringInv'
<1> DEFINE file == agents[cursor.agent]
           j == [agent |-> file.id, cron |-> file.crons[cursor.cron]]
<1>1. /\ phase = "wiring" /\ agents = disk.files
      /\ agents \in Seq(File) /\ cursor \in [agent : Nat, cron : Nat]
      /\ cursor.agent \in 1..Len(agents)
  BY AllFilesLoaded, FilesAreSeq DEF WiringInv, TypeOK, LoadedInOrder, WiredSoFar, AddSchedule
<1>2. file \in Range(disk.files) /\ file \in File
  BY <1>1 DEF Range
<1>3. /\ file.enabled /\ Schedules(file) = file.crons
      /\ cursor.cron \in 1..Len(file.crons)
  BY <1>1 DEF AddSchedule, Schedules, WiringInv, WiredSoFar
<1>4. file.crons[cursor.cron] \in Range(file.crons)
  BY <1>2, <1>3, FileAssumption DEF Range
<1>5. file \in definitions
  BY <1>1, <1>2, <1>3 DEF WiringInv, WiredSoFar
<1>6. NothingAsked
  BY <1>1 DEF WiringInv, RunsAreOfJobs, NothingAsked
<1>7. CASE file.crons[cursor.cron] \in Cron
  <2>1. /\ jobs' = {k \in jobs : k.agent # j.agent} \union {j}
        /\ cursor' = [cursor EXCEPT !.cron = @ + 1] /\ UNCHANGED phase
    BY <1>3, <1>7 DEF AddSchedule, AddJob
  <2>2. \A k \in jobs' : k.agent \in Wired
    BY <1>5, <2>1 DEF WiringInv, TypeOK, Wired
  <2>3. TypeOK'
    BY <1>1, <1>6, <2>1, <2>2 DEF WiringInv, TypeOK, AddSchedule, NothingAsked, Open, Wired
  <2>4. OneJobPerAgent'
    BY <2>1 DEF WiringInv, OneJobPerAgent
  <2>5. LoadedInOrder' /\ WiredSoFar' /\ WiredAsWritten'
    BY <1>1, <2>1 DEF WiringInv, LoadedInOrder, WiredSoFar, WiredAsWritten, AddSchedule,
                      Consistent
  <2>6. RunsAreOfJobs' /\ CronNeverStacks'
    BY <1>6, <2>1 DEF WiringInv, RunsAreOfJobs, CronNeverStacks, AddSchedule, NothingAsked, Open
  <2>7. QED
    BY <2>3, <2>4, <2>5, <2>6 DEF WiringInv
<1>8. CASE file.crons[cursor.cron] \notin Cron
  <2>1. phase' = "failed" /\ UNCHANGED <<cursor, jobs>>
    BY <1>3, <1>8 DEF AddSchedule
  <2>2. TypeOK'
    BY <2>1 DEF WiringInv, TypeOK, AddSchedule, Open, Wired
  <2>3. \E f \in Range(disk.files) : f.enabled /\ ~(Range(f.crons) \subseteq Cron)
    BY <1>2, <1>3, <1>4, <1>8
  <2>4. WiredAsWritten'
    BY <2>1, <2>3 DEF WiringInv, WiredAsWritten, AddSchedule
  <2>5. LoadedInOrder' /\ WiredSoFar' /\ OneJobPerAgent' /\ RunsAreOfJobs' /\ CronNeverStacks'
    BY <1>1, <2>1 DEF WiringInv, LoadedInOrder, WiredSoFar, OneJobPerAgent, RunsAreOfJobs,
                      CronNeverStacks, AddSchedule, Open, Consistent
  <2>6. QED
    BY <2>2, <2>4, <2>5 DEF WiringInv
<1>9. QED
  BY <1>7, <1>8

LEMMA NextAgentKeeps == ASSUME WiringInv, NextAgent \/ Start PROVE WiringInv'
<1> USE DEF WiringInv, NextAgent, Start
<1>1. TypeOK'
  <2>1. cursor' \in [agent : Nat, cron : Nat]
    BY DEF TypeOK
  <2>2. /\ scheduler' \in BOOLEAN
        /\ phase' \in {"wiring", "serving", "finally", "unwinding"}
        /\ loops' \in {"off", "subscribing", "on", "failed", "swallowed"}
    BY DEF TypeOK
  <2>3. QED
    BY <2>1, <2>2 DEF TypeOK, Open, Wired
<1>2. LoadedInOrder' /\ OneJobPerAgent' /\ RunsAreOfJobs'
  BY DEF LoadedInOrder, OneJobPerAgent, RunsAreOfJobs, Consistent, Open
<1>3. WiredSoFar'
  BY DEF TypeOK, WiredSoFar
<1>4. WiredAsWritten' /\ CronNeverStacks'
  BY <1>3 DEF WiredAsWritten, WiredSoFar, CronNeverStacks, Open
<1>5. QED
  BY <1>1, <1>2, <1>3, <1>4

LEMMA SubscriptionKeeps == ASSUME WiringInv, Subscribed \/ SubscribeFails PROVE WiringInv'
<1> USE DEF WiringInv, Subscribed, SubscribeFails
<1>1. TypeOK'
  BY DEF TypeOK, Open, Wired
<1>2. UNCHANGED <<disk, agents, phase, cursor, definitions, jobs, redis, state, job>>
  OBVIOUS
<1>3. LoadedInOrder' /\ WiredSoFar' /\ OneJobPerAgent' /\ RunsAreOfJobs'
  BY <1>2 DEF LoadedInOrder, WiredSoFar, OneJobPerAgent, RunsAreOfJobs, Consistent, Open
<1>4. WiredAsWritten' /\ CronNeverStacks'
  BY <1>2 DEF WiredAsWritten, CronNeverStacks, Open
<1>5. QED
  BY <1>1, <1>3, <1>4

\* What the executor makes of one request, whatever is decided.
LEMMA ExecutorMoves ==
  ASSUME TypeOK, NEW r \in Request, Submit(r) \/ Executor!Start(r) \/ Executor!End(r)
  PROVE  /\ state' \in [Request -> {"idle", "queued", "running", "over"}]
         /\ \A s \in Request \ {r} : state'[s] = state[s]
  BY DEF TypeOK, Submit, Executor!Queue, Executor!Start, Executor!End

\* A run the scheduler does not ask for, and any run's progress, concern no job.
LEMMA RunKeeps ==
  ASSUME WiringInv, NEW r \in Request, Serving \/ phase = "unwinding",
         UNCHANGED <<loaded, phase, wiring, scheduler, redis, signals, job>>,
         loops' \in {"off", "subscribing", "on", "failed", "swallowed"},
         state' \in [Request -> {"idle", "queued", "running", "over"}],
         \A s \in Request \ {r} : state'[s] = state[s],
         answer' \in [Request -> {"none", "open", "202", "403", "404", "500", "lost"}],
         Open(r) \/ ~Open(r)' \/ (Target[r] \in Wired /\ Trigger[r] # "cron")
  PROVE  WiringInv'
<1>1. \A s \in Request : Open(s)' => Open(s) \/ (s = r /\ Target[r] \in Wired /\ Trigger[r] # "cron")
  BY DEF Open
<1>2. TypeOK'
  BY <1>1 DEF WiringInv, TypeOK, Wired
<1>3. LoadedInOrder' /\ WiredSoFar' /\ OneJobPerAgent' /\ WiredAsWritten'
  BY DEF WiringInv, LoadedInOrder, WiredSoFar, OneJobPerAgent, WiredAsWritten, Consistent
<1>4. RunsAreOfJobs' /\ CronNeverStacks'
  BY <1>1 DEF WiringInv, RunsAreOfJobs, CronNeverStacks
<1>5. QED
  BY <1>2, <1>3, <1>4 DEF WiringInv

LEMMA RequestWiring ==
  ASSUME WiringInv, NEW r \in Request,
         \/ EventDue(r) \/ HttpArrives(r) \/ HttpAnswered(r)
         \/ RunStarts(r) \/ SubmitEnds(r) \/ CancelSwallowed(r)
  PROVE  WiringInv'
<1>1. TypeOK /\ Trigger[r] \in {"cron", "event", "http"}
  BY TriggerAssumption DEF WiringInv
<1>2. CASE EventDue(r)
  BY <1>1, <1>2, ExecutorMoves, RunKeeps DEF EventDue, TypeOK
<1>3. CASE HttpArrives(r)
  <2>1. /\ answer' \in [Request -> {"none", "open", "202", "403", "404", "500", "lost"}]
        /\ (Submit(r) /\ Target[r] \in Wired) \/ UNCHANGED state
    BY <1>1, <1>3 DEF HttpArrives, TypeOK
  <2>2. /\ state' \in [Request -> {"idle", "queued", "running", "over"}]
        /\ \A s \in Request \ {r} : state'[s] = state[s]
    BY <1>1, <2>1, ExecutorMoves DEF TypeOK
  <2>3. Open(r) \/ ~Open(r)' \/ (Target[r] \in Wired /\ Trigger[r] # "cron")
    BY <1>3, <2>1 DEF HttpArrives, Open
  <2>4. QED
    BY <1>1, <1>3, <2>1, <2>2, <2>3, RunKeeps DEF HttpArrives, TypeOK
<1>4. CASE HttpAnswered(r)
  <2>1. answer' \in [Request -> {"none", "open", "202", "403", "404", "500", "lost"}]
    BY <1>1, <1>4 DEF HttpAnswered, TypeOK
  <2>2. UNCHANGED state /\ ~Open(r)'
    BY <1>4 DEF HttpAnswered, Open
  <2>3. QED
    BY <1>1, <1>4, <2>1, <2>2, RunKeeps DEF HttpAnswered, TypeOK
<1>5. CASE RunStarts(r)
  BY <1>1, <1>5, ExecutorMoves, RunKeeps DEF RunStarts, TypeOK
<1>6. CASE SubmitEnds(r)
  BY <1>1, <1>6, ExecutorMoves, RunKeeps DEF SubmitEnds, TypeOK
<1>7. CASE CancelSwallowed(r)
  <2>1. Serving \/ phase = "unwinding"
    BY <1>7 DEF CancelSwallowed
  <2>2. ~Open(r)'
    BY <1>1, <1>7 DEF CancelSwallowed, Executor!End, Open, TypeOK
  <2>3. QED
    BY <1>1, <1>7, <2>1, <2>2, ExecutorMoves, RunKeeps DEF CancelSwallowed, TypeOK
<1>8. QED
  BY <1>2, <1>3, <1>4, <1>5, <1>6, <1>7

\* The scheduler starts nothing of a job that has an open run, and an agent has
\* no second job.
LEMMA CronKeeps == ASSUME WiringInv, NEW r \in Request, CronFires(r) PROVE WiringInv'
<1>1. PICK j \in jobs :
        /\ j.agent = Target[r]
        /\ IF \E s \in Request : Open(s) /\ j \in job[s]
             THEN Executor!End(r) /\ UNCHANGED job
             ELSE Submit(r) /\ job' = [job EXCEPT ![r] = {j}]
  BY DEF CronFires
<1>2. /\ Serving \/ phase = "unwinding"
      /\ UNCHANGED <<loaded, phase, wiring, subsystems, signals, answer>>
      /\ Trigger[r] = "cron" /\ state[r] = "idle"
  BY DEF CronFires
<1>3. /\ state' \in [Request -> {"idle", "queued", "running", "over"}]
      /\ \A s \in Request \ {r} : state'[s] = state[s]
  BY <1>1, ExecutorMoves DEF WiringInv
<1>4. CASE \E s \in Request : Open(s) /\ j \in job[s]
  <2>1. ~Open(r)' /\ UNCHANGED job
    BY <1>1, <1>3, <1>4 DEF Executor!End, Open, WiringInv, TypeOK
  <2>2. QED
    BY <1>2, <1>3, <2>1, RunKeeps DEF WiringInv, TypeOK
<1>5. CASE ~\E s \in Request : Open(s) /\ j \in job[s]
  <2>1. /\ job' = [job EXCEPT ![r] = {j}] /\ DOMAIN job = Request
        /\ \A s \in Request \ {r} : job'[s] = job[s] /\ (Open(s)' <=> Open(s))
        /\ job'[r] = {j} /\ ~Open(r) /\ Target[r] \in Wired
    BY <1>1, <1>2, <1>3, <1>5 DEF WiringInv, RunsAreOfJobs, TypeOK, Open
  <2>2. TypeOK'
    BY <1>1, <1>2, <1>3, <2>1 DEF WiringInv, TypeOK, Wired
  <2>3. LoadedInOrder' /\ WiredSoFar' /\ OneJobPerAgent' /\ WiredAsWritten'
    BY <1>2 DEF WiringInv, LoadedInOrder, WiredSoFar, OneJobPerAgent, WiredAsWritten, Consistent
  <2>4. RunsAreOfJobs'
    BY <1>1, <1>2, <2>1 DEF WiringInv, RunsAreOfJobs
  <2>5. \A s \in Request \ {r} : Trigger[s] = "cron" /\ Target[s] = Target[r] => ~Open(s)
    BY <1>1, <1>5 DEF WiringInv, RunsAreOfJobs, OneJobPerAgent
  <2>6. CronNeverStacks'
    BY <2>1, <2>5 DEF WiringInv, CronNeverStacks
  <2>7. QED
    BY <2>2, <2>3, <2>4, <2>6 DEF WiringInv
<1>6. QED
  BY <1>4, <1>5

\* On the way down nothing is wired or asked for.
LEMMA DownKeeps ==
  ASSUME WiringInv, UNCHANGED <<loaded, wiring, job>>,
         \/ /\ Serving \/ phase = "unwinding"
            /\ phase' \in {"draining", "finally", "stopping", "unwinding"}
         \/ phase' \in {"down", "killed", "crashed"},
         scheduler' \in BOOLEAN, redis' \in BOOLEAN, doomed' \in BOOLEAN,
         loops' \in {"off", "subscribing", "on", "failed", "swallowed"},
         captured' \subseteq {"SIGINT", "SIGTERM", "force"},
         state' \in [Request -> {"idle", "queued", "running", "over"}],
         answer' \in [Request -> {"none", "open", "202", "403", "404", "500", "lost"}],
         \A r \in Request : Open(r)' => Open(r)
  PROVE  WiringInv'
<1>1. TypeOK'
  BY DEF WiringInv, TypeOK, Wired
<1>2. LoadedInOrder' /\ WiredSoFar' /\ OneJobPerAgent' /\ RunsAreOfJobs'
  BY DEF WiringInv, LoadedInOrder, WiredSoFar, OneJobPerAgent, RunsAreOfJobs, Consistent
<1>3. WiredAsWritten' /\ CronNeverStacks'
  BY DEF WiringInv, WiredAsWritten, WiredSoFar, CronNeverStacks, Consistent
<1>4. QED
  BY <1>1, <1>2, <1>3 DEF WiringInv

LEMMA DiesKeeps ==
  ASSUME WiringInv, NEW how \in {"down", "killed", "crashed"}, Dies(how)
  PROVE  /\ state' \in [Request -> {"idle", "queued", "running", "over"}]
         /\ answer' \in [Request -> {"none", "open", "202", "403", "404", "500", "lost"}]
         /\ \A r \in Request : Open(r)' => Open(r)
<1>1. state' \in [Request -> {"idle", "queued", "running", "over"}]
  BY DEF WiringInv, TypeOK, Dies, Executor!Kill
<1>2. answer' \in [Request -> {"none", "open", "202", "403", "404", "500", "lost"}]
  BY DEF WiringInv, TypeOK, Dies
<1>3. \A r \in Request : state'[r] = "over" \/ state'[r] = state[r]
  BY DEF Dies, Executor!Kill
<1>4. QED
  BY <1>1, <1>2, <1>3 DEF Open

LEMMA ShutdownKeeps ==
  ASSUME WiringInv,
         \/ \E s \in {"SIGINT", "SIGTERM"} : Signalled(s)
         \/ Drained \/ StopListener \/ ListenerStopped \/ Unwound \/ Crash
  PROVE  WiringInv'
<1>1. CASE \E s \in {"SIGINT", "SIGTERM"} : Signalled(s)
  <2>1. captured' \subseteq {"SIGINT", "SIGTERM", "force"}
    BY <1>1 DEF WiringInv, TypeOK, Signalled
  <2>2. QED
    BY <1>1, <2>1, DownKeeps DEF WiringInv, TypeOK, Signalled, Open
<1>2. CASE Drained
  <2>1. CASE "SIGTERM" \in captured
    BY <1>2, <2>1, DiesKeeps, DownKeeps DEF WiringInv, TypeOK, Drained, Dies
  <2>2. CASE "SIGTERM" \notin captured
    BY <1>2, <2>2, DownKeeps DEF WiringInv, TypeOK, Drained, Open
  <2>3. QED
    BY <2>1, <2>2
<1>3. CASE StopListener
  BY <1>3, DownKeeps DEF WiringInv, TypeOK, StopListener, Open
<1>4. CASE ListenerStopped
  BY <1>4, DownKeeps DEF WiringInv, TypeOK, ListenerStopped, Open
<1>5. CASE Unwound
  BY <1>5, DiesKeeps, DownKeeps DEF WiringInv, TypeOK, Unwound, Dies
<1>6. CASE Crash
  BY <1>6, DiesKeeps, DownKeeps DEF WiringInv, TypeOK, Crash, Dies
<1>7. QED
  BY <1>1, <1>2, <1>3, <1>4, <1>5, <1>6

LEMMA WiringStep == WiringInv /\ [Next]_vars => WiringInv'
<1> SUFFICES ASSUME WiringInv, [Next]_vars PROVE WiringInv'
  OBVIOUS
<1>1. CASE UNCHANGED vars
  <2>1. TypeOK' /\ LoadedInOrder' /\ WiredSoFar' /\ OneJobPerAgent' /\ RunsAreOfJobs'
    BY <1>1 DEF WiringInv, TypeOK, LoadedInOrder, WiredSoFar, OneJobPerAgent, RunsAreOfJobs,
                Consistent, Open, Wired
  <2>2. WiredAsWritten' /\ CronNeverStacks'
    BY <1>1 DEF WiringInv, WiredAsWritten, CronNeverStacks, Consistent, Open
  <2>3. QED
    BY <2>1, <2>2 DEF WiringInv
<1>2. CASE \/ LoadConfig \/ LoadFile \/ AllLoaded \/ OpenStore \/ OpenStoreFails
           \/ AddSchedule \/ NextAgent \/ Start \/ Subscribed \/ SubscribeFails
  BY <1>2, LoadConfigKeeps, LoadFileKeeps, AllLoadedKeeps, OpenStoreKeeps, AddScheduleKeeps,
     NextAgentKeeps, SubscriptionKeeps
<1>3. CASE \E r \in Request :
             \/ EventDue(r) \/ CronFires(r) \/ HttpArrives(r)
             \/ HttpAnswered(r) \/ RunStarts(r) \/ SubmitEnds(r)
             \/ CancelSwallowed(r)
  BY <1>3, CronKeeps, RequestWiring
<1>4. CASE \/ \E s \in {"SIGINT", "SIGTERM"} : Signalled(s)
           \/ Drained \/ StopListener \/ ListenerStopped \/ Unwound \/ Crash
  BY <1>4, ShutdownKeeps
<1>5. QED
  BY <1>1, <1>2, <1>3, <1>4 DEF Next

\* The inductive invariant: what is loaded is the files so far, what is wired
\* the enabled ones, an agent has one job, and a scheduled run that is open is
\* known to its job.
THEOREM WiringInvariant == Spec => []WiringInv
<1>1. QED
  BY WiringInit, WiringStep, PTL DEF Spec

\* Every variable of run_service keeps its type, and jobs and open requests are
\* those of agents that are wired.
THEOREM ServiceIsTyped == Spec => []TypeOK
<1>1. WiringInv => TypeOK
  BY DEF WiringInv
<1>2. QED
  BY <1>1, WiringInvariant, PTL

\* For any directory of files: the service serves all the enabled agents of
\* consistent files, and when it does not start the files, the global file, the
\* store or a cron expression of an enabled agent is to blame.
THEOREM ServiceIsWiredAsWritten == Spec => []WiredAsWritten
<1>1. WiringInv => WiredAsWritten
  BY DEF WiringInv
<1>2. QED
  BY <1>1, WiringInvariant, PTL

\* However many schedules an agent has and however they fire, two scheduled runs
\* of it are never open together, though two jobs could be (the executor admits
\* as many as the agent's limit).
THEOREM ScheduledRunsNeverStack == Spec => []CronNeverStacks
<1>1. WiringInv => CronNeverStacks
  BY DEF WiringInv
<1>2. QED
  BY <1>1, WiringInvariant, PTL

(***************************************************************************)
(* The shutdown.                                                           *)
(***************************************************************************)
AnswersAreKept ==
  /\ answer \in [Request -> {"none", "open", "202", "403", "404", "500", "lost"}]
  /\ phase \notin Ended => \A r \in Request : answer[r] # "lost"
  /\ phase \in {"finally", "stopping", "unwinding"}
     /\ captured # {} /\ "force" \notin captured =>
       \A r \in Request : answer[r] # "open"

\* What the finally clause finds after a signal: a cancellation to be delivered,
\* and a listener that run() has at least begun to subscribe.
StopFinds ==
  /\ phase \in {"configuring", "loading", "starting", "wiring", "serving"} => captured = {}
  /\ phase \in {"serving", "draining", "finally"} => loops \in {"subscribing", "on", "failed"}
  /\ phase = "finally" /\ captured # {} => doomed

\* How far it has come with a listener that was subscribed; it comes no further
\* once a run has swallowed the cancellation.
StopLeaves ==
  captured # {} =>
    /\ phase = "stopping" => loops \in {"off", "swallowed"}
    /\ phase = "unwinding" /\ loops \notin {"subscribing", "failed"} =>
         ~scheduler /\ ~redis /\ loops = "off"

StopInv == AnswersAreKept /\ StopFinds /\ StopLeaves /\ GracefulStop

LEMMA StopInit == Init => StopInv
  BY DEF Init, StopInv, AnswersAreKept, StopFinds, StopLeaves, GracefulStop

LEMMA StartupKeeps ==
  ASSUME StopInv,
         \/ LoadConfig \/ LoadFile \/ AllLoaded \/ OpenStore \/ OpenStoreFails
         \/ AddSchedule \/ NextAgent \/ Start \/ Subscribed \/ SubscribeFails
  PROVE  StopInv'
<1> USE DEF StopInv, LoadConfig, LoadFile, AllLoaded, OpenStore, OpenStoreFails,
            AddSchedule, NextAgent, Start, Subscribed, SubscribeFails
<1>1. AnswersAreKept'
  BY DEF AnswersAreKept, StopFinds
<1>2. StopFinds'
  BY DEF StopFinds
<1>3. StopLeaves'
  BY DEF StopFinds, StopLeaves
<1>4. GracefulStop'
  BY DEF GracefulStop
<1>5. QED
  BY <1>1, <1>2, <1>3, <1>4

\* HTTP requests are opened before any signal and never lost by a run.
LEMMA RequestKeeps ==
  ASSUME StopInv, NEW r \in Request,
         \/ EventDue(r) \/ CronFires(r) \/ HttpArrives(r)
         \/ HttpAnswered(r) \/ RunStarts(r) \/ SubmitEnds(r) \/ CancelSwallowed(r)
  PROVE  StopInv'
<1> USE DEF StopInv, EventDue, CronFires, HttpArrives, HttpAnswered, RunStarts, SubmitEnds,
            CancelSwallowed
<1>1. /\ UNCHANGED <<phase, scheduler, redis, captured, doomed>>
      /\ loops' = loops \/ (phase \in {"stopping", "unwinding"} /\ CancelSwallowed(r))
  OBVIOUS
<1>2. \/ UNCHANGED answer
      \/ phase = "serving" /\ \E a \in {"open", "403", "404"} :
           answer' = [answer EXCEPT ![r] = a]
      \/ \E a \in {"202", "500"} : answer' = [answer EXCEPT ![r] = a]
  OBVIOUS
<1>3. AnswersAreKept'
  BY <1>1, <1>2 DEF AnswersAreKept
<1>4. StopFinds' /\ StopLeaves'
  BY <1>1 DEF StopFinds, StopLeaves
<1>5. phase \notin {"down", "killed"} => GracefulStop'
  BY <1>1 DEF GracefulStop
<1>6. phase \notin {"down", "killed"}
  BY <1>2
<1>7. QED
  BY <1>3, <1>4, <1>5, <1>6

LEMMA SignalKeeps ==
  ASSUME StopInv, NEW s \in {"SIGINT", "SIGTERM"}, Signalled(s)
  PROVE  StopInv'
  BY DEF StopInv, Signalled, AnswersAreKept, StopFinds, StopLeaves, GracefulStop

\* uvicorn lets go of an open request only when it is forced to.
LEMMA DrainedKeeps == ASSUME StopInv, Drained PROVE StopInv'
<1> USE DEF StopInv, Drained, Dies
<1>1. AnswersAreKept'
  BY DEF AnswersAreKept
<1>2. StopFinds' /\ StopLeaves'
  BY DEF StopFinds, StopLeaves
<1>3. GracefulStop'
  BY DEF AnswersAreKept, GracefulStop
<1>4. QED
  BY <1>1, <1>2, <1>3

LEMMA FinallyKeeps ==
  ASSUME StopInv, StopListener \/ ListenerStopped
  PROVE  StopInv'
<1> USE DEF StopInv, StopListener, ListenerStopped
<1>1. AnswersAreKept'
  BY DEF AnswersAreKept
<1>2. StopFinds'
  BY DEF StopFinds
<1>3. StopLeaves'
  BY DEF StopFinds, StopLeaves
<1>4. GracefulStop'
  BY DEF GracefulStop
<1>5. QED
  BY <1>1, <1>2, <1>3, <1>4

LEMMA EndKeeps == ASSUME StopInv, Unwound \/ Crash PROVE StopInv'
<1> USE DEF StopInv, Unwound, Crash, Dies
<1>1. AnswersAreKept'
  BY DEF AnswersAreKept
<1>2. StopFinds' /\ StopLeaves'
  BY DEF StopFinds, StopLeaves
<1>3. GracefulStop'
  BY DEF AnswersAreKept, StopLeaves, GracefulStop
<1>4. QED
  BY <1>1, <1>2, <1>3

LEMMA StopStep == StopInv /\ [Next]_vars => StopInv'
<1>1. CASE UNCHANGED vars
  BY <1>1 DEF StopInv, AnswersAreKept, StopFinds, StopLeaves, GracefulStop
<1>2. QED
  BY <1>1, StartupKeeps, RequestKeeps, SignalKeeps, DrainedKeeps, FinallyKeeps, EndKeeps
     DEF Next

\* The inductive invariant: open requests are there only before uvicorn has
\* drained, and the finally clause meets a cancellation after each interrupt.
THEOREM StopInvariant == Spec => []StopInv
<1>1. QED
  BY StopInit, StopStep, PTL DEF Spec

\* One signal costs no request its answer, and an interrupt of a service that
\* listens is followed by the whole shutdown, whatever the triggers and their
\* runs do meanwhile.
THEOREM StopIsGraceful == Spec => []GracefulStop
<1>1. StopInv => GracefulStop
  BY DEF StopInv
<1>2. QED
  BY <1>1, StopInvariant, PTL
=============================================================================
