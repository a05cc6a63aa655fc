--------------------------- MODULE RunLockProofs ---------------------------
(***************************************************************************)
(* What the advisory lock and the gauge of RunExecutor guarantee, and that *)
(* RunExecutor implements RunAdmission.  Every step is first put into one  *)
(* of a few shapes that tell what it does to the runs in progress, to the  *)
(* gauge, to Redis and to the phase of its submit.                         *)
(***************************************************************************)
EXTENDS RunExecutorProofs

USE DEF PC, Active, Inside, Run

\* A run begins: with Redis, by a SET that found no key.
Starts(r) ==
  /\ ~Running(r)
  /\ pc' = [pc EXCEPT ![r] = "setup"]
  /\ Gauge(r, 1)
  /\ UNCHANGED age
  /\ \/ lock[Target[r]] = NoToken /\ SetLock(r)
     \/ ~HasRedis /\ UNCHANGED redis

\* A submit goes on, before, in or after its run; it may lock or unlock.
Moves(r) ==
  /\ \E l \in PC : pc' = [pc EXCEPT ![r] = l] /\ (l \in Run <=> Running(r))
  /\ UNCHANGED <<inflight, age>>
  /\ \/ UNCHANGED redis
     \/ ~Running(r) /\ lock[Target[r]] = NoToken /\ SetLock(r)
     \/ pc[r] = "release" /\ CompareAndDelete(r)

\* A run ends, its lock still set.
Ends(r) ==
  /\ Running(r)
  /\ \E l \in {"release", "done"} : pc' = [pc EXCEPT ![r] = l]
  /\ Gauge(r, -1)
  /\ age' = [age EXCEPT ![r] = 0]
  /\ UNCHANGED redis

\* Nothing of this happens.
Rests == UNCHANGED <<pc, inflight, age, lock, ttl>>

LEMMA PastPermitsShape ==
  ASSUME PermitInv, NEW r \in Request, PastPermits(r), ~Running(r),
         UNCHANGED <<redis, clocks>>
  PROVE  Starts(r) \/ Moves(r)
<1>1. CASE HasRedis
  <2>1. pc' = [pc EXCEPT ![r] = "lock"] /\ UNCHANGED inflight
    BY <1>1 DEF PastPermits, Goto
  <2>2. QED
    BY <2>1 DEF Moves, clocks
<1>2. CASE ~HasRedis
  <2>1. pc' = [pc EXCEPT ![r] = "setup"] /\ Gauge(r, 1)
    BY <1>2 DEF PastPermits, Goto
  <2>2. QED
    BY <1>2, <2>1 DEF Starts, clocks
<1>3. QED
  BY <1>1, <1>2

LEMMA AskShape ==
  ASSUME PermitInv, NEW r \in Request, AskAgentPermit(r), ~Running(r),
         UNCHANGED <<redis, clocks>>
  PROVE  Starts(r) \/ Moves(r)
<1>1. CASE Locked(agentSem[Home[r]][Target[r]])
  <2>1. pc' = [pc EXCEPT ![r] = "await"] /\ UNCHANGED inflight
    BY <1>1 DEF AskAgentPermit, Goto
  <2>2. QED
    BY <2>1 DEF Moves, clocks
<1>2. CASE ~Locked(agentSem[Home[r]][Target[r]])
  BY <1>2, PastPermitsShape DEF AskAgentPermit
<1>3. QED
  BY <1>1, <1>2

LEMMA FinishShape ==
  ASSUME PermitInv, NEW r \in Request, NEW result, Running(r), Finish(r, result),
         UNCHANGED redis
  PROVE  Ends(r)
<1>1. \E l \in {"release", "done"} : pc' = [pc EXCEPT ![r] = l]
  BY DEF Finish, Leave, Goto
<1>2. QED
  BY <1>1 DEF Ends, Finish

\* Every step of a submit has one of the three shapes.
LEMMA SubmitShape ==
  ASSUME PermitInv, NEW r \in Request,
         \/ SkipUnknown(r) \/ Submit(r) \/ Step(r)
         \/ LockError(r) \/ LockRefusedByRetry(r)
         \/ LlmEnds(r) \/ ReleaseFails(r) \/ Cancel(r)
  PROVE  Starts(r) \/ Moves(r) \/ Ends(r)
<1>1. CASE SkipUnknown(r)
  BY <1>1 DEF SkipUnknown, Goto, Moves, Running, clocks
<1>2. CASE Submit(r)
  <2>1. ~Running(r) /\ UNCHANGED <<redis, clocks>>
    BY <1>2 DEF Submit, Running
  <2>2. CASE Locked(globalSem[Home[r]])
    <3>1. pc' = [pc EXCEPT ![r] = "gwait"] /\ UNCHANGED inflight
      BY <1>2, <2>2 DEF Submit, Goto
    <3>2. QED
      BY <2>1, <3>1 DEF Moves, clocks
  <2>3. CASE ~Locked(globalSem[Home[r]])
    BY <1>2, <2>1, <2>3, AskShape DEF Submit
  <2>4. QED
    BY <2>2, <2>3
<1>3. CASE WakeGlobal(r)
  BY <1>3, AskShape DEF WakeGlobal, Running
<1>4. CASE WakeAgent(r)
  BY <1>4, PastPermitsShape DEF WakeAgent, Running
<1>5. CASE LockAcquired(r)
  BY <1>5 DEF LockAcquired, Goto, Starts, Running, clocks
<1>6. CASE SetupDone(r) \/ LlmEnds(r) \/ LlmTimeout(r)
  BY <1>6 DEF SetupDone, LlmEnds, LlmTimeout, Goto, Moves, Running, clocks
<1>7. CASE SetupFails(r) \/ PersistDone(r) \/ CancelRun(r)
  BY <1>7, FinishShape DEF SetupFails, PersistDone, CancelRun, Running
<1>8. CASE \/ LockRefused(r) \/ LockError(r) \/ LockRefusedByRetry(r)
           \/ ReleaseLock(r) \/ ReleaseFails(r) \/ CancelLock(r) \/ CancelRelease(r)
  <2>1. /\ ~Running(r) /\ pc' = [pc EXCEPT ![r] = "done"] /\ UNCHANGED <<inflight, age>>
        /\ \/ UNCHANGED redis
           \/ lock[Target[r]] = NoToken /\ SetLock(r)
           \/ pc[r] = "release" /\ CompareAndDelete(r)
    BY <1>8 DEF LockRefused, LockError, LockRefusedByRetry, ReleaseLock, ReleaseFails,
                CancelLock, CancelRelease, Leave, Goto, Running, clocks
  <2>2. QED
    BY <2>1 DEF Moves
<1>9. CASE CancelGlobalWait(r) \/ CancelAgentWait(r)
  BY <1>9 DEF CancelGlobalWait, CancelAgentWait, Goto, Moves, Running, clocks
<1>10. QED
  BY <1>1, <1>2, <1>3, <1>4, <1>5, <1>6, <1>7, <1>8, <1>9 DEF Step, Cancel

\* Every other step keeps the runs and Redis as they are, or is a crash or a tick.
LEMMA StepShape ==
  ASSUME PermitInv, [Next]_vars
  PROVE  \/ \E r \in Request : Starts(r) \/ Moves(r) \/ Ends(r)
         \/ \E p \in Process : Crash(p)
         \/ Tick
         \/ Rests
<1>1. ASSUME NEW r \in Request,
             \/ SkipUnknown(r) \/ Submit(r) \/ Step(r)
             \/ LockError(r) \/ LockRefusedByRetry(r)
             \/ LlmEnds(r) \/ ReleaseFails(r) \/ Cancel(r)
      PROVE  Starts(r) \/ Moves(r) \/ Ends(r)
  BY <1>1, SubmitShape
<1>2. ASSUME NEW p \in Process, Stop(p) \/ Restart(p)
      PROVE  Rests
  BY <1>2 DEF Stop, Restart, Rests, redis, clocks
<1>3. ASSUME UNCHANGED vars
      PROVE  Rests
  BY <1>3 DEF vars, Rests
<1>4. QED
  BY <1>1, <1>2, <1>3 DEF Next, Quiet
-----------------------------------------------------------------------------
(* The lock.                                                               *)

\* A key has a token exactly as long as it has time to live.
Expiring == \A a \in Agent : lock[a] = NoToken <=> ttl[a] = 0

\* A run younger than its timeout owns the lock of its agent, which will live
\* until the run reaches that age.
YoungRunsOwn ==
  \A r \in Request :
    /\ age[r] <= Timeout[Target[r]]
    /\ ~Running(r) => age[r] = 0
    /\ HasRedis /\ Running(r) /\ age[r] < Timeout[Target[r]]
         => lock[Target[r]] = r /\ ttl[Target[r]] = Timeout[Target[r]] - age[r]

LockInv == Expiring /\ YoungRunsOwn

\* A SET that finds no key keeps the invariant whatever else r does, as no young
\* run can exist without a key.
LEMMA SetKeeps ==
  ASSUME PermitInv, PermitInv', LockInv, NEW r \in Request,
         lock[Target[r]] = NoToken, SetLock(r), ~Running(r), UNCHANGED age,
         NEW l \in PC, pc' = [pc EXCEPT ![r] = l]
  PROVE  LockInv'
<1> DEFINE a == Target[r]
<1>1. a \in Agent /\ Timeout[a] \in Nat \ {0} /\ r # NoToken
  BY TargetAssumption, TimeoutAssumption, NoTokenAssumption
<1>2. /\ lock' = [lock EXCEPT ![a] = r] /\ ttl' = [ttl EXCEPT ![a] = Timeout[a]]
      /\ lock \in [Agent -> Request \union {NoToken}] /\ ttl \in [Agent -> Nat]
      /\ pc \in [Request -> PC] /\ age \in [Request -> Nat]
  BY DEF SetLock, PermitInv, PlainTypes
<1>3. Expiring'
  BY <1>1, <1>2 DEF LockInv, Expiring
<1>4. ASSUME NEW s \in Request
      PROVE  /\ age'[s] <= Timeout[Target[s]]
             /\ ~Running(s)' => age'[s] = 0
             /\ HasRedis /\ Running(s)' /\ age'[s] < Timeout[Target[s]]
                  => lock'[Target[s]] = s /\ ttl'[Target[s]] = Timeout[Target[s]] - age'[s]
  <2>1. CASE s = r
    BY <1>1, <1>2, <2>1 DEF LockInv, YoungRunsOwn, Running
  <2>2. CASE s # r
    <3>1. Running(s)' <=> Running(s)
      BY <1>2, <2>2 DEF Running
    <3>2. Target[s] \in Agent /\ s # NoToken
      BY TargetAssumption, NoTokenAssumption
    <3>3. CASE Target[s] = a
      BY <1>1, <1>2, <3>1, <3>2, <3>3 DEF LockInv, YoungRunsOwn
    <3>4. CASE Target[s] # a
      BY <1>1, <1>2, <3>1, <3>2, <3>4 DEF LockInv, YoungRunsOwn
    <3>5. QED
      BY <3>3, <3>4
  <2>3. QED
    BY <2>1, <2>2
<1>5. QED
  BY <1>3, <1>4 DEF LockInv, YoungRunsOwn

\* A submit that runs no more deletes at most its own key.
LEMMA DeleteKeeps ==
  ASSUME PermitInv, LockInv, NEW r \in Request,
         pc[r] = "release", CompareAndDelete(r), UNCHANGED age,
         NEW l \in PC \ Run, pc' = [pc EXCEPT ![r] = l]
  PROVE  LockInv'
<1> DEFINE a == Target[r]
<1>1. a \in Agent /\ r # NoToken
  BY TargetAssumption, NoTokenAssumption
<1>2. /\ lock \in [Agent -> Request \union {NoToken}] /\ ttl \in [Agent -> Nat]
      /\ pc \in [Request -> PC] /\ age \in [Request -> Nat]
  BY DEF PermitInv, PlainTypes
<1>3. \A s \in Request : Running(s)' <=> Running(s)
  BY <1>2 DEF Running
<1>4. CASE lock[a] = r
  <2>1. /\ lock' = [lock EXCEPT ![a] = NoToken] /\ ttl' = [ttl EXCEPT ![a] = 0]
    BY <1>4 DEF CompareAndDelete
  <2>2. Expiring'
    BY <1>1, <1>2, <2>1 DEF LockInv, Expiring
  <2>3. ASSUME NEW s \in Request, Running(s), HasRedis, age[s] < Timeout[Target[s]]
        PROVE  lock'[Target[s]] = s /\ ttl'[Target[s]] = Timeout[Target[s]] - age[s]
    <3>1. Target[s] \in Agent /\ s # r
      BY <2>3, TargetAssumption DEF Running
    <3>2. lock[Target[s]] = s /\ ttl[Target[s]] = Timeout[Target[s]] - age[s]
      BY <2>3 DEF LockInv, YoungRunsOwn
    <3>3. QED
      BY <1>2, <1>4, <2>1, <3>1, <3>2
  <2>4. QED
    BY <1>3, <2>2, <2>3 DEF LockInv, YoungRunsOwn
<1>5. CASE lock[a] # r
  <2>1. UNCHANGED <<lock, ttl>>
    BY <1>5 DEF CompareAndDelete, redis
  <2>2. QED
    BY <1>3, <2>1 DEF LockInv, Expiring, YoungRunsOwn
<1>6. QED
  BY <1>4, <1>5

LEMMA MovesKeeps ==
  ASSUME PermitInv, PermitInv', LockInv, NEW r \in Request, Moves(r)
  PROVE  LockInv'
<1>1. PICK l \in PC : pc' = [pc EXCEPT ![r] = l] /\ (l \in Run <=> Running(r))
  BY DEF Moves
<1>2. pc \in [Request -> PC] /\ UNCHANGED age
  BY DEF PermitInv, PlainTypes, Moves
<1>3. CASE UNCHANGED redis
  <2>1. \A s \in Request : Running(s)' <=> Running(s)
    BY <1>1, <1>2 DEF Running
  <2>2. QED
    BY <1>2, <1>3, <2>1 DEF LockInv, Expiring, YoungRunsOwn, redis
<1>4. CASE ~Running(r) /\ lock[Target[r]] = NoToken /\ SetLock(r)
  BY <1>1, <1>2, <1>4, SetKeeps
<1>5. CASE pc[r] = "release" /\ CompareAndDelete(r)
  BY <1>1, <1>2, <1>5, DeleteKeeps DEF Running
<1>6. QED
  BY <1>3, <1>4, <1>5 DEF Moves

LEMMA StartsKeeps ==
  ASSUME PermitInv, PermitInv', LockInv, NEW r \in Request, Starts(r)
  PROVE  LockInv'
<1>1. /\ ~Running(r) /\ "setup" \in PC /\ pc' = [pc EXCEPT ![r] = "setup"]
      /\ UNCHANGED age
  BY DEF Starts
<1>2. CASE lock[Target[r]] = NoToken /\ SetLock(r)
  BY <1>1, <1>2, SetKeeps
<1>3. CASE ~HasRedis /\ UNCHANGED redis
  <2>1. \A s \in Request : ~Running(s)' => ~Running(s)
    BY <1>1 DEF Running, PermitInv, PlainTypes
  <2>2. QED
    BY <1>1, <1>3, <2>1 DEF LockInv, Expiring, YoungRunsOwn, redis
<1>4. QED
  BY <1>2, <1>3 DEF Starts

LEMMA EndsKeeps ==
  ASSUME PermitInv, LockInv, NEW r \in Request, Ends(r)
  PROVE  LockInv'
<1>1. /\ pc \in [Request -> PC] /\ age \in [Request -> Nat]
      /\ age' = [age EXCEPT ![r] = 0] /\ UNCHANGED <<lock, ttl>>
  BY DEF PermitInv, PlainTypes, Ends, redis
<1>2. PICK l \in {"release", "done"} : pc' = [pc EXCEPT ![r] = l]
  BY DEF Ends
<1>3. ~Running(r)' /\ \A s \in Request \ {r} : Running(s)' <=> Running(s)
  BY <1>1, <1>2 DEF Running
<1>4. \A s \in Request : Timeout[Target[s]] \in Nat
  BY TargetAssumption, TimeoutAssumption
<1>5. YoungRunsOwn'
  BY <1>1, <1>3, <1>4 DEF LockInv, YoungRunsOwn
<1>6. QED
  BY <1>1, <1>5 DEF LockInv, Expiring

\* A crash ends runs, and a SET on its way found no key.
LEMMA CrashKeeps ==
  ASSUME PermitInv, PermitInv', LockInv, NEW p \in Process, Crash(p)
  PROVE  LockInv'
<1> DEFINE lost == {r \in Request : Home[r] = p /\ pc[r] \in Active}
<1>1. /\ pc' = [r \in Request |-> IF r \in lost THEN "done" ELSE pc[r]]
      /\ age' = [r \in Request |-> IF r \in lost THEN 0 ELSE age[r]]
      /\ \/ UNCHANGED redis
         \/ \E r \in lost : pc[r] = "lock" /\ lock[Target[r]] = NoToken /\ SetLock(r)
  BY DEF Crash
<1>2. /\ lock \in [Agent -> Request \union {NoToken}] /\ ttl \in [Agent -> Nat]
      /\ pc \in [Request -> PC] /\ age \in [Request -> Nat]
  BY DEF PermitInv, PlainTypes
<1>3. \A s \in Request : /\ Timeout[Target[s]] \in Nat \ {0} /\ Target[s] \in Agent
                        /\ s # NoToken
  BY TargetAssumption, TimeoutAssumption, NoTokenAssumption
<1>4. \A s \in Request : IF Running(s)' THEN Running(s) /\ age'[s] = age[s]
                                          ELSE age'[s] = 0
  <2>1. \A s \in Request : Running(s)' => Running(s) /\ s \notin lost
    BY <1>1, <1>2 DEF Running
  <2>2. \A s \in Request : ~Running(s)' => s \in lost \/ ~Running(s)
    BY <1>1, <1>2 DEF Running
  <2>3. QED
    BY <1>1, <1>2, <2>1, <2>2 DEF LockInv, YoungRunsOwn
<1>5. CASE UNCHANGED redis
  BY <1>2, <1>3, <1>4, <1>5 DEF LockInv, Expiring, YoungRunsOwn, redis
<1>6. CASE \E r \in lost : pc[r] = "lock" /\ lock[Target[r]] = NoToken /\ SetLock(r)
  <2>1. PICK r \in lost : pc[r] = "lock" /\ lock[Target[r]] = NoToken /\ SetLock(r)
    BY <1>6
  <2>2. /\ lock' = [lock EXCEPT ![Target[r]] = r]
        /\ ttl' = [ttl EXCEPT ![Target[r]] = Timeout[Target[r]]]
    BY <2>1 DEF SetLock
  <2>3. Expiring'
    BY <1>2, <1>3, <2>1, <2>2 DEF LockInv, Expiring
  <2>4. ASSUME NEW s \in Request, HasRedis, Running(s)', age'[s] < Timeout[Target[s]]
        PROVE  lock'[Target[s]] = s /\ ttl'[Target[s]] = Timeout[Target[s]] - age'[s]
    <3>1. lock[Target[s]] = s /\ ttl[Target[s]] = Timeout[Target[s]] - age'[s]
      BY <1>2, <1>3, <1>4, <2>4 DEF LockInv, YoungRunsOwn
    <3>2. Target[s] # Target[r]
      BY <1>3, <2>1, <3>1
    <3>3. QED
      BY <1>2, <2>2, <3>1, <3>2
  <2>5. QED
    BY <1>2, <1>3, <1>4, <2>3, <2>4 DEF LockInv, YoungRunsOwn
<1>7. QED
  BY <1>1, <1>5, <1>6

\* Keys and runs age together.
LEMMA TickKeeps ==
  ASSUME PermitInv, LockInv, Tick
  PROVE  LockInv'
<1>1. /\ ttl' = [a \in Agent |-> IF ttl[a] > 0 THEN ttl[a] - 1 ELSE 0]
      /\ lock' = [a \in Agent |-> IF ttl[a] = 1 THEN NoToken ELSE lock[a]]
      /\ age' = [r \in Request |->
                   IF Running(r) THEN Least(age[r] + 1, Timeout[Target[r]]) ELSE age[r]]
      /\ \A r \in Request : Running(r)' <=> Running(r)
  BY DEF Tick, Running
<1>2. /\ lock \in [Agent -> Request \union {NoToken}] /\ ttl \in [Agent -> Nat]
      /\ age \in [Request -> Nat]
  BY DEF PermitInv, PlainTypes
<1>3. \A r \in Request : Timeout[Target[r]] \in Nat \ {0} /\ Target[r] \in Agent
  BY TargetAssumption, TimeoutAssumption
<1>4. Expiring'
  BY <1>1, <1>2, NoTokenAssumption DEF LockInv, Expiring
<1>5. ASSUME NEW r \in Request
      PROVE  /\ age'[r] <= Timeout[Target[r]]
             /\ ~Running(r)' => age'[r] = 0
             /\ HasRedis /\ Running(r)' /\ age'[r] < Timeout[Target[r]]
                  => lock'[Target[r]] = r /\ ttl'[Target[r]] = Timeout[Target[r]] - age'[r]
  <2>1. CASE ~Running(r)
    BY <1>1, <1>2, <1>3, <2>1 DEF LockInv, YoungRunsOwn
  <2>2. CASE Running(r)
    <3>1. age'[r] = Least(age[r] + 1, Timeout[Target[r]])
      BY <1>1, <2>2
    <3>2. age'[r] <= Timeout[Target[r]]
      BY <1>2, <1>3, <3>1 DEF Least
    <3>3. ASSUME HasRedis, age'[r] < Timeout[Target[r]]
          PROVE  lock'[Target[r]] = r /\ ttl'[Target[r]] = Timeout[Target[r]] - age'[r]
      <4>1. age'[r] = age[r] + 1 /\ age[r] < Timeout[Target[r]]
        BY <1>2, <1>3, <3>1, <3>3 DEF Least
      <4>2. lock[Target[r]] = r /\ ttl[Target[r]] = Timeout[Target[r]] - age[r]
        BY <2>2, <3>3, <4>1 DEF LockInv, YoungRunsOwn
      <4>3. QED
        BY <1>1, <1>2, <1>3, <3>3, <4>1, <4>2
    <3>4. QED
      BY <1>1, <2>2, <3>2, <3>3
  <2>3. QED
    BY <2>1, <2>2
<1>6. QED
  BY <1>4, <1>5 DEF LockInv, YoungRunsOwn

LEMMA LockInit == Init => LockInv
<1> SUFFICES ASSUME Init PROVE LockInv
  OBVIOUS
<1>1. \A r \in Request : pc[r] = "new" /\ age[r] = 0
  BY DEF Init
<1>2. \A r \in Request : Timeout[Target[r]] \in Nat
  BY TargetAssumption, TimeoutAssumption
<1>3. YoungRunsOwn
  BY <1>1, <1>2 DEF YoungRunsOwn, Running
<1>4. QED
  BY <1>3 DEF Init, LockInv, Expiring

LEMMA LockStep == PermitInv /\ PermitInv' /\ LockInv /\ [Next]_vars => LockInv'
<1> SUFFICES ASSUME PermitInv, PermitInv', LockInv, [Next]_vars PROVE LockInv'
  OBVIOUS
<1>1. CASE Rests
  BY <1>1 DEF Rests, LockInv, Expiring, YoungRunsOwn, Running
<1>2. QED
  BY <1>1, StepShape, StartsKeeps, MovesKeeps, EndsKeeps, CrashKeeps, TickKeeps

\* Keys expire and young runs own theirs, in every reachable state.
THEOREM LockInvariant == Spec => []LockInv
<1>1. QED
  BY PermitInvariant, LockInit, LockStep, PTL DEF Spec

\* The lock does what its TTL allows and no less: two runs of an agent overlap
\* only if one of them has outlived timeout_seconds, whatever crashes, failures
\* of Redis and lost replies there are, for any number of processes.
THEOREM OverlapNeedsExpiry == Spec => []OverlapOnlyAfterTtl
<1>1. LockInv /\ PermitInv => OverlapOnlyAfterTtl
  <2> SUFFICES ASSUME LockInv, PermitInv, HasRedis,
                      NEW r \in Request, NEW s \in Request,
                      r # s, Target[r] = Target[s], Running(r), Running(s),
                      age[r] # Timeout[Target[r]], age[s] # Timeout[Target[s]]
               PROVE  FALSE
    BY DEF OverlapOnlyAfterTtl
  <2>1. /\ Timeout[Target[r]] \in Nat /\ Timeout[Target[s]] \in Nat
        /\ age[r] \in Nat /\ age[s] \in Nat
    BY TargetAssumption, TimeoutAssumption DEF PermitInv, PlainTypes
  <2>2. lock[Target[r]] = r /\ lock[Target[s]] = s
    BY <2>1 DEF LockInv, YoungRunsOwn
  <2>3. QED
    BY <2>2
<1>2. QED
  BY <1>1, LockInvariant, PermitInvariant, PTL

Kept ==
  \A a \in Agent :
    lock[a] # NoToken /\ lock'[a] # lock[a]
      => lock'[a] = NoToken /\ (ttl[a] = 1 \/ pc[lock[a]] = "release")

\* Nobody takes or deletes the key of another: until it expires, only the submit
\* that set it deletes it, though it may run longer than the key lives.
THEOREM ForeignLocksAreKept == Spec => ForeignLockKept
<1>1. ASSUME PermitInv, NEW r \in Request, Starts(r) \/ Moves(r) \/ Ends(r)
      PROVE  Kept
  <2>1. lock \in [Agent -> Request \union {NoToken}] /\ Target[r] \in Agent
    BY <1>1, TargetAssumption DEF PermitInv, PlainTypes
  <2>2. CASE UNCHANGED redis
    BY <2>2 DEF Kept, redis
  <2>3. CASE lock[Target[r]] = NoToken /\ SetLock(r)
    BY <2>1, <2>3 DEF Kept, SetLock
  <2>4. CASE pc[r] = "release" /\ CompareAndDelete(r)
    BY <2>1, <2>4 DEF Kept, CompareAndDelete, redis
  <2>5. QED
    BY <1>1, <2>2, <2>3, <2>4 DEF Starts, Moves, Ends
<1>2. ASSUME PermitInv, NEW p \in Process, Crash(p)
      PROVE  Kept
  <2>1. lock \in [Agent -> Request \union {NoToken}]
    BY <1>2 DEF PermitInv, PlainTypes
  <2>2. CASE UNCHANGED redis
    BY <2>2 DEF Kept, redis
  <2>3. ASSUME NEW r \in Request, lock[Target[r]] = NoToken, SetLock(r)
        PROVE  Kept
    BY <2>1, <2>3, TargetAssumption DEF Kept, SetLock
  <2>4. QED
    BY <1>2, <2>2, <2>3 DEF Crash
<1>3. ASSUME PermitInv, Tick
      PROVE  Kept
  BY <1>3 DEF Kept, Tick, PermitInv, PlainTypes
<1>4. ASSUME Rests
      PROVE  Kept
  BY <1>4 DEF Kept, Rests
<1>5. PermitInv /\ [Next]_vars => Kept
  BY <1>1, <1>2, <1>3, <1>4, StepShape
<1>6. Spec => [][Kept]_vars
  BY <1>5, PermitInvariant, PTL DEF Spec
<1>7. QED
  BY <1>6 DEF ForeignLockKept, Kept
-----------------------------------------------------------------------------
(* The gauge.                                                              *)

LEMMA InFlightFinite ==
  ASSUME NEW p \in Process
  PROVE  IsFiniteSet(InFlight(p)) /\ Cardinality(InFlight(p)) \in Nat
<1>1. InFlight(p) \subseteq Request
  BY DEF InFlight
<1>2. QED
  BY <1>1, RequestsFinite, FS_Subset, FS_CardinalityType

\* One run more or less in progress, and the runs of other processes as before.
LEMMA InFlightChange ==
  ASSUME PermitInv, NEW r \in Request, NEW l \in PC, pc' = [pc EXCEPT ![r] = l],
         NEW p \in Process
  PROVE  InFlight(p)' = IF Home[r] # p THEN InFlight(p)
                        ELSE IF l \in Run THEN InFlight(p) \union {r}
                                          ELSE InFlight(p) \ {r}
<1>1. \A q \in Request : pc'[q] = IF q = r THEN l ELSE pc[q]
  BY DEF PermitInv, PlainTypes
<1>2. QED
  BY <1>1 DEF InFlight, Running

\* Gauge(r, 1) goes with a run that begins, Gauge(r, -1) with one that ends.
LEMMA GaugeFollows ==
  ASSUME PermitInv, GaugeExact, NEW r \in Request, Starts(r) \/ Moves(r) \/ Ends(r)
  PROVE  GaugeExact'
<1> SUFFICES ASSUME NEW p \in Process
             PROVE  inflight'[p] = Cardinality(InFlight(p)')
  BY DEF GaugeExact
<1>1. /\ Home[r] \in Process /\ inflight \in [Process -> Int]
      /\ inflight[p] = Cardinality(InFlight(p))
  BY HomeAssumption DEF PermitInv, PlainTypes, GaugeExact
<1>2. IsFiniteSet(InFlight(p)) /\ Cardinality(InFlight(p)) \in Nat
  BY InFlightFinite
<1>3. r \in InFlight(p) <=> Home[r] = p /\ Running(r)
  BY DEF InFlight
<1>4. CASE Starts(r)
  <2>1. pc' = [pc EXCEPT ![r] = "setup"] /\ ~Running(r) /\ "setup" \in Run \intersect PC
    BY <1>4 DEF Starts
  <2>2. inflight' = [inflight EXCEPT ![Home[r]] = inflight[Home[r]] + 1]
    BY <1>1, <1>4 DEF Starts, Gauge
  <2>3. InFlight(p)' = IF Home[r] # p THEN InFlight(p) ELSE InFlight(p) \union {r}
    BY <2>1, InFlightChange
  <2>4. Home[r] = p => Cardinality(InFlight(p) \union {r}) = Cardinality(InFlight(p)) + 1
    BY <1>2, <1>3, <2>1, FS_AddElement
  <2>5. QED
    BY <1>1, <2>2, <2>3, <2>4
<1>5. CASE Moves(r)
  <2>1. PICK l \in PC : pc' = [pc EXCEPT ![r] = l] /\ (l \in Run <=> Running(r))
    BY <1>5 DEF Moves
  <2>2. InFlight(p)' = InFlight(p)
    <3>1. InFlight(p)' = IF Home[r] # p THEN InFlight(p)
                         ELSE IF l \in Run THEN InFlight(p) \union {r}
                                           ELSE InFlight(p) \ {r}
      BY <2>1, InFlightChange
    <3>2. Home[r] = p => (l \in Run <=> r \in InFlight(p))
      BY <1>3, <2>1
    <3>3. QED
      BY <3>1, <3>2
  <2>3. QED
    BY <1>1, <1>5, <2>2 DEF Moves
<1>6. CASE Ends(r)
  <2>1. PICK l \in PC \ Run : pc' = [pc EXCEPT ![r] = l]
    BY <1>6 DEF Ends
  <2>2. inflight' = [inflight EXCEPT ![Home[r]] = inflight[Home[r]] + (-1)] /\ Running(r)
    BY <1>1, <1>6 DEF Ends, Gauge
  <2>3. InFlight(p)' = IF Home[r] # p THEN InFlight(p) ELSE InFlight(p) \ {r}
    BY <2>1, InFlightChange
  <2>4. Home[r] = p => Cardinality(InFlight(p) \ {r}) = Cardinality(InFlight(p)) - 1
    BY <1>2, <1>3, <2>2, FS_RemoveElement
  <2>5. QED
    BY <1>1, <1>2, <2>2, <2>3, <2>4
<1>7. QED
  BY <1>4, <1>5, <1>6

LEMMA GaugeStep == PermitInv /\ GaugeExact /\ [Next]_vars => GaugeExact'
<1> SUFFICES ASSUME PermitInv, GaugeExact, [Next]_vars PROVE GaugeExact'
  OBVIOUS
<1>1. ASSUME NEW p \in Process, Crash(p)
      PROVE  GaugeExact'
  <2> SUFFICES ASSUME NEW q \in Process
               PROVE  inflight'[q] = Cardinality(InFlight(q)')
    BY DEF GaugeExact
  <2>1. /\ inflight' = [inflight EXCEPT ![p] = 0] /\ inflight \in [Process -> Int]
        /\ \A r \in Request :
             pc'[r] = IF Home[r] = p /\ pc[r] \in Active THEN "done" ELSE pc[r]
        /\ inflight[q] = Cardinality(InFlight(q))
    BY <1>1 DEF Crash, PermitInv, PlainTypes, GaugeExact
  <2>2. InFlight(q)' = IF q = p THEN {} ELSE InFlight(q)
    BY <2>1 DEF InFlight, Running
  <2>3. QED
    BY <2>1, <2>2, FS_EmptySet
<1>2. CASE Tick \/ Rests
  BY <1>2 DEF Tick, Rests, GaugeExact, InFlight, Running
<1>3. QED
  BY <1>1, <1>2, StepShape, GaugeFollows

\* AGENT_INFLIGHT is exact on every path through submit(): whatever a run ends
\* with, it is counted down once, so the gauge never drifts or goes negative.
THEOREM GaugeIsExact == Spec => []GaugeExact
<1>1. Init => GaugeExact
  <2> SUFFICES ASSUME Init, NEW p \in Process PROVE inflight[p] = Cardinality(InFlight(p))
    BY DEF GaugeExact
  <2>1. InFlight(p) = {} /\ inflight[p] = 0
    BY DEF Init, InFlight, Running
  <2>2. QED
    BY <2>1, FS_EmptySet
<1>2. QED
  BY <1>1, GaugeStep, PermitInvariant, PTL DEF Spec
-----------------------------------------------------------------------------
(* RunExecutor implements RunAdmission.                                    *)

\* A submit for an agent the executor was not built with never goes on.
KnownOnly == \A r \in Request : pc[r] \in Active => Target[r] \in Definitions

\* Where a submit may go from where it is.
Advances(r, l) ==
  \/ pc[r] = "new" /\ Target[r] \in Definitions /\ l \in {"gwait", "await", "lock", "setup"}
  \/ pc[r] \in {"gwait", "await"} /\ l \in {"await", "lock", "setup"}
  \/ pc[r] = "lock" /\ l = "setup"
  \/ pc[r] \in Run /\ l \in Run
  \/ l = "done"
  \/ pc[r] \in Run /\ l = "release"

Moved(r) == \E l \in PC : pc' = [pc EXCEPT ![r] = l] /\ Advances(r, l)

LEMMA PermitsAdvance ==
  ASSUME NEW r \in Request, PastPermits(r) \/ AskAgentPermit(r)
  PROVE  \E l \in {"await", "lock", "setup"} :
           pc' = [pc EXCEPT ![r] = l] /\ (PastPermits(r) => l # "await")
<1>1. PastPermits(r) => \E l \in {"lock", "setup"} : pc' = [pc EXCEPT ![r] = l]
  BY DEF PastPermits, Goto
<1>2. AskAgentPermit(r) => PastPermits(r) \/ pc' = [pc EXCEPT ![r] = "await"]
  BY DEF AskAgentPermit, Goto
<1>3. QED
  BY <1>1, <1>2

\* Every step of a submit takes it forward.
LEMMA SubmitAdvances ==
  ASSUME NEW r \in Request,
         \/ SkipUnknown(r) \/ Submit(r) \/ Step(r)
         \/ LockError(r) \/ LockRefusedByRetry(r)
         \/ LlmEnds(r) \/ ReleaseFails(r) \/ Cancel(r)
  PROVE  Moved(r)
<1>1. CASE Submit(r)
  <2>1. pc[r] = "new" /\ Target[r] \in Definitions
    BY <1>1 DEF Submit
  <2>2. pc' = [pc EXCEPT ![r] = "gwait"] \/ AskAgentPermit(r)
    BY <1>1 DEF Submit, Goto
  <2>3. \E l \in {"gwait", "await", "lock", "setup"} : pc' = [pc EXCEPT ![r] = l]
    BY <2>2, PermitsAdvance
  <2>4. QED
    BY <2>1, <2>3 DEF Moved, Advances
<1>2. CASE WakeGlobal(r) \/ WakeAgent(r)
  <2>1. pc[r] \in {"gwait", "await"} /\ (PastPermits(r) \/ AskAgentPermit(r))
    BY <1>2 DEF WakeGlobal, WakeAgent
  <2>2. \E l \in {"await", "lock", "setup"} : pc' = [pc EXCEPT ![r] = l]
    BY <2>1, PermitsAdvance
  <2>3. QED
    BY <2>1, <2>2 DEF Moved, Advances
<1>3. CASE LockAcquired(r) \/ SetupDone(r) \/ LlmEnds(r) \/ LlmTimeout(r)
  BY <1>3 DEF LockAcquired, SetupDone, LlmEnds, LlmTimeout, Goto, Moved, Advances
<1>4. CASE SetupFails(r) \/ PersistDone(r) \/ CancelRun(r)
  <2>1. pc[r] \in Run /\ \E l \in {"release", "done"} : pc' = [pc EXCEPT ![r] = l]
    BY <1>4 DEF SetupFails, PersistDone, CancelRun, Running, Finish, Leave, Goto
  <2>2. QED
    BY <2>1 DEF Moved, Advances
<1>5. CASE \/ SkipUnknown(r) \/ LockRefused(r) \/ LockError(r) \/ LockRefusedByRetry(r)
           \/ ReleaseLock(r) \/ ReleaseFails(r) \/ CancelLock(r) \/ CancelRelease(r)
           \/ CancelGlobalWait(r) \/ CancelAgentWait(r)
  <2>1. pc' = [pc EXCEPT ![r] = "done"]
    BY <1>5 DEF SkipUnknown, LockRefused, LockError, LockRefusedByRetry, ReleaseLock,
                ReleaseFails, CancelLock, CancelRelease, CancelGlobalWait, CancelAgentWait,
                Leave, Goto
  <2>2. QED
    BY <2>1 DEF Moved, Advances
<1>6. QED
  BY <1>1, <1>2, <1>3, <1>4, <1>5 DEF Step, Cancel

\* All a step does to the phases: one submit moves, a process dies, or nothing.
LEMMA StepAdvances ==
  ASSUME [Next]_vars
  PROVE  \/ \E r \in Request : Moved(r)
         \/ \E p \in Process : Crash(p)
         \/ UNCHANGED pc
<1>1. ASSUME NEW p \in Process, Stop(p) \/ Restart(p)
      PROVE  UNCHANGED pc
  BY <1>1 DEF Stop, Restart
<1>2. QED
  BY <1>1, SubmitAdvances DEF Next, Tick, Quiet, vars

LEMMA KnownStep == PermitInv /\ KnownOnly /\ [Next]_vars => KnownOnly'
<1> SUFFICES ASSUME PermitInv, KnownOnly, [Next]_vars PROVE KnownOnly'
  OBVIOUS
<1>1. pc \in [Request -> PC]
  BY DEF PermitInv, PlainTypes
<1>2. ASSUME NEW r \in Request, Moved(r)
      PROVE  KnownOnly'
  BY <1>1, <1>2 DEF Moved, Advances, KnownOnly
<1>3. ASSUME NEW p \in Process, Crash(p)
      PROVE  KnownOnly'
  BY <1>1, <1>3 DEF Crash, KnownOnly
<1>4. CASE UNCHANGED pc
  BY <1>4 DEF KnownOnly
<1>5. QED
  BY <1>2, <1>3, <1>4, StepAdvances

\* The state of RunAdmission that the submits map to.
Phases == [r \in Request |-> Phase(r)]
PhaseAt(l) ==
  CASE l = "new" -> "idle"
    [] l \in {"gwait", "await", "lock"} -> "queued"
    [] l \in Run -> "running"
    [] OTHER -> "over"

LEMMA PhasesMove ==
  ASSUME PermitInv, NEW r \in Request, NEW l \in PC, pc' = [pc EXCEPT ![r] = l]
  PROVE  Phases' = [Phases EXCEPT ![r] = PhaseAt(l)]
<1>1. \A q \in Request : pc'[q] = IF q = r THEN l ELSE pc[q]
  BY DEF PermitInv, PlainTypes
<1>2. \A q \in Request : Phase(q)' = IF q = r THEN PhaseAt(l) ELSE Phase(q)
  BY <1>1 DEF Phase, PhaseAt
<1>3. QED
  BY <1>2 DEF Phases

\* The running requests of RunAdmission are the runs in progress.
LEMMA RunningIsInFlight ==
  ASSUME NEW p \in Process
  PROVE  {r \in Request : Home[r] = p /\ Phases[r] = "running"} = InFlight(p)
<1>1. \A r \in Request : Phases[r] = "running" <=> pc[r] \in Run
  BY DEF Phases, Phase
<1>2. QED
  BY <1>1 DEF InFlight, Running

\* A run that begins had room: with it, the limits are kept.
LEMMA RoomBefore ==
  ASSUME PermitInv, ConcurrencyCaps', NEW r \in Request, ~Running(r),
         pc' = [pc EXCEPT ![r] = "setup"]
  PROVE  /\ Cardinality(InFlight(Home[r])) < GlobalLimit
         /\ Cardinality({q \in InFlight(Home[r]) : Target[q] = Target[r]}) < MaxRuns[Target[r]]
<1> DEFINE p == Home[r]
           a == Target[r]
           F == InFlight(p)
           S == {q \in F : Target[q] = a}
<1>1. p \in Process /\ a \in Agent /\ GlobalLimit \in Nat /\ MaxRuns[a] \in Nat
  BY HomeAssumption, TargetAssumption, LimitsAssumption
<1>2. F' = F \union {r} /\ r \notin F
  <2>1. "setup" \in PC /\ "setup" \in Run
    OBVIOUS
  <2>2. F' = F \union {r}
    BY <1>1, <2>1, InFlightChange
  <2>3. QED
    BY <2>2 DEF InFlight
<1>3. {q \in F' : Target[q] = a} = S \union {r} /\ r \notin S
  BY <1>2
<1>4. IsFiniteSet(F) /\ Cardinality(F) \in Nat
  BY <1>1, InFlightFinite
<1>5. IsFiniteSet(S) /\ Cardinality(S) \in Nat
  BY <1>4, FS_Subset, FS_CardinalityType
<1>6. /\ Cardinality(F') <= GlobalLimit
      /\ Cardinality({q \in F' : Target[q] = a}) <= MaxRuns[a]
  BY <1>1 DEF ConcurrencyCaps
<1> HIDE DEF F, S
<1>7. Cardinality(F \union {r}) = Cardinality(F) + 1
  BY <1>2, <1>4, FS_AddElement
<1>8. Cardinality(S \union {r}) = Cardinality(S) + 1
  BY <1>3, <1>5, FS_AddElement
<1>9. Cardinality(F) < GlobalLimit /\ Cardinality(S) < MaxRuns[a]
  BY <1>1, <1>2, <1>3, <1>4, <1>5, <1>6, <1>7, <1>8
<1>10. QED
  BY <1>9 DEF F, S

\* A submit that moves is Queue, Start or End of RunAdmission, or is not seen.
LEMMA MovedIsAdmission ==
  ASSUME PermitInv, ConcurrencyCaps', KnownOnly, NEW r \in Request, Moved(r)
  PROVE  Admission!Next \/ Phases' = Phases
<1>1. PICK l \in PC : pc' = [pc EXCEPT ![r] = l] /\ Advances(r, l)
  BY DEF Moved
<1>2. Phases' = [Phases EXCEPT ![r] = PhaseAt(l)] /\ Phases[r] = Phase(r)
  BY <1>1, PhasesMove DEF Phases
<1>3. Phases[r] = PhaseAt(l) => Phases' = Phases
  BY <1>2 DEF Phases
<1>4. pc[r] \in Active => Target[r] \in Definitions
  BY DEF KnownOnly
<1>5. CASE l \in {"gwait", "await", "lock"} /\ pc[r] = "new"
  <2>1. Admission!Queue(r)
    BY <1>1, <1>2, <1>5 DEF Admission!Queue, Advances, Phase, PhaseAt, Phases
  <2>2. QED
    BY <2>1 DEF Admission!Next
<1>6. CASE l = "setup" /\ pc[r] \in {"new", "gwait", "await", "lock"}
  <2>1. Target[r] \in Definitions /\ Phases[r] \in {"idle", "queued"} /\ ~Running(r)
    BY <1>1, <1>2, <1>4, <1>6 DEF Advances, Phase, Running
  <2>2. /\ Cardinality(InFlight(Home[r])) < GlobalLimit
        /\ Cardinality({q \in InFlight(Home[r]) : Target[q] = Target[r]}) < MaxRuns[Target[r]]
    BY <1>1, <1>6, <2>1, RoomBefore
  <2>3. Admission!At(Home[r], "running") = InFlight(Home[r])
    BY HomeAssumption, RunningIsInFlight DEF Admission!At, Phases
  <2>4. Admission!Room(Home[r], Target[r])
    BY <2>2, <2>3 DEF Admission!Room, Admission!Cardinality, Cardinality
  <2>5. Admission!Start(r)
    BY <1>2, <1>6, <2>1, <2>4 DEF Admission!Start, PhaseAt, Phases
  <2>6. QED
    BY <2>5 DEF Admission!Next
<1>7. CASE l \in {"done", "release"} /\ pc[r] \notin {"done", "release"}
  <2>1. Admission!End(r)
    BY <1>2, <1>7 DEF Admission!End, Phase, PhaseAt, Phases, PermitInv, PlainTypes
  <2>2. QED
    BY <2>1 DEF Admission!Next
<1>8. CASE \/ l \in {"await", "lock"} /\ pc[r] \in {"gwait", "await"}
           \/ l \in Run /\ pc[r] \in Run
           \/ l = "done" /\ pc[r] \in {"done", "release"}
  BY <1>2, <1>3, <1>8 DEF Phase, PhaseAt
<1>9. QED
  BY <1>1, <1>5, <1>6, <1>7, <1>8 DEF Advances

\* A crash is the death of the process and of all it accepted.
LEMMA CrashIsKill ==
  ASSUME PermitInv, NEW p \in Process, Crash(p)
  PROVE  Admission!Kill(p)
<1>1. \A r \in Request : pc'[r] = IF Home[r] = p /\ pc[r] \in Active THEN "done" ELSE pc[r]
  BY DEF Crash
<1>2. \A r \in Request :
        Phase(r)' = IF Home[r] = p /\ Phase(r) \in {"queued", "running"} THEN "over"
                                                                        ELSE Phase(r)
  BY <1>1 DEF Phase
<1>3. QED
  BY <1>2 DEF Admission!Kill, Admission!At

\* The semaphores, the lock and the cancellations of RunExecutor keep what
\* RunAdmission promises to those who submit: a request runs at most once, only
\* for a known agent, only while its process has room, and not after it is over.
THEOREM ExecutorImplementsAdmission == Spec => ImplementsAdmission
<1>1. Init => Admission!Init
  BY DEF Init, Admission!Init, Phase
<1>2. Init => KnownOnly
  BY DEF Init, KnownOnly
<1>3. PermitInv /\ ConcurrencyCaps' /\ KnownOnly /\ [Next]_vars
        => Admission!Next \/ Phases' = Phases
  <2>1. ASSUME PermitInv, UNCHANGED pc
        PROVE  Phases' = Phases
    BY <2>1 DEF Phases, Phase
  <2>2. ASSUME PermitInv, NEW p \in Process, Crash(p)
        PROVE  Admission!Next
    BY <2>2, CrashIsKill DEF Admission!Next
  <2>3. QED
    BY <2>1, <2>2, MovedIsAdmission, StepAdvances
<1>4. PermitInv /\ ConcurrencyCaps' /\ KnownOnly /\ [Next]_vars
        => [Admission!Next]_[r \in Request |-> Phase(r)]
  BY <1>3 DEF Phases
<1>5. QED
  BY <1>1, <1>2, <1>4, KnownStep, PermitInvariant, CapsAreKept, PTL
     DEF Spec, ImplementsAdmission, Admission!Spec
=============================================================================
