------------------------- MODULE RunExecutorProofs -------------------------
(***************************************************************************)
(* Theorems about RunExecutor, for every set of processes, agents and      *)
(* requests and for all limits.                                            *)
(***************************************************************************)
EXTENDS RunExecutor, AsyncSemaphoreProofs

\* The conjuncts of TypeOK that are not about semaphores.
PlainTypes ==
  /\ procState \in [Process -> {"up", "stopping", "down"}]
  /\ inflight \in [Process -> Int]
  /\ lock \in [Agent -> Request \union {NoToken}]
  /\ ttl \in [Agent -> Nat]
  /\ pc \in [Request -> PC]
  /\ outcome \in [Request -> Outcome]
  /\ spent \in [Request -> Nat]
  /\ age \in [Request -> Nat]

GlobalWaiters(p) == {r \in Request : Home[r] = p /\ pc[r] = "gwait"}
AgentWaiters(p, a) == {r \in Request : Home[r] = p /\ Target[r] = a /\ pc[r] = "await"}

\* Every semaphore is sound for the submits that hold it by their pc, and
\* knows exactly the submits that wait for it by their pc.
GlobalOK ==
  /\ globalSem \in [Process -> Semaphores(Request)]
  /\ \A p \in Process : /\ Sound(globalSem[p], Request, GlobalHolders(p), GlobalLimit)
                        /\ Waiting(globalSem[p]) = GlobalWaiters(p)
AgentOK ==
  /\ agentSem \in [Process -> [Agent -> Semaphores(Request)]]
  /\ \A p \in Process, a \in Agent :
       /\ Sound(agentSem[p][a], Request, AgentHolders(p, a), MaxRuns[a])
       /\ Waiting(agentSem[p][a]) = AgentWaiters(p, a)

\* A dead process has no open submit: Restart may start from fresh semaphores.
DownIsQuiet ==
  \A r \in Request : procState[Home[r]] = "down" => pc[r] \notin Active

PermitInv == PlainTypes /\ GlobalOK /\ AgentOK /\ DownIsQuiet

\* What a step does: it keeps the invariant, and every semaphore gives its
\* permits out in order of arrival.
GlobalInOrder ==
  \A p \in Process :
    GrantsInOrder(globalSem[p], globalSem'[p], GlobalHolders(p)' \ GlobalHolders(p))
AgentsInOrder ==
  \A p \in Process, a \in Agent :
    GrantsInOrder(agentSem[p][a], agentSem'[p][a], AgentHolders(p, a)' \ AgentHolders(p, a))

GlobalKept == GlobalOK' /\ GlobalInOrder
AgentKept == AgentOK' /\ AgentsInOrder
PermitsKept == PlainTypes' /\ GlobalKept /\ AgentKept /\ DownIsQuiet'

USE DEF PC, Active, Inside, Run, Outcome
-----------------------------------------------------------------------------
(* One submit moves and one semaphore changes: the others are untouched.   *)

\* A semaphore that keeps its queue and its woken tasks, or forgets them.
LEMMA NothingGranted ==
  ASSUME NEW s, NEW H, NEW limit, Sound(s, Request, H, limit),
         NEW z, z = s \/ z.woken = {}, NEW granted, granted = {}
  PROVE  GrantsInOrder(s, z, granted)
  BY DEF Sound, Apart, Sleepers, GrantsInOrder

LEMMA GlobalChange ==
  ASSUME PlainTypes, GlobalOK, NEW r \in Request, NEW l \in PC,
         pc' = [pc EXCEPT ![r] = l],
         NEW s, globalSem' = [globalSem EXCEPT ![Home[r]] = s],
         Sound(s, Request, GlobalHolders(Home[r])', GlobalLimit),
         Waiting(s) = GlobalWaiters(Home[r])',
         GrantsInOrder(globalSem[Home[r]], s, GlobalHolders(Home[r])' \ GlobalHolders(Home[r]))
  PROVE  GlobalKept
<1>1. Home[r] \in Process /\ s \in Semaphores(Request)
  BY HomeAssumption DEF Sound
<1>2. globalSem' \in [Process -> Semaphores(Request)]
  BY <1>1 DEF GlobalOK
<1>3. ASSUME NEW p \in Process
      PROVE  /\ Sound(globalSem'[p], Request, GlobalHolders(p)', GlobalLimit)
             /\ Waiting(globalSem'[p]) = GlobalWaiters(p)'
             /\ GrantsInOrder(globalSem[p], globalSem'[p], GlobalHolders(p)' \ GlobalHolders(p))
  <2>1. CASE p = Home[r]
    <3>1. globalSem'[p] = s
      BY <2>1, <1>1 DEF GlobalOK
    <3>2. QED
      BY <2>1, <3>1
  <2>2. CASE p # Home[r]
    <3>1. globalSem'[p] = globalSem[p]
      BY <2>2, <1>1 DEF GlobalOK
    <3>2. GlobalHolders(p)' = GlobalHolders(p) /\ GlobalWaiters(p)' = GlobalWaiters(p)
      BY <2>2 DEF PlainTypes, GlobalHolders, GlobalWaiters
    <3>3. Sound(globalSem[p], Request, GlobalHolders(p), GlobalLimit)
      BY DEF GlobalOK
    <3>4. QED
      BY <3>1, <3>2, <3>3, NothingGranted DEF GlobalOK
  <2>3. QED
    BY <2>1, <2>2
<1>4. QED
  BY <1>2, <1>3 DEF GlobalOK, GlobalKept, GlobalInOrder

LEMMA AgentChange ==
  ASSUME PlainTypes, AgentOK, NEW r \in Request, NEW l \in PC,
         pc' = [pc EXCEPT ![r] = l],
         NEW s, agentSem' = [agentSem EXCEPT ![Home[r]][Target[r]] = s],
         Sound(s, Request, AgentHolders(Home[r], Target[r])', MaxRuns[Target[r]]),
         Waiting(s) = AgentWaiters(Home[r], Target[r])',
         GrantsInOrder(agentSem[Home[r]][Target[r]], s,
                       AgentHolders(Home[r], Target[r])' \ AgentHolders(Home[r], Target[r]))
  PROVE  AgentKept
<1>1. Home[r] \in Process /\ Target[r] \in Agent /\ s \in Semaphores(Request)
  BY HomeAssumption, TargetAssumption DEF Sound
<1>2. agentSem' \in [Process -> [Agent -> Semaphores(Request)]]
  BY <1>1 DEF AgentOK
<1>3. ASSUME NEW p \in Process, NEW a \in Agent
      PROVE  /\ Sound(agentSem'[p][a], Request, AgentHolders(p, a)', MaxRuns[a])
             /\ Waiting(agentSem'[p][a]) = AgentWaiters(p, a)'
             /\ GrantsInOrder(agentSem[p][a], agentSem'[p][a],
                              AgentHolders(p, a)' \ AgentHolders(p, a))
  <2>1. CASE p = Home[r] /\ a = Target[r]
    <3>1. agentSem'[p][a] = s
      BY <2>1, <1>1 DEF AgentOK
    <3>2. QED
      BY <2>1, <3>1
  <2>2. CASE ~(p = Home[r] /\ a = Target[r])
    <3>1. agentSem'[p][a] = agentSem[p][a]
      BY <2>2, <1>1 DEF AgentOK
    <3>2. AgentHolders(p, a)' = AgentHolders(p, a) /\ AgentWaiters(p, a)' = AgentWaiters(p, a)
      BY <2>2 DEF PlainTypes, AgentHolders, AgentWaiters
    <3>3. Sound(agentSem[p][a], Request, AgentHolders(p, a), MaxRuns[a])
      BY DEF AgentOK
    <3>4. QED
      BY <3>1, <3>2, <3>3, NothingGranted DEF AgentOK
  <2>3. QED
    BY <2>1, <2>2
<1>4. QED
  BY <1>2, <1>3 DEF AgentOK, AgentKept, AgentsInOrder

\* No semaphore changes and nobody starts or stops waiting or holding.
LEMMA GlobalFrame ==
  ASSUME GlobalOK, UNCHANGED globalSem,
         \A r \in Request : /\ pc'[r] \in Inside \union {"await"} <=> pc[r] \in Inside \union {"await"}
                            /\ pc'[r] = "gwait" <=> pc[r] = "gwait"
  PROVE  GlobalKept
<1>1. \A p \in Process : GlobalHolders(p)' = GlobalHolders(p) /\ GlobalWaiters(p)' = GlobalWaiters(p)
  BY DEF GlobalHolders, GlobalWaiters
<1>2. \A p \in Process : GrantsInOrder(globalSem[p], globalSem'[p], GlobalHolders(p)' \ GlobalHolders(p))
  BY <1>1, NothingGranted DEF GlobalOK
<1>3. QED
  BY <1>1, <1>2 DEF GlobalOK, GlobalKept, GlobalInOrder

LEMMA AgentFrame ==
  ASSUME AgentOK, UNCHANGED agentSem,
         \A r \in Request : /\ pc'[r] \in Inside <=> pc[r] \in Inside
                            /\ pc'[r] = "await" <=> pc[r] = "await"
  PROVE  AgentKept
<1>1. \A p \in Process, a \in Agent :
        AgentHolders(p, a)' = AgentHolders(p, a) /\ AgentWaiters(p, a)' = AgentWaiters(p, a)
  BY DEF AgentHolders, AgentWaiters
<1>2. \A p \in Process, a \in Agent :
        GrantsInOrder(agentSem[p][a], agentSem'[p][a], AgentHolders(p, a)' \ AgentHolders(p, a))
  BY <1>1, NothingGranted DEF AgentOK
<1>3. QED
  BY <1>1, <1>2 DEF AgentOK, AgentKept, AgentsInOrder

\* A submit starts to wait for the global permit.
LEMMA GlobalEnqueue ==
  ASSUME PlainTypes, GlobalOK, NEW r \in Request, NEW l \in PC, l = "gwait",
         Locked(globalSem[Home[r]]), pc[r] \notin Inside \union {"await", "gwait"},
         pc' = [pc EXCEPT ![r] = l],
         globalSem' = [globalSem EXCEPT ![Home[r]] = Enqueue(@, r)]
  PROVE  GlobalKept
<1> DEFINE s == globalSem[Home[r]]
           H == GlobalHolders(Home[r])
           W == GlobalWaiters(Home[r])
<1>1. /\ Home[r] \in Process /\ Target[r] \in Agent /\ H \in SUBSET Request
      /\ Sound(s, Request, H, GlobalLimit) /\ Waiting(s) = W
  BY HomeAssumption, TargetAssumption DEF GlobalOK, GlobalHolders
<1>2. globalSem' = [globalSem EXCEPT ![Home[r]] = Enqueue(s, r)]
  BY <1>1 DEF GlobalOK
<1>3. H' = H /\ W' = W \union {r}
  BY <1>1 DEF PlainTypes, GlobalHolders, GlobalWaiters
<1>4. r \in Request \ H /\ r \notin W
  BY <1>1 DEF PlainTypes, GlobalHolders, GlobalWaiters
<1> HIDE DEF s, H, W
<1>5. /\ Sound(Enqueue(s, r), Request, H, GlobalLimit)
      /\ Waiting(Enqueue(s, r)) = W \union {r}
      /\ InOrder(s, Enqueue(s, r))
  BY <1>1, <1>4, RequestsFinite, EnqueueSound DEF s
<1>6. GrantsInOrder(s, Enqueue(s, r), (H) \ H)
  BY <1>4, <1>5 DEF InOrder, GrantsInOrder
<1>7. QED
  BY <1>2, <1>3, <1>5, <1>6, GlobalChange DEF s, H, W

\* A submit gets the global permit without waiting.
LEMMA GlobalTake ==
  ASSUME PlainTypes, GlobalOK, NEW r \in Request, NEW l \in Inside \union {"await"},
         ~Locked(globalSem[Home[r]]), pc[r] \notin Inside \union {"await", "gwait"},
         pc' = [pc EXCEPT ![r] = l],
         globalSem' = [globalSem EXCEPT ![Home[r]] = Take(@)]
  PROVE  GlobalKept
<1> DEFINE s == globalSem[Home[r]]
           H == GlobalHolders(Home[r])
           W == GlobalWaiters(Home[r])
<1>1. /\ Home[r] \in Process /\ Target[r] \in Agent /\ H \in SUBSET Request
      /\ Sound(s, Request, H, GlobalLimit) /\ Waiting(s) = W
  BY HomeAssumption, TargetAssumption DEF GlobalOK, GlobalHolders
<1>2. globalSem' = [globalSem EXCEPT ![Home[r]] = Take(s)]
  BY <1>1 DEF GlobalOK
<1>3. H' = H \union {r} /\ W' = W
  BY <1>1 DEF PlainTypes, GlobalHolders, GlobalWaiters
<1>4. r \in Request \ H /\ r \notin W
  BY <1>1 DEF PlainTypes, GlobalHolders, GlobalWaiters
<1> HIDE DEF s, H, W
<1>5. /\ Sound(Take(s), Request, H \union {r}, GlobalLimit)
      /\ Waiting(Take(s)) = W
      /\ InOrder(s, Take(s))
  BY <1>1, <1>4, RequestsFinite, TakeSound DEF s
<1>6. GrantsInOrder(s, Take(s), (H \union {r}) \ H)
  BY <1>5 DEF InOrder, GrantsInOrder, Locked, s
<1>7. QED
  BY <1>2, <1>3, <1>5, <1>6, GlobalChange DEF s, H, W

\* A resume, for the requests of this module.
LEMMA ResumeHere ==
  ASSUME NEW s, NEW H \in SUBSET Request, NEW limit, Sound(s, Request, H, limit),
         NEW t, t \in s.woken
  PROVE  /\ Sound(Resume(s, t), Request, H \union {t}, limit)
         /\ Waiting(Resume(s, t)) = Waiting(s) \ {t}
         /\ InOrder(s, Resume(s, t))
  BY RequestsFinite, ResumeSound

\* A submit that waited goes on with the global permit.
LEMMA GlobalResume ==
  ASSUME PlainTypes, GlobalOK, NEW r \in Request, NEW l \in Inside \union {"await"},
         r \in globalSem[Home[r]].woken, pc[r] = "gwait",
         pc' = [pc EXCEPT ![r] = l],
         globalSem' = [globalSem EXCEPT ![Home[r]] = Resume(@, r)]
  PROVE  GlobalKept
<1> DEFINE s == globalSem[Home[r]]
           H == GlobalHolders(Home[r])
           W == GlobalWaiters(Home[r])
<1>1. /\ Home[r] \in Process /\ Target[r] \in Agent /\ H \in SUBSET Request
      /\ Sound(s, Request, H, GlobalLimit) /\ Waiting(s) = W
  BY HomeAssumption, TargetAssumption DEF GlobalOK, GlobalHolders
<1>2. globalSem' = [globalSem EXCEPT ![Home[r]] = Resume(s, r)]
  BY <1>1 DEF GlobalOK
<1>3. H' = H \union {r} /\ W' = W \ {r}
  BY <1>1 DEF PlainTypes, GlobalHolders, GlobalWaiters
<1>4. r \in s.woken
  OBVIOUS
<1> HIDE DEF s, H, W
<1>5. /\ Sound(Resume(s, r), Request, H \union {r}, GlobalLimit)
      /\ Waiting(Resume(s, r)) = W \ {r}
      /\ InOrder(s, Resume(s, r))
  <2> DEFINE limit == GlobalLimit
  <2>1. H \in SUBSET Request /\ Sound(s, Request, H, limit) /\ Waiting(s) = W
    BY <1>1
  <2> HIDE DEF limit
  <2>2. /\ Sound(Resume(s, r), Request, H \union {r}, limit)
        /\ Waiting(Resume(s, r)) = Waiting(s) \ {r}
        /\ InOrder(s, Resume(s, r))
    BY ONLY <1>4, <2>1, ResumeHere
  <2>3. QED
    BY <2>1, <2>2 DEF limit
<1>6. GrantsInOrder(s, Resume(s, r), (H \union {r}) \ H)
  BY <1>4, <1>5 DEF InOrder, GrantsInOrder
<1>7. QED
  BY <1>2, <1>3, <1>5, <1>6, GlobalChange DEF s, H, W

\* A submit gives the global permit back.
LEMMA GlobalRelease ==
  ASSUME PlainTypes, GlobalOK, NEW r \in Request, NEW l \in PC \ (Inside \union {"await", "gwait"}),
         pc[r] \in Inside \union {"await"},
         pc' = [pc EXCEPT ![r] = l],
         globalSem' = [globalSem EXCEPT ![Home[r]] = Release(@)]
  PROVE  GlobalKept
<1> DEFINE s == globalSem[Home[r]]
           H == GlobalHolders(Home[r])
           W == GlobalWaiters(Home[r])
<1>1. /\ Home[r] \in Process /\ Target[r] \in Agent /\ H \in SUBSET Request
      /\ Sound(s, Request, H, GlobalLimit) /\ Waiting(s) = W
  BY HomeAssumption, TargetAssumption DEF GlobalOK, GlobalHolders
<1>2. globalSem' = [globalSem EXCEPT ![Home[r]] = Release(s)]
  BY <1>1 DEF GlobalOK
<1>3. H' = H \ {r} /\ W' = W
  BY <1>1 DEF PlainTypes, GlobalHolders, GlobalWaiters
<1>4. r \in H /\ r \notin W
  BY <1>1 DEF PlainTypes, GlobalHolders, GlobalWaiters
<1> HIDE DEF s, H, W
<1>5. /\ Sound(Release(s), Request, H \ {r}, GlobalLimit)
      /\ Waiting(Release(s)) = W
      /\ InOrder(s, Release(s))
  BY <1>1, <1>4, RequestsFinite, ReleaseSound DEF s
<1>6. GrantsInOrder(s, Release(s), (H \ {r}) \ H)
  BY <1>4, <1>5 DEF InOrder, GrantsInOrder
<1>7. QED
  BY <1>2, <1>3, <1>5, <1>6, GlobalChange DEF s, H, W

\* A submit is cancelled while it waits for the global permit.
LEMMA GlobalAbandon ==
  ASSUME PlainTypes, GlobalOK, NEW r \in Request, NEW l \in PC \ (Inside \union {"await", "gwait"}),
         pc[r] = "gwait",
         pc' = [pc EXCEPT ![r] = l],
         globalSem' = [globalSem EXCEPT ![Home[r]] = Abandon(@, r)]
  PROVE  GlobalKept
<1> DEFINE s == globalSem[Home[r]]
           H == GlobalHolders(Home[r])
           W == GlobalWaiters(Home[r])
<1>1. /\ Home[r] \in Process /\ Target[r] \in Agent /\ H \in SUBSET Request
      /\ Sound(s, Request, H, GlobalLimit) /\ Waiting(s) = W
  BY HomeAssumption, TargetAssumption DEF GlobalOK, GlobalHolders
<1>2. globalSem' = [globalSem EXCEPT ![Home[r]] = Abandon(s, r)]
  BY <1>1 DEF GlobalOK
<1>3. H' = H /\ W' = W \ {r}
  BY <1>1 DEF PlainTypes, GlobalHolders, GlobalWaiters
<1>4. r \in W /\ r \notin H
  BY <1>1 DEF PlainTypes, GlobalHolders, GlobalWaiters
<1> HIDE DEF s, H, W
<1>5. /\ Sound(Abandon(s, r), Request, H, GlobalLimit)
      /\ Waiting(Abandon(s, r)) = W \ {r}
      /\ InOrder(s, Abandon(s, r))
  BY <1>1, <1>4, RequestsFinite, AbandonSound
<1>6. GrantsInOrder(s, Abandon(s, r), (H) \ H)
  BY <1>4, <1>5 DEF InOrder, GrantsInOrder
<1>7. QED
  BY <1>2, <1>3, <1>5, <1>6, GlobalChange DEF s, H, W

\* A submit starts to wait for its agent's permit.
LEMMA AgentEnqueue ==
  ASSUME PlainTypes, AgentOK, NEW r \in Request, NEW l \in PC, l = "await",
         Locked(agentSem[Home[r]][Target[r]]), pc[r] \notin Inside \union {"await"},
         pc' = [pc EXCEPT ![r] = l],
         agentSem' = [agentSem EXCEPT ![Home[r]][Target[r]] = Enqueue(@, r)]
  PROVE  AgentKept
<1> DEFINE s == agentSem[Home[r]][Target[r]]
           H == AgentHolders(Home[r], Target[r])
           W == AgentWaiters(Home[r], Target[r])
<1>1. /\ Home[r] \in Process /\ Target[r] \in Agent /\ H \in SUBSET Request
      /\ Sound(s, Request, H, MaxRuns[Target[r]]) /\ Waiting(s) = W
  BY HomeAssumption, TargetAssumption DEF AgentOK, AgentHolders
<1>2. agentSem' = [agentSem EXCEPT ![Home[r]][Target[r]] = Enqueue(s, r)]
  BY <1>1 DEF AgentOK
<1>3. H' = H /\ W' = W \union {r}
  BY <1>1 DEF PlainTypes, AgentHolders, AgentWaiters
<1>4. r \in Request \ H /\ r \notin W
  BY <1>1 DEF PlainTypes, AgentHolders, AgentWaiters
<1> HIDE DEF s, H, W
<1>5. /\ Sound(Enqueue(s, r), Request, H, MaxRuns[Target[r]])
      /\ Waiting(Enqueue(s, r)) = W \union {r}
      /\ InOrder(s, Enqueue(s, r))
  BY <1>1, <1>4, RequestsFinite, EnqueueSound DEF s
<1>6. GrantsInOrder(s, Enqueue(s, r), (H) \ H)
  BY <1>4, <1>5 DEF InOrder, GrantsInOrder
<1>7. QED
  BY <1>2, <1>3, <1>5, <1>6, AgentChange DEF s, H, W

\* A submit gets its agent's permit without waiting.
LEMMA AgentTake ==
  ASSUME PlainTypes, AgentOK, NEW r \in Request, NEW l \in Inside,
         ~Locked(agentSem[Home[r]][Target[r]]), pc[r] \notin Inside \union {"await"},
         pc' = [pc EXCEPT ![r] = l],
         agentSem' = [agentSem EXCEPT ![Home[r]][Target[r]] = Take(@)]
  PROVE  AgentKept
<1> DEFINE s == agentSem[Home[r]][Target[r]]
           H == AgentHolders(Home[r], Target[r])
           W == AgentWaiters(Home[r], Target[r])
<1>1. /\ Home[r] \in Process /\ Target[r] \in Agent /\ H \in SUBSET Request
      /\ Sound(s, Request, H, MaxRuns[Target[r]]) /\ Waiting(s) = W
  BY HomeAssumption, TargetAssumption DEF AgentOK, AgentHolders
<1>2. agentSem' = [agentSem EXCEPT ![Home[r]][Target[r]] = Take(s)]
  BY <1>1 DEF AgentOK
<1>3. H' = H \union {r} /\ W' = W
  BY <1>1 DEF PlainTypes, AgentHolders, AgentWaiters
<1>4. r \in Request \ H /\ r \notin W
  BY <1>1 DEF PlainTypes, AgentHolders, AgentWaiters
<1> HIDE DEF s, H, W
<1>5. /\ Sound(Take(s), Request, H \union {r}, MaxRuns[Target[r]])
      /\ Waiting(Take(s)) = W
      /\ InOrder(s, Take(s))
  BY <1>1, <1>4, RequestsFinite, TakeSound DEF s
<1>6. GrantsInOrder(s, Take(s), (H \union {r}) \ H)
  BY <1>5 DEF InOrder, GrantsInOrder, Locked, s
<1>7. QED
  BY <1>2, <1>3, <1>5, <1>6, AgentChange DEF s, H, W

\* A submit that waited goes on with its agent's permit.
LEMMA AgentResume ==
  ASSUME PlainTypes, AgentOK, NEW r \in Request, NEW l \in Inside,
         r \in agentSem[Home[r]][Target[r]].woken, pc[r] = "await",
         pc' = [pc EXCEPT ![r] = l],
         agentSem' = [agentSem EXCEPT ![Home[r]][Target[r]] = Resume(@, r)]
  PROVE  AgentKept
<1> DEFINE s == agentSem[Home[r]][Target[r]]
           H == AgentHolders(Home[r], Target[r])
           W == AgentWaiters(Home[r], Target[r])
<1>1. /\ Home[r] \in Process /\ Target[r] \in Agent /\ H \in SUBSET Request
      /\ Sound(s, Request, H, MaxRuns[Target[r]]) /\ Waiting(s) = W
  BY HomeAssumption, TargetAssumption DEF AgentOK, AgentHolders
<1>2. agentSem' = [agentSem EXCEPT ![Home[r]][Target[r]] = Resume(s, r)]
  BY <1>1 DEF AgentOK
<1>3. H' = H \union {r} /\ W' = W \ {r}
  BY <1>1 DEF PlainTypes, AgentHolders, AgentWaiters
<1>4. r \in s.woken
  OBVIOUS
<1> HIDE DEF s, H, W
<1>5. /\ Sound(Resume(s, r), Request, H \union {r}, MaxRuns[Target[r]])
      /\ Waiting(Resume(s, r)) = W \ {r}
      /\ InOrder(s, Resume(s, r))
  <2> DEFINE limit == MaxRuns[Target[r]]
  <2>1. H \in SUBSET Request /\ Sound(s, Request, H, limit) /\ Waiting(s) = W
    BY <1>1
  <2> HIDE DEF limit
  <2>2. /\ Sound(Resume(s, r), Request, H \union {r}, limit)
        /\ Waiting(Resume(s, r)) = Waiting(s) \ {r}
        /\ InOrder(s, Resume(s, r))
    BY ONLY <1>4, <2>1, ResumeHere
  <2>3. QED
    BY <2>1, <2>2 DEF limit
<1>6. GrantsInOrder(s, Resume(s, r), (H \union {r}) \ H)
  BY <1>4, <1>5 DEF InOrder, GrantsInOrder
<1>7. QED
  BY <1>2, <1>3, <1>5, <1>6, AgentChange DEF s, H, W

\* A submit gives its agent's permit back.
LEMMA AgentRelease ==
  ASSUME PlainTypes, AgentOK, NEW r \in Request, NEW l \in PC \ (Inside \union {"await"}),
         pc[r] \in Inside,
         pc' = [pc EXCEPT ![r] = l],
         agentSem' = [agentSem EXCEPT ![Home[r]][Target[r]] = Release(@)]
  PROVE  AgentKept
<1> DEFINE s == agentSem[Home[r]][Target[r]]
           H == AgentHolders(Home[r], Target[r])
           W == AgentWaiters(Home[r], Target[r])
<1>1. /\ Home[r] \in Process /\ Target[r] \in Agent /\ H \in SUBSET Request
      /\ Sound(s, Request, H, MaxRuns[Target[r]]) /\ Waiting(s) = W
  BY HomeAssumption, TargetAssumption DEF AgentOK, AgentHolders
<1>2. agentSem' = [agentSem EXCEPT ![Home[r]][Target[r]] = Release(s)]
  BY <1>1 DEF AgentOK
<1>3. H' = H \ {r} /\ W' = W
  BY <1>1 DEF PlainTypes, AgentHolders, AgentWaiters
<1>4. r \in H /\ r \notin W
  BY <1>1 DEF PlainTypes, AgentHolders, AgentWaiters
<1> HIDE DEF s, H, W
<1>5. /\ Sound(Release(s), Request, H \ {r}, MaxRuns[Target[r]])
      /\ Waiting(Release(s)) = W
      /\ InOrder(s, Release(s))
  BY <1>1, <1>4, RequestsFinite, ReleaseSound DEF s
<1>6. GrantsInOrder(s, Release(s), (H \ {r}) \ H)
  BY <1>4, <1>5 DEF InOrder, GrantsInOrder
<1>7. QED
  BY <1>2, <1>3, <1>5, <1>6, AgentChange DEF s, H, W

\* A submit is cancelled while it waits for its agent's permit.
LEMMA AgentAbandon ==
  ASSUME PlainTypes, AgentOK, NEW r \in Request, NEW l \in PC \ (Inside \union {"await"}),
         pc[r] = "await",
         pc' = [pc EXCEPT ![r] = l],
         agentSem' = [agentSem EXCEPT ![Home[r]][Target[r]] = Abandon(@, r)]
  PROVE  AgentKept
<1> DEFINE s == agentSem[Home[r]][Target[r]]
           H == AgentHolders(Home[r], Target[r])
           W == AgentWaiters(Home[r], Target[r])
<1>1. /\ Home[r] \in Process /\ Target[r] \in Agent /\ H \in SUBSET Request
      /\ Sound(s, Request, H, MaxRuns[Target[r]]) /\ Waiting(s) = W
  BY HomeAssumption, TargetAssumption DEF AgentOK, AgentHolders
<1>2. agentSem' = [agentSem EXCEPT ![Home[r]][Target[r]] = Abandon(s, r)]
  BY <1>1 DEF AgentOK
<1>3. H' = H /\ W' = W \ {r}
  BY <1>1 DEF PlainTypes, AgentHolders, AgentWaiters
<1>4. r \in W /\ r \notin H
  BY <1>1 DEF PlainTypes, AgentHolders, AgentWaiters
<1> HIDE DEF s, H, W
<1>5. /\ Sound(Abandon(s, r), Request, H, MaxRuns[Target[r]])
      /\ Waiting(Abandon(s, r)) = W \ {r}
      /\ InOrder(s, Abandon(s, r))
  BY <1>1, <1>4, RequestsFinite, AbandonSound
<1>6. GrantsInOrder(s, Abandon(s, r), (H) \ H)
  BY <1>4, <1>5 DEF InOrder, GrantsInOrder
<1>7. QED
  BY <1>2, <1>3, <1>5, <1>6, AgentChange DEF s, H, W
-----------------------------------------------------------------------------
(* The shared steps and the actions.                                       *)

\* Leave gives back both permits of a submit that holds both.
LEMMA LeaveOK ==
  ASSUME PlainTypes, GlobalOK, AgentOK, NEW r \in Request, NEW result,
         pc[r] \in Inside, Leave(r, result)
  PROVE  GlobalKept /\ AgentKept /\ pc' = [pc EXCEPT ![r] = "done"]
<1>1. /\ pc' = [pc EXCEPT ![r] = "done"]
      /\ globalSem' = [globalSem EXCEPT ![Home[r]] = Release(@)]
      /\ agentSem' = [agentSem EXCEPT ![Home[r]][Target[r]] = Release(@)]
  BY DEF Leave, Goto, ReleaseGlobal, ReleaseAgent
<1>2. "done" \in PC \ (Inside \union {"await", "gwait"})
  OBVIOUS
<1>3. GlobalKept
  BY <1>1, <1>2, GlobalRelease
<1>4. AgentKept
  BY <1>1, <1>2, AgentRelease
<1>5. QED
  BY <1>1, <1>3, <1>4

\* PastPermits moves the submit into the body of "async with".
LEMMA PastPermitsMoves ==
  ASSUME PlainTypes, NEW r \in Request, PastPermits(r)
  PROVE  /\ inflight' \in [Process -> Int]
         /\ \E l \in {"lock", "setup"} : pc' = [pc EXCEPT ![r] = l]
<1>1. Home[r] \in Process
  BY HomeAssumption
<1>2. QED
  BY <1>1 DEF PastPermits, Goto, Gauge, PlainTypes

\* AskAgentPermit leaves the agents' semaphores sound, whether it waits or not.
LEMMA AskAgentPermitOK ==
  ASSUME PlainTypes, AgentOK, NEW r \in Request, pc[r] \in {"new", "gwait"},
         AskAgentPermit(r)
  PROVE  /\ AgentKept
         /\ inflight' \in [Process -> Int]
         /\ \E l \in {"await", "lock", "setup"} : pc' = [pc EXCEPT ![r] = l]
<1>1. CASE Locked(agentSem[Home[r]][Target[r]])
  <2>1. /\ agentSem' = [agentSem EXCEPT ![Home[r]][Target[r]] = Enqueue(@, r)]
        /\ pc' = [pc EXCEPT ![r] = "await"]
        /\ inflight' = inflight
    BY <1>1 DEF AskAgentPermit, Goto
  <2>2. AgentKept
    BY <1>1, <2>1, AgentEnqueue
  <2>3. QED
    BY <2>1, <2>2 DEF PlainTypes
<1>2. CASE ~Locked(agentSem[Home[r]][Target[r]])
  <2>1. agentSem' = [agentSem EXCEPT ![Home[r]][Target[r]] = Take(@)] /\ PastPermits(r)
    BY <1>2 DEF AskAgentPermit
  <2>2. PICK l \in {"lock", "setup"} : pc' = [pc EXCEPT ![r] = l]
    BY <2>1, PastPermitsMoves
  <2>3. AgentKept
    BY <1>2, <2>1, <2>2, AgentTake
  <2>4. QED
    BY <2>1, <2>2, <2>3, PastPermitsMoves
<1>3. QED
  BY <1>1, <1>2

LEMMA SubmitOK ==
  ASSUME PermitInv, NEW r \in Request, Submit(r)
  PROVE  PermitsKept
<1> USE DEF PermitInv, PermitsKept
<1>1. pc[r] = "new" /\ procState[Home[r]] # "down" /\ Home[r] \in Process
      /\ UNCHANGED <<procState, lock, ttl, outcome, spent, age>>
  BY HomeAssumption DEF Submit, Alive, redis, clocks
<1>2. CASE Locked(globalSem[Home[r]])
  <2>1. /\ globalSem' = [globalSem EXCEPT ![Home[r]] = Enqueue(@, r)]
        /\ pc' = [pc EXCEPT ![r] = "gwait"]
        /\ UNCHANGED <<agentSem, inflight>>
    BY <1>2 DEF Submit, Goto
  <2>2. GlobalKept
    BY <1>1, <1>2, <2>1, GlobalEnqueue
  <2>3. AgentKept
    BY <1>1, <2>1, AgentFrame DEF PlainTypes
  <2>4. PlainTypes' /\ DownIsQuiet'
    BY <1>1, <2>1 DEF PlainTypes, DownIsQuiet
  <2>5. QED
    BY <2>2, <2>3, <2>4
<1>3. CASE ~Locked(globalSem[Home[r]])
  <2>1. globalSem' = [globalSem EXCEPT ![Home[r]] = Take(@)] /\ AskAgentPermit(r)
    BY <1>3 DEF Submit
  <2>2. AgentKept /\ inflight' \in [Process -> Int]
    BY <1>1, <2>1, AskAgentPermitOK
  <2>3. PICK l \in {"await", "lock", "setup"} : pc' = [pc EXCEPT ![r] = l]
    BY <1>1, <2>1, AskAgentPermitOK
  <2>4. GlobalKept
    BY <1>1, <1>3, <2>1, <2>3, GlobalTake
  <2>5. PlainTypes' /\ DownIsQuiet'
    BY <1>1, <2>2, <2>3 DEF PlainTypes, DownIsQuiet
  <2>6. QED
    BY <2>2, <2>4, <2>5
<1>4. QED
  BY <1>2, <1>3

LEMMA WakeGlobalOK ==
  ASSUME PermitInv, NEW r \in Request, WakeGlobal(r)
  PROVE  PermitsKept
<1> USE DEF PermitInv, PermitsKept
<1>1. /\ pc[r] = "gwait" /\ r \in globalSem[Home[r]].woken
      /\ globalSem' = [globalSem EXCEPT ![Home[r]] = Resume(@, r)]
      /\ AskAgentPermit(r)
      /\ UNCHANGED <<procState, lock, ttl, outcome, spent, age>>
  BY DEF WakeGlobal, redis, clocks
<1>2. AgentKept /\ inflight' \in [Process -> Int]
  BY <1>1, AskAgentPermitOK
<1>3. PICK l \in {"await", "lock", "setup"} : pc' = [pc EXCEPT ![r] = l]
  BY <1>1, AskAgentPermitOK
<1>4. GlobalKept
  BY <1>1, <1>3, GlobalResume
<1>5. PlainTypes' /\ DownIsQuiet'
  BY <1>1, <1>2, <1>3 DEF PlainTypes, DownIsQuiet
<1>6. QED
  BY <1>2, <1>4, <1>5

LEMMA WakeAgentOK ==
  ASSUME PermitInv, NEW r \in Request, WakeAgent(r)
  PROVE  PermitsKept
<1> USE DEF PermitInv, PermitsKept
<1>1. /\ pc[r] = "await" /\ r \in agentSem[Home[r]][Target[r]].woken
      /\ agentSem' = [agentSem EXCEPT ![Home[r]][Target[r]] = Resume(@, r)]
      /\ PastPermits(r)
      /\ UNCHANGED <<procState, globalSem, lock, ttl, outcome, spent, age>>
  BY DEF WakeAgent, redis, clocks
<1>2. PICK l \in {"lock", "setup"} : pc' = [pc EXCEPT ![r] = l]
  BY <1>1, PastPermitsMoves
<1>3. inflight' \in [Process -> Int]
  BY <1>1, PastPermitsMoves
<1>4. AgentKept
  BY <1>1, <1>2, AgentResume
<1>5. GlobalKept
  BY <1>1, <1>2, GlobalFrame DEF PlainTypes
<1>6. PlainTypes' /\ DownIsQuiet'
  BY <1>1, <1>2, <1>3 DEF PlainTypes, DownIsQuiet
<1>7. QED
  BY <1>4, <1>5, <1>6

\* A submit moves between awaits of the same kind: no permit changes hands.
LEMMA SamePlaceOK ==
  ASSUME PermitInv, NEW r \in Request, NEW l \in PC,
         pc' = [pc EXCEPT ![r] = l],
         \/ pc[r] \in Inside /\ l \in Inside
         \/ pc[r] = "new" /\ l = "done",
         UNCHANGED <<procState, sems>>, PlainTypes'
  PROVE  PermitsKept
<1> USE DEF PermitInv, PermitsKept
<1>1. GlobalKept
  BY GlobalFrame DEF PlainTypes, sems
<1>2. AgentKept
  BY AgentFrame DEF PlainTypes, sems
<1>3. DownIsQuiet'
  BY DEF DownIsQuiet, PlainTypes
<1>4. QED
  BY <1>1, <1>2, <1>3

\* A submit that holds both permits leaves.
LEMMA InsideLeavesOK ==
  ASSUME PermitInv, NEW r \in Request, NEW result \in Outcome,
         pc[r] \in Inside, Leave(r, result),
         UNCHANGED procState, PlainTypes'
  PROVE  PermitsKept
<1> USE DEF PermitInv, PermitsKept
<1>1. GlobalKept /\ AgentKept /\ pc' = [pc EXCEPT ![r] = "done"]
  BY LeaveOK
<1>2. DownIsQuiet'
  BY <1>1 DEF DownIsQuiet, PlainTypes
<1>3. QED
  BY <1>1, <1>2

\* The run ends: the release of the lock follows, or the submit leaves.
LEMMA FinishOK ==
  ASSUME PermitInv, NEW r \in Request, NEW result \in Outcome,
         pc[r] \in Run, Finish(r, result), UNCHANGED <<procState, redis>>
  PROVE  PermitsKept
<1> USE DEF PermitInv, PermitsKept
<1>1. /\ inflight' \in [Process -> Int]
      /\ spent' \in [Request -> Nat] /\ age' \in [Request -> Nat]
      /\ lock' = lock /\ ttl' = ttl /\ procState' = procState
  <2>1. Home[r] \in Process
    BY HomeAssumption
  <2>2. Gauge(r, -1) /\ spent' = [spent EXCEPT ![r] = 0] /\ age' = [age EXCEPT ![r] = 0]
    BY DEF Finish
  <2>3. inflight' \in [Process -> Int]
    BY <2>1, <2>2 DEF Gauge, PlainTypes
  <2>4. QED
    BY <2>2, <2>3 DEF PlainTypes, redis
<1>2. CASE HasRedis
  <2>1. /\ pc' = [pc EXCEPT ![r] = "release"]
        /\ outcome' = [outcome EXCEPT ![r] = result]
        /\ UNCHANGED sems
    BY <1>2 DEF Finish, Goto
  <2>2. PlainTypes'
    BY <1>1, <2>1 DEF PlainTypes
  <2>3. QED
    BY <1>1, <2>1, <2>2, SamePlaceOK
<1>3. CASE ~HasRedis
  <2>1. Leave(r, result)
    BY <1>3 DEF Finish
  <2>2. PlainTypes'
    BY <1>1, <2>1 DEF PlainTypes, Leave, Goto
  <2>3. QED
    BY <1>1, <2>1, <2>2, InsideLeavesOK
<1>4. QED
  BY <1>2, <1>3, HasRedisAssumption

\* What Redis may do to the lock of an agent keeps its type.
LEMMA RedisTypes ==
  ASSUME PlainTypes, NEW r \in Request,
         SetLock(r) \/ CompareAndDelete(r) \/ UNCHANGED redis
  PROVE  lock' \in [Agent -> Request \union {NoToken}] /\ ttl' \in [Agent -> Nat]
<1>1. Target[r] \in Agent /\ Timeout[Target[r]] \in Nat
  BY TargetAssumption, TimeoutAssumption
<1>2. CASE SetLock(r)
  BY <1>1, <1>2 DEF SetLock, PlainTypes
<1>3. CASE CompareAndDelete(r)
  BY <1>1, <1>3 DEF CompareAndDelete, PlainTypes, redis
<1>4. CASE UNCHANGED redis
  BY <1>4 DEF PlainTypes, redis
<1>5. QED
  BY <1>2, <1>3, <1>4

\* The steps that end with both permits given back.
LEMMA LeavingStepOK ==
  ASSUME PermitInv, NEW r \in Request, NEW result \in Outcome,
         pc[r] \in {"lock", "release"}, Leave(r, result),
         SetLock(r) \/ CompareAndDelete(r) \/ UNCHANGED redis,
         UNCHANGED <<procState, inflight, clocks>>
  PROVE  PermitsKept
<1> USE DEF PermitInv, PermitsKept
<1>1. lock' \in [Agent -> Request \union {NoToken}] /\ ttl' \in [Agent -> Nat]
  BY RedisTypes
<1>2. pc' = [pc EXCEPT ![r] = "done"] /\ outcome' = [outcome EXCEPT ![r] = result]
  BY DEF Leave, Goto
<1>3. PlainTypes'
  BY <1>1, <1>2 DEF PlainTypes, clocks
<1>4. QED
  BY <1>3, InsideLeavesOK

LEMMA CancelWaitOK ==
  ASSUME PermitInv, NEW r \in Request, CancelGlobalWait(r) \/ CancelAgentWait(r)
  PROVE  PermitsKept
<1> USE DEF PermitInv, PermitsKept
<1>1. /\ pc' = [pc EXCEPT ![r] = "done"]
      /\ outcome' = [outcome EXCEPT ![r] = "cancelled"]
      /\ UNCHANGED <<procState, inflight, lock, ttl, spent, age>>
  BY DEF CancelGlobalWait, CancelAgentWait, Goto, redis, clocks
<1>2. "done" \in PC \ (Inside \union {"await", "gwait"})
  OBVIOUS
<1>3. PlainTypes' /\ DownIsQuiet'
  BY <1>1 DEF PlainTypes, DownIsQuiet
<1>4. CASE CancelGlobalWait(r)
  <2>1. /\ pc[r] = "gwait"
        /\ globalSem' = [globalSem EXCEPT ![Home[r]] = Abandon(@, r)]
        /\ UNCHANGED agentSem
    BY <1>4 DEF CancelGlobalWait
  <2>2. GlobalKept
    BY <1>1, <1>2, <2>1, GlobalAbandon
  <2>3. AgentKept
    BY <1>1, <2>1, AgentFrame DEF PlainTypes
  <2>4. QED
    BY <1>3, <2>2, <2>3
<1>5. CASE CancelAgentWait(r)
  <2>1. /\ pc[r] = "await"
        /\ agentSem' = [agentSem EXCEPT ![Home[r]][Target[r]] = Abandon(@, r)]
        /\ globalSem' = [globalSem EXCEPT ![Home[r]] = Release(@)]
    BY <1>5 DEF CancelAgentWait, ReleaseGlobal
  <2>2. GlobalKept
    BY <1>1, <1>2, <2>1, GlobalRelease
  <2>3. "done" \in PC \ (Inside \union {"await"})
    OBVIOUS
  <2>4. AgentKept
    BY <1>1, <2>1, <2>3, AgentAbandon
  <2>5. QED
    BY <1>3, <2>2, <2>4
<1>6. QED
  BY <1>4, <1>5

\* A process starts over with fresh semaphores and none of its submits open.
LEMMA FreshProcessOK ==
  ASSUME PermitInv, NEW p \in Process, PlainTypes',
         globalSem' = [globalSem EXCEPT ![p] = NewSemaphore(GlobalLimit)],
         agentSem' = [agentSem EXCEPT ![p] = [a \in Agent |-> NewSemaphore(MaxRuns[a])]],
         \A r \in Request : IF Home[r] = p THEN pc'[r] \notin Active ELSE pc'[r] = pc[r]
  PROVE  GlobalKept /\ AgentKept
<1> USE DEF PermitInv, PermitsKept
<1>1. GlobalKept
  <2>1. globalSem' \in [Process -> Semaphores(Request)]
    <3>1. NewSemaphore(GlobalLimit) \in Semaphores(Request)
      BY LimitsAssumption, NewSound DEF Sound
    <3>2. QED
      BY <3>1 DEF GlobalOK
  <2>2. ASSUME NEW q \in Process
        PROVE  /\ Sound(globalSem'[q], Request, GlobalHolders(q)', GlobalLimit)
               /\ Waiting(globalSem'[q]) = GlobalWaiters(q)'
               /\ GrantsInOrder(globalSem[q], globalSem'[q], GlobalHolders(q)' \ GlobalHolders(q))
    <3>1. Sound(globalSem[q], Request, GlobalHolders(q), GlobalLimit)
      BY DEF GlobalOK
    <3>2. CASE q = p
      <4>1. globalSem'[q] = NewSemaphore(GlobalLimit)
        BY <3>2 DEF GlobalOK
      <4>2. GlobalHolders(q)' = {} /\ GlobalWaiters(q)' = {}
        BY <3>2 DEF GlobalHolders, GlobalWaiters
      <4>3. GrantsInOrder(globalSem[q], globalSem'[q], GlobalHolders(q)' \ GlobalHolders(q))
        BY <3>1, <4>1, <4>2, NothingGranted DEF NewSemaphore
      <4>4. QED
        BY <4>1, <4>2, <4>3, LimitsAssumption, NewSound
    <3>3. CASE q # p
      <4>1. globalSem'[q] = globalSem[q]
        BY <3>3 DEF GlobalOK
      <4>2. GlobalHolders(q)' = GlobalHolders(q) /\ GlobalWaiters(q)' = GlobalWaiters(q)
        BY <3>3 DEF GlobalHolders, GlobalWaiters
      <4>3. QED
        BY <3>1, <4>1, <4>2, NothingGranted DEF GlobalOK
    <3>4. QED
      BY <3>2, <3>3
  <2>3. QED
    BY <2>1, <2>2 DEF GlobalOK, GlobalKept, GlobalInOrder
<1>2. AgentKept
  <2>1. \A a \in Agent : MaxRuns[a] \in Nat
    BY LimitsAssumption
  <2>2. agentSem' \in [Process -> [Agent -> Semaphores(Request)]]
    <3>1. \A a \in Agent : NewSemaphore(MaxRuns[a]) \in Semaphores(Request)
      BY <2>1, NewSound DEF Sound
    <3>2. QED
      BY <3>1 DEF AgentOK
  <2>3. ASSUME NEW q \in Process, NEW a \in Agent
        PROVE  /\ Sound(agentSem'[q][a], Request, AgentHolders(q, a)', MaxRuns[a])
               /\ Waiting(agentSem'[q][a]) = AgentWaiters(q, a)'
               /\ GrantsInOrder(agentSem[q][a], agentSem'[q][a], AgentHolders(q, a)' \ AgentHolders(q, a))
    <3>1. Sound(agentSem[q][a], Request, AgentHolders(q, a), MaxRuns[a])
      BY DEF AgentOK
    <3>2. CASE q = p
      <4>1. agentSem'[q][a] = NewSemaphore(MaxRuns[a])
        BY <3>2 DEF AgentOK
      <4>2. AgentHolders(q, a)' = {} /\ AgentWaiters(q, a)' = {}
        BY <3>2 DEF AgentHolders, AgentWaiters
      <4>3. GrantsInOrder(agentSem[q][a], agentSem'[q][a], AgentHolders(q, a)' \ AgentHolders(q, a))
        BY <3>1, <4>1, <4>2, NothingGranted DEF NewSemaphore
      <4>4. QED
        BY <2>1, <4>1, <4>2, <4>3, NewSound
    <3>3. CASE q # p
      <4>1. agentSem'[q][a] = agentSem[q][a]
        BY <3>3 DEF AgentOK
      <4>2. AgentHolders(q, a)' = AgentHolders(q, a) /\ AgentWaiters(q, a)' = AgentWaiters(q, a)
        BY <3>3 DEF AgentHolders, AgentWaiters
      <4>3. QED
        BY <3>1, <4>1, <4>2, NothingGranted DEF AgentOK
    <3>4. QED
      BY <3>2, <3>3
  <2>4. QED
    BY <2>2, <2>3 DEF AgentOK, AgentKept, AgentsInOrder
<1>3. QED
  BY <1>1, <1>2

LEMMA InitOK == Init => PermitInv
<1> SUFFICES ASSUME Init PROVE PermitInv
  OBVIOUS
<1>1. PlainTypes
  BY TimeoutAssumption DEF Init, PlainTypes
<1>2. \A r \in Request : pc[r] = "new"
  BY DEF Init
<1>3. GlobalOK
  <2>1. \A p \in Process : /\ globalSem[p] = NewSemaphore(GlobalLimit)
                           /\ GlobalHolders(p) = {} /\ GlobalWaiters(p) = {}
    BY <1>2 DEF Init, GlobalHolders, GlobalWaiters
  <2>2. \A p \in Process :
          /\ Sound(globalSem[p], Request, GlobalHolders(p), GlobalLimit)
          /\ Waiting(globalSem[p]) = GlobalWaiters(p)
    BY <2>1, LimitsAssumption, NewSound
  <2>3. globalSem = [p \in Process |-> globalSem[p]]
    BY DEF Init
  <2>4. QED
    BY <2>2, <2>3 DEF GlobalOK, Sound
<1>4. AgentOK
  <2>1. \A p \in Process, a \in Agent :
          /\ agentSem[p][a] = NewSemaphore(MaxRuns[a]) /\ MaxRuns[a] \in Nat
          /\ AgentHolders(p, a) = {} /\ AgentWaiters(p, a) = {}
    BY <1>2, LimitsAssumption DEF Init, AgentHolders, AgentWaiters
  <2>2. \A p \in Process, a \in Agent :
          /\ Sound(agentSem[p][a], Request, AgentHolders(p, a), MaxRuns[a])
          /\ Waiting(agentSem[p][a]) = AgentWaiters(p, a)
    BY <2>1, NewSound
  <2>3. \A a \in Agent : NewSemaphore(MaxRuns[a]) \in Semaphores(Request)
    BY LimitsAssumption, NewSound DEF Sound
  <2>4. agentSem \in [Process -> [Agent -> Semaphores(Request)]]
    BY <2>3 DEF Init
  <2>5. QED
    BY <2>2, <2>4 DEF AgentOK
<1>5. DownIsQuiet
  BY <1>2 DEF DownIsQuiet
<1>6. QED
  BY <1>1, <1>3, <1>4, <1>5 DEF PermitInv

\* The steps of one submit.
LEMMA SubmitStepOK ==
  ASSUME PermitInv, NEW r \in Request,
         \/ SkipUnknown(r) \/ Submit(r) \/ Step(r)
         \/ LockError(r) \/ LockRefusedByRetry(r)
         \/ LlmEnds(r) \/ ReleaseFails(r) \/ Cancel(r)
  PROVE  PermitsKept
<1> USE DEF PermitInv, PermitsKept
<1>1. Home[r] \in Process /\ Target[r] \in Agent
  BY HomeAssumption, TargetAssumption
<1>2. CASE SkipUnknown(r)
  <2>1. pc[r] = "new" /\ pc' = [pc EXCEPT ![r] = "done"] /\ UNCHANGED <<procState, sems>>
    BY <1>2 DEF SkipUnknown, Goto
  <2>2. PlainTypes'
    BY <1>2, <2>1 DEF SkipUnknown, PlainTypes, redis, clocks
  <2>3. QED
    BY <2>1, <2>2, SamePlaceOK
<1>3. CASE Submit(r)
  BY <1>3, SubmitOK
<1>4. CASE WakeGlobal(r)
  BY <1>4, WakeGlobalOK
<1>5. CASE WakeAgent(r)
  BY <1>5, WakeAgentOK
<1>6. CASE LockAcquired(r)
  <2>1. /\ pc[r] = "lock" /\ pc' = [pc EXCEPT ![r] = "setup"]
        /\ UNCHANGED <<procState, sems>>
    BY <1>6 DEF LockAcquired, Goto
  <2>2. lock' \in [Agent -> Request \union {NoToken}] /\ ttl' \in [Agent -> Nat]
    BY <1>6, RedisTypes DEF LockAcquired
  <2>3. inflight' \in [Process -> Int]
    BY <1>1, <1>6 DEF LockAcquired, Gauge, PlainTypes
  <2>4. PlainTypes'
    BY <1>6, <2>1, <2>2, <2>3 DEF LockAcquired, PlainTypes, clocks
  <2>5. QED
    BY <2>1, <2>4, SamePlaceOK
<1>7. CASE SetupDone(r) \/ LlmEnds(r) \/ LlmTimeout(r)
  <2>1. PICK l \in {"llm", "persist"} :
          /\ pc[r] \in Inside /\ pc' = [pc EXCEPT ![r] = l]
          /\ UNCHANGED <<procState, sems, inflight, redis, outcome, clocks>>
    BY <1>7 DEF SetupDone, LlmEnds, LlmTimeout, Goto
  <2>2. PlainTypes'
    BY <2>1 DEF PlainTypes, redis, clocks
  <2>3. QED
    BY <2>1, <2>2, SamePlaceOK
<1>8. CASE SetupFails(r) \/ PersistDone(r) \/ CancelRun(r)
  <2>1. PICK result \in Outcome :
          pc[r] \in Run /\ Finish(r, result) /\ UNCHANGED <<procState, redis>>
    BY <1>8 DEF SetupFails, PersistDone, CancelRun, Running
  <2>2. QED
    BY <2>1, FinishOK
<1>9. CASE \/ LockRefused(r) \/ LockError(r) \/ LockRefusedByRetry(r)
           \/ ReleaseLock(r) \/ ReleaseFails(r) \/ CancelLock(r) \/ CancelRelease(r)
  <2>1. outcome[r] \in Outcome
    BY DEF PlainTypes
  <2>2. PICK result \in Outcome :
          /\ pc[r] \in {"lock", "release"} /\ Leave(r, result)
          /\ SetLock(r) \/ CompareAndDelete(r) \/ UNCHANGED redis
          /\ UNCHANGED <<procState, inflight, clocks>>
    BY <1>9, <2>1 DEF LockRefused, LockError, LockRefusedByRetry, ReleaseLock,
                      ReleaseFails, CancelLock, CancelRelease
  <2>3. QED
    BY <2>2, LeavingStepOK
<1>10. CASE CancelGlobalWait(r) \/ CancelAgentWait(r)
  BY <1>10, CancelWaitOK
<1>11. QED
  BY <1>2, <1>3, <1>4, <1>5, <1>6, <1>7, <1>8, <1>9, <1>10 DEF Step, Cancel

LEMMA CrashOK ==
  ASSUME PermitInv, NEW p \in Process, Crash(p)
  PROVE  PermitsKept
<1> USE DEF PermitInv, PermitsKept
<1> DEFINE lost == {r \in Request : Home[r] = p /\ pc[r] \in Active}
<1>1. /\ procState' = [procState EXCEPT ![p] = "down"]
      /\ globalSem' = [globalSem EXCEPT ![p] = NewSemaphore(GlobalLimit)]
      /\ agentSem' = [agentSem EXCEPT ![p] = [a \in Agent |-> NewSemaphore(MaxRuns[a])]]
      /\ inflight' = [inflight EXCEPT ![p] = 0]
      /\ pc' = [r \in Request |-> IF r \in lost THEN "done" ELSE pc[r]]
      /\ outcome' = [r \in Request |-> IF r \in lost THEN "killed" ELSE outcome[r]]
      /\ spent' = [r \in Request |-> IF r \in lost THEN 0 ELSE spent[r]]
      /\ age' = [r \in Request |-> IF r \in lost THEN 0 ELSE age[r]]
      /\ UNCHANGED redis \/ \E r \in Request : SetLock(r)
  BY DEF Crash
<1>2. lock' \in [Agent -> Request \union {NoToken}] /\ ttl' \in [Agent -> Nat]
  <2>1. CASE UNCHANGED redis
    BY <2>1 DEF PlainTypes, redis
  <2>2. CASE \E r \in Request : SetLock(r)
    BY <2>2, RedisTypes
  <2>3. QED
    BY <1>1, <2>1, <2>2
<1>3. PlainTypes'
  BY <1>1, <1>2 DEF PlainTypes
<1>4. GlobalKept /\ AgentKept
  <2>1. \A r \in Request : IF Home[r] = p THEN pc'[r] \notin Active ELSE pc'[r] = pc[r]
    BY <1>1 DEF PlainTypes
  <2>2. QED
    BY <1>1, <1>3, <2>1, FreshProcessOK
<1>5. DownIsQuiet'
  BY <1>1, HomeAssumption DEF DownIsQuiet, PlainTypes
<1>6. QED
  BY <1>3, <1>4, <1>5

LEMMA RestartOK ==
  ASSUME PermitInv, NEW p \in Process, Restart(p)
  PROVE  PermitsKept
<1> USE DEF PermitInv, PermitsKept
<1>1. /\ procState' = [procState EXCEPT ![p] = "up"]
      /\ globalSem' = [globalSem EXCEPT ![p] = NewSemaphore(GlobalLimit)]
      /\ agentSem' = [agentSem EXCEPT ![p] = [a \in Agent |-> NewSemaphore(MaxRuns[a])]]
      /\ UNCHANGED <<inflight, lock, ttl, pc, outcome, spent, age>>
      /\ \A r \in Request : Home[r] = p => pc[r] \notin Active
  BY DEF Restart, DownIsQuiet, redis, clocks
<1>2. PlainTypes'
  BY <1>1 DEF PlainTypes
<1>3. GlobalKept /\ AgentKept
  BY <1>1, <1>2, FreshProcessOK
<1>4. DownIsQuiet'
  BY <1>1, HomeAssumption DEF DownIsQuiet, PlainTypes
<1>5. QED
  BY <1>2, <1>3, <1>4

LEMMA TickOK ==
  ASSUME PermitInv, Tick
  PROVE  PermitsKept
<1> USE DEF PermitInv, PermitsKept
<1>1. /\ UNCHANGED <<procState, globalSem, agentSem, inflight, pc, outcome>>
      /\ ttl' = [a \in Agent |-> IF ttl[a] > 0 THEN ttl[a] - 1 ELSE 0]
      /\ lock' = [a \in Agent |-> IF ttl[a] = 1 THEN NoToken ELSE lock[a]]
      /\ spent' = [r \in Request |-> IF pc[r] = "llm" THEN spent[r] + 1 ELSE spent[r]]
      /\ age' = [r \in Request |->
                   IF Running(r) THEN Least(age[r] + 1, Timeout[Target[r]]) ELSE age[r]]
  BY DEF Tick, sems
<1>2. \A r \in Request : Timeout[Target[r]] \in Nat
  BY TargetAssumption, TimeoutAssumption
<1>3. ttl' \in [Agent -> Nat] /\ lock' \in [Agent -> Request \union {NoToken}]
  BY <1>1 DEF PlainTypes
<1>4. spent' \in [Request -> Nat] /\ age' \in [Request -> Nat]
  BY <1>1, <1>2 DEF PlainTypes, Least
<1>5. PlainTypes'
  BY <1>1, <1>3, <1>4 DEF PlainTypes
<1>6. GlobalKept /\ AgentKept
  BY <1>1, GlobalFrame, AgentFrame
<1>7. DownIsQuiet'
  BY <1>1 DEF DownIsQuiet
<1>8. QED
  BY <1>5, <1>6, <1>7

LEMMA PermitStep == PermitInv /\ [Next]_vars => PermitsKept
<1> SUFFICES ASSUME PermitInv, [Next]_vars PROVE PermitsKept
  OBVIOUS
<1>1. ASSUME NEW r \in Request,
             \/ SkipUnknown(r) \/ Submit(r) \/ Step(r)
             \/ LockError(r) \/ LockRefusedByRetry(r)
             \/ LlmEnds(r) \/ ReleaseFails(r) \/ Cancel(r)
      PROVE  PermitsKept
  BY <1>1, SubmitStepOK
<1>2. ASSUME NEW p \in Process, Stop(p)
      PROVE  PermitsKept
  <2>1. /\ procState' = [procState EXCEPT ![p] = "stopping"]
        /\ UNCHANGED <<globalSem, agentSem, inflight, lock, ttl, pc, outcome, spent, age>>
    BY <1>2 DEF Stop, sems, redis, clocks
  <2>2. PlainTypes' /\ DownIsQuiet'
    BY <2>1, HomeAssumption DEF PermitInv, PlainTypes, DownIsQuiet
  <2>3. GlobalKept /\ AgentKept
    BY <2>1, GlobalFrame, AgentFrame DEF PermitInv
  <2>4. QED
    BY <2>2, <2>3 DEF PermitsKept
<1>3. ASSUME NEW p \in Process, Crash(p) \/ Restart(p)
      PROVE  PermitsKept
  BY <1>3, CrashOK, RestartOK
<1>4. CASE Tick
  BY <1>4, TickOK
<1>5. CASE UNCHANGED vars
  <2>1. PlainTypes' /\ DownIsQuiet'
    BY <1>5 DEF PermitInv, PlainTypes, DownIsQuiet, vars
  <2>2. GlobalKept /\ AgentKept
    BY <1>5, GlobalFrame, AgentFrame DEF PermitInv, vars
  <2>3. QED
    BY <2>1, <2>2 DEF PermitsKept
<1>6. QED
  BY <1>1, <1>2, <1>3, <1>4, <1>5 DEF Next, Quiet
-----------------------------------------------------------------------------
(* The theorems.                                                           *)

\* The inductive invariant holds in every reachable state: whatever a submit
\* awaits and however it leaves, the semaphores know who waits and who holds.
THEOREM PermitInvariant == Spec => []PermitInv
<1>1. PermitsKept => PermitInv'
  BY DEF PermitsKept, PermitInv, GlobalKept, AgentKept
<1>2. QED
  BY <1>1, InitOK, PermitStep, PTL DEF Spec

\* Every variable keeps its type in every behaviour; AGENT_INFLIGHT is left to
\* GaugeExact for its sign.
THEOREM TypeCorrect == Spec => []TypeOK
<1>1. PermitInv => TypeOK
  BY DEF PermitInv, PlainTypes, GlobalOK, AgentOK, TypeOK
<1>2. QED
  BY <1>1, PermitInvariant, PTL

\* No exit of submit() loses a permit or returns one twice, for any number of
\* requests, agents and processes and for all limits, zero included.
THEOREM PermitsAreConserved == Spec => []PermitsConserved
<1>1. PermitInv => PermitsConserved
  BY DEF PermitInv, GlobalOK, AgentOK, PermitsConserved, Sound, Granted
<1>2. QED
  BY <1>1, PermitInvariant, PTL

\* A release always reaches somebody who waits: no submit sleeps while a permit
\* is free unless a woken task is on its way to take it.
THEOREM WakeupsAreNotLost == Spec => []NoLostWakeup
<1>1. PermitInv => NoLostWakeup
  BY DEF PermitInv, GlobalOK, AgentOK, NoLostWakeup, Served, Sound, Wakeful, Waiting,
         GlobalWaiters, AgentWaiters
<1>2. QED
  BY <1>1, PermitInvariant, PTL

PermitsInOrder ==
  \A p \in Process :
    /\ GrantsInOrder(globalSem[p], globalSem[p]', GlobalHolders(p)' \ GlobalHolders(p))
    /\ \A a \in Agent :
         GrantsInOrder(agentSem[p][a], agentSem[p][a]',
                       AgentHolders(p, a)' \ AgentHolders(p, a))

\* No submit overtakes another one: a permit goes to a submit that did not wait
\* only when nobody waits for it, and a release wakes the one that waited first.
THEOREM NobodyOvertakes == Spec => NoOvertaking
<1>1. PermitsKept => PermitsInOrder
  BY DEF PermitsKept, GlobalKept, AgentKept, GlobalInOrder, AgentsInOrder, PermitsInOrder
<1>2. Spec => [][PermitsInOrder]_vars
  BY <1>1, PermitInvariant, PermitStep, PTL DEF Spec
<1>3. QED
  BY <1>2 DEF NoOvertaking, PermitsInOrder

\* Holders of a sound semaphore are at most as many as its limit.
LEMMA SoundBounds ==
  ASSUME NEW H \in SUBSET Request, NEW s, NEW limit \in Nat,
         Sound(s, Request, H, limit),
         NEW R \in SUBSET H
  PROVE  Cardinality(R) <= limit
<1>1. s.value \in Nat /\ s.woken \in SUBSET Request
  BY DEF Sound, Semaphores
<1>2. IsFiniteSet(s.woken \union H)
  BY <1>1, RequestsFinite, FS_Subset
<1>3. /\ Cardinality(R) <= Cardinality(s.woken \union H)
      /\ Cardinality(R) \in Nat /\ Cardinality(s.woken \union H) \in Nat
  BY <1>2, FS_Subset, FS_CardinalityType
<1>4. s.value + Cardinality(s.woken \union H) = limit
  BY DEF Sound, Granted
<1>5. QED
  BY <1>1, <1>3, <1>4

\* Runs in progress are holders, so the permits bound them.
LEMMA CapsFromPermits == PermitInv => ConcurrencyCaps
<1>1. ASSUME PermitInv, NEW p \in Process
      PROVE  Cardinality(InFlight(p)) <= GlobalLimit
  <2>1. InFlight(p) \in SUBSET GlobalHolders(p) /\ GlobalHolders(p) \in SUBSET Request
    BY DEF InFlight, Running, GlobalHolders
  <2>2. Sound(globalSem[p], Request, GlobalHolders(p), GlobalLimit)
    BY <1>1 DEF PermitInv, GlobalOK
  <2>3. QED
    BY <2>1, <2>2, LimitsAssumption, SoundBounds
<1>2. ASSUME PermitInv, NEW p \in Process, NEW a \in Agent
      PROVE  Cardinality({r \in InFlight(p) : Target[r] = a}) <= MaxRuns[a]
  <2> DEFINE R == {r \in InFlight(p) : Target[r] = a}
  <2>1. R \in SUBSET AgentHolders(p, a) /\ AgentHolders(p, a) \in SUBSET Request
    BY DEF InFlight, Running, AgentHolders
  <2>2. Sound(agentSem[p][a], Request, AgentHolders(p, a), MaxRuns[a])
    BY <1>2 DEF PermitInv, AgentOK
  <2>3. MaxRuns[a] \in Nat
    BY LimitsAssumption
  <2> HIDE DEF R
  <2>4. Cardinality(R) <= MaxRuns[a]
    BY <2>1, <2>2, <2>3, SoundBounds
  <2>5. QED
    BY <2>4 DEF R
<1>3. QED
  BY <1>1, <1>2 DEF ConcurrencyCaps

\* The two in-process layers of the docstring of RunExecutor: never more runs
\* in a process than max_concurrent_runs_global, and of one agent never more
\* than max_concurrent_runs, through cancellations, crashes and restarts.
THEOREM CapsAreKept == Spec => []ConcurrencyCaps
<1>1. QED
  BY CapsFromPermits, PermitInvariant, PTL
=============================================================================
