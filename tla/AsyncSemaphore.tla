--------------------------- MODULE AsyncSemaphore ---------------------------
(***************************************************************************)
(* asyncio.Semaphore of the Python the service runs on (3.12 and later),   *)
(* as RunExecutor uses it: a value, the tasks that sleep in acquire() in   *)
(* arrival order, and the tasks release() has already handed a permit to   *)
(* but which the event loop has not resumed.  CPython keeps the last two   *)
(* in one deque of futures and tells them apart by fut.done().  Code       *)
(* outside src/, so every definition is external.                          *)
(***************************************************************************)
EXTENDS Integers, Sequences, FiniteSets

\* asyncio.Semaphore(n).
NewSemaphore(n) == [value |-> n, queue |-> <<>>, woken |-> {}]

Semaphores(Task) == [value : Nat, queue : Seq(Task), woken : SUBSET Task]

Sleepers(s) == {s.queue[i] : i \in DOMAIN s.queue}

\* locked(): no permit, or somebody is ahead of the caller in the deque.
LockedByQueue(s) == s.queue # <<>>                               \* mutant
LockedByValue(s) == s.value = 0                                  \* mutant
Locked(s) == s.value = 0 \/ s.queue # <<>> \/ s.woken # {}

Take(s) == [s EXCEPT !.value = @ - 1]

Enqueue(s, t) == [s EXCEPT !.queue = Append(@, t)]

\* _wake_up_next() called n times: each call moves one permit to a sleeper.
WakeUpNext(s, n) ==
  [value |-> s.value - n,
   queue |-> SubSeq(s.queue, n + 1, Len(s.queue)),
   woken |-> s.woken \union {s.queue[i] : i \in 1..n}]

Least(m, n) == IF m <= n THEN m ELSE n

\* The loop that ends acquire(): wake sleepers as long as permits are left.
WakeAll(s) == WakeUpNext(s, Least(s.value, Len(s.queue)))

\* release(): one more permit, and at most one sleeper is woken.
ReleaseSilently(s) == [s EXCEPT !.value = @ + 1]                 \* mutant
ReleaseTwice(s) == [s EXCEPT !.value = @ + 2]                    \* mutant
Release(s) ==
  LET freed == [s EXCEPT !.value = @ + 1]
  IN  WakeUpNext(freed, Least(1, Len(freed.queue)))

\* A woken task returns from acquire() with the permit release() gave it.
ResumeQuietly(s, t) == [s EXCEPT !.woken = @ \ {t}]              \* mutant
Resume(s, t) == WakeAll([s EXCEPT !.woken = @ \ {t}])

\* queue.remove(t): t sleeps at most once.
Without(q, t) ==
  LET at == CHOOSE i \in DOMAIN q : q[i] = t
  IN  [i \in 1..(Len(q) - 1) |-> IF i < at THEN q[i] ELSE q[i + 1]]

\* A task is cancelled inside acquire(): a permit it was already given goes
\* back, a sleeper only leaves the deque.
AbandonKeepingPermit(s, t) ==                                    \* mutant
  IF t \in s.woken THEN [s EXCEPT !.woken = @ \ {t}]
  ELSE [s EXCEPT !.queue = Without(@, t)]
Abandon(s, t) ==
  IF t \in s.woken
    THEN WakeAll([value |-> s.value + 1, queue |-> s.queue, woken |-> s.woken \ {t}])
    ELSE WakeAll([s EXCEPT !.queue = Without(@, t)])
=============================================================================
