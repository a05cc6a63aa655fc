------------------------ MODULE AsyncSemaphoreProofs ------------------------
(***************************************************************************)
(* What the operations of AsyncSemaphore preserve, for every set of tasks  *)
(* and every limit.  The modules about its users cite these lemmas.        *)
(***************************************************************************)
EXTENDS AsyncSemaphore, SequenceTheorems, FiniteSetTheorems, FunctionTheorems, TLAPS

Waiting(s) == Sleepers(s) \union s.woken

\* Permits handed out: to the tasks in the body of "async with", and to the
\* tasks that are woken and not yet resumed.
Granted(s, holders) == Cardinality(s.woken \union holders)

\* No task stands twice in the structures of a semaphore.
Apart(s, holders) ==
  /\ \A i, j \in DOMAIN s.queue : s.queue[i] = s.queue[j] => i = j
  /\ Sleepers(s) \intersect s.woken = {}
  /\ Waiting(s) \intersect holders = {}

\* Sleepers are left with free permits only if a woken task will serve them.
Wakeful(s) == s.value > 0 /\ s.queue # <<>> => s.woken # {}

\* From s to z, nobody is woken before one who was ahead in the queue.
InOrder(s, z) ==
  \A i, j \in DOMAIN s.queue :
    i < j /\ s.queue[j] \in z.woken => s.queue[i] \notin Sleepers(z)

\* The semaphore of the tasks in T, created with limit, when holders hold it.
Sound(s, T, holders, limit) ==
  /\ s \in Semaphores(T)
  /\ Apart(s, holders)
  /\ Wakeful(s)
  /\ s.value + Granted(s, holders) = limit

\* n distinct entries of a queue are n tasks.
LEMMA PrefixCardinality ==
  ASSUME NEW T, NEW q \in Seq(T), NEW n \in Nat, n <= Len(q),
         \A i, j \in DOMAIN q : q[i] = q[j] => i = j
  PROVE  /\ IsFiniteSet({q[i] : i \in 1..n})
         /\ Cardinality({q[i] : i \in 1..n}) = n
<1> DEFINE P == {q[i] : i \in 1..n}
           f == [i \in 1..n |-> q[i]]
<1>1. DOMAIN q = 1..Len(q)
  BY LenProperties
<1>2. f \in Bijection(1..n, P)
  <2>1. f \in [1..n -> P]
    OBVIOUS
  <2>2. \A i, j \in 1..n : f[i] = f[j] => i = j
    BY <1>1, LenProperties
  <2>3. \A t \in P : \E i \in 1..n : f[i] = t
    OBVIOUS
  <2>4. QED
    BY <2>1, <2>2, <2>3 DEF Bijection, Injection, Surjection, IsInjective
<1>3. IsFiniteSet(1..n) /\ Cardinality(1..n) = n
  BY FS_Interval
<1>4. ExistsBijection(1..n, P)
  BY <1>2 DEF ExistsBijection
<1> HIDE DEF P
<1>5. IsFiniteSet(P) /\ Cardinality(P) = Cardinality(1..n)
  BY <1>3, <1>4, FS_Bijection
<1>6. QED
  BY <1>3, <1>5 DEF P

\* Waking n sleepers moves n permits from the value to the woken tasks, the
\* first n, and changes neither who waits nor the total.
LEMMA WakeUpNextMoves ==
  ASSUME NEW T, IsFiniteSet(T), NEW holders \in SUBSET T,
         NEW s \in Semaphores(T), Apart(s, holders),
         NEW n \in Nat, n <= s.value, n <= Len(s.queue)
  PROVE  LET z == WakeUpNext(s, n)
         IN  /\ z \in Semaphores(T)
             /\ Apart(z, holders)
             /\ Waiting(z) = Waiting(s)
             /\ s.woken \subseteq z.woken
             /\ z.value = s.value - n
             /\ Len(z.queue) = Len(s.queue) - n
             /\ z.value + Granted(z, holders) = s.value + Granted(s, holders)
             /\ InOrder(s, z)
<1> DEFINE q == s.queue
           P == {q[i] : i \in 1..n}
           rest == SubSeq(q, n + 1, Len(q))
           z == WakeUpNext(s, n)
<1>1. /\ q \in Seq(T) /\ Len(q) \in Nat /\ DOMAIN q = 1..Len(q)
      /\ s.value \in Nat /\ s.woken \in SUBSET T
      /\ \A i \in 1..Len(q) : q[i] \in T
  BY LenProperties, ElementOfSeq DEF Semaphores
<1>2. /\ rest \in Seq(T)
      /\ Len(rest) = Len(q) - n
      /\ DOMAIN rest = 1..(Len(q) - n)
      /\ \A i \in 1..(Len(q) - n) : rest[i] = q[n + i]
  <2>1. \A i \in (n + 1)..Len(q) : q[i] \in T
    BY <1>1
  <2>2. /\ rest \in Seq(T)
        /\ Len(rest) = IF n + 1 <= Len(q) THEN Len(q) - (n + 1) + 1 ELSE 0
        /\ \A i \in 1..(Len(q) - (n + 1) + 1) : rest[i] = q[(n + 1) + i - 1]
    BY <1>1, <2>1, SubSeqProperties
  <2>3. Len(rest) = Len(q) - n
    BY <2>2, <1>1
  <2>4. DOMAIN rest = 1..Len(rest)
    BY <2>2, LenProperties
  <2>5. \A i \in 1..(Len(q) - n) : (n + 1) + i - 1 = n + i
    BY <1>1
  <2>6. Len(q) - (n + 1) + 1 = Len(q) - n
    BY <1>1
  <2>7. QED
    BY <2>2, <2>3, <2>4, <2>5, <2>6
<1>3. /\ z.value = s.value - n /\ z.queue = rest /\ z.woken = s.woken \union P
      /\ z = [value |-> s.value - n, queue |-> rest, woken |-> s.woken \union P]
  BY DEF WakeUpNext
<1>4. P \subseteq T
  BY <1>1
<1>5. z \in Semaphores(T)
  BY <1>1, <1>2, <1>3, <1>4 DEF Semaphores
<1>6. \A i, j \in 1..Len(q) : q[i] = q[j] => i = j
  BY <1>1 DEF Apart
<1>7. Sleepers(s) = {q[i] : i \in 1..Len(q)}
  BY <1>1 DEF Sleepers
<1>8. Sleepers(z) = {q[i] : i \in (n + 1)..Len(q)}
  <2>1. Sleepers(z) = {rest[i] : i \in 1..(Len(q) - n)}
    BY <1>2, <1>3 DEF Sleepers
  <2>2. \A t : (\E i \in 1..(Len(q) - n) : t = rest[i])
                 <=> (\E i \in (n + 1)..Len(q) : t = q[i])
    <3>1. ASSUME NEW i \in (n + 1)..Len(q)
          PROVE  i - n \in 1..(Len(q) - n) /\ rest[i - n] = q[i]
      <4>1. i - n \in 1..(Len(q) - n) /\ n + (i - n) = i
        BY <1>1
      <4>2. QED
        BY <4>1, <1>2
    <3>2. ASSUME NEW i \in 1..(Len(q) - n)
          PROVE  n + i \in (n + 1)..Len(q) /\ rest[i] = q[n + i]
      BY <1>1, <1>2
    <3> HIDE DEF rest, q
    <3>3. QED
      BY <3>1, <3>2
  <2>3. QED
    BY <2>1, <2>2
<1>9. Sleepers(z) \union P = Sleepers(s)
  BY <1>1, <1>7, <1>8
<1>10. Sleepers(z) \intersect P = {}
  BY <1>1, <1>6, <1>8
<1>11. Waiting(z) = Waiting(s)
  BY <1>3, <1>9 DEF Waiting
<1>12. Apart(z, holders)
  <2>1. \A i, j \in DOMAIN z.queue : z.queue[i] = z.queue[j] => i = j
    <3>1. ASSUME NEW i \in 1..(Len(q) - n), NEW j \in 1..(Len(q) - n), rest[i] = rest[j]
          PROVE  i = j
      <4>1. n + i \in 1..Len(q) /\ n + j \in 1..Len(q)
        BY <1>1
      <4>2. q[n + i] = q[n + j]
        BY <3>1, <1>2
      <4>3. QED
        BY <4>1, <4>2, <1>6, <1>1
    <3> HIDE DEF rest, q
    <3>2. QED
      BY <3>1, <1>2, <1>3
  <2>2. Sleepers(z) \intersect z.woken = {}
    BY <1>3, <1>9, <1>10 DEF Apart
  <2>3. QED
    BY <2>1, <2>2, <1>11 DEF Apart
<1>13. P \intersect (s.woken \union holders) = {}
  BY <1>9 DEF Apart, Waiting
<1>14. IsFiniteSet(P) /\ Cardinality(P) = n
  <2>1. \A i, j \in DOMAIN q : q[i] = q[j] => i = j
    BY <1>1, <1>6
  <2>2. q \in Seq(T) /\ n <= Len(q)
    BY <1>1
  <2> HIDE DEF q
  <2>3. QED
    BY <2>1, <2>2, PrefixCardinality
<1>15. IsFiniteSet(s.woken \union holders)
  BY <1>1, FS_Subset
<1>16. Granted(z, holders) = Granted(s, holders) + n
  <2>1. z.woken \union holders = (s.woken \union holders) \union P
    BY <1>3
  <2>2. Cardinality((s.woken \union holders) \intersect P) = 0
    BY <1>13, FS_EmptySet
  <2>3. Cardinality(s.woken \union holders) \in Nat
    BY <1>15, FS_CardinalityType
  <2> HIDE DEF P, z
  <2>4. Cardinality((s.woken \union holders) \union P)
          = Cardinality(s.woken \union holders) + Cardinality(P)
              - Cardinality((s.woken \union holders) \intersect P)
    BY <1>14, <1>15, FS_Union
  <2>5. Granted(z, holders) = Cardinality((s.woken \union holders) \union P)
    BY <2>1 DEF Granted
  <2>6. Granted(s, holders) = Cardinality(s.woken \union holders)
    BY DEF Granted
  <2>7. QED
    BY <1>14, <2>2, <2>3, <2>4, <2>5, <2>6
<1>17. Granted(s, holders) \in Nat
  BY <1>15, FS_CardinalityType DEF Granted
<1>18. InOrder(s, z)
  <2> SUFFICES ASSUME NEW i \in 1..Len(q), NEW j \in 1..Len(q), i < j,
                      q[j] \in z.woken, q[i] \in Sleepers(z)
               PROVE  FALSE
    BY <1>1 DEF InOrder
  <2>1. q[j] \notin s.woken
    BY <1>7 DEF Apart
  <2>2. PICK k \in 1..n : q[j] = q[k]
    BY <2>1, <1>3
  <2>3. PICK m \in (n + 1)..Len(q) : q[i] = q[m]
    BY <1>8
  <2>4. k \in 1..Len(q) /\ m \in 1..Len(q)
    BY <1>1
  <2>5. j = k /\ i = m
    BY <1>6, <2>2, <2>3, <2>4
  <2>6. QED
    BY <2>5
<1>19. QED
  BY <1>1, <1>2, <1>3, <1>5, <1>11, <1>12, <1>16, <1>17, <1>18

\* The loop at the end of acquire() leaves no sleeper beside a free permit.
LEMMA WakeAllMoves ==
  ASSUME NEW T, IsFiniteSet(T), NEW holders \in SUBSET T,
         NEW s \in Semaphores(T), Apart(s, holders)
  PROVE  /\ Sound(WakeAll(s), T, holders, s.value + Granted(s, holders))
         /\ Waiting(WakeAll(s)) = Waiting(s)
         /\ InOrder(s, WakeAll(s))
<1> DEFINE n == Least(s.value, Len(s.queue))
           z == WakeUpNext(s, n)
<1>1. s.value \in Nat /\ s.queue \in Seq(T) /\ Len(s.queue) \in Nat
  BY LenProperties DEF Semaphores
<1>2. n \in Nat /\ n <= s.value /\ n <= Len(s.queue)
  BY <1>1 DEF Least
<1>3. n = s.value \/ n = Len(s.queue)
  BY DEF Least
<1>4. WakeAll(s) = z
  BY DEF WakeAll
<1> HIDE DEF n, z
<1>5. /\ z \in Semaphores(T)
      /\ Apart(z, holders)
      /\ Waiting(z) = Waiting(s)
      /\ z.value = s.value - n
      /\ Len(z.queue) = Len(s.queue) - n
      /\ z.value + Granted(z, holders) = s.value + Granted(s, holders)
      /\ InOrder(s, z)
  BY <1>2, WakeUpNextMoves DEF z
<1>6. Wakeful(z)
  <2>1. z.queue \in Seq(T)
    BY <1>5 DEF Semaphores
  <2>2. z.value = 0 \/ Len(z.queue) = 0
    BY <1>1, <1>2, <1>3, <1>5
  <2>3. Len(z.queue) = 0 => z.queue = <<>>
    BY <2>1, EmptySeq
  <2>4. QED
    BY <2>2, <2>3 DEF Wakeful
<1>7. QED
  BY <1>4, <1>5, <1>6 DEF Sound

\* A new semaphore is sound.
LEMMA NewSound ==
  ASSUME NEW T, NEW limit \in Nat
  PROVE  /\ Sound(NewSemaphore(limit), T, {}, limit)
         /\ Waiting(NewSemaphore(limit)) = {}
<1> DEFINE s == NewSemaphore(limit)
<1>1. s.value = limit /\ s.queue = <<>> /\ s.woken = {} /\ DOMAIN s.queue = {}
  BY DEF NewSemaphore
<1>2. s \in Semaphores(T)
  BY EmptySeq DEF NewSemaphore, Semaphores
<1>3. Sleepers(s) = {}
  BY <1>1 DEF Sleepers
<1>4. Granted(s, {}) = 0
  <2>1. s.woken \union {} = {}
    BY <1>1
  <2>2. QED
    BY <2>1, FS_EmptySet DEF Granted
<1>5. QED
  BY <1>1, <1>2, <1>3, <1>4 DEF Sound, Apart, Wakeful, Waiting

\* acquire() without waiting: the caller becomes a holder.
LEMMA TakeSound ==
  ASSUME NEW T, IsFiniteSet(T), NEW holders \in SUBSET T, NEW limit,
         NEW s, Sound(s, T, holders, limit),
         NEW t \in T \ holders, ~Locked(s)
  PROVE  /\ Sound(Take(s), T, holders \union {t}, limit)
         /\ Waiting(Take(s)) = Waiting(s)
         /\ Waiting(s) = {}
         /\ InOrder(s, Take(s))
<1> DEFINE z == Take(s)
<1>1. /\ s \in Semaphores(T)
      /\ s.value \in Nat \ {0} /\ s.queue = <<>> /\ s.woken = {}
  BY DEF Sound, Locked, Semaphores
<1>2. /\ z \in Semaphores(T)
      /\ z.value = s.value - 1 /\ z.queue = <<>> /\ z.woken = {}
  BY <1>1 DEF Take, Semaphores
<1>3. DOMAIN s.queue = {} /\ DOMAIN z.queue = {}
  BY <1>1, <1>2
<1>4. Sleepers(s) = {} /\ Sleepers(z) = {}
  BY <1>3 DEF Sleepers
<1>5. Waiting(s) = {} /\ Waiting(z) = {}
  BY <1>1, <1>2, <1>4 DEF Waiting
<1>6. Apart(z, holders \union {t}) /\ Wakeful(z)
  BY <1>2, <1>3, <1>4, <1>5 DEF Apart, Wakeful
<1>7. z.value + Granted(z, holders \union {t}) = limit
  <2>1. IsFiniteSet(holders)
    BY FS_Subset
  <2>2. Cardinality(holders \union {t}) = Cardinality(holders) + 1
    BY <2>1, FS_AddElement
  <2>3. Granted(s, holders) = Cardinality(holders)
    <3>1. s.woken \union holders = holders
      BY <1>1
    <3>2. QED
      BY <3>1 DEF Granted
  <2>4. Granted(z, holders \union {t}) = Cardinality(holders \union {t})
    <3>1. z.woken \union (holders \union {t}) = holders \union {t}
      BY <1>2
    <3>2. QED
      BY <3>1 DEF Granted
  <2>5. Cardinality(holders) \in Nat
    BY <2>1, FS_CardinalityType
  <2>6. s.value + Granted(s, holders) = limit
    BY DEF Sound
  <2>7. QED
    BY <1>1, <1>2, <2>2, <2>3, <2>4, <2>5, <2>6
<1>8. InOrder(s, z)
  BY <1>3 DEF InOrder
<1>9. QED
  BY <1>2, <1>5, <1>6, <1>7, <1>8 DEF Sound

\* acquire() that has to wait: the caller joins the sleepers.
LEMMA EnqueueSound ==
  ASSUME NEW T, NEW holders \in SUBSET T, NEW limit,
         NEW s, Sound(s, T, holders, limit), Locked(s),
         NEW t \in T \ holders, t \notin Waiting(s)
  PROVE  /\ Sound(Enqueue(s, t), T, holders, limit)
         /\ Waiting(Enqueue(s, t)) = Waiting(s) \union {t}
         /\ InOrder(s, Enqueue(s, t))
<1> DEFINE z == Enqueue(s, t)
           q == s.queue
<1>1. /\ s \in Semaphores(T) /\ Apart(s, holders) /\ Wakeful(s)
      /\ q \in Seq(T) /\ Len(q) \in Nat /\ DOMAIN q = 1..Len(q)
  BY LenProperties DEF Sound, Semaphores
<1>2. z.value = s.value /\ z.woken = s.woken /\ z.queue = Append(q, t)
  BY <1>1 DEF Enqueue, Semaphores
<1>3. /\ z.queue \in Seq(T)
      /\ DOMAIN z.queue = 1..(Len(q) + 1)
      /\ \A i \in 1..Len(q) : z.queue[i] = q[i]
      /\ z.queue[Len(q) + 1] = t
  BY <1>1, <1>2, AppendProperties, LenProperties
<1>4. z \in Semaphores(T)
  BY <1>1, <1>3 DEF Semaphores, Enqueue
<1> HIDE DEF z, q
<1>5. \A i \in 1..(Len(q) + 1) : i \in 1..Len(q) \/ i = Len(q) + 1
  BY <1>1
<1>6. Sleepers(s) = {q[i] : i \in 1..Len(q)}
  BY <1>1 DEF Sleepers, q
<1>7. Sleepers(z) = Sleepers(s) \union {t}
  <2>1. Sleepers(z) = {z.queue[i] : i \in 1..(Len(q) + 1)}
    BY <1>3 DEF Sleepers
  <2>2. 1..Len(q) \subseteq 1..(Len(q) + 1) /\ Len(q) + 1 \in 1..(Len(q) + 1)
    BY <1>1
  <2>3. QED
    BY <2>1, <2>2, <1>3, <1>5, <1>6
<1>8. Waiting(z) = Waiting(s) \union {t}
  BY <1>2, <1>7 DEF Waiting
<1>9. Apart(z, holders)
  <2>1. \A i \in 1..Len(q) : q[i] # t
    BY <1>6 DEF Waiting
  <2>2. \A i, j \in 1..Len(q) : q[i] = q[j] => i = j
    BY <1>1 DEF Apart, q
  <2>3. \A i, j \in 1..(Len(q) + 1) : z.queue[i] = z.queue[j] => i = j
    BY <1>3, <1>5, <2>1, <2>2
  <2>4. QED
    BY <1>1, <1>2, <1>3, <1>7, <1>8, <2>3 DEF Apart, Waiting
<1>10. Wakeful(z)
  BY <1>1, <1>2 DEF Wakeful, Locked, q
<1>11. Granted(z, holders) = Granted(s, holders)
  BY <1>2 DEF Granted
<1>12. InOrder(s, z)
  BY <1>1, <1>2 DEF InOrder, Apart, Sleepers
<1>13. QED
  BY <1>2, <1>4, <1>8, <1>9, <1>10, <1>11, <1>12 DEF Sound, z

\* release(): the caller is no holder any more, its permit is free or has
\* gone to the first sleeper.
LEMMA ReleaseSound ==
  ASSUME NEW T, IsFiniteSet(T), NEW holders \in SUBSET T, NEW limit,
         NEW s, Sound(s, T, holders, limit),
         NEW t \in holders
  PROVE  /\ Sound(Release(s), T, holders \ {t}, limit)
         /\ Waiting(Release(s)) = Waiting(s)
         /\ InOrder(s, Release(s))
<1> DEFINE u == [s EXCEPT !.value = @ + 1]
           n == Least(1, Len(u.queue))
           z == WakeUpNext(u, n)
           left == holders \ {t}
<1>1. /\ s \in Semaphores(T) /\ Apart(s, holders) /\ Wakeful(s)
      /\ s.value + Granted(s, holders) = limit
      /\ s.value \in Nat /\ s.woken \in SUBSET T
      /\ s.queue \in Seq(T) /\ Len(s.queue) \in Nat
  BY LenProperties DEF Sound, Semaphores
<1>2. /\ u \in Semaphores(T)
      /\ u.value = s.value + 1 /\ u.queue = s.queue /\ u.woken = s.woken
  BY <1>1 DEF Semaphores
<1>3. Release(s) = z
  BY DEF Release
<1> HIDE DEF u
<1>4. Sleepers(u) = Sleepers(s) /\ Waiting(u) = Waiting(s)
  BY <1>2 DEF Sleepers, Waiting
<1>5. Apart(u, left)
  BY <1>1, <1>2, <1>4 DEF Apart
<1>6. n \in Nat /\ n <= u.value /\ n <= Len(u.queue) /\ (n = 1 \/ Len(u.queue) = 0)
  BY <1>1, <1>2 DEF Least
<1> HIDE DEF n, z
<1>11. left \in SUBSET T
  OBVIOUS
<1> HIDE DEF left
<1>7. /\ z \in Semaphores(T)
      /\ Apart(z, left)
      /\ Waiting(z) = Waiting(u)
      /\ u.woken \subseteq z.woken
      /\ z.value = u.value - n
      /\ Len(z.queue) = Len(u.queue) - n
      /\ z.value + Granted(z, left) = u.value + Granted(u, left)
      /\ InOrder(u, z)
  BY <1>2, <1>5, <1>6, <1>11, WakeUpNextMoves DEF z
<1>8. Wakeful(z)
  <2>1. z.queue \in Seq(T) /\ Len(z.queue) \in Nat
    BY <1>7, LenProperties DEF Semaphores
  <2>2. CASE Len(u.queue) = 0
    <3>1. Len(z.queue) = 0
      BY <2>1, <2>2, <1>6, <1>7
    <3>2. QED
      BY <3>1, <2>1, EmptySeq DEF Wakeful
  <2>3. CASE n = 1 /\ Len(u.queue) # 0
    <3>1. s.queue # <<>>
      BY <2>3, <1>2
    <3>2. CASE s.value = 0
      BY <3>2, <2>3, <1>2, <1>7 DEF Wakeful
    <3>3. CASE s.value > 0
      BY <3>1, <3>3, <1>1, <1>2, <1>7 DEF Wakeful
    <3>4. QED
      BY <3>2, <3>3, <1>1
  <2>4. QED
    BY <2>2, <2>3, <1>6
<1>9. u.value + Granted(u, left) = limit
  <2>1. t \notin s.woken
    BY <1>1 DEF Apart, Waiting
  <2>2. u.woken \union left = (s.woken \union holders) \ {t}
    BY <2>1, <1>2 DEF left
  <2>3. IsFiniteSet(s.woken \union holders)
    BY <1>1, FS_Subset
  <2>4. Cardinality((s.woken \union holders) \ {t}) = Cardinality(s.woken \union holders) - 1
    BY <2>3, FS_RemoveElement
  <2>5. Cardinality(s.woken \union holders) \in Nat
    BY <2>3, FS_CardinalityType
  <2>6. Granted(u, left) = Granted(s, holders) - 1 /\ Granted(s, holders) \in Nat
    BY <2>2, <2>4, <2>5 DEF Granted
  <2>7. QED
    BY <1>1, <1>2, <2>6
<1>10. InOrder(s, z)
  BY <1>2, <1>7 DEF InOrder
<1>12. QED
  BY <1>3, <1>4, <1>7, <1>8, <1>9, <1>10 DEF Sound, left

\* A woken task resumes: it holds the permit that was on its way to it.
LEMMA ResumeSound ==
  ASSUME NEW T, IsFiniteSet(T), NEW holders \in SUBSET T, NEW limit,
         NEW s, Sound(s, T, holders, limit),
         NEW t \in s.woken
  PROVE  /\ Sound(Resume(s, t), T, holders \union {t}, limit)
         /\ Waiting(Resume(s, t)) = Waiting(s) \ {t}
         /\ t \in T \ holders
         /\ InOrder(s, Resume(s, t))
<1> DEFINE u == [s EXCEPT !.woken = @ \ {t}]
           more == holders \union {t}
<1>1. /\ s \in Semaphores(T) /\ Apart(s, holders)
      /\ s.value + Granted(s, holders) = limit
      /\ s.woken \in SUBSET T
  BY DEF Sound, Semaphores
<1>2. /\ u \in Semaphores(T)
      /\ u.value = s.value /\ u.queue = s.queue /\ u.woken = s.woken \ {t}
  BY <1>1 DEF Semaphores
<1>3. Resume(s, t) = WakeAll(u)
  BY DEF Resume
<1> HIDE DEF u
<1>4. Sleepers(u) = Sleepers(s) /\ t \notin Sleepers(s) /\ t \notin holders
  BY <1>1, <1>2 DEF Sleepers, Apart, Waiting
<1>5. Waiting(u) = Waiting(s) \ {t}
  BY <1>2, <1>4 DEF Waiting
<1>6. Apart(u, more)
  BY <1>1, <1>2, <1>4, <1>5 DEF Apart
<1>7. Granted(u, more) = Granted(s, holders)
  <2>1. u.woken \union more = s.woken \union holders
    BY <1>2
  <2>2. QED
    BY <2>1 DEF Granted
<1>8. u.value + Granted(u, more) = limit
  BY <1>1, <1>2, <1>7
<1>9. more \in SUBSET T
  BY <1>1
<1> HIDE DEF more
<1>10. /\ Sound(WakeAll(u), T, more, u.value + Granted(u, more))
       /\ Waiting(WakeAll(u)) = Waiting(u)
       /\ InOrder(u, WakeAll(u))
  BY <1>2, <1>6, <1>9, WakeAllMoves
<1>11. InOrder(s, WakeAll(u))
  BY <1>2, <1>10 DEF InOrder
<1>12. QED
  BY <1>1, <1>3, <1>4, <1>5, <1>8, <1>10, <1>11 DEF more

Entries(q) == {q[i] : i \in DOMAIN q}

\* queue.remove(t) takes t out of the queue and nobody else, the others keep
\* their order.
LEMMA WithoutRemoves ==
  ASSUME NEW T, NEW q \in Seq(T), NEW at \in DOMAIN q,
         \A i, j \in DOMAIN q : q[i] = q[j] => i = j
  PROVE  LET z == Without(q, q[at])
         IN  /\ z \in Seq(T)
             /\ \A i, j \in DOMAIN z : z[i] = z[j] => i = j
             /\ Entries(z) = Entries(q) \ {q[at]}
             /\ \A i, j \in DOMAIN q \ {at} : i < j =>
                  \E k, m \in DOMAIN z : k < m /\ z[k] = q[i] /\ z[m] = q[j]
<1> DEFINE n == Len(q)
           f == [i \in 1..(n - 1) |-> IF i < at THEN q[i] ELSE q[i + 1]]
<1>1. n \in Nat /\ DOMAIN q = 1..n /\ at \in 1..n /\ \A i \in 1..n : q[i] \in T
  BY LenProperties, ElementOfSeq
<1>2. (CHOOSE i \in DOMAIN q : q[i] = q[at]) = at
  OBVIOUS
<1>3. Without(q, q[at]) = f
  BY <1>2 DEF Without
<1> HIDE DEF n
<1>4. \A i \in 1..(n - 1) : i \in 1..n /\ i + 1 \in 1..n /\ (i < at \/ i + 1 > at)
  BY <1>1
<1>5. f \in Seq(T) /\ DOMAIN f = 1..(n - 1)
  <2>1. f \in [1..(n - 1) -> T]
    BY <1>1, <1>4
  <2>2. n - 1 \in Nat
    BY <1>1
  <2> HIDE DEF f
  <2>3. QED
    BY <2>1, <2>2, SeqDef
<1>6. \A i \in 1..(n - 1) : f[i] = IF i < at THEN q[i] ELSE q[i + 1]
  OBVIOUS
<1> HIDE DEF f
<1>7. ASSUME NEW i \in 1..(n - 1), NEW j \in 1..(n - 1), f[i] = f[j]
      PROVE  i = j
  <2> DEFINE k == IF i < at THEN i ELSE i + 1
             m == IF j < at THEN j ELSE j + 1
  <2>1. k \in 1..n /\ m \in 1..n /\ (k = m => i = j)
    BY <1>1
  <2>2. f[i] = q[k] /\ f[j] = q[m]
    BY <1>6
  <2> HIDE DEF k, m
  <2>3. QED
    BY <1>1, <1>7, <2>1, <2>2
<1>8. ASSUME NEW i \in 1..(n - 1)
      PROVE  f[i] \in {q[k] : k \in 1..n} \ {q[at]}
  <2> DEFINE k == IF i < at THEN i ELSE i + 1
  <2>1. k \in 1..n /\ k # at
    BY <1>1
  <2>2. f[i] = q[k]
    BY <1>6
  <2> HIDE DEF k
  <2>3. QED
    BY <1>1, <2>1, <2>2
<1>9. ASSUME NEW k \in 1..n, k # at
      PROVE  \E i \in 1..(n - 1) : f[i] = q[k]
  <2>1. CASE k < at
    <3>1. k \in 1..(n - 1)
      BY <1>1, <2>1
    <3>2. QED
      BY <1>6, <2>1, <3>1
  <2>2. CASE k > at
    <3>1. k - 1 \in 1..(n - 1) /\ ~(k - 1 < at) /\ (k - 1) + 1 = k
      BY <1>1, <2>2
    <3>2. QED
      BY <1>6, <3>1
  <2>3. QED
    BY <1>1, <1>9, <2>1, <2>2
<1>10. {f[i] : i \in 1..(n - 1)} = {q[i] : i \in 1..n} \ {q[at]}
  BY <1>8, <1>9
<1>11. Entries(f) = Entries(q) \ {q[at]}
  BY <1>1, <1>5, <1>10 DEF Entries
<1>12. ASSUME NEW i \in 1..n, NEW j \in 1..n, i # at, j # at, i < j
       PROVE  \E k, m \in 1..(n - 1) : k < m /\ f[k] = q[i] /\ f[m] = q[j]
  <2> DEFINE k == IF i < at THEN i ELSE i - 1
             m == IF j < at THEN j ELSE j - 1
  <2>1. k \in 1..(n - 1) /\ m \in 1..(n - 1) /\ k < m
    BY <1>1, <1>12
  <2>2. (IF k < at THEN k ELSE k + 1) = i /\ (IF m < at THEN m ELSE m + 1) = j
    BY <1>1, <1>12
  <2> HIDE DEF k, m
  <2>3. f[k] = q[i] /\ f[m] = q[j]
    BY <1>6, <2>1, <2>2
  <2>4. QED
    BY <2>1, <2>3
<1>13. \A i, j \in DOMAIN q \ {at} : i < j =>
         \E k, m \in DOMAIN f : k < m /\ f[k] = q[i] /\ f[m] = q[j]
  <2> TAKE i, j \in DOMAIN q \ {at}
  <2> HAVE i < j
  <2>1. i \in 1..n /\ j \in 1..n /\ i # at /\ j # at
    BY <1>1
  <2>2. \E k, m \in 1..(n - 1) : k < m /\ f[k] = q[i] /\ f[m] = q[j]
    BY <1>12, <2>1
  <2>3. QED
    BY <1>5, <2>2
<1>14. \A i, j \in DOMAIN f : f[i] = f[j] => i = j
  BY <1>5, <1>7
<1>15. QED
  BY <1>3, <1>5, <1>11, <1>13, <1>14

\* A cancelled acquire() leaves the waiters and takes no permit with it.
LEMMA AbandonSound ==
  ASSUME NEW T, IsFiniteSet(T), NEW holders \in SUBSET T, NEW limit,
         NEW s, Sound(s, T, holders, limit),
         NEW t \in Waiting(s)
  PROVE  /\ Sound(Abandon(s, t), T, holders, limit)
         /\ Waiting(Abandon(s, t)) = Waiting(s) \ {t}
         /\ InOrder(s, Abandon(s, t))
<1>1. /\ s \in Semaphores(T) /\ Apart(s, holders)
      /\ s.value + Granted(s, holders) = limit
      /\ s.value \in Nat /\ s.woken \in SUBSET T /\ s.queue \in Seq(T)
  BY DEF Sound, Semaphores
<1>2. CASE t \in s.woken
  <2> DEFINE u == [value |-> s.value + 1, queue |-> s.queue, woken |-> s.woken \ {t}]
  <2>1. /\ u \in Semaphores(T)
        /\ u.value = s.value + 1 /\ u.queue = s.queue /\ u.woken = s.woken \ {t}
    BY <1>1 DEF Semaphores
  <2>2. Abandon(s, t) = WakeAll(u)
    BY <1>2 DEF Abandon
  <2> HIDE DEF u
  <2>3. Sleepers(u) = Sleepers(s) /\ t \notin Sleepers(s) /\ t \notin holders
    BY <1>1, <1>2, <2>1 DEF Sleepers, Apart, Waiting
  <2>4. Waiting(u) = Waiting(s) \ {t}
    BY <2>1, <2>3 DEF Waiting
  <2>5. Apart(u, holders)
    BY <1>1, <2>1, <2>3, <2>4 DEF Apart
  <2>6. u.value + Granted(u, holders) = limit
    <3>1. u.woken \union holders = (s.woken \union holders) \ {t}
      BY <2>1, <2>3
    <3>2. IsFiniteSet(s.woken \union holders)
      BY <1>1, FS_Subset
    <3>3. Cardinality((s.woken \union holders) \ {t})
            = Cardinality(s.woken \union holders) - 1
      BY <1>2, <3>2, FS_RemoveElement
    <3>4. Cardinality(s.woken \union holders) \in Nat
      BY <3>2, FS_CardinalityType
    <3>5. Granted(u, holders) = Granted(s, holders) - 1 /\ Granted(s, holders) \in Nat
      BY <3>1, <3>3, <3>4 DEF Granted
    <3>6. QED
      BY <1>1, <2>1, <3>5
  <2>7. /\ Sound(WakeAll(u), T, holders, u.value + Granted(u, holders))
        /\ Waiting(WakeAll(u)) = Waiting(u)
        /\ InOrder(u, WakeAll(u))
    BY <2>1, <2>5, WakeAllMoves
  <2>8. InOrder(s, WakeAll(u))
    BY <2>1, <2>7 DEF InOrder
  <2>9. QED
    BY <2>2, <2>4, <2>6, <2>7, <2>8
<1>3. CASE t \notin s.woken
  <2> DEFINE u == [s EXCEPT !.queue = Without(@, t)]
  <2>1. PICK at \in DOMAIN s.queue : s.queue[at] = t
    BY <1>3 DEF Waiting, Sleepers
  <2>2. \A i, j \in DOMAIN s.queue : s.queue[i] = s.queue[j] => i = j
    BY <1>1 DEF Apart
  <2> DEFINE w == Without(s.queue, t)
  <2>3. /\ w \in Seq(T)
        /\ \A i, j \in DOMAIN w : w[i] = w[j] => i = j
        /\ Entries(w) = Sleepers(s) \ {t}
        /\ \A i, j \in DOMAIN s.queue \ {at} : i < j =>
             \E k, m \in DOMAIN w : k < m /\ w[k] = s.queue[i] /\ w[m] = s.queue[j]
    <3> DEFINE q == s.queue
    <3>1. q \in Seq(T) /\ (\A i, j \in DOMAIN q : q[i] = q[j] => i = j) /\ at \in DOMAIN q
      BY <1>1, <2>2
    <3>2. w = Without(q, q[at]) /\ Sleepers(s) = Entries(q) /\ t = q[at]
      BY <2>1 DEF Sleepers, Entries
    <3> HIDE DEF q, w
    <3>3. /\ w \in Seq(T)
          /\ \A i, j \in DOMAIN w : w[i] = w[j] => i = j
          /\ Entries(w) = Sleepers(s) \ {t}
          /\ \A i, j \in DOMAIN q \ {at} : i < j =>
               \E k, m \in DOMAIN w : k < m /\ w[k] = q[i] /\ w[m] = q[j]
      BY <3>1, <3>2, WithoutRemoves
    <3>4. QED
      BY <3>3 DEF q
  <2>4. /\ u \in Semaphores(T)
        /\ u.value = s.value /\ u.queue = Without(s.queue, t) /\ u.woken = s.woken
    BY <1>1, <2>3 DEF Semaphores
  <2>5. Abandon(s, t) = WakeAll(u)
    BY <1>3 DEF Abandon
  <2> HIDE DEF u
  <2>6. Sleepers(u) = Sleepers(s) \ {t}
    <3>1. Entries(w) = Sleepers(s) \ {t} /\ u.queue = w
      BY <2>3, <2>4
    <3>2. QED
      BY <3>1 DEF Sleepers, Entries
  <2>7. Waiting(u) = Waiting(s) \ {t}
    BY <1>3, <2>4, <2>6 DEF Waiting
  <2>8. Apart(u, holders)
    BY <1>1, <2>3, <2>4, <2>6, <2>7 DEF Apart
  <2>9. Granted(u, holders) = Granted(s, holders)
    BY <2>4 DEF Granted
  <2>10. /\ Sound(WakeAll(u), T, holders, u.value + Granted(u, holders))
         /\ Waiting(WakeAll(u)) = Waiting(u)
         /\ InOrder(u, WakeAll(u))
    BY <2>4, <2>8, WakeAllMoves
  <2>11. InOrder(s, WakeAll(u))
    <3> DEFINE z == WakeAll(u)
    <3> SUFFICES ASSUME NEW i \in DOMAIN s.queue, NEW j \in DOMAIN s.queue, i < j,
                        s.queue[j] \in z.woken, s.queue[i] \in Sleepers(z)
                 PROVE  FALSE
      BY DEF InOrder
    <3>1. s.queue[i] # t /\ s.queue[j] # t
      BY <2>7, <2>10 DEF Waiting
    <3>2. i # at /\ j # at
      BY <2>1, <3>1
    <3>3. PICK k, m \in DOMAIN u.queue : k < m /\ u.queue[k] = s.queue[i]
                                              /\ u.queue[m] = s.queue[j]
      BY <2>3, <2>4, <3>2
    <3>4. QED
      BY <2>10, <3>3 DEF InOrder
  <2>12. QED
    BY <1>1, <2>4, <2>5, <2>7, <2>9, <2>10, <2>11
<1>4. QED
  BY <1>2, <1>3
=============================================================================
