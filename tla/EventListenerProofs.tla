------------------------- MODULE EventListenerProofs -------------------------
(***************************************************************************)
(* Theorems about EventListener, for any number of triggers, any topics    *)
(* and debounce windows, any tick interval and any number of messages.     *)
(***************************************************************************)
EXTENDS EventListener, TLAPS

Alive == tick \in {"sleep", "waiting", "running"}
Submitting == tick \in {"waiting", "running"}

\* Debouncers know what happened to their triggers.
DebouncersAreExact == age = silence /\ owed = pending

\* How late triggers are at each point of the tick task: nothing that is late has
\* been passed over, and the rest of a sleep still fits.
LateBounds ==
  /\ \A i \in Trigger : late[i] > 0 => Due(i)
  /\ tick = "none" => \A i \in Trigger : late[i] = 0
  /\ tick = "sleep" => \A i \in Trigger : late[i] + timer <= TickInterval
  /\ Submitting => \A i \in Trigger : i <= current => late[i] = 0

\* What shutdown has behind it at each of its awaits.
StopProgress ==
  /\ current = 0 <=> ~Submitting
  /\ runPc = "subscribing" => tick = "none" /\ listener = "none"
  /\ stopPc = "no" => listener # "cancelled"
  /\ stopPc = "done" => runPc # "subscribing"
  /\ stopPc # "no" /\ ~early =>
       /\ runPc # "subscribing"
       /\ stopPc # "listener" => listener \in {"none", "ended"}
       /\ stopPc \in {"unsubscribe", "done"} => ~Alive

ListenerInv ==
  TypeOK /\ DebouncersAreExact /\ DueWithinOneSleep /\ LateBounds /\ StopProgress

USE DEF Trigger, Alive, Submitting

LEMMA DelayIsPositive == Delay \in [Trigger -> Nat] /\ \A i \in Trigger : Delay[i] > 0
  BY DebounceAssumption DEF Delay

LEMMA ListenerInit == Init => ListenerInv
<1> SUFFICES ASSUME Init PROVE ListenerInv
  OBVIOUS
<1> USE DelayIsPositive, TriggersAssumption, TickAssumption, MessagesAssumption
<1>1. TypeOK
  <2>1. /\ age \in [Trigger -> Nat] /\ silence \in [Trigger -> Nat]
        /\ \A i \in Trigger : age[i] <= Delay[i] /\ silence[i] <= Delay[i]
    BY DEF Init
  <2>2. /\ pending \in [Trigger -> BOOLEAN] /\ owed \in [Trigger -> BOOLEAN]
        /\ late \in [Trigger -> 0..(TickInterval + 1)]
    BY DEF Init
  <2>3. timer \in 0..TickInterval /\ current \in 0..N /\ received \in 0..MaxMessages
    BY DEF Init
  <2>4. QED
    BY <2>1, <2>2, <2>3 DEF Init, TypeOK
<1>2. DebouncersAreExact /\ StopProgress
  BY DEF Init, DebouncersAreExact, StopProgress
<1>3. DueWithinOneSleep /\ LateBounds
  BY DEF Init, DueWithinOneSleep, LateBounds
<1>4. QED
  BY <1>1, <1>2, <1>3 DEF ListenerInv
-----------------------------------------------------------------------------
(* The tick task.                                                          *)

\* Scan from trigger k on, when everything before k is on time.
LEMMA ScanKeeps ==
  ASSUME ListenerInv, NEW k \in Nat, k >= 1, Scan(k), Alive,
         \A i \in Trigger : i < k => late[i] = 0,
         UNCHANGED <<age, listener, runPc, stopPc, received, silence, early>>,
         cancel' \in {"no", "requested", "swallowed"}
  PROVE  ListenerInv'
<1> USE TriggersAssumption, TickAssumption, MessagesAssumption, DelayIsPositive
<1>0. TypeOK /\ DebouncersAreExact /\ DueWithinOneSleep /\ LateBounds /\ StopProgress
  BY DEF ListenerInv
<1>1. ASSUME NEW i \in k..N, Due(i), \A j \in k..(i - 1) : ~Due(j), Fire(i)
      PROVE  ListenerInv'
  <2>1. i \in Trigger
    BY <1>1
  <2>2. /\ pending' = [pending EXCEPT ![i] = FALSE] /\ owed' = [owed EXCEPT ![i] = FALSE]
        /\ late' = [late EXCEPT ![i] = 0]
        /\ tick' = "waiting" /\ current' = i /\ timer' = 0
    BY <1>1 DEF Fire
  <2>3. \A j \in Trigger : j <= i => late'[j] = 0
    <3> SUFFICES ASSUME NEW j \in Trigger, j <= i PROVE late'[j] = 0
      OBVIOUS
    <3>1. late \in [Trigger -> 0..(TickInterval + 1)]
      BY <1>0 DEF TypeOK
    <3>2. CASE j < k
      BY <2>1, <2>2, <3>1, <3>2
    <3>3. CASE j >= k /\ j < i
      <4>1. ~Due(j)
        BY <1>1, <3>3
      <4>2. late[j] = 0
        BY <1>0, <4>1 DEF LateBounds, TypeOK
      <4>3. QED
        BY <2>2, <3>1, <3>3, <4>2
    <3>4. CASE j = i
      BY <2>1, <2>2, <3>1, <3>4
    <3>5. QED
      BY <3>2, <3>3, <3>4, <2>1
  <2>4. TypeOK'
    BY <1>0, <2>1, <2>2 DEF TypeOK
  <2>5. DebouncersAreExact' /\ StopProgress'
    BY <1>0, <2>1, <2>2 DEF DebouncersAreExact, StopProgress, TypeOK
  <2>6. \A j \in Trigger : late'[j] > 0 => late'[j] = late[j] /\ pending'[j] = pending[j]
    <3>1. late'[i] = 0
      BY <2>1, <2>3, TriggersAssumption
    <3>2. \A j \in Trigger : j # i => late'[j] = late[j] /\ pending'[j] = pending[j]
      BY <1>0, <2>2 DEF TypeOK
    <3>3. QED
      BY <3>1, <3>2
  <2>7. DueWithinOneSleep' /\ LateBounds'
    BY <1>0, <2>2, <2>3, <2>4, <2>6 DEF DueWithinOneSleep, LateBounds, Due, TypeOK
  <2>8. QED
    BY <2>4, <2>5, <2>7 DEF ListenerInv
<1>2. ASSUME \A i \in k..N : ~Due(i), Sleep, current' = 0, UNCHANGED <<pending, owed, late>>
      PROVE  ListenerInv'
  <2>1. tick' = "sleep" /\ timer' = TickInterval
    BY <1>2 DEF Sleep
  <2>2. \A i \in Trigger : late'[i] = 0
    BY <1>0, <1>2 DEF LateBounds, TypeOK
  <2>3. TypeOK'
    <3>1. timer' \in 0..TickInterval /\ current' \in 0..N
      BY <1>2, <2>1
    <3>2. QED
      BY <1>0, <1>2, <2>1, <3>1 DEF TypeOK
  <2>4. DebouncersAreExact' /\ StopProgress'
    BY <1>0, <1>2, <2>1 DEF DebouncersAreExact, StopProgress
  <2>5. DueWithinOneSleep' /\ LateBounds'
    BY <2>1, <2>2 DEF DueWithinOneSleep, LateBounds
  <2>6. QED
    BY <2>3, <2>4, <2>5 DEF ListenerInv
<1>3. QED
  BY <1>1, <1>2 DEF Scan
-----------------------------------------------------------------------------
(* The other actions.                                                      *)

\* Steps that leave debouncers and the tick task alone.
LEMMA QuietKeeps ==
  ASSUME ListenerInv, UNCHANGED <<pending, age, tick, timer, current, received,
                                  silence, owed, late>>
  PROVE  DebouncersAreExact' /\ DueWithinOneSleep' /\ LateBounds'
  BY DEF ListenerInv, DebouncersAreExact, DueWithinOneSleep, LateBounds, Due

LEMMA RunKeeps ==
  ASSUME ListenerInv, Subscribed \/ SubscribeFails \/ SubscriptionLost
  PROVE  ListenerInv'
<1> USE TriggersAssumption, TickAssumption
<1>0. TypeOK /\ DebouncersAreExact /\ DueWithinOneSleep /\ LateBounds /\ StopProgress
  BY DEF ListenerInv
<1>1. CASE Subscribed
  <2>1. tick = "none" /\ tick' = "sleep" /\ timer' = TickInterval
    BY <1>0, <1>1 DEF Subscribed, Sleep, StopProgress
  <2>2. TypeOK' /\ DebouncersAreExact' /\ StopProgress'
    BY <1>0, <1>1, <2>1
       DEF Subscribed, history, TypeOK, DebouncersAreExact, StopProgress
  <2>3. DueWithinOneSleep' /\ LateBounds'
    BY <1>0, <1>1, <2>1 DEF Subscribed, history, DueWithinOneSleep, LateBounds, Due
  <2>4. QED
    BY <2>2, <2>3 DEF ListenerInv
<1>2. CASE SubscribeFails \/ SubscriptionLost
  <2>1. TypeOK' /\ StopProgress'
    BY <1>0, <1>2 DEF SubscribeFails, SubscriptionLost, history, TypeOK, StopProgress
  <2>2. QED
    BY <1>2, <2>1, QuietKeeps DEF SubscribeFails, SubscriptionLost, history, ListenerInv
<1>3. QED
  BY <1>1, <1>2

LEMMA MessageKeeps ==
  ASSUME ListenerInv, NEW topic \in Topic, HandleMessage(topic)
  PROVE  ListenerInv'
<1> USE TriggersAssumption, TickAssumption, MessagesAssumption, DelayIsPositive
<1> DEFINE S == {i \in Trigger : topic \in Topics[i]}
<1>0. TypeOK /\ DebouncersAreExact /\ DueWithinOneSleep /\ LateBounds /\ StopProgress
  BY DEF ListenerInv
<1>1. /\ pending' = [i \in Trigger |-> i \in S \/ pending[i]]
      /\ owed' = [i \in Trigger |-> i \in S \/ owed[i]]
      /\ age' = [i \in Trigger |-> IF i \in S THEN 0 ELSE age[i]]
      /\ silence' = [i \in Trigger |-> IF i \in S THEN 0 ELSE silence[i]]
      /\ late' = [i \in Trigger |-> IF i \in S THEN 0 ELSE late[i]]
      /\ received < MaxMessages /\ received' = received + 1
      /\ UNCHANGED <<listener, tick, timer, current, cancel, runPc, stopPc, early>>
  BY DEF HandleMessage, Mark
<1> HIDE DEF S
<1>2. pending' \in [Trigger -> BOOLEAN] /\ owed' = pending'
  BY <1>0, <1>1 DEF TypeOK, DebouncersAreExact
<1>3. /\ age' \in [Trigger -> Nat] /\ silence' = age'
      /\ \A i \in Trigger : age'[i] <= Delay[i]
  BY <1>0, <1>1 DEF TypeOK, DebouncersAreExact
<1>4. late' \in [Trigger -> 0..(TickInterval + 1)] /\ \A i \in Trigger : late'[i] <= late[i]
  BY <1>0, <1>1 DEF TypeOK
<1>5. TypeOK'
  BY <1>0, <1>1, <1>2, <1>3, <1>4 DEF TypeOK
<1>6. DebouncersAreExact' /\ StopProgress'
  BY <1>0, <1>1, <1>2, <1>3 DEF DebouncersAreExact, StopProgress
<1>7. \A i \in Trigger : late'[i] > 0 => Due(i)'
  BY <1>0, <1>1 DEF LateBounds, Due, TypeOK
<1>8. DueWithinOneSleep' /\ LateBounds'
  BY <1>0, <1>1, <1>4, <1>7 DEF DueWithinOneSleep, LateBounds, TypeOK
<1>9. QED
  BY <1>5, <1>6, <1>8 DEF ListenerInv

LEMMA TickTaskKeeps ==
  ASSUME ListenerInv, Wake \/ Admitted \/ SubmitEnds \/ TickCancelled \/ CancelSwallowed
  PROVE  ListenerInv'
<1> USE TriggersAssumption, TickAssumption
<1>0. TypeOK /\ DebouncersAreExact /\ DueWithinOneSleep /\ LateBounds /\ StopProgress
  BY DEF ListenerInv
<1>1. CASE Wake
  <2>1. \A i \in Trigger : i < 1 => late[i] = 0
    OBVIOUS
  <2>2. QED
    BY <1>0, <1>1, <2>1, ScanKeeps DEF Wake, TypeOK
<1>2. CASE SubmitEnds \/ CancelSwallowed
  <2>1. Submitting /\ current + 1 \in Nat /\ current + 1 >= 1
    BY <1>0, <1>2 DEF SubmitEnds, CancelSwallowed, TypeOK
  <2>2. \A i \in Trigger : i < current + 1 => late[i] = 0
    BY <1>0, <2>1 DEF LateBounds, TypeOK
  <2>3. QED
    BY <1>0, <1>2, <2>1, <2>2, ScanKeeps DEF SubmitEnds, CancelSwallowed, TypeOK
<1>3. CASE Admitted \/ TickCancelled
  <2>1. TypeOK'
    <3>1. timer' \in 0..TickInterval /\ current' \in 0..N
      BY <1>0, <1>3 DEF Admitted, TickCancelled, TypeOK
    <3>2. QED
      BY <1>0, <1>3, <3>1 DEF Admitted, TickCancelled, history, TypeOK
  <2>4. DebouncersAreExact' /\ StopProgress'
    BY <1>0, <1>3 DEF Admitted, TickCancelled, history, DebouncersAreExact, StopProgress
  <2>2. DueWithinOneSleep' /\ LateBounds'
    BY <1>0, <1>3
       DEF Admitted, TickCancelled, history, DueWithinOneSleep, LateBounds, Due
  <2>3. QED
    BY <2>1, <2>2, <2>4 DEF ListenerInv
<1>4. QED
  BY <1>1, <1>2, <1>3

LEMMA ShutdownKeeps ==
  ASSUME ListenerInv,
         \/ Stop \/ ListenerCancelled \/ ListenerAwaited \/ TickAwaited \/ Unsubscribed
         \/ UNCHANGED vars
  PROVE  ListenerInv'
<1>0. TypeOK /\ StopProgress
  BY DEF ListenerInv
<1>1. UNCHANGED <<pending, age, tick, timer, current, received, silence, owed, late>>
  BY DEF Stop, ListenerCancelled, ListenerAwaited, TickAwaited, Unsubscribed, vars, code,
         history
<1>2. TypeOK' /\ StopProgress'
  <2>1. CASE Stop
    BY <1>0, <2>1 DEF Stop, CancelTick, TypeOK, StopProgress
  <2>2. CASE ListenerCancelled
    BY <1>0, <2>2 DEF ListenerCancelled, history, TypeOK, StopProgress
  <2>3. CASE ListenerAwaited
    BY <1>0, <2>3 DEF ListenerAwaited, CancelTick, history, TypeOK, StopProgress
  <2>4. CASE TickAwaited \/ Unsubscribed
    BY <1>0, <2>4 DEF TickAwaited, Unsubscribed, history, TypeOK, StopProgress
  <2>5. CASE UNCHANGED vars
    BY <1>0, <2>5 DEF vars, code, history, TypeOK, StopProgress
  <2>6. QED
    BY <2>1, <2>2, <2>3, <2>4, <2>5
<1>3. QED
  BY <1>1, <1>2, QuietKeeps DEF ListenerInv

LEMMA ExitKeeps ==
  ASSUME ListenerInv, Exit
  PROVE  ListenerInv'
<1> USE TickAssumption, TriggersAssumption
<1>0. timer' \in 0..TickInterval /\ current' \in 0..N
  BY DEF Exit
<1>1. TypeOK'
  BY <1>0 DEF Exit, history, ListenerInv, TypeOK
<1>2. DebouncersAreExact' /\ StopProgress'
  BY DEF Exit, history, ListenerInv, DebouncersAreExact, StopProgress
<1>3. DueWithinOneSleep' /\ LateBounds'
  BY DEF Exit, history, ListenerInv, DueWithinOneSleep, LateBounds, Due
<1>4. QED
  BY <1>1, <1>2, <1>3 DEF ListenerInv

LEMMA ElapseKeeps ==
  ASSUME ListenerInv, Elapse
  PROVE  ListenerInv'
<1> USE TriggersAssumption, TickAssumption, DelayIsPositive
<1> DEFINE asleep == tick = "sleep"
           counts(i) == asleep /\ owed[i] /\ silence[i] >= Delay[i] /\ late[i] <= TickInterval
<1>0. TypeOK /\ DebouncersAreExact /\ DueWithinOneSleep /\ LateBounds /\ StopProgress
  BY DEF ListenerInv
<1>1. /\ asleep => timer > 0
      /\ timer' = IF asleep THEN timer - 1 ELSE timer
      /\ age' = [i \in Trigger |-> IF age[i] < Delay[i] THEN age[i] + 1 ELSE age[i]]
      /\ silence' = [i \in Trigger |->
                       IF silence[i] < Delay[i] THEN silence[i] + 1 ELSE silence[i]]
      /\ late' = [i \in Trigger |-> IF counts(i) THEN late[i] + 1 ELSE late[i]]
      /\ UNCHANGED <<pending, listener, tick, current, cancel, runPc, stopPc, received,
                     owed, early>>
  BY DEF Elapse
<1>2. age' \in [Trigger -> Nat] /\ silence' = age'
  BY <1>0, <1>1 DEF TypeOK, DebouncersAreExact
<1>3. \A i \in Trigger : age'[i] <= Delay[i] /\ age'[i] >= age[i]
  BY <1>0, <1>1 DEF TypeOK
<1>4. \A i \in Trigger : late'[i] = IF counts(i) THEN late[i] + 1 ELSE late[i]
  BY <1>1
<1>5. late' \in [Trigger -> 0..(TickInterval + 1)]
  BY <1>0, <1>1 DEF TypeOK
<1>6. timer' \in 0..TickInterval
  BY <1>0, <1>1 DEF TypeOK
<1>7. TypeOK'
  BY <1>0, <1>1, <1>2, <1>3, <1>5, <1>6 DEF TypeOK
<1>8. DebouncersAreExact' /\ StopProgress'
  BY <1>0, <1>1, <1>2 DEF DebouncersAreExact, StopProgress
<1>9. \A i \in Trigger : late'[i] > 0 => Due(i)'
  <2>0. ASSUME NEW i \in Trigger, pending[i], age[i] >= Delay[i]
        PROVE  Due(i)'
    <3>1. age'[i] >= Delay[i]
      BY <1>0, <1>2, <1>3, <2>0 DEF TypeOK
    <3>2. QED
      BY <1>1, <2>0, <3>1 DEF Due, Delay
  <2> SUFFICES ASSUME NEW i \in Trigger, late'[i] > 0
               PROVE  pending[i] /\ age[i] >= Delay[i]
    BY <2>0
  <2>1. CASE counts(i)
    BY <1>0, <2>1 DEF DebouncersAreExact
  <2>2. CASE ~counts(i)
    BY <1>0, <1>4, <2>2 DEF LateBounds, Due
  <2>3. QED
    BY <2>1, <2>2
<1>10. asleep => \A i \in Trigger : late'[i] + timer' <= TickInterval
  <2> SUFFICES ASSUME asleep, NEW i \in Trigger
               PROVE  late'[i] + timer' <= TickInterval
    OBVIOUS
  <2>1. late[i] + timer <= TickInterval /\ late[i] \in Nat /\ timer \in Nat
    BY <1>0 DEF LateBounds, TypeOK
  <2>2. timer' = timer - 1 /\ late'[i] \in {late[i], late[i] + 1}
    BY <1>1, <1>4
  <2>3. QED
    BY <2>1, <2>2
<1>11. ~asleep => late' = late
  BY <1>0, <1>1 DEF TypeOK
<1>12. DueWithinOneSleep' /\ LateBounds'
  <2>1. CASE asleep
    BY <1>1, <1>5, <1>6, <1>9, <1>10, <2>1 DEF DueWithinOneSleep, LateBounds
  <2>2. CASE ~asleep
    BY <1>0, <1>1, <1>9, <1>11, <2>2 DEF DueWithinOneSleep, LateBounds
  <2>3. QED
    BY <2>1, <2>2
<1>13. QED
  BY <1>7, <1>8, <1>12 DEF ListenerInv

LEMMA ListenerStep == ListenerInv /\ [Next]_vars => ListenerInv'
  BY RunKeeps, MessageKeeps, TickTaskKeeps, ShutdownKeeps, ExitKeeps, ElapseKeeps DEF Next
-----------------------------------------------------------------------------
(* The theorems.                                                           *)

\* The inductive invariant: debouncers know what happened to their triggers, nothing
\* late was passed over, and stop() has behind it what it awaited.
THEOREM ListenerInvariant == Spec => []ListenerInv
<1>1. QED
  BY ListenerInit, ListenerStep, PTL DEF Spec

\* Every variable keeps its type.
THEOREM TypeCorrect == Spec => []TypeOK
<1>1. ListenerInv => TypeOK
  BY DEF ListenerInv
<1>2. QED
  BY <1>1, ListenerInvariant, PTL

\* A trigger that is due waits for at most one sleep of the tick task, however many
\* triggers there are and however long their submits take.
THEOREM DueSoon == Spec => []DueWithinOneSleep
<1>1. ListenerInv => DueWithinOneSleep
  BY DEF ListenerInv
<1>2. QED
  BY <1>1, ListenerInvariant, PTL

\* stop() leaves no task and no run behind, unless it came before run() had
\* subscribed.
THEOREM StopIsCompleted == Spec => []StopIsComplete
<1>1. ListenerInv => StopIsComplete
  BY DEF ListenerInv, TypeOK, StopProgress, StopIsComplete
<1>2. QED
  BY <1>1, ListenerInvariant, PTL

\* submit() is called only after a whole window of silence, whatever the tick task
\* was kept from by other submits.
THEOREM SilenceComesFirst == Spec => SubmitsInSilence
<1> DEFINE Silent == \A i \in Trigger : current' = i /\ current # i => silence[i] >= Delay[i]
<1>1. ListenerInv /\ [Next]_vars => [Silent]_vars
  <2> SUFFICES ASSUME ListenerInv, Next, NEW i \in Trigger, current' = i, current # i
               PROVE  silence[i] >= Delay[i]
    OBVIOUS
  <2>1. current' # 0 /\ current' # current
    BY TriggersAssumption
  <2>2. Wake \/ SubmitEnds \/ CancelSwallowed
    BY <2>1 DEF Next, Subscribed, SubscribeFails, SubscriptionLost, HandleMessage, Admitted,
         TickCancelled, Stop, ListenerCancelled, ListenerAwaited, TickAwaited, Unsubscribed,
         Exit, Elapse
  <2>3. PICK k \in Int : Scan(k)
    BY <2>2, TriggersAssumption DEF Wake, SubmitEnds, CancelSwallowed, ListenerInv, TypeOK
  <2>4. Due(i)
    BY <2>1, <2>3 DEF Scan, Fire
  <2>5. QED
    BY <2>4 DEF Due, ListenerInv, DebouncersAreExact
<1>2. QED
  BY <1>1, ListenerInvariant, PTL DEF Spec, SubmitsInSilence
=============================================================================
