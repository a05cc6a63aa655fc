---------------------------- MODULE EventListener ----------------------------
(***************************************************************************)
(* The Redis listener of one service process: run() subscribes and starts  *)
(* two tasks, one that marks debouncers as messages arrive and one that    *)
(* wakes up every few seconds and submits a run for each debouncer that is *)
(* due.  stop() cancels both at shutdown.  The two tasks, stop() and run() *)
(* interleave at their awaits.  submit() is the one of RunExecutor, here   *)
(* only as long as it takes: it waits, it may run, and it is over.         *)
(***************************************************************************)
EXTENDS Integers

CONSTANTS
  N,            \* event triggers of the enabled agents, in the order of _states
  Topic,
  Topics,       \* the topics each trigger listens to
  Debounce,     \* debounce_minutes of each trigger, in units of time
  TickInterval, \* _TICK_INTERVAL, in units of time
  MaxMessages,  \* bound: messages received
  Faults        \* what may go wrong: see FaultKinds

FaultKinds == {"subscribeError", "subscriptionError", "closeError"}
Trigger == 1..N

ASSUME TriggersAssumption == N \in Nat
ASSUME TopicsAssumption == Topics \in [Trigger -> SUBSET Topic]
ASSUME DebounceAssumption == Debounce \in [Trigger -> Int]
ASSUME TickAssumption == TickInterval \in Nat \ {0}
ASSUME MessagesAssumption == MaxMessages \in Nat
ASSUME FaultsAssumption == Faults \subseteq FaultKinds

VARIABLES
  pending,   \* Debouncer._pending
  age,       \* the time since Debouncer._last_mark, at most the delay
  listener,  \* the listener task
  tick,      \* the tick task: asleep, waiting for a run in submit(), running
  timer,     \* what is left of its sleep
  current,   \* the trigger it submits a run for, or 0
  cancel,    \* stop() has cancelled the tick task
  runPc,     \* run()
  stopPc,    \* stop() and the rest of the shutdown
  received,  \* messages received
  silence,   \* the time since an event of each trigger, at most its delay (history)
  owed,      \* triggers with an event that no submit has followed (history)
  late,      \* how long a trigger was due while the tick task slept (history)
  early      \* stop() was called before run() had subscribed (history)

code == <<pending, age, listener, tick, timer, current, cancel, runPc, stopPc>>
history == <<silence, owed, late, early>>
vars == <<code, received, history>>

\* Non-positive values of debounce_minutes count as one.
Delay == [i \in Trigger |-> IF Debounce[i] < 1 THEN 1 ELSE Debounce[i]]

Init ==
  /\ pending = [i \in Trigger |-> FALSE]
  /\ age = Delay
  /\ listener = "none" /\ tick = "none"
  /\ timer = 0 /\ current = 0 /\ cancel = "no"
  /\ runPc = "subscribing" /\ stopPc = "no"
  /\ received = 0
  /\ silence = Delay
  /\ owed = [i \in Trigger |-> FALSE]
  /\ late = [i \in Trigger |-> 0]
  /\ early = FALSE
-----------------------------------------------------------------------------
(* run() and the listener task.                                            *)

SleepTwice == tick' = "sleep" /\ timer' = 2 * TickInterval       \* mutant
Sleep == tick' = "sleep" /\ timer' = TickInterval

\* run() goes on after subscribe(): both tasks are created.
Subscribed ==
  /\ runPc = "subscribing"
  /\ runPc' = "done"
  /\ listener' = "running"
  /\ Sleep
  /\ UNCHANGED <<pending, age, current, cancel, stopPc, received, history>>

SubscribeFails ==
  /\ runPc = "subscribing" /\ "subscribeError" \in Faults
  /\ runPc' = "failed"
  /\ UNCHANGED <<pending, age, listener, tick, timer, current, cancel, stopPc, received, history>>

\* _handle_message marks every debouncer that listens to the topic.
MarkOnce(S) ==                                                   \* mutant
  /\ pending' = [i \in Trigger |-> i \in S \/ pending[i]]
  /\ age' = [i \in Trigger |-> IF i \in S /\ ~pending[i] THEN 0 ELSE age[i]]
Mark(S) ==
  /\ pending' = [i \in Trigger |-> i \in S \/ pending[i]]
  /\ age' = [i \in Trigger |-> IF i \in S THEN 0 ELSE age[i]]

HandleMessage(topic) ==
  LET S == {i \in Trigger : topic \in Topics[i]}
  IN  /\ listener = "running" /\ stopPc # "done" /\ received < MaxMessages
      /\ Mark(S)
      /\ received' = received + 1
      /\ silence' = [i \in Trigger |-> IF i \in S THEN 0 ELSE silence[i]]
      /\ owed' = [i \in Trigger |-> i \in S \/ owed[i]]
      /\ late' = [i \in Trigger |-> IF i \in S THEN 0 ELSE late[i]]
      /\ UNCHANGED <<listener, tick, timer, current, cancel, runPc, stopPc, early>>

\* The subscription raises: nothing catches it and the task is over.
SubscriptionLost ==
  /\ listener = "running" /\ "subscriptionError" \in Faults
  /\ listener' = "ended"
  /\ UNCHANGED <<pending, age, tick, timer, current, cancel, runPc, stopPc, received, history>>
-----------------------------------------------------------------------------
(* The tick task.                                                          *)

Due(i) == pending[i] /\ age[i] >= Delay[i]

\* reset() and then submit(), with no await between them.
Fire(i) ==
  /\ pending' = [pending EXCEPT ![i] = FALSE]
  /\ tick' = "waiting" /\ current' = i /\ timer' = 0
  /\ owed' = [owed EXCEPT ![i] = FALSE]
  /\ late' = [late EXCEPT ![i] = 0]

\* The loop over _states, from trigger k on: to the first that is due, or back
\* to sleep.
Scan(k) ==
  \/ \E i \in k..N :
       /\ Due(i) /\ \A j \in k..(i - 1) : ~Due(j)
       /\ Fire(i)
  \/ /\ \A i \in k..N : ~Due(i)
     /\ Sleep /\ current' = 0
     /\ UNCHANGED <<pending, owed, late>>

Wake ==
  /\ tick = "sleep" /\ timer = 0
  /\ Scan(1)
  /\ UNCHANGED <<age, listener, cancel, runPc, stopPc, received, silence, early>>

\* submit() has its permits and the lock: the run starts.
Admitted ==
  /\ tick = "waiting"
  /\ tick' = "running"
  /\ UNCHANGED <<pending, age, listener, timer, current, cancel, runPc, stopPc, received, history>>

\* submit() is over, the run done, skipped or failed, or submit() raises: the
\* loop goes on either way.
SubmitEndsScan ==                                                \* mutant
  /\ tick \in {"waiting", "running"} /\ cancel # "requested"
  /\ Sleep /\ current' = 0
  /\ UNCHANGED <<pending, age, listener, cancel, runPc, stopPc, received, history>>
SubmitEndsReset ==                                               \* mutant
  /\ tick \in {"waiting", "running"} /\ cancel # "requested"
  /\ Sleep /\ current' = 0
  /\ pending' = [pending EXCEPT ![current] = FALSE]
  /\ UNCHANGED <<age, listener, cancel, runPc, stopPc, received, history>>
SubmitEnds ==
  /\ tick \in {"waiting", "running"} /\ cancel # "requested"
  /\ Scan(current + 1)
  /\ UNCHANGED <<age, listener, cancel, runPc, stopPc, received, silence, early>>

\* The cancellation reaches the task, asleep or in submit(), which gives back
\* what it holds.
TickGoesOn ==                                                    \* mutant
  /\ tick \in {"sleep", "waiting", "running"} /\ cancel = "requested"
  /\ cancel' = "no"
  /\ Sleep /\ current' = 0
  /\ UNCHANGED <<pending, age, listener, runPc, stopPc, received, history>>
TickCancelled ==
  /\ tick \in {"sleep", "waiting", "running"} /\ cancel = "requested"
  /\ tick' = "ended" /\ current' = 0 /\ timer' = 0
  /\ UNCHANGED <<pending, age, listener, cancel, runPc, stopPc, received, history>>

\* The agent's connections raise while they are closed for the cancellation.
\* The runner takes that for a failed run, submit() returns, and the
\* cancellation is forgotten.
CancelSwallowed ==
  /\ tick = "running" /\ cancel = "requested" /\ "closeError" \in Faults
  /\ cancel' = "swallowed"
  /\ Scan(current + 1)
  /\ UNCHANGED <<age, listener, runPc, stopPc, received, silence, early>>
-----------------------------------------------------------------------------
(* Shutdown.                                                               *)

\* The second round of the loop in stop().
CancelOnly ==                                                    \* mutant
  /\ stopPc' = "unsubscribe"
  /\ cancel' = IF tick \in {"sleep", "waiting", "running"} THEN "requested" ELSE cancel
CancelTick ==
  IF tick \in {"sleep", "waiting", "running"}
    THEN cancel' = "requested" /\ stopPc' = "tick"
    ELSE UNCHANGED cancel /\ stopPc' = "unsubscribe"

Stop ==
  /\ stopPc = "no"
  /\ early' = (runPc = "subscribing")
  /\ IF listener = "running"
       THEN listener' = "cancelled" /\ stopPc' = "listener" /\ UNCHANGED cancel
       ELSE CancelTick /\ UNCHANGED listener
  /\ UNCHANGED <<pending, age, tick, timer, current, runPc, received, silence, owed, late>>

ListenerCancelled ==
  /\ listener = "cancelled"
  /\ listener' = "ended"
  /\ UNCHANGED <<pending, age, tick, timer, current, cancel, runPc, stopPc, received, history>>

ListenerAwaited ==
  /\ stopPc = "listener" /\ listener = "ended"
  /\ CancelTick
  /\ UNCHANGED <<pending, age, listener, tick, timer, current, runPc, received, history>>

TickAwaited ==
  /\ stopPc = "tick" /\ tick = "ended"
  /\ stopPc' = "unsubscribe"
  /\ UNCHANGED <<pending, age, listener, tick, timer, current, cancel, runPc, received, history>>

\* unsubscribe() is over, one way or the other; a run() that still subscribes is
\* cancelled by run_service.
Unsubscribed ==
  /\ stopPc = "unsubscribe"
  /\ stopPc' = "done"
  /\ runPc' = IF runPc = "subscribing" THEN "cancelled" ELSE runPc
  /\ UNCHANGED <<pending, age, listener, tick, timer, current, cancel, received, history>>

\* asyncio.run ends what is left.
Exit ==
  /\ stopPc = "done"
  /\ listener' = "ended" /\ tick' = "ended" /\ timer' = 0 /\ current' = 0
  /\ UNCHANGED <<pending, age, cancel, runPc, stopPc, received, history>>

\* One unit of time.  A task whose sleep is over runs before time goes on.
Elapse ==
  LET Aged(f) == [i \in Trigger |-> IF f[i] < Delay[i] THEN f[i] + 1 ELSE f[i]]
      asleep == tick = "sleep"
  IN  /\ asleep => timer > 0
      /\ timer' = IF asleep THEN timer - 1 ELSE timer
      /\ age' = Aged(age) /\ silence' = Aged(silence)
      /\ late' = [i \in Trigger |->
                    IF asleep /\ owed[i] /\ silence[i] >= Delay[i] /\ late[i] <= TickInterval
                      THEN late[i] + 1 ELSE late[i]]
      /\ UNCHANGED <<pending, listener, tick, current, cancel, runPc, stopPc, received, owed, early>>

Next ==
  \/ Subscribed \/ SubscribeFails \/ SubscriptionLost
  \/ \E topic \in Topic : HandleMessage(topic)
  \/ Wake \/ Admitted \/ SubmitEnds \/ TickCancelled \/ CancelSwallowed
  \/ Stop \/ ListenerCancelled \/ ListenerAwaited \/ TickAwaited \/ Unsubscribed \/ Exit
  \/ Elapse

Spec == Init /\ [][Next]_vars

\* Tasks that can go on are resumed, submit() is over some day (which the runs
\* of RunExecutor check), and time passes.  Nothing is assumed of messages,
\* faults and stop().
FairSpec ==
  /\ Spec
  /\ WF_vars(Subscribed \/ SubscribeFails)
  /\ WF_vars(Elapse) /\ WF_vars(Wake) /\ WF_vars(SubmitEnds) /\ WF_vars(TickCancelled)
  /\ WF_vars(ListenerCancelled) /\ WF_vars(ListenerAwaited)
  /\ WF_vars(TickAwaited) /\ WF_vars(Unsubscribed)
-----------------------------------------------------------------------------
(* Properties.                                                             *)

\* Every variable has its type.
TypeOK ==
  /\ pending \in [Trigger -> BOOLEAN] /\ owed \in [Trigger -> BOOLEAN]
  /\ age \in [Trigger -> Nat] /\ silence \in [Trigger -> Nat]
  /\ \A i \in Trigger : age[i] <= Delay[i] /\ silence[i] <= Delay[i]
  /\ listener \in {"none", "running", "cancelled", "ended"}
  /\ tick \in {"none", "sleep", "waiting", "running", "ended"}
  /\ timer \in 0..TickInterval
  /\ current \in 0..N
  /\ cancel \in {"no", "requested", "swallowed"}
  /\ runPc \in {"subscribing", "done", "failed", "cancelled"}
  /\ stopPc \in {"no", "listener", "tick", "unsubscribe", "done"}
  /\ received \in 0..MaxMessages
  /\ late \in [Trigger -> 0..(TickInterval + 1)]
  /\ early \in BOOLEAN

\* A run is asked for only after a whole debounce window without an event of its
\* trigger, also right after a long submit for another one.
SubmitsInSilence ==
  [][\A i \in Trigger : current' = i /\ current # i => silence[i] >= Delay[i]]_vars

\* The tick task looks at a trigger that is due before it has slept one interval,
\* however many submits come in between.
DueWithinOneSleep == \A i \in Trigger : late[i] <= TickInterval

\* An event is followed by a submit of its trigger, also when it arrives while
\* another run, or one of its own trigger, goes on, unless the tick task is
\* stopped first.
EventsAreFollowed ==
  \A i \in Trigger : owed[i] ~> ~owed[i] \/ stopPc # "no"

\* After a stop() that found the listener subscribed neither task is left, and no
\* run either.
StopIsComplete ==
  stopPc = "done" /\ ~early =>
    listener \in {"none", "ended"} /\ tick \in {"none", "ended"} /\ current = 0

\* stop() comes to its end, whatever it interrupts, unless a run swallows its
\* cancellation.
StopEnds == stopPc # "no" ~> stopPc = "done" \/ cancel = "swallowed"
-----------------------------------------------------------------------------
(* What the documentation says and the code does not do.                   *)

\* README.md:49: "the agent runs only after debounce_minutes minutes of silence
\* since the last matching event".
RunsInSilence ==
  [][tick = "waiting" /\ tick' = "running" => silence[current] >= Delay[current]]_vars
=============================================================================
