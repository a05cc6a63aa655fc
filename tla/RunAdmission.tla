---------------------------- MODULE RunAdmission ----------------------------
(***************************************************************************)
(* What RunExecutor promises its callers, without semaphores, lock or      *)
(* time: a request is started at most once, only while its process has     *)
(* room for it, and is over for good when it ends.                         *)
(***************************************************************************)
EXTENDS Integers, FiniteSets

CONSTANTS Process, Agent, Request, Definitions, Target, Home, GlobalLimit, MaxRuns

VARIABLE state

At(p, s) == {r \in Request : Home[r] = p /\ state[r] = s}

Room(p, a) ==
  /\ Cardinality(At(p, "running")) < GlobalLimit
  /\ Cardinality({r \in At(p, "running") : Target[r] = a}) < MaxRuns[a]

Init == state = [r \in Request |-> "idle"]

Queue(r) ==
  /\ state[r] = "idle" /\ Target[r] \in Definitions
  /\ state' = [state EXCEPT ![r] = "queued"]

Start(r) ==
  /\ state[r] \in {"idle", "queued"} /\ Target[r] \in Definitions
  /\ Room(Home[r], Target[r])
  /\ state' = [state EXCEPT ![r] = "running"]

\* Skipped, cancelled or failed before the run, or the run is over.
End(r) ==
  /\ state[r] # "over"
  /\ state' = [state EXCEPT ![r] = "over"]

\* A process dies with everything it has accepted.
Kill(p) ==
  state' = [r \in Request |->
              IF r \in At(p, "queued") \union At(p, "running") THEN "over" ELSE state[r]]

Next ==
  \/ \E r \in Request : Queue(r) \/ Start(r) \/ End(r)
  \/ \E p \in Process : Kill(p)

Spec == Init /\ [][Next]_state
=============================================================================
