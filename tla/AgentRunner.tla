----------------------------- MODULE AgentRunner -----------------------------
(***************************************************************************)
(* AgentRunner.run: a run of an agent from its prompt to its report.  The  *)
(* agent loop is Pydantic AI's, seen here by what it may do: call a tool   *)
(* it was shown, call propose, and end in one of four ways.  Proposals are *)
(* kept in memory until the loop is over and then stored one by one.  Runs *)
(* of a process interleave at every await, and it may die in any of them.  *)
(***************************************************************************)
EXTENDS Integers

CONSTANTS
  Run,
  Autonomy,      \* "autonomous" or "proposal", for each run's agent
  Tool,
  Allow, Write,  \* the ToolsSpec of each run's agent
  Timeout,       \* limits.timeout_seconds, in units of time
  MaxProposals,  \* bound: proposals a run makes
  Faults         \* what may go wrong: see RunFaults

RunFaults == {"setupError", "guidanceError", "connectionError", "storeError", "cancel", "crash"}

ASSUME AutonomyAssumption == Autonomy \in [Run -> {"autonomous", "proposal"}]
ASSUME ToolsAssumption == Allow \in [Run -> SUBSET Tool] /\ Write \in [Run -> SUBSET Tool]
ASSUME TimeoutAssumption == Timeout \in Nat
ASSUME BoundAssumption == MaxProposals \in Nat \ {0}

VARIABLES
  up,      \* the service process is running
  pc,      \* the await a run is suspended at
  status,  \* RunStatus, or how else run() ended, "none" before
  time,    \* the time spent under asyncio.timeout
  made,    \* the length of deps.proposals
  next,    \* the proposal that add() is storing
  failing, \* persistence_error is not None
  rows,    \* the proposals in SQLite, as <<run, position in deps.proposals>>
  written  \* the write tools of SAGA each agent has called itself (history)

vars == <<up, pc, status, time, made, next, failing, rows, written>>

Proposal == Run \X (1..MaxProposals)
Reports == {"ok", "limit_exceeded", "timeout", "error"}
Open(r) == pc[r] \in {"guidance", "agent", "persist"}

Init ==
  /\ up = TRUE
  /\ pc = [r \in Run |-> "idle"] /\ status = [r \in Run |-> "none"]
  /\ time = [r \in Run |-> 0] /\ made = [r \in Run |-> 0] /\ next = [r \in Run |-> 1]
  /\ failing = [r \in Run |-> FALSE]
  /\ rows = {}
  /\ written = [r \in Run |-> {}]

Goto(r, label) == pc' = [pc EXCEPT ![r] = label]
Over(r, how) == Goto(r, "over") /\ status' = [status EXCEPT ![r] = how]
-----------------------------------------------------------------------------
(* Before the agent loop, outside the timeout.                             *)

\* Model, tools and prompt are prepared; a prompt with {{saga.*}} placeholders
\* waits for the guidance.  Most of what raises here is caught by nobody in run().
Start(r) ==
  /\ up /\ pc[r] = "idle"
  /\ \/ Goto(r, "guidance") /\ UNCHANGED status
     \/ Goto(r, "agent") /\ UNCHANGED status
     \/ "setupError" \in Faults /\ Over(r, "raised")
  /\ UNCHANGED <<up, time, made, next, failing, rows, written>>

GuidanceArrives(r) ==
  /\ up /\ pc[r] = "guidance"
  /\ \/ Goto(r, "agent") /\ UNCHANGED status
     \/ "setupError" \in Faults /\ Over(r, "raised")
  /\ UNCHANGED <<up, time, made, next, failing, rows, written>>

\* GuidanceFetchError is the one exception that becomes a report.
GuidanceFails(r) ==
  /\ up /\ pc[r] = "guidance" /\ "guidanceError" \in Faults
  /\ Over(r, "error")
  /\ UNCHANGED <<up, time, made, next, failing, rows, written>>
-----------------------------------------------------------------------------
(* The agent loop.                                                         *)

VisibleAlways(r) == Allow[r]                                     \* mutant
Visible(r) == IF Autonomy[r] = "autonomous" THEN Allow[r] ELSE Allow[r] \ Write[r]

CallTool(r, tool) ==
  /\ up /\ pc[r] = "agent" /\ tool \in Visible(r)
  /\ written' = [written EXCEPT ![r] = @ \union ({tool} \intersect Write[r])]
  /\ UNCHANGED <<up, pc, status, time, made, next, failing, rows>>

Propose(r) ==
  /\ up /\ pc[r] = "agent" /\ Autonomy[r] = "proposal" /\ made[r] < MaxProposals
  /\ made' = [made EXCEPT ![r] = @ + 1]
  /\ UNCHANGED <<up, pc, status, time, next, failing, rows, written>>

\* The loop is over with status s: proposals are stored whatever s is.
StoreIfOk(r, s) ==                                               \* mutant
  IF s = "ok" /\ made[r] > 0
    THEN Goto(r, "persist") /\ status' = [status EXCEPT ![r] = s]
    ELSE Over(r, s)
Ended(r, s) ==
  IF Autonomy[r] = "proposal" /\ made[r] > 0
    THEN Goto(r, "persist") /\ status' = [status EXCEPT ![r] = s]
    ELSE Over(r, s)

\* The model answers, or exceeds its limits, or something raises.  A connection
\* that gives up with TimeoutError is reported as the timeout of the run.
AgentEnds(r) ==
  /\ up /\ pc[r] = "agent"
  /\ \E s \in {"ok", "limit_exceeded"}
             \union (IF "connectionError" \in Faults THEN {"error", "timeout"} ELSE {}) :
       Ended(r, s)
  /\ UNCHANGED <<up, time, made, next, failing, rows, written>>

\* asyncio.timeout cancels the loop; if its connections raise while they are
\* closed, that is the status.
TimesOutLate(r) ==                                               \* mutant
  /\ up /\ pc[r] = "agent" /\ time[r] > Timeout
  /\ Ended(r, "timeout")
  /\ UNCHANGED <<up, time, made, next, failing, rows, written>>
TimesOut(r) ==
  /\ up /\ pc[r] = "agent" /\ time[r] >= Timeout
  /\ \/ Ended(r, "timeout")
     \/ "connectionError" \in Faults /\ Ended(r, "error")
  /\ UNCHANGED <<up, time, made, next, failing, rows, written>>

\* One unit of time; a timeout that is due is handled first.
Elapse ==
  /\ up /\ \A r \in Run : pc[r] = "agent" => time[r] < Timeout
  /\ time' = [r \in Run |-> IF pc[r] = "agent" THEN time[r] + 1 ELSE time[r]]
  /\ UNCHANGED <<up, pc, status, made, next, failing, rows, written>>
-----------------------------------------------------------------------------
(* Storing the proposals, outside the timeout.                             *)

\* The loop over deps.proposals, after an add(): the next one, or the report.
AdvanceFurther(r) ==                                             \* mutant
  IF next[r] <= made[r]
    THEN next' = [next EXCEPT ![r] = @ + 1] /\ UNCHANGED pc
    ELSE Goto(r, "over") /\ UNCHANGED next
Advance(r) ==
  IF next[r] < made[r]
    THEN next' = [next EXCEPT ![r] = @ + 1] /\ UNCHANGED pc
    ELSE Goto(r, "over") /\ UNCHANGED next

AddedLast(r) ==                                                  \* mutant
  /\ up /\ pc[r] = "persist"
  /\ rows' = rows \union {<<r, made[r] + 1 - next[r]>>}
  /\ Advance(r)
  /\ UNCHANGED <<up, status, time, made, failing, written>>
Added(r) ==
  /\ up /\ pc[r] = "persist"
  /\ rows' = rows \union {<<r, next[r]>>}
  /\ Advance(r)
  /\ UNCHANGED <<up, status, time, made, failing, written>>

\* add() raises: a warning, and on with the next.
AddSkipped(r) ==                                                 \* mutant
  /\ up /\ pc[r] = "persist" /\ "storeError" \in Faults
  /\ Advance(r)
  /\ UNCHANGED <<up, status, time, made, failing, rows, written>>
AddFails(r) ==
  /\ up /\ pc[r] = "persist" /\ "storeError" \in Faults
  /\ failing' = [failing EXCEPT ![r] = TRUE]
  /\ Advance(r)
  /\ UNCHANGED <<up, status, time, made, rows, written>>

\* The note in the summary, for those who asked for the run.
Noted(r) == failing[r] /\ status[r] = "ok"
-----------------------------------------------------------------------------
(* The end of the process, or of the task that waits for the run.          *)

\* Cancellation passes every handler.  The commit of an add() goes on in its
\* thread and may still succeed.
Cancel(r) ==
  /\ up /\ "cancel" \in Faults /\ Open(r)
  /\ Over(r, "cancelled")
  /\ \/ UNCHANGED rows
     \/ pc[r] = "persist" /\ rows' = rows \union {<<r, next[r]>>}
  /\ UNCHANGED <<up, time, made, next, failing, written>>

\* (A commit that the process does not live to see is Added, then Crash.)
Crash ==
  /\ up /\ "crash" \in Faults
  /\ up' = FALSE
  /\ pc' = [r \in Run |-> IF Open(r) THEN "over" ELSE pc[r]]
  /\ status' = [r \in Run |-> IF Open(r) THEN "killed" ELSE status[r]]
  /\ UNCHANGED <<time, made, next, failing, rows, written>>

Restart ==
  /\ ~up
  /\ up' = TRUE
  /\ UNCHANGED <<pc, status, time, made, next, failing, rows, written>>

Step(r) ==
  \/ Start(r) \/ GuidanceArrives(r) \/ GuidanceFails(r)
  \/ \E tool \in Tool : CallTool(r, tool)
  \/ Propose(r) \/ AgentEnds(r) \/ TimesOut(r)
  \/ Added(r) \/ AddFails(r) \/ Cancel(r)

Next == Elapse \/ Crash \/ Restart \/ \E r \in Run : Step(r)

Spec == Init /\ [][Next]_vars

\* Time passes and the store answers; the model, the tools and the guidance
\* need not.
Fairness ==
  /\ WF_vars(Elapse)
  /\ \A r \in Run : WF_vars(TimesOut(r)) /\ WF_vars(Added(r) \/ AddFails(r))
-----------------------------------------------------------------------------
(* Properties.                                                             *)

\* Every variable has its type.
TypeOK ==
  /\ up \in BOOLEAN
  /\ pc \in [Run -> {"idle", "guidance", "agent", "persist", "over"}]
  /\ status \in [Run -> Reports \union {"none", "raised", "cancelled", "killed"}]
  /\ time \in [Run -> 0..Timeout]
  /\ made \in [Run -> 0..MaxProposals]
  /\ next \in [Run -> 1..MaxProposals]
  /\ failing \in [Run -> BOOLEAN]
  /\ rows \subseteq Proposal
  /\ written \in [Run -> SUBSET Tool]

\* Whatever ended the agent loop, a run that comes to its report has all its
\* proposals in the store, or the store failed: an OK report says so, the others
\* do not.
ReportIsComplete ==
  \A r \in Run :
    pc[r] = "over" /\ status[r] \in Reports =>
      \/ \A k \in 1..made[r] : <<r, k>> \in rows
      \/ Noted(r)
      \/ failing[r] /\ status[r] # "ok"

\* Of an interrupted run the store has the first proposals, never a later one
\* without those it may build on, unless the store failed.
StoredFromTheFirst ==
  \A r \in Run : \A k \in 1..MaxProposals :
    <<r, k>> \in rows /\ ~failing[r] => \A j \in 1..k : <<r, j>> \in rows

\* A run that has its prompt ends, though model and tools may never answer.
PromptedRunsEnd == \A r \in Run : pc[r] = "agent" ~> pc[r] = "over"
=============================================================================
