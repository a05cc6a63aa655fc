--------------------------- MODULE ProposalReview ---------------------------
(***************************************************************************)
(* The review of proposals: the approve and reject endpoints of the API,   *)
(* the SQLite store behind them and the SAGA tool that approve calls.      *)
(* Calls interleave at every await, any of them can fail, and the process  *)
(* can die in the middle of one; nothing locks a proposal.                 *)
(***************************************************************************)
EXTENDS Integers, FiniteSets

CONSTANTS
  Proposal,  \* proposals a run may store
  Call,      \* requests to the API
  Verb,      \* "approve" or "reject", for each call
  Target,    \* the proposal_id of each call
  Faults     \* what may go wrong: see FaultKinds

FaultKinds == {"crash", "storeError", "toolError", "lostReply"}

ASSUME ProposalsFinite == IsFiniteSet(Proposal)
ASSUME CallsFinite == IsFiniteSet(Call)
ASSUME VerbAssumption == Verb \in [Call -> {"approve", "reject"}]
ASSUME TargetAssumption == Target \in [Call -> Proposal]
ASSUME FaultsAssumption == Faults \subseteq FaultKinds

VARIABLES
  up,       \* the service process is running
  status,   \* the status column, "absent" when there is no row
  effects,  \* how often SAGA has executed the proposed action
  counted,  \* AGENT_PROPOSALS, by state
  pc,       \* the await a call is suspended at, or how it was answered
  mishap    \* proposals with overlapping or interrupted calls (not in the code)

vars == <<up, status, effects, counted, pc, mishap>>

Settled == {"applied", "rejected", "failed"}
Answers == Settled \union {"notFound", "error", "killed"}

\* Awaits: the tool call, and set_status with each of its statuses.
Marking == {"markApplied", "markFailed", "markRejected"}
Busy == Marking \union {"tool"}
Open(c) == pc[c] \in Busy

Init ==
  /\ up = TRUE
  /\ status = [p \in Proposal |-> "absent"]
  /\ effects = [p \in Proposal |-> 0]
  /\ counted = [s \in Settled |-> 0]
  /\ pc = [c \in Call |-> "new"]
  /\ mishap = [p \in Proposal |-> FALSE]

Goto(c, label) == pc' = [pc EXCEPT ![c] = label]

\* SqliteProposalStore.add, called by the runner after a run.
InsertOrReplace(p) ==                                            \* mutant
  /\ up
  /\ status' = [status EXCEPT ![p] = "pending"]
  /\ UNCHANGED <<up, effects, counted, pc, mishap>>
Add(p) ==
  /\ up /\ status[p] = "absent"
  /\ status' = [status EXCEPT ![p] = "pending"]
  /\ UNCHANGED <<up, effects, counted, pc, mishap>>

\* The endpoint reads the record.  With a pending one it goes on to its next
\* await without another look at the store: approve calls the tool, reject
\* marks.
Exists(p) == status[p] # "absent"                                \* mutant
Pending(p) == status[p] = "pending"

Read(c) ==
  LET p == Target[c]
      others == \E d \in Call : d # c /\ Target[d] = p /\ Open(d)
  IN  /\ up /\ pc[c] = "new"
      /\ IF Pending(p)
           THEN /\ Goto(c, IF Verb[c] = "approve" THEN "tool" ELSE "markRejected")
                /\ mishap' = [mishap EXCEPT ![p] = @ \/ others]
           ELSE Goto(c, "notFound") /\ UNCHANGED mishap
      /\ UNCHANGED <<up, status, effects, counted>>

ReadFails(c) ==
  /\ up /\ pc[c] = "new" /\ "storeError" \in Faults
  /\ Goto(c, "error")
  /\ UNCHANGED <<up, status, effects, counted, mishap>>

Execute(c) == effects' = [effects EXCEPT ![Target[c]] = @ + 1]

\* apply_proposal returns.
ToolReturns(c) ==
  /\ up /\ pc[c] = "tool"
  /\ Execute(c)
  /\ Goto(c, "markApplied")
  /\ UNCHANGED <<up, status, counted, mishap>>

\* apply_proposal raises, the action executed (the reply lost) or not.
ToolSwallowed(c) ==                                              \* mutant
  /\ up /\ pc[c] = "tool"
  /\ Goto(c, "markApplied")
  /\ UNCHANGED <<up, status, effects, counted, mishap>>
ToolRaises(c) ==
  /\ up /\ pc[c] = "tool"
  /\ \/ "toolError" \in Faults /\ UNCHANGED effects
     \/ "lostReply" \in Faults /\ Execute(c)
  /\ Goto(c, "markFailed")
  /\ UNCHANGED <<up, status, counted, mishap>>

\* The status each set_status writes.
MarkError(c) ==                                                  \* mutant
  IF pc[c] = "markFailed" THEN "error" ELSE "applied"
Mark(c) ==
  CASE pc[c] = "markApplied" -> "applied"
    [] pc[c] = "markFailed" -> "failed"
    [] pc[c] = "markRejected" -> "rejected"

\* set_status: an UPDATE by id that does not look at the status it replaces,
\* the count, and the answer.
MarkTwice(c) ==                                                  \* mutant
  /\ up /\ pc[c] \in Marking
  /\ status' = [status EXCEPT ![Target[c]] = Mark(c)]
  /\ counted' = [counted EXCEPT ![Mark(c)] = @ + 2]
  /\ Goto(c, Mark(c))
  /\ UNCHANGED <<up, effects, mishap>>
AnswerOnly(c) ==                                                 \* mutant
  /\ up /\ pc[c] \in Marking
  /\ Goto(c, Mark(c))
  /\ UNCHANGED <<up, status, effects, counted, mishap>>
SetStatus(c) ==
  /\ up /\ pc[c] \in Marking
  /\ status' = [status EXCEPT ![Target[c]] = Mark(c)]
  /\ counted' = [counted EXCEPT ![Mark(c)] = @ + 1]
  /\ Goto(c, Mark(c))
  /\ UNCHANGED <<up, effects, mishap>>

\* The UPDATE raises: the endpoint has no handler for it.  What the tool did
\* is recorded nowhere.
SetStatusFails(c) ==
  /\ up /\ pc[c] \in Marking /\ "storeError" \in Faults
  /\ Goto(c, "error")
  /\ mishap' = [mishap EXCEPT ![Target[c]] = @ \/ Verb[c] = "approve"]
  /\ UNCHANGED <<up, status, effects, counted>>

\* The process dies with its open calls and its counters.  A tool call on its
\* way may still be executed.
Crash ==
  /\ up /\ "crash" \in Faults
  /\ up' = FALSE
  /\ counted' = [s \in Settled |-> 0]
  /\ pc' = [c \in Call |-> IF Open(c) THEN "killed" ELSE pc[c]]
  /\ mishap' = [p \in Proposal |-> mishap[p] \/
                  \E c \in Call : Target[c] = p /\ Verb[c] = "approve" /\ Open(c)]
  /\ \E late \in SUBSET {c \in Call : pc[c] = "tool"} :
       effects' = [p \in Proposal |->
                     effects[p] + Cardinality({c \in late : Target[c] = p})]
  /\ UNCHANGED status

Restart ==
  /\ ~up
  /\ up' = TRUE
  /\ UNCHANGED <<status, effects, counted, pc, mishap>>

\* Every call is answered and every proposal stored.
Quiet ==
  /\ up
  /\ \A c \in Call : pc[c] \in Answers
  /\ \A p \in Proposal : status[p] # "absent"
  /\ UNCHANGED vars

Next ==
  \/ \E p \in Proposal : Add(p)
  \/ \E c \in Call :
       \/ Read(c) \/ ReadFails(c)
       \/ ToolReturns(c) \/ ToolRaises(c)
       \/ SetStatus(c) \/ SetStatusFails(c)
  \/ Crash \/ Restart
  \/ Quiet

Spec == Init /\ [][Next]_vars

\* The tool server and the store answer each call, one way or the other.
FairSpec ==
  Spec /\ \A c \in Call : WF_vars(ToolReturns(c) \/ ToolRaises(c)) /\ WF_vars(SetStatus(c))
-----------------------------------------------------------------------------
(* Properties.                                                             *)

\* Every variable has its type.
TypeOK ==
  /\ up \in BOOLEAN
  /\ status \in [Proposal -> Settled \union {"absent", "pending"}]
  /\ effects \in [Proposal -> Nat]
  /\ counted \in [Settled -> Nat]
  /\ pc \in [Call -> Busy \union Answers \union {"new"}]
  /\ mishap \in [Proposal -> BOOLEAN]

\* However calls interleave and fail, "applied" in the store is no lie: the
\* tool did execute the action.
AppliedWasExecuted == \A p \in Proposal : status[p] = "applied" => effects[p] > 0

\* Without overlapping or interrupted calls the action is executed at most
\* once: once when applied, never when rejected or still pending.
ExecutedOnceUnlessDisturbed ==
  \A p \in Proposal :
    ~mishap[p] =>
      /\ effects[p] <= 1
      /\ status[p] = "applied" => effects[p] = 1
      /\ status[p] = "rejected" => effects[p] = 0
      /\ status[p] = "pending" /\ effects[p] = 1 => \E c \in Call : Target[c] = p /\ Open(c)

\* What a reviewer was told stays so: no later call changes a proposal whose
\* call was answered with a final status, unless calls overlapped on it.
AnswerStands ==
  \A c \in Call :
    pc[c] \in Settled /\ ~mishap[Target[c]] => status[Target[c]] = pc[c]

\* A settled proposal with no open call is final, disturbed or not: no call
\* gets past the check again, its status stays and nothing is executed.
Closed(p) ==
  status[p] \in Settled /\ \A c \in Call : Target[c] = p => ~Open(c)
SettledIsFinal ==
  [][\A p \in Proposal :
       Closed(p) => Closed(p)' /\ status'[p] = status[p] /\ effects'[p] = effects[p]]_vars

\* AGENT_PROPOSALS never shows more proposals in a terminal state than there
\* are, unless calls overlapped.
CountersHonest ==
  (\A p \in Proposal : ~mishap[p]) =>
    \A s \in Settled : counted[s] <= Cardinality({p \in Proposal : status[p] = s})

\* A decision that got past the check settles its proposal, or ends in one of
\* the mishaps (or in a store error, for a reject).
DecisionsSettle ==
  \A c \in Call :
    Open(c) ~> \/ status[Target[c]] \in Settled
               \/ mishap[Target[c]]
               \/ pc[c] \in {"error", "killed"}

\* The life of a proposal as its reviewers are promised it: one decision, made
\* at the moment the store records it, or a mishap.
Decided == [p \in Proposal |-> IF mishap[p] THEN "disturbed" ELSE status[p]]
Executed == [p \in Proposal |->
               mishap[p] \/ (status[p] \in Settled /\ effects[p] > 0)]
Lifecycle == INSTANCE ProposalLifecycle WITH state <- Decided, executed <- Executed
\* Every behaviour of the endpoints is one of ProposalLifecycle.
ImplementsLifecycle == Lifecycle!Spec
-----------------------------------------------------------------------------
(* What the tests say and the code does not do.                            *)

\* test_api.py:219: approving calls the tool "exactly once".
ExecutedAtMostOnce == \A p \in Proposal : effects[p] <= 1
=============================================================================
