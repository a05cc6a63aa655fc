--------------------------- MODULE ProposalPipeline ---------------------------
(***************************************************************************)
(* From an agent's propose() to a change in SAGA: the runs of AgentRunner  *)
(* and the calls of ProposalReview in one process, with one store.  A row  *)
(* is under review as soon as add() has committed it, while its run goes   *)
(* on storing the rest; a crash ends the runs and the calls together.      *)
(***************************************************************************)
EXTENDS AgentRunner, FiniteSets

CONSTANTS Call, Verb, Target   \* as in ProposalReview

\* What may go wrong in a review, and with it in the pipeline.
ReviewFaults == {"crash", "storeError", "toolError", "lostReply"}

ASSUME RunsFinite == IsFiniteSet(Run)
ASSUME CallsFinite == IsFiniteSet(Call)
ASSUME VerbAssumption == Verb \in [Call -> {"approve", "reject"}]
ASSUME TargetAssumption == Target \in [Call -> Proposal]
ASSUME FaultsAssumption == Faults \subseteq RunFaults \union ReviewFaults

VARIABLES rowStatus, effects, counted, callPc, mishap   \* as in ProposalReview

Review == INSTANCE ProposalReview
  WITH status <- rowStatus, pc <- callPc, Faults <- Faults \intersect ReviewFaults

review == <<rowStatus, effects, counted, callPc, mishap>>
pipeline == <<vars, review>>

PipelineInit == Init /\ Review!Init

\* A run goes on; what it adds to the store is the Add of the review.
RunStep(r) ==
  /\ Step(r)
  /\ \/ rows' = rows /\ UNCHANGED review
     \/ \E p \in Proposal \ rows : rows' = rows \union {p} /\ Review!Add(p)

TimePasses == Elapse /\ UNCHANGED review

CallStep(c) ==
  /\ \/ Review!Read(c) \/ Review!ReadFails(c)
     \/ Review!ToolReturns(c) \/ Review!ToolRaises(c)
     \/ Review!SetStatus(c) \/ Review!SetStatusFails(c)
  /\ UNCHANGED vars

ProcessDies == Crash /\ Review!Crash
ProcessRestarts == Restart /\ Review!Restart

PipelineNext ==
  \/ \E r \in Run : RunStep(r)
  \/ TimePasses
  \/ \E c \in Call : CallStep(c)
  \/ ProcessDies \/ ProcessRestarts

PipelineSpec == PipelineInit /\ [][PipelineNext]_pipeline

\* As in AgentRunner: time passes and the store answers.
PipelineFairSpec ==
  /\ PipelineSpec
  /\ WF_pipeline(TimePasses)
  /\ \A r \in Run :
       /\ WF_pipeline(TimesOut(r) /\ RunStep(r))
       /\ WF_pipeline((Added(r) \/ AddFails(r)) /\ RunStep(r))
-----------------------------------------------------------------------------
(* Properties.                                                             *)

\* What changes SAGA is an agent that may, or a call to approve a proposal that
\* an agent without that right has made and that the store knows.
OnlyReviewedWrites ==
  /\ \A r \in Run : Autonomy[r] = "proposal" => written[r] = {}
  /\ \A p \in Proposal : effects[p] > 0 =>
       /\ p \in rows /\ p[2] <= made[p[1]] /\ Autonomy[p[1]] = "proposal"
       /\ \E c \in Call : Verb[c] = "approve" /\ Target[c] = p /\ callPc[c] # "new"

\* What an agent was told is recorded gets to the reviewers, unless the store
\* fails or the run is cut off by a cancellation or a crash.
ProposalsReachReview ==
  \A p \in Proposal :
    p[2] <= made[p[1]] ~> \/ rowStatus[p] # "absent"
                          \/ failing[p[1]]
                          \/ status[p[1]] \in {"cancelled", "killed"}
=============================================================================
