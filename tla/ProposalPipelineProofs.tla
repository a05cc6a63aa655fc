------------------------ MODULE ProposalPipelineProofs ------------------------
(***************************************************************************)
(* Theorems about AgentRunner and ProposalPipeline, for any set of runs,   *)
(* calls and tools, any timeout and every set of faults.                   *)
(***************************************************************************)
EXTENDS ProposalPipeline, FiniteSetTheorems, TLAPS

\* A run makes proposals in proposal mode only, in its agent loop, and has a
\* final status when it stores them.
MadeInTheLoop ==
  \A r \in Run :
    /\ pc[r] \in {"idle", "guidance"} \/ Autonomy[r] # "proposal" => made[r] = 0
    /\ pc[r] \in {"idle", "guidance", "agent"} => next[r] = 1
    /\ pc[r] = "persist" => next[r] <= made[r] /\ status[r] \in Reports

\* What is stored was made, and add() passes over a proposal only when it fails.
StoredInTurn ==
  /\ \A p \in rows : p[2] <= made[p[1]]
  /\ \A r \in Run : pc[r] = "persist" =>
       failing[r] \/ \A k \in 1..MaxProposals : k < next[r] => <<r, k>> \in rows
  /\ \A r \in Run : pc[r] = "over" /\ status[r] \in Reports =>
       failing[r] \/ \A k \in 1..made[r] : <<r, k>> \in rows

ReadOnlyInProposalMode == \A r \in Run : Autonomy[r] = "proposal" => written[r] = {}

RunInv ==
  TypeOK /\ MadeInTheLoop /\ StoredInTurn /\ StoredFromTheFirst /\ ReadOnlyInProposalMode

USE DEF Goto, Over, Reports, Open, Proposal

LEMMA RunInit == Init => RunInv
  BY TimeoutAssumption, BoundAssumption
     DEF Init, RunInv, TypeOK, MadeInTheLoop, StoredInTurn, StoredFromTheFirst,
         ReadOnlyInProposalMode
-----------------------------------------------------------------------------
(* The actions, one by one.                                                *)

\* Steps that make, store and write nothing.
LEMMA QuietKeeps ==
  ASSUME RunInv, NEW r \in Run,
         Start(r) \/ GuidanceArrives(r) \/ GuidanceFails(r)
  PROVE  RunInv'
<1> USE DEF RunInv, Start, GuidanceArrives, GuidanceFails
<1>1. TypeOK'
  BY DEF TypeOK
<1>2. made[r] = 0
  BY DEF MadeInTheLoop
<1>3. MadeInTheLoop'
  BY <1>2 DEF TypeOK, MadeInTheLoop
<1>4. StoredInTurn' /\ StoredFromTheFirst' /\ ReadOnlyInProposalMode'
  BY <1>2 DEF TypeOK, StoredInTurn, StoredFromTheFirst, ReadOnlyInProposalMode
<1>5. QED
  BY <1>1, <1>3, <1>4

LEMMA LoopKeeps ==
  ASSUME RunInv, NEW r \in Run,
         Propose(r) \/ \E tool \in Tool : CallTool(r, tool)
  PROVE  RunInv'
<1> USE DEF RunInv
<1>1. CASE Propose(r)
  <2>1. TypeOK' /\ MadeInTheLoop'
    BY <1>1, BoundAssumption DEF Propose, TypeOK, MadeInTheLoop
  <2>2. \A q \in Run : made'[q] >= made[q] /\ (pc[q] # "agent" => made'[q] = made[q])
    BY <1>1 DEF Propose, TypeOK
  <2>3. ASSUME NEW p \in rows PROVE p[2] <= made'[p[1]]
    <3>1. p[1] \in Run /\ p[2] \in 1..MaxProposals /\ p[2] <= made[p[1]]
      BY DEF TypeOK, StoredInTurn
    <3>2. made[p[1]] \in Int /\ made'[p[1]] \in Int /\ made'[p[1]] >= made[p[1]]
      BY <2>1, <2>2, <3>1 DEF TypeOK
    <3>3. QED
      BY <3>1, <3>2, BoundAssumption
  <2>4. StoredInTurn'
    BY <1>1, <2>2, <2>3 DEF Propose, StoredInTurn
  <2>5. StoredFromTheFirst' /\ ReadOnlyInProposalMode'
    BY <1>1 DEF Propose, StoredFromTheFirst, ReadOnlyInProposalMode
  <2>6. QED
    BY <2>1, <2>4, <2>5
<1>2. ASSUME NEW tool \in Tool, CallTool(r, tool)
      PROVE  RunInv'
  <2>1. TypeOK'
    BY <1>2, ToolsAssumption DEF CallTool, TypeOK
  <2>2. MadeInTheLoop' /\ StoredInTurn' /\ StoredFromTheFirst'
    BY <1>2 DEF CallTool, MadeInTheLoop, StoredInTurn, StoredFromTheFirst
  <2>3. Autonomy[r] = "proposal" => {tool} \intersect Write[r] = {}
    BY <1>2, ToolsAssumption DEF CallTool, Visible
  <2>4. ReadOnlyInProposalMode'
    BY <1>2, <2>3 DEF CallTool, TypeOK, ReadOnlyInProposalMode
  <2>5. QED
    BY <2>1, <2>2, <2>4
<1>3. QED
  BY <1>1, <1>2

LEMMA EndedKeeps ==
  ASSUME RunInv, NEW r \in Run, AgentEnds(r) \/ TimesOut(r)
  PROVE  RunInv'
<1> USE DEF RunInv
<1>1. PICK s \in Reports : Ended(r, s)
  BY DEF AgentEnds, TimesOut
<1>2. /\ pc[r] = "agent"
      /\ UNCHANGED <<up, time, made, next, failing, rows, written>>
  BY DEF AgentEnds, TimesOut
<1>3. /\ made[r] \in Nat /\ next[r] = 1
      /\ status' = [status EXCEPT ![r] = s]
      /\ \/ pc' = [pc EXCEPT ![r] = "persist"] /\ made[r] > 0
         \/ pc' = [pc EXCEPT ![r] = "over"] /\ made[r] = 0
  BY <1>1, <1>2 DEF Ended, TypeOK, MadeInTheLoop
<1>4. TypeOK'
  BY <1>2, <1>3 DEF TypeOK
<1>5. MadeInTheLoop'
  BY <1>2, <1>3 DEF TypeOK, MadeInTheLoop
<1>6. StoredInTurn'
  BY <1>2, <1>3 DEF TypeOK, StoredInTurn
<1>7. StoredFromTheFirst' /\ ReadOnlyInProposalMode'
  BY <1>2 DEF StoredFromTheFirst, ReadOnlyInProposalMode
<1>8. QED
  BY <1>4, <1>5, <1>6, <1>7

LEMMA ElapseKeeps == ASSUME RunInv, Elapse PROVE RunInv'
<1> USE DEF RunInv
<1>1. TypeOK'
  BY TimeoutAssumption DEF Elapse, TypeOK
<1>2. MadeInTheLoop' /\ StoredInTurn' /\ StoredFromTheFirst' /\ ReadOnlyInProposalMode'
  BY DEF Elapse, MadeInTheLoop, StoredInTurn, StoredFromTheFirst, ReadOnlyInProposalMode
<1>3. QED
  BY <1>1, <1>2

\* An add() that returned puts its proposal behind the earlier ones.
LEMMA AddedKeeps == ASSUME RunInv, NEW r \in Run, Added(r) PROVE RunInv'
<1> USE DEF RunInv
<1>1. /\ pc[r] = "persist" /\ rows' = rows \union {<<r, next[r]>>}
      /\ UNCHANGED <<up, status, time, made, failing, written>>
      /\ \/ /\ next[r] < made[r]
            /\ next' = [next EXCEPT ![r] = next[r] + 1] /\ pc' = pc
         \/ /\ ~(next[r] < made[r])
            /\ pc' = [pc EXCEPT ![r] = "over"] /\ next' = next
  BY DEF Added, Advance, TypeOK
<1>2. /\ next[r] \in 1..MaxProposals /\ made[r] \in 0..MaxProposals
      /\ next[r] <= made[r] /\ <<r, next[r]>> \in Proposal
  BY <1>1 DEF TypeOK, MadeInTheLoop
<1>3. TypeOK'
  BY <1>1, <1>2, BoundAssumption DEF TypeOK
<1>4. MadeInTheLoop'
  BY <1>1, <1>2, BoundAssumption DEF TypeOK, MadeInTheLoop
<1>5. failing[r] \/ \A k \in 1..MaxProposals : k <= next[r] => <<r, k>> \in rows'
  BY <1>1, <1>2, BoundAssumption DEF StoredInTurn
<1>6. \A p \in rows' : p[2] <= made'[p[1]]
  BY <1>1, <1>2 DEF StoredInTurn
<1>7. ASSUME NEW q \in Run
      PROVE  /\ pc'[q] = "persist" =>
                  failing'[q] \/ \A k \in 1..MaxProposals : k < next'[q] => <<q, k>> \in rows'
             /\ pc'[q] = "over" /\ status'[q] \in Reports =>
                  failing'[q] \/ \A k \in 1..made'[q] : <<q, k>> \in rows'
  <2>1. CASE q = r
    BY <1>1, <1>2, <1>5, <2>1, BoundAssumption DEF TypeOK
  <2>2. CASE q # r
    BY <1>1, <2>2 DEF TypeOK, StoredInTurn
  <2>3. QED
    BY <2>1, <2>2
<1>8. StoredInTurn'
  BY <1>6, <1>7 DEF StoredInTurn
<1>9. StoredFromTheFirst'
  BY <1>1, <1>2, <1>5, BoundAssumption DEF StoredFromTheFirst
<1>10. ReadOnlyInProposalMode'
  BY <1>1 DEF ReadOnlyInProposalMode
<1>11. QED
  BY <1>3, <1>4, <1>8, <1>9, <1>10

LEMMA AddFailsKeeps == ASSUME RunInv, NEW r \in Run, AddFails(r) PROVE RunInv'
<1> USE DEF RunInv
<1>1. /\ pc[r] = "persist" /\ failing' = [failing EXCEPT ![r] = TRUE]
      /\ UNCHANGED <<up, status, time, made, rows, written>>
      /\ \/ /\ next[r] < made[r]
            /\ next' = [next EXCEPT ![r] = next[r] + 1] /\ pc' = pc
         \/ /\ ~(next[r] < made[r])
            /\ pc' = [pc EXCEPT ![r] = "over"] /\ next' = next
  BY DEF AddFails, Advance, TypeOK
<1>2. /\ next[r] \in 1..MaxProposals /\ made[r] \in 0..MaxProposals
      /\ next[r] <= made[r]
  BY <1>1 DEF TypeOK, MadeInTheLoop
<1>3. TypeOK'
  BY <1>1, <1>2, BoundAssumption DEF TypeOK
<1>4. MadeInTheLoop'
  BY <1>1, <1>2, BoundAssumption DEF TypeOK, MadeInTheLoop
<1>5. failing'[r] = TRUE /\ \A q \in Run : failing[q] => failing'[q]
  BY <1>1 DEF TypeOK
<1>6. StoredInTurn'
  BY <1>1, <1>5 DEF TypeOK, StoredInTurn
<1>7. StoredFromTheFirst' /\ ReadOnlyInProposalMode'
  BY <1>1, <1>5 DEF StoredFromTheFirst, ReadOnlyInProposalMode
<1>8. QED
  BY <1>3, <1>4, <1>6, <1>7

\* Interrupted runs are over without a report; a commit in its thread is still
\* the next one.
LEMMA CancelKeeps == ASSUME RunInv, NEW r \in Run, Cancel(r) PROVE RunInv'
<1> USE DEF RunInv
<1>1. /\ pc' = [pc EXCEPT ![r] = "over"] /\ status' = [status EXCEPT ![r] = "cancelled"]
      /\ UNCHANGED <<up, time, made, next, failing, written>>
      /\ \/ rows' = rows
         \/ pc[r] = "persist" /\ rows' = rows \union {<<r, next[r]>>}
  BY DEF Cancel
<1>2. TypeOK' /\ MadeInTheLoop'
  BY <1>1, BoundAssumption DEF TypeOK, MadeInTheLoop
<1>3. \A p \in rows' : p[2] <= made'[p[1]]
  BY <1>1 DEF TypeOK, MadeInTheLoop, StoredInTurn
<1>4. StoredInTurn'
  BY <1>1, <1>3 DEF TypeOK, StoredInTurn
<1>5. StoredFromTheFirst'
  <2>1. CASE rows' = rows
    BY <1>1, <2>1 DEF StoredFromTheFirst
  <2>2. CASE pc[r] = "persist" /\ rows' = rows \union {<<r, next[r]>>}
    <3>1. next[r] \in 1..MaxProposals
      BY DEF TypeOK
    <3>2. failing[r] \/ \A k \in 1..MaxProposals : k <= next[r] => <<r, k>> \in rows'
      BY <2>2, <3>1, BoundAssumption DEF StoredInTurn
    <3>3. QED
      BY <1>1, <2>2, <3>1, <3>2, BoundAssumption DEF StoredFromTheFirst
  <2>3. QED
    BY <1>1, <2>1, <2>2
<1>6. ReadOnlyInProposalMode'
  BY <1>1 DEF ReadOnlyInProposalMode
<1>7. QED
  BY <1>2, <1>4, <1>5, <1>6

LEMMA CrashKeeps == ASSUME RunInv, Crash \/ Restart PROVE RunInv'
<1> USE DEF RunInv
<1>1. UNCHANGED <<time, made, next, failing, rows, written>> /\ up' \in BOOLEAN
  BY DEF Crash, Restart
<1>2. CASE Crash
  <2>1. \A r \in Run : \/ pc'[r] = "over" /\ status'[r] = "killed" /\ pc[r] # "over"
                       \/ pc'[r] = pc[r] /\ status'[r] = status[r]
    BY <1>2 DEF Crash, TypeOK
  <2>2. TypeOK'
    BY <1>1, <1>2 DEF Crash, TypeOK
  <2>3. MadeInTheLoop' /\ StoredInTurn'
    BY <1>1, <2>1 DEF MadeInTheLoop, StoredInTurn
  <2>4. QED
    BY <1>1, <2>2, <2>3 DEF StoredFromTheFirst, ReadOnlyInProposalMode
<1>3. CASE Restart
  BY <1>1, <1>3
     DEF Restart, TypeOK, MadeInTheLoop, StoredInTurn, StoredFromTheFirst, ReadOnlyInProposalMode
<1>4. QED
  BY <1>2, <1>3

LEMMA RunStepKeeps == RunInv /\ [Next]_vars => RunInv'
<1>1. ASSUME RunInv, NEW r \in Run, Step(r) PROVE RunInv'
  BY <1>1, QuietKeeps, LoopKeeps, EndedKeeps, AddedKeeps, AddFailsKeeps, CancelKeeps DEF Step
<1>2. RunInv /\ UNCHANGED vars => RunInv'
  BY DEF vars, RunInv, TypeOK, MadeInTheLoop, StoredInTurn, StoredFromTheFirst,
         ReadOnlyInProposalMode
<1>3. QED
  BY <1>1, <1>2, ElapseKeeps, CrashKeeps DEF Next

\* The inductive invariant: what a run has made, stored and written fits where
\* it is.
THEOREM RunInvariant == Spec => []RunInv
  BY RunInit, RunStepKeeps, PTL DEF Spec

\* Every variable of a run keeps its type, add() never asks for a proposal that
\* was not made.
THEOREM TypeCorrect == Spec => []TypeOK
<1>1. RunInv => TypeOK
  BY DEF RunInv
<1>2. QED
  BY <1>1, RunInvariant, PTL

\* However the agent loop ended, no report leaves a proposal behind unless the
\* store failed.
THEOREM ReportsAreComplete == Spec => []ReportIsComplete
<1>1. RunInv => ReportIsComplete
  BY DEF RunInv, TypeOK, StoredInTurn, ReportIsComplete, Noted
<1>2. QED
  BY <1>1, RunInvariant, PTL

\* Whenever a run is interrupted, the store has a beginning of its proposals.
THEOREM StoresABeginning == Spec => []StoredFromTheFirst
<1>1. RunInv => StoredFromTheFirst
  BY DEF RunInv
<1>2. QED
  BY <1>1, RunInvariant, PTL
-----------------------------------------------------------------------------
(* The pipeline: runs, and the review of what they leave.                  *)

LEMMA PipelineStepIsRunStep == [PipelineNext]_pipeline => [Next]_vars
  BY DEF PipelineNext, RunStep, TimePasses, CallStep, ProcessDies, ProcessRestarts,
         Next, pipeline, vars

\* The runs of the pipeline are runs of AgentRunner: nothing the reviewers do
\* changes them.
THEOREM PipelineRunsAgents == PipelineSpec => Spec
<1>1. PipelineInit => Init
  BY DEF PipelineInit
<1>2. QED
  BY <1>1, PipelineStepIsRunStep, PTL DEF PipelineSpec, Spec

Approved(p) == \E c \in Call : Verb[c] = "approve" /\ Target[c] = p /\ callPc[c] # "new"

ReviewTypes ==
  /\ rowStatus \in [Proposal -> Review!Settled \union {"absent", "pending"}]
  /\ effects \in [Proposal -> Nat]
  /\ callPc \in [Call -> Review!Busy \union Review!Answers \union {"new"}]

\* Calls work on rows the runs have stored, and tools are called for approvals.
ReviewOfRows ==
  /\ \A p \in Proposal : rowStatus[p] # "absent" => p \in rows
  /\ \A c \in Call : callPc[c] \in Review!Busy => Target[c] \in rows
  /\ \A c \in Call : callPc[c] = "tool" => Verb[c] = "approve"
  /\ \A p \in Proposal : effects[p] > 0 => p \in rows /\ Approved(p)

PipelineInv == RunInv /\ ReviewTypes /\ ReviewOfRows

USE DEF Review!Settled, Review!Answers, Review!Marking, Review!Busy, Review!Open,
        Review!Goto, Review!Pending, Review!Execute, Approved

LEMMA PipelineInitially == PipelineInit => PipelineInv
  BY RunInit, BoundAssumption DEF PipelineInit, Review!Init, PipelineInv, ReviewTypes, ReviewOfRows

LEMMA RowsOnlyGrow == ASSUME RunInv, [Next]_vars PROVE rows \subseteq rows'
  BY DEF Next, vars, Step, Elapse, Crash, Restart, Start, GuidanceArrives, GuidanceFails,
         CallTool, Propose, AgentEnds, TimesOut, Added, AddFails, Cancel

LEMMA CallStepKeeps ==
  ASSUME PipelineInv, NEW c \in Call, CallStep(c)
  PROVE  ReviewTypes' /\ ReviewOfRows'
<1> USE DEF PipelineInv
<1> DEFINE p == Target[c]
<1>1. p \in Proposal /\ Verb[c] \in {"approve", "reject"} /\ rows' = rows
  BY TargetAssumption, VerbAssumption DEF CallStep, vars
<1>2. CASE Review!Read(c) \/ Review!ReadFails(c)
  <2>1. /\ UNCHANGED <<rowStatus, effects>> /\ callPc[c] = "new"
        /\ \E l \in {"tool", "markRejected", "notFound", "error"} :
             /\ callPc' = [callPc EXCEPT ![c] = l]
             /\ l \in Review!Busy => rowStatus[p] = "pending"
             /\ l = "tool" => Verb[c] = "approve"
    BY <1>1, <1>2 DEF Review!Read, Review!ReadFails
  <2>2. ReviewTypes'
    BY <2>1 DEF ReviewTypes
  <2>3. ReviewOfRows'
    BY <1>1, <2>1, TargetAssumption DEF ReviewTypes, ReviewOfRows
  <2>4. QED
    BY <2>2, <2>3
<1>3. CASE Review!ToolReturns(c) \/ Review!ToolRaises(c)
  <2>1. /\ rowStatus' = rowStatus /\ callPc[c] = "tool"
        /\ \E l \in Review!Marking : callPc' = [callPc EXCEPT ![c] = l]
        /\ effects' = effects \/ effects' = [effects EXCEPT ![p] = effects[p] + 1]
    BY <1>3 DEF Review!ToolReturns, Review!ToolRaises
  <2>2. ReviewTypes'
    BY <1>1, <2>1 DEF ReviewTypes
  <2>3. p \in rows /\ Verb[c] = "approve"
    BY <2>1 DEF ReviewOfRows
  <2>4. \A d \in Call : callPc'[d] # "new" <=> callPc[d] # "new"
    BY <2>1 DEF ReviewTypes
  <2>5. \A q \in Proposal : effects'[q] > 0 => q = p \/ effects[q] > 0
    BY <1>1, <2>1 DEF ReviewTypes
  <2>6. ReviewOfRows'
    BY <1>1, <2>1, <2>3, <2>4, <2>5, TargetAssumption DEF ReviewTypes, ReviewOfRows
  <2>7. QED
    BY <2>2, <2>6
<1>4. CASE Review!SetStatus(c) \/ Review!SetStatusFails(c)
  <2>1. /\ effects' = effects /\ callPc[c] \in Review!Marking
        /\ \E l \in Review!Answers : callPc' = [callPc EXCEPT ![c] = l]
        /\ \/ rowStatus' = rowStatus
           \/ \E s \in Review!Settled : rowStatus' = [rowStatus EXCEPT ![p] = s]
    BY <1>4 DEF Review!SetStatus, Review!SetStatusFails, Review!Mark
  <2>2. ReviewTypes'
    BY <1>1, <2>1 DEF ReviewTypes
  <2>3. ReviewOfRows'
    BY <1>1, <2>1, TargetAssumption DEF ReviewTypes, ReviewOfRows
  <2>4. QED
    BY <2>2, <2>3
<1>5. QED
  BY <1>2, <1>3, <1>4 DEF CallStep

\* The tool calls of a dying process may still be executed, each for its row.
LEMMA ProcessDiesKeeps ==
  ASSUME PipelineInv, ProcessDies
  PROVE  ReviewTypes' /\ ReviewOfRows'
<1> USE DEF PipelineInv
<1>1. rows' = rows /\ rowStatus' = rowStatus
  BY DEF ProcessDies, Crash, Review!Crash
<1>2. callPc' = [c \in Call |-> IF Review!Open(c) THEN "killed" ELSE callPc[c]]
  BY DEF ProcessDies, Review!Crash
<1>3. PICK late \in SUBSET {c \in Call : callPc[c] = "tool"} :
        effects' = [p \in Proposal |-> effects[p] + Cardinality({c \in late : Target[c] = p})]
  BY DEF ProcessDies, Review!Crash, Review!Cardinality, Cardinality
<1>4. ASSUME NEW p \in Proposal
      PROVE  /\ effects'[p] \in Nat
             /\ effects'[p] > 0 => effects[p] > 0 \/ \E c \in late : Target[c] = p
  <2> DEFINE mine == {c \in late : Target[c] = p}
  <2>1. IsFiniteSet(mine)
    BY CallsFinite, FS_Subset
  <2>2. Cardinality(mine) \in Nat /\ (mine = {} => Cardinality(mine) = 0)
    BY <2>1, FS_CardinalityType, FS_EmptySet
  <2>3. effects[p] \in Nat /\ effects'[p] = effects[p] + Cardinality(mine)
    BY <1>3 DEF ReviewTypes
  <2>4. QED
    BY <2>2, <2>3
<1>5. ReviewTypes'
  BY <1>1, <1>2, <1>3, <1>4 DEF ReviewTypes
<1>6. \A c \in Call : callPc'[c] \notin Review!Busy /\ (callPc[c] # "new" => callPc'[c] # "new")
  BY <1>2 DEF ReviewTypes
<1>7. ReviewOfRows'
  BY <1>1, <1>3, <1>4, <1>6 DEF ReviewOfRows
<1>8. QED
  BY <1>5, <1>7

LEMMA PipelineStepKeeps == PipelineInv /\ [PipelineNext]_pipeline => PipelineInv'
<1> SUFFICES ASSUME PipelineInv, [PipelineNext]_pipeline
             PROVE  PipelineInv'
  OBVIOUS
<1>1. RunInv' /\ rows \subseteq rows'
  BY PipelineStepIsRunStep, RunStepKeeps, RowsOnlyGrow DEF PipelineInv
<1>2. ASSUME UNCHANGED review PROVE ReviewTypes' /\ ReviewOfRows'
  BY <1>1, <1>2 DEF review, PipelineInv, ReviewTypes, ReviewOfRows
<1>3. ASSUME NEW p \in Proposal, rows' = rows \union {p}, Review!Add(p)
      PROVE  ReviewTypes' /\ ReviewOfRows'
  BY <1>1, <1>3 DEF Review!Add, PipelineInv, ReviewTypes, ReviewOfRows
<1>4. ASSUME ProcessRestarts PROVE ReviewTypes' /\ ReviewOfRows'
  BY <1>1, <1>4 DEF ProcessRestarts, Review!Restart, PipelineInv, ReviewTypes, ReviewOfRows
<1>5. UNCHANGED pipeline => UNCHANGED review
  BY DEF pipeline, review
<1>6. ReviewTypes' /\ ReviewOfRows'
  BY <1>2, <1>3, <1>4, <1>5, CallStepKeeps, ProcessDiesKeeps
     DEF PipelineNext, RunStep, TimePasses
<1>7. QED
  BY <1>1, <1>6 DEF PipelineInv

\* The inductive invariant of runs and review together.
THEOREM PipelineInvariant == PipelineSpec => []PipelineInv
  BY PipelineInitially, PipelineStepKeeps, PTL DEF PipelineSpec

\* An agent in proposal mode changes nothing in SAGA by itself, and what is
\* executed for it was approved by a call and made by its run.
THEOREM WritesAreReviewed == PipelineSpec => []OnlyReviewedWrites
<1>1. ASSUME PipelineInv PROVE OnlyReviewedWrites
  <2>1. \A r \in Run : Autonomy[r] = "proposal" => written[r] = {}
    BY <1>1 DEF PipelineInv, RunInv, ReadOnlyInProposalMode
  <2>2. ASSUME NEW p \in Proposal, effects[p] > 0
        PROVE  /\ p \in rows /\ p[2] <= made[p[1]] /\ Autonomy[p[1]] = "proposal"
               /\ \E c \in Call : Verb[c] = "approve" /\ Target[c] = p /\ callPc[c] # "new"
    <3>1. p \in rows /\ Approved(p)
      BY <1>1, <2>2 DEF PipelineInv, ReviewOfRows
    <3>2. p[1] \in Run /\ p[2] \in 1..MaxProposals /\ p[2] <= made[p[1]]
      BY <1>1, <3>1 DEF PipelineInv, RunInv, StoredInTurn
    <3>3. made[p[1]] # 0
      BY <3>2, BoundAssumption
    <3>4. Autonomy[p[1]] = "proposal"
      BY <1>1, <3>2, <3>3 DEF PipelineInv, RunInv, MadeInTheLoop
    <3>5. QED
      BY <3>1, <3>2, <3>4
  <2>3. QED
    BY <2>1, <2>2 DEF OnlyReviewedWrites
<1>2. QED
  BY <1>1, PipelineInvariant, PTL
-----------------------------------------------------------------------------
(* The review in the pipeline: what ProposalReviewProofs proves of calls   *)
(* on any store holds beside the runs that fill it.                        *)

ReviewProofs == INSTANCE ProposalReviewProofs
  WITH status <- rowStatus, pc <- callPc, Faults <- Faults \intersect ReviewFaults

LEMMA ProposalsFinite == IsFiniteSet(Proposal)
<1>1. IsFiniteSet(1..MaxProposals)
  BY BoundAssumption, FS_Interval
<1>2. QED
  BY <1>1, RunsFinite, FS_Product

\* A step of the pipeline is one of the review: what a run adds is new to the
\* store, and nothing else a run does touches a row.
LEMMA PipelineStepIsReviewStep == [PipelineNext]_pipeline => [Review!Next]_Review!vars
<1>1. ASSUME UNCHANGED review, UNCHANGED up PROVE UNCHANGED Review!vars
  BY <1>1 DEF review, Review!vars
<1>2. ASSUME NEW r \in Run, RunStep(r) PROVE [Review!Next]_Review!vars
  <2>1. UNCHANGED up
    BY <1>2 DEF RunStep, Step, Start, GuidanceArrives, GuidanceFails, CallTool, Propose,
                AgentEnds, TimesOut, Added, AddFails, Cancel
  <2>2. QED
    BY <1>1, <1>2, <2>1 DEF RunStep, Review!Next
<1>3. ASSUME NEW c \in Call, CallStep(c) PROVE [Review!Next]_Review!vars
  BY <1>3 DEF CallStep, Review!Next
<1>4. TimePasses => [Review!Next]_Review!vars
  BY <1>1 DEF TimePasses, Elapse
<1>5. ProcessDies \/ ProcessRestarts => [Review!Next]_Review!vars
  BY DEF ProcessDies, ProcessRestarts, Review!Next
<1>6. UNCHANGED pipeline => UNCHANGED Review!vars
  BY <1>1 DEF pipeline, vars
<1>7. QED
  BY <1>2, <1>3, <1>4, <1>5, <1>6 DEF PipelineNext

\* The reviews of the pipeline are reviews of ProposalReview: a run does nothing
\* to them but what add() does, and its crashes are theirs.
THEOREM PipelineReviews == PipelineSpec => Review!Spec
<1>1. PipelineInit => Review!Init
  BY DEF PipelineInit
<1>2. QED
  BY <1>1, PipelineStepIsReviewStep, PTL DEF PipelineSpec, Review!Spec

LEMMA ReviewAssumptions ==
  /\ ReviewProofs!ProposalsFinite /\ ReviewProofs!CallsFinite
  /\ ReviewProofs!VerbAssumption /\ ReviewProofs!TargetAssumption
  /\ ReviewProofs!FaultsAssumption
  BY ProposalsFinite, CallsFinite, VerbAssumption, TargetAssumption
     DEF ReviewProofs!IsFiniteSet, IsFiniteSet, ReviewProofs!FaultKinds, ReviewFaults

\* The two instances are one.
LEMMA SameReview ==
  /\ Review!Init => ReviewProofs!Init
  /\ [Review!Next]_Review!vars => [ReviewProofs!Next]_ReviewProofs!vars
  BY DEF Review!Init, ReviewProofs!Init, Review!vars, ReviewProofs!vars, Review!Next,
         ReviewProofs!Next, Review!Add, ReviewProofs!Add, Review!Read, ReviewProofs!Read,
         Review!ReadFails, ReviewProofs!ReadFails, Review!ToolReturns,
         ReviewProofs!ToolReturns, Review!ToolRaises, ReviewProofs!ToolRaises,
         Review!SetStatus, ReviewProofs!SetStatus, Review!SetStatusFails,
         ReviewProofs!SetStatusFails, Review!Mark, ReviewProofs!Mark, Review!Crash,
         ReviewProofs!Crash, Review!Restart, ReviewProofs!Restart, Review!Quiet,
         ReviewProofs!Quiet, Review!Pending, ReviewProofs!Pending, Review!Goto,
         ReviewProofs!Goto, Review!Execute, ReviewProofs!Execute, Review!Open,
         ReviewProofs!Open, Review!Busy, ReviewProofs!Busy, Review!Marking,
         ReviewProofs!Marking, Review!Settled, ReviewProofs!Settled, Review!Answers,
         ReviewProofs!Answers, Review!Cardinality, ReviewProofs!Cardinality

LEMMA PipelineIsReview == PipelineSpec => ReviewProofs!Spec
  BY SameReview, PipelineReviews, PTL DEF Review!Spec, ReviewProofs!Spec

\* While runs go on storing, time out and are cancelled, an action is executed
\* at most once unless calls overlap or are interrupted.
THEOREM PipelineExecutesOnce ==
  PipelineSpec => []ReviewProofs!ExecutedOnceUnlessDisturbed
<1>1. ReviewProofs!Spec => []ReviewProofs!ExecutedOnceUnlessDisturbed
  BY ReviewAssumptions, ReviewProofs!ExecutedOnce
<1>2. QED
  BY <1>1, PipelineIsReview, PTL

\* No run takes back what a reviewer was answered, nor does the next process.
THEOREM PipelineAnswersStand == PipelineSpec => []ReviewProofs!AnswerStands
<1>1. ReviewProofs!Spec => []ReviewProofs!AnswerStands
  BY ReviewAssumptions, ReviewProofs!AnswersStand
<1>2. QED
  BY <1>1, PipelineIsReview, PTL

\* From the agent's add() to the answer of the API, whatever runs, calls and
\* crashes interleave, a proposal lives the life ProposalLifecycle gives it.
THEOREM PipelineImplementsLifecycle == PipelineSpec => ReviewProofs!ImplementsLifecycle
<1>1. ReviewProofs!Spec => ReviewProofs!ImplementsLifecycle
  BY ReviewAssumptions, ReviewProofs!LifecycleIsImplemented
<1>2. QED
  BY <1>1, PipelineIsReview, PTL
=============================================================================
