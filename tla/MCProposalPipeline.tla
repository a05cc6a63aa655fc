-------------------------- MODULE MCProposalPipeline --------------------------
(***************************************************************************)
(* A small instance of ProposalPipeline for TLC.                           *)
(***************************************************************************)
EXTENDS ProposalPipeline, TLC

CONSTANTS r1, r2, c1, c2, search, merge

\* A proposal-mode run and an autonomous one with the same tools; an approval
\* of the first's first proposal, and one of its second.
TwoModes == r1 :> "proposal" @@ r2 :> "autonomous"
BothTools == [r \in {r1, r2} |-> {search, merge}]
MergeWrites == [r \in {r1, r2} |-> {merge}]
Approvals == [c \in {c1, c2} |-> "approve"]
Targets == c1 :> <<r1, 1>> @@ c2 :> <<r1, 2>>
=============================================================================
