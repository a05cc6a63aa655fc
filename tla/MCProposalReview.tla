-------------------------- MODULE MCProposalReview --------------------------
(***************************************************************************)
(* Small instances of ProposalReview for TLC: three calls that may overlap *)
(* on one proposal, and one on another.                                    *)
(***************************************************************************)
EXTENDS ProposalReview, TLC

CONSTANTS x, y, c1, c2, c3, c4

MCVerb == c1 :> "approve" @@ c2 :> "approve" @@ c3 :> "reject" @@ c4 :> "approve"
MCTarget == c1 :> x @@ c2 :> x @@ c3 :> x @@ c4 :> y
=============================================================================
