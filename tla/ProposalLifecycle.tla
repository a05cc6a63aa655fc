-------------------------- MODULE ProposalLifecycle --------------------------
(***************************************************************************)
(* A proposal as a reviewer sees it: it is pending until one decision      *)
(* settles it and executes its action if that was to approve, or until     *)
(* the decision is disturbed and nothing is promised any more.             *)
(***************************************************************************)
CONSTANT Proposal

VARIABLES
  state,    \* "absent", "pending", a final status, or "disturbed"
  executed  \* the action may have been executed

Init ==
  /\ state = [p \in Proposal |-> "absent"]
  /\ executed = [p \in Proposal |-> FALSE]

Propose(p) ==
  /\ state[p] = "absent"
  /\ state' = [state EXCEPT ![p] = "pending"]
  /\ UNCHANGED executed

Apply(p) ==
  /\ state[p] = "pending"
  /\ state' = [state EXCEPT ![p] = "applied"]
  /\ executed' = [executed EXCEPT ![p] = TRUE]

\* A failed call may have been executed all the same.
Fail(p) ==
  /\ state[p] = "pending"
  /\ state' = [state EXCEPT ![p] = "failed"]
  /\ \E e \in BOOLEAN : executed' = [executed EXCEPT ![p] = e]

Reject(p) ==
  /\ state[p] = "pending"
  /\ state' = [state EXCEPT ![p] = "rejected"]
  /\ UNCHANGED executed

\* Overlapping decisions, or a crash in several of them at once.
Disturb(S) ==
  /\ \A p \in S : state[p] = "pending"
  /\ state' = [p \in Proposal |-> IF p \in S THEN "disturbed" ELSE state[p]]
  /\ executed' = [p \in Proposal |-> p \in S \/ executed[p]]

Next ==
  \/ \E p \in Proposal : Propose(p) \/ Apply(p) \/ Fail(p) \/ Reject(p)
  \/ \E S \in SUBSET Proposal : Disturb(S)

Spec == Init /\ [][Next]_<<state, executed>>
=============================================================================
