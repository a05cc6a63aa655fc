------------------------- MODULE ProposalReviewProofs -------------------------
(***************************************************************************)
(* Theorems about ProposalReview, for every finite set of proposals and    *)
(* calls, all verbs and targets and every set of faults.                   *)
(***************************************************************************)
EXTENDS ProposalReview, FiniteSetTheorems, TLAPS

\* Only an approval calls the tool or marks its outcome.
VerbsFit ==
  \A c \in Call :
    /\ pc[c] \in {"tool", "markApplied", "markFailed"} => Verb[c] = "approve"
    /\ pc[c] = "markRejected" => Verb[c] = "reject"

\* A call about to write "applied" saw the tool return.
ReturnedWasExecuted ==
  \A c \in Call : pc[c] = "markApplied" => effects[Target[c]] > 0

\* What holds of a proposal whose calls neither overlap nor get interrupted.
\* One call at a time works on it, while it is pending.
Alone ==
  \A c \in Call :
    Open(c) /\ ~mishap[Target[c]] =>
      /\ status[Target[c]] = "pending"
      /\ \A d \in Call : Target[d] = Target[c] /\ Open(d) => d = c

\* Its action was executed as often as its status and its open call say.
Accounted ==
  \A p \in Proposal :
    ~mishap[p] =>
      /\ status[p] \in {"absent", "rejected"} => effects[p] = 0
      /\ status[p] = "applied" => effects[p] = 1
      /\ status[p] = "failed" => effects[p] <= 1
      /\ status[p] = "pending"
           => \/ effects[p] = 0
              \/ \E c \in Call :
                   Target[c] = p /\ pc[c] \in {"markApplied", "markFailed"} /\ effects[p] = 1

ReviewInv ==
  TypeOK /\ VerbsFit /\ ReturnedWasExecuted /\ AppliedWasExecuted
    /\ Alone /\ Accounted /\ AnswerStands

USE DEF Settled, Answers, Marking, Busy, Open, Goto, Pending

LEMMA ReviewInit == Init => ReviewInv
<1> SUFFICES ASSUME Init PROVE ReviewInv
  OBVIOUS
<1>1. \A c \in Call : pc[c] = "new"
  BY DEF Init
<1>2. \A p \in Proposal : status[p] = "absent" /\ effects[p] = 0
  BY DEF Init
<1>3. TypeOK
  BY DEF Init, TypeOK
<1>4. VerbsFit /\ ReturnedWasExecuted /\ Alone /\ AnswerStands
  BY <1>1 DEF VerbsFit, ReturnedWasExecuted, Alone, AnswerStands
<1>5. AppliedWasExecuted /\ Accounted
  BY <1>2 DEF AppliedWasExecuted, Accounted
<1>6. QED
  BY <1>3, <1>4, <1>5 DEF ReviewInv
-----------------------------------------------------------------------------
(* The actions, one by one.                                                *)

LEMMA AddKeeps ==
  ASSUME ReviewInv, NEW p \in Proposal, Add(p)
  PROVE  ReviewInv'
<1> USE DEF ReviewInv
<1>1. /\ status[p] = "absent" /\ status' = [status EXCEPT ![p] = "pending"]
      /\ UNCHANGED <<up, effects, counted, pc, mishap>>
  BY DEF Add
<1>2. TypeOK'
  BY <1>1 DEF TypeOK
<1>3. VerbsFit' /\ ReturnedWasExecuted'
  BY <1>1 DEF VerbsFit, ReturnedWasExecuted
<1>4. AppliedWasExecuted'
  BY <1>1 DEF TypeOK, AppliedWasExecuted
<1>5. Alone' /\ AnswerStands'
  BY <1>1, TargetAssumption DEF TypeOK, Alone, AnswerStands
<1>6. Accounted'
  BY <1>1 DEF TypeOK, Accounted
<1>7. QED
  BY <1>2, <1>3, <1>4, <1>5, <1>6

LEMMA ReadKeeps ==
  ASSUME ReviewInv, NEW c \in Call, Read(c)
  PROVE  ReviewInv'
<1> USE DEF ReviewInv
<1> DEFINE p == Target[c]
<1>1. /\ p \in Proposal /\ pc[c] = "new" /\ Verb[c] \in {"approve", "reject"}
      /\ UNCHANGED <<up, status, effects, counted>>
  BY TargetAssumption, VerbAssumption DEF Read
<1>2. CASE Pending(p)
  <2> DEFINE others == \E d \in Call : d # c /\ Target[d] = p /\ Open(d)
             l == IF Verb[c] = "approve" THEN "tool" ELSE "markRejected"
  <2>1. /\ status[p] = "pending" /\ l \in Busy
        /\ pc' = [pc EXCEPT ![c] = l]
        /\ mishap' = [mishap EXCEPT ![p] = mishap[p] \/ others]
    BY <1>1, <1>2 DEF Read, TypeOK
  <2>2. TypeOK'
    BY <1>1, <2>1 DEF TypeOK
  <2>3. VerbsFit' /\ ReturnedWasExecuted' /\ AppliedWasExecuted'
    BY <1>1, <2>1 DEF TypeOK, VerbsFit, ReturnedWasExecuted, AppliedWasExecuted
  <2>4. \A q \in Proposal : ~mishap'[q] => ~mishap[q] /\ (q = p => ~others)
    BY <1>1, <2>1 DEF TypeOK
  <2>5. Alone'
    BY <1>1, <2>1, <2>4, TargetAssumption DEF TypeOK, Alone
  <2>6. Accounted'
    <3> SUFFICES ASSUME NEW q \in Proposal, ~mishap'[q], status[q] = "pending", effects[q] # 0
                 PROVE  \E d \in Call : /\ Target[d] = q /\ effects[q] = 1
                                        /\ pc'[d] \in {"markApplied", "markFailed"}
      BY <1>1, <2>4 DEF Accounted
    <3>1. PICK d \in Call : /\ Target[d] = q /\ effects[q] = 1
                            /\ pc[d] \in {"markApplied", "markFailed"}
      BY <2>4 DEF Accounted
    <3>2. pc'[d] = pc[d]
      BY <1>1, <2>1, <3>1 DEF TypeOK
    <3>3. QED
      BY <3>1, <3>2
  <2>7. AnswerStands'
    BY <1>1, <2>1, <2>4, TargetAssumption DEF TypeOK, AnswerStands
  <2>8. QED
    BY <2>2, <2>3, <2>5, <2>6, <2>7
<1>3. CASE ~Pending(p)
  <2>1. pc' = [pc EXCEPT ![c] = "notFound"] /\ UNCHANGED mishap
    BY <1>3 DEF Read
  <2>2. TypeOK' /\ VerbsFit' /\ ReturnedWasExecuted' /\ AppliedWasExecuted'
    BY <1>1, <2>1 DEF TypeOK, VerbsFit, ReturnedWasExecuted, AppliedWasExecuted
  <2>3. Alone' /\ AnswerStands'
    BY <1>1, <2>1 DEF TypeOK, Alone, AnswerStands
  <2>4. Accounted'
    BY <1>1, <2>1 DEF TypeOK, Accounted
  <2>5. QED
    BY <2>2, <2>3, <2>4
<1>4. QED
  BY <1>2, <1>3

LEMMA ReadFailsKeeps ==
  ASSUME ReviewInv, NEW c \in Call, ReadFails(c)
  PROVE  ReviewInv'
<1> USE DEF ReviewInv
<1>1. /\ pc[c] = "new" /\ pc' = [pc EXCEPT ![c] = "error"]
      /\ UNCHANGED <<up, status, effects, counted, mishap>>
  BY DEF ReadFails
<1>2. TypeOK' /\ VerbsFit' /\ ReturnedWasExecuted' /\ AppliedWasExecuted'
  BY <1>1 DEF TypeOK, VerbsFit, ReturnedWasExecuted, AppliedWasExecuted
<1>3. Alone' /\ AnswerStands' /\ Accounted'
  BY <1>1 DEF TypeOK, Alone, AnswerStands, Accounted
<1>4. QED
  BY <1>2, <1>3

\* The tool call ends, the action executed (always when it returns) or not.
LEMMA ToolKeeps ==
  ASSUME ReviewInv, NEW c \in Call, ToolReturns(c) \/ ToolRaises(c)
  PROVE  ReviewInv'
<1> USE DEF ReviewInv
<1> DEFINE p == Target[c]
<1>1. PICK l \in {"markApplied", "markFailed"} : pc' = [pc EXCEPT ![c] = l]
  BY DEF ToolReturns, ToolRaises
<1>2. /\ p \in Proposal /\ pc[c] = "tool"
      /\ UNCHANGED <<up, status, counted, mishap>>
  BY TargetAssumption DEF ToolReturns, ToolRaises
<1>3. /\ effects' = [effects EXCEPT ![p] = effects[p] + 1] \/ UNCHANGED effects
      /\ pc'[c] = "markApplied" => effects' = [effects EXCEPT ![p] = effects[p] + 1]
  BY <1>2 DEF ToolReturns, ToolRaises, Execute, TypeOK
<1>4. /\ effects \in [Proposal -> Nat] /\ effects' \in [Proposal -> Nat]
      /\ \A q \in Proposal : q # p => effects'[q] = effects[q]
      /\ effects'[p] \in {effects[p], effects[p] + 1}
  BY <1>2, <1>3 DEF TypeOK
<1>5. pc'[c] = l /\ \A d \in Call : d # c => pc'[d] = pc[d]
  BY <1>1 DEF TypeOK
<1>6. TypeOK'
  BY <1>1, <1>2, <1>4 DEF TypeOK
<1>7. VerbsFit'
  BY <1>2, <1>5 DEF VerbsFit
<1>8. ReturnedWasExecuted'
  BY <1>2, <1>3, <1>4, <1>5, TargetAssumption DEF TypeOK, ReturnedWasExecuted
<1>9. AppliedWasExecuted'
  BY <1>2, <1>4 DEF AppliedWasExecuted
<1>10. Alone' /\ AnswerStands'
  BY <1>2, <1>5 DEF Alone, AnswerStands
<1>11. Accounted'
  <2>1. ASSUME ~mishap[p]
        PROVE  status[p] = "pending" /\ effects[p] = 0
    <3>1. status[p] = "pending" /\ \A d \in Call : Target[d] = p /\ Open(d) => d = c
      BY <1>2, <2>1 DEF Alone
    <3>2. ~ \E d \in Call : Target[d] = p /\ pc[d] \in {"markApplied", "markFailed"}
      BY <1>2, <3>1
    <3>3. QED
      BY <1>2, <2>1, <3>1, <3>2 DEF Accounted
  <2> SUFFICES ASSUME NEW q \in Proposal, ~mishap[q]
               PROVE  /\ status[q] \in {"absent", "rejected"} => effects'[q] = 0
                      /\ status[q] = "applied" => effects'[q] = 1
                      /\ status[q] = "failed" => effects'[q] <= 1
                      /\ status[q] = "pending"
                           => \/ effects'[q] = 0
                              \/ \E d \in Call :
                                   /\ Target[d] = q /\ effects'[q] = 1
                                   /\ pc'[d] \in {"markApplied", "markFailed"}
    BY <1>2 DEF Accounted
  <2>2. CASE q = p
    BY <1>4, <1>5, <2>1, <2>2
  <2>3. CASE q # p
    BY <1>2, <1>4, <1>5, <2>3 DEF Accounted
  <2>4. QED
    BY <2>2, <2>3
<1>12. QED
  BY <1>6, <1>7, <1>8, <1>9, <1>10, <1>11

\* What set_status writes fits the call it writes for.
LEMMA MarkFits ==
  ASSUME ReviewInv, NEW c \in Call, pc[c] \in Marking
  PROVE  /\ Mark(c) \in Settled
         /\ Mark(c) = "applied" <=> pc[c] = "markApplied"
         /\ Mark(c) = "failed" <=> pc[c] = "markFailed"
         /\ Mark(c) = "rejected" <=> pc[c] = "markRejected"
<1>1. CASE pc[c] = "markApplied"
  BY <1>1 DEF Mark
<1>2. CASE pc[c] = "markFailed"
  BY <1>2 DEF Mark
<1>3. CASE pc[c] = "markRejected"
  BY <1>3 DEF Mark
<1>4. QED
  BY <1>1, <1>2, <1>3

LEMMA SetStatusKeeps ==
  ASSUME ReviewInv, NEW c \in Call, SetStatus(c)
  PROVE  ReviewInv'
<1> USE DEF ReviewInv
<1> DEFINE p == Target[c]
           m == Mark(c)
<1>1. /\ p \in Proposal /\ pc[c] \in Marking
      /\ status' = [status EXCEPT ![p] = m] /\ pc' = [pc EXCEPT ![c] = m]
      /\ counted' = [counted EXCEPT ![m] = @ + 1]
      /\ UNCHANGED <<up, effects, mishap>>
  BY TargetAssumption DEF SetStatus
<1>2. /\ m \in Settled
      /\ m = "applied" <=> pc[c] = "markApplied"
      /\ m = "failed" <=> pc[c] = "markFailed"
      /\ m = "rejected" <=> pc[c] = "markRejected"
  BY <1>1, MarkFits
<1> HIDE DEF m
<1>3. /\ pc'[c] = m /\ \A d \in Call : d # c => pc'[d] = pc[d]
      /\ status'[p] = m /\ \A q \in Proposal : q # p => status'[q] = status[q]
  BY <1>1 DEF TypeOK
<1>4. TypeOK'
  BY <1>1, <1>2 DEF TypeOK
<1>5. VerbsFit' /\ ReturnedWasExecuted'
  BY <1>1, <1>2, <1>3 DEF VerbsFit, ReturnedWasExecuted
<1>6. AppliedWasExecuted'
  BY <1>1, <1>2, <1>3 DEF AppliedWasExecuted, ReturnedWasExecuted
<1>7. ~mishap[p] => status[p] = "pending" /\ \A d \in Call : Target[d] = p /\ Open(d) => d = c
  BY <1>1 DEF Alone
<1>8. Alone'
  <2> SUFFICES ASSUME NEW d \in Call, pc'[d] \in Busy, ~mishap[Target[d]]
               PROVE  /\ status'[Target[d]] = "pending"
                      /\ \A e \in Call : Target[e] = Target[d] /\ pc'[e] \in Busy => e = d
    BY <1>1 DEF Alone
  <2>1. d # c /\ Open(d) /\ Target[d] \in Proposal
    BY <1>2, <1>3, TargetAssumption
  <2>2. Target[d] # p
    BY <1>7, <2>1
  <2>3. QED
    BY <1>2, <1>3, <2>1, <2>2 DEF Alone
<1>9. AnswerStands'
  BY <1>1, <1>2, <1>3, <1>7, TargetAssumption DEF AnswerStands
<1>10. Accounted'
  <2>1. ASSUME ~mishap[p]
        PROVE  /\ m = "applied" => effects[p] = 1
               /\ m = "failed" => effects[p] <= 1
               /\ m = "rejected" => effects[p] = 0
    <3>1. \/ effects[p] = 0
          \/ effects[p] = 1 /\ pc[c] \in {"markApplied", "markFailed"}
      BY <1>1, <1>7, <2>1 DEF Accounted
    <3>2. m = "applied" => effects[p] > 0
      BY <1>2 DEF ReturnedWasExecuted
    <3>3. QED
      BY <1>2, <3>1, <3>2
  <2> SUFFICES ASSUME NEW q \in Proposal, ~mishap[q]
               PROVE  /\ status'[q] \in {"absent", "rejected"} => effects[q] = 0
                      /\ status'[q] = "applied" => effects[q] = 1
                      /\ status'[q] = "failed" => effects[q] <= 1
                      /\ status'[q] = "pending"
                           => \/ effects[q] = 0
                              \/ \E d \in Call :
                                   /\ Target[d] = q /\ effects[q] = 1
                                   /\ pc'[d] \in {"markApplied", "markFailed"}
    BY <1>1 DEF Accounted
  <2>2. CASE q = p
    BY <1>2, <1>3, <2>1, <2>2
  <2>3. CASE q # p
    BY <1>3, <2>3 DEF Accounted
  <2>4. QED
    BY <2>2, <2>3
<1>11. QED
  BY <1>4, <1>5, <1>6, <1>8, <1>9, <1>10

LEMMA SetStatusFailsKeeps ==
  ASSUME ReviewInv, NEW c \in Call, SetStatusFails(c)
  PROVE  ReviewInv'
<1> USE DEF ReviewInv
<1> DEFINE p == Target[c]
<1>1. /\ p \in Proposal /\ pc[c] \in Marking /\ pc' = [pc EXCEPT ![c] = "error"]
      /\ mishap' = [mishap EXCEPT ![p] = mishap[p] \/ Verb[c] = "approve"]
      /\ UNCHANGED <<up, status, effects, counted>>
  BY TargetAssumption DEF SetStatusFails, TypeOK
<1>2. /\ pc'[c] = "error" /\ \A d \in Call : d # c => pc'[d] = pc[d]
      /\ \A q \in Proposal : ~mishap'[q] => ~mishap[q] /\ (q = p => Verb[c] # "approve")
  BY <1>1 DEF TypeOK
<1>3. TypeOK' /\ VerbsFit' /\ ReturnedWasExecuted' /\ AppliedWasExecuted'
  BY <1>1 DEF TypeOK, VerbsFit, ReturnedWasExecuted, AppliedWasExecuted
<1>4. Alone' /\ AnswerStands'
  BY <1>1, <1>2, TargetAssumption DEF Alone, AnswerStands
<1>5. Accounted'
  <2> SUFFICES ASSUME NEW q \in Proposal, ~mishap'[q], status[q] = "pending", effects[q] # 0
               PROVE  \E d \in Call : /\ Target[d] = q /\ effects[q] = 1
                                      /\ pc'[d] \in {"markApplied", "markFailed"}
    BY <1>1, <1>2 DEF Accounted
  <2>1. PICK d \in Call : /\ Target[d] = q /\ effects[q] = 1
                          /\ pc[d] \in {"markApplied", "markFailed"}
    BY <1>2 DEF Accounted
  <2>2. d # c
    BY <1>2, <2>1 DEF VerbsFit
  <2>3. QED
    BY <1>2, <2>1, <2>2
<1>6. QED
  BY <1>3, <1>4, <1>5

\* What a crash leaves: no open call, and mishaps on every interrupted approval;
\* only those can have been executed once more.
LEMMA CrashLeaves ==
  ASSUME ReviewInv, Crash
  PROVE  /\ UNCHANGED status /\ effects' \in [Proposal -> Nat]
         /\ \A c \in Call : pc'[c] = IF Open(c) THEN "killed" ELSE pc[c]
         /\ \A p \in Proposal :
              /\ mishap'[p] <=> \/ mishap[p]
                               \/ \E c \in Call : /\ Target[c] = p /\ Verb[c] = "approve"
                                                  /\ Open(c)
              /\ effects'[p] >= effects[p]
              /\ ~mishap'[p] => effects'[p] = effects[p]
<1> USE DEF ReviewInv
<1>1. /\ UNCHANGED status
      /\ pc' = [c \in Call |-> IF Open(c) THEN "killed" ELSE pc[c]]
      /\ mishap' = [p \in Proposal |-> mishap[p] \/
                      \E c \in Call : Target[c] = p /\ Verb[c] = "approve" /\ Open(c)]
  BY DEF Crash
<1>2. PICK late \in SUBSET {c \in Call : pc[c] = "tool"} :
        effects' = [p \in Proposal |->
                      effects[p] + Cardinality({c \in late : Target[c] = p})]
  BY DEF Crash
<1>3. \A p \in Proposal : Cardinality({c \in late : Target[c] = p}) \in Nat
  BY CallsFinite, FS_Subset, FS_CardinalityType
<1>4. effects \in [Proposal -> Nat]
  BY DEF TypeOK
<1>5. ASSUME NEW p \in Proposal, ~mishap'[p]
      PROVE  effects'[p] = effects[p]
  <2>1. {c \in late : Target[c] = p} = {}
    BY <1>1, <1>5 DEF VerbsFit
  <2>2. Cardinality({c \in late : Target[c] = p}) = 0
    BY <2>1, FS_EmptySet
  <2>3. effects'[p] = effects[p] + 0
    BY <1>2, <2>2
  <2>4. QED
    BY <1>4, <2>3
<1>6. effects' \in [Proposal -> Nat] /\ \A p \in Proposal : effects'[p] >= effects[p]
  BY <1>2, <1>3, <1>4
<1>7. QED
  BY <1>1, <1>5, <1>6

LEMMA CrashKeeps ==
  ASSUME ReviewInv, Crash
  PROVE  ReviewInv'
<1> USE DEF ReviewInv
<1>1. /\ UNCHANGED status /\ effects' \in [Proposal -> Nat]
      /\ \A c \in Call : pc'[c] = IF Open(c) THEN "killed" ELSE pc[c]
      /\ \A p \in Proposal :
           /\ mishap'[p] <=> \/ mishap[p]
                            \/ \E c \in Call : /\ Target[c] = p /\ Verb[c] = "approve"
                                               /\ Open(c)
           /\ effects'[p] >= effects[p]
           /\ ~mishap'[p] => effects'[p] = effects[p]
  BY CrashLeaves
<1>2. \A p \in Proposal : effects[p] \in Nat /\ effects'[p] \in Nat
  BY <1>1 DEF TypeOK
<1>3. TypeOK'
  <2>1. /\ up' = FALSE /\ counted' = [s \in Settled |-> 0]
        /\ pc' = [c \in Call |-> IF Open(c) THEN "killed" ELSE pc[c]]
        /\ mishap' = [p \in Proposal |-> mishap[p] \/
                        \E c \in Call : Target[c] = p /\ Verb[c] = "approve" /\ Open(c)]
    BY DEF Crash
  <2>2. mishap' \in [Proposal -> BOOLEAN]
    <3> DEFINE hit(p) == mishap[p] \/
                 \E c \in Call : Target[c] = p /\ Verb[c] = "approve" /\ Open(c)
    <3>1. \A p \in Proposal : hit(p) \in BOOLEAN
      BY DEF TypeOK
    <3>2. mishap' = [p \in Proposal |-> hit(p)]
      BY <2>1
    <3> HIDE DEF hit
    <3>3. QED
      BY <3>1, <3>2
  <2>3. /\ pc' \in [Call -> Busy \union Answers \union {"new"}]
        /\ counted' \in [Settled -> Nat]
    BY <2>1 DEF TypeOK
  <2>4. QED
    BY <1>1, <2>1, <2>2, <2>3 DEF TypeOK
<1>4. VerbsFit' /\ ReturnedWasExecuted' /\ Alone'
  BY <1>1 DEF VerbsFit, ReturnedWasExecuted, Alone
<1>5. AppliedWasExecuted'
  BY <1>1, <1>2 DEF AppliedWasExecuted
<1>6. AnswerStands'
  BY <1>1, TargetAssumption DEF AnswerStands
<1>7. Accounted'
  <2> SUFFICES ASSUME NEW p \in Proposal, ~mishap'[p]
               PROVE  /\ status[p] \in {"absent", "rejected"} => effects'[p] = 0
                      /\ status[p] = "applied" => effects'[p] = 1
                      /\ status[p] = "failed" => effects'[p] <= 1
                      /\ status[p] = "pending" => effects'[p] = 0
    BY <1>1 DEF Accounted
  <2>1. effects'[p] = effects[p] /\ ~mishap[p]
    BY <1>1
  <2>2. ~ \E c \in Call : Target[c] = p /\ pc[c] \in {"markApplied", "markFailed"}
    BY <1>1 DEF VerbsFit
  <2>3. QED
    BY <2>1, <2>2 DEF Accounted
<1>8. QED
  BY <1>3, <1>4, <1>5, <1>6, <1>7

LEMMA ReviewStep == ReviewInv /\ [Next]_vars => ReviewInv'
<1> SUFFICES ASSUME ReviewInv, [Next]_vars PROVE ReviewInv'
  OBVIOUS
<1>1. ASSUME UNCHANGED <<status, effects, pc, mishap>>, counted' = counted, up' \in BOOLEAN
      PROVE  ReviewInv'
  BY <1>1 DEF ReviewInv, TypeOK, VerbsFit, ReturnedWasExecuted, AppliedWasExecuted, Alone,
              Accounted, AnswerStands
<1>2. CASE Restart
  BY <1>1, <1>2 DEF Restart
<1>3. CASE UNCHANGED vars
  <2>1. up' \in BOOLEAN
    BY <1>3 DEF vars, ReviewInv, TypeOK
  <2>2. QED
    BY <1>1, <1>3, <2>1 DEF vars
<1>4. QED
  BY <1>2, <1>3, AddKeeps, ReadKeeps, ReadFailsKeeps, ToolKeeps, SetStatusKeeps,
     SetStatusFailsKeeps, CrashKeeps
     DEF Next, Quiet
-----------------------------------------------------------------------------
(* The theorems.                                                           *)

\* The inductive invariant: where decisions neither overlap nor get interrupted,
\* one call works on a pending proposal and its effects are accounted for.
THEOREM ReviewInvariant == Spec => []ReviewInv
<1>1. QED
  BY ReviewInit, ReviewStep, PTL DEF Spec

\* Every variable keeps its type: set_status only ever writes a final status.
THEOREM TypeCorrect == Spec => []TypeOK
<1>1. ReviewInv => TypeOK
  BY DEF ReviewInv
<1>2. QED
  BY <1>1, ReviewInvariant, PTL

\* However many calls overlap and whatever fails, a proposal shown as applied was
\* executed by SAGA.
THEOREM AppliedIsTrue == Spec => []AppliedWasExecuted
<1>1. ReviewInv => AppliedWasExecuted
  BY DEF ReviewInv
<1>2. QED
  BY <1>1, ReviewInvariant, PTL

\* Calls that do not overlap and are not interrupted execute an action at most
\* once, and exactly once if they mark it applied.
THEOREM ExecutedOnce == Spec => []ExecutedOnceUnlessDisturbed
<1>1. ReviewInv => ExecutedOnceUnlessDisturbed
  <2> SUFFICES ASSUME ReviewInv, NEW p \in Proposal, ~mishap[p]
               PROVE  /\ effects[p] <= 1
                      /\ status[p] = "applied" => effects[p] = 1
                      /\ status[p] = "rejected" => effects[p] = 0
                      /\ status[p] = "pending" /\ effects[p] = 1
                           => \E c \in Call : Target[c] = p /\ Open(c)
    BY DEF ExecutedOnceUnlessDisturbed
  <2>1. status[p] \in Settled \union {"absent", "pending"} /\ effects[p] \in Nat
    BY DEF ReviewInv, TypeOK
  <2>2. QED
    BY <2>1 DEF ReviewInv, Accounted
<1>2. QED
  BY <1>1, ReviewInvariant, PTL

\* What the API answered stays the status of the proposal, unless calls overlapped.
THEOREM AnswersStand == Spec => []AnswerStands
<1>1. ReviewInv => AnswerStands
  BY DEF ReviewInv
<1>2. QED
  BY <1>1, ReviewInvariant, PTL

\* A settled proposal with no open call stays as it is: the check stops every
\* later call, and a crash only executes tool calls that were open.
THEOREM SettledStays == Spec => SettledIsFinal
<1> DEFINE Final == \A p \in Proposal :
      Closed(p) => Closed(p)' /\ status'[p] = status[p] /\ effects'[p] = effects[p]
<1>1. ReviewInv /\ [Next]_vars => [Final]_vars
  <2> SUFFICES ASSUME ReviewInv, Next, NEW p \in Proposal, Closed(p)
               PROVE  Closed(p)' /\ status'[p] = status[p] /\ effects'[p] = effects[p]
    OBVIOUS
  <2> USE DEF Closed
  <2>0. /\ status[p] \in Settled /\ \A c \in Call : Target[c] = p => ~Open(c)
        /\ TypeOK /\ \A c \in Call : Target[c] \in Proposal
    BY TargetAssumption DEF ReviewInv
  <2>1. ASSUME NEW q \in Proposal, Add(q)
        PROVE  Closed(p)' /\ status'[p] = status[p] /\ effects'[p] = effects[p]
    BY <2>0, <2>1 DEF Add, TypeOK
  <2>2. ASSUME NEW c \in Call, Read(c) \/ ReadFails(c)
        PROVE  Closed(p)' /\ status'[p] = status[p] /\ effects'[p] = effects[p]
    BY <2>0, <2>2 DEF Read, ReadFails, TypeOK
  <2>3. ASSUME NEW c \in Call, ToolReturns(c) \/ ToolRaises(c)
        PROVE  Closed(p)' /\ status'[p] = status[p] /\ effects'[p] = effects[p]
    BY <2>0, <2>3 DEF ToolReturns, ToolRaises, Execute, TypeOK
  <2>4. ASSUME NEW c \in Call, SetStatus(c) \/ SetStatusFails(c)
        PROVE  Closed(p)' /\ status'[p] = status[p] /\ effects'[p] = effects[p]
    BY <2>0, <2>4 DEF SetStatus, SetStatusFails, TypeOK
  <2>5. ASSUME Crash
        PROVE  Closed(p)' /\ status'[p] = status[p] /\ effects'[p] = effects[p]
    <3>1. /\ UNCHANGED status
          /\ \A c \in Call : pc'[c] = IF Open(c) THEN "killed" ELSE pc[c]
      BY <2>5, CrashLeaves
    <3>2. PICK late \in SUBSET {c \in Call : pc[c] = "tool"} :
            effects' = [q \in Proposal |->
                          effects[q] + Cardinality({c \in late : Target[c] = q})]
      BY <2>5 DEF Crash
    <3>3. {c \in late : Target[c] = p} = {}
      BY <2>0
    <3>4. Cardinality({c \in late : Target[c] = p}) = 0
      BY <3>3, FS_EmptySet
    <3>5. effects'[p] = effects[p]
      BY <2>0, <3>2, <3>4 DEF TypeOK
    <3>6. QED
      BY <2>0, <3>1, <3>5
  <2>6. CASE Restart \/ Quiet
    BY <2>0, <2>6 DEF Restart, Quiet, vars
  <2>7. QED
    BY <2>1, <2>2, <2>3, <2>4, <2>5, <2>6 DEF Next
<1>2. QED
  BY <1>1, ReviewInvariant, PTL DEF Spec, SettledIsFinal
-----------------------------------------------------------------------------
(* The counters of AGENT_PROPOSALS.                                        *)

Shown(s) == {p \in Proposal : status[p] = s}

LEMMA CountersStep ==
  ASSUME ReviewInv, CountersHonest, [Next]_vars
  PROVE  CountersHonest'
<1> SUFFICES ASSUME \A p \in Proposal : ~mishap'[p], NEW s \in Settled
             PROVE  counted'[s] <= Cardinality(Shown(s)')
  BY DEF CountersHonest, Shown
<1>1. IsFiniteSet(Shown(s)) /\ IsFiniteSet(Shown(s)')
  BY ProposalsFinite, FS_Subset DEF Shown
<1>2. Cardinality(Shown(s)) \in Nat /\ Cardinality(Shown(s)') \in Nat
  BY <1>1, FS_CardinalityType
<1>3. ASSUME \A p \in Proposal : ~mishap[p]
      PROVE  counted[s] <= Cardinality(Shown(s)) /\ counted[s] \in Nat
  BY <1>3 DEF CountersHonest, Shown, ReviewInv, TypeOK
<1>4. ASSUME \A p \in Proposal : ~mishap[p], counted' = counted, Shown(s)' = Shown(s)
      PROVE  counted'[s] <= Cardinality(Shown(s)')
  BY <1>3, <1>4
<1>5. ASSUME NEW p \in Proposal, Add(p)
      PROVE  counted'[s] <= Cardinality(Shown(s)')
  BY <1>4, <1>5 DEF Add, Shown, ReviewInv, TypeOK
<1>6. ASSUME NEW c \in Call, Read(c) \/ ReadFails(c) \/ ToolReturns(c) \/ ToolRaises(c)
                               \/ SetStatusFails(c)
      PROVE  counted'[s] <= Cardinality(Shown(s)')
  <2>1. counted' = counted /\ status' = status
    BY <1>6 DEF Read, ReadFails, ToolReturns, ToolRaises, SetStatusFails
  <2>2. \A p \in Proposal : ~mishap[p]
    BY <1>6, TargetAssumption
       DEF Read, ReadFails, ToolReturns, ToolRaises, SetStatusFails, ReviewInv, TypeOK
  <2>3. QED
    BY <1>4, <2>1, <2>2 DEF Shown
<1>7. ASSUME NEW c \in Call, SetStatus(c)
      PROVE  counted'[s] <= Cardinality(Shown(s)')
  <2>1. /\ Target[c] \in Proposal /\ Mark(c) \in Settled /\ Open(c)
        /\ status' = [status EXCEPT ![Target[c]] = Mark(c)]
        /\ counted' = [counted EXCEPT ![Mark(c)] = counted[Mark(c)] + 1]
        /\ mishap' = mishap
    BY <1>7, TargetAssumption DEF SetStatus, Mark
  <2>2. status[Target[c]] = "pending" /\ \A p \in Proposal : ~mishap[p]
    BY <2>1 DEF ReviewInv, Alone
  <2>3. CASE Mark(c) = s
    <3>1. Shown(s)' = Shown(s) \union {Target[c]} /\ Target[c] \notin Shown(s)
      BY <2>1, <2>2, <2>3 DEF Shown, ReviewInv, TypeOK
    <3>2. Cardinality(Shown(s)') = Cardinality(Shown(s)) + 1
      BY <1>1, <3>1, FS_AddElement
    <3>3. counted'[s] = counted[s] + 1
      BY <2>1, <2>3 DEF ReviewInv, TypeOK
    <3>4. QED
      BY <1>2, <1>3, <2>2, <3>2, <3>3
  <2>4. CASE Mark(c) # s
    <3>1. Shown(s)' = Shown(s) /\ counted'[s] = counted[s]
      BY <2>1, <2>2, <2>4 DEF Shown, ReviewInv, TypeOK
    <3>2. QED
      BY <1>3, <2>2, <3>1
  <2>5. QED
    BY <2>3, <2>4
<1>8. CASE Crash
  <2>1. counted'[s] = 0
    BY <1>8 DEF Crash
  <2>2. QED
    BY <1>2, <2>1
<1>9. CASE Restart \/ UNCHANGED vars
  BY <1>4, <1>9 DEF Restart, vars, Shown
<1>10. QED
  BY <1>5, <1>6, <1>7, <1>8, <1>9 DEF Next, Quiet

\* While no decisions overlapped, the metric never counts a settled proposal
\* twice, through any number of failures, crashes and restarts.
THEOREM CountersAreHonest == Spec => []CountersHonest
<1>1. Init => CountersHonest
  <2> SUFFICES ASSUME Init, NEW s \in Settled
               PROVE  counted[s] <= Cardinality(Shown(s))
    BY DEF CountersHonest, Shown
  <2>1. IsFiniteSet(Shown(s))
    BY ProposalsFinite, FS_Subset DEF Shown
  <2>2. QED
    BY <2>1, FS_CardinalityType DEF Init
<1>2. QED
  BY <1>1, CountersStep, ReviewInvariant, PTL DEF Spec
-----------------------------------------------------------------------------
(* The refinement: every step of the endpoints is one of ProposalLifecycle. *)

\* A step that moves no proposal for its reviewers.
LEMMA Unseen ==
  ASSUME \A p \in Proposal :
           /\ mishap'[p] <=> mishap[p]
           /\ ~mishap[p] => /\ status'[p] = status[p]
                            /\ status[p] \in Settled => (effects'[p] > 0 <=> effects[p] > 0)
  PROVE  UNCHANGED <<Decided, Executed>>
<1>1. Decided' = Decided
  BY DEF Decided
<1>2. \A p \in Proposal :
        (mishap'[p] \/ (status'[p] \in Settled /\ effects'[p] > 0))
          = (mishap[p] \/ (status[p] \in Settled /\ effects[p] > 0))
  OBVIOUS
<1>3. Executed' = Executed
  BY <1>2 DEF Executed
<1>4. QED
  BY <1>1, <1>3

\* A step that only sets mishaps disturbs the proposals they befall, all pending.
LEMMA Disturbs ==
  ASSUME NEW S \in SUBSET Proposal,
         \A p \in S : ~mishap[p] /\ status[p] = "pending" /\ mishap'[p],
         \A p \in Proposal \ S :
           /\ mishap'[p] <=> mishap[p]
           /\ ~mishap[p] => effects'[p] = effects[p],
         UNCHANGED status
  PROVE  Lifecycle!Disturb(S)
<1>1. Decided' = [p \in Proposal |-> IF p \in S THEN "disturbed" ELSE Decided[p]]
  BY DEF Decided
<1>2. \A p \in Proposal :
        (mishap'[p] \/ (status'[p] \in Settled /\ effects'[p] > 0))
          = (p \in S \/ (mishap[p] \/ (status[p] \in Settled /\ effects[p] > 0)))
  OBVIOUS
<1>3. \A p \in Proposal :
        Executed[p] = (mishap[p] \/ (status[p] \in Settled /\ effects[p] > 0))
  BY DEF Executed
<1>4. Executed' = [p \in Proposal |-> p \in S \/ Executed[p]]
  <2>1. Executed' = [p \in Proposal |->
                       mishap'[p] \/ (status'[p] \in Settled /\ effects'[p] > 0)]
    BY DEF Executed
  <2>2. QED
    BY <1>2, <1>3, <2>1
<1>5. \A p \in S : Decided[p] = "pending"
  BY DEF Decided
<1>6. QED
  BY <1>1, <1>4, <1>5 DEF Lifecycle!Disturb

\* set_status settles an undisturbed proposal the way its effects allow.
LEMMA Settles ==
  ASSUME ReviewInv, NEW c \in Call, SetStatus(c), ~mishap[Target[c]]
  PROVE  Lifecycle!Apply(Target[c]) \/ Lifecycle!Fail(Target[c]) \/ Lifecycle!Reject(Target[c])
<1> DEFINE p == Target[c]
           done == effects[p] > 0
<1>1. /\ p \in Proposal /\ pc[c] \in Marking /\ Mark(c) \in Settled
      /\ status' = [status EXCEPT ![p] = Mark(c)] /\ effects' = effects /\ mishap' = mishap
  BY TargetAssumption DEF SetStatus, Mark
<1>2. status[p] = "pending" /\ effects[p] \in Nat
  BY <1>1 DEF ReviewInv, Alone, TypeOK
<1>3. Decided[p] = "pending" /\ Decided' = [Decided EXCEPT ![p] = Mark(c)]
  BY <1>1, <1>2 DEF Decided, ReviewInv, TypeOK
<1>4. Executed[p] = FALSE /\ Executed' = [Executed EXCEPT ![p] = done]
  <2>1. \A q \in Proposal :
          (mishap'[q] \/ (status'[q] \in Settled /\ effects'[q] > 0))
            = IF q = p THEN done
                       ELSE (mishap[q] \/ (status[q] \in Settled /\ effects[q] > 0))
    BY <1>1 DEF ReviewInv, TypeOK
  <2>2. Executed' = [q \in Proposal |->
                       mishap'[q] \/ (status'[q] \in Settled /\ effects'[q] > 0)]
    BY DEF Executed
  <2>3. Executed = [q \in Proposal |->
                      mishap[q] \/ (status[q] \in Settled /\ effects[q] > 0)]
    BY DEF Executed
  <2>4. Executed[p] = FALSE
    BY <1>1, <1>2, <2>3
  <2> HIDE DEF done, p
  <2>5. QED
    BY <2>1, <2>2, <2>3, <2>4
<1>5. CASE pc[c] = "markApplied"
  <2>1. done = TRUE
    BY <1>5 DEF ReviewInv, ReturnedWasExecuted
  <2>2. Mark(c) = "applied"
    BY <1>5 DEF Mark
  <2>3. QED
    BY <1>3, <1>4, <2>1, <2>2 DEF Lifecycle!Apply
<1>6. CASE pc[c] = "markFailed"
  <2>1. Mark(c) = "failed"
    BY <1>6 DEF Mark
  <2>2. done \in BOOLEAN
    BY <1>2
  <2>3. QED
    BY <1>3, <1>4, <2>1, <2>2 DEF Lifecycle!Fail
<1>7. CASE pc[c] = "markRejected"
  <2>1. Mark(c) = "rejected"
    BY <1>7 DEF Mark
  <2>2. effects[p] = 0
    BY <1>1, <1>2, <1>7 DEF ReviewInv, Accounted, Alone
  <2>3. done = FALSE
    BY <2>2
  <2>4. Executed' = Executed
    BY <1>4, <2>3 DEF Executed
  <2>5. QED
    BY <1>3, <2>1, <2>4 DEF Lifecycle!Reject
<1>8. QED
  BY <1>1, <1>5, <1>6, <1>7

LEMMA LifecycleStep ==
  ASSUME ReviewInv, Next
  PROVE  Lifecycle!Next \/ UNCHANGED <<Decided, Executed>>
<1>0. TypeOK /\ \A c \in Call : Target[c] \in Proposal
  BY TargetAssumption DEF ReviewInv
<1>1. ASSUME NEW q \in Proposal, Add(q), mishap[q]
      PROVE  UNCHANGED <<Decided, Executed>>
  BY <1>0, <1>1, Unseen DEF Add, TypeOK
<1>2. ASSUME NEW q \in Proposal, Add(q), ~mishap[q]
      PROVE  Lifecycle!Propose(q)
  <2>1. /\ status[q] = "absent" /\ status' = [status EXCEPT ![q] = "pending"]
        /\ effects' = effects /\ mishap' = mishap
    BY <1>2 DEF Add
  <2>2. Decided[q] = "absent" /\ Decided' = [Decided EXCEPT ![q] = "pending"]
    BY <1>0, <1>2, <2>1 DEF Decided, TypeOK
  <2>3. \A p \in Proposal :
          (mishap'[p] \/ (status'[p] \in Settled /\ effects'[p] > 0))
            = (mishap[p] \/ (status[p] \in Settled /\ effects[p] > 0))
    BY <1>0, <2>1 DEF TypeOK
  <2>4. Executed' = Executed
    BY <2>3 DEF Executed
  <2>5. QED
    BY <2>2, <2>4 DEF Lifecycle!Propose
<1>3. ASSUME NEW c \in Call, Read(c)
      PROVE  Lifecycle!Disturb({Target[c]}) \/ UNCHANGED <<Decided, Executed>>
  <2>1. /\ UNCHANGED <<status, effects>>
        /\ \A p \in Proposal : p # Target[c] => mishap'[p] = mishap[p]
        /\ mishap[Target[c]] => mishap'[Target[c]]
        /\ mishap'[Target[c]] => mishap[Target[c]] \/ status[Target[c]] = "pending"
    BY <1>0, <1>3 DEF Read, TypeOK
  <2>2. CASE ~mishap[Target[c]] /\ mishap'[Target[c]]
    BY <1>0, <2>1, <2>2, Disturbs
  <2>3. CASE mishap'[Target[c]] <=> mishap[Target[c]]
    BY <2>1, <2>3, Unseen
  <2>4. QED
    BY <2>1, <2>2, <2>3
<1>4. ASSUME NEW c \in Call, ToolReturns(c) \/ ToolRaises(c)
      PROVE  UNCHANGED <<Decided, Executed>>
  <2>1. /\ pc[c] = "tool" /\ UNCHANGED <<status, mishap>>
        /\ \A p \in Proposal : p # Target[c] => effects'[p] = effects[p]
    BY <1>0, <1>4 DEF ToolReturns, ToolRaises, Execute, TypeOK
  <2>2. ~mishap[Target[c]] => status[Target[c]] = "pending"
    BY <2>1 DEF ReviewInv, Alone
  <2>3. QED
    BY <2>1, <2>2, Unseen
<1>5. ASSUME NEW c \in Call, SetStatus(c)
      PROVE  Lifecycle!Next \/ UNCHANGED <<Decided, Executed>>
  <2>1. CASE mishap[Target[c]]
    BY <1>0, <1>5, <2>1, Unseen DEF SetStatus, TypeOK
  <2>2. CASE ~mishap[Target[c]]
    BY <1>0, <1>5, <2>2, Settles DEF Lifecycle!Next
  <2>3. QED
    BY <2>1, <2>2
<1>6. ASSUME NEW c \in Call, SetStatusFails(c)
      PROVE  Lifecycle!Disturb({Target[c]}) \/ UNCHANGED <<Decided, Executed>>
  <2>1. /\ UNCHANGED <<status, effects>> /\ Open(c)
        /\ \A p \in Proposal : p # Target[c] => mishap'[p] = mishap[p]
        /\ mishap[Target[c]] => mishap'[Target[c]]
    BY <1>0, <1>6 DEF SetStatusFails, TypeOK
  <2>2. ~mishap[Target[c]] => status[Target[c]] = "pending"
    BY <2>1 DEF ReviewInv, Alone
  <2>3. CASE ~mishap[Target[c]] /\ mishap'[Target[c]]
    BY <1>0, <2>1, <2>2, <2>3, Disturbs
  <2>4. CASE mishap'[Target[c]] <=> mishap[Target[c]]
    BY <2>1, <2>4, Unseen
  <2>5. QED
    BY <2>1, <2>3, <2>4
<1>7. ASSUME Crash
      PROVE  \E S \in SUBSET Proposal : Lifecycle!Disturb(S)
  <2> DEFINE S == {p \in Proposal : ~mishap[p] /\ mishap'[p]}
  <2>1. /\ UNCHANGED status
        /\ \A p \in Proposal :
             /\ mishap'[p] <=> \/ mishap[p]
                              \/ \E c \in Call : /\ Target[c] = p /\ Verb[c] = "approve"
                                                 /\ Open(c)
             /\ ~mishap'[p] => effects'[p] = effects[p]
    BY <1>7, CrashLeaves
  <2>2. \A p \in S : ~mishap[p] /\ status[p] = "pending" /\ mishap'[p]
    BY <2>1 DEF ReviewInv, Alone
  <2>3. \A p \in Proposal \ S :
          /\ mishap'[p] <=> mishap[p]
          /\ ~mishap[p] => effects'[p] = effects[p]
    BY <2>1
  <2>4. S \in SUBSET Proposal
    OBVIOUS
  <2> HIDE DEF S
  <2>5. QED
    BY <2>1, <2>2, <2>3, <2>4, Disturbs
<1>8. CASE Restart \/ Quiet
  BY <1>8, Unseen DEF Restart, Quiet, vars
<1>9. ASSUME NEW c \in Call, ReadFails(c)
      PROVE  UNCHANGED <<Decided, Executed>>
  BY <1>9, Unseen DEF ReadFails
<1>10. ASSUME NEW c \in Call, Read(c) \/ SetStatusFails(c)
       PROVE  Lifecycle!Next \/ UNCHANGED <<Decided, Executed>>
  <2>1. {Target[c]} \in SUBSET Proposal
    BY <1>0
  <2>2. QED
    BY <1>3, <1>6, <1>10, <2>1 DEF Lifecycle!Next
<1>11. QED
  BY <1>1, <1>2, <1>4, <1>5, <1>7, <1>8, <1>9, <1>10 DEF Next, Lifecycle!Next

\* The endpoints implement the life of a proposal that its reviewers are promised:
\* one decision, made at the moment the store records it, or a mishap.
THEOREM LifecycleIsImplemented == Spec => ImplementsLifecycle
<1>1. Init => Lifecycle!Init
  <2> SUFFICES ASSUME Init PROVE Lifecycle!Init
    OBVIOUS
  <2>1. Decided = [p \in Proposal |-> "absent"]
    BY DEF Init, Decided
  <2>2. \A p \in Proposal :
          (mishap[p] \/ (status[p] \in Settled /\ effects[p] > 0)) = FALSE
    BY DEF Init
  <2>3. Executed = [p \in Proposal |-> FALSE]
    BY <2>2 DEF Executed
  <2>4. QED
    BY <2>1, <2>3 DEF Lifecycle!Init
<1>2. ReviewInv /\ [Next]_vars => [Lifecycle!Next]_<<Decided, Executed>>
  <2>1. ASSUME UNCHANGED vars PROVE UNCHANGED <<Decided, Executed>>
    BY <2>1, Unseen DEF vars
  <2>2. QED
    BY <2>1, LifecycleStep
<1>3. QED
  BY <1>1, <1>2, ReviewInvariant, PTL DEF Spec, ImplementsLifecycle, Lifecycle!Spec
=============================================================================
