\* Two approvals and a rejection of one proposal, an approval of another; any fault.
CONSTANTS
  x = x  y = y  c1 = c1  c2 = c2  c3 = c3  c4 = c4
  Proposal = {x, y}
  Call = {c1, c2, c3, c4}
  Verb <- MCVerb
  Target <- MCTarget
  Faults = {"crash", "storeError", "toolError", "lostReply"}
SPECIFICATION FairSpec
INVARIANTS TypeOK AppliedWasExecuted ExecutedOnceUnlessDisturbed AnswerStands CountersHonest
PROPERTIES SettledIsFinal DecisionsSettle ImplementsLifecycle
