\* Two runs and two approvals in one process, every fault.
CONSTANTS
  r1 = r1  r2 = r2  c1 = c1  c2 = c2  search = search  merge = merge
  Run = {r1, r2}
  Autonomy <- TwoModes
  Tool = {search, merge}
  Allow <- BothTools
  Write <- MergeWrites
  Timeout = 1
  MaxProposals = 2
  Faults = {"setupError", "guidanceError", "connectionError", "storeError", "cancel", "crash", "toolError", "lostReply"}
  Call = {c1, c2}
  Verb <- Approvals
  Target <- Targets
SPECIFICATION PipelineFairSpec
INVARIANTS TypeOK ReportIsComplete StoredFromTheFirst OnlyReviewedWrites
PROPERTIES PromptedRunsEnd ProposalsReachReview
