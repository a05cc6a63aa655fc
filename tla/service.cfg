\* Every kind of file, three triggers, every fault and both signals.  The process
\* really ends, so a state without a successor is no deadlock.
CONSTANTS
  a = a  b = b  ra = ra  ra2 = ra2  ea = ea  ea2 = ea2  hb = hb  hx = hx
  SET = SET  UNSET = UNSET
  Environment = {SET}
  GUIDANCE_KEYS = {"language"}
  Agent = {a, b}
  Cron = {"3am", "4am"}
  File <- Files
  Disk <- Disks
  Request = {ra, ra2, ea, ea2, hb, hx}
  Trigger <- Triggers
  Target <- Targets
  Authorized = {hb}
  GlobalLimit = 2
  MaxRuns <- Limits
  Faults = {"storeError", "portError", "bindError", "subscribeError", "closeError", "crash"}
CHECK_DEADLOCK FALSE
SPECIFICATION FairSpec
INVARIANTS TypeOK WiredAsWritten CronNeverStacks GracefulStop
PROPERTIES ShutdownEnds
