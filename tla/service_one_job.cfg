\* One agent with two schedules, no faults.
CONSTANTS
  a = a  b = b  ra = ra  ra2 = ra2  ea = ea  ea2 = ea2  hb = hb  hx = hx
  SET = SET  UNSET = UNSET
  Environment = {SET}
  GUIDANCE_KEYS = {"language"}
  Agent = {a, b}
  Cron = {"3am", "4am"}
  File <- Files
  Disk <- OneAgent
  Request = {ra, ra2, ea, ea2, hb, hx}
  Trigger <- Triggers
  Target <- Targets
  Authorized = {hb}
  GlobalLimit = 2
  MaxRuns <- Limits
  Faults = {}
CHECK_DEADLOCK FALSE
SPECIFICATION Spec
INVARIANT OneJobPerTrigger
