\* Two processes share one Redis that may fail, lose replies and outlive them.
CONSTANTS
  p1 = p1  p2 = p2  a1 = a1  a2 = a2  off = off
  r1 = r1  r2 = r2  r3 = r3  r4 = r4  r5 = r5
  Process = {p1, p2}
  Agent = {a1}
  Request = {r1, r2, r3}
  NoToken = NoToken
  Definitions = {a1}
  Target <- SharedTarget
  Home <- SharedHome
  GlobalLimit = 2
  MaxRuns <- SharedMaxRuns
  Timeout <- SharedTimeout
  HasRedis = TRUE
  Faults = {"crash", "stop", "redisError", "lostReply"}
SPECIFICATION FairSpec
INVARIANT OverlapOnlyAfterTtl
PROPERTIES ForeignLockKept LockFreed
