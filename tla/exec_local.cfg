\* One process without Redis: permits, queues, cancellation and crashes.
CONSTANTS
  p1 = p1  p2 = p2  a1 = a1  a2 = a2  off = off
  r1 = r1  r2 = r2  r3 = r3  r4 = r4  r5 = r5
  Process = {p1}
  Agent = {a1, a2, off}
  Request = {r1, r2, r3, r4, r5}
  NoToken = NoToken
  Definitions = {a1, a2}
  Target <- LocalTarget
  Home <- LocalHome
  GlobalLimit = 2
  MaxRuns <- LocalMaxRuns
  Timeout <- LocalTimeout
  HasRedis = FALSE
  Faults = {"crash", "stop"}
SPECIFICATION FairSpec
INVARIANTS TypeOK ConcurrencyCaps PermitsConserved NoLostWakeup GaugeExact
PROPERTIES NoOvertaking EverySubmitEnds ImplementsAdmission
