\* No fault at all: two approvals of one proposal overlap.
CONSTANTS
  x = x  y = y  c1 = c1  c2 = c2  c3 = c3  c4 = c4
  Proposal = {x, y}
  Call = {c1, c2, c3, c4}
  Verb <- MCVerb
  Target <- MCTarget
  Faults = {}
SPECIFICATION Spec
INVARIANT ExecutedAtMostOnce
