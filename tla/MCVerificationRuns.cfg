SPECIFICATION Spec
CONSTANTS
  r1 = r1
  r2 = r2
  r3 = r3
  k1 = k1
  k2 = k2
  c1 = c1
  c2 = c2
  h1 = h1
  h2 = h2
  None = None
  Runners = {r1, r2, r3}
  InvocationKeys = {k1, k2}
  Correctors = {c1, c2}
  Handlers = {h1, h2}
  RateLimit = 1
  RateWindow = 2
  KeyTtl = 3
  MaxRuns = 1
  MaxAttempts = 2
  Retention = 3
  ProposalTtl = 2
  MaxClock = 3
SYMMETRY RequestSymmetry
INVARIANTS
  RunsTypeOK
  OneExecution
  OutcomeCanBeStored
  AdmissionsAreBounded
PROPERTIES
  HandoffStays
CHECK_DEADLOCK FALSE
