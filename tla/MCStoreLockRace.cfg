SPECIFICATION LockSpec
CONSTANTS
  c1 = c1
  c2 = c2
  c3 = c3
  Callers = {c1, c2}
  Instances <- OneProcess
  Files = {1, 2, 3, 4, 5, 6, 7, 8}
  MaxAbandoned = 2
  MaxFaults = 0
  MayStall = FALSE
  None = None
SYMMETRY CallerSymmetry
PROPERTIES
  NoLostUpdate
CHECK_DEADLOCK TRUE
