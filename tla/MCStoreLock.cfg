SPECIFICATION LockSpec
CONSTANTS
  c1 = c1
  c2 = c2
  c3 = c3
  Callers = {c1, c2}
  Instances <- ProcessPerCall
  Files = {1, 2, 3, 4, 5, 6, 7, 8}
  MaxAbandoned = 1
  MaxFaults = 1
  MayStall = TRUE
  None = None
SYMMETRY CallerSymmetry
INVARIANTS
  LockTypeOK
  OneOwner
  NoForgottenLock
PROPERTIES
  NoLostUpdate
CHECK_DEADLOCK TRUE
