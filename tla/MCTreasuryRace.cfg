SPECIFICATION TreasurySpec
CONSTANTS
  p1 = p1
  p2 = p2
  t1 = t1
  t2 = t2
  Reserves = {1, 2}
  Proposals = {}
  Tranches = {t1}
  Hashes = {"h"}
  EventIds = {1, 2, 3}
  Keys = {1, 2, 3}
  Amounts = {1}
  InstructionLists <- MCInstructions
  Scopes <- TrancheScopes
  InitialCapital = 0
  MaxTime = 0
  MaxCalls = 3
  None = None
PROPERTIES
  TrancheMovesForward
CHECK_DEADLOCK FALSE
