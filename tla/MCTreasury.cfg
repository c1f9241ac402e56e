SPECIFICATION OneQuestionSpec
CONSTANTS
  p1 = p1
  p2 = p2
  t1 = t1
  t2 = t2
  Reserves = {1, 2}
  Proposals = {p1, p2}
  Tranches = {t1, t2}
  Hashes = {"h"}
  EventIds = {1, 2, 3, 4}
  Keys = {1, 2, 3}
  Amounts = {1, 2}
  InstructionLists <- OneList
  Scopes <- AllScopes
  InitialCapital = 3
  MaxTime = 1
  MaxCalls = 4
  None = None
SYMMETRY RecordSymmetry
INVARIANTS
  TreasuryTypeOK
  LedgerBalances
  NoEntryTwice
  AppliedAsApproved
  CreditedOnce
  FundsOneProposal
PROPERTIES
  SettledStays
CHECK_DEADLOCK FALSE
