SPECIFICATION StoreSpec
CONSTANTS
  k1 = k1
  b1 = b1
  b2 = b2
  op1 = op1
  e1 = e1
  e2 = e2
  t1 = t1
  t2 = t2
  Keys <- MCKeys
  Bindings <- MCBindings
  Ops <- MCOps
  Evidence <- MCEvidence
  Tokens <- MCTokens
  None = None
  Lease = 1
  MaxClock = 2
  MaxResults = 4
  MaxHandoffs = 1
INVARIANTS
  StoreTypeOK
  OneBindingPerKey
  NoAttemptAfterOperation
  ReconciliationsSettled
  ClaimsFenced
PROPERTIES
  RecordIsAppendOnly
  LifecycleSpec
CHECK_DEADLOCK FALSE
