SPECIFICATION FairLiveSpec
CONSTANTS
  k1 = k1
  b1 = b1
  b2 = b2
  op1 = op1
  e1 = e1
  h1 = h1
  h2 = h2
  h3 = h3
  Keys <- MCKeys
  Bindings <- MCBindings
  Ops <- MCOps
  Evidence <- MCEvidence
  Handlers <- TwoRequests
  Tokens <- TwoRequests
  Balances <- EnoughOrNot
  None = None
  Lease = 1
  Expiry = 2
  RunExpiry = 3
  MaxClock = 3
  MaxResults = 9
  MaxHandoffs = 3
  MaxRestarts = 1
  MaxFaults = 1
INVARIANTS
  ClaimsCanBeTakenOver
PROPERTIES
  ReservationsAreReleased
  StoreSpec
CHECK_DEADLOCK FALSE
