SPECIFICATION LiveSpec
CONSTANTS
  k1 = k1
  b1 = b1
  b2 = b2
  op1 = op1
  e1 = e1
  h1 = h1
  h2 = h2
  h3 = h3
  Keys <- MCKeys
  Bindings <- OneBinding
  Ops <- MCOps
  Evidence <- MCEvidence
  Handlers <- ThreeRequests
  Tokens <- ThreeRequests
  Balances <- Enough
  None = None
  Lease = 1
  Expiry = 3
  RunExpiry = 4
  MaxClock = 2
  MaxResults = 9
  MaxHandoffs = 3
  MaxRestarts = 1
  MaxFaults = 0
SYMMETRY RequestSymmetry
INVARIANTS
  AcceptedTransferIsRecoverable
CHECK_DEADLOCK FALSE
