SPECIFICATION MCSpec
CONSTANTS
  j1 = j1
  j2 = j2
  r1 = r1
  client = client
  provider = provider
  evaluator = evaluator
  d1 = d1
  d2 = d2
  None = None
  Jobs = {j1, j2}
  Releases = {r1}
  Records = {1, 2, 3, 4, 5, 6, 7, 8, 9, 10, 11, 12, 13, 14}
  Actors = {client, provider, evaluator}
  References = {d1, d2}
  Hashes = {1, 2, 3, 4, 5, 6, 7, 8, 9, 10, 11, 12, 13, 14}
  Approvals <- AllApprovals
  Bindings <- AllBindings
  Submissions <- AllSubmissions
  Budget <- Budgets
  Client <- PaidBy
  Provider <- DoneBy
  Evaluator <- JudgedBy
  ExpiresAt <- Deadline
  Founder = client
  ReleaseAmount <- Amounts
  Times = {2, 3}
INVARIANTS
  OwnAuthorization
  OutcomeTraced
  ReleaseTypeOK
  SettledAsAuthorized
PROPERTIES
  EscrowKept
CHECK_DEADLOCK FALSE
