SPECIFICATION Spec
CONSTANTS
  Reserves = {1, 2, 3}
  FixedAmounts = {0, 2}
  Points = {0, 3333, 5000}
  MaxBudget = 7
  MaxInstructions = 3
  Requirements <- MilestoneRequirements
  Project = "pawpovai"
  DueAt = 1
  VerifiedSpend = 1
  Founder = "founder"
  Evaluator = "evaluator"
  Stranger = "stranger"
  Evidence = {"r1", "r2", "c"}
  KindOf <- ItemKinds
  ProjectOf <- ItemProjects
  SubmittedAt <- ItemTimes
  MaxTime = 2
  MaxItems = 2
  MaxMatches = 2
  Verdicts <- MilestoneVerdicts
  Contributors = {"founder"}
  Disputed <- MilestoneDisputes
INVARIANTS
  RoundsByPolicy
  PacketReplays
  OneRecovery
  ApprovedAsSeen
CHECK_DEADLOCK FALSE
