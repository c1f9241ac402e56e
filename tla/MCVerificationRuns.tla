------------------------ MODULE MCVerificationRuns ------------------------
(* A few requests for runs, corrections and handoffs.                      *)
EXTENDS VerificationRuns, TLC

CONSTANTS r1, r2, r3, k1, k2, c1, c2, h1, h2

RequestSymmetry ==
  Permutations(Runners) \cup Permutations(InvocationKeys)
    \cup Permutations(Correctors) \cup Permutations(Handlers)
=============================================================================
