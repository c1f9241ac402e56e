--------------------------- MODULE MCLiveHandoff ---------------------------
(* Requests for one run, with one approval and with a rival one.           *)
EXTENDS LiveHandoff, TLC

CONSTANTS k1, b1, b2, op1, e1, h1, h2, h3

MCKeys     == {k1}
OneBinding == {b1}
MCBindings == {b1, b2}
MCOps      == {op1}
MCEvidence == {e1}

TwoRequests   == {h1, h2}
ThreeRequests == {h1, h2, h3}

Enough       == {TRUE}
EnoughOrNot  == BOOLEAN

RequestSymmetry == Permutations(Handlers)
=============================================================================
