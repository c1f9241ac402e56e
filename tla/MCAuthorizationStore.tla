----------------------- MODULE MCAuthorizationStore -----------------------
(* The store alone, called by an arbitrary environment.                   *)
EXTENDS AuthorizationStore

CONSTANTS k1, b1, b2, op1, e1, e2, t1, t2

MCKeys     == {k1}
MCBindings == {b1, b2}
MCOps      == {op1}
MCEvidence == {e1, e2}
MCTokens   == {t1, t2}

=============================================================================
