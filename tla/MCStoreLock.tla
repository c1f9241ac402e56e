---------------------------- MODULE MCStoreLock ----------------------------
(***************************************************************************)
(* The store's lock with a few calls, of one process or of several.        *)
(***************************************************************************)
EXTENDS StoreLock, TLC

CONSTANTS c1, c2, c3

OneProcess    == {Callers}
ProcessPerCall == {{c} : c \in Callers}

CallerSymmetry == Permutations(Callers)
=============================================================================
