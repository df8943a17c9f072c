--------------------------- MODULE MCAuthentication ---------------------------
(* Values for the run of Authentication.  *)
EXTENDS Authentication, TLC

CONSTANTS h1, h2
MCHandlers == {h1, h2}
MCSymmetry == Permutations(MCHandlers)
=============================================================================
