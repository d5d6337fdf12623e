--------------------------- MODULE MCKeyVerifier ---------------------------
(***************************************************************************)
(* Three checks of one key, which expires.                                 *)
(***************************************************************************)
EXTENDS KeyVerifier, TLC

CONSTANTS k1, k2, k3

MCChecks == {k1, k2, k3}
Symmetry == Permutations(Checks)

MCTokens == {"short"}
MCLifetime(t) == 3
=============================================================================
