------------------------- MODULE MCServiceAccount ---------------------------
(***************************************************************************)
(* ServiceAccount for TLC: two callers, so that one meets what the other   *)
(* has half done.                                                          *)
(***************************************************************************)
EXTENDS ServiceAccount, TLC

CallerSymmetry == Permutations(Callers)

-----------------------------------------------------------------------------
(* What the code says of itself and does not hold; no configuration lists  *)
(* this, README.md has the behaviour that refutes it.                      *)

\* "Remove legacy service account token" (types/types.go:55): after a successful
\* RemoveLegacyServiceAccount there is none, whatever the driver.
LegacyTokenRemoved ==
  \A c \in Callers : Returned(c, "removeLegacy", "ok") => objects \cap Legacy = {}
=============================================================================
