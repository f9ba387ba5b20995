----------------------------- MODULE MCReadIndex -----------------------------
(***************************************************************************)
(* Two connections; they play the same role, so they may be permuted.      *)
(***************************************************************************)
EXTENDS ReadIndex, TLC

CONSTANTS c1, c2

ConnSymmetry == Permutations({c1, c2})
=============================================================================
