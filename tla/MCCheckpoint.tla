---------------------------- MODULE MCCheckpoint -----------------------------
(***************************************************************************)
(* The values with which TLC checks Checkpoint.  Letters are written,      *)
(* exported and compared for equality only, so they may be permuted.       *)
(***************************************************************************)
EXTENDS Checkpoint

CONSTANTS h1, h2, l1, l2, n1, s1, s2

Symmetry == Permutations({l1, l2}) \cup Permutations({s1, s2})
=============================================================================
