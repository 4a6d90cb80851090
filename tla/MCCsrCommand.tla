---------------------------- MODULE MCCsrCommand ----------------------------
(* CsrCommand for TLC: runs are interchangeable.                             *)
EXTENDS CsrCommand, TLC

Symmetry == Permutations(Runs)
=============================================================================
