----------------------------- MODULE MCLiveCli ------------------------------
(***************************************************************************)
(* Small instances of the operator's CLI for TLC.                          *)
(***************************************************************************)
EXTENDS LiveCli, TLC

Symmetry == Permutations(Runs)
=============================================================================
