----------------------------- MODULE MCGateway ------------------------------
(***************************************************************************)
(* Small instances of the gateway for TLC.                                  *)
(***************************************************************************)
EXTENDS Gateway, TLC

Symmetry == Permutations(Slots) \cup Permutations(Runs)
=============================================================================
