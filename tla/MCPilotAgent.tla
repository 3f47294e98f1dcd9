--------------------------- MODULE MCPilotAgent -----------------------------
(***************************************************************************)
(* Small instances of the agent for TLC.                                   *)
(***************************************************************************)
EXTENDS PilotAgent, TLC

Symmetry == Permutations(Runs)
=============================================================================
