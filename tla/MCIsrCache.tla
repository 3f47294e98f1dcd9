----------------------------- MODULE MCIsrCache -----------------------------
(***************************************************************************)
(* A small instance of the ISR cache for TLC.                              *)
(***************************************************************************)
EXTENDS IsrCache, TLC

CONSTANTS r1, r2

(* The clock of the second replica is one tick ahead.                      *)
Clocks == r1 :> 0 @@ r2 :> 1
=============================================================================
