------------------------------- MODULE Ledger -------------------------------
(***************************************************************************)
(* The write-ahead ledger of the Pilot (pilot/src/pilot/ledger.ts) as      *)
(* operators on a sequence of rows.  A row says that one run was about to  *)
(* act (INTENT), has acted (COMMITTED) or certainly did not (FAILED) on    *)
(* one idempotency key.  The log only grows and the latest row of a key    *)
(* decides: claim() looks it up with findLast.                             *)
(*                                                                         *)
(* The gateway and the agent each hold a ledger of their own; both modules *)
(* use these operators.  Nothing here is recursive, so that the laws of    *)
(* the operators (module Gateway_proofs) need no induction over rows.      *)
(***************************************************************************)
EXTENDS Naturals, Sequences

States == {"INTENT", "COMMITTED", "FAILED"}

(***************************************************************************)
(* The positions of the latest row of key k: rows.findLast(r => r.key===k) *)
(* yields a row or undefined, here a set of at most one row.               *)
(***************************************************************************)
IsLatest(rows, k, i) ==
  /\ i \in 1..Len(rows)
  /\ rows[i].key = k
  /\ \A j \in 1..Len(rows) : j > i => rows[j].key # k

Prior(rows, k) == {rows[i] : i \in {j \in 1..Len(rows) : IsLatest(rows, k, j)}}

(* Slips: one of the two states that hold a key is forgotten.              *)
FreeUnlessCommitted(rows, k) == \A p \in Prior(rows, k) : p.state # "COMMITTED"
FreeUnlessOpen(rows, k) == \A p \in Prior(rows, k) : p.state # "INTENT"

(* claim() grants the key: it was never claimed, or the last try failed.   *)
Free(rows, k) == \A p \in Prior(rows, k) : p.state = "FAILED"

(* claim() answers IN_FLIGHT: an attempt may have acted before it died.    *)
InFlight(rows, k) == \E p \in Prior(rows, k) : p.state = "INTENT"

(* claim() answers ALREADY_COMMITTED; also the test of committed().        *)
Committed(rows, k) == {p \in Prior(rows, k) : p.state = "COMMITTED"}
=============================================================================
