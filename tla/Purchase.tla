------------------------------ MODULE Purchase ------------------------------
(***************************************************************************)
(* What the gateway promises about the money of one mandate, without its   *)
(* handlers, caches and crashes: a purchase is recorded as open before a   *)
(* server can appear, at most one server ever appears, an open record is   *)
(* released only when there is none, and a settled one is final.  This is  *)
(* the comment of once() in gateway/tools.ts and of ledger.ts.             *)
(***************************************************************************)
VARIABLES
  record,  \* "none", "open" or "settled"
  bought   \* identifiers of the servers the mandate bought

Init == record = "none" /\ bought = {}

(* A run claims the purchase: INTENT.                                      *)
Open == record = "none" /\ bought = {} /\ record' = "open" /\ UNCHANGED bought

(* The provider creates the server, possibly much later.                   *)
Buy ==
  /\ record = "open" /\ bought = {}
  /\ bought' # {} /\ \A x, y \in bought' : x = y
  /\ UNCHANGED record

(* The server is recorded: COMMITTED.                                      *)
Settle == record = "open" /\ bought # {} /\ record' = "settled" /\ UNCHANGED bought

(* The provider has refused: FAILED, the mandate may be used again.        *)
Release == record = "open" /\ bought = {} /\ record' = "none" /\ UNCHANGED bought

Next == Open \/ Buy \/ Settle \/ Release

PurchaseSpec == Init /\ [][Next]_<<record, bought>>
=============================================================================
