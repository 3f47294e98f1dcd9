----------------------------- MODULE LiveCli --------------------------------
(***************************************************************************)
(* The operator's driver of the runbook (pilot/src/cli/live.ts): it loops  *)
(* over advance() in one process, saves after each step, and adds what the *)
(* agent cannot do: resume a run whose purchase is unknown, hand over the  *)
(* Auditor's token, and clean up.  One invocation runs at a time.          *)
(***************************************************************************)
EXTENDS Runbook

CONSTANT MaxRows  \* bound: rows of the Pilot's ledger that --resume may add to

ASSUME LiveCliAssumption == MaxRows \in Nat

(* The loop stops at these; a parked run is picked up again by --resume.   *)
TERMINAL == {"DEPLOYED", "CUTOVER", "FAILED", "ROLLED_BACK", "AWAITING_HUMAN_PURCHASE"}
LoopEnds(s) == s.status \in TERMINAL \cup {"NEEDS_APPROVAL"}

NobodyRuns == \A r \in Runs : At(r, "idle")

(* What the process holds in memory when its loop starts, if it starts.    *)
Enters(r, s) ==
  job' = [job EXCEPT ![r] = [Idle EXCEPT !.pc = IF LoopEnds(s) THEN "idle" ELSE "step", !.s = s]]

Live(r) ==
  /\ NobodyRuns /\ store[r] = NoRun
  /\ Enters(r, newRun)
  /\ UNCHANGED <<store, rows, gateway, world, mandate, faults>>

(* An unknown purchase reopens the run, to be settled by the gateway.      *)
Reopened(s) ==
  IF \/ s.status = "AWAITING_HUMAN_PURCHASE"
     \/ s.status = "FAILED" /\ s.step = "P2" /\ s.error \in {"UNKNOWN", "IN_FLIGHT"}
  THEN [s EXCEPT !.status = "RUNNING", !.error = IF @ \in {"UNKNOWN", "IN_FLIGHT"} THEN "-" ELSE @]
  ELSE s

OpenIntentOf(r) == {p \in Prior(rows, "P2") : p.state = "INTENT" /\ p.run = r}

(* --resume: this run's open INTENT is released first, whatever its state; *)
(* the operator may still decline the run itself.  A ledger that cannot be *)
(* read ends the process before anything is done.                          *)
Resume(r) ==
  /\ NobodyRuns /\ r \in Saved /\ ~torn
  /\ \/ OpenIntentOf(r) = {} /\ UNCHANGED rows
     \/ /\ OpenIntentOf(r) # {} /\ Len(rows) < MaxRows
        /\ rows' = Append(rows, Note(r, "P2", "FAILED"))
  /\ \/ Enters(r, [Reopened(store[r]) EXCEPT !.tok = FALSE])
     \/ OpenIntentOf(r) # {} /\ UNCHANGED job
  /\ UNCHANGED <<store, gateway, world, mandate, faults>>

(* The process dies while it writes that release.                          *)
ResumeDies(r) ==
  /\ NobodyRuns /\ r \in Saved /\ ~torn /\ OpenIntentOf(r) # {}
  /\ crashes < MaxCrashes /\ crashes' = crashes + 1 /\ torn' = TRUE
  /\ UNCHANGED <<store, job, rows, gateway, world, mandate, lost>>

(* Slip: any saved run is cut over.                                        *)
CutoverRunUnguarded(r) ==
  /\ NobodyRuns /\ r \in Saved
  /\ Enters(r, [store[r] EXCEPT !.step = "P8", !.status = "RUNNING", !.error = "-", !.tok = TRUE])
  /\ UNCHANGED <<store, rows, gateway, world, mandate, faults>>

(* --cutover: a deployed run, or one whose step is already P8.             *)
CutoverRun(r) ==
  /\ NobodyRuns /\ r \in Saved
  /\ store[r].status = "DEPLOYED" \/ store[r].step = "P8"
  /\ Enters(r, [store[r] EXCEPT !.step = "P8", !.status = "RUNNING", !.error = "-", !.tok = TRUE])
  /\ UNCHANGED <<store, rows, gateway, world, mandate, faults>>

(* The loop: save, then go on unless the run has come to an end or the     *)
(* operator stops here (Ctrl-C, --stop-after).                             *)
SaveAndLoop(r) ==
  \/ ~LoopEnds(job[r].s) /\ Save(r, "step")
  \/ Save(r, "idle")

-----------------------------------------------------------------------------
(* --cleanup: first the DNS record this run wrote, back to what the        *)
(* gateway recorded; then the server; only then is the run saved.  A step  *)
(* that fails ends the process: it may have had its effect.                *)

Cleanup(r) ==
  /\ NobodyRuns /\ r \in Saved /\ lane = "automated" /\ (store[r].server \/ store[r].dnsRec)
  /\ job' = [job EXCEPT ![r] = [Idle EXCEPT !.s = store[r],
                                   !.pc = IF store[r].dnsRec THEN "cleanDns" ELSE "clean"]]
  /\ UNCHANGED <<store, rows, gateway, world, mandate, faults>>

CleanDns(r) ==
  /\ At(r, "cleanDns")
  /\ \/ dns' = gw["P8"].previous /\ Goto(r, "clean")
     \/ dns' \in {dns, gw["P8"].previous} /\ Goto(r, "idle")
  /\ UNCHANGED <<store, rows, gateway, server, mandate, faults>>

(* A server that is gone already (404) counts as deleted.                  *)
CleanServer(r) ==
  /\ At(r, "clean")
  /\ \/ /\ server' = "gone"
        /\ Return(r, [job[r].s EXCEPT !.status = "ROLLED_BACK", !.cost = FALSE, !.error = "CLEANED"])
     \/ server' \in {server, "gone"} /\ Goto(r, "idle")
  /\ UNCHANGED <<store, rows, gateway, dns, mandate, faults>>

CliNext ==
  \/ \E r \in Runs :
       \/ Live(r) \/ Resume(r) \/ ResumeDies(r) \/ CutoverRun(r)
       \/ Advance(r) \/ Serve(r) \/ SaveAndLoop(r)
       \/ Cleanup(r) \/ CleanDns(r) \/ CleanServer(r)
  \/ Environment

CliSpec == Init /\ [][CliNext]_vars

-----------------------------------------------------------------------------
(* Correctness, beside the invariants of Runbook.                          *)

(* --resume and --cleanup can still reach every purchase of a run: it is   *)
(* named by the run, still under way, or has an outcome --resume reopens.  *)
(* It takes answers that arrive and a process that lives.                  *)
PurchaseStaysReachable ==
  /\ NobodyRuns /\ server = "live" /\ ~expired /\ lane = "automated"
  /\ lost = 0 /\ crashes = 0
  => \A r \in Saved : gw["P2"].run = r =>
       \/ store[r].server \/ store[r].status \notin TERMINAL
       \/ store[r].step = "P2" /\ store[r].error \in {"UNKNOWN", "IN_FLIGHT"}

(* Whatever was interrupted and resumed before, the domain moves only once *)
(* the run that moves it has its deployment on record at the gateway.      *)
DnsAfterDeployment ==
  [][dns = "old" /\ dns' = "ours" => gw["P6"].state = "COMMITTED" /\ gw["P8"].run = gw["P6"].run]_vars

(* A run cleaned up has left nothing behind: its DNS change is reverted.   *)
CleanupRevertsDns ==
  NobodyRuns => \A r \in Saved : store[r].error = "CLEANED" => dns = "old"
=============================================================================
