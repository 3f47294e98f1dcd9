---------------------------- MODULE PilotAgent ------------------------------
(***************************************************************************)
(* The A2A agent around the runbook (pilot/src/agent/executor.ts and       *)
(* run-store.ts): run.start makes a run, run.poll and run.cutover load it, *)
(* advance it by one step and save it, one call at a time per run          *)
(* (RunStore.withLock).  Any number of callers may poll any run at any     *)
(* time, and a mandate may be started more than once.                      *)
(***************************************************************************)
EXTENDS Runbook

CONSTANT Judged  \* the runs the Auditor has judged: for these run.cutover is called

ASSUME JudgedAssumption == Judged \subseteq Runs

(* The run is loaded and advance() begins.                                 *)
Load(r, s) ==
  /\ job' = [job EXCEPT ![r] = [Idle EXCEPT !.pc = "step", !.s = s]]
  /\ UNCHANGED <<store, rows, gateway, world, mandate, faults>>

(* run.start verifies the mandate, exp included, before it makes a run.    *)
Start(r) ==
  /\ At(r, "idle") /\ store[r] = NoRun /\ ~expired
  /\ Load(r, newRun)

(* withLock: the next call for a run waits until the last one has saved.   *)
Poll(r) ==
  /\ At(r, "idle") /\ store[r] # NoRun
  /\ Load(r, store[r])

(* run.cutover keeps the Auditor's token with the run; only a deployed run *)
(* jumps to the cutover, any other just takes its next step.               *)
RunCutover(r) ==
  /\ At(r, "idle") /\ store[r] # NoRun
  /\ LET s == [store[r] EXCEPT !.tok = TRUE] IN
     \/ s.status = "DEPLOYED" /\ Load(r, [s EXCEPT !.step = "P8", !.status = "RUNNING"])
     \/ s.status # "DEPLOYED" /\ Load(r, s)

Next ==
  \/ \E r \in Runs : Start(r) \/ Poll(r) \/ Advance(r) \/ Serve(r) \/ Save(r, "idle")
  \/ \E r \in Judged : RunCutover(r)
  \/ Environment

Spec == Init /\ [][Next]_vars

(***************************************************************************)
(* Callers keep polling a run they started, calls of advance() go on, and  *)
(* the gateway's requests end: every await has a deadline.                 *)
(***************************************************************************)
Polled ==
  /\ \A r \in Runs : WF_vars(Poll(r)) /\ WF_vars(Advance(r) \/ Serve(r) \/ Save(r, "idle"))
  /\ \A k \in Keys : WF_vars(Act(k))

PolledSpec == Spec /\ Polled

-----------------------------------------------------------------------------
(* Correctness.                                                            *)

(* A run reported as deployed has its server running, and its deployment   *)
(* is on record: no late answer, retry or rollback took either away.       *)
DeployedIsRunning ==
  \A r \in Saved : store[r].status \in {"DEPLOYED", "CUTOVER"} =>
    server = "live" /\ gw["P6"].state = "COMMITTED" /\ gw["P6"].run = r

(* A nonce is spent once across all runs: however often a mandate is       *)
(* started, at most one run gets past the purchase of its server, or past  *)
(* the registration of it.                                                 *)
OneRunPastPurchase ==
  \A r, q \in Saved : store[r].server /\ store[q].server => r = q

(* Even where two runs share a server, the gateway's ledger lets only one  *)
(* of them deploy to it.                                                   *)
OneRunIsDeployed ==
  \A r, q \in Saved : store[r].status = "DEPLOYED" /\ store[q].status = "DEPLOYED" => r = q

(* What a human bought is never deleted.                                   *)
HumanServerStays ==
  [][lane = "handoff" /\ server = "live" => server' = "live"]_vars

(* A paid server nobody is told of: everything is quiet, and the run that  *)
(* bought it neither names it, nor goes on, nor says that the purchase may *)
(* have happened.                                                          *)
SilentServer ==
  /\ lane = "automated" /\ server = "live" /\ acting = {} /\ \A r \in Runs : At(r, "idle")
  /\ \A r \in Saved : gw["P2"].run = r =>
       /\ ~store[r].server /\ store[r].status \in Terminal
       /\ store[r].error \notin {"UNKNOWN", "IN_FLIGHT", "ALREADY_COMMITTED"}

(* "Zero orphaned paid servers", whatever happens in between.              *)
NoSilentServer == ~SilentServer

(* What holds of it: a server is orphaned only if an answer to the Pilot   *)
(* was lost, or the Pilot died and was not polled again before exp, or it  *)
(* died in the middle of a line of its ledger.  No outcome at the provider *)
(* does it, nor a death between any two steps of the purchase that is      *)
(* followed by a poll in time.                                             *)
SilentOnlyAfterLoss == SilentServer => lost > 0 \/ (crashes > 0 /\ expired) \/ torn

(* A setup step the gateway is still busy with is not a failure: it costs  *)
(* no run its server.                                                      *)
BusyStepIsNoFailure ==
  \A r \in Saved : ~(store[r].error = "IN_FLIGHT" /\ store[r].status = "ROLLED_BACK")

(* A run refused its cutover for want of the Auditor's token was not given *)
(* one.                                                                    *)
TokenIsPassedOn ==
  \A r \in Saved : store[r].error = "NO_AUDITOR_TOKEN" => ~store[r].tok

(* What has failed, was rolled back or cut over stays so, whoever polls.   *)
EndIsFinal ==
  [][\A r \in Saved : store[r].status \in {"FAILED", "ROLLED_BACK", "CUTOVER"} =>
       store'[r].status = store[r].status]_vars

(* A run that is polled ends: boots, deployments and retries are bounded,  *)
(* and no crash or lost answer leaves it waiting for good.                 *)
RunEnds ==
  lane = "automated" =>
    \A r \in Runs : (r \in Saved) ~> (r \in Saved /\ store[r].status \in Terminal)
=============================================================================
