------------------------------ MODULE Runbook -------------------------------
(***************************************************************************)
(* Pilot's resumable runbook (pilot/src/pilot/runbook.ts): advance() moves *)
(* one run by one step, calling the mandate gateway for everything that    *)
(* has an effect.  This module holds what both of its drivers share, the   *)
(* A2A agent (module PilotAgent) and the operator's CLI (module LiveCli):  *)
(* the run, the Pilot's own ledger, the gateway as its callers see it, and *)
(* the world the gateway changes.  All of it is about one mandate.         *)
(*                                                                         *)
(* The gateway keeps the promise of module Purchase here (module Gateway   *)
(* says when it does): a step is claimed in one action, executed in        *)
(* another, and both ends of a call may lose the answer in between.        *)
(***************************************************************************)
EXTENDS Ledger

CONSTANTS
  Runs,         \* run identifiers
  Lanes,        \* the lanes a mandate may be for: "automated" (hetzner), "handoff" (a human buys)
  TokenCarried, \* the driver hands the Auditor's token to its gateway client
  PollLimit,    \* maxPolls, also the limit of the price scrape
  StepRetries,  \* MAX_STEP_RETRIES
  NoRun,        \* no state is saved under this run identifier
  MaxLost,      \* bound: answers lost between Pilot and gateway, deaths of the gateway
  MaxCrashes    \* bound: deaths of the Pilot's process

ASSUME RunbookAssumption ==
  /\ Lanes \subseteq {"automated", "handoff"} /\ TokenCarried \in BOOLEAN
  /\ PollLimit \in Nat \ {0} /\ StepRetries \in Nat
  /\ MaxLost \in Nat /\ MaxCrashes \in Nat

VARIABLES
  store,    \* the saved state of each run
  job,      \* the call of advance() under way for a run
  rows,     \* the Pilot's ledger file
  gw,       \* the latest row of each step in the gateway's ledger
  acting,   \* steps whose provider request is under way at the gateway
  server,   \* the server of this mandate: "none", "live" or "gone"
  dns,      \* where the domain points: "old", or "ours", the server
  lane,     \* the lane of the mandate
  expired,  \* its exp has passed
  closed,   \* its run window has closed
  lost, crashes,
  torn      \* a death has cut a line of the Pilot's ledger short

world == <<server, dns>>
gateway == <<gw, acting>>
mandate == <<lane, expired, closed>>
faults == <<lost, crashes, torn>>
vars == <<store, job, rows, gateway, world, mandate, faults>>

Steps == {"P0", "P1", "P1B", "P1C", "P2H", "P2", "P3", "P4", "P5", "P6", "P7", "P8", "DONE"}
Statuses == {"RUNNING", "WAITING", "AWAITING_HUMAN_PURCHASE", "DEPLOYED", "CUTOVER",
             "FAILED", "ROLLED_BACK", "NEEDS_APPROVAL"}
Terminal == {"DEPLOYED", "CUTOVER", "FAILED", "ROLLED_BACK"}

(* What a call of the gateway can come back with.  LOST is every failure   *)
(* of the transport: the 60 s timeout, a dropped connection, a body that   *)
(* is not JSON.                                                            *)
Answers == {"OK", "EXPIRED", "CLOSED", "REPLAY", "IN_FLIGHT", "AMBIGUOUS", "REJECTED", "LOST"}

Errors == {"-", "BUDGET", "ALREADY_COMMITTED", "UNKNOWN", "PROVISION", "BOOT", "DEPLOY",
           "CUTOVER", "NO_AUDITOR_TOKEN", "LEDGER", "CLEANUP", "CLEANED"} \cup Answers

RunState == [step : Steps, status : Statuses, server : BOOLEAN, dnsRec : BOOLEAN,
             cost : BOOLEAN, polls : 0..(IF PollLimit > StepRetries THEN PollLimit ELSE StepRetries),
             error : Errors, over : BOOLEAN, tok : BOOLEAN]

ASSUME NoRunAssumption == NoRun \notin RunState

Keys == {"P2", "P4P", "P4A", "P6", "P8"}

newRun == [step |-> "P0", status |-> "RUNNING", server |-> FALSE, dnsRec |-> FALSE,
           cost |-> FALSE, polls |-> 0, error |-> "-", over |-> FALSE, tok |-> FALSE]

Idle == [pc |-> "idle", s |-> newRun, key |-> "P2", seen |-> FALSE]

Init ==
  /\ store = [r \in Runs |-> NoRun]
  /\ job = [r \in Runs |-> Idle]
  /\ rows = <<>>
  /\ gw = [k \in Keys |-> [state |-> "FAILED", run |-> NoRun, previous |-> "old"]]
  /\ acting = {}
  /\ server = "none" /\ dns = "old"
  /\ lane \in Lanes /\ expired = FALSE /\ closed = FALSE
  /\ lost = 0 /\ crashes = 0 /\ torn = FALSE

-----------------------------------------------------------------------------
(* Moves of one job.                                                       *)

At(r, l) == job[r].pc = l
Goto(r, l) == job' = [job EXCEPT ![r].pc = l]
(* advance() returns s, which the driver saves next.                       *)
Return(r, s) == job' = [job EXCEPT ![r].pc = "save", ![r].s = s]
Fail(s, e) == [s EXCEPT !.status = "FAILED", !.error = e]
Wait(s) == [s EXCEPT !.status = "WAITING", !.polls = @ + 1]
Enter(s, step) == [s EXCEPT !.step = step, !.polls = 0]
(* Something threw: rollback(s, .., reason).                               *)
Undo(r, s, e) == job' = [job EXCEPT ![r].pc = "undo", ![r].s = [s EXCEPT !.error = e]]

LoseOne == lost < MaxLost /\ lost' = lost + 1

isTransient(a) == a \in {"AMBIGUOUS", "LOST"}

(* Slip: the retry is not counted.                                         *)
CaughtForever(r, s, a) ==
  IF s.step \in {"P4", "P5", "P6"} /\ isTransient(a)
  THEN Return(r, [s EXCEPT !.status = "WAITING"]) ELSE Undo(r, s, a)

(* The catch around the steps: retry a few times, else clean up.           *)
Caught(r, s, a) ==
  IF s.step \in {"P4", "P5", "P6"} /\ isTransient(a) /\ s.polls < StepRetries
  THEN Return(r, Wait(s)) ELSE Undo(r, s, a)

(* Slip: a failed run is advanced again.                                   *)
StaysUnlessFailed(s) == s.status \in {"DEPLOYED", "CUTOVER"} \/ s.step = "DONE"

(* advance() begins: terminal runs stay, the mandate is verified again;    *)
(* exp binds only while there is no server and the run is not parked.      *)
Stays(s) == s.status \in Terminal \/ s.step = "DONE"
Refused(s) == expired /\ ~s.server /\ s.step # "P2H"

Nothing(r) ==
  /\ At(r, "step") /\ Stays(job[r].s)
  /\ Return(r, job[r].s)
  /\ UNCHANGED <<store, rows, gateway, world, mandate, faults>>

Expires(r) ==
  /\ At(r, "step") /\ ~Stays(job[r].s) /\ Refused(job[r].s)
  /\ Return(r, Fail(job[r].s, "EXPIRED"))
  /\ UNCHANGED <<store, rows, gateway, world, mandate, faults>>

(* The guard of every step below.                                          *)
On(r, step) ==
  At(r, "step") /\ job[r].s.step = step /\ ~Stays(job[r].s) /\ ~Refused(job[r].s)

-----------------------------------------------------------------------------
(* Before the purchase.                                                    *)

Verified(r) ==
  /\ On(r, "P0")
  /\ Return(r, [job[r].s EXCEPT !.step = "P1"])
  /\ UNCHANGED <<store, rows, gateway, world, mandate, faults>>

Note(r, k, st) == [key |-> k, run |-> r, state |-> st]

(* Every call reads the Pilot's ledger afresh; a line cut short makes the  *)
(* read throw, in nonceSpent() and in claim(), into the catch of advance().*)
Unreadable(r, s) == torn /\ Undo(r, s, "LEDGER")

(* nonceSpent(): the first row of the ledger belongs to another run.       *)
SpentByAnother(r) == \E i \in 1..Len(rows) : i = 1 /\ rows[i].run # r

Preflight(r) ==
  LET s == job[r].s IN
  /\ On(r, "P1")
  /\ \/ Unreadable(r, s)
     \/ ~torn /\ SpentByAnother(r) /\ Return(r, Fail(s, "REPLAY"))
     \/ ~torn /\ ~SpentByAnother(r) /\ lane = "automated" /\ Return(r, [s EXCEPT !.step = "P1B"])
     \/ ~torn /\ ~SpentByAnother(r) /\ lane = "handoff" /\ Goto(r, "note")
  /\ UNCHANGED <<store, rows, gateway, world, mandate, faults>>

(* The handoff lane notes itself in the ledger, or finds that another run  *)
(* has, and waits for the human in either case.                            *)
NoteHandoff(r) ==
  /\ At(r, "note")
  /\ rows' = IF Free(rows, "P2H")
             THEN rows \o <<Note(r, "P2H", "INTENT"), Note(r, "P2H", "COMMITTED")>>
             ELSE rows
  /\ Return(r, [job[r].s EXCEPT !.step = "P2H"])
  /\ UNCHANGED <<store, gateway, world, mandate, faults>>

(* The price scrape only advises: any failure goes on to the purchase, at  *)
(* the pinned price.  Whether the price is over the cap is settled here.   *)
Priced(s) == {[Enter(s, "P2") EXCEPT !.status = "RUNNING", !.over = o] : o \in BOOLEAN}

PriceSubmit(r) ==
  LET s == job[r].s IN
  /\ On(r, "P1B")
  /\ \E t \in Priced(s) \cup {Enter(s, "P1C")} : Return(r, t)
  /\ UNCHANGED <<store, rows, gateway, world, mandate, faults>>

(* Slip: the scrape is polled without a limit.                             *)
PricePollForever(r) ==
  LET s == job[r].s IN
  /\ On(r, "P1C")
  /\ (\E t \in Priced(s) : Return(r, t)) \/ Return(r, Wait(s))
  /\ UNCHANGED <<store, rows, gateway, world, mandate, faults>>

PricePoll(r) ==
  LET s == job[r].s IN
  /\ On(r, "P1C")
  /\ \/ \E t \in Priced(s) : Return(r, t)
     \/ s.polls + 1 < PollLimit /\ Return(r, Wait(s))
  /\ UNCHANGED <<store, rows, gateway, world, mandate, faults>>

(* Parked: the registration is read at the gateway ...                     *)
ReadRegistration(r) ==
  /\ On(r, "P2H")
  /\ \/ /\ ~(gw["P2"].state = "COMMITTED" /\ closed)
        /\ job' = [job EXCEPT ![r].pc = "status", ![r].seen = gw["P2"].state = "COMMITTED"]
        /\ UNCHANGED lost
     \/ /\ gw["P2"].state = "COMMITTED" /\ closed
        /\ Undo(r, job[r].s, "CLOSED") /\ UNCHANGED lost
     \/ /\ LoseOne
        /\ Return(r, [job[r].s EXCEPT !.status = "AWAITING_HUMAN_PURCHASE"])
  /\ UNCHANGED <<store, rows, gateway, world, mandate, crashes, torn>>

(* ... and, when the answer is there, exp is checked against the clock.    *)
UseRegistration(r) ==
  LET s == job[r].s IN
  /\ At(r, "status")
  /\ \/ /\ job[r].seen
        /\ Return(r, [Enter(s, "P3") EXCEPT !.status = "RUNNING", !.server = TRUE])
     \/ /\ ~job[r].seen /\ expired /\ Return(r, Fail(s, "EXPIRED"))
     \/ /\ ~job[r].seen /\ ~expired
        /\ Return(r, [s EXCEPT !.status = "AWAITING_HUMAN_PURCHASE"])
  /\ UNCHANGED <<store, rows, gateway, world, mandate, faults>>

-----------------------------------------------------------------------------
(* The purchase: claim in the Pilot's own ledger, call, settle.            *)

(* Slip: the purchase is not noted before it is made.                      *)
ProvisionCallsFirst(r) ==
  LET s == job[r].s IN
  /\ On(r, "P2")
  /\ \/ s.over /\ Return(r, Fail(s, "BUDGET"))
     \/ ~s.over /\ job' = [job EXCEPT ![r].pc = "call", ![r].key = "P2"]
  /\ UNCHANGED <<store, rows, gateway, world, mandate, faults>>

(* authorize() may refuse the price; claim() reads the ledger ...          *)
Provision(r) ==
  LET s == job[r].s IN
  /\ On(r, "P2")
  /\ \/ s.over /\ Return(r, Fail(s, "BUDGET"))
     \/ ~s.over /\ Unreadable(r, s)
     \/ ~s.over /\ ~torn /\ Free(rows, "P2") /\ Goto(r, "intent")
     \/ ~s.over /\ ~torn /\ InFlight(rows, "P2") /\ Return(r, Fail(s, "IN_FLIGHT"))
     \/ ~s.over /\ ~torn /\ Committed(rows, "P2") # {} /\ Return(r, Fail(s, "ALREADY_COMMITTED"))
  /\ UNCHANGED <<store, rows, gateway, world, mandate, faults>>

(* ... and appends to it later; so do the two settlements.                 *)
Intend(r) ==
  /\ At(r, "intent")
  /\ rows' = Append(rows, Note(r, "P2", "INTENT"))
  /\ job' = [job EXCEPT ![r].pc = "call", ![r].key = "P2"]
  /\ UNCHANGED <<store, gateway, world, mandate, faults>>

Bought(r) ==
  /\ At(r, "bought")
  /\ rows' = Append(rows, Note(r, "P2", "COMMITTED"))
  /\ Return(r, [job[r].s EXCEPT !.step = "P3", !.server = TRUE, !.cost = TRUE])
  /\ UNCHANGED <<store, gateway, world, mandate, faults>>

NotBought(r) ==
  /\ At(r, "notBought")
  /\ rows' = Append(rows, Note(r, "P2", "FAILED"))
  /\ Return(r, Fail(job[r].s, "PROVISION"))
  /\ UNCHANGED <<store, gateway, world, mandate, faults>>

-----------------------------------------------------------------------------
(* Calls with an effect: what the Pilot does with the answer a.            *)

(* Slip: an unknown outcome is taken for none.                             *)
HearPurchaseReleases(r, a) ==
  \/ a = "OK" /\ Goto(r, "bought")
  \/ a # "OK" /\ Goto(r, "notBought")

(* createServer: an unknown outcome keeps the INTENT, any other error, the *)
(* failures of the transport among them, releases it.                      *)
HearPurchase(r, a) ==
  \/ a = "OK" /\ Goto(r, "bought")
  \/ a \in {"AMBIGUOUS", "IN_FLIGHT"} /\ Return(r, Fail(job[r].s, "UNKNOWN"))
  \/ a \notin {"OK", "AMBIGUOUS", "IN_FLIGHT"} /\ Goto(r, "notBought")

(* Slip: a deployment nobody confirmed is taken for started.               *)
HearSetupHopeful(r, a) ==
  LET s == job[r].s IN
  \/ a = "OK" /\ job[r].key = "P4P"
       /\ job' = [job EXCEPT ![r].pc = "call", ![r].key = "P4A"]
  \/ a = "OK" /\ job[r].key = "P4A" /\ Return(r, Enter(s, "P5"))
  \/ a \in {"OK", "AMBIGUOUS"} /\ job[r].key = "P6" /\ Return(r, Enter(s, "P7"))
  \/ a # "OK" /\ Caught(r, s, a)

(* createProject, then createApplication; deploy.                          *)
HearSetup(r, a) ==
  LET s == job[r].s IN
  \/ a = "OK" /\ job[r].key = "P4P"
       /\ job' = [job EXCEPT ![r].pc = "call", ![r].key = "P4A"]
  \/ a = "OK" /\ job[r].key = "P4A" /\ Return(r, Enter(s, "P5"))
  \/ a = "OK" /\ job[r].key = "P6" /\ Return(r, Enter(s, "P7"))
  \/ a # "OK" /\ Caught(r, s, a)

(* The DNS upsert: a failure never destroys the server.                    *)
HearCutover(r, a) ==
  LET s == job[r].s IN
  \/ a = "OK" /\ Return(r, [s EXCEPT !.step = "DONE", !.status = "CUTOVER", !.dnsRec = TRUE])
  \/ a # "OK" /\ Return(r, Fail(s, "CUTOVER"))

Hear(r, a) ==
  \/ job[r].key = "P2" /\ HearPurchase(r, a)
  \/ job[r].key \in {"P4P", "P4A", "P6"} /\ HearSetup(r, a)
  \/ job[r].key = "P8" /\ HearCutover(r, a)

Project(r) ==
  /\ On(r, "P4")
  /\ job' = [job EXCEPT ![r].pc = "call", ![r].key = "P4P", ![r].s.status = "RUNNING"]
  /\ UNCHANGED <<store, rows, gateway, world, mandate, faults>>

Deploy(r) ==
  /\ On(r, "P6")
  /\ job' = [job EXCEPT ![r].pc = "call", ![r].key = "P6"]
  /\ UNCHANGED <<store, rows, gateway, world, mandate, faults>>

(* authorize() wants the Auditor's token in the context; the gateway       *)
(* client wants it again, and refuses without calling.                     *)
Cutover(r) ==
  LET s == job[r].s IN
  /\ On(r, "P8")
  /\ IF ~s.tok
     THEN Return(r, [s EXCEPT !.status = "NEEDS_APPROVAL", !.error = "NO_AUDITOR_TOKEN"])
     ELSE IF ~TokenCarried
     THEN Return(r, Fail(s, "NO_AUDITOR_TOKEN"))
     ELSE job' = [job EXCEPT ![r].pc = "call", ![r].key = "P8"]
  /\ UNCHANGED <<store, rows, gateway, world, mandate, faults>>

-----------------------------------------------------------------------------
(* Calls that only look: what they find, a blip, or a refusal.             *)

(* coolify.health: a blip is one more poll; a refusal or a boot that takes *)
(* too long destroys the server.                                           *)
Boot(r) ==
  LET s == job[r].s IN
  /\ On(r, "P3")
  /\ \/ server = "live" /\ ~closed /\ Return(r, Enter(s, "P4"))
     \/ s.polls + 1 < PollLimit /\ Return(r, Wait(s))
     \/ s.polls + 1 >= PollLimit /\ Undo(r, Wait(s), "BOOT")
     \/ closed /\ Undo(r, s, "CLOSED")
  /\ UNCHANGED <<store, rows, gateway, world, mandate, faults>>

(* exportEnvs and bulkEnvs: repeatable, so their outcome is all there is.  *)
Envs(r) ==
  LET s == job[r].s IN
  /\ On(r, "P5")
  /\ \/ ~closed /\ Return(r, Enter(s, "P6"))
     \/ Caught(r, s, "AMBIGUOUS")
     \/ Caught(r, s, IF closed THEN "CLOSED" ELSE "REJECTED")
  /\ UNCHANGED <<store, rows, gateway, world, mandate, faults>>

(* coolify.deploymentStatus.                                               *)
Verify(r) ==
  LET s == job[r].s IN
  /\ On(r, "P7")
  /\ \/ /\ server = "live" /\ ~closed
        /\ Return(r, [s EXCEPT !.status = "DEPLOYED", !.step = "DONE", !.polls = @ + 1])
     \/ Undo(r, s, IF closed THEN "CLOSED" ELSE "DEPLOY")
     \/ s.polls + 1 < PollLimit /\ Return(r, Wait(s))
     \/ s.polls + 1 >= PollLimit /\ Undo(r, Wait(s), "DEPLOY")
  /\ UNCHANGED <<store, rows, gateway, world, mandate, faults>>

-----------------------------------------------------------------------------
(* rollback().  No step leads here once the DNS record has been written.   *)

(* What a human bought is not deleted.                                     *)
UndoHandoff(r) ==
  /\ At(r, "undo") /\ lane = "handoff"
  /\ Return(r, [job[r].s EXCEPT !.status = "FAILED", !.cost = FALSE])
  /\ UNCHANGED <<store, rows, gateway, world, mandate, faults>>

(* Slips: a failed delete is reported as done; the lane is not checked.    *)
UndoServerHopeful(r) ==
  /\ At(r, "undo") /\ lane = "automated"
  /\ server' \in {server, "gone"}
  /\ Return(r, [job[r].s EXCEPT !.status = "ROLLED_BACK", !.cost = FALSE])
  /\ UNCHANGED <<store, rows, gateway, dns, mandate, faults>>

UndoServerAnyLane(r) ==
  /\ At(r, "undo")
  /\ server = "live" /\ server' = "gone"
  /\ Return(r, [job[r].s EXCEPT !.status = "ROLLED_BACK", !.cost = FALSE])
  /\ UNCHANGED <<store, rows, gateway, dns, mandate, faults>>

(* One try: a server that is gone already is an error like any other.  A   *)
(* run that names no server has nothing to undo, and says it is undone.    *)
UndoServer(r) ==
  LET s == job[r].s IN
  /\ At(r, "undo") /\ lane = "automated"
  /\ \/ /\ s.server /\ server = "live" /\ server' = "gone"
        /\ Return(r, [s EXCEPT !.status = "ROLLED_BACK", !.cost = FALSE])
     \/ /\ s.server /\ server' \in {server, "gone"}
        /\ Return(r, Fail(s, "CLEANUP"))
     \/ /\ ~s.server /\ UNCHANGED server
        /\ Return(r, [s EXCEPT !.status = "ROLLED_BACK"])
  /\ UNCHANGED <<store, rows, gateway, dns, mandate, faults>>

(* Slip: the record is kept under the mandate, for all its runs.           *)
SaveForMandate(r, l) ==
  /\ At(r, "save")
  /\ store' = [q \in Runs |-> IF q = r \/ store[q] # NoRun THEN job[r].s ELSE NoRun]
  /\ Goto(r, l)
  /\ UNCHANGED <<rows, gateway, world, mandate, faults>>

Save(r, l) ==
  /\ At(r, "save")
  /\ store' = [store EXCEPT ![r] = job[r].s]
  /\ Goto(r, l)
  /\ UNCHANGED <<rows, gateway, world, mandate, faults>>

-----------------------------------------------------------------------------
(* The gateway.                                                            *)

Latest(k, st, r, was) ==
  gw' = [gw EXCEPT ![k] = [state |-> st, run |-> r, previous |-> was]]

(* Phase 'spend' for the purchase, phase 'continue' for the rest.          *)
Admits(k) == IF k = "P2" THEN ~expired ELSE ~closed

(* The answer reaches the Pilot, or is lost.                               *)
Reply(r, a) == (Hear(r, a) /\ UNCHANGED lost) \/ (Hear(r, "LOST") /\ LoseOne)

NeverArrives(r) ==
  /\ At(r, "call") /\ LoseOne /\ Hear(r, "LOST")
  /\ UNCHANGED <<store, rows, gateway, world, mandate, crashes, torn>>

(* Out of its phase; or, for the cutover, an Auditor's token that does not *)
(* verify.                                                                 *)
TurnedAway(r) ==
  LET k == job[r].key IN
  /\ At(r, "call")
  /\ \/ ~Admits(k) /\ Reply(r, IF k = "P2" THEN "EXPIRED" ELSE "CLOSED")
     \/ k = "P8" /\ Reply(r, "REJECTED")
  /\ UNCHANGED <<store, rows, gateway, world, mandate, crashes, torn>>

(* once(): a fresh claim ...                                               *)
Claimed(r) ==
  LET k == job[r].key IN
  /\ At(r, "call") /\ Admits(k) /\ gw[k].state = "FAILED"
  /\ Latest(k, "INTENT", r, dns) /\ acting' = acting \cup {k}
  /\ Goto(r, "wait")
  /\ UNCHANGED <<store, rows, world, mandate, faults>>

(* Slip: the result is handed to any run of the mandate.                   *)
RecordedForAnyone(r) ==
  LET k == job[r].key IN
  /\ At(r, "call") /\ Admits(k) /\ gw[k].state = "COMMITTED"
  /\ Reply(r, "OK")
  /\ UNCHANGED <<store, rows, gateway, world, mandate, crashes, torn>>

(* ... a recorded result ...                                               *)
Recorded(r) ==
  LET k == job[r].key IN
  /\ At(r, "call") /\ Admits(k) /\ gw[k].state = "COMMITTED"
  /\ Reply(r, IF gw[k].run = r THEN "OK" ELSE "REPLAY")
  /\ UNCHANGED <<store, rows, gateway, world, mandate, crashes, torn>>

(* ... or an open INTENT: the purchase's own run may adopt its server.     *)
Unresolved(r) ==
  LET k == job[r].key
      mine == k = "P2" /\ gw[k].run = r IN
  /\ At(r, "call") /\ Admits(k) /\ gw[k].state = "INTENT"
  /\ \/ mine /\ server = "live" /\ Latest(k, "COMMITTED", r, dns) /\ Reply(r, "OK")
     \/ ~(mine /\ server = "live") /\ UNCHANGED gw /\ Reply(r, "IN_FLIGHT")
     \/ mine /\ UNCHANGED gw /\ Reply(r, "AMBIGUOUS")
  /\ UNCHANGED <<store, rows, acting, world, mandate, crashes, torn>>

(* The effect of a step on the world.                                      *)
Effect(ks) ==
  /\ server' = IF "P2" \in ks THEN "live" ELSE server
  /\ dns' = IF "P8" \in ks THEN "ours" ELSE dns

(* act() ends: it succeeded, was rejected, or nobody knows; the caller may *)
(* have stopped waiting.                                                   *)
Act(k) ==
  LET r == gw[k].run
      told(a) == IF At(r, "wait") /\ job[r].key = k THEN Reply(r, a)
                 ELSE UNCHANGED <<job, lost>> IN
  /\ k \in acting /\ acting' = acting \ {k}
  /\ \/ Effect({k}) /\ Latest(k, "COMMITTED", r, dns) /\ told("OK")
     \/ UNCHANGED world /\ Latest(k, "FAILED", r, dns) /\ told("REJECTED")
     \/ /\ Effect({k}) \/ UNCHANGED world
        /\ IF k = "P2" THEN UNCHANGED gw ELSE Latest(k, "FAILED", r, dns)
        /\ told("AMBIGUOUS")
  /\ UNCHANGED <<store, rows, mandate, crashes, torn>>

TimeOut(r) ==
  /\ At(r, "wait")
  /\ IF job[r].key \in acting THEN LoseOne ELSE UNCHANGED lost
  /\ Hear(r, "LOST")
  /\ UNCHANGED <<store, rows, gateway, world, mandate, crashes, torn>>

(* handoff_register: the operator names the server a human bought.         *)
Register(r) ==
  /\ lane = "handoff" /\ store[r] # NoRun /\ ~expired /\ gw["P2"].state = "FAILED"
  /\ Latest("P2", "COMMITTED", r, dns) /\ server' = "live"
  /\ UNCHANGED <<store, job, rows, acting, dns, mandate, faults>>

-----------------------------------------------------------------------------
(* Time and death.                                                         *)

Expire ==
  /\ ~expired /\ expired' = TRUE
  /\ UNCHANGED <<store, job, rows, gateway, world, lane, closed, faults>>

Close ==
  /\ ~closed /\ gw["P2"].state = "COMMITTED" /\ closed' = TRUE
  /\ UNCHANGED <<store, job, rows, gateway, world, lane, expired, faults>>

GatewayDies ==
  /\ LoseOne
  /\ acting' = {} /\ \E done \in SUBSET acting : Effect(done)
  /\ UNCHANGED <<store, job, rows, gw, mandate, crashes, torn>>

(* The process dies, perhaps in the middle of a line of its ledger.        *)
PilotDies ==
  LET appending == {r \in Runs : job[r].pc \in {"note", "intent", "bought", "notBought"}} IN
  /\ crashes < MaxCrashes /\ crashes' = crashes + 1
  /\ UNCHANGED torn \/ (appending # {} /\ torn' = TRUE)
  /\ job' = [r \in Runs |-> Idle]
  /\ UNCHANGED <<store, rows, gateway, world, mandate, lost>>

(* One step of advance() under way for run r.                              *)
Advance(r) ==
  \/ Nothing(r) \/ Expires(r)
  \/ Verified(r) \/ Preflight(r) \/ NoteHandoff(r) \/ PriceSubmit(r) \/ PricePoll(r)
  \/ ReadRegistration(r) \/ UseRegistration(r)
  \/ Provision(r) \/ Intend(r) \/ Bought(r) \/ NotBought(r)
  \/ Boot(r) \/ Project(r) \/ Envs(r) \/ Deploy(r) \/ Verify(r) \/ Cutover(r)
  \/ UndoHandoff(r) \/ UndoServer(r)

(* The gateway's side of the call run r is making.                         *)
Serve(r) ==
  NeverArrives(r) \/ TurnedAway(r) \/ Claimed(r) \/ Recorded(r) \/ Unresolved(r) \/ TimeOut(r)

Environment ==
  \/ \E k \in Keys : Act(k)
  \/ \E r \in Runs : Register(r)
  \/ Expire \/ Close \/ GatewayDies \/ PilotDies

-----------------------------------------------------------------------------
(* What holds under both drivers.                                          *)

Pcs == {"idle", "step", "note", "status", "intent", "call", "wait", "bought", "notBought", "undo", "save",
        "cleanDns", "clean"}

(* Every variable has the type the code gives it.                          *)
TypeOK ==
  /\ store \in [Runs -> RunState \cup {NoRun}]
  /\ job \in [Runs -> [pc : Pcs, s : RunState, key : Keys, seen : BOOLEAN]]
  /\ rows \in Seq([key : {"P2", "P2H"}, run : Runs, state : States])
  /\ gw \in [Keys -> [state : States, run : Runs \cup {NoRun}, previous : {"old", "ours"}]]
  /\ acting \subseteq Keys
  /\ server \in {"none", "live", "gone"} /\ dns \in {"old", "ours"} /\ lane \in Lanes
  /\ expired \in BOOLEAN /\ closed \in BOOLEAN /\ lost \in Nat /\ crashes \in Nat
  /\ torn \in BOOLEAN

Saved == {r \in Runs : store[r] # NoRun}

(* The gateway never claims the purchase before the Pilot's own ledger     *)
(* holds an INTENT of that run: two write-ahead ledgers, one inside the    *)
(* other, with starts, polls and crashes in between.                       *)
IntentBeforeClaim ==
  lane = "automated" /\ gw["P2"].run # NoRun =>
    \E i \in 1..Len(rows) :
      rows[i].key = "P2" /\ rows[i].state = "INTENT" /\ rows[i].run = gw["P2"].run

(* A run past the purchase is the one the gateway's ledger names, so no    *)
(* run acts on, or destroys, the server of another.                        *)
OwnServerOnly ==
  lane = "automated" => \A r \in Saved :
    store[r].server => gw["P2"].state = "COMMITTED" /\ gw["P2"].run = r

(* "Destroys anything bought under this run, then reports": ROLLED_BACK    *)
(* means that nothing is running, whatever failed on the way.              *)
NothingLeftRunning ==
  \A r \in Saved : store[r].status = "ROLLED_BACK" => server # "live"

(* What holds of it: the server that a run rolled back names is gone, and  *)
(* costs nothing.  A run that names none was stopped by a ledger it could  *)
(* not read; what it had asked to buy may be running.                      *)
RolledBackIsGone ==
  lane = "automated" => \A r \in Saved :
    store[r].status = "ROLLED_BACK" =>
      IF store[r].server THEN server = "gone" /\ ~store[r].cost ELSE torn
=============================================================================
