---------------------------- MODULE Drivers_proofs --------------------------
(***************************************************************************)
(* The two drivers of the runbook, for any number of runs, callers,        *)
(* crashes and losses.  Both keep RunbookInv (module Runbook_proofs), and  *)
(* what a step of advance() does to its run (Step, below) is the same.     *)
(*                                                                         *)
(* The agent: AgentInv, a run's state against the server, and AccountInv,  *)
(* who keeps account of a server that may have been bought.                *)
(*                                                                         *)
(* The operator's CLI: DnsRecorded, what a row of the gateway remembers of *)
(* the domain; FitInv, what the CLI knows of a run's state; and TraceInv,  *)
(* how a server that may have been bought can be traced to its run.        *)
(***************************************************************************)
EXTENDS PilotAgent, LiveCli, Runbook_proofs

(* The calls of the agent take up a run as it was saved.                   *)
LEMMA CallState ==
  ASSUME RunbookInv, NEW r \in Runs, Start(r) \/ Poll(r) \/ RunCutover(r)
  PROVE  /\ At(r, "idle")
         /\ \E s \in RunState :
              /\ Load(r, s) /\ Sound(r, s) /\ Counted(s)
              /\ \/ store[r] = NoRun /\ s = newRun
                 \/ r \in Saved /\ s = store[r]
                 \/ /\ r \in Saved /\ store[r].status # "DEPLOYED"
                    /\ s = [store[r] EXCEPT !.tok = TRUE]
                 \/ /\ r \in Saved /\ store[r].status = "DEPLOYED"
                    /\ s = [[store[r] EXCEPT !.tok = TRUE] EXCEPT !.step = "P8", !.status = "RUNNING"]
<1>1. CASE Start(r)
  BY <1>1, NewRunSound DEF Start
<1>2. CASE r \in Saved
  <2> PICK u \in RunState : u = store[r]
    BY <1>2 DEF RunbookInv, TypeOK, Saved
  <2>1. Sound(r, u) /\ Counted(u)
    BY <1>2 DEF RunbookInv, StoreAt
  <2> PICK v : v = [u EXCEPT !.tok = TRUE]
    OBVIOUS
  <2>2. /\ v \in RunState /\ v.step = u.step /\ v.status = u.status /\ v.server = u.server
        /\ v.polls = u.polls
    BY DEF RunState
  <2> PICK w : w = [v EXCEPT !.step = "P8", !.status = "RUNNING"]
    OBVIOUS
  <2>3. w \in RunState /\ w.step = "P8" /\ w.status = "RUNNING" /\ w.server = v.server
    <3>1. /\ w.step = "P8" /\ w.status = "RUNNING" /\ w.server = v.server
          /\ w.dnsRec = v.dnsRec /\ w.cost = v.cost /\ w.polls = v.polls /\ w.error = v.error
          /\ w.over = v.over /\ w.tok = v.tok
      BY <2>2 DEF RunState
    <3>2. "P8" \in Steps /\ "RUNNING" \in Statuses
      BY DEF Steps, Statuses
    <3>3. w \in RunState
      BY <2>2, <3>2, Zenon DEF RunState
    <3> QED
      BY <3>1, <3>3
  <2>4. Sound(r, v) /\ Counted(v)
    BY <2>1, <2>2 DEF Sound, Counted
  <2>5. u.status = "DEPLOYED" => Sound(r, w) /\ Counted(w)
    <3> SUFFICES ASSUME u.status = "DEPLOYED" PROVE Sound(r, w) /\ Counted(w)
      OBVIOUS
    <3>1. u.step = "DONE" /\ Owns(r, "P6") /\ u.server
          /\ (lane = "automated" => Owns(r, "P2"))
      BY <2>1 DEF Sound, Served
    <3>2. w.server = TRUE
      BY <2>2, <2>3, <3>1
    <3> QED
      BY <2>3, <3>1, <3>2 DEF Sound, Counted, Served
  <2>6. CASE Poll(r)
    BY <1>2, <2>1, <2>6 DEF Poll
  <2>7. CASE RunCutover(r)
    <3>1. At(r, "idle") /\ v.status = u.status
      BY <2>2, <2>7 DEF RunCutover
    <3>2. \/ u.status = "DEPLOYED" /\ Load(r, w)
          \/ u.status # "DEPLOYED" /\ Load(r, v)
      BY <2>7, <3>1 DEF RunCutover
    <3> QED
      BY <1>2, <2>2, <2>3, <2>4, <2>5, <3>1, <3>2
  <2> QED
    BY <1>1, <2>6, <2>7 DEF Start, Saved
<1>3. Poll(r) \/ RunCutover(r) => r \in Saved
  BY DEF Poll, RunCutover, Saved
<1> QED
  BY <1>1, <1>2, <1>3

LEMMA AgentKeeps ==
  ASSUME RunbookInv, [Next]_vars
  PROVE  RunbookInv'
<1>1. ASSUME NEW r \in Runs, Start(r) \/ Poll(r) \/ RunCutover(r) PROVE RunbookInv'
  <2>1. PICK s \in RunState : Load(r, s) /\ Sound(r, s) /\ Counted(s)
    BY <1>1, CallState
  <2>2. /\ job' = [job EXCEPT ![r] = [Idle EXCEPT !.pc = "step", !.s = s]]
        /\ UNCHANGED <<store, rows, gateway, world, mandate, faults>>
    BY <2>1 DEF Load
  <2>3. Kept
    BY <2>2, NothingChanged DEF gateway, mandate
  <2>4. rows' \in Seq([key : {"P2", "P2H"}, run : Runs, state : States]) /\ "step" \in Pcs
    BY <2>2 DEF RunbookInv, TypeOK, Pcs
  <2> QED
    BY <2>1, <2>2, <2>3, <2>4, LoadKeeps
<1>2. Judged \subseteq Runs
  BY JudgedAssumption
<1> QED
  BY <1>1, <1>2, AdvanceKeeps, ServeKeeps, SaveKeeps, EnvironmentKeeps, UnchangedKeeps DEF Next

(* The agent's specification keeps the runbook's invariant: a run past a   *)
(* step of the gateway owns that step's row, whoever started, polled or    *)
(* crashed in between.                                                     *)
THEOREM RunbookInvariant == Spec => []RunbookInv
BY RunbookInit, AgentKeeps, PTL DEF Spec

(* Every variable keeps its type.                                          *)
THEOREM TypeCorrect == Spec => []TypeOK
BY RunbookInvariant, PTL DEF RunbookInv

(* runbook.ts notes its INTENT before it calls p2_provision, so the        *)
(* gateway never holds a claim of the purchase by a run that noted none.   *)
THEOREM IntentBeforeClaimHolds == Spec => []IntentBeforeClaim
BY RunbookInvariant, PTL DEF RunbookInv

LEMMA RunsOwnTheirServer == RunbookInv => OwnServerOnly
BY DEF RunbookInv, StoreAt, Sound, Owns, OwnServerOnly, Saved

(* A saved run that has a server is the one the gateway's COMMITTED row of *)
(* P2 names: no run acts on, or rolls back, the server of another.         *)
THEOREM OwnServerOnlyHolds == Spec => []OwnServerOnly
BY RunsOwnTheirServer, RunbookInvariant, PTL

(* At most one run of a mandate is reported as DEPLOYED, in either lane:   *)
(* p6_deploy's row belongs to one run.                                     *)
THEOREM OneRunIsDeployedHolds == Spec => []OneRunIsDeployed
<1>1. RunbookInv => OneRunIsDeployed
  <2> SUFFICES ASSUME RunbookInv, NEW r \in Saved, NEW q \in Saved,
                      store[r].status = "DEPLOYED", store[q].status = "DEPLOYED"
               PROVE  r = q
    BY DEF OneRunIsDeployed
  <2>1. ASSUME NEW x \in Saved, store[x].status = "DEPLOYED" PROVE gw["P6"].run = x
    BY <2>1 DEF RunbookInv, StoreAt, Sound, Owns, Saved
  <2> QED
    BY <2>1
<1> QED
  BY <1>1, RunbookInvariant, PTL

-----------------------------------------------------------------------------
(* How the server of the mandate may change: it is created while the       *)
(* gateway has the purchase under way, registered by hand, or destroyed by *)
(* the rollback of a run.                                                  *)
ServerStep ==
  \/ server' = server
  \/ /\ server' = "live"
     /\ lane = "automated" => gw["P2"].state # "COMMITTED"
  \/ /\ lane = "automated" /\ server' = "gone"
     /\ \E r \in Runs : At(r, "undo") /\ job[r].s.server

LEMMA EffectOnServer ==
  ASSUME NEW ks, Effect(ks)
  PROVE  server' = server \/ ("P2" \in ks /\ server' = "live")
BY DEF Effect

(* What both drivers have in common: advance(), gateway and environment.   *)
SharedNext == (\E r \in Runs : Advance(r) \/ Serve(r)) \/ Environment

LEMMA SharedServerSteps ==
  ASSUME RunbookInv, [SharedNext]_vars
  PROVE  ServerStep /\ lane' = lane
<1>2. ASSUME NEW r \in Runs, Advance(r) PROVE ServerStep /\ lane' = lane
  <2>1. lane' = lane
    BY <1>2, AdvanceOwn
  <2>2. CASE UndoServer(r)
    <3>1. /\ lane = "automated" /\ At(r, "undo")
          /\ server' = server \/ (server' = "gone" /\ job[r].s.server)
      BY <2>2 DEF UndoServer
    <3> QED
      BY <2>1, <3>1 DEF ServerStep
  <2>3. CASE ~UndoServer(r)
    BY <1>2, <2>1, <2>3
       DEF Advance, ServerStep, Nothing, Expires, Verified, Preflight, NoteHandoff, PriceSubmit,
           PricePoll, ReadRegistration, UseRegistration, Provision, Intend, Bought, NotBought,
           Boot, Project, Envs, Deploy, Verify, Cutover, UndoHandoff, world
  <2> QED
    BY <2>2, <2>3
<1>3. ASSUME NEW r \in Runs, Serve(r) PROVE ServerStep /\ lane' = lane
  BY <1>3 DEF Serve, NeverArrives, TurnedAway, Claimed, Recorded, Unresolved, TimeOut,
              ServerStep, world, mandate
<1>5. ASSUME "P2" \in acting PROVE gw["P2"].state # "COMMITTED"
  BY <1>5 DEF RunbookInv, GatewayAt
<1>6. ASSUME NEW k \in Keys, Act(k) PROVE ServerStep /\ lane' = lane
  <2>1. k \in acting /\ lane' = lane /\ (server' = server \/ (k = "P2" /\ server' = "live"))
    <3>1. k \in acting /\ lane' = lane /\ (Effect({k}) \/ UNCHANGED world)
      BY <1>6 DEF Act, mandate
    <3>2. CASE Effect({k})
      BY <3>1, <3>2, EffectOnServer
    <3> QED
      BY <3>1, <3>2 DEF world
  <2> QED
    BY <1>5, <2>1 DEF ServerStep
<1>7. CASE GatewayDies
  <2>1. lane' = lane /\ (server' = server \/ ("P2" \in acting /\ server' = "live"))
    <3>1. lane' = lane /\ \E done \in SUBSET acting : Effect(done)
      BY <1>7 DEF GatewayDies, mandate
    <3>2. PICK done \in SUBSET acting : Effect(done)
      BY <3>1
    <3> QED
      BY <3>1, <3>2, EffectOnServer
  <2> QED
    BY <1>5, <2>1 DEF ServerStep
<1>8. CASE (\E r \in Runs : Register(r)) \/ Expire \/ Close \/ PilotDies \/ UNCHANGED vars
  BY <1>8 DEF Register, Expire, Close, PilotDies, vars, world, mandate, ServerStep
<1> QED
  BY <1>2, <1>3, <1>6, <1>7, <1>8 DEF SharedNext, Environment

LEMMA ServerSteps ==
  ASSUME RunbookInv, [Next]_vars
  PROVE  ServerStep /\ lane' = lane
<1>1. ASSUME NEW r \in Runs, Start(r) \/ Poll(r) \/ RunCutover(r) PROVE ServerStep /\ lane' = lane
  BY <1>1 DEF Start, Poll, RunCutover, Load, ServerStep, world, mandate
<1>2. ASSUME NEW r \in Runs, Save(r, "idle") PROVE ServerStep /\ lane' = lane
  BY <1>2 DEF Save, ServerStep, world, mandate
<1>3. Judged \subseteq Runs
  BY JudgedAssumption
<1> QED
  BY <1>1, <1>2, <1>3, SharedServerSteps DEF Next, SharedNext

(* No step deletes a server that a human bought: rollback() leaves the     *)
(* handoff lane's server alone, and no crash or late answer changes that.  *)
THEOREM HumanServerStaysHolds == Spec => HumanServerStays
<1>1. RunbookInv /\ [Next]_vars => [lane = "handoff" /\ server = "live" => server' = "live"]_vars
  BY ServerSteps DEF ServerStep
<1> QED
  BY <1>1, RunbookInvariant, PTL DEF Spec, HumanServerStays

-----------------------------------------------------------------------------
(* A deployed run keeps its server, one rolled back has none, and what has *)
(* ended stays so: the state of each run, in memory and as saved, against  *)
(* the server.                                                             *)
Ended == {"P8", "DONE"}
Final == {"FAILED", "ROLLED_BACK", "CUTOVER"}

Lives(s) ==
  /\ s.step \in Ended => server = "live"
  /\ s.status = "ROLLED_BACK" /\ lane = "automated" =>
       IF s.server THEN server = "gone" /\ ~s.cost ELSE torn

AgentAt(r) ==
  /\ ~At(r, "idle") => Lives(job[r].s)
  /\ r \in Saved => Lives(store[r])
  /\ ~At(r, "idle") /\ r \in Saved =>
       /\ store[r].step \in Ended => job[r].s.step \in Ended
       /\ store[r].status \in Final =>
            job[r].s.status = store[r].status /\ job[r].pc \in {"step", "save"}

AgentInv == \A r \in Runs : AgentAt(r)

(* What sends a run that names no server into its rollback is a ledger it  *)
(* cannot read.                                                            *)
TornInv ==
  /\ torn => crashes > 0
  /\ \A r \in Runs : At(r, "undo") /\ job[r].s.step \in {"P1", "P2"} => torn

TornStep ==
  \/ torn' = torn /\ crashes' = crashes
  \/ (torn => torn') /\ crashes' = crashes + 1

(* The state s of run q, saved or in memory, when the server changes.      *)
LEMMA LivesKept ==
  ASSUME RunbookInv, AgentInv, ServerStep, lane' = lane, torn => torn', NEW q \in Runs, NEW s,
         (~At(q, "idle") /\ s = job[q].s) \/ (q \in Saved /\ s = store[q])
  PROVE  Lives(s)'
<1>1. Lives(s) /\ Sound(q, s)
  BY DEF RunbookInv, AgentInv, AgentAt, JobAt, StoreAt
<1>2. CASE server' = server
  BY <1>1, <1>2 DEF Lives
<1>3. CASE server' = "live" /\ (lane = "automated" => gw["P2"].state # "COMMITTED")
  BY <1>1, <1>3 DEF Lives, Sound, Owns
<1>4. CASE /\ lane = "automated" /\ server' = "gone"
           /\ \E r \in Runs : At(r, "undo") /\ job[r].s.server
  <2> PICK r \in Runs : At(r, "undo") /\ job[r].s.server
    BY <1>4
  <2>1. job[r].s.step \in Undone /\ Sound(r, job[r].s) /\ ~At(r, "idle")
    BY DEF RunbookInv, JobAt, At
  <2>2. Owns(r, "P2") /\ job[r].s.step \notin Ended
    BY <1>4, <2>1 DEF Sound, Undone, Served, Ended
  <2>3. s.step \notin Ended
    <3> SUFFICES ASSUME s.step \in Ended PROVE FALSE
      OBVIOUS
    <3>1. Owns(q, "P2")
      BY <1>1, <1>4 DEF Sound, Served, Ended
    <3>2. q = r
      BY <2>2, <3>1 DEF Owns
    <3> QED
      BY <2>1, <2>2, <3>2 DEF AgentInv, AgentAt
  <2> QED
    BY <1>1, <1>4, <2>3 DEF Lives
<1> QED
  BY <1>2, <1>3, <1>4 DEF ServerStep

(* What one step of a call does to the run it is for.                      *)
Step(r) ==
  /\ ~At(r, "idle") /\ ~At(r, "save")
  /\ job'[r].pc \notin {"idle", "step", "cleanDns", "clean"}
  /\ job'[r].pc = "wait" => Claimed(r)
  /\ job[r].s.step \in Served => job'[r].s.step \in Served
  /\ \A q \in Runs \ {r} : job'[q] = job[q]
  /\ job[r].s.step \in Ended => job'[r].s.step \in Ended
  /\ job'[r].s.step \in Ended => job[r].s.step \in Ended \/ server' = "live"
  /\ job'[r].s.status = "ROLLED_BACK" =>
       \/ job'[r].s = job[r].s
       \/ server' = "gone" /\ lane = "automated" /\ job'[r].s.server /\ ~job'[r].s.cost
       \/ At(r, "undo") /\ lane = "automated" /\ ~job[r].s.server /\ ~job'[r].s.server
  /\ job'[r].pc = "undo" /\ job'[r].s.step \in {"P1", "P2"} => torn
  /\ job[r].s.status \in Final =>
       job'[r].s.status = job[r].s.status /\ job'[r].pc \in {"step", "save"}
  /\ job'[r].s.dnsRec => job[r].s.dnsRec \/ job[r].s.step \in Served
  /\ job'[r].s.status = "AWAITING_HUMAN_PURCHASE" =>
       job[r].s.status = "AWAITING_HUMAN_PURCHASE" \/ job[r].s.step = "P2H"

LEMMA StepKeeps ==
  ASSUME RunbookInv, TornInv, AgentInv, ServerStep, lane' = lane, store' = store, torn => torn',
         NEW r \in Runs, Step(r)
  PROVE  AgentInv'
<1>1. ASSUME NEW q \in Saved PROVE q \in Runs /\ Lives(store[q])'
  <2> PICK u : u = store[q]
    OBVIOUS
  <2>1. q \in Runs /\ Lives(u)'
    BY LivesKept DEF Saved
  <2> QED
    BY <2>1 DEF Lives
<1>2. Saved' = Saved
  BY DEF Saved
<1>3. ASSUME NEW q \in Runs \ {r} PROVE AgentAt(q)'
  <2>1. job'[q] = job[q]
    BY DEF Step
  <2>2. ~At(q, "idle") => Lives(job[q].s)'
    <3> PICK u : u = job[q].s
      OBVIOUS
    <3>1. ~At(q, "idle") => Lives(u)'
      BY LivesKept
    <3> QED
      BY <2>1, <3>1 DEF Lives
  <2>3. AgentAt(q)
    BY DEF AgentInv
  <2> QED
    BY <1>1, <1>2, <2>1, <2>2, <2>3 DEF AgentAt, At, Lives
<1>4. AgentAt(r)'
  <2> PICK u : u = job[r].s
    OBVIOUS
  <2> PICK t : t = job'[r].s
    OBVIOUS
  <2>1. AgentAt(r) /\ Lives(u)'
    BY LivesKept DEF AgentInv, Step
  <2>2. /\ At(r, "undo") => Sound(r, u) /\ u.step \in Undone
        /\ At(r, "undo") /\ lane = "automated" /\ ~u.server => torn
    BY DEF RunbookInv, TornInv, JobAt, Sound, Undone, Served, At
  <2>3. Lives(t)'
    BY <2>1, <2>2 DEF Lives, Step
  <2> QED
    BY <1>1, <1>2, <2>1, <2>3 DEF AgentAt, Step, At, Lives
<1> QED
  BY <1>3, <1>4 DEF AgentInv

(* t comes after s without a change that touches the server's fate.        *)
Turn(s, t) ==
  /\ t.step \in Ended <=> s.step \in Ended
  /\ s.step \in Served => t.step \in Served
  /\ t.status # "ROLLED_BACK"
  /\ t.dnsRec => s.dnsRec \/ s.step \in Served
  /\ t.status = "AWAITING_HUMAN_PURCHASE" =>
       s.status = "AWAITING_HUMAN_PURCHASE" \/ s.step = "P2H"

LEMMA Turns ==
  ASSUME NEW s \in RunState, s.status # "ROLLED_BACK"
  PROVE  /\ Turn(s, s)
         /\ \A e : Turn(s, Fail(s, e)) /\ Turn(s, [s EXCEPT !.error = e])
         /\ Turn(s, Wait(s)) /\ \A e : Turn(s, [Wait(s) EXCEPT !.error = e])
         /\ \A e : /\ [s EXCEPT !.error = e].step = s.step
                   /\ [Wait(s) EXCEPT !.error = e].step = s.step
<1>1. \A e : /\ Fail(s, e).step = s.step /\ Fail(s, e).status = "FAILED"
             /\ Fail(s, e).dnsRec = s.dnsRec
  BY DEF Fail, RunState
<1>2. \A e : /\ [s EXCEPT !.error = e].step = s.step /\ [s EXCEPT !.error = e].status = s.status
             /\ [s EXCEPT !.error = e].dnsRec = s.dnsRec
  BY DEF RunState
<1>3. Wait(s).step = s.step /\ Wait(s).status = "WAITING" /\ Wait(s).dnsRec = s.dnsRec
  BY DEF Wait, RunState
<1>4. \A e : /\ [Wait(s) EXCEPT !.error = e].step = s.step
             /\ [Wait(s) EXCEPT !.error = e].status = "WAITING"
             /\ [Wait(s) EXCEPT !.error = e].dnsRec = s.dnsRec
  BY DEF Wait, RunState
<1> QED
  BY <1>1, <1>2, <1>3, <1>4 DEF Turn

LEMMA EnterTurn ==
  ASSUME NEW s \in RunState, s.status # "ROLLED_BACK", s.step \notin Ended,
         NEW step, step \notin Ended, step \in Served \/ s.step \notin Served
  PROVE  Turn(s, Enter(s, step))
<1>1. /\ Enter(s, step).step = step /\ Enter(s, step).status = s.status
      /\ Enter(s, step).dnsRec = s.dnsRec
  BY DEF Enter, RunState
<1> QED
  BY <1>1 DEF Turn

LEMMA TurnStep ==
  ASSUME RunbookInv, NEW r \in Runs, ~At(r, "idle"), ~At(r, "save"),
         job[r].s.status \notin Terminal, job'[r].pc \notin {"idle", "step", "cleanDns", "clean"},
         job'[r].pc = "wait" => Claimed(r),
         job'[r].pc = "undo" => job'[r].s.step \notin {"P1", "P2"} \/ torn,
         \A q \in Runs \ {r} : job'[q] = job[q], Turn(job[r].s, job'[r].s)
  PROVE  Step(r)
BY DEF Step, Turn, Terminal, Final

LEMMA ReturnTurn ==
  ASSUME RunbookInv, NEW r \in Runs, ~At(r, "idle"), ~At(r, "save"),
         job[r].s.status \notin Terminal, NEW t, Return(r, t), Turn(job[r].s, t)
  PROVE  Step(r)
<1>1. /\ job'[r].pc = "save" /\ job'[r].s = t
      /\ \A q \in Runs \ {r} : job'[q] = job[q]
  BY DEF RunbookInv, TypeOK, Return
<1> QED
  BY <1>1, TurnStep

LEMMA UndoTurn ==
  ASSUME RunbookInv, NEW r \in Runs, ~At(r, "idle"), ~At(r, "save"),
         job[r].s.status \notin Terminal, NEW u, NEW e, Undo(r, u, e),
         Turn(job[r].s, [u EXCEPT !.error = e]),
         [u EXCEPT !.error = e].step \notin {"P1", "P2"} \/ torn
  PROVE  Step(r)
<1>1. /\ job'[r].pc = "undo" /\ job'[r].s = [u EXCEPT !.error = e]
      /\ \A q \in Runs \ {r} : job'[q] = job[q]
  BY DEF RunbookInv, TypeOK, Undo
<1> QED
  BY <1>1, TurnStep

LEMMA GotoTurn ==
  ASSUME RunbookInv, NEW r \in Runs, ~At(r, "idle"), ~At(r, "save"),
         job[r].s.status \notin Terminal, NEW l, Goto(r, l),
         l \notin {"idle", "step", "cleanDns", "clean", "undo"}, l = "wait" => Claimed(r)
  PROVE  Step(r)
<1>1. /\ job'[r].pc = l /\ job'[r].s = job[r].s
      /\ \A q \in Runs \ {r} : job'[q] = job[q]
  BY DEF RunbookInv, TypeOK, Goto
<1>2. Turn(job[r].s, job'[r].s)
  BY <1>1, Turns DEF RunbookInv, TypeOK, Terminal
<1> QED
  BY <1>1, <1>2, TurnStep

LEMMA CaughtTurn ==
  ASSUME RunbookInv, NEW r \in Runs, ~At(r, "idle"), ~At(r, "save"),
         job[r].s.status \notin Terminal, job[r].s.step \notin {"P1", "P2"},
         NEW a, Caught(r, job[r].s, a)
  PROVE  Step(r)
<1> PICK s \in RunState : s = job[r].s
  BY DEF RunbookInv, TypeOK
<1>1. Return(r, Wait(s)) \/ Undo(r, s, a)
  BY DEF Caught
<1>2. s.status # "ROLLED_BACK"
  BY DEF Terminal
<1> QED
  BY <1>1, <1>2, Turns, ReturnTurn, UndoTurn

(* What the Pilot does with an answer of the gateway.                      *)
LEMMA HearStep ==
  ASSUME RunbookInv, NEW r \in Runs, job[r].pc \in {"call", "wait"}, NEW a, Hear(r, a)
  PROVE  Step(r)
<1> PICK s \in RunState : s = job[r].s
  BY DEF RunbookInv, TypeOK
<1>1. /\ ~At(r, "idle") /\ ~At(r, "save") /\ s.status \notin Terminal
      /\ s.status # "ROLLED_BACK" /\ s.step = StepOf(job[r].key)
  BY DEF RunbookInv, JobAt, At, Terminal
<1>2. CASE job[r].key = "P2" /\ HearPurchase(r, a)
  BY <1>1, <1>2, GotoTurn, ReturnTurn, Turns DEF HearPurchase
<1>3. CASE job[r].key \in {"P4P", "P4A", "P6"} /\ HearSetup(r, a)
  <2>1. s.step \notin Ended /\ s.step \notin {"P1", "P2"}
    BY <1>1, <1>3 DEF StepOf, Ended
  <2>2. CASE job' = [job EXCEPT ![r].pc = "call", ![r].key = "P4A"]
    <3>1. TypeOK /\ "P4A" \in Keys
      BY DEF RunbookInv, Keys
    <3>2. job'[r].pc = "call" /\ job'[r].s = s /\ \A q \in Runs \ {r} : job'[q] = job[q]
      BY <2>2, <3>1, CallJob
    <3> QED
      BY <1>1, <3>2, TurnStep, Turns
  <2>3. CASE Return(r, Enter(s, "P5")) \/ Return(r, Enter(s, "P7"))
    BY <1>1, <2>1, <2>3, EnterTurn, ReturnTurn DEF Ended, Served
  <2>4. CASE Caught(r, s, a)
    BY <1>1, <2>1, <2>4, CaughtTurn
  <2> QED
    BY <1>3, <2>2, <2>3, <2>4 DEF HearSetup
<1>4. CASE job[r].key = "P8" /\ HearCutover(r, a)
  <2>1. s.step \in Ended
    BY <1>1, <1>4 DEF StepOf, Ended
  <2> PICK t : t = [s EXCEPT !.step = "DONE", !.status = "CUTOVER", !.dnsRec = TRUE]
    OBVIOUS
  <2>2. t.step = "DONE" /\ t.status = "CUTOVER"
    BY DEF RunState
  <2>3. Turn(s, t)
    BY <2>1, <2>2 DEF Turn, Ended, Served
  <2> QED
    BY <1>1, <1>4, <2>3, ReturnTurn, Turns DEF HearCutover
<1> QED
  BY <1>2, <1>3, <1>4 DEF Hear

-----------------------------------------------------------------------------
(* The steps of advance().                                                 *)

LEMMA EarlyStep ==
  ASSUME RunbookInv, NEW r \in Runs,
         Verified(r) \/ Preflight(r) \/ NoteHandoff(r) \/ PriceSubmit(r) \/ PricePoll(r)
  PROVE  Step(r)
<1> PICK s \in RunState : s = job[r].s
  BY DEF RunbookInv, TypeOK
<1>1. /\ ~At(r, "idle") /\ ~At(r, "save") /\ s.status \notin Terminal
      /\ s.status # "ROLLED_BACK" /\ s.step \in {"P0", "P1", "P1B", "P1C"}
  BY DEF Verified, Preflight, NoteHandoff, PriceSubmit, PricePoll, On, Stays, RunbookInv, JobAt,
         At, Terminal
<1>2. \A l \in {"P1", "P1B", "P2H"} : Turn(s, [s EXCEPT !.step = l])
  BY <1>1 DEF Turn, Ended, Served, RunState
<1>3. \A t \in Priced(s) \cup {Enter(s, "P1C")} : Turn(s, t)
  <2>1. Turn(s, Enter(s, "P1C"))
    BY <1>1, EnterTurn DEF Ended, Served
  <2>2. ASSUME NEW o \in BOOLEAN
        PROVE  Turn(s, [Enter(s, "P2") EXCEPT !.status = "RUNNING", !.over = o])
    <3> PICK t : t = [Enter(s, "P2") EXCEPT !.status = "RUNNING", !.over = o]
      OBVIOUS
    <3>1. t.step = "P2" /\ t.status = "RUNNING" /\ t.dnsRec = s.dnsRec
      BY DEF Enter, RunState
    <3> QED
      BY <1>1, <3>1 DEF Turn, Ended, Served
  <2> QED
    BY <2>1, <2>2 DEF Priced
<1>4. CASE Verified(r)
  BY <1>1, <1>2, <1>4, ReturnTurn DEF Verified
<1>5. CASE Preflight(r)
  BY <1>1, <1>2, <1>5, ReturnTurn, GotoTurn, UndoTurn, Turns DEF Preflight, Unreadable
<1>6. CASE NoteHandoff(r)
  BY <1>1, <1>2, <1>6, ReturnTurn DEF NoteHandoff
<1>7. CASE PriceSubmit(r)
  BY <1>1, <1>3, <1>7, ReturnTurn DEF PriceSubmit
<1>8. CASE PricePoll(r)
  BY <1>1, <1>3, <1>8, ReturnTurn, Turns DEF PricePoll
<1> QED
  BY <1>4, <1>5, <1>6, <1>7, <1>8

LEMMA PurchaseStep ==
  ASSUME RunbookInv, NEW r \in Runs,
         \/ ReadRegistration(r) \/ UseRegistration(r)
         \/ Provision(r) \/ Intend(r) \/ Bought(r) \/ NotBought(r)
  PROVE  Step(r)
<1> PICK s \in RunState : s = job[r].s
  BY DEF RunbookInv, TypeOK
<1>1. /\ ~At(r, "idle") /\ ~At(r, "save") /\ s.status \notin Terminal
      /\ s.status # "ROLLED_BACK" /\ s.step \in {"P2", "P2H"}
  BY DEF ReadRegistration, UseRegistration, Provision, Intend, Bought, NotBought, On, Stays,
         RunbookInv, JobAt, At, Terminal
<1>2. s.step = "P2H" => Turn(s, [s EXCEPT !.status = "AWAITING_HUMAN_PURCHASE"])
  BY DEF Turn, RunState
<1>3. Turn(s, [Enter(s, "P3") EXCEPT !.status = "RUNNING", !.server = TRUE])
  <2> PICK t : t = [Enter(s, "P3") EXCEPT !.status = "RUNNING", !.server = TRUE]
    OBVIOUS
  <2>1. t.step = "P3" /\ t.status = "RUNNING" /\ t.dnsRec = s.dnsRec
    BY DEF Enter, RunState
  <2> QED
    BY <1>1, <2>1 DEF Turn, Ended, Served
<1>4. Turn(s, [s EXCEPT !.step = "P3", !.server = TRUE, !.cost = TRUE])
  <2> PICK t : t = [s EXCEPT !.step = "P3", !.server = TRUE, !.cost = TRUE]
    OBVIOUS
  <2>1. t.step = "P3" /\ t.status = s.status /\ t.dnsRec = s.dnsRec
    BY DEF RunState
  <2> QED
    BY <1>1, <2>1 DEF Turn, Ended, Served
<1>5. CASE ReadRegistration(r)
  <2> s.step = "P2H"
    BY <1>5 DEF ReadRegistration, On
  <2>1. CASE job' = [job EXCEPT ![r].pc = "status", ![r].seen = gw["P2"].state = "COMMITTED"]
    <3>1. /\ job'[r].pc = "status" /\ job'[r].s = s
          /\ \A q \in Runs \ {r} : job'[q] = job[q]
      BY <2>1, SeenJob DEF RunbookInv
    <3> QED
      BY <1>1, <3>1, TurnStep, Turns
  <2>2. \/ Undo(r, s, "CLOSED")
        \/ Return(r, [s EXCEPT !.status = "AWAITING_HUMAN_PURCHASE"])
        \/ job' = [job EXCEPT ![r].pc = "status", ![r].seen = gw["P2"].state = "COMMITTED"]
    BY <1>5 DEF ReadRegistration
  <2> QED
    BY <1>1, <1>2, <2>1, <2>2, UndoTurn, ReturnTurn, Turns
<1>6. CASE UseRegistration(r)
  <2>1. s.step = "P2H"
    BY <1>6 DEF UseRegistration, RunbookInv, JobAt
  <2> QED
    BY <1>1, <1>2, <1>3, <1>6, <2>1, ReturnTurn, Turns DEF UseRegistration
<1>7. CASE Provision(r)
  BY <1>1, <1>7, ReturnTurn, GotoTurn, UndoTurn, Turns DEF Provision, Unreadable
<1>8. CASE Intend(r)
  <2>1. TypeOK /\ "P2" \in Keys /\ job' = [job EXCEPT ![r].pc = "call", ![r].key = "P2"]
    BY <1>8 DEF RunbookInv, Keys, Intend
  <2>2. job'[r].pc = "call" /\ job'[r].s = s /\ \A q \in Runs \ {r} : job'[q] = job[q]
    BY <2>1, CallJob
  <2> QED
    BY <1>1, <2>2, TurnStep, Turns
<1>9. CASE Bought(r)
  BY <1>1, <1>4, <1>9, ReturnTurn DEF Bought
<1>10. CASE NotBought(r)
  BY <1>1, <1>10, ReturnTurn, Turns DEF NotBought
<1> QED
  BY <1>5, <1>6, <1>7, <1>8, <1>9, <1>10

LEMMA SetupStep ==
  ASSUME RunbookInv, NEW r \in Runs, Boot(r) \/ Project(r) \/ Envs(r) \/ Deploy(r)
  PROVE  Step(r)
<1> PICK s \in RunState : s = job[r].s
  BY DEF RunbookInv, TypeOK
<1>1. /\ ~At(r, "idle") /\ ~At(r, "save") /\ s.status \notin Terminal
      /\ s.status # "ROLLED_BACK" /\ s.step \notin Ended /\ s.step \notin {"P1", "P2"}
  BY DEF Boot, Project, Envs, Deploy, On, Stays, At, Terminal, Ended
<1>2. \A l \in {"P4", "P6"} : Turn(s, Enter(s, l))
  BY <1>1, EnterTurn DEF Ended, Served
<1>3. CASE Boot(r)
  <2>1. CASE Return(r, Enter(s, "P4")) \/ Return(r, Wait(s))
    BY <1>1, <1>2, <2>1, ReturnTurn, Turns
  <2>2. CASE Undo(r, Wait(s), "BOOT") \/ Undo(r, s, "CLOSED")
    BY <1>1, <2>2, UndoTurn, Turns
  <2> QED
    BY <1>3, <2>1, <2>2 DEF Boot
<1>4. CASE Project(r)
  <2>1. job' = [job EXCEPT ![r].pc = "call", ![r].key = "P4P", ![r].s.status = "RUNNING"]
    BY <1>4 DEF Project
  <2>2. /\ job'[r].pc = "call" /\ job'[r].s = [s EXCEPT !.status = "RUNNING"]
        /\ \A q \in Runs \ {r} : job'[q] = job[q]
    BY <2>1 DEF RunbookInv, TypeOK
  <2>3. Turn(s, [s EXCEPT !.status = "RUNNING"])
    BY DEF Turn, RunState
  <2> QED
    BY <1>1, <2>2, <2>3, TurnStep
<1>5. CASE Envs(r)
  <2>1. Return(r, Enter(s, "P6")) \/ \E a : Caught(r, s, a)
    BY <1>5 DEF Envs
  <2> QED
    BY <1>1, <1>2, <2>1, ReturnTurn, CaughtTurn
<1>6. CASE Deploy(r)
  <2>1. TypeOK /\ "P6" \in Keys /\ job' = [job EXCEPT ![r].pc = "call", ![r].key = "P6"]
    BY <1>6 DEF RunbookInv, Keys, Deploy
  <2>2. job'[r].pc = "call" /\ job'[r].s = s /\ \A q \in Runs \ {r} : job'[q] = job[q]
    BY <2>1, CallJob
  <2> QED
    BY <1>1, <2>2, TurnStep, Turns
<1> QED
  BY <1>3, <1>4, <1>5, <1>6

LEMMA EndStep ==
  ASSUME RunbookInv, NEW r \in Runs, Nothing(r) \/ Expires(r) \/ Verify(r) \/ Cutover(r)
  PROVE  Step(r)
<1> PICK s \in RunState : s = job[r].s
  BY DEF RunbookInv, TypeOK
<1>1. CASE Nothing(r)
  <2>1. job'[r].pc = "save" /\ job'[r].s = s /\ \A q \in Runs \ {r} : job'[q] = job[q]
    BY <1>1 DEF Nothing, Return, RunbookInv, TypeOK
  <2> QED
    BY <1>1, <2>1 DEF Step, Nothing, At
<1>2. ASSUME ~Nothing(r)
      PROVE  ~At(r, "idle") /\ ~At(r, "save") /\ s.status \notin Terminal /\ s.status # "ROLLED_BACK"
  BY <1>2 DEF Expires, Verify, Cutover, On, Stays, At, Terminal
<1>3. CASE ~Nothing(r) /\ Expires(r)
  BY <1>2, <1>3, ReturnTurn, Turns DEF Expires
<1>4. CASE ~Nothing(r) /\ Verify(r)
  <2>1. CASE server = "live" /\ Return(r, [s EXCEPT !.status = "DEPLOYED", !.step = "DONE", !.polls = @ + 1])
    <3> PICK t : t = [s EXCEPT !.status = "DEPLOYED", !.step = "DONE", !.polls = @ + 1]
      OBVIOUS
    <3>1. t.status = "DEPLOYED" /\ t.step = "DONE" /\ t.dnsRec = s.dnsRec
      BY DEF RunState
    <3>2. job'[r].pc = "save" /\ job'[r].s = t /\ \A q \in Runs \ {r} : job'[q] = job[q]
      BY <2>1 DEF Return, RunbookInv, TypeOK
    <3>3. server' = "live"
      BY <1>4, <2>1 DEF Verify, world
    <3> QED
      BY <1>2, <1>4, <3>1, <3>2, <3>3 DEF Step, Ended, Served, Final, Terminal
  <2>2. CASE Return(r, Wait(s))
    BY <1>2, <1>4, <2>2, ReturnTurn, Turns
  <2>3. CASE \E e : Undo(r, s, e) \/ Undo(r, Wait(s), e)
    <3>1. s.step = "P7"
      BY <1>4 DEF Verify, On
    <3> QED
      BY <1>2, <1>4, <2>3, <3>1, UndoTurn, Turns
  <2> QED
    BY <1>4, <2>1, <2>2, <2>3 DEF Verify
<1>5. CASE ~Nothing(r) /\ Cutover(r)
  <2>1. Turn(s, [s EXCEPT !.status = "NEEDS_APPROVAL", !.error = "NO_AUDITOR_TOKEN"])
    <3> PICK t : t = [s EXCEPT !.status = "NEEDS_APPROVAL", !.error = "NO_AUDITOR_TOKEN"]
      OBVIOUS
    <3>1. t.step = s.step /\ t.status = "NEEDS_APPROVAL" /\ t.dnsRec = s.dnsRec
      BY DEF RunState
    <3> QED
      BY <3>1 DEF Turn
  <2>2. CASE job' = [job EXCEPT ![r].pc = "call", ![r].key = "P8"]
    <3>1. TypeOK /\ "P8" \in Keys
      BY DEF RunbookInv, Keys
    <3>2. job'[r].pc = "call" /\ job'[r].s = s /\ \A q \in Runs \ {r} : job'[q] = job[q]
      BY <2>2, <3>1, CallJob
    <3> QED
      BY <1>2, <1>5, <3>2, TurnStep, Turns
  <2>3. \/ Return(r, [s EXCEPT !.status = "NEEDS_APPROVAL", !.error = "NO_AUDITOR_TOKEN"])
        \/ Return(r, Fail(s, "NO_AUDITOR_TOKEN"))
        \/ job' = [job EXCEPT ![r].pc = "call", ![r].key = "P8"]
    BY <1>5 DEF Cutover
  <2> QED
    BY <1>2, <1>5, <2>1, <2>2, <2>3, ReturnTurn, Turns
<1> QED
  BY <1>1, <1>3, <1>4, <1>5

(* rollback() is the one that reports ROLLED_BACK.                         *)
LEMMA RollbackStep ==
  ASSUME RunbookInv, NEW r \in Runs, UndoHandoff(r) \/ UndoServer(r)
  PROVE  Step(r)
<1> PICK s \in RunState : s = job[r].s
  BY DEF RunbookInv, TypeOK
<1>1. /\ ~At(r, "idle") /\ ~At(r, "save") /\ s.status \notin Terminal /\ s.status # "ROLLED_BACK"
      /\ s.step \in Undone /\ Sound(r, s)
  BY DEF UndoHandoff, UndoServer, RunbookInv, JobAt, At, Terminal
<1>2. CASE UndoHandoff(r)
  <2> PICK t : t = [s EXCEPT !.status = "FAILED", !.cost = FALSE]
    OBVIOUS
  <2>1. t.step = s.step /\ t.status = "FAILED" /\ t.dnsRec = s.dnsRec
    BY DEF RunState
  <2>2. Turn(s, t) /\ Return(r, t)
    BY <1>2, <2>1 DEF Turn, UndoHandoff
  <2> QED
    BY <1>1, <2>2, ReturnTurn
<1>3. CASE UndoServer(r)
  <2>1. CASE /\ server' = "gone" /\ s.server
             /\ Return(r, [s EXCEPT !.status = "ROLLED_BACK", !.cost = FALSE])
    <3> PICK t : t = [s EXCEPT !.status = "ROLLED_BACK", !.cost = FALSE]
      OBVIOUS
    <3>1. /\ t.step = s.step /\ t.server = s.server /\ ~t.cost
          /\ t.status = "ROLLED_BACK" /\ t.dnsRec = s.dnsRec
      BY DEF RunState
    <3>2. job'[r].pc = "save" /\ job'[r].s = t /\ \A q \in Runs \ {r} : job'[q] = job[q]
      BY <2>1 DEF Return, RunbookInv, TypeOK
    <3>3. lane = "automated"
      BY <1>3 DEF UndoServer
    <3>4. t.server
      BY <2>1, <3>1
    <3>5. s.status \notin Final
      BY <1>1 DEF Final, Terminal
    <3> QED
      BY <1>1, <2>1, <3>1, <3>2, <3>3, <3>4, <3>5 DEF Step
  <2>2. CASE Return(r, Fail(s, "CLEANUP"))
    BY <1>1, <2>2, ReturnTurn, Turns
  <2>3. CASE ~s.server /\ Return(r, [s EXCEPT !.status = "ROLLED_BACK"])
    <3> PICK t : t = [s EXCEPT !.status = "ROLLED_BACK"]
      OBVIOUS
    <3>1. /\ t.step = s.step /\ t.server = s.server
          /\ t.status = "ROLLED_BACK" /\ t.dnsRec = s.dnsRec
      BY DEF RunState
    <3>2. job'[r].pc = "save" /\ job'[r].s = t /\ \A q \in Runs \ {r} : job'[q] = job[q]
      BY <2>3 DEF Return, RunbookInv, TypeOK
    <3>3. lane = "automated" /\ At(r, "undo")
      BY <1>3 DEF UndoServer
    <3>4. s.status \notin Final
      BY <1>1 DEF Final, Terminal
    <3> QED
      BY <1>1, <2>3, <3>1, <3>2, <3>3, <3>4 DEF Step
  <2> QED
    BY <1>3, <2>1, <2>2, <2>3 DEF UndoServer
<1> QED
  BY <1>2, <1>3

LEMMA AdvanceStep ==
  ASSUME RunbookInv, NEW r \in Runs, Advance(r)
  PROVE  Step(r)
BY EarlyStep, PurchaseStep, SetupStep, EndStep, RollbackStep DEF Advance

-----------------------------------------------------------------------------
(* Every step keeps what is said of the runs and their server.             *)

LEMMA StillKeeps ==
  ASSUME RunbookInv, AgentInv, ServerStep, lane' = lane, torn => torn', store' = store, job' = job
  PROVE  AgentInv'
<1> SUFFICES ASSUME NEW q \in Runs PROVE AgentAt(q)'
  BY DEF AgentInv
<1> PICK u : u = job[q].s
  OBVIOUS
<1> PICK v : v = store[q]
  OBVIOUS
<1>1. ~At(q, "idle") => Lives(u)'
  BY LivesKept
<1>2. q \in Saved => Lives(v)'
  BY LivesKept
<1>3. AgentAt(q)
  BY DEF AgentInv
<1> QED
  BY <1>1, <1>2, <1>3 DEF AgentAt, At, Saved, Lives

(* The job of run r is replaced; what is saved stays.                      *)
LEMMA ReplacedKeeps ==
  ASSUME RunbookInv, AgentInv, ServerStep, lane' = lane, torn => torn',
         store' = store,
         \A q \in Runs : job'[q] = job[q] \/ job'[q].pc = "idle" \/ AgentAt(q)'
  PROVE  AgentInv'
<1> SUFFICES ASSUME NEW q \in Runs PROVE AgentAt(q)'
  BY DEF AgentInv
<1> PICK u : u = job[q].s
  OBVIOUS
<1> PICK v : v = store[q]
  OBVIOUS
<1>1. ~At(q, "idle") => Lives(u)'
  BY LivesKept
<1>2. q \in Saved => Lives(v)'
  BY LivesKept
<1>3. AgentAt(q)
  BY DEF AgentInv
<1> QED
  BY <1>1, <1>2, <1>3 DEF AgentAt, At, Saved, Lives

LEMMA CallKeeps ==
  ASSUME RunbookInv, AgentInv, NEW r \in Runs, Start(r) \/ Poll(r) \/ RunCutover(r)
  PROVE  AgentInv'
<1>1. AgentAt(r)
  BY DEF AgentInv
<1> PICK s \in RunState :
      /\ Load(r, s)
      /\ \/ store[r] = NoRun /\ s = newRun
         \/ r \in Saved /\ s = store[r]
         \/ /\ r \in Saved /\ store[r].status # "DEPLOYED"
            /\ s = [store[r] EXCEPT !.tok = TRUE]
         \/ /\ r \in Saved /\ store[r].status = "DEPLOYED"
            /\ s = [[store[r] EXCEPT !.tok = TRUE] EXCEPT !.step = "P8", !.status = "RUNNING"]
  BY CallState
<1>2. /\ job'[r].pc = "step" /\ job'[r].s = s /\ \A q \in Runs \ {r} : job'[q] = job[q]
      /\ store' = store /\ server' = server /\ lane' = lane /\ torn' = torn
  BY DEF Load, Idle, RunbookInv, TypeOK, world, mandate, faults
<1>3. r \in Saved => store[r] \in RunState
  BY DEF RunbookInv, TypeOK, Saved
<1>4. /\ Lives(s)
      /\ r \in Saved => /\ store[r].step \in Ended => s.step \in Ended
                        /\ store[r].status \in Final => s.status = store[r].status
  <2>1. CASE store[r] = NoRun /\ s = newRun
    BY <2>1 DEF newRun, Lives, Ended, Saved
  <2>2. CASE r \in Saved /\ s = store[r]
    BY <1>1, <2>2 DEF AgentAt
  <2>3. CASE r \in Saved /\ s = [store[r] EXCEPT !.tok = TRUE]
    <3> PICK u \in RunState : u = store[r]
      BY <1>3, <2>3
    <3>1. s.step = u.step /\ s.status = u.status /\ s.server = u.server /\ s.cost = u.cost
      BY <2>3 DEF RunState
    <3>2. Lives(u)
      BY <1>1, <2>3 DEF AgentAt
    <3> QED
      BY <3>1, <3>2 DEF Lives
  <2>4. CASE /\ r \in Saved /\ store[r].status = "DEPLOYED"
             /\ s = [[store[r] EXCEPT !.tok = TRUE] EXCEPT !.step = "P8", !.status = "RUNNING"]
    <3> PICK u \in RunState : u = store[r]
      BY <1>3, <2>4
    <3> PICK v : v = [u EXCEPT !.tok = TRUE]
      OBVIOUS
    <3>1. s = [v EXCEPT !.step = "P8", !.status = "RUNNING"] /\ v \in RunState
      BY <2>4 DEF RunState
    <3>2. s.step = "P8" /\ s.status = "RUNNING"
      BY <3>1 DEF RunState
    <3>3. Sound(r, u) /\ Lives(u) /\ u.status = "DEPLOYED"
      BY <1>1, <2>4 DEF AgentAt, RunbookInv, StoreAt
    <3>4. u.step \in Ended /\ server = "live"
      BY <3>3 DEF Sound, Lives, Ended
    <3> QED
      BY <3>2, <3>3, <3>4 DEF Lives, Ended, Final
  <2> QED
    BY <2>1, <2>2, <2>3, <2>4
<1>5. AgentAt(r)'
  BY <1>1, <1>2, <1>4 DEF AgentAt, At, Lives, Saved
<1>6. ServerStep
  BY <1>2 DEF ServerStep
<1> QED
  BY <1>2, <1>5, <1>6, ReplacedKeeps

LEMMA SavedKeeps ==
  ASSUME RunbookInv, AgentInv, NEW r \in Runs, Save(r, "idle")
  PROVE  AgentInv'
<1> PICK s \in RunState : s = job[r].s
  BY DEF RunbookInv, TypeOK
<1>1. /\ store'[r] = s /\ \A q \in Runs \ {r} : store'[q] = store[q]
      /\ job'[r].pc = "idle" /\ \A q \in Runs \ {r} : job'[q] = job[q]
      /\ server' = server /\ lane' = lane /\ torn' = torn /\ At(r, "save")
  BY DEF Save, Goto, RunbookInv, TypeOK, world, mandate, faults
<1>2. Lives(s)
  BY <1>1 DEF AgentInv, AgentAt, At
<1>3. AgentAt(r)'
  BY <1>1, <1>2 DEF AgentAt, At, Lives
<1>4. ASSUME NEW q \in Runs \ {r} PROVE AgentAt(q)'
  BY <1>1 DEF AgentInv, AgentAt, At, Lives, Saved
<1> QED
  BY <1>3, <1>4 DEF AgentInv

LEMMA ServeStep ==
  ASSUME RunbookInv, NEW r \in Runs, Serve(r)
  PROVE  Step(r)
<1>1. CASE Claimed(r)
  <2>1. /\ At(r, "call") /\ job[r].s.status \notin Terminal /\ Goto(r, "wait")
    BY <1>1 DEF Claimed, RunbookInv, JobAt, At
  <2> QED
    BY <1>1, <2>1, GotoTurn DEF At
<1>2. CASE Serve(r) /\ ~Claimed(r)
  <2>1. job[r].pc \in {"call", "wait"} /\ \E a : Hear(r, a)
    BY <1>2 DEF Serve, NeverArrives, TurnedAway, Recorded, Unresolved, TimeOut, Reply, At
  <2> QED
    BY <2>1, HearStep
<1> QED
  BY <1>1, <1>2

LEMMA ActStep ==
  ASSUME RunbookInv, NEW k \in Keys, Act(k)
  PROVE  store' = store /\ (job' = job \/ \E r \in Runs : Step(r))
<1>1. k \in acting /\ store' = store
  BY DEF Act
<1> PICK r \in Runs : r = gw[k].run
  BY <1>1 DEF RunbookInv, GatewayAt
<1>2. job' = job \/ (At(r, "wait") /\ \E a : Hear(r, a))
  BY DEF Act, Reply
<1> QED
  BY <1>1, <1>2, HearStep DEF At

(* Jobs that stay, leave their rollback alone, or take a step of a call.   *)
LEMMA TornMove ==
  ASSUME RunbookInv, TornInv, TornStep,
         \A q \in Runs : job'[q] = job[q] \/ job'[q].pc # "undo" \/ Step(q)
  PROVE  TornInv'
<1>1. crashes \in Nat
  BY DEF RunbookInv, TypeOK
<1> QED
  BY <1>1 DEF TornInv, TornStep, Step, At

LEMMA TornSteps ==
  ASSUME RunbookInv, [SharedNext]_vars
  PROVE  TornStep
<1>1. ASSUME NEW r \in Runs, Advance(r) PROVE TornStep
  BY <1>1, AdvanceOwn DEF TornStep
<1>2. ASSUME NEW r \in Runs, Serve(r) PROVE TornStep
  BY <1>2 DEF TornStep, Serve, NeverArrives, TurnedAway, Claimed, Recorded, Unresolved, TimeOut, faults
<1>3. ASSUME NEW k, Act(k) PROVE TornStep
  BY <1>3 DEF Act, TornStep
<1>4. ASSUME (\E r \in Runs : Register(r)) \/ Expire \/ Close \/ GatewayDies \/ UNCHANGED vars
      PROVE  TornStep
  BY <1>4 DEF Register, Expire, Close, GatewayDies, vars, faults, TornStep
<1>5. CASE PilotDies
  BY <1>5 DEF PilotDies, TornStep
<1> QED
  BY <1>1, <1>2, <1>3, <1>4, <1>5 DEF SharedNext, Environment

LEMMA TornShared ==
  ASSUME RunbookInv, TornInv, [SharedNext]_vars
  PROVE  TornInv'
<1>1. TornStep
  BY TornSteps
<1>2. ASSUME NEW r \in Runs, Step(r) PROVE TornInv'
  BY <1>1, <1>2, TornMove DEF Step
<1>3. ASSUME NEW r \in Runs, Advance(r) \/ Serve(r) PROVE TornInv'
  BY <1>2, <1>3, AdvanceStep, ServeStep
<1>4. ASSUME NEW k \in Keys, Act(k) PROVE TornInv'
  BY <1>1, <1>2, <1>4, ActStep, TornMove
<1>5. CASE (\E r \in Runs : Register(r)) \/ Expire \/ Close \/ GatewayDies \/ UNCHANGED vars
  <2>1. job' = job
    BY <1>5 DEF Register, Expire, Close, GatewayDies, vars
  <2> QED
    BY <1>1, <2>1, TornMove
<1>6. CASE PilotDies
  <2>1. \A q \in Runs : job'[q].pc = "idle"
    BY <1>6 DEF PilotDies, Idle
  <2> QED
    BY <1>1, <2>1, TornMove
<1> QED
  BY <1>3, <1>4, <1>5, <1>6 DEF SharedNext, Environment

LEMMA TornKept ==
  ASSUME RunbookInv, TornInv, [Next]_vars
  PROVE  TornInv' /\ TornStep
<1>1. ASSUME NEW r \in Runs, NEW s, Load(r, s) PROVE TornInv' /\ TornStep
  <2>1. /\ job'[r].pc = "step" /\ \A q \in Runs \ {r} : job'[q] = job[q]
        /\ TornStep
    BY <1>1 DEF Load, Idle, RunbookInv, TypeOK, faults, TornStep
  <2> QED
    BY <2>1, TornMove
<1>2. ASSUME NEW r \in Runs, Start(r) \/ Poll(r) \/ RunCutover(r)
      PROVE  TornInv' /\ TornStep
  <2>1. \E s : Load(r, s)
    BY <1>2 DEF Start, Poll, RunCutover
  <2> QED
    BY <1>1, <2>1
<1>3. ASSUME NEW r \in Runs, Save(r, "idle") PROVE TornInv' /\ TornStep
  <2>1. /\ job'[r].pc = "idle" /\ \A q \in Runs \ {r} : job'[q] = job[q]
        /\ TornStep
    BY <1>3 DEF Save, Goto, RunbookInv, TypeOK, faults, TornStep
  <2> QED
    BY <2>1, TornMove
<1>4. Judged \subseteq Runs
  BY JudgedAssumption
<1> QED
  BY <1>2, <1>3, <1>4, TornSteps, TornShared DEF Next, SharedNext

LEMMA AgentInvKept ==
  ASSUME RunbookInv, TornInv, AgentInv, [Next]_vars
  PROVE  AgentInv'
<1>1. ServerStep /\ lane' = lane /\ (torn => torn')
  BY ServerSteps, TornKept DEF TornStep
<1>2. ASSUME NEW r \in Runs, Advance(r) \/ Serve(r) PROVE AgentInv'
  <2>1. Step(r)
    BY <1>2, AdvanceStep, ServeStep
  <2>2. store' = store
    <3>1. CASE Advance(r)
      BY <3>1, AdvanceOwn
    <3>2. CASE Serve(r)
      BY <3>2 DEF Serve, NeverArrives, TurnedAway, Claimed, Recorded, Unresolved, TimeOut
    <3> QED
      BY <1>2, <3>1, <3>2
  <2> QED
    BY <1>1, <2>1, <2>2, StepKeeps
<1>3. ASSUME NEW k \in Keys, Act(k) PROVE AgentInv'
  BY <1>1, <1>3, ActStep, StepKeeps, StillKeeps
<1>4. CASE (\E r \in Runs : Register(r)) \/ Expire \/ Close \/ GatewayDies \/ UNCHANGED vars
  <2>1. store' = store /\ job' = job
    BY <1>4 DEF Register, Expire, Close, GatewayDies, vars
  <2> QED
    BY <1>1, <2>1, StillKeeps
<1>5. CASE PilotDies
  <2>1. store' = store /\ \A q \in Runs : job'[q].pc = "idle"
    BY <1>5 DEF PilotDies, Idle
  <2> QED
    BY <1>1, <2>1, ReplacedKeeps
<1>6. Judged \subseteq Runs
  BY JudgedAssumption
<1> QED
  BY <1>2, <1>3, <1>4, <1>5, <1>6, CallKeeps, SavedKeeps DEF Next, Environment

LEMMA AgentInvariant == Spec => [](RunbookInv /\ TornInv /\ AgentInv)
<1>1. Init => TornInv /\ AgentInv
  BY DEF Init, TornInv, AgentInv, AgentAt, At, Idle, Saved
<1> QED
  BY <1>1, RunbookInit, AgentKeeps, TornKept, AgentInvKept, PTL DEF Spec

(* A run saved as DEPLOYED or CUTOVER has its server live and its own      *)
(* deployment committed: no rollback of any run takes either away later.   *)
THEOREM DeployedIsRunningHolds == Spec => []DeployedIsRunning
<1>1. RunbookInv /\ AgentInv => DeployedIsRunning
  <2> SUFFICES ASSUME RunbookInv, AgentInv, NEW r \in Saved,
                      store[r].status \in {"DEPLOYED", "CUTOVER"}
               PROVE  server = "live" /\ Owns(r, "P6")
    BY DEF DeployedIsRunning, Owns
  <2>1. r \in Runs /\ Sound(r, store[r]) /\ Lives(store[r])
    BY DEF RunbookInv, StoreAt, AgentInv, AgentAt, Saved
  <2> QED
    BY <2>1 DEF Sound, Lives, Ended
<1> QED
  BY <1>1, AgentInvariant, PTL

(* The server a run saved as ROLLED_BACK names is gone and costs nothing;  *)
(* where it names none, a death has torn the Pilot's ledger.               *)
THEOREM RolledBackIsGoneHolds == Spec => []RolledBackIsGone
<1>1. AgentInv => RolledBackIsGone
  BY DEF RolledBackIsGone, AgentInv, AgentAt, Lives, Saved
<1> QED
  BY <1>1, AgentInvariant, PTL

(* No start, poll or cutover changes the status of a run that has FAILED,  *)
(* was ROLLED_BACK or is at CUTOVER: advance() returns it as it is.        *)
THEOREM EndIsFinalHolds == Spec => EndIsFinal
<1> DEFINE Stay == \A r \in Saved : store[r].status \in {"FAILED", "ROLLED_BACK", "CUTOVER"} =>
                     store'[r].status = store[r].status
<1>1. RunbookInv /\ AgentInv /\ [Next]_vars => [Stay]_vars
  <2> SUFFICES ASSUME RunbookInv, AgentInv, [Next]_vars PROVE Stay
    OBVIOUS
  <2>1. store' = store \/ \E r \in Runs : Save(r, "idle")
    <3>1. ASSUME NEW r \in Runs, Advance(r) PROVE store' = store
      BY <3>1, AdvanceOwn
    <3>2. ASSUME NEW r \in Runs, Serve(r) PROVE store' = store
      BY <3>2 DEF Serve, NeverArrives, TurnedAway, Claimed, Recorded, Unresolved, TimeOut
    <3>3. ASSUME NEW r, Start(r) \/ Poll(r) \/ RunCutover(r) PROVE store' = store
      BY <3>3 DEF Start, Poll, RunCutover, Load
    <3>4. ASSUME Environment \/ UNCHANGED vars PROVE store' = store
      BY <3>4, ActStep DEF Environment, Register, Expire, Close, GatewayDies, PilotDies, vars
    <3> QED
      BY <3>1, <3>2, <3>3, <3>4 DEF Next
  <2>2. ASSUME NEW r \in Runs, Save(r, "idle") PROVE Stay
    <3>1. /\ store'[r] = job[r].s /\ \A q \in Runs \ {r} : store'[q] = store[q]
          /\ At(r, "save")
      BY <2>2 DEF Save, RunbookInv, TypeOK
    <3>2. r \in Saved /\ store[r].status \in Final => job[r].s.status = store[r].status
      BY <3>1 DEF AgentInv, AgentAt, At
    <3> QED
      BY <3>1, <3>2 DEF Saved, Final
  <2> QED
    BY <2>1, <2>2
<1> QED
  BY <1>1, AgentInvariant, PTL DEF Spec, EndIsFinal

-----------------------------------------------------------------------------
(* Where no answer is lost, the run that may have bought the server keeps  *)
(* account of it: it names it, goes on, or says that it may be there; the  *)
(* exceptions are a death of the Pilot followed by exp, and one that tears *)
(* its ledger.                                                             *)
Crashed == crashes > 0
Late == (Crashed /\ expired) \/ torn
Warns(s) == s.error \in {"UNKNOWN", "IN_FLIGHT", "ALREADY_COMMITTED"}

Named(s) ==
  s.server \/ (s.step = "P2" /\ ~s.over /\ (s.status \in Terminal => Warns(s) \/ Late))

(* The gateway's ledger says that run r has bought, or may have.           *)
Holder(r) == gw["P2"].run = r /\ gw["P2"].state # "FAILED"

Buying(r) ==
  \/ job[r].pc \in {"intent", "bought", "notBought"}
  \/ job[r].pc \in {"call", "wait"} /\ job[r].key = "P2"

(* A run is saved before it gets to the purchase.                          *)
FreshAt(r) ==
  ~At(r, "idle") /\ r \notin Saved =>
    /\ job[r].s.step \in {"P0", "P1"} /\ job[r].pc \in {"step", "save"}
    /\ At(r, "step") => job[r].s.step = "P0"

(* A run about to buy was saved as such.                                   *)
BuyerAt(r) ==
  /\ Buying(r) => ~job[r].s.over
  /\ Buying(r) \/ (At(r, "step") /\ job[r].s.step = "P2" /\ job[r].s.status \notin Terminal) =>
       /\ r \in Saved /\ store[r].step = "P2" /\ store[r].status \notin Terminal
       /\ store[r].over = job[r].s.over

(* Who waits for the gateway waits for its own request.                    *)
WaitsAt(r) == At(r, "wait") => job[r].key \in acting /\ gw[job[r].key].run = r

BillAt(r) ==
  Holder(r) =>
    /\ r \in Saved /\ Named(store[r])
    /\ At(r, "idle") => store[r].server \/ store[r].status \in Terminal \/ Crashed
    /\ ~At(r, "idle") => Named(job[r].s)
    /\ At(r, "save") => job[r].s.server \/ job[r].s.status \in Terminal
    /\ job[r].pc \in {"step", "intent"} /\ job[r].s.status \notin Terminal =>
         job[r].s.server \/ Crashed
    /\ At(r, "call") /\ job[r].key = "P2" => Crashed
    /\ At(r, "notBought") => Late

AccountAt(r) == FreshAt(r) /\ BuyerAt(r) /\ WaitsAt(r) /\ BillAt(r)

AccountInv ==
  /\ gw["P2"].state # "FAILED" => gw["P2"].run \in Runs
  /\ lane = "automated" /\ lost = 0 => \A r \in Runs : AccountAt(r)

Grows == (Crashed => Crashed') /\ (expired => expired') /\ (torn => torn')

LEMMA FaultsGrow ==
  ASSUME RunbookInv, [Next]_vars
  PROVE  (lost' = lost \/ LoseOne) /\ Grows
<1>1. crashes \in Nat
  BY DEF RunbookInv, TypeOK
<1>2. ASSUME NEW r, Start(r) \/ Poll(r) \/ RunCutover(r) \/ Save(r, "idle")
      PROVE  (lost' = lost \/ LoseOne) /\ Grows
  BY <1>2 DEF Start, Poll, RunCutover, Save, Load, mandate, faults, Grows, Crashed
<1>3. ASSUME NEW r \in Runs, Advance(r) PROVE (lost' = lost \/ LoseOne) /\ Grows
  <2>1. crashes' = crashes /\ expired' = expired /\ torn' = torn
    BY <1>3, AdvanceOwn
  <2>2. lost' = lost \/ LoseOne
    <3>1. CASE ReadRegistration(r)
      BY <3>1 DEF ReadRegistration
    <3>2. CASE Advance(r) /\ ~ReadRegistration(r)
      BY <3>2 DEF Advance, Nothing, Expires, Verified, Preflight, NoteHandoff, PriceSubmit,
           PricePoll, UseRegistration, Provision, Intend, Bought, NotBought,
           Boot, Project, Envs, Deploy, Verify, Cutover, UndoHandoff, UndoServer, faults
    <3> QED
      BY <1>3, <3>1, <3>2
  <2> QED
    BY <2>1, <2>2 DEF Grows, Crashed
<1>4. ASSUME NEW r, Serve(r) PROVE (lost' = lost \/ LoseOne) /\ Grows
  <2>1. lost' = lost \/ LoseOne
    BY <1>4 DEF Serve, NeverArrives, TurnedAway, Claimed, Recorded, Unresolved, TimeOut, Reply,
                faults
  <2>2. crashes' = crashes /\ expired' = expired /\ torn' = torn
    BY <1>4 DEF Serve, NeverArrives, TurnedAway, Claimed, Recorded, Unresolved, TimeOut,
                mandate, faults
  <2> QED
    BY <2>1, <2>2 DEF Grows, Crashed
<1>5. ASSUME NEW k, Act(k) PROVE (lost' = lost \/ LoseOne) /\ Grows
  BY <1>5 DEF Act, Reply, mandate, Grows, Crashed
<1>6. ASSUME (\E r \in Runs : Register(r)) \/ Expire \/ Close \/ GatewayDies
      PROVE  (lost' = lost \/ LoseOne) /\ Grows
  BY <1>6 DEF Register, Expire, Close, GatewayDies, mandate, faults, Grows, Crashed
<1>7. CASE PilotDies
  <2>1. lost' = lost /\ expired' = expired /\ crashes' = crashes + 1 /\ (torn => torn')
    BY <1>7 DEF PilotDies, mandate
  <2> QED
    BY <1>1, <2>1 DEF Grows, Crashed
<1>8. CASE UNCHANGED vars
  BY <1>8 DEF vars, mandate, faults, Grows, Crashed
<1> QED
  BY <1>2, <1>3, <1>4, <1>5, <1>6, <1>7, <1>8 DEF Next, Environment

(* A run nobody moves.                                                     *)
LEMMA AccountFrame ==
  ASSUME Grows, NEW q \in Runs, AccountAt(q), NEW k, k = job[q].key,
         job'[q] = job[q], store'[q] = store[q], Holder(q)' => Holder(q),
         At(q, "wait") /\ k \in acting => k \in acting' /\ gw'[k].run = gw[k].run
  PROVE  AccountAt(q)'
<1>1. (q \in Saved)' <=> q \in Saved
  BY DEF Saved
<1>2. FreshAt(q)'
  BY <1>1 DEF AccountAt, FreshAt, At
<1>3. BuyerAt(q)'
  BY <1>1 DEF AccountAt, BuyerAt, Buying, At
<1>4. WaitsAt(q)'
  BY DEF AccountAt, WaitsAt, At
<1>5. BillAt(q)'
  <2>2. Late => Late'
    BY DEF Late, Grows
  <2>3. Named(store[q]) => Named(store[q])'
    BY <2>2 DEF Named, Warns
  <2>4. Named(job[q].s) => Named(job[q].s)'
    BY <2>2 DEF Named, Warns
  <2> QED
    BY <1>1, <2>2, <2>3, <2>4 DEF AccountAt, BillAt, At, Grows
<1> QED
  BY <1>2, <1>3, <1>4, <1>5 DEF AccountAt

(* A step of the run itself, before the purchase or after it.              *)
LEMMA AccountStep ==
  ASSUME RunbookInv, RunbookInv', Grows, lane = "automated",
         NEW r \in Runs, AccountAt(r), store' = store, Step(r), Holder(r)' => Holder(r), WaitsAt(r)',
         \/ job[r].s.step \in Served
         \/ /\ job[r].s.step \in {"P0", "P1", "P1B", "P1C"} /\ job'[r].pc \in {"save", "undo"}
            /\ r \notin Saved => job'[r].pc = "save" /\ job'[r].s.step \in {"P0", "P1"}
  PROVE  AccountAt(r)'
<1> PICK s : s = job[r].s
  OBVIOUS
<1> PICK t : t = job'[r].s
  OBVIOUS
<1> PICK l : l = job'[r].pc
  OBVIOUS
<1>1. /\ ~At(r, "idle") /\ ~At(r, "save") /\ l \notin {"idle", "step"}
      /\ s.step \in Served => t.step \in Served
  BY DEF Step
<1>2. Sound(r, s) /\ Saved' = Saved
  BY <1>1 DEF RunbookInv, JobAt, Saved
<1>3. l # "idle" /\ Sound(r, t)'
  BY <1>1 DEF RunbookInv, JobAt, At
<1>4. t.server <=> t.step \in Served
  BY <1>3 DEF Sound
<1>5. Buying(r)' => t.step = "P2"
  BY DEF RunbookInv, JobAt, Buying, At, StepOf
<1>6. CASE s.step \in Served
  <2>1. t.step \in Served /\ t.server /\ ~Buying(r)' /\ r \in Saved
    BY <1>1, <1>4, <1>5, <1>6 DEF Served, AccountAt, FreshAt
  <2>2. Named(t)'
    BY <2>1 DEF Named
  <2>3. FreshAt(r)' /\ BuyerAt(r)'
    BY <1>1, <1>2, <2>1 DEF FreshAt, BuyerAt, At
  <2>4. BillAt(r)'
    <3> SUFFICES ASSUME Holder(r) PROVE BillAt(r)'
      BY DEF BillAt
    <3>1. Named(store[r]) /\ (Late => Late')
      BY DEF AccountAt, BillAt, Late, Grows
    <3>2. Named(store[r])'
      BY <3>1 DEF Named, Warns
    <3>3. ~(At(r, "call") /\ job[r].key = "P2")' /\ ~At(r, "notBought")' /\ ~At(r, "idle")'
      BY <1>1, <2>1 DEF Buying, At
    <3> QED
      BY <1>1, <1>2, <2>1, <2>2, <3>2, <3>3 DEF BillAt
  <2> QED
    BY <2>3, <2>4 DEF AccountAt
<1>7. CASE /\ s.step \in {"P0", "P1", "P1B", "P1C"} /\ l \in {"save", "undo"}
           /\ r \notin Saved => l = "save" /\ t.step \in {"P0", "P1"}
  <2>1. ~Holder(r)
    BY <1>1, <1>2, <1>7 DEF AccountAt, BillAt, Named, Sound, Served
  <2>2. FreshAt(r)' /\ BuyerAt(r)'
    BY <1>2, <1>7 DEF FreshAt, BuyerAt, Buying, At
  <2> QED
    BY <2>1, <2>2 DEF AccountAt, BillAt
<1> QED
  BY <1>6, <1>7

LEMMA AccountReturn ==
  ASSUME RunbookInv, Grows, NEW r \in Runs, AccountAt(r), store' = store,
         ~At(r, "idle"), NEW t \in RunState, Return(r, t), Holder(r)' => Holder(r), r \in Saved,
         Holder(r) => Named(t)' /\ (t.server \/ t.status \in Terminal)
  PROVE  AccountAt(r)'
<1>1. job'[r].pc = "save" /\ job'[r].s = t /\ Saved' = Saved
  BY ReturnJob DEF RunbookInv, Saved
<1>2. FreshAt(r)' /\ BuyerAt(r)' /\ WaitsAt(r)'
  BY <1>1 DEF FreshAt, BuyerAt, WaitsAt, Buying, At
<1>3. BillAt(r)'
  <2> SUFFICES ASSUME Holder(r) PROVE BillAt(r)'
    BY DEF BillAt
  <2>1. Named(store[r]) /\ (Late => Late')
    BY DEF AccountAt, BillAt, Late, Grows
  <2>2. Named(store[r])'
    BY <2>1 DEF Named, Warns
  <2>3. Named(job[r].s)'
    BY <1>1 DEF Named, Warns
  <2> QED
    BY <1>1, <2>2, <2>3 DEF BillAt, At
<1> QED
  BY <1>2, <1>3 DEF AccountAt

(* A purchase that ends in failure e still speaks of the server.           *)
LEMMA AccountFail ==
  ASSUME RunbookInv, Grows, NEW r \in Runs, AccountAt(r), store' = store,
         ~At(r, "idle"), r \in Saved, Holder(r)' => Holder(r),
         NEW e \in Errors, Return(r, Fail(job[r].s, e)),
         Holder(r) => job[r].s.server \/ e \in {"UNKNOWN", "IN_FLIGHT", "ALREADY_COMMITTED"} \/ Late'
  PROVE  AccountAt(r)'
<1> PICK s \in RunState : s = job[r].s
  BY DEF RunbookInv, TypeOK
<1> PICK t : t = Fail(s, e)
  OBVIOUS
<1>1. /\ t \in RunState /\ t.step = s.step /\ t.status = "FAILED" /\ t.error = e
      /\ t.server = s.server /\ t.over = s.over
  BY FailType
<1>2. Holder(r) => Named(t)' /\ (t.server \/ t.status \in Terminal)
  BY <1>1 DEF AccountAt, BillAt, Named, Warns, Terminal
<1> QED
  BY <1>1, <1>2, AccountReturn

(* On to the next move of the purchase, with the state as it is.           *)
LEMMA AccountGoto ==
  ASSUME RunbookInv, Grows, lane = "automated", NEW r \in Runs, AccountAt(r), store' = store,
         Buying(r) \/ (At(r, "step") /\ job[r].s.step = "P2" /\ job[r].s.status \notin Terminal),
         ~job[r].s.over, NEW l, job'[r].pc = l, job'[r].s = job[r].s, job'[r].key = "P2" \/ l # "wait",
         l \in {"intent", "call", "wait", "bought", "notBought"}, WaitsAt(r)',
         Holder(r)' => /\ l \in {"intent", "call"} => Crashed
                       /\ l = "notBought" => Late'
  PROVE  AccountAt(r)'
<1> PICK s \in RunState : s = job[r].s
  BY DEF RunbookInv, TypeOK
<1>1. ~At(r, "idle") /\ s.step = "P2" /\ s.status \notin Terminal /\ ~s.server
  BY DEF Buying, At, RunbookInv, JobAt, StepOf, Sound, Served
<1>2. /\ r \in Saved /\ Saved' = Saved /\ store[r].step = "P2" /\ store[r].status \notin Terminal
      /\ store[r].over = s.over
  BY DEF AccountAt, BuyerAt, Saved
<1>3. FreshAt(r)' /\ BuyerAt(r)'
  BY <1>2 DEF FreshAt, BuyerAt, At
<1>4. Named(s)' /\ Named(store[r])'
  BY <1>1, <1>2 DEF Named
<1>5. BillAt(r)'
  BY <1>1, <1>2, <1>4 DEF BillAt, At, Grows, Named
<1> QED
  BY <1>3, <1>5 DEF AccountAt

LEMMA AccountEarly ==
  ASSUME RunbookInv, lane = "automated", NEW r \in Runs, AccountAt(r), Advance(r), ~LoseOne,
         job[r].s.step \in {"P0", "P1", "P1B", "P1C"}
  PROVE  /\ job'[r].pc \in {"save", "undo"}
         /\ r \notin Saved => job'[r].pc = "save" /\ job'[r].s.step \in {"P0", "P1"}
<1> PICK s \in RunState : s = job[r].s
  BY DEF RunbookInv, TypeOK
<1>1. /\ At(r, "step") \/ UndoServer(r)
      /\ r \notin Saved => s.step = "P0" /\ At(r, "step")
  BY DEF Advance, Nothing, Expires, Verified, Preflight, NoteHandoff, PriceSubmit,
         PricePoll, ReadRegistration, UseRegistration, Provision, Intend, Bought, NotBought,
         Boot, Project, Envs, Deploy, Verify, Cutover, UndoHandoff, UndoServer, On, At,
         RunbookInv, JobAt, Undone, AccountAt, FreshAt
<1>2. ASSUME NEW t, Return(r, t) PROVE job'[r].pc = "save" /\ job'[r].s = t
  BY <1>2 DEF Return, RunbookInv, TypeOK
<1>3. CASE Nothing(r)
  BY <1>1, <1>2, <1>3 DEF Nothing
<1>4. CASE Expires(r)
  <2>1. Fail(s, "EXPIRED").step = s.step
    BY DEF Fail, RunState
  <2> QED
    BY <1>1, <1>2, <1>4, <2>1 DEF Expires
<1>5. CASE Verified(r)
  <2>1. [s EXCEPT !.step = "P1"].step = "P1"
    BY DEF RunState
  <2> QED
    BY <1>2, <1>5, <2>1 DEF Verified
<1>6. CASE Preflight(r) \/ PriceSubmit(r) \/ PricePoll(r)
  <2>1. r \in Saved /\ ((\E t : Return(r, t)) \/ Undo(r, s, "LEDGER"))
    BY <1>1, <1>6 DEF Preflight, PriceSubmit, PricePoll, Unreadable, On
  <2>2. Undo(r, s, "LEDGER") => job'[r].pc = "undo"
    BY DEF Undo, RunbookInv, TypeOK
  <2> QED
    BY <1>2, <2>1, <2>2
<1>8. CASE UndoServer(r)
  <2>1. r \in Saved /\ \E t : Return(r, t)
    BY <1>1, <1>8 DEF UndoServer, At
  <2> QED
    BY <1>2, <2>1
<1>7. \/ Nothing(r) \/ Expires(r) \/ Verified(r) \/ Preflight(r) \/ PriceSubmit(r) \/ PricePoll(r)
      \/ UndoServer(r)
  BY <1>1
     DEF Advance, NoteHandoff, ReadRegistration, UseRegistration, Provision, Intend, Bought,
         NotBought, Boot, Project, Envs, Deploy, Verify, Cutover, UndoHandoff, UndoServer, On, At
<1> QED
  BY <1>3, <1>4, <1>5, <1>6, <1>7, <1>8

(* The ledger cannot be read: the run is on its way to its rollback.       *)
LEMMA AccountUndo ==
  ASSUME RunbookInv, Grows, lane = "automated", NEW r \in Runs, AccountAt(r), store' = store,
         At(r, "step"), job[r].s.step = "P2", job[r].s.status \notin Terminal, ~job[r].s.over,
         Undo(r, job[r].s, "LEDGER"), Holder(r)' => Holder(r), r \in Saved
  PROVE  AccountAt(r)'
<1> PICK s \in RunState : s = job[r].s
  BY DEF RunbookInv, TypeOK
<1> PICK t : t = [s EXCEPT !.error = "LEDGER"]
  OBVIOUS
<1>1. /\ job'[r].pc = "undo" /\ job'[r].s = t /\ Saved' = Saved
      /\ t.step = "P2" /\ t.status \notin Terminal /\ ~t.over
  BY DEF Undo, RunbookInv, TypeOK, RunState, Saved
<1>2. FreshAt(r)' /\ BuyerAt(r)' /\ WaitsAt(r)'
  BY <1>1 DEF FreshAt, BuyerAt, WaitsAt, Buying, At
<1>3. BillAt(r)'
  <2> SUFFICES ASSUME Holder(r) PROVE BillAt(r)'
    BY DEF BillAt
  <2>1. Named(store[r]) /\ (Late => Late')
    BY DEF AccountAt, BillAt, Late, Grows
  <2>2. Named(store[r])' /\ Named(t)'
    BY <1>1, <2>1 DEF Named, Warns
  <2> QED
    BY <1>1, <2>2 DEF BillAt, At
<1> QED
  BY <1>2, <1>3 DEF AccountAt

(* The purchase itself: what run r does between its own two ledger rows.   *)
LEMMA AccountPurchase ==
  ASSUME RunbookInv, TornInv, Grows, lane = "automated", NEW r \in Runs, AccountAt(r),
         Advance(r), job[r].s.step = "P2"
  PROVE  AccountAt(r)'
<1> PICK s \in RunState : s = job[r].s
  BY DEF RunbookInv, TypeOK
<1>1. store' = store /\ gw' = gw
  BY AdvanceOwn
<1>2. /\ ~At(r, "idle") /\ ~At(r, "save") /\ Sound(r, s) /\ (Holder(r)' => Holder(r)) /\ ~s.server
      /\ r \in Saved
  BY <1>1, AdvanceStep DEF Step, RunbookInv, JobAt, Holder, Sound, Served, AccountAt, FreshAt
<1>3. CASE Nothing(r)
  <2>1. Stays(s) /\ Return(r, s) /\ At(r, "step")
    BY <1>3 DEF Nothing
  <2>2. s.status \in Terminal
    BY <2>1 DEF Stays
  <2>3. Late => Late'
    BY DEF Late, Grows
  <2>4. Holder(r) => Named(s)'
    BY <1>2, <2>3 DEF AccountAt, BillAt, Named, Warns
  <2> QED
    BY <1>1, <1>2, <2>1, <2>2, <2>4, AccountReturn
<1>4. CASE Expires(r)
  <2>1. expired /\ s.status \notin Terminal /\ At(r, "step") /\ Return(r, Fail(s, "EXPIRED"))
        /\ "EXPIRED" \in Errors
    BY <1>4 DEF Expires, Stays, Refused, Errors, Answers
  <2>2. Holder(r) => Late'
    BY <1>2, <2>1 DEF AccountAt, BillAt, At, Late, Grows
  <2> QED
    BY <1>1, <1>2, <2>1, <2>2, AccountFail
<1>5. CASE Provision(r)
  <2>1. At(r, "step") /\ s.status \notin Terminal
    BY <1>5 DEF Provision, On, Stays
  <2>2. Holder(r) => Crashed /\ ~s.over
    BY <1>2, <2>1 DEF AccountAt, BillAt, Named, At
  <2>3. \A e \in {"BUDGET", "IN_FLIGHT", "ALREADY_COMMITTED"} : e \in Errors
    BY DEF Errors, Answers
  <2>4. CASE s.over /\ Return(r, Fail(s, "BUDGET"))
    BY <1>1, <1>2, <2>2, <2>3, <2>4, AccountFail
  <2>5. CASE Return(r, Fail(s, "IN_FLIGHT")) \/ Return(r, Fail(s, "ALREADY_COMMITTED"))
    BY <1>1, <1>2, <2>3, <2>5, AccountFail
  <2>6. CASE ~s.over /\ Goto(r, "intent")
    <3>1. job'[r].pc = "intent" /\ job'[r].s = s
      BY <2>6 DEF Goto, RunbookInv, TypeOK
    <3>2. WaitsAt(r)'
      BY <3>1 DEF WaitsAt, At
    <3> QED
      BY <1>1, <1>2, <2>1, <2>2, <2>6, <3>1, <3>2, AccountGoto DEF Grows
  <2>7. CASE ~s.over /\ Undo(r, s, "LEDGER")
    BY <1>1, <1>2, <2>1, <2>7, AccountUndo
  <2> QED
    BY <1>5, <2>4, <2>5, <2>6, <2>7 DEF Provision, Unreadable
<1>6. CASE Intend(r)
  <2>1. TypeOK /\ "P2" \in Keys /\ job' = [job EXCEPT ![r].pc = "call", ![r].key = "P2"]
        /\ At(r, "intent")
    BY <1>6 DEF RunbookInv, Keys, Intend
  <2>2. job'[r].pc = "call" /\ job'[r].s = s /\ job'[r].key = "P2"
    BY <2>1, CallJob
  <2>3. Buying(r) /\ ~s.over /\ s.status \notin Terminal
    BY <2>1 DEF Buying, AccountAt, BuyerAt, At, RunbookInv, JobAt
  <2>4. WaitsAt(r)' /\ (Holder(r) => Crashed)
    BY <1>2, <2>1, <2>2, <2>3 DEF WaitsAt, At, AccountAt, BillAt
  <2> QED
    BY <1>1, <1>2, <2>2, <2>3, <2>4, AccountGoto DEF Grows
<1>7. CASE Bought(r)
  <2> PICK t : t = [s EXCEPT !.step = "P3", !.server = TRUE, !.cost = TRUE]
    OBVIOUS
  <2>1. t \in RunState /\ t.server
    BY DEF RunState, Steps
  <2> QED
    BY <1>1, <1>2, <1>7, <2>1, AccountReturn DEF Bought, Named
<1>8. CASE NotBought(r)
  <2>1. At(r, "notBought") /\ Return(r, Fail(s, "PROVISION")) /\ "PROVISION" \in Errors
    BY <1>8 DEF NotBought, Errors
  <2>2. Holder(r) => Late'
    BY <2>1 DEF AccountAt, BillAt, Late, Grows
  <2> QED
    BY <1>1, <1>2, <2>1, <2>2, AccountFail
<1>10. CASE UndoServer(r)
  <2> PICK t : t = [s EXCEPT !.status = "ROLLED_BACK"]
    OBVIOUS
  <2>1. At(r, "undo") /\ Return(r, t) /\ torn
    BY <1>2, <1>10 DEF UndoServer, TornInv
  <2>2. /\ t \in RunState /\ t.step = "P2" /\ t.status = "ROLLED_BACK" /\ t.over = s.over
        /\ t.server = s.server /\ t.error = s.error
    BY DEF RunState, Statuses
  <2>3. Late'
    BY <2>1 DEF Late, Grows
  <2>4. Holder(r) => Named(t)' /\ t.status \in Terminal
    BY <1>2, <2>2, <2>3 DEF AccountAt, BillAt, Named, Terminal
  <2> QED
    BY <1>1, <1>2, <2>1, <2>2, <2>4, AccountReturn
<1>9. \/ Nothing(r) \/ Expires(r) \/ Provision(r) \/ Intend(r) \/ Bought(r) \/ NotBought(r)
      \/ UndoServer(r)
  BY DEF Advance, Verified, Preflight, NoteHandoff, PriceSubmit, PricePoll, ReadRegistration,
         UseRegistration, Boot, Project, Envs, Deploy, Verify, Cutover, UndoHandoff, UndoServer,
         On, At, RunbookInv, JobAt, Undone
<1> QED
  BY <1>3, <1>4, <1>5, <1>6, <1>7, <1>8, <1>9, <1>10

LEMMA AccountAdvance ==
  ASSUME RunbookInv, RunbookInv', TornInv, Grows, lane = "automated", NEW r \in Runs, AccountAt(r),
         Advance(r), ~LoseOne
  PROVE  AccountAt(r)'
<1> PICK s \in RunState : s = job[r].s
  BY DEF RunbookInv, TypeOK
<1>1. Step(r) /\ store' = store /\ gw' = gw /\ (Holder(r)' => Holder(r))
  BY AdvanceStep, AdvanceOwn DEF Holder
<1>2. s.step # "P2H"
  BY <1>1 DEF Step, RunbookInv, JobAt, Sound
<1>3. ~Claimed(r)
  BY DEF Advance, Nothing, Expires, Verified, Preflight, NoteHandoff, PriceSubmit,
         PricePoll, ReadRegistration, UseRegistration, Provision, Intend, Bought, NotBought,
         Boot, Project, Envs, Deploy, Verify, Cutover, UndoHandoff, UndoServer, On, At, Claimed
<1>4. WaitsAt(r)'
  BY <1>1, <1>3 DEF WaitsAt, Step, At
<1>5. s.step \in Served \cup {"P0", "P1", "P1B", "P1C", "P2"}
  BY <1>2 DEF RunState, Steps, Served
<1>6. CASE s.step \in Served
  BY <1>1, <1>4, <1>6, AccountStep
<1>7. CASE s.step \in {"P0", "P1", "P1B", "P1C"}
  BY <1>1, <1>4, <1>7, AccountEarly, AccountStep
<1>8. CASE s.step = "P2"
  BY <1>8, AccountPurchase
<1> QED
  BY <1>5, <1>6, <1>7, <1>8

-----------------------------------------------------------------------------
(* The gateway's side of the account.                                      *)

LEMMA ServeGateway ==
  ASSUME RunbookInv, NEW r \in Runs, Serve(r)
  PROVE  /\ store' = store /\ acting \subseteq acting'
         /\ \A k \in Keys : \/ gw'[k] = gw[k]
                            \/ gw'[k].run = r /\ (k \notin acting \/ gw[k].run = r)
<1>1. CASE Claimed(r)
  <2> PICK k \in Keys : k = job[r].key
    BY DEF RunbookInv, TypeOK
  <2>1. /\ Latest(k, "INTENT", r, dns) /\ acting' = acting \cup {k} /\ store' = store
        /\ gw[k].state = "FAILED"
    BY <1>1 DEF Claimed
  <2>2. k \notin acting
    BY <2>1 DEF RunbookInv, GatewayAt
  <2>3. gw'[k].run = r /\ \A l \in Keys \ {k} : gw'[l] = gw[l]
    BY <2>1 DEF Latest, RunbookInv, TypeOK
  <2> QED
    BY <2>1, <2>2, <2>3
<1>2. CASE Unresolved(r)
  <2>1. /\ store' = store /\ acting' = acting
        /\ \/ UNCHANGED gw
           \/ /\ job[r].key = "P2" /\ gw["P2"].run = r
              /\ Latest("P2", "COMMITTED", r, dns)
    BY <1>2 DEF Unresolved, gateway
  <2>2. ASSUME Latest("P2", "COMMITTED", r, dns)
        PROVE  gw'["P2"].run = r /\ \A l \in Keys \ {"P2"} : gw'[l] = gw[l]
    BY <2>2 DEF Latest, RunbookInv, TypeOK, Keys
  <2> QED
    BY <2>1, <2>2
<1>3. CASE NeverArrives(r) \/ TurnedAway(r) \/ Recorded(r) \/ TimeOut(r)
  BY <1>3 DEF NeverArrives, TurnedAway, Recorded, TimeOut, gateway
<1> QED
  BY <1>1, <1>2, <1>3 DEF Serve

(* The answer to the purchase, none of them lost.                          *)
LEMMA AccountServedP2 ==
  ASSUME RunbookInv, Grows, lane = "automated", NEW r \in Runs, AccountAt(r),
         Serve(r), ~LoseOne, job[r].key = "P2"
  PROVE  AccountAt(r)'
<1> PICK s \in RunState : s = job[r].s
  BY DEF RunbookInv, TypeOK
<1>1. store' = store
  BY ServeGateway
<1>2. At(r, "call") \/ At(r, "wait")
  BY DEF Serve, NeverArrives, TurnedAway, Claimed, Recorded, Unresolved, TimeOut
<1>3. At(r, "call")
  BY <1>2 DEF Serve, NeverArrives, TurnedAway, Claimed, Recorded, Unresolved, TimeOut, AccountAt,
              WaitsAt, At
<1>4. /\ Buying(r) /\ ~s.over /\ ~At(r, "idle") /\ r \in Saved
      /\ Holder(r) => Crashed
  BY <1>3 DEF Buying, At, AccountAt, BuyerAt, BillAt
<1>5. ASSUME NEW l \in {"wait", "bought", "notBought"}, Goto(r, l), WaitsAt(r)',
             Holder(r)' /\ l = "notBought" => Late'
      PROVE  AccountAt(r)'
  <2>1. job'[r].pc = l /\ job'[r].s = s /\ job'[r].key = "P2"
    BY <1>5 DEF Goto, RunbookInv, TypeOK
  <2> QED
    BY <1>1, <1>4, <1>5, <2>1, AccountGoto
<1>6. ASSUME NEW l \in {"bought", "notBought"}, Goto(r, l) PROVE WaitsAt(r)'
  <2>1. job'[r].pc = l
    BY <1>6 DEF Goto, RunbookInv, TypeOK
  <2> QED
    BY <2>1 DEF WaitsAt, At
<1>7. \A a : Reply(r, a) => Hear(r, a)
  BY DEF Reply
<1>8. Hear(r, "OK") => Goto(r, "bought")
  BY DEF Hear, HearPurchase
<1>9. \A a \in {"EXPIRED", "REPLAY"} : Hear(r, a) => Goto(r, "notBought")
  BY DEF Hear, HearPurchase
<1>10. \A a \in {"IN_FLIGHT", "AMBIGUOUS"} : Hear(r, a) => Return(r, Fail(s, "UNKNOWN"))
  BY DEF Hear, HearPurchase
<1>11. CASE Claimed(r)
  <2>1. Goto(r, "wait") /\ Latest("P2", "INTENT", r, dns) /\ acting' = acting \cup {"P2"}
    BY <1>11 DEF Claimed
  <2>2. job'[r].pc = "wait" /\ job'[r].key = "P2"
    BY <2>1 DEF Goto, RunbookInv, TypeOK
  <2>3. gw'["P2"].run = r
    BY <2>1 DEF Latest, RunbookInv, TypeOK, Keys
  <2>4. WaitsAt(r)'
    BY <2>1, <2>2, <2>3 DEF WaitsAt
  <2> QED
    BY <1>5, <2>1, <2>4
<1>12. CASE TurnedAway(r)
  <2>1. expired /\ gw' = gw /\ Goto(r, "notBought")
    BY <1>7, <1>9, <1>12 DEF TurnedAway, Admits, gateway
  <2>2. Holder(r)' => Late'
    BY <1>4, <2>1 DEF Holder, Late, Grows
  <2> QED
    BY <1>5, <1>6, <2>1, <2>2
<1>13. CASE Recorded(r)
  <2>1. gw' = gw /\ (Goto(r, "bought") \/ (Goto(r, "notBought") /\ gw["P2"].run # r))
    BY <1>7, <1>8, <1>9, <1>13 DEF Recorded, gateway
  <2>2. gw["P2"].run # r => ~Holder(r)'
    BY <2>1 DEF Holder
  <2> QED
    BY <1>5, <1>6, <2>1, <2>2
<1>14. CASE Unresolved(r)
  <2>1. \/ Goto(r, "bought")
        \/ gw' = gw /\ Return(r, Fail(s, "UNKNOWN"))
    BY <1>7, <1>8, <1>10, <1>14 DEF Unresolved
  <2>2. CASE gw' = gw /\ Return(r, Fail(s, "UNKNOWN"))
    <3>1. (Holder(r)' => Holder(r)) /\ "UNKNOWN" \in Errors
      BY <2>2 DEF Holder, Errors
    <3> QED
      BY <1>1, <1>4, <2>2, <3>1, AccountFail
  <2> QED
    BY <1>5, <1>6, <2>1, <2>2
<1>15. ~NeverArrives(r) /\ ~TimeOut(r)
  BY <1>3 DEF NeverArrives, TimeOut, At
<1> QED
  BY <1>11, <1>12, <1>13, <1>14, <1>15 DEF Serve

LEMMA AccountServe ==
  ASSUME RunbookInv, RunbookInv', Grows, lane = "automated", \A q \in Runs : AccountAt(q),
         NEW r \in Runs, Serve(r), ~LoseOne
  PROVE  \A q \in Runs : AccountAt(q)'
<1>1. Step(r)
  BY ServeStep
<1>2. /\ store' = store /\ acting \subseteq acting'
      /\ \A k \in Keys : \/ gw'[k] = gw[k]
                         \/ gw'[k].run = r /\ (k \notin acting \/ gw[k].run = r)
  BY ServeGateway
<1>3. ASSUME NEW q \in Runs \ {r} PROVE AccountAt(q)'
  <2> PICK k \in Keys : k = job[q].key
    BY DEF RunbookInv, TypeOK
  <2>1. job'[q] = job[q] /\ store'[q] = store[q]
    BY <1>1, <1>2 DEF Step
  <2>2. Holder(q)' => Holder(q)
    BY <1>2 DEF Holder, Keys
  <2>3. At(q, "wait") /\ k \in acting => k \in acting' /\ gw'[k].run = gw[k].run
    BY <1>2
  <2> QED
    BY <2>1, <2>2, <2>3, AccountFrame
<1>4. ASSUME job[r].key # "P2" PROVE AccountAt(r)'
  <2> PICK k \in Keys \ {"P2"} : k = job[r].key
    BY <1>4 DEF RunbookInv, TypeOK
  <2>1. job[r].s.step \in Served
    <3>1. At(r, "call") \/ At(r, "wait")
      BY DEF Serve, NeverArrives, TurnedAway, Claimed, Recorded, Unresolved, TimeOut
    <3>2. job[r].s.step = StepOf(k)
      BY <3>1 DEF At, RunbookInv, JobAt
    <3> QED
      BY <3>2 DEF StepOf, Keys, Served
  <2>2. Holder(r)' => Holder(r)
    <3>1. gw'["P2"] = gw["P2"]
      <4>1. CASE Claimed(r)
        BY <4>1 DEF Claimed, Latest, RunbookInv, TypeOK, Keys
      <4>2. CASE Serve(r) /\ ~Claimed(r)
        BY <1>4, <4>2 DEF Serve, NeverArrives, TurnedAway, Recorded, Unresolved, TimeOut, gateway
      <4> QED
        BY <4>1, <4>2
    <3> QED
      BY <3>1 DEF Holder
  <2>3. WaitsAt(r)'
    <3>1. CASE Claimed(r)
      <4>1. Goto(r, "wait") /\ Latest(k, "INTENT", r, dns) /\ acting' = acting \cup {k}
        BY <3>1 DEF Claimed
      <4>2. job'[r].key = k
        BY <4>1 DEF Goto, RunbookInv, TypeOK
      <4>3. gw'[k].run = r
        BY <4>1 DEF Latest, RunbookInv, TypeOK, Keys
      <4> QED
        BY <4>1, <4>2, <4>3 DEF WaitsAt
    <3>2. CASE ~Claimed(r)
      BY <1>1, <3>2 DEF Step, WaitsAt, At
    <3> QED
      BY <3>1, <3>2
  <2> QED
    BY <1>1, <1>2, <2>1, <2>2, <2>3, AccountStep
<1>5. ASSUME job[r].key = "P2" PROVE AccountAt(r)'
  BY <1>5, AccountServedP2
<1> QED
  BY <1>3, <1>4, <1>5

LEMMA ActCases ==
  ASSUME RunbookInv, NEW k \in Keys, Act(k), NEW r, r = gw[k].run
  PROVE  /\ k \in acting /\ acting' = acting \ {k} /\ store' = store
         /\ gw[k].state = "INTENT" /\ r \in Runs
         /\ \A l \in Keys \ {k} : gw'[l] = gw[l]
         /\ gw'[k].run = r
         /\ \E a \in {"OK", "REJECTED", "AMBIGUOUS"} :
              /\ a = "REJECTED" => gw'[k].state = "FAILED"
              /\ IF At(r, "wait") /\ job[r].key = k THEN Reply(r, a) ELSE job' = job
<1> DEFINE told(a) == IF At(r, "wait") /\ job[r].key = k THEN Reply(r, a) ELSE UNCHANGED <<job, lost>>
<1>1. /\ k \in acting /\ acting' = acting \ {k} /\ store' = store
      /\ gw[k].state = "INTENT" /\ r \in Runs
  BY DEF Act, RunbookInv, GatewayAt
<1>2. \/ Latest(k, "COMMITTED", r, dns) /\ told("OK")
      \/ Latest(k, "FAILED", r, dns) /\ told("REJECTED")
      \/ (UNCHANGED gw \/ Latest(k, "FAILED", r, dns)) /\ told("AMBIGUOUS")
  BY DEF Act
<1>3. ASSUME NEW st, Latest(k, st, r, dns)
      PROVE  gw'[k].run = r /\ gw'[k].state = st /\ \A l \in Keys \ {k} : gw'[l] = gw[l]
  BY <1>3 DEF Latest, RunbookInv, TypeOK
<1>4. /\ \A l \in Keys \ {k} : gw'[l] = gw[l]
      /\ gw'[k].run = r
  BY <1>2, <1>3
<1>5. \E a \in {"OK", "REJECTED", "AMBIGUOUS"} :
        (a = "REJECTED" => gw'[k].state = "FAILED") /\ told(a)
  <2>1. CASE told("OK")
    BY <2>1
  <2>2. CASE Latest(k, "FAILED", r, dns) /\ told("REJECTED")
    BY <1>3, <2>2
  <2>3. CASE told("AMBIGUOUS")
    BY <2>3
  <2> QED
    BY <1>2, <2>1, <2>2, <2>3
<1> QED
  BY <1>1, <1>4, <1>5

LEMMA AccountAct ==
  ASSUME RunbookInv, RunbookInv', Grows, lane = "automated", \A q \in Runs : AccountAt(q),
         NEW k \in Keys, Act(k), ~LoseOne
  PROVE  \A q \in Runs : AccountAt(q)'
<1> PICK r : r = gw[k].run
  OBVIOUS
<1>1. /\ k \in acting /\ acting' = acting \ {k} /\ store' = store
      /\ gw[k].state = "INTENT" /\ r \in Runs
      /\ \A l \in Keys \ {k} : gw'[l] = gw[l]
      /\ gw'[k].run = r
  BY ActCases
<1> PICK a \in {"OK", "REJECTED", "AMBIGUOUS"} :
      /\ a = "REJECTED" => gw'[k].state = "FAILED"
      /\ IF At(r, "wait") /\ job[r].key = k THEN Reply(r, a) ELSE job' = job
  BY ActCases
<1>2. ASSUME NEW q \in Runs PROVE Holder(q)' => Holder(q)
  BY <1>1 DEF Holder, Keys
<1>3. ASSUME NEW q \in Runs, job'[q] = job[q], ~(q = r /\ At(r, "wait") /\ job[r].key = k)
      PROVE  AccountAt(q)'
  <2> PICK l \in Keys : l = job[q].key
    BY DEF RunbookInv, TypeOK
  <2>1. At(q, "wait") => l # k
    BY <1>3 DEF AccountAt, WaitsAt
  <2>2. At(q, "wait") /\ l \in acting => l \in acting' /\ gw'[l].run = gw[l].run
    BY <1>1, <2>1
  <2> QED
    BY <1>1, <1>2, <1>3, <2>2, AccountFrame
<1>4. CASE ~(At(r, "wait") /\ job[r].key = k)
  BY <1>3, <1>4
<1>5. CASE At(r, "wait") /\ job[r].key = k
  <2>1. Hear(r, a) /\ ~At(r, "idle") /\ job[r].pc \in {"call", "wait"}
    BY <1>5 DEF Reply, At
  <2>2. Step(r)
    BY <1>1, <2>1, HearStep
  <2>3. WaitsAt(r)'
    BY <1>5, <2>2 DEF Step, WaitsAt, At, Claimed
  <2>4. ASSUME k # "P2" PROVE AccountAt(r)'
    <3>1. job[r].s.step \in Served
      BY <1>1, <1>5, <2>1, <2>4 DEF RunbookInv, JobAt, StepOf, Keys, Served
    <3> QED
      BY <1>1, <1>2, <2>2, <2>3, <3>1, AccountStep
  <2>5. ASSUME k = "P2" PROVE AccountAt(r)'
    <3> PICK s \in RunState : s = job[r].s
      BY <1>1 DEF RunbookInv, TypeOK
    <3>1. Buying(r) /\ ~s.over /\ r \in Saved
      BY <1>1, <1>5, <2>5 DEF Buying, At, AccountAt, BuyerAt
    <3>2. ASSUME NEW l \in {"bought", "notBought"}, Goto(r, l),
                 Holder(r)' /\ l = "notBought" => Late'
          PROVE  AccountAt(r)'
      <4>1. job'[r].pc = l /\ job'[r].s = s
        BY <1>1, <3>2 DEF Goto, RunbookInv, TypeOK
      <4> QED
        BY <1>1, <2>3, <3>1, <3>2, <4>1, AccountGoto
    <3>3. CASE a = "OK"
      <4>1. Goto(r, "bought")
        BY <1>5, <2>1, <2>5, <3>3 DEF Hear, HearPurchase
      <4> QED
        BY <3>2, <4>1
    <3>4. CASE a = "REJECTED"
      <4>1. Goto(r, "notBought") /\ ~Holder(r)'
        BY <1>5, <2>1, <2>5, <3>4 DEF Hear, HearPurchase, Holder
      <4> QED
        BY <3>2, <4>1
    <3>5. CASE a = "AMBIGUOUS"
      <4>1. Return(r, Fail(s, "UNKNOWN")) /\ "UNKNOWN" \in Errors
        BY <1>5, <2>1, <2>5, <3>5 DEF Hear, HearPurchase, Errors
      <4> QED
        BY <1>1, <1>2, <2>1, <3>1, <4>1, AccountFail
    <3> QED
      BY <3>3, <3>4, <3>5
  <2>6. ASSUME NEW q \in Runs \ {r} PROVE AccountAt(q)'
    BY <1>3, <2>2, <2>6 DEF Step
  <2> QED
    BY <2>4, <2>5, <2>6
<1> QED
  BY <1>4, <1>5

-----------------------------------------------------------------------------
(* Calls, saves, time and death.                                           *)

LEMMA AccountCall ==
  ASSUME RunbookInv, Grows, \A q \in Runs : AccountAt(q), NEW r \in Runs,
         Start(r) \/ Poll(r) \/ RunCutover(r)
  PROVE  \A q \in Runs : AccountAt(q)'
<1> PICK s \in RunState :
      /\ Load(r, s) /\ Sound(r, s)
      /\ \/ store[r] = NoRun /\ s = newRun
         \/ r \in Saved /\ s = store[r]
         \/ /\ r \in Saved /\ store[r].status # "DEPLOYED"
            /\ s = [store[r] EXCEPT !.tok = TRUE]
         \/ /\ r \in Saved /\ store[r].status = "DEPLOYED"
            /\ s = [[store[r] EXCEPT !.tok = TRUE] EXCEPT !.step = "P8", !.status = "RUNNING"]
  BY CallState
<1>1. /\ job'[r].pc = "step" /\ job'[r].s = s /\ \A q \in Runs \ {r} : job'[q] = job[q]
      /\ store' = store /\ gw' = gw /\ acting' = acting
  BY DEF Load, Idle, RunbookInv, TypeOK, gateway
<1>2. At(r, "idle")
  BY CallState
<1>3. ASSUME NEW q \in Runs PROVE Holder(q)' => Holder(q)
  BY <1>1 DEF Holder
<1>4. ASSUME NEW q \in Runs \ {r} PROVE AccountAt(q)'
  BY <1>1, <1>3, AccountFrame
<1>5. \/ r \notin Saved /\ s.step = "P0"
      \/ /\ r \in Saved /\ s.step = store[r].step /\ s.status = store[r].status
         /\ s.server = store[r].server /\ s.over = store[r].over /\ s.error = store[r].error
      \/ r \in Saved /\ s.step = "P8" /\ s.server
  <2>1. r \in Saved => store[r] \in RunState
    BY DEF RunbookInv, TypeOK, Saved
  <2>2. CASE store[r] = NoRun /\ s = newRun
    BY <2>2 DEF Saved, newRun
  <2>3. CASE r \in Saved /\ s = [store[r] EXCEPT !.tok = TRUE]
    BY <2>1, <2>3 DEF RunState
  <2>4. CASE /\ r \in Saved /\ store[r].status = "DEPLOYED"
             /\ s = [[store[r] EXCEPT !.tok = TRUE] EXCEPT !.step = "P8", !.status = "RUNNING"]
    <3> PICK v : v = [store[r] EXCEPT !.tok = TRUE]
      OBVIOUS
    <3>1. s = [v EXCEPT !.step = "P8", !.status = "RUNNING"] /\ v \in RunState
      BY <2>1, <2>4 DEF RunState
    <3>2. s.step = "P8"
      BY <3>1 DEF RunState
    <3> QED
      BY <2>4, <3>2 DEF Sound, Served
  <2> QED
    BY <2>2, <2>3, <2>4
<1>6. Saved' = Saved /\ ~Buying(r)' /\ At(r, "step")'
  BY <1>1 DEF Saved, Buying, At
<1>7. FreshAt(r)' /\ WaitsAt(r)'
  BY <1>1, <1>5, <1>6 DEF FreshAt, WaitsAt, At
<1>8. BuyerAt(r)'
  <2>1. s.step = "P2" => r \in Saved /\ s.step = store[r].step /\ s.status = store[r].status
                         /\ s.over = store[r].over
    BY <1>5
  <2> QED
    BY <1>1, <1>6, <2>1 DEF BuyerAt, At
<1>9. BillAt(r)'
  <2> SUFFICES ASSUME Holder(r) PROVE BillAt(r)'
    BY <1>3 DEF BillAt
  <2>1. /\ r \in Saved /\ Named(store[r]) /\ (Late => Late')
        /\ store[r].server \/ store[r].status \in Terminal \/ Crashed
    BY <1>2 DEF AccountAt, BillAt, Late, Grows
  <2>2. Named(s)' /\ (s.server \/ s.status \in Terminal \/ Crashed)
    BY <1>5, <2>1 DEF Named, Warns
  <2>3. Named(store[r])'
    BY <1>1, <2>1 DEF Named, Warns
  <2> QED
    BY <1>1, <1>6, <2>1, <2>2, <2>3 DEF BillAt, At, Grows, Named, Warns
<1> QED
  BY <1>4, <1>7, <1>8, <1>9 DEF AccountAt

LEMMA AccountSave ==
  ASSUME RunbookInv, Grows, \A q \in Runs : AccountAt(q), NEW r \in Runs, Save(r, "idle")
  PROVE  \A q \in Runs : AccountAt(q)'
<1> PICK s \in RunState : s = job[r].s
  BY DEF RunbookInv, TypeOK
<1>1. /\ store'[r] = s /\ \A q \in Runs \ {r} : store'[q] = store[q]
      /\ job'[r].pc = "idle" /\ \A q \in Runs \ {r} : job'[q] = job[q]
      /\ At(r, "save") /\ gw' = gw /\ acting' = acting
  BY DEF Save, Goto, RunbookInv, TypeOK, gateway
<1>2. ASSUME NEW q \in Runs PROVE Holder(q)' => Holder(q)
  BY <1>1 DEF Holder
<1>3. ASSUME NEW q \in Runs \ {r} PROVE AccountAt(q)'
  BY <1>1, <1>2, AccountFrame
<1>4. FreshAt(r)' /\ BuyerAt(r)' /\ WaitsAt(r)'
  BY <1>1 DEF FreshAt, BuyerAt, WaitsAt, Buying, At
<1>5. BillAt(r)'
  <2> SUFFICES ASSUME Holder(r) PROVE BillAt(r)'
    BY <1>2 DEF BillAt
  <2>1. Named(s) /\ (s.server \/ s.status \in Terminal) /\ (Late => Late')
    BY <1>1 DEF AccountAt, BillAt, Late, Grows, At
  <2>2. Named(store[r])'
    BY <1>1, <2>1 DEF Named, Warns
  <2>3. (r \in Saved)'
    BY <1>1, NoRunAssumption DEF Saved
  <2> QED
    BY <1>1, <2>1, <2>2, <2>3 DEF BillAt, At
<1> QED
  BY <1>3, <1>4, <1>5 DEF AccountAt

LEMMA AccountDeath ==
  ASSUME RunbookInv, Grows, \A q \in Runs : AccountAt(q), PilotDies
  PROVE  \A q \in Runs : AccountAt(q)'
<1> SUFFICES ASSUME NEW q \in Runs PROVE AccountAt(q)'
  OBVIOUS
<1>1. /\ job'[q].pc = "idle" /\ store' = store /\ gw' = gw /\ crashes' = crashes + 1
      /\ crashes \in Nat
  BY DEF PilotDies, Idle, gateway, RunbookInv, TypeOK
<1>2. Crashed'
  BY <1>1 DEF Crashed
<1>3. FreshAt(q)' /\ BuyerAt(q)' /\ WaitsAt(q)'
  BY <1>1 DEF FreshAt, BuyerAt, WaitsAt, Buying, At
<1>4. BillAt(q)'
  <2> SUFFICES ASSUME Holder(q) PROVE BillAt(q)'
    BY <1>1 DEF BillAt, Holder
  <2>1. q \in Saved /\ Named(store[q]) /\ (Late => Late')
    BY DEF AccountAt, BillAt, Late, Grows
  <2>2. Named(store[q])'
    BY <1>1, <2>1 DEF Named, Warns
  <2> QED
    BY <1>1, <1>2, <2>1, <2>2 DEF BillAt, At, Saved
<1> QED
  BY <1>3, <1>4 DEF AccountAt

LEMMA AccountOutside ==
  ASSUME RunbookInv, Grows, lane = "automated", \A q \in Runs : AccountAt(q), ~LoseOne,
         (\E r \in Runs : Register(r)) \/ Expire \/ Close \/ GatewayDies \/ UNCHANGED vars
  PROVE  \A q \in Runs : AccountAt(q)'
<1>1. job' = job /\ store' = store /\ gw' = gw /\ acting' = acting
  BY DEF Register, Expire, Close, GatewayDies, vars, gateway
<1>2. ASSUME NEW q \in Runs PROVE Holder(q)' => Holder(q)
  BY <1>1 DEF Holder
<1> QED
  BY <1>1, <1>2, AccountFrame

(* Who has bought is a run.                                                *)
LEMMA BuyerKept ==
  ASSUME RunbookInv, [Next]_vars, gw["P2"].state # "FAILED" => gw["P2"].run \in Runs
  PROVE  gw'["P2"].state # "FAILED" => gw'["P2"].run \in Runs
<1>1. ASSUME NEW r \in Runs, Serve(r) PROVE gw'["P2"] = gw["P2"] \/ gw'["P2"].run \in Runs
  BY <1>1, ServeGateway DEF Keys
<1>2. ASSUME NEW k \in Keys, Act(k) PROVE gw'["P2"] = gw["P2"] \/ gw'["P2"].run \in Runs
  <2> PICK r : r = gw[k].run
    OBVIOUS
  <2>1. r \in Runs /\ gw'[k].run = r /\ \A l \in Keys \ {k} : gw'[l] = gw[l]
    BY <1>2, ActCases
  <2> QED
    BY <2>1 DEF Keys
<1>3. ASSUME NEW r \in Runs, Register(r) PROVE gw'["P2"].run \in Runs
  BY <1>3 DEF Register, Latest, RunbookInv, TypeOK, Keys
<1>4. ASSUME NEW r \in Runs, Advance(r) PROVE gw' = gw
  BY <1>4, AdvanceOwn
<1>5. ASSUME NEW r, Start(r) \/ Poll(r) \/ RunCutover(r) \/ Save(r, "idle") PROVE gw' = gw
  BY <1>5 DEF Start, Poll, RunCutover, Save, Load, gateway
<1>6. ASSUME Expire \/ Close \/ GatewayDies \/ PilotDies \/ UNCHANGED vars PROVE gw' = gw
  BY <1>6 DEF Expire, Close, GatewayDies, PilotDies, vars, gateway
<1>7. gw'["P2"] = gw["P2"] \/ gw'["P2"].run \in Runs
  BY <1>1, <1>2, <1>3, <1>4, <1>5, <1>6 DEF Next, Environment
<1> QED
  BY <1>7

LEMMA AccountKept ==
  ASSUME RunbookInv, RunbookInv', TornInv, AccountInv, [Next]_vars
  PROVE  AccountInv'
<1>1. (gw["P2"].state # "FAILED" => gw["P2"].run \in Runs)'
  BY BuyerKept DEF AccountInv
<1> SUFFICES ASSUME lane' = "automated", lost' = 0 PROVE \A q \in Runs : AccountAt(q)'
  BY <1>1 DEF AccountInv
<1>2. Grows /\ (lost' = lost \/ LoseOne) /\ lane' = lane /\ lost \in Nat
  BY FaultsGrow, ServerSteps DEF RunbookInv, TypeOK
<1>3. ~LoseOne /\ lost = 0 /\ lane = "automated"
  BY <1>2 DEF LoseOne
<1>4. \A q \in Runs : AccountAt(q)
  BY <1>3 DEF AccountInv
<1>5. ASSUME NEW r \in Runs, Start(r) \/ Poll(r) \/ RunCutover(r) PROVE \A q \in Runs : AccountAt(q)'
  BY <1>2, <1>4, <1>5, AccountCall
<1>6. ASSUME NEW r \in Runs, Advance(r) PROVE \A q \in Runs : AccountAt(q)'
  <2>1. Step(r) /\ store' = store /\ gw' = gw /\ acting' = acting
    BY <1>6, AdvanceStep, AdvanceOwn
  <2>2. AccountAt(r)'
    BY <1>2, <1>3, <1>4, <1>6, AccountAdvance
  <2>3. ASSUME NEW q \in Runs \ {r} PROVE AccountAt(q)'
    <3>1. job'[q] = job[q] /\ (Holder(q)' => Holder(q))
      BY <2>1 DEF Step, Holder
    <3> QED
      BY <1>2, <1>4, <2>1, <3>1, AccountFrame
  <2> QED
    BY <2>2, <2>3
<1>7. ASSUME NEW r \in Runs, Serve(r) PROVE \A q \in Runs : AccountAt(q)'
  BY <1>2, <1>3, <1>4, <1>7, AccountServe
<1>8. ASSUME NEW r \in Runs, Save(r, "idle") PROVE \A q \in Runs : AccountAt(q)'
  BY <1>2, <1>4, <1>8, AccountSave
<1>9. ASSUME NEW k \in Keys, Act(k) PROVE \A q \in Runs : AccountAt(q)'
  BY <1>2, <1>3, <1>4, <1>9, AccountAct
<1>10. CASE PilotDies
  BY <1>2, <1>4, <1>10, AccountDeath
<1>11. CASE (\E r \in Runs : Register(r)) \/ Expire \/ Close \/ GatewayDies \/ UNCHANGED vars
  BY <1>2, <1>3, <1>4, <1>11, AccountOutside
<1>12. Judged \subseteq Runs
  BY JudgedAssumption
<1> QED
  BY <1>5, <1>6, <1>7, <1>8, <1>9, <1>10, <1>11, <1>12 DEF Next, Environment

LEMMA AccountInit == Init => AccountInv
<1> SUFFICES ASSUME Init PROVE AccountInv
  OBVIOUS
<1>1. gw["P2"].state = "FAILED" /\ \A q \in Runs : At(q, "idle")
  BY DEF Init, Keys, At, Idle
<1>2. ASSUME NEW q \in Runs PROVE AccountAt(q)
  BY <1>1 DEF AccountAt, FreshAt, BuyerAt, WaitsAt, BillAt, Buying, Holder, At
<1> QED
  BY <1>1, <1>2 DEF AccountInv

LEMMA AccountInvariant == Spec => [](RunbookInv /\ AccountInv)
BY AgentInvariant, AccountInit, AccountKept, PTL DEF Spec

(* A paid server that no run names, carries on with or warns of takes the  *)
(* loss of an answer, or a death of the Pilot with no poll before exp or   *)
(* in the middle of a line of its ledger.                                  *)
THEOREM SilentOnlyAfterLossHolds == Spec => []SilentOnlyAfterLoss
<1>1. RunbookInv /\ AccountInv => SilentOnlyAfterLoss
  <2> SUFFICES ASSUME RunbookInv, AccountInv, SilentServer, ~(lost > 0)
               PROVE  (crashes > 0 /\ expired) \/ torn
    BY DEF SilentOnlyAfterLoss
  <2>1. lost = 0 /\ lane = "automated" /\ server = "live"
    BY DEF RunbookInv, TypeOK, SilentServer
  <2>2. gw["P2"].state # "FAILED"
    BY <2>1 DEF RunbookInv, GatewayAt
  <2> PICK r : r = gw["P2"].run
    OBVIOUS
  <2>3. r \in Runs /\ Holder(r) /\ AccountAt(r)
    BY <2>1, <2>2 DEF AccountInv, Holder
  <2>4. r \in Saved /\ Named(store[r])
    BY <2>3 DEF AccountAt, BillAt
  <2>5. ~store[r].server /\ store[r].status \in Terminal /\ ~Warns(store[r])
    BY <2>4 DEF SilentServer, Warns
  <2> QED
    BY <2>4, <2>5 DEF Named, Late, Crashed
<1> QED
  BY <1>1, AccountInvariant, PTL

-----------------------------------------------------------------------------
(* The operator's CLI keeps the runbook's invariant too.                   *)

(* The run that may have bought the server speaks of it: it names it, goes *)
(* on to it, or has an outcome that --resume reopens.                      *)
Traced(s) ==
  \/ s.server
  \/ /\ s.step = "P2" /\ ~s.over
     /\ s.status \notin Terminal \/ (s.status = "FAILED" /\ s.error \in {"UNKNOWN", "IN_FLIGHT"})

(* s is what --resume or --cutover makes of the saved state u.             *)
Resumes(u, s) ==
  /\ s.server = u.server /\ s.dnsRec = u.dnsRec /\ s.cost = u.cost
  /\ s.step = u.step \/ s.step = "P8"
  /\ s.status \in {u.status, "RUNNING"}
  /\ Traced(u) => Traced(s)

LEMMA ReopenedState ==
  ASSUME NEW r, NEW u \in RunState, Sound(r, u), Counted(u)
  PROVE  \E s \in RunState :
           s = [Reopened(u) EXCEPT !.tok = FALSE] /\ Sound(r, s) /\ Counted(s) /\ Resumes(u, s)
<1> DEFINE unknown == u.error \in {"UNKNOWN", "IN_FLIGHT"}
           e == IF unknown THEN "-" ELSE u.error
<1>1. "RUNNING" \in Statuses /\ e \in Errors
  BY DEF Statuses, Errors, RunState
<1>2. PICK v : v = [u EXCEPT !.status = "RUNNING", !.error = e]
  OBVIOUS
<1>3. \/ Reopened(u) = u /\ ~(u.status = "FAILED" /\ u.step = "P2" /\ unknown)
      \/ Reopened(u) = v /\ (u.status = "AWAITING_HUMAN_PURCHASE" \/ u.step = "P2")
  BY <1>2 DEF Reopened
<1> HIDE DEF e
<1>4. /\ v \in RunState /\ v.status = "RUNNING" /\ v.step = u.step /\ v.server = u.server
      /\ v.polls = u.polls /\ v.over = u.over /\ v.dnsRec = u.dnsRec /\ v.cost = u.cost
  BY <1>1, <1>2 DEF RunState
<1> PICK w : w = Reopened(u)
  OBVIOUS
<1>5. /\ w \in RunState /\ w.step = u.step /\ w.server = u.server /\ w.polls = u.polls
      /\ w.over = u.over /\ w.dnsRec = u.dnsRec /\ w.cost = u.cost
  BY <1>3, <1>4
<1>6. \/ w = u /\ ~(u.status = "FAILED" /\ u.step = "P2" /\ unknown)
      \/ w.status = "RUNNING" /\ (u.status = "AWAITING_HUMAN_PURCHASE" \/ u.step = "P2")
  BY <1>3, <1>4
<1> PICK s : s = [w EXCEPT !.tok = FALSE]
  OBVIOUS
<1>7. /\ s \in RunState /\ s.step = w.step /\ s.server = w.server /\ s.polls = w.polls
      /\ s.over = w.over /\ s.dnsRec = w.dnsRec /\ s.cost = w.cost
      /\ s.status = w.status /\ s.error = w.error
  BY <1>5 DEF RunState
<1>8. /\ s.step = u.step /\ s.server = u.server /\ s.polls = u.polls /\ s.over = u.over
      /\ s.dnsRec = u.dnsRec /\ s.cost = u.cost
  BY <1>5, <1>7
<1>9. \/ s.status = u.status /\ ~(u.status = "FAILED" /\ u.step = "P2" /\ unknown)
      \/ s.status = "RUNNING" /\ (u.status = "AWAITING_HUMAN_PURCHASE" \/ u.step = "P2")
  BY <1>6, <1>7
<1>10. Sound(r, s) /\ Counted(s)
  BY <1>8, <1>9 DEF Sound, Counted, Terminal
<1>11. Resumes(u, s)
  BY <1>8, <1>9 DEF Resumes, Traced, Terminal
<1> QED
  BY <1>7, <1>10, <1>11

LEMMA CutoverState ==
  ASSUME NEW r, NEW u \in RunState, Sound(r, u), u.status = "DEPLOYED" \/ u.step = "P8"
  PROVE  \E s \in RunState :
           /\ s = [u EXCEPT !.step = "P8", !.status = "RUNNING", !.error = "-", !.tok = TRUE]
           /\ Sound(r, s) /\ Counted(s) /\ Resumes(u, s)
<1> PICK s : s = [u EXCEPT !.step = "P8", !.status = "RUNNING", !.error = "-", !.tok = TRUE]
  OBVIOUS
<1>1. /\ s.step = "P8" /\ s.status = "RUNNING" /\ s.server = u.server
      /\ s.dnsRec = u.dnsRec /\ s.cost = u.cost
  BY DEF RunState
<1>2. "P8" \in Steps /\ "RUNNING" \in Statuses /\ "-" \in Errors
  BY DEF Steps, Statuses, Errors
<1>3. s \in RunState
  BY <1>2, Zenon DEF RunState
<1>4. u.server = TRUE /\ Owns(r, "P6") /\ (lane = "automated" => Owns(r, "P2"))
  BY DEF Sound, Served
<1> QED
  BY <1>1, <1>3, <1>4 DEF Sound, Counted, Served, Resumes, Traced

(* What the CLI takes up: a new run, a saved one, or one to clean up.      *)
Taken(r, l, s) ==
  \/ store[r] = NoRun /\ s = newRun /\ l \in {"idle", "step"}
  \/ r \in Saved /\ Resumes(store[r], s) /\ l \in {"idle", "step"}
  \/ /\ r \in Saved /\ s = store[r] /\ l \in {"cleanDns", "clean"}
     /\ lane = "automated" /\ (s.server \/ s.dnsRec)

LEMMA CliCall ==
  ASSUME RunbookInv, NEW r \in Runs, Live(r) \/ Resume(r) \/ CutoverRun(r) \/ Cleanup(r)
  PROVE  \/ UNCHANGED job
         \/ \E l \in {"idle", "step", "cleanDns", "clean"} : \E s \in RunState :
              /\ job' = [job EXCEPT ![r] = [Idle EXCEPT !.pc = l, !.s = s]]
              /\ Sound(r, s) /\ Counted(s) /\ Taken(r, l, s)
<1>1. CASE Live(r)
  BY <1>1, NewRunSound DEF Live, Enters, Taken
<1>2. CASE r \in Saved
  <2> PICK u \in RunState : u = store[r]
    BY <1>2 DEF RunbookInv, TypeOK, Saved
  <2>1. Sound(r, u) /\ Counted(u)
    BY <1>2 DEF RunbookInv, StoreAt
  <2>2. ASSUME NEW s \in RunState, Enters(r, s), Sound(r, s), Counted(s), Resumes(u, s)
        PROVE  \E l \in {"idle", "step"} :
                 /\ job' = [job EXCEPT ![r] = [Idle EXCEPT !.pc = l, !.s = s]]
                 /\ Taken(r, l, s)
    BY <1>2, <2>2 DEF Enters, Taken
  <2>3. CASE Resume(r)
    <3>1. PICK s \in RunState :
            s = [Reopened(u) EXCEPT !.tok = FALSE] /\ Sound(r, s) /\ Counted(s) /\ Resumes(u, s)
      BY <2>1, ReopenedState
    <3>2. Enters(r, s) \/ UNCHANGED job
      BY <2>3, <3>1 DEF Resume
    <3> QED
      BY <2>2, <3>1, <3>2
  <2>4. CASE CutoverRun(r)
    <3>1. u.status = "DEPLOYED" \/ u.step = "P8"
      BY <2>4 DEF CutoverRun
    <3>2. PICK s \in RunState :
            /\ s = [u EXCEPT !.step = "P8", !.status = "RUNNING", !.error = "-", !.tok = TRUE]
            /\ Sound(r, s) /\ Counted(s) /\ Resumes(u, s)
      BY <2>1, <3>1, CutoverState
    <3>3. Enters(r, s)
      BY <2>4, <3>2 DEF CutoverRun
    <3> QED
      BY <2>2, <3>2, <3>3
  <2>5. CASE Cleanup(r)
    <3> PICK l \in {"cleanDns", "clean"} : l = IF u.dnsRec THEN "cleanDns" ELSE "clean"
      OBVIOUS
    <3>1. job' = [job EXCEPT ![r] = [Idle EXCEPT !.pc = l, !.s = u]]
      BY <2>5 DEF Cleanup
    <3>2. Taken(r, l, u)
      BY <1>2, <2>5 DEF Taken, Cleanup
    <3> QED
      BY <2>1, <3>1, <3>2
  <2> QED
    BY <1>1, <2>3, <2>4, <2>5
<1>3. Resume(r) \/ CutoverRun(r) \/ Cleanup(r) => r \in Saved
  BY DEF Resume, CutoverRun, Cleanup
<1> QED
  BY <1>1, <1>2, <1>3

(* --resume may release this run's own INTENT; nothing else is written.    *)
LEMMA CliRows ==
  ASSUME RunbookInv, NEW r \in Runs, Live(r) \/ Resume(r) \/ CutoverRun(r) \/ Cleanup(r)
  PROVE  /\ UNCHANGED <<store, gateway, world, mandate, faults>>
         /\ Kept /\ rows' \in Seq([key : {"P2", "P2H"}, run : Runs, state : States])
         /\ NobodyRuns
         /\ rows' = rows \/ (r \in Saved /\ rows' = Append(rows, Note(r, "P2", "FAILED")))
<1>1. UNCHANGED <<store, gateway, world, mandate, faults>> /\ NobodyRuns
  BY DEF Live, Resume, CutoverRun, Cleanup
<1>2. rows' = rows \/ (r \in Saved /\ rows' = Append(rows, Note(r, "P2", "FAILED")))
  BY DEF Live, Resume, CutoverRun, Cleanup
<1>3. UNCHANGED <<lane, gw>>
  BY <1>1 DEF gateway, mandate
<1>4. Note(r, "P2", "FAILED") \in [key : {"P2", "P2H"}, run : Runs, state : States]
  BY DEF Note, States
<1>5. rows' \in Seq([key : {"P2", "P2H"}, run : Runs, state : States])
  <2> DEFINE R == [key : {"P2", "P2H"}, run : Runs, state : States]
  <2>1. rows \in Seq(R) /\ Note(r, "P2", "FAILED") \in R
    BY <1>4 DEF RunbookInv, TypeOK
  <2> HIDE DEF R
  <2>2. rows' \in Seq(R)
    BY <1>2, <2>1
  <2> QED
    BY <2>2 DEF R
<1>6. Kept
  BY <1>2, <1>3, NothingChanged, RowsGrow DEF RunbookInv
<1> QED
  BY <1>1, <1>2, <1>5, <1>6

(* --cleanup: the DNS record, then the server.                             *)
LEMMA CleanupKeeps ==
  ASSUME RunbookInv, NEW r \in Runs, CleanDns(r) \/ CleanServer(r)
  PROVE  RunbookInv'
<1> PICK s \in RunState : s = job[r].s
  BY DEF RunbookInv, TypeOK
<1>1. TypeOK /\ Sound(r, s) /\ Counted(s) /\ job[r].pc \in {"cleanDns", "clean"}
  BY DEF CleanDns, CleanServer, RunbookInv, JobAt, At
<1>2. /\ UNCHANGED <<store, rows, gateway, mandate, faults>>
      /\ server' \in {server, "gone"} /\ dns' \in {dns, gw["P8"].previous}
  BY DEF CleanDns, CleanServer
<1>3. Kept
  BY <1>2, NothingChanged DEF gateway, mandate
<1>4. Sound(r, s)'
  BY <1>1, <1>3, SoundKept
<1>5. ASSUME NEW l \in {"clean", "idle"}, Goto(r, l)
      PROVE  job' \in Jobs /\ JobAt(r)' /\ \A q \in Runs \ {r} : job'[q] = job[q]
  <2>1. /\ job' \in Jobs /\ job'[r].pc = l /\ job'[r].s = s
        /\ \A q \in Runs \ {r} : job'[q] = job[q]
    BY <1>1, <1>5, GotoJob DEF Pcs
  <2> QED
    BY <1>1, <1>4, <2>1 DEF JobAt, At
<1>6. ASSUME Return(r, [s EXCEPT !.status = "ROLLED_BACK", !.cost = FALSE, !.error = "CLEANED"])
      PROVE  job' \in Jobs /\ JobAt(r)' /\ \A q \in Runs \ {r} : job'[q] = job[q]
  <2> PICK t : t = [s EXCEPT !.status = "ROLLED_BACK", !.cost = FALSE, !.error = "CLEANED"]
    OBVIOUS
  <2>1. "ROLLED_BACK" \in Statuses /\ "CLEANED" \in Errors
    BY DEF Statuses, Errors
  <2>2. t \in RunState
    BY <2>1, Zenon DEF RunState
  <2>3. /\ t.status = "ROLLED_BACK" /\ t.step = s.step /\ t.server = s.server
        /\ t.polls = s.polls
    BY DEF RunState
  <2>4. Sound(r, t)' /\ Counted(t)
    BY <1>1, <1>4, <2>3 DEF Sound, Counted, Terminal
  <2> QED
    BY <1>1, <1>6, <2>2, <2>4, ReturnJob, ReturnAt
<1>7. job' \in Jobs /\ JobAt(r)' /\ \A q \in Runs \ {r} : job'[q] = job[q]
  BY <1>5, <1>6 DEF CleanDns, CleanServer
<1>8. TypeOK'
  <2>1. gw["P8"].previous \in {"old", "ours"}
    BY <1>1 DEF TypeOK, Keys
  <2> QED
    BY <1>1, <1>2, <1>7, <2>1 DEF TypeOK, Jobs, gateway, mandate, faults
<1>9. GatewayAt' /\ IntentBeforeClaim'
  BY <1>2, <1>3, GatewaySame DEF gateway
<1> QED
  BY <1>2, <1>3, <1>7, <1>8, <1>9, OthersKept

LEMMA CliCallKeeps ==
  ASSUME RunbookInv, NEW r \in Runs, Live(r) \/ Resume(r) \/ CutoverRun(r) \/ Cleanup(r)
  PROVE  RunbookInv'
<1>1. /\ UNCHANGED <<store, gateway, world, mandate, faults>>
      /\ Kept /\ rows' \in Seq([key : {"P2", "P2H"}, run : Runs, state : States])
  BY CliRows
<1>2. CASE UNCHANGED job
  <2>1. TypeOK'
    BY <1>1, <1>2 DEF RunbookInv, TypeOK, gateway, world, mandate, faults
  <2>2. UNCHANGED <<gw, acting, server>>
    BY <1>1 DEF gateway, world
  <2> QED
    BY <1>1, <1>2, <2>1, <2>2, GatewaySame, OthersKept
<1>3. ASSUME NEW l \in {"idle", "step", "cleanDns", "clean"}, NEW s \in RunState,
             job' = [job EXCEPT ![r] = [Idle EXCEPT !.pc = l, !.s = s]], Sound(r, s), Counted(s)
      PROVE  RunbookInv'
  <2>1. l \in Pcs
    BY DEF Pcs
  <2> QED
    BY <1>1, <1>3, <2>1, LoadKeeps
<1> QED
  BY <1>2, <1>3, CliCall

(* A death while --resume writes leaves everything else as it was.         *)
LEMMA ResumeDiesKeeps ==
  ASSUME RunbookInv, NEW r, ResumeDies(r)
  PROVE  RunbookInv'
<1>1. /\ UNCHANGED <<store, job, rows, gw, acting, server, dns, lane, expired, closed, lost>>
      /\ crashes' \in Nat /\ torn' \in BOOLEAN
  BY DEF ResumeDies, RunbookInv, TypeOK, gateway, world, mandate
<1>2. TypeOK'
  BY <1>1 DEF RunbookInv, TypeOK
<1>3. Kept
  BY <1>1, NothingChanged
<1> QED
  BY <1>1, <1>2, <1>3, GatewaySame, OthersKept

LEMMA CliKeeps ==
  ASSUME RunbookInv, [CliNext]_vars
  PROVE  RunbookInv'
<1>1. ASSUME NEW r \in Runs, SaveAndLoop(r) PROVE RunbookInv'
  BY <1>1, SaveKeeps DEF SaveAndLoop
<1>2. CASE \E r \in Runs : Live(r) \/ Resume(r) \/ CutoverRun(r) \/ Cleanup(r)
  BY <1>2, CliCallKeeps
<1>3. CASE \E r \in Runs : CleanDns(r) \/ CleanServer(r)
  BY <1>3, CleanupKeeps
<1>4. CASE \E r \in Runs : Advance(r) \/ Serve(r)
  BY <1>4, AdvanceKeeps, ServeKeeps
<1> QED
  BY <1>1, <1>2, <1>3, <1>4, ResumeDiesKeeps, EnvironmentKeeps, UnchangedKeeps DEF CliNext

(* The CLI's specification keeps the runbook's invariant as the agent's    *)
(* does.                                                                   *)
THEOREM CliRunbookInvariant == CliSpec => []RunbookInv
BY RunbookInit, CliKeeps, PTL DEF CliSpec

(* Under the CLI too, no two runs of a mandate hold its server: the row    *)
(* of P2 at the gateway names the one that does.                           *)
THEOREM CliOwnServerOnlyHolds == CliSpec => []OwnServerOnly
BY RunsOwnTheirServer, CliRunbookInvariant, PTL

(* --resume releases an open INTENT by a row of its own and deletes none,  *)
(* so under the CLI too the gateway has no claim without a note of it.     *)
THEOREM CliIntentBeforeClaimHolds == CliSpec => []IntentBeforeClaim
BY CliRunbookInvariant, PTL DEF RunbookInv

-----------------------------------------------------------------------------
(* Where the domain points.  A row of the gateway's ledger records where   *)
(* it pointed before, so that while it has not moved there is nothing to   *)
(* go back to but "old".                                                   *)
DnsRecorded == dns = "old" => gw["P8"].previous = "old"

DnsStep ==
  \/ dns' = dns /\ (gw'["P8"] = gw["P8"] \/ gw'["P8"].previous = dns)
  \/ dns' = "ours" /\ "P8" \in acting
  \/ dns' \in {dns, gw["P8"].previous} /\ gw' = gw

LEMMA LatestPrevious ==
  ASSUME TypeOK, NEW k \in Keys, NEW st, NEW r, Latest(k, st, r, dns)
  PROVE  gw'["P8"] = gw["P8"] \/ gw'["P8"].previous = dns
BY DEF TypeOK, Latest, Keys

LEMMA EffectOnDns ==
  ASSUME NEW ks \in SUBSET acting, Effect(ks)
  PROVE  dns' = dns \/ (dns' = "ours" /\ "P8" \in acting)
BY DEF Effect

LEMMA DnsSteps ==
  ASSUME RunbookInv, [CliNext]_vars
  PROVE  DnsStep
<1>1. TypeOK
  BY DEF RunbookInv
<1>2. ASSUME NEW r \in Runs, Live(r) \/ Resume(r) \/ CutoverRun(r) \/ Cleanup(r) PROVE DnsStep
  BY <1>2, CliRows DEF DnsStep, gateway, world
<1>3. ASSUME NEW r \in Runs, Advance(r) PROVE DnsStep
  BY <1>3, AdvanceOwn DEF DnsStep
<1>4. ASSUME NEW r \in Runs, Serve(r) PROVE DnsStep
  <2> PICK k \in Keys : k = job[r].key
    BY <1>1 DEF TypeOK
  <2>1. CASE Claimed(r)
    BY <1>1, <2>1, LatestPrevious DEF Claimed, DnsStep, world
  <2>2. CASE Unresolved(r)
    <3>1. dns' = dns /\ (gw' = gw \/ Latest(k, "COMMITTED", r, dns))
      BY <2>2 DEF Unresolved, world
    <3> QED
      BY <1>1, <3>1, LatestPrevious DEF DnsStep
  <2>3. CASE NeverArrives(r) \/ TurnedAway(r) \/ Recorded(r) \/ TimeOut(r)
    BY <2>3 DEF NeverArrives, TurnedAway, Recorded, TimeOut, DnsStep, gateway, world
  <2> QED
    BY <1>4, <2>1, <2>2, <2>3 DEF Serve
<1>5. ASSUME NEW r \in Runs, SaveAndLoop(r) PROVE DnsStep
  BY <1>5 DEF SaveAndLoop, Save, DnsStep, gateway, world
<1>6. ASSUME NEW r \in Runs, CleanDns(r) \/ CleanServer(r) PROVE DnsStep
  BY <1>6 DEF CleanDns, CleanServer, DnsStep, gateway
<1>7. ASSUME NEW k \in Keys, Act(k) PROVE DnsStep
  <2>1. /\ k \in acting /\ (Effect({k}) \/ UNCHANGED world)
        /\ gw' = gw \/ \E st \in States : Latest(k, st, gw[k].run, dns)
    BY <1>7 DEF Act, States
  <2>2. gw'["P8"] = gw["P8"] \/ gw'["P8"].previous = dns
    BY <1>1, <2>1, LatestPrevious
  <2>3. dns' = dns \/ (dns' = "ours" /\ "P8" \in acting)
    BY <2>1, EffectOnDns DEF world
  <2> QED
    BY <2>2, <2>3 DEF DnsStep
<1>8. ASSUME NEW r \in Runs, Register(r) PROVE DnsStep
  BY <1>1, <1>8, LatestPrevious DEF Register, DnsStep, Keys
<1>9. CASE GatewayDies
  <2>1. gw' = gw /\ \E done \in SUBSET acting : Effect(done)
    BY <1>9 DEF GatewayDies
  <2> QED
    BY <2>1, EffectOnDns DEF DnsStep
<1>10. CASE Expire \/ Close \/ PilotDies \/ (\E r \in Runs : ResumeDies(r)) \/ UNCHANGED vars
  BY <1>10 DEF Expire, Close, PilotDies, ResumeDies, vars, DnsStep, gateway, world
<1> QED
  BY <1>2, <1>3, <1>4, <1>5, <1>6, <1>7, <1>8, <1>9, <1>10 DEF CliNext, Environment

LEMMA DnsRecordedInvariant == CliSpec => [](RunbookInv /\ DnsRecorded)
<1>1. Init => DnsRecorded
  BY DEF Init, DnsRecorded, Keys
<1>2. RunbookInv /\ DnsRecorded /\ [CliNext]_vars => DnsRecorded'
  BY DnsSteps DEF DnsStep, DnsRecorded
<1> QED
  BY <1>1, <1>2, CliRunbookInvariant, PTL DEF CliSpec

(* live.ts --cutover on a deployed run, or one interrupted at P8, whatever *)
(* was resumed, cleaned up or lost in between: the upsert that moves the   *)
(* domain is the one of the run whose deployment is COMMITTED.             *)
THEOREM DnsAfterDeploymentHolds == CliSpec => DnsAfterDeployment
<1>1. RunbookInv /\ DnsRecorded /\ [CliNext]_vars =>
        [dns = "old" /\ dns' = "ours" => gw["P6"].state = "COMMITTED" /\ gw["P8"].run = gw["P6"].run]_vars
  <2> SUFFICES ASSUME RunbookInv, DnsRecorded, [CliNext]_vars, dns = "old", dns' = "ours"
               PROVE  gw["P6"].state = "COMMITTED" /\ gw["P8"].run = gw["P6"].run
    OBVIOUS
  <2>1. "P8" \in acting
    BY DnsSteps DEF DnsStep, DnsRecorded
  <2> QED
    BY <2>1 DEF RunbookInv, GatewayAt, Owns
<1> QED
  BY <1>1, DnsRecordedInvariant, PTL DEF CliSpec, DnsAfterDeployment

-----------------------------------------------------------------------------
(* What the CLI knows of a run's state: the DNS record of a run is written *)
(* after its server, nobody waits for a human where a machine buys, and    *)
(* --cleanup works on the state that was saved, of a machine's purchase.    *)
Fit(s) ==
  /\ s.dnsRec => s.step \in Served
  /\ lane = "automated" => s.status # "AWAITING_HUMAN_PURCHASE"

FitAt(r) ==
  /\ ~At(r, "idle") => Fit(job[r].s)
  /\ r \in Saved => Fit(store[r])
  /\ job[r].pc \in {"cleanDns", "clean"} =>
       lane = "automated" /\ r \in Saved /\ job[r].s = store[r] /\ job[r].s.server

FitInv == \A r \in Runs : FitAt(r)

LEMMA CliJob ==
  ASSUME RunbookInv, NEW r \in Runs, Live(r) \/ Resume(r) \/ CutoverRun(r) \/ Cleanup(r)
  PROVE  \/ UNCHANGED job
         \/ /\ Taken(r, job'[r].pc, job'[r].s)
            /\ \A q \in Runs \ {r} : job'[q] = job[q]
<1>1. ASSUME NEW l \in {"idle", "step", "cleanDns", "clean"}, NEW s \in RunState,
             job' = [job EXCEPT ![r] = [Idle EXCEPT !.pc = l, !.s = s]]
      PROVE  /\ job'[r].pc = l /\ job'[r].s = s
             /\ \A q \in Runs \ {r} : job'[q] = job[q]
  <2> PICK j : j = [Idle EXCEPT !.pc = l, !.s = s]
    OBVIOUS
  <2>1. j.pc = l /\ j.s = s
    BY DEF Idle
  <2>2. job'[r] = j /\ \A q \in Runs \ {r} : job'[q] = job[q]
    BY <1>1 DEF RunbookInv, TypeOK
  <2> QED
    BY <2>1, <2>2
<1>2. CASE UNCHANGED job
  BY <1>2
<1>3. CASE \E l \in {"idle", "step", "cleanDns", "clean"} : \E s \in RunState :
             /\ job' = [job EXCEPT ![r] = [Idle EXCEPT !.pc = l, !.s = s]]
             /\ Taken(r, l, s)
  <2> PICK l \in {"idle", "step", "cleanDns", "clean"}, s \in RunState :
        /\ job' = [job EXCEPT ![r] = [Idle EXCEPT !.pc = l, !.s = s]]
        /\ Taken(r, l, s)
    BY <1>3
  <2> HIDE DEF Taken
  <2>1. /\ job'[r].pc = l /\ job'[r].s = s
        /\ \A q \in Runs \ {r} : job'[q] = job[q]
    BY <1>1
  <2> QED
    BY <2>1
<1> QED
  BY <1>2, <1>3, CliCall

LEMMA FitTaken ==
  ASSUME NEW r, NEW l, NEW s, RunbookInv, r \in Saved => Fit(store[r]), Taken(r, l, s), r \in Runs
  PROVE  Fit(s)
<1>1. CASE s = newRun
  BY <1>1 DEF Fit, newRun
<1>2. CASE r \in Saved /\ s = store[r]
  BY <1>2
<1>3. CASE r \in Saved /\ Resumes(store[r], s)
  BY <1>3 DEF Fit, Resumes, Served
<1> QED
  BY <1>1, <1>2, <1>3 DEF Taken

(* A run's state where neither it nor the lane moves.                      *)
LEMMA FitFrame ==
  ASSUME NEW r, FitAt(r), lane' = lane, store'[r] = store[r], job'[r] = job[r] \/ job'[r].pc = "idle"
  PROVE  FitAt(r)'
BY DEF FitAt, Fit, At, Saved

LEMMA FitKept ==
  ASSUME RunbookInv, FitInv, [CliNext]_vars
  PROVE  FitInv'
<1>1. ASSUME NEW r \in Runs, Live(r) \/ Resume(r) \/ CutoverRun(r) \/ Cleanup(r) PROVE FitInv'
  <2>1. lane' = lane /\ store' = store
    BY <1>1, CliRows DEF mandate
  <2>2. CASE UNCHANGED job
    BY <2>1, <2>2, FitFrame DEF FitInv
  <2>3. CASE /\ Taken(r, job'[r].pc, job'[r].s)
             /\ \A q \in Runs \ {r} : job'[q] = job[q]
    <3> PICK l : l = job'[r].pc
      OBVIOUS
    <3> PICK s : s = job'[r].s
      OBVIOUS
    <3>1. Fit(s) /\ Taken(r, l, s)
      BY <2>3, FitTaken DEF FitInv, FitAt
    <3>2. Fit(s)'
      BY <2>1, <3>1 DEF Fit
    <3>3. l \in {"cleanDns", "clean"} => lane = "automated" /\ r \in Saved /\ s = store[r] /\ s.server
      BY <3>1 DEF Taken, Fit, RunbookInv, StoreAt, Sound
    <3>4. r \in Saved => Fit(store[r])'
      <4> PICK u : u = store[r] /\ u = store'[r]
        BY <2>1
      <4>1. r \in Saved => Fit(u)'
        BY <2>1 DEF FitInv, FitAt, Fit
      <4> QED
        BY <4>1 DEF Fit
    <3>5. FitAt(r)'
      BY <2>1, <3>2, <3>3, <3>4 DEF FitAt, Saved, Fit
    <3> QED
      BY <2>1, <2>3, <3>5, FitFrame DEF FitInv
  <2> QED
    BY <1>1, <2>2, <2>3, CliJob
<1>2. ASSUME NEW r \in Runs, Step(r), lane' = lane, store' = store
      PROVE  FitInv'
  <2> PICK s : s = job[r].s
    OBVIOUS
  <2> PICK t : t = job'[r].s
    OBVIOUS
  <2>1. Fit(s) /\ Sound(r, s)
    BY <1>2 DEF Step, FitInv, FitAt, RunbookInv, JobAt
  <2>2. Fit(t)'
    BY <1>2, <2>1 DEF Fit, Step, Sound
  <2>3. job'[r].pc \notin {"cleanDns", "clean"} /\ Saved' = Saved /\ FitAt(r)
    BY <1>2 DEF FitInv, Step, Saved
  <2>4. r \in Saved => Fit(store[r])'
    <3> PICK u : u = store[r] /\ u = store'[r]
      BY <1>2
    <3>1. r \in Saved => Fit(u)'
      BY <1>2, <2>3 DEF FitAt, Fit
    <3> QED
      BY <3>1 DEF Fit
  <2>5. Fit(job[r].s)'
    BY <2>2 DEF Fit
  <2>6. FitAt(r)'
    BY <2>3, <2>4, <2>5 DEF FitAt
  <2> QED
    BY <1>2, <2>6, FitFrame DEF FitInv, Step
<1>3. ASSUME NEW r \in Runs, Advance(r) PROVE FitInv'
  BY <1>2, <1>3, AdvanceStep, AdvanceOwn
<1>4. ASSUME NEW r \in Runs, Serve(r) PROVE FitInv'
  <2>1. store' = store /\ lane' = lane
    BY <1>4 DEF Serve, NeverArrives, TurnedAway, Claimed, Recorded, Unresolved, TimeOut, mandate
  <2> QED
    BY <1>2, <1>4, <2>1, ServeStep
<1>5. ASSUME NEW k \in Keys, Act(k) PROVE FitInv'
  <2>1. lane' = lane
    BY <1>5 DEF Act, mandate
  <2>2. store' = store /\ (job' = job \/ \E r \in Runs : Step(r))
    BY <1>5, ActStep
  <2>3. CASE job' = job
    BY <2>1, <2>2, <2>3, FitFrame DEF FitInv
  <2> QED
    BY <1>2, <2>1, <2>2, <2>3
<1>6. ASSUME NEW r \in Runs, SaveAndLoop(r) PROVE FitInv'
  <2>1. PICK l \in {"idle", "step"} : Save(r, l)
    BY <1>6 DEF SaveAndLoop
  <2> PICK s : s = job[r].s
    OBVIOUS
  <2>2. lane' = lane /\ At(r, "save") /\ Fit(s)
    BY <2>1 DEF Save, mandate, FitInv, FitAt, At
  <2>3. /\ store'[r] = s /\ \A q \in Runs \ {r} : store'[q] = store[q]
        /\ job'[r].pc = l /\ job'[r].s = s /\ \A q \in Runs \ {r} : job'[q] = job[q]
    BY <2>1 DEF Save, Goto, RunbookInv, TypeOK
  <2>4. Fit(s)'
    BY <2>2 DEF Fit
  <2>5. FitAt(r)'
    BY <2>3, <2>4 DEF FitAt, Fit
  <2> QED
    BY <2>2, <2>3, <2>5, FitFrame DEF FitInv
<1>7. ASSUME NEW r \in Runs, CleanDns(r) \/ CleanServer(r) PROVE FitInv'
  <2> PICK s \in RunState : s = job[r].s
    BY DEF RunbookInv, TypeOK
  <2>1. lane' = lane /\ store' = store /\ ~At(r, "idle") /\ Fit(s)
    BY <1>7 DEF CleanDns, CleanServer, mandate, At, FitInv, FitAt
  <2>2. ASSUME NEW l \in {"clean", "idle"}, Goto(r, l) PROVE FitInv'
    <3>1. /\ job'[r].pc = l /\ job'[r].s = s /\ \A q \in Runs \ {r} : job'[q] = job[q]
      BY <2>2 DEF Goto, RunbookInv, TypeOK
    <3>2. job[r].pc \in {"cleanDns", "clean"}
      BY <1>7 DEF CleanDns, CleanServer, At
    <3>3. FitAt(r)'
      BY <2>1, <3>1, <3>2 DEF FitInv, FitAt, Fit, At, Saved
    <3> QED
      BY <2>1, <3>1, <3>3, FitFrame DEF FitInv
  <2>3. ASSUME Return(r, [s EXCEPT !.status = "ROLLED_BACK", !.cost = FALSE, !.error = "CLEANED"])
        PROVE  FitInv'
    <3> PICK t : t = [s EXCEPT !.status = "ROLLED_BACK", !.cost = FALSE, !.error = "CLEANED"]
      OBVIOUS
    <3>1. t.status = "ROLLED_BACK" /\ t.step = s.step /\ t.dnsRec = s.dnsRec
      BY DEF RunState
    <3>2. /\ job'[r].pc = "save" /\ job'[r].s = t /\ \A q \in Runs \ {r} : job'[q] = job[q]
      BY <2>3 DEF Return, RunbookInv, TypeOK
    <3>3. FitAt(r)'
      BY <2>1, <3>1, <3>2 DEF FitInv, FitAt, Fit, At, Saved
    <3> QED
      BY <2>1, <3>2, <3>3, FitFrame DEF FitInv
  <2> QED
    BY <1>7, <2>2, <2>3 DEF CleanDns, CleanServer
<1>8. CASE \/ \E r \in Runs : Register(r) \/ ResumeDies(r)
           \/ Expire \/ Close \/ GatewayDies \/ UNCHANGED vars
  <2>1. lane' = lane /\ store' = store /\ job' = job
    BY <1>8 DEF Register, ResumeDies, Expire, Close, GatewayDies, vars, mandate
  <2> QED
    BY <2>1, FitFrame DEF FitInv
<1>9. CASE PilotDies
  <2>1. lane' = lane /\ store' = store /\ \A q \in Runs : job'[q].pc = "idle"
    BY <1>9 DEF PilotDies, Idle, mandate
  <2> QED
    BY <2>1, FitFrame DEF FitInv
<1> QED
  BY <1>1, <1>3, <1>4, <1>5, <1>6, <1>7, <1>8, <1>9 DEF CliNext, Environment

LEMMA FitInvariant == CliSpec => [](RunbookInv /\ FitInv)
<1>1. Init => FitInv
  BY DEF Init, FitInv, FitAt, At, Idle, Saved
<1> QED
  BY <1>1, FitKept, CliRunbookInvariant, PTL DEF CliSpec

-----------------------------------------------------------------------------
(* What the CLI may do to the server: a cleanup deletes it, where a        *)
(* machine has bought it.                                                  *)
CliServerStep ==
  \/ ServerStep
  \/ lane = "automated" /\ server' \in {server, "gone"}

LEMMA CliServerSteps ==
  ASSUME RunbookInv, FitInv, [CliNext]_vars
  PROVE  CliServerStep /\ lane' = lane
<1>1. ASSUME NEW r \in Runs, Live(r) \/ Resume(r) \/ CutoverRun(r) \/ Cleanup(r)
      PROVE  CliServerStep /\ lane' = lane
  BY <1>1, CliRows DEF CliServerStep, ServerStep, world, mandate
<1>2. ASSUME NEW r \in Runs, SaveAndLoop(r) PROVE CliServerStep /\ lane' = lane
  BY <1>2 DEF SaveAndLoop, Save, CliServerStep, ServerStep, world, mandate
<1>3. ASSUME NEW r \in Runs, CleanDns(r) \/ CleanServer(r) PROVE CliServerStep /\ lane' = lane
  <2>1. lane = "automated" /\ lane' = lane
    BY <1>3 DEF CleanDns, CleanServer, At, FitInv, FitAt, mandate
  <2>2. server' \in {server, "gone"}
    BY <1>3 DEF CleanDns, CleanServer
  <2> QED
    BY <2>1, <2>2 DEF CliServerStep
<1>4. CASE [SharedNext]_vars
  BY <1>4, SharedServerSteps DEF CliServerStep
<1>5. ASSUME NEW r \in Runs, ResumeDies(r) PROVE CliServerStep /\ lane' = lane
  BY <1>5 DEF ResumeDies, CliServerStep, ServerStep, world, mandate
<1> QED
  BY <1>1, <1>2, <1>3, <1>4, <1>5 DEF CliNext, SharedNext

LEMMA TornCli ==
  ASSUME RunbookInv, TornInv, [CliNext]_vars
  PROVE  TornInv' /\ TornStep
<1>1. ASSUME NEW r \in Runs, Live(r) \/ Resume(r) \/ CutoverRun(r) \/ Cleanup(r)
      PROVE  TornInv' /\ TornStep
  <2>1. TornStep
    BY <1>1, CliRows DEF TornStep, faults
  <2>2. CASE UNCHANGED job
    BY <2>1, <2>2, TornMove
  <2>3. CASE /\ Taken(r, job'[r].pc, job'[r].s)
             /\ \A q \in Runs \ {r} : job'[q] = job[q]
    <3>1. job'[r].pc # "undo"
      BY <2>3 DEF Taken
    <3> QED
      BY <2>1, <2>3, <3>1, TornMove
  <2> QED
    BY <1>1, <2>1, <2>2, <2>3, CliJob
<1>2. ASSUME NEW r \in Runs, NEW l \in {"idle", "step", "clean", "save"}, NEW s,
             job' = [job EXCEPT ![r].pc = l] \/ job' = [job EXCEPT ![r].pc = l, ![r].s = s],
             UNCHANGED faults
      PROVE  TornInv' /\ TornStep
  <2>1. job'[r].pc = l /\ \A q \in Runs \ {r} : job'[q] = job[q]
    BY <1>2 DEF RunbookInv, TypeOK
  <2>2. TornStep
    BY <1>2 DEF TornStep, faults
  <2> QED
    BY <2>1, <2>2, TornMove
<1>3. ASSUME NEW r \in Runs, SaveAndLoop(r) \/ CleanDns(r) \/ CleanServer(r)
      PROVE  TornInv' /\ TornStep
  <2>1. /\ UNCHANGED faults
        /\ \/ \E l \in {"idle", "step", "clean"} : Goto(r, l)
           \/ \E s : Return(r, s)
    BY <1>3 DEF SaveAndLoop, Save, CleanDns, CleanServer
  <2> QED
    BY <1>2, <2>1 DEF Goto, Return
<1>4. ASSUME NEW r \in Runs, ResumeDies(r) PROVE TornInv' /\ TornStep
  <2>1. job' = job /\ TornStep
    BY <1>4 DEF ResumeDies, TornStep
  <2> QED
    BY <2>1, TornMove
<1> QED
  BY <1>1, <1>3, <1>4, TornSteps, TornShared DEF CliNext, SharedNext

LEMMA TornInvariant == CliSpec => [](RunbookInv /\ FitInv /\ TornInv)
<1>1. Init => TornInv
  BY DEF Init, TornInv, At, Idle
<1> QED
  BY <1>1, TornCli, FitInvariant, PTL DEF CliSpec

(* "Pilot cannot and will not delete it" (live.ts:214): no sequence of     *)
(* flags, interruptions and deaths removes a server that a human bought.   *)
THEOREM CliHumanServerStaysHolds == CliSpec => HumanServerStays
<1>1. RunbookInv /\ FitInv /\ [CliNext]_vars =>
        [lane = "handoff" /\ server = "live" => server' = "live"]_vars
  BY CliServerSteps DEF CliServerStep, ServerStep
<1> QED
  BY <1>1, FitInvariant, PTL DEF CliSpec, HumanServerStays

(* The server of what has been rolled back, in memory or as saved, is gone *)
(* and costs nothing: --cleanup says so only after the delete was          *)
(* answered.  A run that names no server met a ledger it could not read.   *)
Gone(s) ==
  s.status = "ROLLED_BACK" /\ lane = "automated" =>
    IF s.server THEN server = "gone" /\ ~s.cost ELSE torn

GoneAt(r) ==
  /\ ~At(r, "idle") => Gone(job[r].s)
  /\ r \in Saved => Gone(store[r])

GoneInv == \A r \in Runs : GoneAt(r)

(* A state of which the gateway holds the purchase stays gone.             *)
LEMMA GoneStays ==
  ASSUME CliServerStep, lane' = lane, torn => torn', NEW r, NEW s, Sound(r, s), Gone(s)
  PROVE  Gone(s)'
BY DEF CliServerStep, ServerStep, Gone, Sound, Owns

LEMMA GoneFrame ==
  ASSUME RunbookInv, CliServerStep, lane' = lane, torn => torn',
         NEW r \in Runs, GoneAt(r), store'[r] = store[r],
         job'[r] = job[r] \/ job'[r].pc = "idle"
  PROVE  GoneAt(r)'
<1>1. r \in Saved => Gone(store[r])'
  <2> PICK u : u = store[r] /\ u = store'[r]
    OBVIOUS
  <2>1. r \in Saved => Gone(u)'
    BY GoneStays DEF GoneAt, RunbookInv, StoreAt
  <2> QED
    BY <2>1 DEF Gone
<1>2. ~At(r, "idle") /\ job'[r] = job[r] => Gone(job[r].s)'
  <2> PICK s : s = job[r].s
    OBVIOUS
  <2>1. ~At(r, "idle") => Gone(s)'
    BY GoneStays DEF GoneAt, RunbookInv, JobAt
  <2> QED
    BY <2>1 DEF Gone
<1> QED
  BY <1>1, <1>2 DEF GoneAt, At, Saved

(* The run r that moves, the others being as they were.                    *)
LEMMA GoneMove ==
  ASSUME RunbookInv, GoneInv, CliServerStep, lane' = lane, torn => torn', store' = store,
         NEW r \in Runs,
         \A q \in Runs \ {r} : job'[q] = job[q], Gone(job[r].s)'
  PROVE  GoneInv'
<1>1. r \in Saved => Gone(store[r])'
  <2> PICK u : u = store[r] /\ u = store'[r]
    OBVIOUS
  <2>1. r \in Saved => Gone(u)'
    BY GoneStays DEF GoneInv, GoneAt, RunbookInv, StoreAt
  <2> QED
    BY <2>1 DEF Gone
<1>2. GoneAt(r)'
  BY <1>1 DEF GoneAt, Saved
<1> QED
  BY <1>2, GoneFrame DEF GoneInv

LEMMA GoneKept ==
  ASSUME RunbookInv, FitInv, TornInv, GoneInv, [CliNext]_vars
  PROVE  GoneInv'
<1> CliServerStep /\ lane' = lane /\ (torn => torn')
  BY CliServerSteps, TornCli DEF TornStep
<1>1. ASSUME NEW r \in Runs, Live(r) \/ Resume(r) \/ CutoverRun(r) \/ Cleanup(r) PROVE GoneInv'
  <2>1. store' = store /\ server' = server
    BY <1>1, CliRows DEF world
  <2>2. CASE UNCHANGED job
    BY <2>1, <2>2, GoneFrame DEF GoneInv
  <2>3. CASE /\ Taken(r, job'[r].pc, job'[r].s)
             /\ \A q \in Runs \ {r} : job'[q] = job[q]
    <3> PICK l : l = job'[r].pc
      OBVIOUS
    <3> PICK s : s = job'[r].s
      OBVIOUS
    <3>1. Taken(r, l, s) /\ (r \in Saved => Gone(store[r]))
      BY <2>3 DEF GoneInv, GoneAt
    <3>2. Gone(s)
      BY <3>1 DEF Taken, Gone, Resumes, newRun
    <3>3. Gone(s)'
      BY <2>1, <3>2 DEF Gone
    <3> QED
      BY <2>1, <2>3, <3>3, GoneMove DEF Gone
  <2> QED
    BY <1>1, <2>2, <2>3, CliJob
<1>2. ASSUME NEW r \in Runs, Step(r), store' = store PROVE GoneInv'
  <2> PICK s : s = job[r].s
    OBVIOUS
  <2> PICK t : t = job'[r].s
    OBVIOUS
  <2>1. Gone(s) /\ Sound(r, s)
    BY <1>2 DEF Step, GoneInv, GoneAt, RunbookInv, JobAt
  <2>2. Gone(s)'
    BY <2>1, GoneStays
  <2>4. At(r, "undo") /\ lane = "automated" /\ ~s.server => torn
    BY <2>1 DEF RunbookInv, TornInv, JobAt, Sound, Undone, Served, At
  <2>3. Gone(t)'
    BY <1>2, <2>2, <2>4 DEF Gone, Step
  <2> QED
    BY <1>2, <2>3, GoneMove DEF Gone, Step
<1>3. ASSUME NEW r \in Runs, Advance(r) PROVE GoneInv'
  BY <1>2, <1>3, AdvanceStep, AdvanceOwn
<1>4. ASSUME NEW r \in Runs, Serve(r) PROVE GoneInv'
  <2>1. store' = store
    BY <1>4 DEF Serve, NeverArrives, TurnedAway, Claimed, Recorded, Unresolved, TimeOut
  <2> QED
    BY <1>2, <1>4, <2>1, ServeStep
<1>5. ASSUME NEW k \in Keys, Act(k) PROVE GoneInv'
  <2>1. store' = store /\ (job' = job \/ \E r \in Runs : Step(r))
    BY <1>5, ActStep
  <2>2. CASE job' = job
    BY <2>1, <2>2, GoneFrame DEF GoneInv
  <2> QED
    BY <1>2, <2>1, <2>2
<1>6. ASSUME NEW r \in Runs, SaveAndLoop(r) PROVE GoneInv'
  <2>1. PICK l \in {"idle", "step"} : Save(r, l)
    BY <1>6 DEF SaveAndLoop
  <2> PICK s : s = job[r].s
    OBVIOUS
  <2>2. At(r, "save") /\ Gone(s) /\ Sound(r, s)
    BY <2>1 DEF Save, GoneInv, GoneAt, At, RunbookInv, JobAt
  <2>3. /\ store'[r] = s /\ \A q \in Runs \ {r} : store'[q] = store[q]
        /\ job'[r].s = s /\ \A q \in Runs \ {r} : job'[q] = job[q]
    BY <2>1 DEF Save, Goto, RunbookInv, TypeOK
  <2>4. Gone(s)'
    BY <2>2, GoneStays
  <2>5. GoneAt(r)'
    BY <2>3, <2>4 DEF GoneAt, Gone
  <2> QED
    BY <2>3, <2>5, GoneFrame DEF GoneInv
<1>7. ASSUME NEW r \in Runs, CleanDns(r) \/ CleanServer(r) PROVE GoneInv'
  <2> PICK s \in RunState : s = job[r].s
    BY DEF RunbookInv, TypeOK
  <2>1. store' = store /\ Gone(s) /\ Sound(r, s) /\ s.server
    BY <1>7 DEF CleanDns, CleanServer, At, GoneInv, GoneAt, FitInv, FitAt, RunbookInv, JobAt
  <2>2. Gone(s)'
    BY <2>1, GoneStays
  <2>3. ASSUME NEW l \in {"clean", "idle"}, Goto(r, l) PROVE GoneInv'
    <3>1. job'[r].s = s /\ \A q \in Runs \ {r} : job'[q] = job[q]
      BY <2>3 DEF Goto, RunbookInv, TypeOK
    <3> QED
      BY <2>1, <2>2, <3>1, GoneMove DEF Gone
  <2>4. ASSUME Return(r, [s EXCEPT !.status = "ROLLED_BACK", !.cost = FALSE, !.error = "CLEANED"]),
               server' = "gone"
        PROVE  GoneInv'
    <3> PICK t : t = [s EXCEPT !.status = "ROLLED_BACK", !.cost = FALSE, !.error = "CLEANED"]
      OBVIOUS
    <3>1. t.server /\ ~t.cost
      BY <2>1 DEF RunState
    <3>2. job'[r].s = t /\ \A q \in Runs \ {r} : job'[q] = job[q]
      BY <2>4 DEF Return, RunbookInv, TypeOK
    <3>3. Gone(t)'
      BY <2>4, <3>1 DEF Gone
    <3> QED
      BY <2>1, <3>2, <3>3, GoneMove DEF Gone
  <2> QED
    BY <1>7, <2>3, <2>4 DEF CleanDns, CleanServer
<1>8. CASE \/ \E r \in Runs : Register(r) \/ ResumeDies(r)
           \/ Expire \/ Close \/ GatewayDies \/ UNCHANGED vars
  <2>1. store' = store /\ job' = job
    BY <1>8 DEF Register, ResumeDies, Expire, Close, GatewayDies, vars
  <2> QED
    BY <2>1, GoneFrame DEF GoneInv
<1>9. CASE PilotDies
  <2>1. store' = store /\ \A q \in Runs : job'[q].pc = "idle"
    BY <1>9 DEF PilotDies, Idle
  <2> QED
    BY <2>1, GoneFrame DEF GoneInv
<1> QED
  BY <1>1, <1>3, <1>4, <1>5, <1>6, <1>7, <1>8, <1>9 DEF CliNext, Environment

(* The server that a run saved as ROLLED_BACK names, by the runbook or by  *)
(* --cleanup, is gone, and none comes back with a later run, resume or     *)
(* late answer; where the run names none, a death has torn the ledger.     *)
THEOREM CliRolledBackIsGoneHolds == CliSpec => []RolledBackIsGone
<1>1. Init => GoneInv
  BY DEF Init, GoneInv, GoneAt, At, Idle, Saved
<1>2. RunbookInv /\ FitInv /\ TornInv /\ GoneInv /\ [CliNext]_vars => GoneInv'
  BY GoneKept
<1>3. RunbookInv /\ GoneInv => RolledBackIsGone
  BY DEF GoneInv, GoneAt, Gone, RolledBackIsGone, Saved
<1> QED
  BY <1>1, <1>2, <1>3, TornInvariant, PTL DEF CliSpec

-----------------------------------------------------------------------------
(* While every answer arrives and nobody dies, the run that may have       *)
(* bought the server can be traced: in the loop's memory, or as saved.     *)
Quiet == lane = "automated" /\ ~expired /\ lost = 0 /\ crashes = 0

Cur(r) == IF At(r, "idle") THEN store[r] ELSE job[r].s
HasState(r) == At(r, "idle") => r \in Saved

(* The Pilot's ledger says that run r has bought.                          *)
Settled(r) == \E i \in 1..Len(rows) : rows[i] = Note(r, "P2", "COMMITTED")

TraceAt(r) ==
  /\ WaitsAt(r)
  /\ Buying(r) => ~job[r].s.over
  /\ Settled(r) => HasState(r) /\ Cur(r).server
  /\ Holder(r) => HasState(r) /\ Traced(Cur(r)) /\ ~At(r, "notBought")

TraceInv == Quiet => \A r \in Runs : TraceAt(r)

LEMMA QuietBefore ==
  ASSUME RunbookInv, [CliNext]_vars, Quiet'
  PROVE  Quiet /\ ~LoseOne /\ ~PilotDies /\ \A r \in Runs : ~ResumeDies(r)
<1>1. lost \in Nat /\ crashes \in Nat /\ expired \in BOOLEAN
  BY DEF RunbookInv, TypeOK
<1>2. ASSUME NEW r \in Runs, Live(r) \/ Resume(r) \/ CutoverRun(r) \/ Cleanup(r)
      PROVE  UNCHANGED <<lane, expired, lost, crashes>>
  BY <1>2, CliRows DEF mandate, faults
<1>3. ASSUME NEW r \in Runs, SaveAndLoop(r) \/ CleanDns(r) \/ CleanServer(r)
      PROVE  UNCHANGED <<lane, expired, lost, crashes>>
  BY <1>3 DEF SaveAndLoop, Save, CleanDns, CleanServer, mandate, faults
<1>4. ASSUME [Next]_vars PROVE lane' = lane /\ (lost' = lost \/ LoseOne) /\ Grows
  BY <1>4, ServerSteps, FaultsGrow
<1>7. ASSUME NEW r \in Runs, ResumeDies(r)
      PROVE  lane' = lane /\ lost' = lost /\ crashes' = crashes + 1 /\ expired' = expired
  BY <1>7 DEF ResumeDies, mandate
<1>5. \/ UNCHANGED <<lane, expired, lost, crashes>>
      \/ lane' = lane /\ lost' = lost /\ crashes' = crashes + 1 /\ expired' = expired
      \/ lane' = lane /\ (lost' = lost \/ LoseOne) /\ Grows
  BY <1>2, <1>3, <1>4, <1>7 DEF CliNext, Next
<1>6. lane' = lane /\ (lost' = lost \/ LoseOne) /\ (expired => expired') /\ (crashes > 0 => crashes' > 0)
  BY <1>1, <1>5 DEF Grows, Crashed
<1> QED
  BY <1>1, <1>6, <1>7 DEF Quiet, LoseOne, PilotDies

(* A run nobody moves.                                                     *)
LEMMA TraceFrame ==
  ASSUME NEW q \in Runs, TraceAt(q), NEW k, k = job[q].key, job'[q] = job[q], store'[q] = store[q],
         Holder(q)' => Holder(q), Settled(q)' => Settled(q),
         At(q, "wait") /\ k \in acting => k \in acting' /\ gw'[k].run = gw[k].run
  PROVE  TraceAt(q)'
<1>1. (q \in Saved)' <=> q \in Saved
  BY DEF Saved
<1>2. Cur(q)' = Cur(q) /\ (HasState(q)' <=> HasState(q))
  BY <1>1 DEF Cur, HasState, At
<1>3. WaitsAt(q)' /\ (Buying(q)' => ~job'[q].s.over)
  BY DEF TraceAt, WaitsAt, Buying, At
<1> QED
  BY <1>2, <1>3 DEF TraceAt, At

(* A run that moves, and is not done.                                      *)
LEMMA TraceMove ==
  ASSUME NEW r \in Runs, ~At(r, "idle")', WaitsAt(r)', Buying(r)' => ~job'[r].s.over,
         Settled(r)' => job'[r].s.server,
         Holder(r)' => Traced(job'[r].s) /\ job'[r].pc # "notBought"
  PROVE  TraceAt(r)'
BY DEF TraceAt, HasState, Cur, At

LEMMA SettledSame ==
  ASSUME RunbookInv, NEW q, rows' = rows \/ \E n : rows' = Append(rows, n) /\ n # Note(q, "P2", "COMMITTED")
  PROVE  Settled(q)' => Settled(q)
<1>1. CASE rows' = rows
  BY <1>1 DEF Settled, Note
<1>2. ASSUME NEW n, rows' = Append(rows, n), n # Note(q, "P2", "COMMITTED")
      PROVE  Settled(q)' => Settled(q)
  <2> DEFINE c == Note(q, "P2", "COMMITTED")
  <2>1. /\ Len(rows) \in Nat /\ Len(rows') = Len(rows) + 1 /\ rows'[Len(rows) + 1] = n
        /\ \A i \in 1..Len(rows) : rows'[i] = rows[i]
    BY <1>2 DEF RunbookInv, TypeOK
  <2>2. ASSUME NEW i \in 1..Len(rows'), rows'[i] = c PROVE \E j \in 1..Len(rows) : rows[j] = c
    BY <1>2, <2>1, <2>2
  <2> QED
    BY <2>2 DEF Settled, Note
<1> QED
  BY <1>1, <1>2

(* A step of a run that has its server.                                    *)
LEMMA TraceServer ==
  ASSUME RunbookInv', NEW r \in Runs, Step(r), job[r].s.step \in Served, WaitsAt(r)'
  PROVE  TraceAt(r)'
<1> PICK t : t = job'[r].s
  OBVIOUS
<1>1. t.step \in Served /\ ~At(r, "idle")'
  BY DEF Step, At
<1>2. Sound(r, t)' /\ (Buying(r)' => t.step = "P2")
  BY <1>1 DEF RunbookInv, JobAt, Buying, At, StepOf
<1>3. t.server /\ ~Buying(r)'
  BY <1>1, <1>2 DEF Sound, Served
<1>4. job'[r].pc # "notBought"
  BY <1>3 DEF Buying
<1> QED
  BY <1>1, <1>3, <1>4, TraceMove DEF Traced

LEMMA EarlySaves ==
  ASSUME RunbookInv, TornInv, Quiet, NEW r \in Runs, Advance(r),
         job[r].s.step \in {"P0", "P1", "P1B", "P1C"}
  PROVE  job'[r].pc = "save"
<1>4. ~torn /\ lane = "automated"
  <2>1. crashes = 0
    BY DEF Quiet
  <2> QED
    BY <2>1 DEF Quiet, TornInv
<1>5. ~At(r, "undo")
  <2>1. At(r, "undo") => job[r].s.step = "P1"
    BY DEF RunbookInv, JobAt, Undone
  <2> QED
    BY <1>4, <2>1 DEF TornInv
<1>3. ~torn /\ lane = "automated" /\ ~UndoServer(r)
  BY <1>4, <1>5 DEF UndoServer
<1>1. \/ Nothing(r) \/ Expires(r) \/ Verified(r) \/ Preflight(r) \/ PriceSubmit(r) \/ PricePoll(r)
  BY <1>3 DEF Advance, NoteHandoff, ReadRegistration, UseRegistration, Provision, Intend, Bought,
         NotBought, Boot, Project, Envs, Deploy, Verify, Cutover, UndoHandoff, UndoServer, On, At,
         RunbookInv, JobAt, Undone
<1>2. \E t : Return(r, t)
  BY <1>1, <1>3 DEF Nothing, Expires, Verified, Preflight, Unreadable, PriceSubmit, PricePoll
<1> QED
  BY <1>2 DEF Return, RunbookInv, TypeOK

(* The Pilot notes a purchase as COMMITTED where it learns of its server.  *)
LEMMA AdvanceRows ==
  ASSUME RunbookInv, lane = "automated", NEW r \in Runs, Advance(r), NEW q \in Runs,
         ~(q = r /\ Bought(r))
  PROVE  Settled(q)' => Settled(q)
<1>1. ~NoteHandoff(r)
  BY DEF NoteHandoff, RunbookInv, JobAt
<1>2. CASE Intend(r) \/ NotBought(r)
  BY <1>2, SettledSame DEF Intend, NotBought, Note
<1>3. CASE Bought(r)
  BY <1>3, SettledSame DEF Bought, Note
<1>4. CASE Advance(r) /\ ~Intend(r) /\ ~NotBought(r) /\ ~Bought(r)
  <2>1. rows' = rows
    BY <1>1, <1>4 DEF Advance, Nothing, Expires, Verified, Preflight, PriceSubmit,
         PricePoll, ReadRegistration, UseRegistration, Provision,
         Boot, Project, Envs, Deploy, Verify, Cutover, UndoHandoff, UndoServer
  <2> QED
    BY <2>1, SettledSame
<1> QED
  BY <1>2, <1>3, <1>4

(* advance() returns in the middle of the purchase.                        *)
LEMMA TraceReturn ==
  ASSUME RunbookInv, NEW r \in Runs, NEW t \in RunState, Return(r, t),
         Settled(r)' => t.server, Holder(r)' => Traced(t)
  PROVE  TraceAt(r)'
<1>1. job'[r].pc = "save" /\ job'[r].s = t
  BY ReturnJob DEF RunbookInv
<1>2. ~At(r, "idle")' /\ WaitsAt(r)' /\ ~Buying(r)'
  BY <1>1 DEF At, WaitsAt, Buying
<1> QED
  BY <1>1, <1>2, TraceMove

LEMMA TraceFail ==
  ASSUME RunbookInv, NEW r \in Runs, NEW e \in Errors, Return(r, Fail(job[r].s, e)), ~Settled(r)',
         Holder(r)' => job[r].s.step = "P2" /\ ~job[r].s.over /\ e \in {"UNKNOWN", "IN_FLIGHT"}
  PROVE  TraceAt(r)'
<1> PICK s \in RunState : s = job[r].s
  BY DEF RunbookInv, TypeOK
<1> PICK t : t = Fail(s, e)
  OBVIOUS
<1>1. /\ t \in RunState /\ t.step = s.step /\ t.status = "FAILED" /\ t.error = e
      /\ t.over = s.over
  BY FailType
<1>2. Holder(r)' => Traced(t)
  BY <1>1 DEF Traced
<1> QED
  BY <1>1, <1>2, TraceReturn

(* On to the next move of the purchase, with the state as it is.           *)
LEMMA TraceGoto ==
  ASSUME RunbookInv, NEW r \in Runs, NEW l, job'[r].pc = l, job'[r].s = job[r].s,
         job[r].s.step = "P2", ~job[r].s.over, job[r].s.status \notin Terminal,
         l \in {"intent", "call", "wait", "bought", "notBought"}, WaitsAt(r)', ~Settled(r)',
         Holder(r)' => l # "notBought"
  PROVE  TraceAt(r)'
<1>1. ~At(r, "idle")' /\ Traced(job'[r].s)
  BY DEF At, Traced
<1> QED
  BY <1>1, TraceMove

(* Nobody else has bought: a COMMITTED row would name the run that has.    *)
LEMMA NobodyElseSettled ==
  ASSUME RunbookInv, lane = "automated", \A q \in Runs : TraceAt(q),
         NEW r \in Runs, ~At(r, "idle"), job[r].s.step = "P2", Holder(r)
  PROVE  Committed(rows, "P2") = {}
<1> SUFFICES ASSUME NEW p \in Committed(rows, "P2") PROVE FALSE
  OBVIOUS
<1>1. PICK i \in 1..Len(rows) : rows[i] = p /\ p.key = "P2" /\ p.state = "COMMITTED"
  BY DEF Committed, Prior, IsLatest
<1>2. p \in [key : {"P2", "P2H"}, run : Runs, state : States]
  <2> DEFINE R == [key : {"P2", "P2H"}, run : Runs, state : States]
  <2>1. rows \in Seq(R)
    BY DEF RunbookInv, TypeOK
  <2> HIDE DEF R
  <2>2. p \in R
    BY <1>1, <2>1
  <2> QED
    BY <2>2 DEF R
<1> PICK q \in Runs : q = p.run
  BY <1>2
<1>4. p = Note(q, "P2", "COMMITTED")
  BY <1>1, <1>2 DEF Note
<1>5. HasState(q) /\ Cur(q).server
  BY <1>1, <1>4 DEF TraceAt, Settled
<1>6. Sound(q, Cur(q))
  BY <1>5 DEF RunbookInv, JobAt, StoreAt, HasState, Cur
<1>7. Owns(q, "P2")
  BY <1>5, <1>6 DEF Sound
<1>8. q = r
  BY <1>7 DEF Owns, Holder
<1> QED
  BY <1>5, <1>6, <1>8 DEF Cur, Sound, Served

LEMMA TracePurchase ==
  ASSUME RunbookInv, TornInv, Quiet, \A q \in Runs : TraceAt(q),
         NEW r \in Runs, Advance(r), job[r].s.step = "P2"
  PROVE  TraceAt(r)'
<1> PICK s \in RunState : s = job[r].s
  BY DEF RunbookInv, TypeOK
<1>1. lane = "automated" /\ ~expired /\ ~torn /\ TraceAt(r)
  BY DEF Quiet, TornInv
<1>2. gw' = gw
  BY AdvanceOwn
<1>3. ~At(r, "idle") /\ ~At(r, "save") /\ Sound(r, s) /\ ~s.server /\ (Holder(r)' => Holder(r))
  BY <1>2, AdvanceStep DEF Step, RunbookInv, JobAt, Holder, Sound, Served
<1>4. /\ ~Settled(r)
      /\ Holder(r) => Traced(s) /\ ~s.over /\ ~At(r, "notBought")
  BY <1>1, <1>3 DEF TraceAt, Cur, Traced
<1>5. ~Bought(r) => ~Settled(r)'
  BY <1>1, <1>4, AdvanceRows
<1>6. \A e \in {"BUDGET", "IN_FLIGHT", "ALREADY_COMMITTED", "PROVISION"} : e \in Errors
  BY DEF Errors, Answers
<1>7. CASE Nothing(r)
  <2>1. ~Bought(r)
    BY <1>7 DEF Nothing, Bought, At
  <2> QED
    BY <1>3, <1>4, <1>5, <1>7, <2>1, TraceReturn DEF Nothing
<1>8. CASE Provision(r)
  <2>1. At(r, "step") /\ s.status \notin Terminal /\ ~Settled(r)'
    BY <1>5, <1>8 DEF Provision, On, Stays, Bought, At
  <2>2. Holder(r) => Committed(rows, "P2") = {}
    BY <1>1, <1>3, NobodyElseSettled
  <2>3. CASE s.over /\ Return(r, Fail(s, "BUDGET"))
    BY <1>3, <1>4, <1>6, <2>1, <2>3, TraceFail
  <2>4. CASE Return(r, Fail(s, "IN_FLIGHT"))
    BY <1>3, <1>4, <1>6, <2>1, <2>4, TraceFail
  <2>5. CASE Committed(rows, "P2") # {} /\ Return(r, Fail(s, "ALREADY_COMMITTED"))
    BY <1>3, <1>6, <2>1, <2>2, <2>5, TraceFail
  <2>6. CASE ~s.over /\ Goto(r, "intent")
    <3>1. job'[r].pc = "intent" /\ job'[r].s = s
      BY <2>6 DEF Goto, RunbookInv, TypeOK
    <3>2. WaitsAt(r)'
      BY <3>1 DEF WaitsAt, At
    <3> QED
      BY <2>1, <2>6, <3>1, <3>2, TraceGoto
  <2> QED
    BY <1>1, <1>8, <2>3, <2>4, <2>5, <2>6 DEF Provision, Unreadable
<1>9. CASE Intend(r)
  <2>1. TypeOK /\ "P2" \in Keys /\ job' = [job EXCEPT ![r].pc = "call", ![r].key = "P2"]
        /\ At(r, "intent")
    BY <1>9 DEF RunbookInv, Keys, Intend
  <2>2. job'[r].pc = "call" /\ job'[r].s = s
    BY <2>1, CallJob
  <2>3. ~s.over /\ s.status \notin Terminal /\ ~Settled(r)'
    BY <1>1, <1>5, <2>1 DEF Buying, TraceAt, At, RunbookInv, JobAt, Bought
  <2>4. WaitsAt(r)'
    BY <2>2 DEF WaitsAt, At
  <2> QED
    BY <2>2, <2>3, <2>4, TraceGoto
<1>10. CASE Bought(r)
  <2> PICK t : t = [s EXCEPT !.step = "P3", !.server = TRUE, !.cost = TRUE]
    OBVIOUS
  <2>1. t \in RunState /\ t.server
    BY DEF RunState, Steps
  <2> QED
    BY <1>10, <2>1, TraceReturn DEF Bought, Traced
<1>11. CASE NotBought(r)
  <2>1. At(r, "notBought") /\ Return(r, Fail(s, "PROVISION")) /\ ~Settled(r)'
    BY <1>5, <1>11 DEF NotBought, Bought, At
  <2> QED
    BY <1>3, <1>4, <1>6, <2>1, TraceFail
<1>12. ~Expires(r) /\ ~UndoServer(r)
  BY <1>1 DEF Expires, Refused, UndoServer, TornInv
<1>13. Nothing(r) \/ Provision(r) \/ Intend(r) \/ Bought(r) \/ NotBought(r)
  BY <1>1, <1>12 DEF Advance, Verified, Preflight, NoteHandoff, PriceSubmit, PricePoll, ReadRegistration,
         UseRegistration, Boot, Project, Envs, Deploy, Verify, Cutover, UndoHandoff, UndoServer,
         On, At, RunbookInv, JobAt, Undone
<1> QED
  BY <1>7, <1>8, <1>9, <1>10, <1>11, <1>13

LEMMA TraceAdvance ==
  ASSUME RunbookInv, RunbookInv', TornInv, Quiet, \A q \in Runs : TraceAt(q), NEW r \in Runs, Advance(r)
  PROVE  \A q \in Runs : TraceAt(q)'
<1> PICK s \in RunState : s = job[r].s
  BY DEF RunbookInv, TypeOK
<1>1. Step(r) /\ store' = store /\ gw' = gw /\ acting' = acting /\ lane = "automated"
  BY AdvanceStep, AdvanceOwn DEF Quiet
<1>2. \A q \in Runs : Holder(q)' => Holder(q)
  BY <1>1 DEF Holder
<1>3. ASSUME NEW q \in Runs \ {r} PROVE TraceAt(q)'
  <2>1. job'[q] = job[q] /\ (Settled(q)' => Settled(q))
    BY <1>1, AdvanceRows DEF Step
  <2> QED
    BY <1>1, <1>2, <2>1, TraceFrame
<1>4. ~Claimed(r)
  BY DEF Advance, Nothing, Expires, Verified, Preflight, NoteHandoff, PriceSubmit,
         PricePoll, ReadRegistration, UseRegistration, Provision, Intend, Bought, NotBought,
         Boot, Project, Envs, Deploy, Verify, Cutover, UndoHandoff, UndoServer, On, At, Claimed
<1>5. WaitsAt(r)'
  BY <1>1, <1>4 DEF WaitsAt, Step, At
<1>6. Sound(r, s) /\ ~At(r, "idle")
  BY <1>1 DEF Step, RunbookInv, JobAt
<1>7. ASSUME s.step \in {"P0", "P1", "P1B", "P1C"} PROVE TraceAt(r)'
  <2>1. job'[r].pc = "save"
    BY <1>1, <1>7, EarlySaves
  <2>2. ~Bought(r)
    BY <1>7 DEF Bought, RunbookInv, JobAt, At
  <2>3. ~Settled(r) /\ ~Holder(r)
    BY <1>6, <1>7 DEF TraceAt, Cur, Traced, Sound, Served
  <2>4. ~Settled(r)' /\ ~Holder(r)'
    BY <1>1, <1>2, <2>2, <2>3, AdvanceRows
  <2>5. ~Buying(r)'
    BY <2>1 DEF Buying
  <2> QED
    BY <1>5, <2>4, <2>5 DEF TraceAt
<1>8. s.step \in Served \cup {"P0", "P1", "P1B", "P1C", "P2"}
  BY <1>1, <1>6 DEF RunState, Steps, Served, Sound
<1>9. TraceAt(r)'
  BY <1>1, <1>5, <1>7, <1>8, TraceServer, TracePurchase
<1> QED
  BY <1>3, <1>9

(* The answer to the purchase, none of them lost.                          *)
LEMMA TraceServedP2 ==
  ASSUME RunbookInv, Quiet, NEW r \in Runs, TraceAt(r), Serve(r), ~LoseOne, job[r].key = "P2"
  PROVE  TraceAt(r)'
<1> PICK s \in RunState : s = job[r].s
  BY DEF RunbookInv, TypeOK
<1>1. lane = "automated" /\ ~expired
  BY DEF Quiet
<1>2. At(r, "call") \/ At(r, "wait")
  BY DEF Serve, NeverArrives, TurnedAway, Claimed, Recorded, Unresolved, TimeOut
<1>3. At(r, "call")
  BY <1>2 DEF Serve, NeverArrives, TurnedAway, Claimed, Recorded, Unresolved, TimeOut, TraceAt,
              WaitsAt, At
<1>4. ~s.over /\ s.step = "P2" /\ s.status \notin Terminal /\ Sound(r, s) /\ ~At(r, "idle")
  BY <1>3 DEF TraceAt, Buying, At, RunbookInv, JobAt, StepOf
<1>5. ~Settled(r)
  BY <1>4 DEF TraceAt, Cur, Sound, Served
<1>6. ~Settled(r)'
  <2>1. rows' = rows
    BY DEF Serve, NeverArrives, TurnedAway, Claimed, Recorded, Unresolved, TimeOut
  <2> QED
    BY <1>5, <2>1, SettledSame
<1>7. ASSUME NEW l \in {"wait", "bought", "notBought"}, Goto(r, l), WaitsAt(r)',
             Holder(r)' => l # "notBought"
      PROVE  TraceAt(r)'
  <2>1. job'[r].pc = l /\ job'[r].s = s
    BY <1>7 DEF Goto, RunbookInv, TypeOK
  <2> QED
    BY <1>4, <1>6, <1>7, <2>1, TraceGoto
<1>8. ASSUME NEW l \in {"bought", "notBought"}, Goto(r, l) PROVE WaitsAt(r)'
  <2>1. job'[r].pc = l
    BY <1>8 DEF Goto, RunbookInv, TypeOK
  <2> QED
    BY <2>1 DEF WaitsAt, At
<1>9. \A a : Reply(r, a) => Hear(r, a)
  BY DEF Reply
<1>10. Hear(r, "OK") => Goto(r, "bought")
  BY DEF Hear, HearPurchase
<1>11. Hear(r, "REPLAY") => Goto(r, "notBought")
  BY DEF Hear, HearPurchase
<1>12. \A a \in {"IN_FLIGHT", "AMBIGUOUS"} : Hear(r, a) => Return(r, Fail(s, "UNKNOWN"))
  BY DEF Hear, HearPurchase
<1>13. CASE Claimed(r)
  <2>1. Goto(r, "wait") /\ Latest("P2", "INTENT", r, dns) /\ acting' = acting \cup {"P2"}
    BY <1>13 DEF Claimed
  <2>2. job'[r].pc = "wait" /\ job'[r].key = "P2"
    BY <2>1 DEF Goto, RunbookInv, TypeOK
  <2>3. gw'["P2"].run = r
    BY <2>1 DEF Latest, RunbookInv, TypeOK, Keys
  <2>4. WaitsAt(r)'
    BY <2>1, <2>2, <2>3 DEF WaitsAt
  <2> QED
    BY <1>7, <2>1, <2>4
<1>14. CASE Recorded(r)
  <2>1. gw' = gw /\ (Goto(r, "bought") \/ (Goto(r, "notBought") /\ gw["P2"].run # r))
    BY <1>9, <1>10, <1>11, <1>14 DEF Recorded, gateway
  <2>2. gw["P2"].run # r => ~Holder(r)'
    BY <2>1 DEF Holder
  <2> QED
    BY <1>7, <1>8, <2>1, <2>2
<1>15. CASE Unresolved(r)
  <2>1. Goto(r, "bought") \/ Return(r, Fail(s, "UNKNOWN"))
    BY <1>9, <1>10, <1>12, <1>15 DEF Unresolved
  <2>2. "UNKNOWN" \in Errors
    BY DEF Errors
  <2> QED
    BY <1>4, <1>6, <1>7, <1>8, <2>1, <2>2, TraceFail
<1>16. ~NeverArrives(r) /\ ~TimeOut(r) /\ ~TurnedAway(r)
  BY <1>1, <1>3 DEF NeverArrives, TimeOut, TurnedAway, Admits, At
<1> QED
  BY <1>13, <1>14, <1>15, <1>16 DEF Serve

LEMMA TraceServe ==
  ASSUME RunbookInv, RunbookInv', Quiet, \A q \in Runs : TraceAt(q), NEW r \in Runs, Serve(r), ~LoseOne
  PROVE  \A q \in Runs : TraceAt(q)'
<1>1. Step(r)
  BY ServeStep
<1>2. /\ store' = store /\ acting \subseteq acting'
      /\ \A k \in Keys : \/ gw'[k] = gw[k]
                         \/ gw'[k].run = r /\ (k \notin acting \/ gw[k].run = r)
  BY ServeGateway
<1>3. \A q : Settled(q)' => Settled(q)
  <2>1. rows' = rows
    BY DEF Serve, NeverArrives, TurnedAway, Claimed, Recorded, Unresolved, TimeOut
  <2> QED
    BY <2>1, SettledSame
<1>4. ASSUME NEW q \in Runs \ {r} PROVE TraceAt(q)'
  <2> PICK k \in Keys : k = job[q].key
    BY DEF RunbookInv, TypeOK
  <2>1. job'[q] = job[q] /\ store'[q] = store[q]
    BY <1>1, <1>2 DEF Step
  <2>2. Holder(q)' => Holder(q)
    BY <1>2 DEF Holder, Keys
  <2>3. At(q, "wait") /\ k \in acting => k \in acting' /\ gw'[k].run = gw[k].run
    BY <1>2, <1>4
  <2> QED
    BY <1>3, <2>1, <2>2, <2>3, TraceFrame
<1>5. ASSUME job[r].key # "P2" PROVE TraceAt(r)'
  <2> PICK k \in Keys \ {"P2"} : k = job[r].key
    BY <1>5 DEF RunbookInv, TypeOK
  <2>1. job[r].s.step \in Served
    <3>1. At(r, "call") \/ At(r, "wait")
      BY DEF Serve, NeverArrives, TurnedAway, Claimed, Recorded, Unresolved, TimeOut
    <3>2. job[r].s.step = StepOf(k)
      BY <3>1 DEF At, RunbookInv, JobAt
    <3> QED
      BY <3>2 DEF StepOf, Keys, Served
  <2>2. WaitsAt(r)'
    <3>1. CASE Claimed(r)
      <4>1. Goto(r, "wait") /\ Latest(k, "INTENT", r, dns) /\ acting' = acting \cup {k}
        BY <3>1 DEF Claimed
      <4>2. job'[r].key = k
        BY <4>1 DEF Goto, RunbookInv, TypeOK
      <4>3. gw'[k].run = r
        BY <4>1 DEF Latest, RunbookInv, TypeOK, Keys
      <4> QED
        BY <4>1, <4>2, <4>3 DEF WaitsAt
    <3>2. CASE ~Claimed(r)
      BY <1>1, <3>2 DEF Step, WaitsAt, At
    <3> QED
      BY <3>1, <3>2
  <2> QED
    BY <1>1, <2>1, <2>2, TraceServer
<1>6. ASSUME job[r].key = "P2" PROVE TraceAt(r)'
  BY <1>6, TraceServedP2
<1> QED
  BY <1>4, <1>5, <1>6

LEMMA TraceAct ==
  ASSUME RunbookInv, RunbookInv', Quiet, \A q \in Runs : TraceAt(q), NEW k \in Keys, Act(k), ~LoseOne
  PROVE  \A q \in Runs : TraceAt(q)'
<1> PICK r : r = gw[k].run
  OBVIOUS
<1>1. /\ k \in acting /\ acting' = acting \ {k} /\ store' = store
      /\ gw[k].state = "INTENT" /\ r \in Runs
      /\ \A l \in Keys \ {k} : gw'[l] = gw[l]
      /\ gw'[k].run = r
  BY ActCases
<1> PICK a \in {"OK", "REJECTED", "AMBIGUOUS"} :
      /\ a = "REJECTED" => gw'[k].state = "FAILED"
      /\ IF At(r, "wait") /\ job[r].key = k THEN Reply(r, a) ELSE job' = job
  BY ActCases
<1>2. \A q \in Runs : Holder(q)' => Holder(q)
  BY <1>1 DEF Holder, Keys
<1>3. \A q : Settled(q)' => Settled(q)
  BY SettledSame DEF Act
<1>4. ASSUME NEW q \in Runs, job'[q] = job[q], ~(q = r /\ At(r, "wait") /\ job[r].key = k)
      PROVE  TraceAt(q)'
  <2> PICK l \in Keys : l = job[q].key
    BY DEF RunbookInv, TypeOK
  <2>1. At(q, "wait") => l # k
    BY <1>4 DEF TraceAt, WaitsAt
  <2>2. At(q, "wait") /\ l \in acting => l \in acting' /\ gw'[l].run = gw[l].run
    BY <1>1, <2>1
  <2> QED
    BY <1>1, <1>2, <1>3, <1>4, <2>2, TraceFrame
<1>5. CASE ~(At(r, "wait") /\ job[r].key = k)
  BY <1>4, <1>5
<1>6. CASE At(r, "wait") /\ job[r].key = k
  <2>1. Hear(r, a) /\ ~At(r, "idle") /\ job[r].pc \in {"call", "wait"}
    BY <1>6 DEF Reply, At
  <2>2. Step(r)
    BY <1>1, <2>1, HearStep
  <2>3. WaitsAt(r)'
    BY <1>6, <2>2 DEF Step, WaitsAt, At, Claimed
  <2>4. ASSUME k # "P2" PROVE TraceAt(r)'
    <3>1. job[r].s.step \in Served
      BY <1>1, <1>6, <2>1, <2>4 DEF RunbookInv, JobAt, StepOf, Keys, Served
    <3> QED
      BY <1>1, <2>2, <2>3, <3>1, TraceServer
  <2>5. ASSUME k = "P2" PROVE TraceAt(r)'
    <3> PICK s \in RunState : s = job[r].s
      BY <1>1 DEF RunbookInv, TypeOK
    <3>1. ~s.over /\ s.step = "P2" /\ s.status \notin Terminal /\ Sound(r, s)
      BY <1>1, <1>6, <2>1, <2>5 DEF TraceAt, Buying, At, RunbookInv, JobAt, StepOf
    <3>2. ~Settled(r)'
      BY <1>1, <1>3, <2>1, <3>1 DEF TraceAt, Cur, Sound, Served
    <3>3. ASSUME NEW l \in {"bought", "notBought"}, Goto(r, l), Holder(r)' => l # "notBought"
          PROVE  TraceAt(r)'
      <4>1. job'[r].pc = l /\ job'[r].s = s
        BY <1>1, <3>3 DEF Goto, RunbookInv, TypeOK
      <4> QED
        BY <1>1, <2>3, <3>1, <3>2, <3>3, <4>1, TraceGoto
    <3>4. CASE a = "OK"
      <4>1. Goto(r, "bought")
        BY <1>6, <2>1, <2>5, <3>4 DEF Hear, HearPurchase
      <4> QED
        BY <3>3, <4>1
    <3>5. CASE a = "REJECTED"
      <4>1. Goto(r, "notBought") /\ ~Holder(r)'
        BY <1>6, <2>1, <2>5, <3>5 DEF Hear, HearPurchase, Holder
      <4> QED
        BY <3>3, <4>1
    <3>6. CASE a = "AMBIGUOUS"
      <4>1. Return(r, Fail(s, "UNKNOWN")) /\ "UNKNOWN" \in Errors
        BY <1>6, <2>1, <2>5, <3>6 DEF Hear, HearPurchase, Errors
      <4> QED
        BY <1>1, <3>1, <3>2, <4>1, TraceFail
    <3> QED
      BY <3>4, <3>5, <3>6
  <2>6. ASSUME NEW q \in Runs \ {r} PROVE TraceAt(q)'
    BY <1>4, <2>2, <2>6 DEF Step
  <2> QED
    BY <2>4, <2>5, <2>6
<1> QED
  BY <1>5, <1>6

(* The CLI takes a run up: what was saved of it is what it goes on with.   *)
LEMMA TraceCall ==
  ASSUME RunbookInv, \A q \in Runs : TraceAt(q), NEW r \in Runs,
         Live(r) \/ Resume(r) \/ CutoverRun(r) \/ Cleanup(r)
  PROVE  \A q \in Runs : TraceAt(q)'
<1>1. /\ UNCHANGED <<store, gw, acting>> /\ NobodyRuns
      /\ rows' = rows \/ rows' = Append(rows, Note(r, "P2", "FAILED"))
  BY CliRows DEF gateway
<1>2. \A q : (Settled(q)' => Settled(q)) /\ (Holder(q)' => Holder(q))
  <2>1. \A q : Note(r, "P2", "FAILED") # Note(q, "P2", "COMMITTED")
    BY DEF Note
  <2> QED
    BY <1>1, <2>1, SettledSame DEF Holder
<1>3. ASSUME NEW q \in Runs, job'[q] = job[q] PROVE TraceAt(q)'
  BY <1>1, <1>2, <1>3, TraceFrame
<1>4. CASE UNCHANGED job
  BY <1>3, <1>4
<1>5. CASE /\ Taken(r, job'[r].pc, job'[r].s)
           /\ \A q \in Runs \ {r} : job'[q] = job[q]
  <2> PICK l : l = job'[r].pc
    OBVIOUS
  <2> PICK s : s = job'[r].s
    OBVIOUS
  <2>1. Taken(r, l, s) /\ At(r, "idle") /\ l \in {"idle", "step", "cleanDns", "clean"}
    BY <1>1, <1>5 DEF NobodyRuns, Taken
  <2>2. WaitsAt(r)' /\ ~Buying(r)' /\ l # "notBought"
    BY <2>1 DEF WaitsAt, Buying, At
  <2>3. /\ Settled(r) => r \in Saved /\ store[r].server
        /\ Holder(r) => r \in Saved /\ Traced(store[r])
    BY <2>1 DEF TraceAt, HasState, Cur
  <2>4. /\ Settled(r) => r \in Saved /\ s.server
        /\ Holder(r) => r \in Saved /\ Traced(s)
    BY <2>1, <2>3 DEF Taken, Resumes, Saved
  <2>5. (r \in Saved)' <=> r \in Saved
    BY <1>1 DEF Saved
  <2>6. TraceAt(r)'
    BY <1>1, <1>2, <2>2, <2>3, <2>4, <2>5 DEF TraceAt, HasState, Cur, At
  <2> QED
    BY <1>3, <1>5, <2>6
<1> QED
  BY <1>4, <1>5, CliJob

LEMMA TraceSave ==
  ASSUME RunbookInv, \A q \in Runs : TraceAt(q), NEW r \in Runs, SaveAndLoop(r)
  PROVE  \A q \in Runs : TraceAt(q)'
<1> PICK s \in RunState : s = job[r].s
  BY DEF RunbookInv, TypeOK
<1>1. PICK l \in {"idle", "step"} : Save(r, l)
  BY DEF SaveAndLoop
<1>2. UNCHANGED <<rows, gw, acting>> /\ At(r, "save")
  BY <1>1 DEF Save, gateway
<1>3. /\ store'[r] = s /\ \A q \in Runs \ {r} : store'[q] = store[q]
      /\ job'[r].pc = l /\ job'[r].s = s /\ \A q \in Runs \ {r} : job'[q] = job[q]
  BY <1>1 DEF Save, Goto, RunbookInv, TypeOK
<1>4. \A q : (Settled(q)' => Settled(q)) /\ (Holder(q)' => Holder(q))
  BY <1>2, SettledSame DEF Holder
<1>5. ASSUME NEW q \in Runs \ {r} PROVE TraceAt(q)'
  BY <1>2, <1>3, <1>4, TraceFrame
<1>6. TraceAt(r)'
  <2>1. (Settled(r) => s.server) /\ (Holder(r) => Traced(s))
    BY <1>2 DEF TraceAt, Cur, At
  <2>2. WaitsAt(r)' /\ ~Buying(r)' /\ ~At(r, "notBought")'
    BY <1>3 DEF WaitsAt, Buying, At
  <2>3. (r \in Saved)'
    BY <1>3, NoRunAssumption DEF Saved
  <2>4. HasState(r)' /\ Cur(r)' = s
    BY <1>3, <2>3 DEF HasState, Cur, At
  <2> QED
    BY <1>4, <2>1, <2>2, <2>4 DEF TraceAt
<1> QED
  BY <1>5, <1>6

(* --cleanup takes neither the name of the server nor the run away.        *)
LEMMA TraceClean ==
  ASSUME RunbookInv, FitInv, \A q \in Runs : TraceAt(q), NEW r \in Runs, CleanDns(r) \/ CleanServer(r)
  PROVE  \A q \in Runs : TraceAt(q)'
<1> PICK s \in RunState : s = job[r].s
  BY DEF RunbookInv, TypeOK
<1>1. UNCHANGED <<store, rows, gw, acting>> /\ job[r].pc \in {"cleanDns", "clean"}
  BY DEF CleanDns, CleanServer, gateway, At
<1>2. r \in Saved /\ store[r] = s /\ s.server /\ ~At(r, "idle")
  BY <1>1 DEF FitInv, FitAt, At
<1>3. \A q : (Settled(q)' => Settled(q)) /\ (Holder(q)' => Holder(q))
  BY <1>1, SettledSame DEF Holder
<1>4. (Settled(r) => s.server) /\ (Holder(r) => Traced(s)) /\ (r \in Saved)'
  BY <1>1, <1>2 DEF TraceAt, Cur, Saved
<1>5. ASSUME NEW q \in Runs \ {r}, job'[q] = job[q] PROVE TraceAt(q)'
  BY <1>1, <1>3, <1>5, TraceFrame
<1>6. ASSUME NEW l \in {"clean", "idle"}, Goto(r, l)
      PROVE  \A q \in Runs : TraceAt(q)'
  <2>1. /\ job'[r].pc = l /\ job'[r].s = s /\ \A q \in Runs \ {r} : job'[q] = job[q]
    BY <1>6 DEF Goto, RunbookInv, TypeOK
  <2>2. WaitsAt(r)' /\ ~Buying(r)' /\ ~At(r, "notBought")'
    BY <2>1 DEF WaitsAt, Buying, At
  <2>3. HasState(r)' /\ Cur(r)' = s
    BY <1>1, <1>2, <1>4, <2>1 DEF HasState, Cur, At
  <2>4. TraceAt(r)'
    BY <1>3, <1>4, <2>2, <2>3 DEF TraceAt
  <2> QED
    BY <1>5, <2>1, <2>4
<1>7. ASSUME CleanServer(r), Return(r, [s EXCEPT !.status = "ROLLED_BACK", !.cost = FALSE, !.error = "CLEANED"])
      PROVE  \A q \in Runs : TraceAt(q)'
  <2> PICK t : t = [s EXCEPT !.status = "ROLLED_BACK", !.cost = FALSE, !.error = "CLEANED"]
    OBVIOUS
  <2>1. t.server = s.server
    BY DEF RunState
  <2>2. /\ job'[r].pc = "save" /\ job'[r].s = t /\ \A q \in Runs \ {r} : job'[q] = job[q]
    BY <1>7 DEF Return, RunbookInv, TypeOK
  <2>3. TraceAt(r)'
    <3>1. ~At(r, "idle")' /\ WaitsAt(r)' /\ ~Buying(r)' /\ ~At(r, "notBought")'
      BY <2>2 DEF At, WaitsAt, Buying
    <3> QED
      BY <1>2, <1>3, <1>4, <2>1, <2>2, <3>1 DEF TraceAt, HasState, Cur, At, Traced
  <2> QED
    BY <1>5, <2>2, <2>3
<1> QED
  BY <1>6, <1>7 DEF CleanDns, CleanServer

LEMMA TraceKept ==
  ASSUME RunbookInv, RunbookInv', FitInv, TornInv, TraceInv, [CliNext]_vars
  PROVE  TraceInv'
<1> SUFFICES ASSUME Quiet' PROVE \A q \in Runs : TraceAt(q)'
  BY DEF TraceInv
<1>1. Quiet /\ ~LoseOne /\ ~PilotDies /\ \A r \in Runs : ~ResumeDies(r)
  BY QuietBefore
<1>2. \A q \in Runs : TraceAt(q)
  BY <1>1 DEF TraceInv
<1>3. CASE \E r \in Runs : Live(r) \/ Resume(r) \/ CutoverRun(r) \/ Cleanup(r)
  BY <1>2, <1>3, TraceCall
<1>4. CASE \E r \in Runs : Advance(r)
  BY <1>1, <1>2, <1>4, TraceAdvance
<1>5. CASE \E r \in Runs : Serve(r)
  BY <1>1, <1>2, <1>5, TraceServe
<1>6. CASE \E r \in Runs : SaveAndLoop(r)
  BY <1>2, <1>6, TraceSave
<1>7. CASE \E r \in Runs : CleanDns(r) \/ CleanServer(r)
  BY <1>2, <1>7, TraceClean
<1>8. CASE \E k \in Keys : Act(k)
  BY <1>1, <1>2, <1>8, TraceAct
<1>9. CASE Expire \/ Close \/ UNCHANGED vars
  <2>1. UNCHANGED <<store, job, rows, gw, acting>>
    BY <1>9 DEF Expire, Close, vars, gateway
  <2>2. \A q : (Settled(q)' => Settled(q)) /\ (Holder(q)' => Holder(q))
    BY <2>1, SettledSame DEF Holder
  <2> QED
    BY <1>2, <2>1, <2>2, TraceFrame
<1>10. ~GatewayDies /\ \A r \in Runs : ~Register(r)
  BY <1>1 DEF GatewayDies, Register, Quiet
<1> QED
  BY <1>1, <1>3, <1>4, <1>5, <1>6, <1>7, <1>8, <1>9, <1>10 DEF CliNext, Environment

LEMMA TraceInvariant == CliSpec => [](RunbookInv /\ FitInv /\ TraceInv)
<1>1. Init => TraceInv
  BY DEF Init, TraceInv, TraceAt, WaitsAt, Buying, Settled, Holder, At, Idle, Keys
<1>2. RunbookInv /\ FitInv /\ TornInv /\ TraceInv /\ [CliNext]_vars /\ RunbookInv' => TraceInv'
  BY TraceKept
<1> QED
  BY <1>1, <1>2, TornInvariant, PTL DEF CliSpec

(* "Zero orphaned paid servers" where every answer arrives and nobody      *)
(* dies: whatever the provider answered and however often the operator     *)
(* resumed, cut over or cleaned up, --resume or --cleanup still reaches    *)
(* the server of every run, through the state that was saved.              *)
THEOREM PurchaseStaysReachableHolds == CliSpec => []PurchaseStaysReachable
<1>1. RunbookInv /\ FitInv /\ TraceInv => PurchaseStaysReachable
  <2> SUFFICES ASSUME RunbookInv, FitInv, TraceInv, NobodyRuns, server = "live", Quiet,
                      NEW r \in Saved, gw["P2"].run = r
               PROVE  \/ store[r].server \/ store[r].status \notin TERMINAL
                      \/ store[r].step = "P2" /\ store[r].error \in {"UNKNOWN", "IN_FLIGHT"}
    BY DEF PurchaseStaysReachable, Quiet
  <2>1. r \in Runs /\ At(r, "idle")
    BY DEF Saved, NobodyRuns
  <2>2. Holder(r)
    BY DEF RunbookInv, GatewayAt, Holder
  <2>3. Traced(store[r])
    BY <2>1, <2>2 DEF TraceInv, TraceAt, Cur
  <2>4. store[r].status # "AWAITING_HUMAN_PURCHASE"
    BY <2>1 DEF FitInv, FitAt, Fit, Quiet
  <2> QED
    BY <2>3, <2>4 DEF Traced, TERMINAL, Terminal
<1> QED
  BY <1>1, TraceInvariant, PTL
=============================================================================
