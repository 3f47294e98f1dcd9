------------------------------- MODULE Gateway ------------------------------
(***************************************************************************)
(* The mandate gateway's write-ahead path for one mandate: every tool call *)
(* that spends or changes something goes through once() in                 *)
(* gateway/tools.ts, over the FileLedger of pilot/ledger.ts, the vault and *)
(* a provider that may execute a request late, reject it or lose its       *)
(* response.                                                               *)
(*                                                                         *)
(* The gateway is a Node process.  A tool call is a handler that runs      *)
(* without interruption from one await to the next, so a handler is a      *)
(* program counter and each action below is the code between two awaits.   *)
(* Slots are the handlers that can be under way at the same time: one slot *)
(* when the callers wait for every answer, several when they overlap.      *)
(*                                                                         *)
(* Tools, by the ledger step they claim:                                   *)
(*   "P2"       hetzner_server_create, the purchase (strict, adoptable)    *)
(*   FreeSteps  coolify_project_create, ..._deploy: free, repeatable steps *)
(*   "peek"     coolify_health and the other reads behind the same gate    *)
(***************************************************************************)
EXTENDS Ledger

CONSTANTS
  Slots,      \* handlers that may be under way together
  Runs,       \* run identifiers the callers use
  FreeSteps,  \* ledger steps of the free tools, a subset of {"P4P", ...}
  NoRows,     \* the value of a ledger cache that was never filled
  Exp,        \* the mandate's exp, in ticks since it was issued
  Window,     \* run_window_minutes, in ticks
  Faults,     \* faults of the platform: "readError", "tornWrite", "vaultError"
  MaxTime, MaxRows, MaxCrashes, MaxMints  \* bounds of the model: the clock, the rows, the
                                          \* crashes, and the identifiers that a failed
                                          \* read of the vault may mint

ASSUME GatewayAssumption ==
  /\ "P2" \notin FreeSteps /\ "peek" \notin FreeSteps
  /\ Exp \in Nat /\ Window \in Nat
  /\ MaxTime \in Nat /\ MaxRows \in Nat /\ MaxCrashes \in Nat /\ MaxMints \in Nat

VARIABLES
  now,      \* the gateway's clock
  crashes,  \* how often the process has died
  file,     \* ledger.jsonl
  torn,     \* its last line was cut short by a crash
  cache,    \* FileLedger.#cache
  vault,    \* the sealed Coolify secret of this mandate, 0 when there is none
  misread,  \* history: a read failed of a secret that a request had carried
  pc,       \* where each handler is suspended
  req,      \* its tool, run_id and the instant requireMandate took
  view,     \* the text readFile returned, not parsed yet
  secret,   \* the Coolify secret the handler renders into the user data
  call,     \* the provider request it made, 0 before
  out,      \* the row's detail it is settling, or the code of its answer
  wire,     \* provider requests sent and not yet executed or rejected
  made,     \* what the provider created, ever
  live,     \* the servers among it that were not deleted
  nextId    \* the next request (and secret) identifier

ledgerVars  == <<file, torn, cache>>
sealed      == <<vault, misread>>
handlerVars == <<pc, req, view, secret, call, out>>
provider    == <<wire, made, live>>
vars == <<now, crashes, ledgerVars, sealed, handlerVars, provider, nextId>>

Keys  == {"P2"} \cup FreeSteps
Tools == Keys \cup {"peek"}
Row   == [key : Keys, run : Runs, state : States, eff : Nat, ts : Nat]

Requests == [id : Nat, key : Keys, run : Runs, secret : Nat]

Codes == {"-", "OK", "EXPIRED", "NO_SERVER", "RUN_WINDOW_EXPIRED", "REPLAY",
          "IN_FLIGHT", "MULTIPLE_SERVERS", "PROVIDER_REJECTED",
          "PROVIDER_AMBIGUOUS", "INTERNAL"}

Init ==
  /\ now = 0 /\ crashes = 0
  /\ file = <<>> /\ torn = FALSE /\ cache = NoRows
  /\ vault = 0 /\ misread = FALSE
  /\ pc = [s \in Slots |-> "idle"]
  /\ \E r \in Runs : req = [s \in Slots |-> [tool |-> "peek", run |-> r, at |-> 0]]
  /\ view = [s \in Slots |-> <<>>]
  /\ secret = [s \in Slots |-> 0]
  /\ call = [s \in Slots |-> 0]
  /\ out = [s \in Slots |-> [code |-> "-", eff |-> 0]]
  /\ wire = {} /\ made = {} /\ live = {}
  /\ nextId = 1

-----------------------------------------------------------------------------
(* Small steps shared by the handlers.                                     *)

Goto(s, l) == pc' = [pc EXCEPT ![s] = l]

(* throw new ToolError(code), or return: the handler has its answer.       *)
Answer(s, c, e) ==
  /\ Goto(s, "answered")
  /\ out' = [out EXCEPT ![s] = [code |-> c, eff |-> e]]

(* Slip: the state of the row is not looked at.                            *)
PurchasesAnyState(rows) == Prior(rows, "P2")

(* The rows of a purchase, as committed(deps, m, 'P2') sees them.          *)
Purchases(rows) == Committed(rows, "P2")

(***************************************************************************)
(* A call arrives.  A purchase needs fresh authority (phase 'spend'), the  *)
(* other tools are let in and checked against the ledger (phase            *)
(* 'continue').  `now` is taken here, before the handler's first await.    *)
(***************************************************************************)
Submit(s, t, r) ==
  /\ pc[s] = "idle"
  /\ t # "peek" => Len(file) < MaxRows
  /\ req' = [req EXCEPT ![s] = [tool |-> t, run |-> r, at |-> now]]
  /\ \/ t = "P2" /\ now > Exp /\ Answer(s, "EXPIRED", 0)
     \/ t = "P2" /\ now <= Exp /\ Goto(s, "secrets") /\ UNCHANGED out
     \/ t # "P2" /\ Goto(s, "gate") /\ UNCHANGED out
  /\ UNCHANGED <<now, crashes, ledgerVars, sealed, view, secret, call, provider, nextId>>

(* What the mandate bought, or is about to: its requests for a server.     *)
Servers(requests) == {w \in requests : w.key = "P2"}

(* Slip: credentials are minted for every attempt.                         *)
ReadSecretFresh(s) ==
  /\ pc[s] = "secrets"
  /\ secret' = [secret EXCEPT ![s] = nextId]
  /\ nextId' = nextId + 1
  /\ Goto(s, "seal")
  /\ UNCHANGED <<now, crashes, ledgerVars, sealed, req, view, call, out, provider>>

(* coolifySecrets: reuse the sealed credentials, else mint fresh ones.     *)
(* vault.get answers null for every read that fails, so credentials that   *)
(* are there and were not read are minted anew as well ...                 *)
ReadSecret(s) ==
  LET carried == \E w \in Servers(wire \cup made) : w.secret = vault IN
  /\ pc[s] = "secrets"
  /\ \/ /\ vault # 0
        /\ secret' = [secret EXCEPT ![s] = vault]
        /\ Goto(s, "claim") /\ UNCHANGED <<nextId, misread>>
     \/ /\ vault = 0 \/ ("vaultError" \in Faults /\ nextId <= MaxMints)
        /\ secret' = [secret EXCEPT ![s] = nextId]
        /\ nextId' = nextId + 1
        /\ Goto(s, "seal")
        /\ \/ carried /\ misread' = TRUE
           \/ ~carried /\ UNCHANGED misread
  /\ UNCHANGED <<now, crashes, ledgerVars, vault, req, view, call, out, provider>>

(* ... and seal them before the machine exists, over what was sealed.      *)
SealSecret(s) ==
  /\ pc[s] = "seal"
  /\ vault' = secret[s]
  /\ Goto(s, "claim")
  /\ UNCHANGED <<now, crashes, ledgerVars, misread, req, view, secret, call, out, provider, nextId>>

-----------------------------------------------------------------------------
(* What a handler does with the rows it was waiting for.                   *)

(* Slip: a read behind the gate goes on to claim a step.                   *)
PassGateClaims(s, rows) ==
  /\ pc[s] \in {"gate", "gateRead"}
  /\ \/ Purchases(rows) = {} /\ Answer(s, "NO_SERVER", 0)
     \/ Purchases(rows) # {} /\ Goto(s, "claim") /\ UNCHANGED out

(* requireMandate(.., 'continue') and target(): only after a purchase, and *)
(* only inside the window that opens when the purchase is recorded.        *)
PassGate(s, rows) ==
  /\ pc[s] \in {"gate", "gateRead"}
  /\ \/ Purchases(rows) = {} /\ Answer(s, "NO_SERVER", 0)
     \/ \E p \in Purchases(rows) :
          /\ req[s].at > p.ts + Window
          /\ Answer(s, "RUN_WINDOW_EXPIRED", 0)
     \/ \E p \in Purchases(rows) :
          /\ req[s].at <= p.ts + Window
          /\ \/ req[s].tool = "peek" /\ Answer(s, "OK", p.eff)
             \/ req[s].tool # "peek" /\ Goto(s, "claim") /\ UNCHANGED out

(* Slip: an open purchase is refused without a look at the provider.       *)
ClaimNeverAdopts(s, rows) ==
  LET k == req[s].tool IN
  /\ pc[s] \in {"claim", "claimRead"}
  /\ \/ Free(rows, k) /\ Goto(s, "intent") /\ UNCHANGED out
     \/ \E p \in Committed(rows, k) : p.run = req[s].run /\ Answer(s, "OK", p.eff)
     \/ InFlight(rows, k) /\ Answer(s, "IN_FLIGHT", 0)

(* claim() and what once() makes of its refusals.                          *)
Claim(s, rows) ==
  LET k == req[s].tool IN
  /\ pc[s] \in {"claim", "claimRead"}
  /\ \/ Free(rows, k) /\ Goto(s, "intent") /\ UNCHANGED out
     \/ \E p \in Committed(rows, k) :
          \/ p.run = req[s].run /\ Answer(s, "OK", p.eff)
          \/ p.run # req[s].run /\ Answer(s, "REPLAY", 0)
     \/ \E p \in Prior(rows, k) :
          /\ p.state = "INTENT"
          /\ LET mine == k = "P2" /\ p.run = req[s].run IN
             \/ mine /\ Goto(s, "adopt") /\ UNCHANGED out
             \/ ~mine /\ Answer(s, "IN_FLIGHT", 0)

UseRows(s, rows) ==
  /\ PassGate(s, rows) \/ Claim(s, rows)
  /\ UNCHANGED <<now, crashes, file, torn, sealed, req, secret, call, provider, nextId>>

(***************************************************************************)
(* FileLedger.rows(): the cache when there is one; else readFile, which    *)
(* takes its text now and hands it over later, and fills the cache with    *)
(* it whatever was appended in between.  A line that does not parse makes  *)
(* rows() throw and nothing is cached; a read that fails is an empty       *)
(* ledger, and is cached as one.                                           *)
(***************************************************************************)
RowsFromCache(s) ==
  /\ pc[s] \in {"gate", "claim"}
  /\ cache # NoRows
  /\ UseRows(s, cache)
  /\ UNCHANGED <<cache, view>>

RowsReadFile(s) ==
  /\ pc[s] \in {"gate", "claim"}
  /\ cache = NoRows
  /\ view' = [view EXCEPT ![s] = file]
  /\ Goto(s, IF pc[s] = "gate" THEN "gateRead" ELSE "claimRead")
  /\ UNCHANGED <<now, crashes, ledgerVars, sealed, req, secret, call, out, provider, nextId>>

RowsReadFails(s) ==
  /\ "readError" \in Faults
  /\ pc[s] \in {"gate", "claim"}
  /\ cache = NoRows
  /\ cache' = <<>>
  /\ UseRows(s, <<>>)
  /\ UNCHANGED view

RowsParsed(s) ==
  /\ pc[s] \in {"gateRead", "claimRead"}
  /\ ~torn
  /\ cache' = view[s]
  /\ UseRows(s, view[s])
  /\ view' = [view EXCEPT ![s] = <<>>]

RowsUnparsable(s) ==
  /\ pc[s] \in {"gateRead", "claimRead"}
  /\ torn
  /\ Answer(s, "INTERNAL", 0)
  /\ view' = [view EXCEPT ![s] = <<>>]
  /\ UNCHANGED <<now, crashes, ledgerVars, sealed, req, secret, call, provider, nextId>>

-----------------------------------------------------------------------------
(* FileLedger.append(): the line reaches the file, then the cache.         *)

RowFor(s, st) ==
  [key |-> req[s].tool, run |-> req[s].run, state |-> st,
   eff |-> IF st = "COMMITTED" THEN out[s].eff ELSE 0, ts |-> now]

(* What the three appends of once() write, by where the handler stands.    *)
Written(s) == CASE pc[s] = "intent" -> "INTENT"
                [] pc[s] = "commit" -> "COMMITTED"
                [] OTHER -> "FAILED"

(* Slip: the row only reaches the cache.                                   *)
AppendSkipsFile(s) ==
  /\ pc[s] \in {"intent", "commit", "release"}
  /\ view' = [view EXCEPT ![s] = <<RowFor(s, Written(s))>>]
  /\ Goto(s, IF pc[s] = "intent" THEN "intentDone" ELSE "settled")
  /\ UNCHANGED <<now, crashes, ledgerVars, sealed, req, secret, call, out, provider, nextId>>

AppendToFile(s) ==
  /\ pc[s] \in {"intent", "commit", "release"}
  /\ file' = Append(file, RowFor(s, Written(s)))
  /\ view' = [view EXCEPT ![s] = <<RowFor(s, Written(s))>>]
  /\ Goto(s, IF pc[s] = "intent" THEN "intentDone" ELSE "settled")
  /\ UNCHANGED <<now, crashes, torn, cache, sealed, req, secret, call, out, provider, nextId>>

(* claim() returns ok and once() may act; settle() returns and it answers. *)
AppendToCache(s) ==
  /\ pc[s] \in {"intentDone", "settled"}
  /\ cache' = IF cache = NoRows THEN NoRows ELSE cache \o view[s]
  /\ view' = [view EXCEPT ![s] = <<>>]
  /\ Goto(s, IF pc[s] = "intentDone" THEN "act" ELSE "answered")
  /\ UNCHANGED <<now, crashes, file, torn, sealed, req, secret, call, out, provider, nextId>>

-----------------------------------------------------------------------------
(* The provider, and what a handler learns of it.                          *)

(* act(): the request leaves the gateway.                                  *)
Send(s) ==
  /\ pc[s] = "act"
  /\ wire' = wire \cup {[id |-> nextId, key |-> req[s].tool, run |-> req[s].run,
                         secret |-> secret[s]]}
  /\ call' = [call EXCEPT ![s] = nextId]
  /\ nextId' = nextId + 1
  /\ Goto(s, "await")
  /\ UNCHANGED <<now, crashes, ledgerVars, sealed, req, view, secret, out, made, live>>

(* The provider creates what was asked, even if nobody waits any more.     *)
Execute(w) ==
  /\ w \in wire
  /\ wire' = wire \ {w}
  /\ made' = made \cup {w}
  /\ live' = IF w.key = "P2" THEN live \cup {w.id} ELSE live
  /\ UNCHANGED <<now, crashes, ledgerVars, sealed, handlerVars, nextId>>

(* The request never arrives, or dies at the provider.                     *)
Lose(w) ==
  /\ w \in wire
  /\ wire' = wire \ {w}
  /\ UNCHANGED <<now, crashes, ledgerVars, sealed, handlerVars, made, live, nextId>>

(* Slip: the result is returned and not settled.                           *)
SucceededUnsettled(s) ==
  /\ pc[s] = "await"
  /\ \E w \in made : w.id = call[s]
  /\ Answer(s, "OK", call[s])
  /\ UNCHANGED <<now, crashes, ledgerVars, sealed, req, view, secret, call, provider, nextId>>

(* 2xx: the result is recorded as the detail of the COMMITTED row.         *)
Succeeded(s) ==
  /\ pc[s] = "await"
  /\ \E w \in made : w.id = call[s]
  /\ Goto(s, "commit")
  /\ out' = [out EXCEPT ![s] = [code |-> "OK", eff |-> call[s]]]
  /\ UNCHANGED <<now, crashes, ledgerVars, sealed, req, view, secret, call, provider, nextId>>

(* A definitive 4xx: nothing was created, the claim is released.           *)
Rejected(s) ==
  /\ pc[s] = "await"
  /\ \E w \in wire : w.id = call[s] /\ wire' = wire \ {w}
  /\ Goto(s, "release")
  /\ out' = [out EXCEPT ![s] = [code |-> "PROVIDER_REJECTED", eff |-> 0]]
  /\ UNCHANGED <<now, crashes, ledgerVars, sealed, req, view, secret, call, made, live, nextId>>

(* Slip: an unknown outcome frees the step of a purchase as well.          *)
AmbiguousReleases(s) ==
  /\ pc[s] = "await"
  /\ Goto(s, "release")
  /\ out' = [out EXCEPT ![s] = [code |-> "PROVIDER_AMBIGUOUS", eff |-> 0]]
  /\ UNCHANGED <<now, crashes, ledgerVars, sealed, req, view, secret, call, provider, nextId>>

(* Slip: an unknown outcome is taken for a success.                        *)
AmbiguousCommits(s) ==
  /\ pc[s] = "await"
  /\ Goto(s, "commit")
  /\ out' = [out EXCEPT ![s] = [code |-> "OK", eff |-> call[s]]]
  /\ UNCHANGED <<now, crashes, ledgerVars, sealed, req, view, secret, call, provider, nextId>>

(* Timeout, 5xx, 429, or a server without an address: the outcome is       *)
(* unknown.  A purchase keeps its INTENT; a free step is released.         *)
Ambiguous(s) ==
  /\ pc[s] = "await"
  /\ out' = [out EXCEPT ![s] = [code |-> "PROVIDER_AMBIGUOUS", eff |-> 0]]
  /\ \/ req[s].tool = "P2" /\ Goto(s, "answered")
     \/ req[s].tool # "P2" /\ Goto(s, "release")
  /\ UNCHANGED <<now, crashes, ledgerVars, sealed, req, view, secret, call, provider, nextId>>

(* adopt(): the one server that carries the mandate's label is recorded    *)
(* when it has an address ...                                              *)
AdoptFound(s) ==
  /\ pc[s] = "adopt"
  /\ \E x \in live : /\ live = {x}
                     /\ out' = [out EXCEPT ![s] = [code |-> "OK", eff |-> x]]
  /\ Goto(s, "commit")
  /\ UNCHANGED <<now, crashes, ledgerVars, sealed, req, view, secret, call, provider, nextId>>

(* Slip: when no server is found the purchase is given up.                 *)
AdoptNothingReleases(s) ==
  /\ pc[s] = "adopt"
  /\ live = {}
  /\ Goto(s, "release")
  /\ UNCHANGED <<now, crashes, ledgerVars, sealed, req, view, secret, call, out, provider, nextId>>

(* ... none, or one without an address yet, is IN_FLIGHT; several are a    *)
(* refusal; a list request that fails is reported and changes nothing.     *)
AdoptNothing(s) ==
  /\ pc[s] = "adopt"
  /\ \/ (\E x, y \in live : x # y) /\ Answer(s, "MULTIPLE_SERVERS", 0)
     \/ (\A x, y \in live : x = y) /\ Answer(s, "IN_FLIGHT", 0)
     \/ Answer(s, "PROVIDER_AMBIGUOUS", 0)
  /\ UNCHANGED <<now, crashes, ledgerVars, sealed, req, view, secret, call, provider, nextId>>

(* hetzner_server_delete (phase 'rollback'): any live server that carries  *)
(* the mandate's label; the ledger is neither read nor written.            *)
DeleteServer(x) ==
  /\ x \in live
  /\ live' = live \ {x}
  /\ UNCHANGED <<now, crashes, ledgerVars, sealed, handlerVars, wire, made, nextId>>

(* The answer is delivered, or lost on the way: the handler is over.       *)
Finish(s) ==
  /\ pc[s] = "answered"
  /\ Goto(s, "idle")
  /\ secret' = [secret EXCEPT ![s] = 0]
  /\ call' = [call EXCEPT ![s] = 0]
  /\ out' = [out EXCEPT ![s] = [code |-> "-", eff |-> 0]]
  /\ UNCHANGED <<now, crashes, ledgerVars, sealed, req, view, provider, nextId>>

-----------------------------------------------------------------------------
(* The process dies: every handler is gone and the cache with them, the    *)
(* requests on the wire are not.  A line being written may be cut short.   *)
Crash ==
  /\ crashes < MaxCrashes
  /\ crashes' = crashes + 1
  /\ cache' = NoRows
  /\ pc' = [s \in Slots |-> "idle"]
  /\ view' = [s \in Slots |-> <<>>]
  /\ secret' = [s \in Slots |-> 0]
  /\ call' = [s \in Slots |-> 0]
  /\ out' = [s \in Slots |-> [code |-> "-", eff |-> 0]]
  /\ \/ UNCHANGED torn
     \/ /\ "tornWrite" \in Faults
        /\ \E s \in Slots : pc[s] \in {"intent", "commit", "release"}
        /\ torn' = TRUE
  /\ UNCHANGED <<now, file, sealed, req, provider, nextId>>

Tick ==
  /\ now < MaxTime
  /\ now' = now + 1
  /\ UNCHANGED <<crashes, ledgerVars, sealed, handlerVars, provider, nextId>>

Handler(s) ==
  \/ ReadSecret(s) \/ SealSecret(s)
  \/ RowsFromCache(s) \/ RowsReadFile(s) \/ RowsReadFails(s)
  \/ RowsParsed(s) \/ RowsUnparsable(s)
  \/ AppendToFile(s) \/ AppendToCache(s)
  \/ Send(s) \/ Succeeded(s) \/ Rejected(s) \/ Ambiguous(s)
  \/ AdoptFound(s) \/ AdoptNothing(s) \/ Finish(s)

Provider ==
  \/ \E w \in wire : Execute(w) \/ Lose(w)
  \/ \E x \in live : DeleteServer(x)

Next ==
  \/ \E s \in Slots : (\E t \in Tools, r \in Runs : Submit(s, t, r)) \/ Handler(s)
  \/ Provider
  \/ Crash
  \/ Tick

Spec == Init /\ [][Next]_vars

(***************************************************************************)
(* Handlers run on: Node resumes a settled promise, every provider request *)
(* has a 30 s deadline.  The caller keeps retrying its purchase with the   *)
(* same run_id, and the server gets an address in the end; the process may *)
(* still die MaxCrashes times.                                             *)
(***************************************************************************)
Retrying ==
  /\ \A s \in Slots :
       /\ WF_vars(Handler(s)) /\ SF_vars(AdoptFound(s))
       /\ \A r \in Runs : SF_vars(Submit(s, "P2", r))
  /\ WF_vars(\E w \in wire : Execute(w) \/ Lose(w))

RetrySpec == Spec /\ Retrying

-----------------------------------------------------------------------------
(* Correctness.                                                            *)

Labels == {"idle", "secrets", "seal", "gate", "gateRead", "claim", "claimRead",
           "intent", "intentDone", "act", "await", "commit", "release",
           "settled", "adopt", "answered"}

(* Every variable has the type the code gives it.                          *)
TypeOK ==
  /\ now \in Nat /\ crashes \in Nat /\ nextId \in Nat /\ vault \in Nat /\ misread \in BOOLEAN
  /\ file \in Seq(Row) /\ torn \in BOOLEAN /\ cache \in Seq(Row) \cup {NoRows}
  /\ pc \in [Slots -> Labels]
  /\ req \in [Slots -> [tool : Tools, run : Runs, at : Nat]]
  /\ view \in [Slots -> Seq(Row)]
  /\ secret \in [Slots -> Nat] /\ call \in [Slots -> Nat]
  /\ out \in [Slots -> [code : Codes, eff : Nat]]
  /\ wire \subseteq Requests /\ made \subseteq Requests /\ live \subseteq Nat

(* Write-ahead: no request reaches a provider before the ledger file holds *)
(* an INTENT of the same run and step (ledger.ts, claim before the call),  *)
(* whatever overlaps and wherever the process dies.                        *)
WriteAhead ==
  \A w \in wire \cup made : \E i \in 1..Len(file) :
    file[i].key = w.key /\ file[i].run = w.run /\ file[i].state = "INTENT"

(* A COMMITTED row is never about something the provider did not create:   *)
(* once() and its adopt record what was answered or found, no more.        *)
CommittedIsReal ==
  \A i \in 1..Len(file) : file[i].state = "COMMITTED" =>
    \E w \in made : w.id = file[i].eff /\ w.key = file[i].key

(* Phase 'continue': nothing is sent to the machine's Coolify before the   *)
(* purchase of the machine is on file.                                     *)
FreeStepsFollowPurchase ==
  \A w \in wire \cup made : w.key \in FreeSteps =>
    \E i \in 1..Len(file) : file[i].key = "P2" /\ file[i].state = "COMMITTED"

(* An answer "ok" to a side-effecting call is about an effect the ledger   *)
(* file already holds, so a crash after the answer cannot forget it.       *)
OkIsDurable ==
  \A s \in Slots :
    pc[s] = "answered" /\ out[s].code = "OK" /\ req[s].tool \in Keys =>
      \E i \in 1..Len(file) :
        file[i].key = req[s].tool /\ file[i].state = "COMMITTED" /\ file[i].eff = out[s].eff

(* "at most once per (mandate, step)" for the step that costs money: one   *)
(* mandate never buys two servers, across retries, runs and crashes.       *)
AtMostOneServer == \A x, y \in Servers(wire \cup made) : x = y

(* A server that exists or may still come into being is in the ledger as   *)
(* an open INTENT, to be reconciled, or is the one the COMMITTED row       *)
(* names: it is never forgotten, nor the step freed for another purchase.  *)
NoServerForgotten ==
  \A x \in Servers(wire \cup made) : \E p \in Prior(file, "P2") :
    p.state = "INTENT" \/ (p.state = "COMMITTED" /\ p.eff = x.id)

(* "a lost response cannot orphan a server we can no longer log in to":    *)
(* the credentials in the vault open the server the ledger names.          *)
VaultOpensServer ==
  \A p \in Purchases(file), w \in made : w.id = p.eff => w.secret = vault

(* So they do, over lost answers, crashes and retries: they are minted     *)
(* before the purchase and reused by its retries (coolifySecrets), unless  *)
(* a read of credentials that a request carries failed (vault.get).        *)
CredentialFits == misread \/ VaultOpensServer

(* Between appends the ledger the process remembers is the ledger on file. *)
CacheIsFile ==
  (\A s \in Slots : pc[s] \notin {"intentDone", "settled"}) => cache \in {NoRows, file}

(* "outcome unknown, will reconcile on retry": a server the provider made  *)
(* after the answer was lost ends up recorded (or deleted), as long as the *)
(* mandate is valid and no crash has cut a line of the ledger short.       *)
ReconciledOnRetry ==
  live # {} ~> (live = {} \/ Purchases(file) # {} \/ now > Exp \/ torn)

(* Once a purchase is recorded, the record never changes: the server that  *)
(* later steps act on and the run window stay what they were.              *)
RecordIsFinal ==
  [][Purchases(file) # {} => Purchases(file)' = Purchases(file)]_vars

-----------------------------------------------------------------------------
(* The purchase as the ledger file and the provider show it.               *)
RecordOf(rows) ==
  IF InFlight(rows, "P2") THEN "open"
  ELSE IF Purchases(rows) # {} THEN "settled" ELSE "none"

Abstract == INSTANCE Purchase WITH record <- RecordOf(file), bought <- Servers(made)

(* The gateway implements the promise of module Purchase.                  *)
ImplementsPurchase == Abstract!PurchaseSpec
=============================================================================
