---------------------------- MODULE GatewayTools ----------------------------
(***************************************************************************)
(* The gateway's tools around the purchase (gateway/tools.ts): what the    *)
(* operator prepares and registers in the handoff lane, the environment    *)
(* that goes from Vercel through the vault to the server, and the domain   *)
(* that is pointed at it and back.  Several mandates share one gateway,    *)
(* one domain and one DNS provider.                                        *)
(*                                                                         *)
(* A call is let in by module Guard and then runs from await to await, as  *)
(* in module Gateway, which has the purchase, the file behind the ledger   *)
(* and the answers a caller gets.  Here a read of the ledger is one step,  *)
(* and a refused call, which changes nothing, is left out.                 *)
(***************************************************************************)
EXTENDS Ledger, Guard, FiniteSets

CONSTANTS
  Slots,      \* calls that may be under way together
  Runs,       \* run identifiers the callers use
  Tokens,     \* the mandate tokens callers hold, forged ones among them
  Mandates,   \* the mandates in them that the issuer signed
  Addresses,  \* servers humans buy
  Bought,     \* the address of the server that each hetzner mandate has bought
  Old,        \* where the domains point before any migration
  Verdicts,   \* the Auditor's tokens that callers hold
  Domains,    \* domain names callers ask for
  Projects,   \* Vercel projects callers ask for
  None, Torn, \* no file in the vault, and one cut short
  Workloads,  \* bound: the tools and the mandates that callers use together
  MaxRows, MaxWrites, MaxFaults, MaxVersion  \* bounds

(* Every address and number there is, and what stands for no file, no      *)
(* record and no answer is none of them.                                   *)
Ids   == {m.id : m \in Mandates}
Homes == {Old} \cup Addresses \cup {Bought[m] : m \in DOMAIN Bought}
ARecord == [id : Nat, content : Homes]   \* an A record at the DNS provider

ASSUME GatewayToolsAssumption ==
  /\ Mandates = {t.mandate : t \in {x \in Tokens : x.signed}}
  /\ DOMAIN Bought \subseteq Ids /\ IsFiniteSet(DOMAIN Bought)
  /\ \A v \in Verdicts :
       /\ v = [signed |-> v.signed, verdict |-> v.verdict, mandate |-> v.mandate, ip |-> v.ip]
       /\ v.signed \in BOOLEAN
  /\ None \notin Nat \cup Homes \cup ARecord /\ Torn \notin Nat
  /\ {MaxRows, MaxWrites, MaxFaults, MaxVersion} \subseteq Nat

VARIABLES
  workload,  \* one of Workloads
  file,      \* rows of the ledger
  coolify,   \* the vault's Coolify secret of each mandate
  blob,      \* the vault's environment of each mandate
  zone,      \* per domain: the sets of A records it has had, oldest first
  vercel,    \* the version of the projects' variables
  app,       \* what the application of each mandate was given, and two histories: the
             \* newest version exported before the call, and whether exports overlapped
  expired, closed,   \* mandates whose exp, whose run window has passed
  call,      \* the call in each slot
  wire,      \* DNS writes whose caller has given them up
  nextId,    \* the next secret or DNS record
  faults,
  handed,    \* history: the secrets of the cloud-inits handed out
  confirmed, \* history: the addresses the operator was told are registered
  undone,    \* history: the last rollback that was heard, and what it undid
  exported,  \* history: per mandate, the newest version an export has answered
  crossed,   \* history: mandates of which two exports overlapped
  misread    \* history: mandates of which a read failed of a secret handed out

vault   == <<coolify, blob>>
history == <<handed, confirmed, undone, exported, crossed, misread>>
clock   == <<expired, closed>>
vars == <<workload, file, vault, zone, vercel, app, clock, call, wire, nextId, faults, history>>

Idle == [at |-> "idle"]
Current(d) == Last(zone[d])

Init ==
  /\ workload \in Workloads
  /\ \E r \in Runs : LET order == SetToSeq(DOMAIN Bought) IN
       file = [i \in DOMAIN order |->
                 [key |-> <<order[i], "P2">>, run |-> r, state |-> "COMMITTED", detail |-> Bought[order[i]]]]
  /\ coolify = [m \in Ids |-> IF m \in DOMAIN Bought THEN 1 ELSE None]
  /\ blob = [m \in Ids |-> None]
  /\ \E first \in {{}, {[id |-> 1, content |-> Old]}} : zone = [d \in Domains |-> <<first>>]
  /\ vercel = 1 /\ app = [m \in Ids |-> None]
  /\ expired = {} /\ closed = {}
  /\ call = [s \in Slots |-> Idle] /\ wire = {}
  /\ nextId = 2 /\ faults = 0
  /\ handed = {} /\ confirmed = {} /\ undone = None /\ exported = [m \in Ids |-> 0]
  /\ crossed = {} /\ misread = {}

-----------------------------------------------------------------------------
(* Letting a call in.                                                      *)

(* committed(deps, m, 'P2'): the server of a mandate, at most one row.     *)
ServerRow(m) == Committed(file, <<m, "P2">>)

(* requireMandate, by phase.                                               *)
Admitted(t, phase) ==
  /\ verifyMandate(t, phase # "spend", t.mandate.id \in expired) = "OK"
  /\ phase = "continue" => ServerRow(t.mandate.id) # {} /\ t.mandate.id \notin closed

Allowed(t, phase, tool, args) == Admitted(t, phase) /\ authorize(t.mandate, tool, args, TRUE) = "OK"

Begin(s, c) == call' = [call EXCEPT ![s] = c]
Step(s, c)  == call' = [call EXCEPT ![s] = c]
At(s, l)    == call[s].at = l
End(s)      == Step(s, Idle)

(* The operator's tools have one caller, a human at a terminal.            *)
OneOperator ==
  \A s \in Slots : ~(call[s] # Idle /\ call[s].step = "P2")

Faulty == faults < MaxFaults /\ faults' = faults + 1

-----------------------------------------------------------------------------
(* handoff_prepare: a secret is minted once and then reused.               *)

Prepare(s, t) ==
  /\ OneOperator /\ Allowed(t, "spend", <<"handoff", "prepare">>, "")
  /\ Begin(s, [at |-> "secrets", step |-> "P2", mandate |-> t.mandate.id])
  /\ UNCHANGED <<file, vault, zone, vercel, app, clock, wire, nextId, faults, history>>

(* coolifySecrets.  writeFile empties the file before it fills it, and a   *)
(* file that was cut short makes get() throw.  Any other read that fails   *)
(* is null to the caller, who then mints over a secret that is there.      *)
CoolifySecrets(s) ==
  /\ At(s, "secrets")
  /\ LET m == call[s].mandate IN
     \/ /\ coolify[m] = None
        /\ coolify' = [coolify EXCEPT ![m] = Torn]
        /\ Step(s, [call[s] EXCEPT !.at = "sealing"]) /\ UNCHANGED <<handed, misread, faults>>
     \/ /\ coolify[m] = Torn /\ End(s) /\ UNCHANGED <<coolify, handed, misread, faults>>
     \/ /\ coolify[m] \notin {None, Torn}
        /\ handed' = handed \cup {[mandate |-> m, secret |-> coolify[m]]}
        /\ End(s) /\ UNCHANGED <<coolify, misread, faults>>
     \/ /\ coolify[m] # None /\ Faulty
        /\ coolify' = [coolify EXCEPT ![m] = Torn]
        /\ misread' = misread \cup {h.mandate : h \in {x \in handed : x.mandate = m}}
        /\ Step(s, [call[s] EXCEPT !.at = "sealing"]) /\ UNCHANGED handed
  /\ UNCHANGED <<file, blob, zone, vercel, app, clock, wire, nextId, confirmed, undone, exported, crossed>>

SealSecret(s) ==
  /\ At(s, "sealing")
  /\ LET m == call[s].mandate IN
     /\ coolify' = [coolify EXCEPT ![m] = nextId]
     /\ handed' = handed \cup {[mandate |-> m, secret |-> nextId]}
  /\ nextId' = nextId + 1 /\ End(s)
  /\ UNCHANGED <<file, blob, zone, vercel, app, clock, wire, faults, confirmed, undone, exported, crossed, misread>>

-----------------------------------------------------------------------------
(* handoff_register: the address of the server a human bought.             *)

Register(s, t, r, ip) ==
  /\ OneOperator /\ Allowed(t, "spend", <<"handoff", "register">>, "") /\ isPublicIPv4(ip)
  /\ Begin(s, [at |-> "prior", mandate |-> t.mandate.id, step |-> "P2", run |-> r, detail |-> ip])
  /\ UNCHANGED <<file, vault, zone, vercel, app, clock, wire, nextId, faults, history>>

(* Slip: another address is left to once(), which answers with the first.  *)
PriorSilent(s) ==
  /\ At(s, "prior")
  /\ IF coolify[call[s].mandate] \in {None, Torn} THEN End(s) ELSE Step(s, [call[s] EXCEPT !.at = "claim"])
  /\ UNCHANGED <<file, vault, zone, vercel, app, clock, wire, nextId, faults, history>>

(* NOT_PREPARED, or ALREADY_REGISTERED at another address by this run.     *)
PriorAddress(s) ==
  /\ At(s, "prior")
  /\ IF \/ coolify[call[s].mandate] \in {None, Torn}
        \/ \E p \in ServerRow(call[s].mandate) : p.run = call[s].run /\ p.detail # call[s].detail
     THEN End(s)
     ELSE Step(s, [call[s] EXCEPT !.at = "claim"])
  /\ UNCHANGED <<file, vault, zone, vercel, app, clock, wire, nextId, faults, history>>

-----------------------------------------------------------------------------
(* once(), for a step without adopt: P2 in the handoff lane, and P8.       *)

Key(s) == <<call[s].mandate, call[s].step>>
Note(s, state, detail) ==
  file' = Append(file, [key |-> Key(s), run |-> call[s].run, state |-> state, detail |-> detail])

Confirm(s) == confirmed' = IF call[s].step = "P2"
                           THEN confirmed \cup {[mandate |-> call[s].mandate, ip |-> call[s].detail]}
                           ELSE confirmed

(* claim() reads the rows.  A step that is committed is answered from the  *)
(* record; one that is open, or another run's, is refused.                 *)
Claim(s) ==
  /\ At(s, "claim")
  /\ \/ /\ Free(file, Key(s)) /\ Len(file) + 2 <= MaxRows
        /\ Step(s, [call[s] EXCEPT !.at = "intend"]) /\ UNCHANGED confirmed
     \/ /\ \E p \in Committed(file, Key(s)) : p.run = call[s].run
        /\ Confirm(s) /\ End(s)
     \/ /\ InFlight(file, Key(s)) \/ \E p \in Committed(file, Key(s)) : p.run # call[s].run
        /\ End(s) /\ UNCHANGED confirmed
  /\ UNCHANGED <<file, vault, zone, vercel, app, clock, wire, nextId, faults, handed, undone, exported, crossed, misread>>

(* The INTENT is on file; a registration has nothing else to do.           *)
Intend(s) ==
  /\ At(s, "intend")
  /\ Note(s, "INTENT", None)
  /\ Step(s, [call[s] EXCEPT !.at = IF call[s].step = "P2" THEN "settle" ELSE "look"])
  /\ UNCHANGED <<vault, zone, vercel, app, clock, wire, nextId, faults, history>>

Settle(s) ==
  /\ At(s, "settle")
  /\ Note(s, "COMMITTED", call[s].detail) /\ Confirm(s) /\ End(s)
  /\ UNCHANGED <<vault, zone, vercel, app, clock, wire, nextId, faults, handed, undone, exported, crossed, misread>>

(* A request that was rejected, or whose outcome is unknown: a free step   *)
(* releases its claim.                                                     *)
Release(s) ==
  /\ At(s, "release")
  /\ Note(s, "FAILED", None) /\ End(s)
  /\ UNCHANGED <<vault, zone, vercel, app, clock, wire, nextId, faults, history>>

-----------------------------------------------------------------------------
(* vercel_env_export and coolify_envs_bulk_update.                         *)

Exports(m) == {s \in Slots : call[s].at \in {"read", "blob", "blobbing"} /\ call[s].mandate = m}

Export(s, t, project) ==
  /\ Allowed(t, "continue", <<"vercel", "env", "export">>, project)
  /\ crossed' = IF Exports(t.mandate.id) = {} THEN crossed ELSE crossed \cup {t.mandate.id}
  /\ Begin(s, [at |-> "read", step |-> "env", mandate |-> t.mandate.id, project |-> project])
  /\ UNCHANGED <<file, vault, zone, vercel, app, clock, wire, nextId, faults, handed, confirmed, undone, exported, misread>>

ReadEnvs(s) ==
  /\ At(s, "read")
  /\ \/ /\ Step(s, [at |-> "blob", step |-> "env", mandate |-> call[s].mandate,
                 project |-> call[s].project, version |-> vercel])
        /\ UNCHANGED faults
     \/ Faulty /\ End(s)
  /\ UNCHANGED <<file, vault, zone, vercel, app, clock, wire, nextId, history>>

(* Slip: a blob that exists is kept, as a Coolify secret is.               *)
SealedEnvsOnce(s) ==
  /\ At(s, "blobbing") /\ End(s)
  /\ LET c == call[s] IN
     /\ blob' = [blob EXCEPT ![c.mandate] = IF exported[c.mandate] = 0 THEN [project |-> c.project, version |-> c.version]
                                            ELSE [project |-> c.project, version |-> exported[c.mandate]]]
     /\ exported' = [exported EXCEPT ![c.mandate] = IF c.version > @ THEN c.version ELSE @]
  /\ UNCHANGED <<file, coolify, zone, vercel, app, clock, wire, nextId, faults, handed, confirmed, undone, crossed, misread>>

SealEnvs(s) ==
  /\ At(s, "blob")
  /\ blob' = [blob EXCEPT ![call[s].mandate] = Torn]
  /\ Step(s, [call[s] EXCEPT !.at = "blobbing"])
  /\ UNCHANGED <<file, coolify, zone, vercel, app, clock, wire, nextId, faults, history>>

SealedEnvs(s) ==
  /\ At(s, "blobbing") /\ End(s)
  /\ LET c == call[s] IN
     /\ blob' = [blob EXCEPT ![c.mandate] = [project |-> c.project, version |-> c.version]]
     /\ exported' = [exported EXCEPT ![c.mandate] = IF c.version > @ THEN c.version ELSE @]
  /\ UNCHANGED <<file, coolify, zone, vercel, app, clock, wire, nextId, faults, handed, confirmed, undone, crossed, misread>>

(* target(): the server of the mandate and its Coolify secret.             *)
Target(m) == ServerRow(m) # {} /\ coolify[m] \notin {None, Torn}

BulkUpdate(s, t) ==
  /\ Allowed(t, "continue", <<"coolify", "envs", "bulk_update">>, "")
  /\ Begin(s, [at |-> "open", step |-> "env", mandate |-> t.mandate.id, floor |-> exported[t.mandate.id]])
  /\ UNCHANGED <<file, vault, zone, vercel, app, clock, wire, nextId, faults, history>>

(* BAD_REF when there is no blob, an error when it is cut short.           *)
OpenBlob(s) ==
  /\ At(s, "open")
  /\ IF blob[call[s].mandate] \in {None, Torn} \/ ~Target(call[s].mandate)
     THEN End(s)
     ELSE Step(s, [at |-> "load", step |-> "env", mandate |-> call[s].mandate,
                  floor |-> call[s].floor, envs |-> blob[call[s].mandate]])
  /\ UNCHANGED <<file, vault, zone, vercel, app, clock, wire, nextId, faults, history>>

(* Coolify takes the variables, or the request fails on the way.           *)
Load(s) ==
  /\ At(s, "load") /\ End(s)
  /\ \/ /\ app' = [app EXCEPT ![call[s].mandate] =
                     [envs |-> call[s].envs, floor |-> call[s].floor, crossed |-> call[s].mandate \in crossed]]
        /\ UNCHANGED faults
     \/ Faulty /\ UNCHANGED app
  /\ UNCHANGED <<file, vault, zone, vercel, clock, wire, nextId, handed, confirmed, undone, exported, crossed, misread>>

-----------------------------------------------------------------------------
(* cloudflare_dns_upsert and cloudflare_dns_rollback.                      *)

(* With a token that has not expired yet.                                  *)
Upsert(s, t, r, d, v) ==
  /\ authorize(t.mandate, <<"cloudflare", "dns", "upsert">>, d, TRUE) = "OK"
  /\ Admitted(t, "continue") /\ Target(t.mandate.id)
  /\ \E p \in ServerRow(t.mandate.id) :
       /\ verifyAuditorToken(v, t.mandate.id, p.detail, FALSE) = "OK"
       /\ Begin(s, [at |-> "claim", mandate |-> t.mandate.id, step |-> "P8", run |-> r,
                     domain |-> d, detail |-> p.detail])
  /\ UNCHANGED <<file, vault, zone, vercel, app, clock, wire, nextId, faults, history>>

(* Slip: what was there is read when the answer has come.                  *)
LookLate(s) ==
  /\ At(s, "look")
  /\ \E seen \in Current(call[s].domain) :
       Step(s, [at |-> "write", mandate |-> call[s].mandate, step |-> "P8", run |-> call[s].run,
                domain |-> call[s].domain, record |-> seen.id, content |-> call[s].detail,
                seen |-> [seen EXCEPT !.content = call[s].detail], from |-> Len(zone[call[s].domain])])
  /\ UNCHANGED <<file, vault, zone, vercel, app, clock, wire, nextId, faults, history>>

(* upsertA reads the A record that is there, rs[0], or none.               *)
Look(s) ==
  /\ At(s, "look")
  /\ LET d == call[s].domain IN
     \/ /\ \E seen \in IF Current(d) = {} THEN {None} ELSE Current(d) :
            Step(s, [at |-> "write", mandate |-> call[s].mandate, step |-> "P8", run |-> call[s].run,
                     domain |-> d, record |-> IF seen = None THEN 0 ELSE seen.id,
                     content |-> call[s].detail, seen |-> seen, from |-> Len(zone[d])])
        /\ UNCHANGED faults
     \/ Faulty /\ Step(s, [call[s] EXCEPT !.at = "release"])
  /\ UNCHANGED <<file, vault, zone, vercel, app, clock, wire, nextId, history>>

(* The DNS provider: a POST makes a record beside those that are there, a  *)
(* PATCH and a DELETE want theirs to exist.                                *)
Applies(w) == w.record = 0 \/ \E r \in Current(w.domain) : r.id = w.record

Apply(w) ==
  LET rest == {r \in Current(w.domain) : r.id # w.record}
      id   == IF w.record = 0 THEN nextId ELSE w.record
      made == IF w.content = None THEN {} ELSE {[id |-> id, content |-> w.content]}
  IN /\ zone' = [zone EXCEPT ![w.domain] = Append(@, rest \cup made)]
     /\ nextId' = IF w.record = 0 THEN nextId + 1 ELSE nextId

WriteOf(s) == [domain |-> call[s].domain, record |-> call[s].record, content |-> call[s].content]
Room(d) == Len(zone[d]) < MaxWrites

(* The answer is heard: what was there before is recorded with the write.  *)
Written(s) ==
  /\ At(s, "write") /\ Room(call[s].domain)
  /\ IF Applies(WriteOf(s))
     THEN /\ Apply(WriteOf(s))
          /\ Step(s, [at |-> "settle", mandate |-> call[s].mandate, step |-> "P8", run |-> call[s].run,
                      detail |-> [record |-> IF call[s].record = 0 THEN nextId ELSE call[s].record,
                                  domain |-> call[s].domain, previous |-> call[s].seen,
                                  from |-> call[s].from, to |-> Len(zone[call[s].domain]) + 1]])
     ELSE Step(s, [call[s] EXCEPT !.at = "release"]) /\ UNCHANGED <<zone, nextId>>
  /\ UNCHANGED <<file, vault, vercel, app, clock, wire, faults, history>>

(* cloudflare_dns_rollback: only a record that this mandate has written,   *)
(* put back to what was there, or deleted when nothing was.                *)
Rollback(s, t) ==
  /\ Allowed(t, "rollback", <<"cloudflare", "dns", "rollback">>, "")
  /\ \E p \in Committed(file, <<t.mandate.id, "P8">>) :
       Begin(s, [at |-> "restore", domain |-> p.detail.domain, record |-> p.detail.record,
                 content |-> IF p.detail.previous = None THEN None ELSE p.detail.previous.content,
                 step |-> "rollback", from |-> p.detail.from, to |-> p.detail.to])
  /\ UNCHANGED <<file, vault, zone, vercel, app, clock, wire, nextId, faults, history>>

Restored(s) ==
  /\ At(s, "restore") /\ Room(call[s].domain) /\ End(s)
  /\ IF Applies(WriteOf(s))
     THEN /\ Apply(WriteOf(s))
          /\ undone' = [domain |-> call[s].domain, from |-> call[s].from, to |-> call[s].to,
                        at |-> Len(zone[call[s].domain]) + 1]
     ELSE UNCHANGED <<zone, nextId, undone>>
  /\ UNCHANGED <<file, vault, vercel, app, clock, wire, faults, handed, confirmed, exported, crossed, misread>>

(* The gateway gives a write up, which may still arrive.                   *)
GiveUp(s) ==
  /\ call[s].at \in {"write", "restore"} /\ Faulty
  /\ wire' = wire \cup {WriteOf(s)}
  /\ IF At(s, "write") THEN Step(s, [call[s] EXCEPT !.at = "release"]) ELSE End(s)
  /\ UNCHANGED <<file, vault, zone, vercel, app, clock, nextId, history>>

Late(w) ==
  /\ w \in wire /\ Room(w.domain) /\ wire' = wire \ {w}
  /\ IF Applies(w) THEN Apply(w) ELSE UNCHANGED <<zone, nextId>>
  /\ UNCHANGED <<file, vault, vercel, app, clock, call, faults, history>>

-----------------------------------------------------------------------------
(* The rest of the world.                                                  *)

VercelEdited ==
  /\ vercel < MaxVersion /\ vercel' = vercel + 1
  /\ UNCHANGED <<file, vault, zone, app, clock, call, wire, nextId, faults, history>>

(* Half an hour after the export.                                          *)
BlobExpires(m) ==
  /\ blob[m] \notin {None, Torn} /\ blob' = [blob EXCEPT ![m] = None]
  /\ UNCHANGED <<file, coolify, zone, vercel, app, clock, call, wire, nextId, faults, history>>

(* exp matters until there is a server.                                    *)
Expire(m) ==
  /\ ServerRow(m) = {} /\ expired' = expired \cup {m}
  /\ UNCHANGED <<file, vault, zone, vercel, app, closed, call, wire, nextId, faults, history>>

Close(m) ==
  /\ ServerRow(m) # {} /\ closed' = closed \cup {m}
  /\ UNCHANGED <<file, vault, zone, vercel, app, expired, call, wire, nextId, faults, history>>

(* A write it had sent may still arrive.                                   *)
GatewayDies ==
  /\ Faulty /\ call' = [s \in Slots |-> Idle]
  /\ wire' = wire \cup {WriteOf(s) : s \in {x \in Slots : call[x].at \in {"write", "restore"}}}
  /\ UNCHANGED <<file, vault, zone, vercel, app, clock, nextId, history>>

Operator(s, t) ==
  /\ "handoff" \in workload.tools
  /\ Prepare(s, t) \/ \E r \in Runs, ip \in Addresses : Register(s, t, r, ip)

Agent(s, t) ==
  \/ "env" \in workload.tools /\ (BulkUpdate(s, t) \/ \E p \in Projects : Export(s, t, p))
  \/ "dns" \in workload.tools /\ Rollback(s, t)
  \/ "dns" \in workload.tools /\ \E r \in Runs, d \in Domains, v \in Verdicts : Upsert(s, t, r, d, v)

Handler(s) ==
  \/ CoolifySecrets(s) \/ SealSecret(s) \/ PriorAddress(s)
  \/ Claim(s) \/ Intend(s) \/ Settle(s) \/ Release(s)
  \/ ReadEnvs(s) \/ SealEnvs(s) \/ SealedEnvs(s) \/ OpenBlob(s) \/ Load(s)
  \/ Look(s) \/ Written(s) \/ Restored(s) \/ GiveUp(s)

Environment ==
  \/ \E w \in wire : Late(w)
  \/ \E m \in workload.ids : BlobExpires(m) \/ Expire(m) \/ Close(m)
  \/ "env" \in workload.tools /\ VercelEdited
  \/ GatewayDies

Next ==
  /\ \/ \E s \in Slots : Handler(s) \/ (call[s] = Idle /\ \E t \in {x \in Tokens : x.mandate.id \in workload.ids} : Operator(s, t) \/ Agent(s, t))
     \/ Environment
  /\ UNCHANGED workload

Spec == Init /\ [][Next]_vars

-----------------------------------------------------------------------------
(* Correctness.                                                            *)

(* A domain points where it did, or at the server of one of its own        *)
(* mandates that the Auditor has passed for that mandate, whatever is      *)
(* asked for, retried, rolled back or arrives late.                        *)
CutoverIsJudged ==
  \A d \in Domains : \A r \in Current(d) :
    \/ r.content = Old
    \/ \E m \in Mandates : /\ m.domain = d /\ [signed |-> TRUE, verdict |-> "PASS", mandate |-> m.id, ip |-> r.content] \in Verdicts
                            /\ \E p \in ServerRow(m.id) : p.detail = r.content

(* A rollback puts the domain back as it was, unless another write fell    *)
(* between what the upsert had read and the rollback.                      *)
RollbackRestores ==
  undone # None /\ undone.to = undone.at - 1 /\ undone.from = undone.to - 1 =>
    zone[undone.domain][undone.at] = zone[undone.domain][undone.from]

(* "Reused if an earlier attempt already minted them, which is also what   *)
(* makes handoff_prepare idempotent": a secret that was handed out stays.  *)
SecretStays == \A h \in handed : coolify[h.mandate] = h.secret

(* What a human builds on stays true: the secret in the cloud-init that    *)
(* was handed out is the gateway's, unless a read of it has failed since,  *)
(* and the address that was confirmed is where the gateway sends it.       *)
HandoffStands ==
  /\ \A h \in handed : coolify[h.mandate] = h.secret \/ h.mandate \in misread
  /\ \A c \in confirmed : \E p \in ServerRow(c.mandate) : p.detail = c.ip

(* An application gets the variables of its own project, no older than the *)
(* last export that was answered before, unless two exports overlapped.    *)
EnvIsCurrent ==
  \A m \in {n \in Mandates : app[n.id] # None} :
    /\ app[m.id].envs.project = m.project
    /\ app[m.id].envs.version >= app[m.id].floor \/ app[m.id].crossed

(* Mandates are told apart by their ids, which the issuer makes of the     *)
(* time to the millisecond: an export goes by the token of the mandate,    *)
(* what it left in the vault by the id.                                    *)
OneMandatePerId == \A a, b \in Mandates : a.id = b.id => a = b
=============================================================================
