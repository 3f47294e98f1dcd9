# A formal model of Severance

Severance moves an application from Vercel to a server bought for it. Four agents
take part: the **Surveyor** measures, the **Broker** chooses a server and has the
choice approved, the **Porter** rewrites the repository, the **Pilot** buys, deploys
and cuts over. Money and DNS records change hands only behind the Pilot's **mandate
gateway**. What the Porter leaves in the ported application - a page cache, a cron
runner, stand-ins for Vercel's KV and Blob - runs on as replicas that share one Redis.

This directory holds TLA+ models of the parts where ordering, failure and concurrency
decide whether the system is right, the TLC runs that check them, and TLAPS proofs of
the central ones. `PROJECT.json` names, for each definition, the source lines it
translates.

All paths below are relative to `src/agents/severance/`, with `pilot/` short for
`pilot/src/`.

## 1. Inventory

### The write-ahead ledger — `pilot/pilot/ledger.ts`
State: an append-only file of rows (INTENT, COMMITTED, FAILED) per idempotency key
`mandate:step`, a cache of it in memory, an append chain. Operations: `append`, `rows`,
`claim` (read, then append INTENT), `settle`, `nonceSpent`. The gateway and the agent
each own one. Hard: claim's read and append are two awaits; a cold read fills the cache
after other appends; a read that fails looks like an empty ledger; a crash can cut a
line short. Correct means: an action never precedes its INTENT, an open INTENT blocks,
a COMMITTED row is true and final.

### The mandate gateway — `pilot/gateway/tools.ts`, `mcp.ts`, `server.ts`, `vault.ts`, `clients/*`
State: its ledger, the sealed credentials per mandate, whatever the providers hold.
Operations: MCP tools over HTTP — `hetzner_server_create/delete`, `handoff_*`,
`coolify_*`, `cloudflare_dns_*`, `vercel_env_export`, price reads. Everything with an
effect runs through `once()`: claim, act, settle; an ambiguous purchase keeps its INTENT
and is adopted by a later retry of the same run. Hard: handlers interleave at each
await; a provider may act after its caller gave up; the process may die anywhere.
Correct means: at most one server per mandate, none forgotten, credentials that fit it,
later steps only after the purchase.

### The Pilot's runbook — `pilot/pilot/runbook.ts`, `providers.ts`, `mandate.ts`, `guard.ts`, `pricing.ts`
State: a run (`step`, `status`, `polls`, artifacts, log) and the Pilot's own ledger.
Operation: `advance()`, one step per call — P0 to P8 — with retries of transient
failures, rollback, and two lanes: `automated` (Hetzner) and `handoff` (a human buys and
registers). Hard: two write-ahead ledgers, one inside the other; answers lost between
them; `exp` and the run window passing between two awaits. Correct means: the run that
bought a server is the only one that uses or deletes it, a rollback that says "rolled
back" has removed it, a failed run names what it left behind.

### The Pilot agent — `pilot/agent/executor.ts`, `run-store.ts`
State: one JSON file per run, a promise chain per run as its lock. Operations:
`run.start`, `run.poll`, `run.cutover`, `run.candidates`, intake of a cart mandate.
Hard: any number of callers, several runs of one mandate, deaths between two saves.
Correct means: a nonce is spent once, what has ended stays ended, a polled run ends.

### The operator's CLI — `pilot/cli/live.ts`
State: the same run in a file, the same ledger, the operator. Operations: a fresh run,
`--resume`, `--cutover`, `--cleanup`, interruption, `--stop-after`. Hard: every flag may
follow every other, and a purchase of unknown outcome is released and asked for again.
Correct means: no purchase out of reach, nothing left behind by a cleanup, no cutover
without a deployment.

### The Broker's gate and the Pilot's intake — `broker/src/agent_executor.py`, `broker/src/broker/{approval,choice,emit,mandate}.py`, `pilot/pilot/cart-mandate.ts`, `candidates.ts`, `pilot/agent/executor.ts`
State: per session one parked gate (the mandate on the card, approved, emitted); at the
Pilot, the carts parked per context. Operations: shop, choose, `APPROVE <id>`, re-mint of
an expired mandate, delivery over HTTP; verify, route, park, unpark. Hard: handlers of one
session overtake each other at their awaits, a delivery may be lost, late, or answered by
somebody else, mandates expire meanwhile. Correct means: only what a human approved by its
id is released, once, and what the Broker ticks off as sent waits at the Pilot.

### The Porter — `porter/src/runtime/port.ts`, `inventory/`, `transforms/`, `util/ast.ts`
State: the repository on disk, the project in memory, the writes to come. Operations: scan, eight
transforms planned on one project, writes in order, the sources last; a second run on what the
first left. Hard: a process that dies between two writes, findings that vanish before their fix is
complete, several spellings of an import and of a config entry. Correct means: nothing the scan
found is dropped, a re-run changes nothing, no import names a file that is not there.

### What the Porter installs — `porter/templates/`
- The **ISR cache handler** (`cache/cache-handler.cjs`): one Redis entry per page and one
  stamp per tag, a connection per replica. Hard: renders in flight while a tag is
  revalidated, clocks that differ, Redis away, connections closed beneath their calls. Correct
  means: what was stored before an invalidation is gone after it, and a replica comes back to
  Redis.
- The **cron runner** (`cron/scheduler.mjs`): the last minute acted in, a lock per job and
  minute in Redis. Hard: replicas with clocks of their own, stalls between clock and lock,
  answers lost, deaths. Correct means: each job in the minutes of its schedule, once.
- The **KV shim** (`kv/index.ts`) and the **storage shim** (`storage/*.ts`): records in
  Redis, objects in S3, browser uploads by presigned URL with a completion token. Hard:
  three calls of a browser, each of which may be lost, while the app deletes, copies and
  sweeps, and any page that may call the route itself. Correct means: a record is one that was
  granted, a sweep catches up.

### Other parts
- *Other CLIs* (`handoff`, `mandate`, `keygen`, `auditor-token`, `preflight`, `vault`) and
  `pilot/demo.ts`: `handoff` calls the gateway, the rest make keys and files, print checks
  or play scenes with fake providers.
- *Mandate, guard, Auditor token*: signature, schema, scope, pinned arguments and budget, as
  operators that every tool of the gateway asks first.
- *Broker's shopping pipeline*: a pure function to a plan. *Porter's A2A executor and CLI*:
  they call `portRepo` and report.
- *Surveyor* (`surveyor/src/`): reads and arithmetic. *Demo UI* (`src/ui/`): presentation.

How they interact: Broker -> Pilot (cart mandate over A2A) -> gateway (MCP over HTTP, 60 s
deadline) -> providers (HTTPS, 30 s deadline). Pilot and gateway share no memory: each has
its ledger. The Porter meets the others only through the repository; its runtime parts meet
each other only in Redis and S3. `PROJECT.json` "components" gives the state of each part in
the model, and "hazards" lists, at their lines, the things that are hard to test.

## 2. Modules

| module | models | state |
|---|---|---|
| `Ledger` | `claim`, `committed`, `nonceSpent` as operators on rows | none |
| `Gateway` | `once()`, the purchase, free steps, reads behind the gate, FileLedger, vault, provider | 17 variables |
| `Purchase` | the promise of the gateway about one mandate's money (abstract) | `record`, `bought` |
| `Guard` | `verifyMandate`, `authorize`, `verifyAuditorToken`, the address check | none |
| `GatewayTools` | the handoff, environment and DNS tools, the vault's blobs (EXTENDS `Ledger`, `Guard`) | 19 variables |
| `Runbook` | `advance()` and `rollback()`, both lanes; the gateway as its callers see it | 13 variables |
| `PilotAgent` | the A2A driver: start, poll, cutover, lock, saves (EXTENDS `Runbook`) | that of `Runbook` |
| `LiveCli` | the operator's driver: loop, resume, cutover, cleanup (EXTENDS `Runbook`) | that of `Runbook` |
| `Intake` | the Broker's gate composed with the Pilot's intake | 15 variables |
| `Port` | scan, plan and write of a port, crashes, re-runs | 8 variables |
| `IsrCache` | the cache handler of several replicas over one Redis | 9 variables |
| `CronScheduler` | the schedule language as operators; ticks, locks, firing | 13 variables |
| `Kv` | the KV shim's codec and string commands on a key space | none |
| `Uploads` | the storage shim and the upload protocol, with records in `Kv` (EXTENDS `Kv`) | 9 variables |
| `Gateway_proofs` (with the laws of `Ledger`), `GatewayTools_proofs`, `Runbook_proofs`, `Drivers_proofs` (of `PilotAgent` and `LiveCli`), `Intake_proofs`, `IsrCache_proofs`, `CronScheduler_proofs`, `Uploads_proofs` | theorems and their lemmas | |
| `MC*` | instances for TLC: values of the constants, symmetry sets | |

**Ledger.** `Prior(rows, k)` is `rows.findLast(r => r.key === k)` as a set of at most one
row; `Free`, `InFlight` and `Committed` are the three outcomes of `claim()`.

**Gateway.** One mandate. A handler is a program counter, and an action is the code between two
awaits. `Submit` is `requireMandate` up to the first await: a purchase needs phase `spend`
(`exp`), the rest phase `continue` (the run window). `ReadSecret` and `SealSecret` are
`coolifySecrets`; `vault.get` answers null to any read that fails, so a read may find nothing
where there is something, and another secret is minted and sealed over it. `misread` is history:
that befell a secret a request had carried. Every use of the ledger goes through the five actions
of `FileLedger.rows()`: from the cache, the text taken, the text parsed, the read failed, a line
unparsable. `AppendToFile` and `AppendToCache` are the two halves of `append()`. `Send`,
`Succeeded`, `Rejected`, `Ambiguous`, `AdoptFound` and `AdoptNothing` are `act`, its outcomes, and
`adopt`. A request sent is on the `wire` until the provider executes or loses it, whether or not
the handler that sent it still exists. `made` is history, what the provider ever created; `live`
is what still stands.

**Purchase.** A record that is none, open or settled, and a set of servers bought. `Gateway`
implements it under `record <- RecordOf(file), bought <- Servers(made)`.

**Runbook.** `store` holds the saved runs, `job` the call of `advance()` under way for each (the
lock of `withLock` is that there is one). Where `advance()` awaits something that changes shared
state the step is split: `Preflight`/`NoteHandoff`, `ReadRegistration`/`UseRegistration`,
`Provision`/`Intend`/call/`Bought` or `NotBought`. The Pilot's ledger is read afresh by every
call; once a death has cut one of its lines short (`torn`), `Preflight` and `Provision` throw into
the catch, whose `rollback()` says ROLLED_BACK of a run that names no server (`UndoServer`).
`Hear` is what the caller makes of an answer; `LOST` stands for every transport failure. The
gateway is `gw`, the latest row per step, plus `acting`, the steps it is executing: it keeps the
promise of `Purchase` here, with `Claimed` and `Act` apart in time, and both ends of a call may
lose the answer in between. `Caught` is the catch around the steps.

**PilotAgent**, **LiveCli**. The agent loads, advances and saves at the will of any caller.
The CLI loops in one process; `Resume` releases this run's open INTENT and reopens the run
(`ResumeDies` is a death in the middle of that line),
`CutoverRun` hands over the token, `Cleanup`/`CleanDns`/`CleanServer` are `--cleanup`.

**Guard, GatewayTools.** A token is whether the issuer signed it, whether its payload is
canonical, and the mandate in it; scopes and tools are sequences of words. A call is a record in a
slot whose `at` is the await it stands at. `CoolifySecrets`/`SealSecret` and
`SealEnvs`/`SealedEnvs` are the two halves of `writeFile` in the vault's `put`: `Torn` in between;
a `Torn` secret, and one whose read fails, is taken for none, as in `Gateway`. `Claim`, `Intend`,
`Settle`, `Release` are `once()` over a ledger that is read in one step, for `Gateway` has its
cache. `zone` keeps all states of a domain, so that a rollback can be compared with what the
upsert saw; a DNS write that was given up is on the `wire` and may still arrive.

**Intake.** The Broker is one event loop: `Choose`/`Chosen` and `Shop`/`Shopped` are the two sides
of an await (`ShopFails` when nothing was found), and nothing of the Broker runs while it posts
(the client is synchronous). Between `APPROVE` being matched and the post there is no await, so
`Approve` is one action with the two outcomes of `evaluate_approval`. `Answered`,
`AnsweredForPilot` and `Unreachable` are the outcomes of the post (`AnsweredForPilot`: any HTTP
answer that was not the Pilot's, and the stub without a URL); `late` holds what the network
delivers after the Broker gave up. `HandleCart` is the Pilot's side, the same for the Broker's
delivery and for a human's copy.

**Port.** A repository is a record of facts the transforms look at: the imports of each source
file (package, path below it, form), edge pins, `revalidate` exports, how each key of `next.config`
stands there, `vercel.json`, generated files, packages, the example of the environment. A path
below a package goes to the same path below its shim, as in `ast.ts`, whether Porter writes a
module there (`ImportedAs`) or not. Each transform is an operator from findings,
disk and project to project and step; `prepare` chains them as the code does. `WriteNext` is one
write of `apply()`, `Save` one source file of `project.save()`, `Crash` may come between any two.

**IsrCache.** A call is one call of the handler, or the render between a miss and its `set`; each
await is a step. `GetClient` has the three outcomes of `getClient()`: connected, backing off, or
one attempt that all callers await. `Disconnect` forgets the connection and ends the back-off, at
any time; calls that hold the old one go on and may fail. `last` is history: when the newest
invalidation that overlapped no other was called.

**CronScheduler.** `parseField`, `parseCron` and `matches` are operators; the run compares them
with a table of what crontab(5) says. `Tick` takes the minute before its first await, as
`tick()` does, and then goes through the due jobs: `SetNX`, `LockFails` or `Resend`, and `Fire`
or `Skip`. The clock of a replica is true time plus its skew.

**Kv, Uploads.** A value is its text and whether the caller holds a string. An upload is a program
counter over grant, PUT and report; a PUT or report on its way survives the tab that sent it. A
page with a grant may also call the route itself (`ReportDirectly`), for any key and with any
payload, PUT or no PUT. Payloads are strings or null, which the signature takes for the empty one
(`SignedText`). The app around the shims is the one that `storage/client.ts:24-29` asks for: a
record per upload, and a sweep over `list()` for those whose report was lost.

Operators introduced by a comment "Slip" are altered forms of the definition that follows
them. They are used by no specification: they are what the properties were tried against.

## 3. Runs

Sizes are distinct states; each run takes at most two and a half minutes or so.

| run | instance | shows |
|---|---|---|
| `gw_serial` (192k) | 1 handler, 2 runs, 1 free step, 1 crash, 2 ticks past `exp` and the window, 4 rows, torn lines, reads of the vault that fail | types, at most one server, none forgotten, credentials fit unless such a read failed, record final, reconciliation, `Gateway` implements `Purchase` |
| `gw_overlap` (1.8M) | 2 handlers, reads that fail, 3 rows | write-ahead, committed is real, free steps follow the purchase, an "ok" is durable |
| `gw_race` | 2 handlers, no faults | *fails* `AtMostOneServer` |
| `agent_faults` (126k) | 1 run, 1 answer or gateway lost, 2 deaths of the Pilot (also in the middle of a line), 2 polls, 1 retry | deployed is running, rolled back is gone, what orphans a server, ends are final, a polled run ends |
| `agent_rivals` (511k) | 2 runs of a mandate, both lanes, 1 loss, nobody asks for the cutover | intent before claim, own server only, one deployment, what a human bought stays |
| `live_faults` (1.0M) | 2 runs, 1 loss, 1 death, 3 rows before `--resume` stops releasing | purchases reachable, DNS after deployment |
| `isr` (378k) | 2 replicas a tick apart, 2 calls, 2 ticks, 1 outage or disconnect | what was stored before an invalidation is gone, a failed connect is retried |
| `cron` (702k) | 2 replicas half a minute apart, 2 jobs around a midnight, 2 faults | once, as scheduled, not missed |
| `intake` (1.2M) | 3 plans (one ranked first, one over the ceiling), 3 mandates, 1 fault, 1 choice that awaits | only approved is released, once, what counts as sent is parked |
| `tools` (720k) | 4 mandates of one domain in 3 workloads, 2 slots, 1 fault | cutover is judged, rollback restores, what was handed out or confirmed stands, the environment is current |
| `port` (419k) | 3 files, 406 repositories (sub-paths, lazy imports and shorthands among them), 2 deaths | nothing dropped, re-run is a no-op, imports resolve |
| `shims` (2.8M) | 2 uploads of one name, with and without a payload, reports by hand, 1 server operation, pages of 1 | a record is granted, a sweep catches up |

Deadlock is checked in the gateway's runs and in `port`. It is not in the others, for the
system may really stop: once `exp` has passed and no run was started, or the clock has reached
its bound, nothing is left to happen.

Thirteen more configurations are not part of the runs above; each makes TLC print one of the
disagreements below as a shortest counterexample: `MCPilotAgent_orphan`, `_busy`, `_cutover`,
`_nonce`, `_torn`, `MCLiveCli_dns`, `MCGateway_misread`, `MCGatewayTools_misread`,
`MCIntake_proxy`, `MCPort_lazy`, `_subpath`, `_shorthand` and `MCUploads_claims`. Their properties
are the texts taken at their word; the runs check what holds instead, with the exception named.

### Where code and text disagree
`gw_race` is quoted under "findings"; the others have the configurations just named.

1. Two overlapping calls of `hetzner_server_create` both pass `claim()`: two servers.
   (Provider-side rules on names are not assumed.)
2. A transport failure of the purchase is settled FAILED: a server may be left that no run
   names, against "Zero orphaned paid servers" (`orphan`).
3. A setup step that outlives its caller's 60 s is retried, refused IN_FLIGHT, and the
   refusal destroys the server (`busy`).
4. `run.cutover` never hands its token to the gateway client, and fails for good (`cutover`).
5. The handoff lane ignores its claim: two runs of a mandate take one server (`nonce`).
6. A cutover of unknown outcome is not undone by `--cleanup` (`dns`).
7. A beacon that one file `require()`s while another has its component is dropped without a
   word, and a dynamic `import()` of the upload client ends at a file that is not written,
   against "never dropped" (`lazy`).
8. `vault.get` answers null to any read that fails, and `coolifySecrets` mints again: the
   credentials a server was bought with, or that a `handoff_prepare` handed out, are lost,
   against "cannot orphan a server we can no longer log in to" (`misread`, of both modules).
9. A Pilot that died in the middle of a line of its ledger cannot read it, and its next poll
   answers ROLLED_BACK while the server it had asked for lives, against "Destroys anything
   bought under this run, then reports" (`torn`).
10. Any HTTP answer to a delivery, a proxy's error page too, counts as sent, and the mandate is
   not offered again, against "Leave it parked so the human can retry" (`proxy`).
11. A path below a package (`@vercel/functions/oidc`) is rewritten to one below the shim that
   nobody writes, and the finding of an import beside it is discharged, against
   `middleware.ts:16-18` and the README of the Porter (`subpath`).
12. `upsertProperty` leaves a shorthand `cacheHandler,` alone and the ISR step claims to have
   wired it (`shorthand`); so does the deploy step with `output,`.
13. A page with a grant reports an upload it never made and is believed, against
   `handle-upload.ts:82-86`; a string that happens to be JSON comes back from the KV shim as
   something else, against `kv/index.ts:18-20` (`claims`, which checks both).

The model shows some more, which the passing properties name as their exceptions, or which
the hazards note:
- *Pilot.* After `exp` no retry reconciles a purchase (`ReconciledOnRetry` has `now > Exp`); a
  run that died between purchase and save and is polled after `exp` orphans its server
  (`SilentOnlyAfterLoss`); after such a death `--resume` is refused for good
  (`PurchaseStaysReachable` has `crashes = 0`); a ledger read that fails once permits a second
  purchase (theorems and `gw_serial` exclude it); a registration that falls between the status
  read and the look at the clock is lost to the run; a run cleaned up after a failed cutover
  may be cut over.
- *Gateway's tools.* A repeated upsert remembers its own address as the previous one; a
  rollback undoes what another mandate wrote since; the gateway that dies between INTENT and
  settle of a step without `adopt` leaves it in flight for ever; overlapping exports may seal the
  older variables.
- *Intake.* A choice after the emission makes a second releasable mandate; a spend text that is
  refused has already unparked the cart.
- *Porter.* A crash between the edit of `vercel.json` and the schedules loses the crons, and one
  between Dockerfile and compose the stack (`torn` in `NothingDropped`); for a config it cannot
  edit, or whose `cacheHandler` is a shorthand, a re-run plans the ISR step again and cuts the
  example of the environment down.
- *Runtime.* Of two overlapping `revalidateTag` calls the later to arrive may bring the earlier
  time; a render begun before an invalidation is stored after it; a SET whose answer was lost
  skips the job that the scheduler's comment means to run; a report of an upload whose signed
  payload differs from the browser's never verifies; an upload granted with null may be reported
  with the empty payload, and the other way round.

### Bounds
- Handlers: two suffice for every race of `claim`, the cache fill and the vault, all of which
  are between one reader and one writer. One is the serial caller.
- Runs: two, since `run_id` is only compared for equality. `Judged` are the runs `run.cutover` is
  called for: the one of `agent_faults`; none of `agent_rivals`, where a cutover only takes a run
  out of the state its invariant is about.
- `MaxRows` limits when calls are *accepted*, never a settlement: 4 rows allow a failed
  attempt, a second attempt and a free step. `MaxRows` of `LiveCli` limits only `--resume`.
- `Exp`, `Window`, `MaxTime`: ticks on both sides of each limit, so that now = exp, one past
  it, the last tick of the window and the first after it all occur.
- `MaxCrashes`, `MaxLost`: one of each, two where the order of two deaths could matter.
  `MaxLost` counts lost answers and deaths of the gateway together.
- `PollLimit` and `StepRetries` stand for 40/60/90 polls and 3 retries: 1 or 2 reach both the
  "again" and the "enough" branch, which is all the code tells apart.
- Two mandates do not interact in `Gateway` except through file order, so there is one; they
  do through a domain, so `GatewayTools` has several. `Workloads` groups tools and mandates that
  share state; no two groups touch the same variable of a mandate.
- `Intake`: one plan wins the ranking and the others are chosen; three mandates are a first, a
  re-mint or choice, and one more while the first is still on the network. `IsrCache`: two calls
  suffice for every race, which is between one store or stamp and one read; one outage or
  disconnect is enough to fail a connect and to lose a client; two ticks put a store before or
  after an invalidation, and a clock one tick ahead hides as much. `CronScheduler`: four ticks
  cover both minutes and the life of a lock, with the margin of `LockOutlivesMinute` tight.
- `Port`: the three files are of the three kinds that are treated differently (page, route,
  middleware); every transform is due in some repository. Two deaths allow a run between them.
- `MaxMints` of `Gateway`: reads of the vault fail while no more identifiers (secrets, requests)
  than this were given out; 3 are enough for a failed read before the first request and after it.
- `Uploads`: both uploads spell one name differently; `PageSize = 1` makes every list paged.

### Fairness
`Retrying` (Gateway): a handler that can go on does (Node resumes settled promises, every
request has a deadline), the provider executes or drops a request, and the caller retries its
purchase with the same `run_id`. Strong fairness on `Submit` because the slot is busy in
between, and on `AdoptFound` because the look-up may fail or come too early several times,
but a server gets its address in the end. Nothing is assumed of the clock.
`Polled` (PilotAgent): callers poll a run they started, a call of `advance()` goes on, the
gateway finishes what it acts on. Nothing forces an answer to arrive.

`FairSpec` (IsrCache): a call goes on from its await, an attempt to connect ends (after
`connectTimeout` if in no other way) and so do the 5 s after it. Nobody owes a call and Redis need
not come back: `ConnectIsRetried` has both as its premise.

Nothing else here claims that something happens: a port, a cron minute or an upload that nobody
takes further stays where it is, and the code has no more to say.

## 4. Proofs

Checked by TLAPS for every value of the constants that satisfies the named assumptions of the
modules. These say no more than the code does: that bounds are numbers, that what stands for
"nothing" is not something (`NoRunAssumption`, part of `GatewayToolsAssumption`), that there are
finitely many replicas and servers bought, that an issuer's mandates are those in signed tokens,
that an upload's payload is a string or null.
TLC evaluates them on every instance. One is about the deployment: `LockOutlivesMinute`, by how
much the clocks of two replicas and a stall may differ.

Some theorems have a hypothesis more, stated where they are. `Serial` (one handler at a
time, no failed reads of the ledger) is what `gw_race` shows to be needed. `ReadsAsCrontab` and
`OneMandatePerId` say that a parser reads a manifest as crontab(5) does, and that mandate ids
differ (`mdt_` and the milliseconds, `cli/mandate.ts:203`; nothing compares them). The second is
an `ASSUME` of the MC module, so true of the instance; the first is what `FiredAsScheduled` and
`NotMissed` amount to in the behaviours of `cron` in which nothing fails. (For that reason
`FiredAsScheduled` under it is only a lemma here, and the property is the business of the run.)

**The ledger and the purchase.**
- `Gateway_proofs` begins with the laws of `Prior` under append, from which `OpenIntentBlocks` (an
  INTENT blocks its key whatever other keys add; that a key is exactly one of free, in flight and
  committed is a lemma).
- `TypeCorrect`: by `TypeOK /\ Stepping`; `Stepping` says that only calls
  for a ledger step get past the gate, which the row they write needs for its type.
- For *any number of overlapping handlers*, any faults and crashes: `WriteAheadHolds`,
  `CommittedIsRealHolds`, `FreeStepsFollowPurchaseHolds`, `OkIsDurableHolds`. None needs a lock,
  because the file only grows. `ClaimOnFile`: between its INTENT and its request a handler has
  that INTENT on file. `RowsKnown`: the rows a handler goes by, however stale its cache, are rows
  of the file. `CommitIsReal`: what a handler is about to settle as COMMITTED the provider has
  made. `Admitted`: a handler past the gate has a committed purchase on file. `OkOnFile`: an
  answer is "ok" only with its row written.
- Under `Serial`: `OneServerWhenSerial`, `NoServerForgottenWhenSerial`, `CacheIsFileWhenSerial`,
  `CredentialFitsWhenSerial`, `RecordIsFinalWhenSerial` and the refinement
  `GatewayImplementsPurchase`. `AtMostOneServer` is not inductive: a second request is impossible
  only because the ledger shows the first, because the cache shows the ledger, and because
  identifiers are fresh. `SerialInv` says these: `Identified`, `CacheExact` (the cache is the
  file, or lacks the very row being appended), and `PurchaseExact` (at each program counter of a
  purchase, what the file and the provider hold). The refinement then maps the three appends to
  `Open`, `Settle`, `Release`, `Execute` to `Buy`, the rest to stuttering. Credentials need
  `Sealed`: what the vault holds from the first sealing on is what every request carries, until a
  read fails of what one has carried.

**The gateway's tools** (`GatewayTools_proofs`), for any number of calls under way, mandates,
domains, DNS records, crashes and writes that arrive late. `Typed` gives each place of a call its
fields; the rest is one invariant per property.
- `HandoffStandsHolds`. `Handoff`: the operator's calls come one at a time (`Alone`), and while
  one is between reading and writing, what it has read is still so (`Undisturbed`): no secret
  (unless its read failed), no row of its step, no other address of its run. All steps of agents
  leave that alone.
- `CutoverIsJudgedHolds`. `Cutover`: not only the domains but every write on the wire, every
  recorded `previous` and every call that may write or put back names a judged place or where the
  domain was first. A place stays judged since the row of a server stays, which is `Handoff` again.
- `RollbackRestoresHolds`. `Rollbacks`: records of a domain are told apart by ids given out
  before (`Named`), a write knows the record it saw, and a recorded write that came right after
  what it had read is undone by putting that back (`Undoes`, over the history of the domain).
- `EnvIsCurrentWhenIdsDiffer`. `Environments`: exports of a mandate that overlap are told
  (`OneExport`), so one that is not has read what is at least as new as any answered before; the
  floor of a load is never above what has been answered.

**The Pilot's agent** (`Runbook_proofs`, `Drivers_proofs`), for any number of runs of a mandate,
lost answers and deaths. `RunbookInv` says what each state of a run means (`Sound`: it has a
server exactly from P3 on, which in the automated lane the gateway holds in its name), where each
job stands (`JobAt`) and what the gateway is executing (`GatewayAt`); `Runbook_proofs` shows that
the job's moves keep it, `Drivers_proofs` that each of the two drivers does. From it:
`TypeCorrect`, `IntentBeforeClaimHolds`, `OwnServerOnlyHolds`, `OneRunIsDeployedHolds`, and the
action property `HumanServerStaysHolds`. `AgentInv` (what a run in P8 or done says of the server,
and that a job never is behind the end that is saved) adds `DeployedIsRunningHolds`,
`RolledBackIsGoneHolds` (a run that says so and names no server met a torn line, since nothing
else throws before the purchase) and the action property `EndIsFinalHolds`.
`SilentOnlyAfterLossHolds` needs `AccountInv`: as long as no answer was lost and no line was torn,
the run the gateway has in its ledger is saved, and either goes on, has the server, or names it -
which takes that a run about to buy was saved as such (`BuyerAt`), and what a death may leave
between purchase and save (`BillAt`).

**The operator's CLI** (`Drivers_proofs`), for any number of runs, any order of flags, answers lost,
deaths and interruptions. `CliRunbookInvariant`: `RunbookInv` survives resume, cutover and cleanup,
whence `CliOwnServerOnlyHolds` and `CliIntentBeforeClaimHolds`. Beyond it:
- `DnsAfterDeploymentHolds` needs `DnsRecorded`: while the domain has not moved, what a cleanup
  would put back is "old". So only an upsert moves it, and who makes one owns the row of P6.
- `FitInv` says what holds of a run's state under the CLI: a DNS record comes after a server, nobody
  waits for a human in the automated lane, a cleanup works on the saved state, and only in that
  lane. From it the action property `CliHumanServerStaysHolds`, and with `GoneInv` (what is rolled
  back has no server, in memory or as saved) `CliRolledBackIsGoneHolds`: a server cleaned up does
  not come back, since its purchase stays COMMITTED and is not made again.
- `PurchaseStaysReachableHolds` needs `TraceInv`, which holds while every answer arrives and nobody
  dies: a run that may buy is not yet over (`WaitsAt`, `Buying`), one whose purchase is settled in
  the Pilot's ledger has the server (`Settled`), and the run the gateway has a row for has the server
  or stands where `--resume` takes it up (`Traced`).

**Intake and what the Porter installs.**
- `Intake_proofs`: `TypeCorrect` and three safety properties for any number of mandates, gates,
  choices and faults. `ApprovalIsMatched` needs that what is still `late` was approved.
  `MandateReleasedOnce` needs `Once`: gates hold different mandates, all minted (`Fresh`); the one
  in the post is that of its gate (`Delivering`); a gate that may release has a mandate the Pilot
  has not taken, unless a delivery of it was given up (`Releasable`). `SentStaysParked` needs
  `Waiting`: the Broker's deliveries are parked in contexts of their own, which no text names and
  no later delivery shares (`Contexts`), and a delivery is parked, or was refused, before the
  Broker hears of it.
- `IsrCache_proofs`. `NobodyWaits`: a call that awaits the connection awaits an attempt that is
  under way, and one that asks Redis holds a connection, perhaps one that was told to quit: a
  connection changes state for all its callers at once (`Resolve`), and every path to a request
  of Redis comes through `getClient()`.
  `StoredBeforeIsGoneHolds` needs to know of a stamp in Redis that it is no earlier than the last
  invalidation by some replica's clock (`StampedAt`), and of each call what it had learned when
  (`Knows`); a stamp earlier than the one it meets only comes of two invalidations that overlap.
- `Uploads_proofs`, for any number of uploads, payloads, page sizes and operations of the app's
  server; names are spelled as in `UploadsAssumption` (`a`, `/a`, `b`). `RecordIsGrantedHolds`
  needs `Records`: a record of a report reads back as a payload of some grant for its key, because
  a report only verifies with a token, a token stays what it was granted as, and null and '' are
  signed alike; a report of `upload()` comes after its bytes; a later sweep writes with NX and
  leaves it alone. `SweepCatchesUpHolds` needs `Owed`: what the sweep found at its start is on
  record, on the page in hand, or behind the cursor - which takes that a page is a prefix of what
  follows the cursor (`PageIsPrefix`), in any bucket.
- `CronScheduler_proofs`. `LockFiresOnce` for any replicas, jobs and minutes, any clocks a fixed
  skew apart and any faults: a tick with jobs before it read its clock in its own minute and not
  longer ago than `MaxLag` (`Timely`), a lock lives until no clock within the margin can still
  read its minute (`LocksLast`), a run was taken by one replica at most, and once taken is locked
  or past (`Once`). `NotMissedWhenRead` adds that what is before a
  tick is due, and that a job that has left a tick was fired, is lost, or is in the hand of the
  replica whose lock turned the others away (`Accounted`).

**What proving has changed.** In `Guard` and `Intake` a CASE had overlapping guards: TLC takes the
first that holds, as the code does, but TLA+ leaves the choice open, so "OK" did not follow from
the checks. The decisions are now exclusive (`authorize`, `routeCandidate`). Two record extensions
of `GatewayTools`, the extension of a key space in `Kv` (`With`) and the constants' assumptions are
written out.

**Only model-checked.**
- `ReconciledOnRetry`, `RunEnds` and `ConnectIsRetried`: liveness under fairness is beyond this
  prover.
- `NothingDropped`, `RerunIsNoOp` and `ImportsResolve` of `Port`: what eight transforms compute of
  a repository, folded over its files and its findings; it would take induction over data.
- What the fourteen configurations that fail show: a counterexample needs no proof.

## 5. Not modelled

- Errors of an append other than death, of `writeFile` in `RunStore.put` (a save is atomic here).
  Of the *Pilot's* ledger: a `readFile` that fails (taken for an empty ledger), and a line cut
  just before its newline, which the next row spoils. In the CLI a torn line ends in an error
  (`Resume` asks for `~torn`).
- The ledger's cache under `GatewayTools`, whose reads are one step; the file with all its
  failures is in `Gateway`. The handoff lane's rows of the *Pilot's* ledger are appended together.
- Whether a price exceeds the cap is a choice of `Runbook`. `requirePriceCheck` (demos) and
  the approval answer -32001 (no such gateway in this repository) are left out.
- The part of `rollback()` that reverts DNS: no step leads to it once the record is written.
- A second CLI process at the same time, or an agent and a CLI on the same run.
- Bearer-token roles, audit lines, logs, formats: no state, or no property.
- The Porter's texts: caveats, diffs, dry runs, layout detection, what a Dockerfile says.
- Of the KV shim, times to live and the commands that forward to Redis unchanged; `pipeline()`
  and `multi()`, which bypass the codec. Of the storage shim, `head` and streams;
  the url and content type in a report, which no signature covers (the app's records go by key);
  names with a line break, which the signature joins to the payload.
- The Broker's shopping pipeline and the Surveyor: arithmetic without state, over floating point
  numbers TLC does not have. The Porter's A2A executor and CLI, the demo, the UI: wrappers that
  keep nothing of their own.

## 6. Plan

Done: every component named above as modelled; theorems about every component with state of its
own except `Port`. Every safety invariant and safety action property of the passing runs but the
three of `Port` and `FiredAsScheduled` is a theorem, some under a hypothesis named above.

Left, in this order:

1. An abstract specification of the intake (one approval releases one mandate) and of the page
   cache, with `Intake` and `IsrCache` shown to implement them.
2. *Runbook* with a save cut short; *GatewayTools* over the file of *Gateway*.
