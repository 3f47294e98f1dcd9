-------------------------------- MODULE Port --------------------------------
(***************************************************************************)
(* Porter's port of a repository (porter/src/runtime/port.ts with the      *)
(* scanner of inventory/ and the eight transforms of transforms/): scan,   *)
(* plan every transform on one project in memory, then write - step by     *)
(* step the edited and the new files, package.json, .env.porter.example,   *)
(* and last the source files. The process may die between two writes, and  *)
(* the port may be run again on what it left.                              *)
(*                                                                         *)
(* A repository is a record:                                               *)
(*   imports     of each source file, the set of its imports: where from   *)
(*               (a package or module, and a path below it or ""), in      *)
(*               which form ("import", "export" for a re-export, "call"    *)
(*               for require() and import()) and which name                *)
(*   pins        the files with `runtime = 'edge'`                         *)
(*   revalidates the files that export `revalidate`                        *)
(*   config      next.config: whether its object is a literal Porter can   *)
(*               edit, whether images are configured, and how each key     *)
(*               Porter sets stands there: "unset", "porter" when it reads *)
(*               what Porter writes, "shorthand" (`cacheHandler,`)         *)
(*   vercelJson  "none", "plain", or "crons" when it declares crons        *)
(*   made        the files Porter generates, with what each of them holds  *)
(*   deps, env   package.json's packages, the example's variables          *)
(* Texts, layout, caveats and titles are left out.                         *)
(***************************************************************************)
EXTENDS Naturals, Sequences, FiniteSets, SequencesExt, TLC

CONSTANTS
    Files,          \* source files; "route" and "middleware" mean what Next.js means by them
    InitialRepos,   \* the repositories a port may start from
    Scheduler,      \* target.scheduler
    MaxCrashes      \* bound: how often the process may die

VARIABLES
    repo,       \* the repository on disk
    pc,         \* "writing" while apply() runs, "ported" when a run has finished, else "idle"
    project,    \* what the transforms made of the source files, in memory
    todo,       \* the writes of apply() still to come, in order
    origin,     \* what the first scan found, and in which repository
    reported,   \* what the last run that finished calls unhandled
    torn,       \* the kinds whose writes a crash cut short after their finding was gone
    crashes

vars == <<repo, pc, project, todo, origin, reported, torn, crashes>>

-----------------------------------------------------------------------------
\* Packages and the modules that replace them.
Replacement ==
    "@vercel/kv" :> "kv" @@ "@vercel/blob" :> "storage" @@
    "@vercel/functions" :> "request-context" @@ "@vercel/edge-config" :> "edge-config"
Beacons == {"@vercel/analytics", "@vercel/speed-insights"}
OwnModules == {Replacement[p] : p \in DOMAIN Replacement}

\* What a generated file can be imported as.
ImportedAs ==
    [p \in OwnModules |-> <<p, "">>]
    @@ "storage/client" :> <<"storage", "client">>
    @@ "storage/handle-upload" :> <<"storage", "handle-upload">>

\* IMPORT_RULES: what an import is a finding of. Only the rules of the blob
\* store and of the beacons take paths below the package too.
KindOf(i) ==
    CASE i.from = "@vercel/blob" -> "blob-storage"
      [] i.from = "@vercel/kv" /\ i.sub = "" -> "kv-store"
      [] i.from \in Beacons -> "platform-sdk"
      [] /\ i.from \in {"@vercel/functions", "@vercel/edge-config",
                         "@vercel/postgres", "@vercel/otel"}
         /\ i.sub = "" -> "platform-sdk"
      [] OTHER -> "none"
VercelPackages ==
    DOMAIN Replacement \cup Beacons \cup {"@vercel/postgres", "@vercel/otel"}

Finding(kind, file, matched) == [kind |-> kind, file |-> file, matched |-> matched]

-----------------------------------------------------------------------------
(***************************************************************************)
(* The scan. A re-export is no import declaration: it is not looked at.    *)
(***************************************************************************)
scanImports(r) ==
    UNION {{Finding(KindOf(i), f, <<i.from, i.sub>>) :
               i \in {j \in r.imports[f] : j.form # "export" /\ KindOf(j) # "none"}} : f \in Files}

scanRuntimeExports(r) ==
    {Finding("edge-runtime", f, <<"runtime=edge">>) : f \in r.pins \ {"middleware"}}

UsesNextCache(is) == \E i \in is : i.from = "next/cache" /\ i.form = "import"

scanIsr(r) ==
    {Finding("isr", f, <<"revalidate">>) : f \in r.revalidates}
    \cup {Finding("isr", f, <<"next/cache">>) : f \in {g \in Files : UsesNextCache(r.imports[g])}}
    \cup {Finding("isr", p, <<"next/cache">>) : p \in {"revalidate-route"} \cap DOMAIN r.made}

scanVercelJson(r) ==
    IF r.vercelJson = "crons" THEN {Finding("cron", "vercel.json", <<"crons">>)} ELSE {}

scanNextConfig(r) ==
    IF r.config.images /\ "sharp" \notin r.deps
    THEN {Finding("image-optimization", "next.config", <<"images">>)} ELSE {}

scanMiddleware(r) ==
    {Finding("edge-middleware", f, <<"middleware">>) : f \in r.pins \cap {"middleware"}}

scanBuildOutput(r) ==
    IF /\ "Dockerfile" \notin DOMAIN r.made
       /\ r.vercelJson # "none" \/ r.deps \cap VercelPackages # {}
    THEN {Finding("build-output", "Dockerfile", <<"missing">>)} ELSE {}

AllFindings(r) ==
    scanImports(r) \cup scanRuntimeExports(r) \cup scanIsr(r) \cup scanVercelJson(r)
    \cup scanNextConfig(r) \cup scanMiddleware(r) \cup scanBuildOutput(r)

\* Slip: the ISR finding survives its own fix.
ScanForgetsHandler(r) == AllFindings(r)

\* `cacheHandler:` in the config is what resolves the ISR findings.
scanRepo(r) ==
    {x \in AllFindings(r) : r.config.cacheHandler \in {"unset", "shorthand"} \/ x.kind # "isr"}

Kinds(findings) == {x.kind : x \in findings}
OfKinds(findings, ks) == {x \in findings : x.kind \in ks}

-----------------------------------------------------------------------------
(***************************************************************************)
(* The transforms. Each takes the inventory, the repository on disk and    *)
(* the project as the ones before it left it, and yields the project it    *)
(* leaves and its step, or no step.                                        *)
(***************************************************************************)
NewFile(path, holds, skipIfExists) == [path |-> path, holds |-> holds, keep |-> skipIfExists]
Generated(path) == NewFile(path, {}, FALSE)

PortStep(id, discharges, fileEdits, newFiles, added, removed, env) ==
    [id |-> id, discharges |-> discharges, fileEdits |-> fileEdits, newFiles |-> newFiles,
     added |-> added, removed |-> removed, env |-> env]

NoStep(p) == [project |-> p, step |-> <<>>]
OneStep(p, s) == [project |-> p, step |-> <<s>>]

\* A path below the package goes to `explicit` if that names it, else to the
\* same path below `to`, whether or not anything is there.
rewriteImportSpecifier(is, from, to, explicit) ==
    {IF i.from # from THEN i
     ELSE IF i.sub \in DOMAIN explicit THEN [i EXCEPT !.from = to, !.sub = explicit[i.sub]]
     ELSE [i EXCEPT !.from = to] : i \in is}
NoSubpaths == <<>>

\* Exact or below; declarations alone.
importsFrom(is, pkg) == \E i \in is : i.from = pkg /\ i.form = "import"
AnyForm(is, pkg) == \E i \in is : i.from = pkg
Somewhere(p, pkg) == \E f \in Files : AnyForm(p.imports[f], pkg)

\* A shorthand is not clobbered.
upsertProperty(value) == IF value = "shorthand" THEN value ELSE "porter"

kvTransform(inv, r, p) ==
    LET findings == OfKinds(inv, {"kv-store"})
    IN  IF findings = {} \/ ~Somewhere(p, "@vercel/kv") THEN NoStep(p)
        ELSE OneStep(
            [p EXCEPT !.imports =
                [f \in Files |-> rewriteImportSpecifier(@[f], "@vercel/kv", "kv", NoSubpaths)]],
            PortStep("kv", findings, <<>>, <<Generated("kv")>>,
                     {"ioredis"}, {"@vercel/kv"}, {"REDIS_URL"}))

\* The names a file imports decide which half of the upload protocol it gets.
ClientImports(is) == {i \in is : i.from = "@vercel/blob" /\ i.sub = "client" /\ i.form = "import"}
ClientModule(is) ==
    IF \E i \in ClientImports(is) : i.name = "handleUpload" THEN "handle-upload" ELSE "client"

UploadFiles(uses) ==
    IF uses THEN <<Generated("bucket-cors"), Generated("storage/client"),
                   Generated("storage/handle-upload")>>
    ELSE <<>>

blobTransform(inv, r, p) ==
    LET findings == OfKinds(inv, {"blob-storage"})
        uses == \E f \in Files : ClientImports(p.imports[f]) # {}
    IN  IF findings = {} \/ ~Somewhere(p, "@vercel/blob") THEN NoStep(p)
        ELSE OneStep(
            [p EXCEPT !.imports =
                [f \in Files |->
                    rewriteImportSpecifier(@[f], "@vercel/blob", "storage",
                                           "client" :> ClientModule(@[f]))]],
            PortStep("blob", findings, <<>>,
                     <<Generated("storage"), Generated("bucket-policy")>> \o UploadFiles(uses),
                     {"@aws-sdk"}, {"@vercel/blob"},
                     {"S3"} \cup (IF uses THEN {"BLOB_UPLOAD_SECRET"} ELSE {})))

imageTransform(inv, r, p) ==
    LET findings == OfKinds(inv, {"image-optimization"})
    IN  IF findings = {} THEN NoStep(p)
        ELSE OneStep(p, PortStep("image", findings, <<>>, <<>>, {"sharp"}, {}, {}))

\* Wires the handler into a config it can edit - and counts it as wired even if
\* the key was a shorthand and stayed. Where there is no literal to edit, it
\* still leaves the handler and the route, and discharges nothing.
isrTransform(inv, r, p) ==
    LET findings == OfKinds(inv, {"isr"})
        wired == p.config.literal
        config == [p.config EXCEPT !.cacheHandler = upsertProperty(@),
                                   !.cacheMaxMemorySize = upsertProperty(@)]
        edited == wired /\ config # p.config
        existingRoute == "route" \in Files /\ UsesNextCache(p.imports["route"])
        route == IF existingRoute THEN <<>> ELSE <<NewFile("revalidate-route", {}, TRUE)>>
    IN  IF \/ findings = {}
           \/ ~edited /\ "cache-handler" \in DOMAIN r.made /\ existingRoute
        THEN NoStep(p)
        ELSE OneStep(
            IF wired THEN [p EXCEPT !.config = config] ELSE p,
            PortStep("isr", IF wired THEN findings ELSE {}, <<>>,
                     <<NewFile("cache-handler", {}, TRUE)>> \o route,
                     {"ioredis"}, {},
                     {"REDIS_URL", "ISR_CACHE_PREFIX"}
                     \cup (IF existingRoute THEN {} ELSE {"REVALIDATE_SECRET"})))

cronTransform(inv, r, p) ==
    LET findings == OfKinds(inv, {"cron"})
        runner == IF Scheduler \in {"compose-sidecar", "node-cron"}
                  THEN <<Generated("scheduler")>> ELSE <<>>
        host == CASE Scheduler = "node-cron" -> <<NewFile("instrumentation", {}, TRUE)>>
                  [] Scheduler = "system-crontab" -> <<Generated("crontab")>>
                  [] Scheduler = "coolify" -> <<Generated("coolify-tasks")>>
                  [] OTHER -> <<>>
    IN  IF findings = {} \/ r.vercelJson # "crons" THEN NoStep(p)
        ELSE OneStep(p, PortStep("cron", findings, <<"vercel.json">>,
                                 <<Generated("schedules")>> \o runner \o host,
                                 {}, {}, {"PUBLIC_BASE_URL", "CRON_SECRET"}))

\* A finding is discharged when the file it points at was edited.
middlewareTransform(inv, r, p) ==
    LET findings == OfKinds(inv, {"edge-middleware", "edge-runtime"})
    IN  IF findings = {} \/ p.pins = {} THEN NoStep(p)
        ELSE OneStep([p EXCEPT !.pins = {}],
                     PortStep("middleware", {x \in findings : x.file \in p.pins},
                              <<>>, <<>>, {}, {}, {}))

\* Only the component imports of a beacon are taken out, and only where a file
\* imports nothing else of it.
onlyBeaconImports(is, pkg) ==
    \A i \in is : i.from = pkg /\ i.form = "import" => i.name = "component"

removeImport(is, pkg) == {i \in is : ~(i.from = pkg /\ i.form = "import")}

Beaconless(is) ==
    LET gone == {b \in Beacons : importsFrom(is, b) /\ onlyBeaconImports(is, b)}
    IN  {i \in is : ~(i.from \in gone /\ i \notin removeImport(is, i.from))}

Sdks == {"@vercel/functions", "@vercel/edge-config"}
Shim(handled, pkg) == IF pkg \in handled THEN <<Generated(Replacement[pkg])>> ELSE <<>>

\* Slip: a package another file still imports counts as handled.
ResolvedAtOnce(handled, p) == handled

\* A package is handled only once no file imports it any more. This looks at
\* import declarations alone.
Resolved(handled, p) ==
    {pkg \in handled : \A f \in Files : ~importsFrom(p.imports[f], pkg)}

platformTransform(inv, r, p) ==
    LET findings == OfKinds(inv, {"platform-sdk"})
        rewritten(is) ==
            Beaconless(rewriteImportSpecifier(
                rewriteImportSpecifier(is, "@vercel/functions", "request-context", NoSubpaths),
                "@vercel/edge-config", "edge-config", NoSubpaths))
        after == [p EXCEPT !.imports = [f \in Files |-> rewritten(@[f])]]
        handled == {pkg \in Sdks : Somewhere(p, pkg)}
                   \cup {b \in Beacons : \E f \in Files :
                            /\ importsFrom(p.imports[f], b)
                            /\ ~importsFrom(after.imports[f], b)}
        resolved == Resolved(handled, after)
    IN  IF findings = {} \/ after = p THEN NoStep(p)
        ELSE OneStep(after,
            PortStep("platform-sdk", {x \in findings : x.matched[1] \in resolved}, <<>>,
                     Shim(handled, "@vercel/functions") \o Shim(handled, "@vercel/edge-config"),
                     {}, resolved,
                     IF "@vercel/edge-config" \in handled THEN {"PORTER_EDGE_CONFIG_JSON"} ELSE {}))

\* Runs last: what the stack holds is read off the findings of this scan.
deployTransform(inv, r, p) ==
    LET findings == OfKinds(inv, {"build-output"})
        redis == IF Kinds(inv) \cap {"kv-store", "isr"} # {} THEN {"redis"} ELSE {}
        cron == IF "cron" \in Kinds(inv) /\ Scheduler = "compose-sidecar" THEN {"cron"} ELSE {}
        handler == IF "isr" \in Kinds(inv) THEN {"cache-handler"} ELSE {}
    IN  IF findings = {} \/ "Dockerfile" \in DOMAIN r.made THEN NoStep(p)
        ELSE OneStep(
            IF p.config.literal THEN [p EXCEPT !.config.output = upsertProperty(@)] ELSE p,
            PortStep("deploy", findings, <<>>,
                     <<NewFile("Dockerfile", handler, FALSE),
                       NewFile("dockerignore", {}, TRUE),
                       NewFile("compose", redis \cup cron, TRUE),
                       NewFile("nginx", {}, TRUE)>>,
                     {}, {}, IF redis = {} THEN {} ELSE {"REDIS_PASSWORD"}))

-----------------------------------------------------------------------------
Sources(r) == [imports |-> r.imports, pins |-> r.pins, config |-> r.config]

\* prepare(): scan once, then every transform in the order of TRANSFORMS on the
\* one project. What no step discharged is unhandled.
prepare(r) ==
    LET inv == scanRepo(r)
        k  == kvTransform(inv, r, Sources(r))
        b  == blobTransform(inv, r, k.project)
        im == imageTransform(inv, r, b.project)
        is == isrTransform(inv, r, im.project)
        c  == cronTransform(inv, r, is.project)
        m  == middlewareTransform(inv, r, c.project)
        p  == platformTransform(inv, r, m.project)
        d  == deployTransform(inv, r, p.project)
        steps == k.step \o b.step \o im.step \o is.step \o c.step \o m.step \o p.step \o d.step
    IN  [steps |-> steps, project |-> d.project,
         unhandled |-> inv \ UNION {steps[n].discharges : n \in DOMAIN steps}]

Write(op, id, what) == [op |-> op, id |-> id, what |-> what]

StepWrites(s) ==
    [n \in DOMAIN s.fileEdits |-> Write("edit", s.id, s.fileEdits[n])]
    \o [n \in DOMAIN s.newFiles |-> Write("new", s.id, s.newFiles[n])]

\* apply(): the files of every step, package.json, the example of the
\* environment. The sources are saved after all of these.
Writes(plan) ==
    LET changes == SelectSeq(plan.steps, LAMBDA s : s.added \cup s.removed # {})
        env == UNION {plan.steps[n].env : n \in DOMAIN plan.steps}
    IN  FlattenSeq([n \in DOMAIN plan.steps |-> StepWrites(plan.steps[n])])
        \o (IF changes = <<>> THEN <<>> ELSE <<Write("package", "", changes)>>)
        \o (IF env = {} THEN <<>> ELSE <<Write("env", "", env)>>)

\* The changes of every step in order, the last word on a package wins.
updatePackageJson(deps, changes) ==
    FoldLeft(LAMBDA d, s : (d \ s.removed) \cup s.added, deps, changes)

writeGenerated(made, file) ==
    IF file.keep /\ file.path \in DOMAIN made THEN made
    ELSE (file.path :> file.holds) @@ made

Written(r, w) ==
    CASE w.op = "edit" -> [r EXCEPT !.vercelJson = "plain"]
      [] w.op = "new" -> [r EXCEPT !.made = writeGenerated(@, w.what)]
      [] w.op = "package" -> [r EXCEPT !.deps = updatePackageJson(@, w.what)]
      [] w.op = "env" -> [r EXCEPT !.env = w.what]

\* project.save(): the sources that differ, one file each.
Unsaved(r, p) ==
    {f \in Files : r.imports[f] # p.imports[f] \/ (f \in r.pins) # (f \in p.pins)}
    \cup (IF r.config # p.config THEN {"next.config"} ELSE {})

Saved(r, p, f) ==
    IF f = "next.config" THEN [r EXCEPT !.config = p.config]
    ELSE [r EXCEPT !.imports[f] = p.imports[f],
                   !.pins = (@ \ {f}) \cup (p.pins \cap {f})]

-----------------------------------------------------------------------------
NothingPlanned == [imports |-> <<>>, pins |-> {}, config |-> <<>>]

Init ==
    /\ repo \in InitialRepos
    /\ pc = "idle" /\ project = NothingPlanned /\ todo = <<>>
    /\ origin = [repo |-> repo, findings |-> scanRepo(repo)]
    /\ reported = {} /\ torn = {} /\ crashes = 0

\* portRepo() on the repository itself, up to the first write.
Start ==
    LET plan == prepare(repo)
    IN  /\ pc # "writing"
        /\ pc' = "writing"
        /\ project' = plan.project
        /\ todo' = Writes(plan)
        /\ reported' = plan.unhandled
        /\ UNCHANGED <<repo, origin, torn, crashes>>

WriteNext ==
    /\ pc = "writing" /\ todo # <<>>
    /\ repo' = Written(repo, Head(todo))
    /\ todo' = Tail(todo)
    /\ UNCHANGED <<pc, project, origin, reported, torn, crashes>>

\* Slip: the sources are saved while the shims are still being written.
SaveEarly(f) ==
    /\ pc = "writing"
    /\ f \in Unsaved(repo, project)
    /\ repo' = Saved(repo, project, f)
    /\ UNCHANGED <<pc, project, todo, origin, reported, torn, crashes>>

Save(f) ==
    /\ pc = "writing" /\ todo = <<>>
    /\ f \in Unsaved(repo, project)
    /\ repo' = Saved(repo, project, f)
    /\ UNCHANGED <<pc, project, todo, origin, reported, torn, crashes>>

Finish ==
    /\ pc = "writing" /\ todo = <<>> /\ Unsaved(repo, project) = {}
    /\ pc' = "ported" /\ project' = NothingPlanned
    /\ UNCHANGED <<repo, todo, origin, reported, torn, crashes>>

\* What a crash leaves behind that no later run takes up: the finding that
\* would bring the step back is gone, and not all of the step is written.
Pending(id) == \E n \in DOMAIN todo : todo[n].id = id
CutShort ==
    LET found == Kinds(scanRepo(repo))
    IN  (IF Pending("cron") /\ "cron" \notin found THEN {"cron"} ELSE {})
        \cup (IF /\ \/ Pending("deploy") \/ "next.config" \in Unsaved(repo, project)
                 /\ \/ "build-output" \notin found
                    \/ "cron" \notin found /\ Finding("cron", "vercel.json", <<"crons">>) \in origin.findings
              THEN {"build-output"} ELSE {})

Crash ==
    /\ pc = "writing" /\ crashes < MaxCrashes
    /\ crashes' = crashes + 1
    /\ pc' = "idle" /\ project' = NothingPlanned /\ todo' = <<>>
    /\ torn' = torn \cup CutShort
    /\ reported' = {}
    /\ UNCHANGED <<repo, origin>>

Next == Start \/ WriteNext \/ (\E f \in Files \cup {"next.config"} : Save(f)) \/ Finish \/ Crash

Spec == Init /\ [][Next]_vars

-----------------------------------------------------------------------------
Generates(path) == path \in DOMAIN repo.made
Resolves(i) ==
    \E m \in DOMAIN ImportedAs \cap DOMAIN repo.made : ImportedAs[m] = <<i.from, i.sub>>

\* Whether what a finding stood for now works without Vercel.
ImportFixed(x) ==
    \A i \in repo.imports[x.file] :
        /\ <<i.from, i.sub>> # x.matched
        /\ i.from \in OwnModules => Resolves(i)

Fixed(x) ==
    CASE x.kind \in {"kv-store", "blob-storage", "platform-sdk"} ->
            ImportFixed(x) /\ (x.kind = "kv-store" => "ioredis" \in repo.deps)
      [] x.kind \in {"edge-runtime", "edge-middleware"} -> x.file \notin repo.pins
      [] x.kind = "isr" -> repo.config.cacheHandler = "porter" /\ Generates("cache-handler")
                           /\ "ioredis" \in repo.deps
      [] x.kind = "image-optimization" -> "sharp" \in repo.deps
      [] x.kind = "cron" -> Generates("schedules")
                            /\ (Scheduler = "compose-sidecar" => Generates("scheduler"))
      [] x.kind = "build-output" ->
            /\ Generates("Dockerfile") /\ Generates("compose")
            /\ repo.config.literal => repo.config.output = "porter"
            /\ (Scheduler = "compose-sidecar" /\ "cron" \in Kinds(origin.findings))
                  => "cron" \in repo.made["compose"]
            /\ Kinds(origin.findings) \cap {"kv-store", "isr"} # {}
                  => "redis" \in repo.made["compose"]

(***************************************************************************)
(* What no transform foresees. An import of a path below one of Porter's   *)
(* modules, where Porter has no such module, or has one but writes it only *)
(* for declarations; a beacon that is require()d; a key of the config that *)
(* stands there as a shorthand. Each of them refutes one of the two claims *)
(* below (MCPort_subpath.cfg, MCPort_lazy.cfg, MCPort_shorthand.cfg).      *)
(***************************************************************************)
Unforeseen(i) ==
    /\ i.from \in OwnModules /\ i.sub # ""
    /\ \/ \A m \in DOMAIN ImportedAs : ImportedAs[m] # <<i.from, i.sub>>
       \/ \A f \in Files : ClientImports(origin.repo.imports[f]) = {}

Missed(x) ==
    \/ \E i \in UNION {repo.imports[f] : f \in Files \cap {x.file}} :
          \/ Unforeseen(i)
          \/ i.from \in Beacons /\ i.form = "call" /\ x.matched = <<i.from, i.sub>>
    \/ x.kind = "isr" /\ origin.repo.config.cacheHandler = "shorthand"
    \/ x.kind = "build-output" /\ origin.repo.config.output = "shorthand"

\* README.md:42-44, as it stands there: a step only claims what it fixed, and
\* nothing is dropped (but for what a crash cut short).
EachFindingIsKept ==
    pc = "ported" =>
        \A x \in origin.findings : Fixed(x) \/ x \in reported \/ x.kind \in torn

(***************************************************************************)
(* README.md:42-44: a step only claims what it fixed, and nothing is       *)
(* dropped. Once a run has finished, each thing the first scan found works *)
(* without Vercel or is in the last report - also when runs before it died *)
(* between any two writes, but for the crons and the container build when  *)
(* the crash cut their own writes short, and for what no transform         *)
(* foresees.                                                               *)
(***************************************************************************)
NothingDropped ==
    pc = "ported" =>
        \A x \in origin.findings :
            Fixed(x) \/ x \in reported \/ x.kind \in torn \/ Missed(x)

\* What a run makes of a repository when nothing interrupts it.
Outcome(r) ==
    LET plan == prepare(r)
        w == FoldLeft(Written, r, Writes(plan))
    IN  [w EXCEPT !.imports = plan.project.imports, !.pins = plan.project.pins,
                  !.config = plan.project.config]

(***************************************************************************)
(* README.md:44: re-running is a no-op. After a run the next scan finds    *)
(* only kinds the run reported, but for a beacon and a shorthand that were *)
(* missed, and the next run writes what is there already. The one          *)
(* exception is a cache handler Porter cannot wire: the ISR step is        *)
(* planned again and again, and cuts the example of the environment down   *)
(* to its own variables.                                                   *)
(***************************************************************************)
RerunIsNoOp ==
    pc = "ported" =>
        /\ Kinds({x \in scanRepo(repo) : ~Missed(x)}) \subseteq Kinds(reported)
        /\ LET again == Outcome(repo)
           IN  \/ again = repo
              \/ /\ repo.config.literal => repo.config.cacheHandler = "shorthand"
                 /\ "isr" \in Kinds(scanRepo(repo))
                 /\ [again EXCEPT !.env = {}] = [repo EXCEPT !.env = {}]

\* middleware.ts:16-18, as it stands there: no shim is referenced and never
\* written.
EachShimIsWritten ==
    \A f \in Files : \A i \in repo.imports[f] : i.from \in OwnModules => Resolves(i)

(***************************************************************************)
(* A shim is never referenced before it is written (middleware.ts:18): at  *)
(* every moment of a run, and after a crash, each import of one of         *)
(* Porter's modules resolves - or is a path below one that the port made   *)
(* of a path below a package, and nobody foresaw.                          *)
(***************************************************************************)
ImportsResolve ==
    \A f \in Files : \A i \in repo.imports[f] :
        i.from \in OwnModules => Resolves(i) \/ Unforeseen(i)

=============================================================================
