------------------------------- MODULE MCPort -------------------------------
(***************************************************************************)
(* A page, a route handler and the middleware of a repository, each with   *)
(* at most one import of interest, under every combination of crons,       *)
(* images, edge pins and a config that can or cannot be edited.            *)
(***************************************************************************)
EXTENDS Port

MCFiles == {"page", "route", "middleware"}

Sub(from, sub, form, name) == [from |-> from, sub |-> sub, form |-> form, name |-> name]
Imp(from, form, name) == Sub(from, "", form, name)

PageImports ==
    {{}, {Imp("@vercel/analytics", "import", "component"), Imp("@vercel/kv", "import", "kv")},
     {Sub("@vercel/blob", "client", "import", "upload")}, {Imp("@vercel/analytics", "import", "track")}}
RouteImports ==
    {{Imp("@vercel/kv", "call", "kv"), Imp("@vercel/blob", "export", "put")},
     {Sub("@vercel/blob", "client", "import", "handleUpload"), Imp("@vercel/blob", "import", "put")},
     {Imp("next/cache", "import", "revalidateTag"), Imp("@vercel/functions", "call", "geolocation")}}
MiddlewareImports ==
    {{Imp("@vercel/edge-config", "import", "get"), Imp("@vercel/postgres", "import", "sql")},
     {Imp("@vercel/functions", "import", "ipAddress"), Imp("@vercel/analytics", "import", "component")}}

DepsOf(is) == {i.from : i \in is} \cap VercelPackages

Repo(pg, rt, mw, pins, revalidates, literal, images, json, made) ==
    [imports |-> [f \in MCFiles |-> CASE f = "page" -> pg [] f = "route" -> rt [] OTHER -> mw],
     pins |-> pins, revalidates |-> revalidates,
     config |-> [literal |-> literal, images |-> images, cacheHandler |-> "unset",
                 cacheMaxMemorySize |-> "unset", output |-> "unset"],
     vercelJson |-> json, made |-> made,
     deps |-> DepsOf(pg \cup rt \cup mw), env |-> {}]

UsualRepos ==
    {Repo(pg, rt, mw, pins, rv, literal, rv # {}, json, <<>>) :
        pg \in PageImports, rt \in RouteImports, mw \in MiddlewareImports,
        pins \in {{}, {"page", "middleware"}}, rv \in {{}, {"page"}},
        literal \in BOOLEAN, json \in {"none", "crons"}}
    \cup {Repo({}, rt, {}, {}, {"page"}, literal, TRUE, "crons", "Dockerfile" :> {}) :
            rt \in RouteImports, literal \in BOOLEAN}
    \cup {Repo({}, {}, {}, {"middleware"}, {}, TRUE, FALSE, "plain", <<>>)}

(***************************************************************************)
(* What the transforms do not foresee, alone and beside an import they do. *)
(* A beacon that one file requires while another has its component, and    *)
(* the upload client by a dynamic import().                                *)
(***************************************************************************)
Small(pg, rt, mw) == Repo(pg, rt, mw, {}, {}, TRUE, FALSE, "none", <<>>)

LazyRepos ==
    {Small({Imp("@vercel/analytics", "import", "component")},
           {Imp("@vercel/analytics", "call", "track")}, {}),
     Small({Sub("@vercel/blob", "client", "call", "upload")}, {}, {}),
     Small({Sub("@vercel/blob", "client", "call", "upload")},
           {Sub("@vercel/blob", "client", "import", "handleUpload")}, {})}

\* Paths below a package: of those Porter has no module for, one is found by
\* the scan, one is beside an import that is, and two are in no finding.
SubpathRepos ==
    {Small({Imp("@vercel/functions", "import", "geolocation"),
            Sub("@vercel/functions", "oidc", "import", "getVercelOidcToken")}, {}, {}),
     Small({Sub("@vercel/functions", "headers", "call", "geolocation")}, {},
           {Imp("@vercel/edge-config", "import", "get")}),
     Small({Imp("@vercel/kv", "import", "kv")}, {Sub("@vercel/kv", "below", "export", "kv")},
           {Sub("@vercel/functions", "oidc", "import", "getVercelOidcToken")}),
     Small({Sub("@vercel/blob", "below", "import", "put")},
           {Sub("@vercel/blob", "client", "export", "upload")},
           {Sub("@vercel/analytics", "react", "import", "component")})}

\* `cacheHandler,` or `output,` in next.config, with and without a route that
\* revalidates.
ShorthandRepos ==
    {[Repo({}, rt, {}, {}, {"page"}, TRUE, FALSE, "none", <<>>)
        EXCEPT !.config.cacheHandler = h, !.config.output = o,
               !.deps = @ \cup {"@vercel/otel"}] :
        rt \in {{}, {Imp("next/cache", "import", "revalidateTag")}},
        h \in {"unset", "shorthand"}, o \in {"unset", "shorthand"}}

MCInitialRepos == UsualRepos \cup LazyRepos \cup SubpathRepos \cup ShorthandRepos
=============================================================================
