-------------------------------- MODULE Guard -------------------------------
(***************************************************************************)
(* What the gateway asks before it acts, as operators without state: the   *)
(* mandate's envelope and structure (pilot/mandate.ts), the substitution   *)
(* guard (pilot/guard.ts), the Auditor's token (pilot/auditor.ts) and the  *)
(* address of a server (gateway/ip.ts).                                    *)
(*                                                                         *)
(* A token is [signed, canonical, mandate]: whether the issuer's key       *)
(* signed the payload, whether the payload is the canonical form of what   *)
(* it parses to, and that.  A tool and a scope entry are sequences of      *)
(* words, so that "coolify:application.*" is <<"coolify", "application",   *)
(* "*">>.                                                                  *)
(***************************************************************************)
EXTENDS Integers, Sequences, SequencesExt

SanityMin == 100     \* cents of a US dollar a month
SanityMax == 50000
HandoffImages == {"ubuntu-22.04", "ubuntu-24.04"}
Pinned == [cx22 |-> 450, cx32 |-> 750, cpx51 |-> 6000]   \* of seven plans

(* handoffProblem: what a human is asked to buy.  "safe" stands for the    *)
(* charset of the labels and of the hash.                                  *)
handoffProblem(p) ==
  \/ ~p.safe \/ ~p.https
  \/ p.image \notin HandoffImages
  \/ p.expected \notin SanityMin..SanityMax
  \/ p.count # 1

(* verifyMandate; single use is the ledger's business.                     *)
verifyMandate(t, allowExpired, expired) ==
  LET m == t.mandate IN
  CASE ~t.signed                          -> "BAD_SIGNATURE"
    [] ~t.canonical                       -> "NON_CANONICAL"
    [] ~m.complete \/ m.scope = {}        -> "MISSING_FIELD"
    [] m.cap <= 0                         -> "NO_BUDGET"
    [] m.provision.count < 1              -> "BAD_COUNT"
    [] m.provision.provider \notin {"hetzner", "handoff"} -> "BAD_PROVIDER"
    [] m.provision.provider = "handoff" /\ handoffProblem(m.provision) -> "BAD_PROVISION"
    [] ~allowExpired /\ expired           -> "EXPIRED"
    [] OTHER                              -> "OK"

(* An entry covers a tool by name, or by a prefix that ends in a star.     *)
scopeCovers(scope, tool) ==
  \E e \in scope :
    \/ e = tool
    \/ Last(e) = "*" /\ IsPrefix(Front(e), tool)

PurchaseTools == {<<"hetzner", "server", "create">>, <<"hetzner", "server", "delete">>}
HandoffTools  == {<<"handoff", t>> : t \in {"prepare", "register", "status"}}
FreeTools     == {<<"anakin", "scrape", "submit">>, <<"anakin", "scrape", "status">>,
                  <<"coolify", "project", "create">>, <<"coolify", "application", "create">>,
                  <<"coolify", "health">>, <<"coolify", "envs", "bulk_update">>,
                  <<"coolify", "application", "deploy">>,
                  <<"coolify", "deployment", "status">>, <<"vercel", "env", "export">>,
                  <<"cloudflare", "dns", "upsert">>, <<"cloudflare", "dns", "rollback">>}

(* The argument the mandate fixes is not the one it fixes.                 *)
Substituted(m, tool, args) ==
  CASE tool = <<"hetzner", "server", "create">>      -> args # m.provision
    [] tool = <<"cloudflare", "dns", "upsert">>      -> args # m.domain
    [] tool = <<"vercel", "env", "export">>          -> args # m.project
    [] tool = <<"coolify", "project", "create">>     -> args # m.project
    [] tool = <<"coolify", "application", "create">> -> args # m.repo
    [] tool = <<"anakin", "scrape", "submit">>       -> args # "https://www.hetzner.com/cloud"
    [] OTHER                                         -> FALSE

Estimate(m) == Pinned[m.provision.type] * m.provision.count

Create == <<"hetzner", "server", "create">>

(* authorize: the provider, the scope, the verdict, the pinned arguments   *)
(* and the price.  Whatever it does not know is refused.  Of several       *)
(* refusals that apply, here as in the other checks, any may be the        *)
(* answer: a caller of these operators only asks for "OK".                 *)
authorize(m, tool, args, passed) ==
  CASE tool \notin PurchaseTools \cup HandoffTools \cup FreeTools     -> "UNKNOWN_TOOL"
    [] tool \in PurchaseTools /\ m.provision.provider # "hetzner"     -> "WRONG_PROVIDER"
    [] tool \in HandoffTools /\ m.provision.provider # "handoff"      -> "WRONG_PROVIDER"
    [] ~scopeCovers(m.scope, tool)                                    -> "OUT_OF_SCOPE"
    [] tool = <<"cloudflare", "dns", "upsert">> /\ ~passed            -> "NO_AUDITOR_TOKEN"
    [] Substituted(m, tool, args)                                     -> "PARAM_SUBSTITUTION"
    [] tool = Create /\ m.provision.type \notin DOMAIN Pinned         -> "UNPRICED"
    [] tool = Create /\ Pinned[m.provision.type] \notin SanityMin..SanityMax -> "PRICE_INSANE"
    [] tool = Create /\ Estimate(m) > m.cap                           -> "OVER_BUDGET"
    [] OTHER                                                          -> "OK"

(* Slip: a PASS for any server of the mandate will do.                     *)
verifyAuditorTokenAnyServer(t, mandate, ip, expired) ==
  IF t.signed /\ t.verdict = "PASS" /\ t.mandate = mandate /\ ~expired THEN "OK" ELSE "AUDITOR_WRONG_MANDATE"

(* verifyAuditorToken: a PASS for this mandate and this server.            *)
verifyAuditorToken(t, mandate, ip, expired) ==
  CASE ~t.signed            -> "AUDITOR_BAD_SIGNATURE"
    [] t.verdict # "PASS"   -> "AUDITOR_NOT_PASS"
    [] t.mandate # mandate  -> "AUDITOR_WRONG_MANDATE"
    [] t.ip # ip            -> "AUDITOR_WRONG_SERVER"
    [] expired              -> "AUDITOR_EXPIRED"
    [] OTHER                -> "OK"

(* An address is four octets; the test networks are let in.                *)
isPublicIPv4(a) ==
  /\ Len(a) = 4 /\ \A i \in 1..4 : a[i] \in 0..255
  /\ a[1] \notin {0, 10, 127} /\ a[1] < 224
  /\ ~(a[1] = 100 /\ a[2] \in 64..127)
  /\ ~(a[1] = 169 /\ a[2] = 254)
  /\ ~(a[1] = 172 /\ a[2] \in 16..31)
  /\ ~(a[1] = 192 /\ (a[2] = 168 \/ (a[2] = 0 /\ a[3] = 0)))
  /\ ~(a[1] = 198 /\ a[2] \in {18, 19})
=============================================================================
