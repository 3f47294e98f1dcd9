--------------------------- MODULE MCGatewayTools ---------------------------
(***************************************************************************)
(* Mandates of one domain for TLC: a human buys the server of one, two     *)
(* have bought their own, and the Auditor has passed another server than   *)
(* the one the last has bought.  A token carries no valid signature.       *)
(***************************************************************************)
EXTENDS GatewayTools, TLC

X == <<203, 0, 113, 7>>
Y == <<203, 0, 113, 8>>
Z == <<203, 0, 113, 9>>
Metadata == <<169, 254, 169, 254>>
OldHome == <<198, 51, 100, 1>>

Scope == {<<"handoff", "*">>, <<"vercel", "env", "export">>, <<"coolify", "envs", "*">>, <<"cloudflare", "*">>}

Human == [id |-> "human", complete |-> TRUE, scope |-> Scope, cap |-> 1000,
          domain |-> "site", project |-> "shop", repo |-> "repo",
          provision |-> [provider |-> "handoff", safe |-> TRUE, https |-> TRUE, image |-> "ubuntu-24.04",
                         expected |-> 900, count |-> 1]]
Auto == [id |-> "auto", complete |-> TRUE, scope |-> {<<"cloudflare", "dns", "*">>}, cap |-> 1000,
         domain |-> "site", project |-> "shop", repo |-> "repo",
         provision |-> [provider |-> "hetzner", type |-> "cx22", count |-> 1]]

Signed(m) == [signed |-> TRUE, canonical |-> TRUE, mandate |-> m]
Forged == [signed |-> FALSE, canonical |-> TRUE, mandate |-> [Human EXCEPT !.domain = "other", !.project = "else"]]

Again == [Auto EXCEPT !.id = "again"]
Wrong == [Auto EXCEPT !.id = "wrong"]

HeldTokens == {Signed(Human), Signed(Auto), Signed(Again), Signed(Wrong), Forged}
Issued == {Human, Auto, Again, Wrong}
Servers == {X, Y, Metadata}
Token(m, ip) == [signed |-> TRUE, verdict |-> "PASS", mandate |-> m, ip |-> ip]
AuditorTokens == {Token("auto", X), Token("again", Y), Token("wrong", X)}
Handlers == Permutations(Slots)
Families == {[tools |-> {"handoff", "env"}, ids |-> {"human"}],
             [tools |-> {"dns"}, ids |-> {"auto", "again"}],
             [tools |-> {"dns"}, ids |-> {"wrong"}]}
BoughtBy == [m \in {"auto", "again", "wrong"} |-> CASE m = "auto" -> X [] m = "again" -> Y [] m = "wrong" -> Z]

ASSUME InstanceOneMandatePerId == OneMandatePerId
=============================================================================
