----------------------------- MODULE CommandLine -----------------------------
(***************************************************************************)
(* The command line (cmd/): an administrator runs one command after another *)
(* against a server, for one tenant or another.  A command checks its       *)
(* flags, loads the configuration, finds a credential, sends one request    *)
(* and prints the record that comes back.  What the server does with the    *)
(* request is one step here; RulesService, NamespaceSync and                *)
(* ProviderInstances show the steps inside it.  "" is a flag that is not    *)
(* given.                                                                   *)
(*   instance: [tenant, prov, key, config, redirect]                        *)
(***************************************************************************)
EXTENDS RuleTables, InstallTables, Sequences

CONSTANTS
    Setups,       \* <<server, shell>>: [oauth, fallback : BOOLEAN, claim : tenant of
                  \* the token] and [config, env, apiKey, cached, mode, secret]
    TenantFlags,  \* --tenant-id
    Names,        \* of drivers, repositories and new rules and instances
    Whens,        \* expressions of rules
    Files,        \* configuration files: [yaml, text, redirect, pem, path]
    Installs,     \* the installations, which no command changes
    Providers,    \* --provider, with ""
    MaxCommands   \* bound

VARIABLES
    server, shell,
    rules, drivers, instances, spaces,   \* the tables of the server
    last,      \* what the last command did and printed
    commands   \* number of commands so far

tables == <<rules, drivers, instances, spaces>>
vars == <<server, shell, tables, last, commands>>

NoCommand == [cmd |-> "", tenant |-> NoTenant, ok |-> FALSE, out |-> {}, sent |-> {}]

Init ==
    /\ \E s \in Setups : server = s[1] /\ shell = s[2]
    /\ rules = {} /\ drivers = {} /\ instances = {}
    /\ spaces = {[tenant |-> i.tenant, prov |-> i.prov, key |-> NoId, repo |-> "first", acct |-> i.acct,
                  inst |-> i.inst, on |-> FALSE] : i \in Installs}
    /\ last = NoCommand /\ commands = 0

-----------------------------------------------------------------------------
(* Configuration and credentials.                                           *)

\* The credential of connectClientOptions: an API key, else a token of the
\* environment, of the cache or of the provider, which a browser login without
\* a secret cannot ask.  The configurations that init writes have no oauth2.
Credential ==
    CASE shell.config = "none" -> "error"
      [] shell.config # "none" /\ shell.apiKey -> "key"
      [] shell.config = "template" /\ ~shell.apiKey -> "nothing"
      [] OTHER ->
            IF shell.env \/ shell.cached THEN "token"
            ELSE IF shell.mode = "auth_code" /\ ~shell.secret THEN "error" ELSE "token"

\* The server lets the request in: with oauth2 it reads tokens only.
Admitted == Credential # "error" /\ (server.oauth => Credential = "token")

\* applyTenantHeader
TenantHeader(flag) == IF flag = "" THEN "default" ELSE flag

\* Mutant: the header before the token.
CtxHeaderFirst(flag) == IF server.fallback THEN TenantHeader(flag) ELSE server.claim

\* newTenantInterceptor: the tenant of the token, or else of the header.
Ctx(flag) ==
    IF server.oauth /\ server.claim # NoTenant THEN server.claim
    ELSE IF server.fallback THEN TenantHeader(flag) ELSE NoTenant

\* A command was run, sent a record that asks for a change, and printed records.
Sends(cmd, flag, ok, out, sent) ==
    /\ commands' = commands + 1
    /\ last' = [cmd |-> cmd, tenant |-> Ctx(flag), ok |-> ok, out |-> out, sent |-> sent]
    /\ UNCHANGED server
Report(cmd, flag, ok, out) == Sends(cmd, flag, ok, out, {})

\* What is printed when all went well.
Given(ok, out) == IF ok THEN out ELSE {}

\* A command that only reads, or that fails, whatever it was told.
Answers(cmd, flag, ok, out) == Report(cmd, flag, ok, out) /\ UNCHANGED <<shell, tables>>
Fails(cmd, flag) == Answers(cmd, flag, FALSE, {})

-----------------------------------------------------------------------------
(* rules                                                                    *)

NoDriver == <<>>

RuleMessage(r) == [id |-> r.id, when |-> r.when, emit |-> r.emit, driver |-> r.driver, js |-> r.js]

ListRulesRPC(ctx) == {RuleMessage(r) : r \in ListRules(rules, ctx)}
RulesList(flag) == Answers("rules list", flag, Admitted, Given(Admitted, ListRulesRPC(Ctx(flag))))

\* A rule that is not there is an error.
GetRuleRPC(ctx, id) == {RuleMessage(r) : r \in GetRule(rules, ctx, id)}
RulesGet(flag, id) ==
    LET ok == id # "" /\ Admitted /\ GetRuleRPC(Ctx(flag), id) # {}
    IN  Answers("rules get", flag, ok, Given(ok, GetRuleRPC(Ctx(flag), id)))

\* parseRuleInput, resolveDriverName and normalizeCoreRule: one topic, and a
\* driver of the tenant.
RuleAccepted(flag, when, emits, driver) ==
    /\ when # "" /\ emits = 1 /\ driver # NoDriver
    /\ Admitted /\ GetDriverByID(drivers, Ctx(flag), driver) # {}

\* The rule is stored before its driver is tried.
RulesCreate(flag, when, emits, driver, js) ==
    \/ ~RuleAccepted(flag, when, emits, driver) /\ Fails("rules create", flag)
    \/ /\ RuleAccepted(flag, when, emits, driver)
       /\ \E id \in Names \ {r.id : r \in rules}, tried \in BOOLEAN :
             LET row == [id |-> id, tenant |-> Ctx(flag), when |-> when, emit |-> "topic",
                         driver |-> driver, js |-> js]
             IN  /\ rules' = CreateRule(rules, row)
                 /\ Report("rules create", flag, tried, IF tried THEN {RuleMessage(row)} ELSE {})
       /\ UNCHANGED <<shell, drivers, instances, spaces>>

\* What is printed is the record that was sent, not the row.
RulesUpdate(flag, id, when, emits, driver, js) ==
    LET row == [id |-> id, tenant |-> Ctx(flag), when |-> when, emit |-> "topic", driver |-> driver, js |-> js]
        ok == id # "" /\ RuleAccepted(flag, when, emits, driver) /\ GetRule(rules, Ctx(flag), id) # {}
    IN  \/ ~ok /\ Fails("rules update", flag)
        \/ /\ ok
           /\ rules' = UpdateRule(rules, Ctx(flag), row)
           /\ Report("rules update", flag, TRUE, {RuleMessage(row)})
           /\ UNCHANGED <<shell, drivers, instances, spaces>>

RulesDelete(flag, id) ==
    \/ ~(id # "" /\ Admitted) /\ Fails("rules delete", flag)
    \/ /\ id # "" /\ Admitted
       /\ rules' = DeleteRule(rules, Ctx(flag), id)
       /\ Report("rules delete", flag, TRUE, {})
       /\ UNCHANGED <<shell, drivers, instances, spaces>>

\* An engine of its own for the rules that were sent; it looks at no table.
MatchRulesRPC(rs, strict) == {[when |-> c.rule.when, driver |-> c.rule.driver] : c \in Evaluate(rs, strict)}

\* The rules of a file against a payload; each rule of the file needs a driver,
\* and one expression that does not compile is the end of all.
RulesMatch(flag, file, strict) ==
    LET rs == {[rule |-> r] : r \in file}
        ok == file # {} /\ (\A r \in file : r.driver # NoDriver) /\ Admitted /\ Compiles(rs)
    IN  Answers("rules match", flag, ok, Given(ok, MatchRulesRPC(rs, strict)))

-----------------------------------------------------------------------------
(* Files.                                                                   *)

\* loadConfigPayload: a .yaml or .yml that parses to something.
Loads(f) == f.yaml /\ f.text = "map"

\* extractAndRemoveRedirectBaseURL and injectPrivateKeyPem: the key of the
\* file, or else the contents of the file that a path names, which may not be
\* there; a path that was read is removed.
KeyReadable(f) == f.pem # "" \/ f.path \in {"", "key.pem"}
Payload(f) ==
    [pem |-> IF f.pem # "" THEN f.pem ELSE IF f.path # "" THEN "contents" ELSE "",
     path |-> IF f.pem # "" THEN f.path ELSE ""]
Redirect(f, url) == IF url # "" THEN url ELSE f.redirect

-----------------------------------------------------------------------------
(* drivers                                                                  *)

DriverID(ctx, name) == <<ctx, name>>

DriverMessage(d) == [id |-> d.id, name |-> d.name, cfg |-> d.cfg]

ListDriversRPC(ctx) == {DriverMessage(d) : d \in ListDrivers(drivers, ctx)}
DriversList(flag) == Answers("drivers list", flag, Admitted, Given(Admitted, ListDriversRPC(Ctx(flag))))

GetDriverRPC(ctx, name) == {DriverMessage(d) : d \in GetDriver(drivers, ctx, name)}
DriversGet(flag, name) ==
    LET ok == name # "" /\ Admitted /\ GetDriverRPC(Ctx(flag), name) # {}
    IN  Answers("drivers get", flag, ok, Given(ok, GetDriverRPC(Ctx(flag), name)))

\* create, update and set are one command.  It sends no id: the store makes one
\* of tenant and name.  validateDriverConfig may refuse the configuration.
DriversUpsert(flag, name, f) ==
    LET ctx == Ctx(flag)
        row == [tenant |-> ctx, id |-> DriverID(ctx, name), name |-> name, cfg |-> f.redirect]
    IN  \/ Fails("drivers update", flag)
        \/ /\ name # "" /\ Loads(f) /\ Admitted
           /\ drivers' = UpsertDriver(drivers, ctx, row.id, name, row.cfg)
           /\ Report("drivers update", flag, TRUE, {DriverMessage(row)})
           /\ UNCHANGED <<shell, rules, instances, spaces>>

DriversDelete(flag, name) ==
    \/ ~(name # "" /\ Admitted) /\ Fails("drivers delete", flag)
    \/ /\ name # "" /\ Admitted
       /\ drivers' = DeleteDriver(drivers, Ctx(flag), name)
       /\ Report("drivers delete", flag, TRUE, {})
       /\ UNCHANGED <<shell, rules, instances, spaces>>

-----------------------------------------------------------------------------
(* providers                                                                *)

ProviderMessage(r) == [prov |-> r.prov, hash |-> r.key, config |-> r.config, redirect |-> r.redirect]
InstancesOf(ctx, prov) == {r \in instances : InScope(ctx, r.tenant) /\ (prov = "" \/ r.prov = prov)}

ListProvidersRPC(ctx, prov) == {ProviderMessage(r) : r \in InstancesOf(ctx, prov)}
ProvidersList(flag, prov) ==
    Answers("providers list", flag, Admitted, Given(Admitted, ListProvidersRPC(Ctx(flag), prov)))

\* An instance that is not there is no error: the command prints no provider.
GetProviderRPC(ctx, prov, hash) == {m \in ListProvidersRPC(ctx, prov) : m.hash = hash}
ProvidersGet(flag, prov, hash) ==
    LET ok == prov # "" /\ hash # "" /\ Admitted
    IN  Answers("providers get", flag, ok, Given(ok, GetProviderRPC(Ctx(flag), prov, hash)))

\* create, update and set are one command here too, and it sends no hash: to
\* UpsertProvider an instance that exists is an error.
ProvidersUpsert(cmd, flag, prov, f, url) ==
    LET ctx == Ctx(flag)
        asked == [prov |-> prov, config |-> Payload(f), redirect |-> Redirect(f, url)]
        sends == prov # "" /\ Loads(f) /\ KeyReadable(f) /\ Credential # "error"
        ok == sends /\ Admitted /\ InstancesOf(ctx, prov) = {}
    IN  \/ /\ ~ok
           /\ Sends(cmd, flag, FALSE, {}, IF sends /\ Admitted THEN {asked} ELSE {})
           /\ UNCHANGED <<shell, tables>>
        \/ /\ ok
           /\ \E hash \in Names \ {r.key : r \in instances} :
                 LET row == [tenant |-> ctx, prov |-> prov, key |-> hash, config |-> asked.config,
                             redirect |-> asked.redirect]
                 IN  /\ instances' = instances \cup {row}
                     /\ Sends(cmd, flag, TRUE, {ProviderMessage(row)}, {asked})
           /\ UNCHANGED <<shell, rules, drivers, spaces>>

ProvidersDelete(flag, prov, hash) ==
    LET ok == prov # "" /\ hash # "" /\ Admitted
    IN  \/ ~ok /\ Fails("providers delete", flag)
        \/ /\ ok
           /\ instances' = {r \in instances : r \notin InstancesOf(Ctx(flag), prov) \/ r.key # hash}
           /\ Report("providers delete", flag, TRUE, {})
           /\ UNCHANGED <<shell, rules, drivers, spaces>>

-----------------------------------------------------------------------------
(* namespaces and installations                                             *)

NamespaceMessage(n) == [prov |-> n.prov, repo |-> n.repo, acct |-> n.acct, on |-> n.on]

ListNamespacesRPC(ns, ctx, prov, state) ==
    {NamespaceMessage(n) :
        n \in {s \in ns : InScope(ctx, s.tenant) /\ prov \in {"", s.prov} /\ state \in {"", s.acct}}}
NamespacesList(flag, prov, state) ==
    Answers("namespaces list", flag, Admitted, Given(Admitted, ListNamespacesRPC(spaces, Ctx(flag), prov, state)))

\* A namespace of another account is refused.
GetNamespaceWebhookRPC(ctx, prov, repo, state) ==
    {[repo |-> repo, on |-> n.on] :
        n \in {s \in GetNamespace(spaces, ctx, prov, repo, NoId) : state \in {"", s.acct}}}
NamespacesWebhookGet(flag, prov, repo, state) ==
    \/ Fails("namespaces webhook get", flag)
    \/ /\ prov # "" /\ repo # "" /\ Admitted
       /\ \E m \in GetNamespaceWebhookRPC(Ctx(flag), prov, repo, state) :
             Answers("namespaces webhook get", flag, TRUE, {m})

\* SetNamespaceWebhook; the provider may refuse, and GitHub always does.
NamespacesWebhookUpdate(flag, prov, repo, state, on) ==
    \/ Fails("namespaces webhook update", flag)
    \/ /\ prov \notin {"", "github"} /\ repo # "" /\ Admitted
       /\ \E n \in GetNamespace(spaces, Ctx(flag), prov, repo, NoId) :
             /\ state \in {"", n.acct}
             /\ spaces' = UpsertNamespace(spaces, [n EXCEPT !.on = on])
             /\ Report("namespaces webhook update", flag, TRUE, {[repo |-> repo, on |-> on]})
       /\ UNCHANGED <<shell, rules, drivers, instances>>

\* SyncNamespaces for the installations of the account, or for all; without
\* an error it answers the namespaces that are there afterwards.  The provider
\* tells which repositories there are; to GitHub no request is made.
InstallationsForSync(ctx, prov, state) ==
    {i \in Installs : i.prov = prov /\ state \in {"", i.acct} /\ InScope(ctx, i.tenant)}
NamespacesUpdate(flag, prov, state) ==
    LET ctx == Ctx(flag)
        found == InstallationsForSync(ctx, prov, state)
        row(i, repo) == [tenant |-> ctx, prov |-> prov, key |-> NoId, repo |-> repo, acct |-> i.acct,
                         inst |-> i.inst, on |-> \E n \in GetNamespace(spaces, ctx, prov, repo, NoId) : n.on]
    IN  \/ Fails("namespaces update", flag)
        \/ /\ prov # "" /\ Admitted /\ found # {}
           /\ \E i \in found, repo \in Names :
                 spaces' = IF prov = "github" THEN spaces ELSE UpsertNamespace(spaces, row(i, repo))
           /\ Report("namespaces update", flag, TRUE, ListNamespacesRPC(spaces', ctx, prov, state))
           /\ UNCHANGED <<shell, rules, drivers, instances>>

InstallationMessage(i) == [prov |-> i.prov, acct |-> i.acct, inst |-> i.inst, token |-> i.acc]

\* Without a provider these are the installations of three providers.
ListInstallationsRPC(ctx, prov, state) ==
    UNION {{InstallationMessage(i) : i \in ListInstallations(Installs, ctx, p, state)} :
           p \in IF prov = "" THEN {"github", "gitlab", "bitbucket"} ELSE {prov}}
InstallationsList(flag, prov, state) ==
    Answers("installations list", flag, Admitted, Given(Admitted, ListInstallationsRPC(Ctx(flag), prov, state)))

GetInstallationByIDRPC(ctx, prov, inst) ==
    {InstallationMessage(i) : i \in GetInstallationByInstallationID(Installs, ctx, prov, inst)}
InstallationsGet(flag, prov, inst) ==
    LET found == GetInstallationByIDRPC(Ctx(flag), prov, inst)
        ok == prov # "" /\ inst # "" /\ Admitted /\ found # {}
    IN  Answers("installations get", flag, ok, Given(ok, found))

-----------------------------------------------------------------------------
(* init and auth                                                            *)

\* init: a configuration that is there is kept unless --force.
InitConfig(flag, profile, force) ==
    \/ /\ (~force /\ shell.config # "none") \/ profile = "other"
       /\ Fails("init", flag)
    \/ /\ (force \/ shell.config = "none") /\ profile # "other"
       /\ shell' = [shell EXCEPT !.config = "template"]
       /\ Report("init", flag, TRUE, {}) /\ UNCHANGED tables

\* auth: a browser login, or a token for the client's credentials.  The login
\* ends with a callback that has the state of this login and a code, or after
\* five minutes.
Auth(flag) ==
    \/ Fails("auth", flag)
    \/ /\ shell.config = "own" /\ (shell.mode = "auth_code" \/ shell.secret)
       /\ shell' = [shell EXCEPT !.cached = TRUE]
       /\ Report("auth", flag, TRUE, {}) /\ UNCHANGED tables

-----------------------------------------------------------------------------

RuleFiles == {{}} \cup {{[when |-> w, driver |-> d]} : w \in Whens, d \in {NoDriver, DriverID("acme", "amqp")}}

DriverFlags == {NoDriver} \cup {DriverID(t, "amqp") : t \in {"acme", "default"}}

Next ==
    commands < MaxCommands /\ \E flag \in TenantFlags :
        \/ RulesList(flag) \/ DriversList(flag) \/ Auth(flag)
        \/ \E profile \in {"server", "other"}, force \in BOOLEAN : InitConfig(flag, profile, force)
        \/ \E file \in RuleFiles, strict \in BOOLEAN : RulesMatch(flag, file, strict)
        \/ \E w \in Whens \cup {""}, e \in {1, 2}, d \in DriverFlags, js \in {NoJS, "js"} :
              \/ RulesCreate(flag, w, e, d, js)
              \/ \E id \in Names : RulesUpdate(flag, id, w, e, d, js)
        \/ \E n \in Names \cup {""} :
              \/ RulesGet(flag, n) \/ RulesDelete(flag, n) \/ DriversGet(flag, n) \/ DriversDelete(flag, n)
              \/ \E f \in Files : DriversUpsert(flag, n, f)
        \/ \E prov \in Providers :
              \/ ProvidersList(flag, prov)
              \/ \E cmd \in {"providers create", "providers update"}, f \in Files, url \in {"", "flag"} :
                    ProvidersUpsert(cmd, flag, prov, f, url)
              \/ \E state \in {"", "a"} :
                    \/ NamespacesList(flag, prov, state) \/ NamespacesUpdate(flag, prov, state)
                    \/ InstallationsList(flag, prov, state)
              \/ \E n \in Names \cup {""} :
                    \/ ProvidersGet(flag, prov, n) \/ ProvidersDelete(flag, prov, n)
                    \/ InstallationsGet(flag, prov, n)
                    \/ \E state \in {"", "a"}, on \in BOOLEAN :
                          \/ NamespacesWebhookGet(flag, prov, n, state)
                          \/ NamespacesWebhookUpdate(flag, prov, n, state, on)

Spec == Init /\ [][Next]_vars

-----------------------------------------------------------------------------

\* The tenants whose rows a command may show or change: with oauth2 the one in
\* the token, whatever --tenant-id says; without a tenant at all, any.
Mine(t) == server.oauth /\ server.claim # NoTenant => t = server.claim

Messages(rs, ds, is, ns) ==
    {RuleMessage(r) : r \in rs} \cup {DriverMessage(d) : d \in ds}
    \cup {ProviderMessage(i) : i \in is} \cup {NamespaceMessage(n) : n \in ns}

Changed(old, new) == (old \ new) \cup (new \ old)

\* Commands of several tenants follow one another on one server.  A command
\* changes and prints rows of its own tenant only; a command that fails leaves
\* the tables alone, save a new rule whose driver could not be tried; and what
\* a create or an update prints is what a get would print next (the blank
\* transform of an updated rule stands for the stored one).
\* (cmd/*.go, pkg/server/tenant_interceptor.go, pkg/api/*_service.go)
CommandIsTrue ==
       LET all == Changed(rules, rules') \cup Changed(drivers, drivers')
                  \cup Changed(instances, instances') \cup Changed(spaces, spaces')
           own(T) == {x \in T : Mine(x.tenant) /\ InScope(last'.tenant, x.tenant)}
           shown == Messages(own(rules'), own(drivers'), own(instances'), own(spaces'))
       IN  /\ \A x \in all : Mine(x.tenant) /\ InScope(last'.tenant, x.tenant)
           /\ ~last'.ok => /\ <<drivers, instances, spaces>>' = <<drivers, instances, spaces>>
                            /\ rules' # rules => last'.cmd = "rules create" /\ rules \subseteq rules'
           /\ last'.cmd \in {"rules create", "rules get", "rules list", "drivers update", "drivers get",
                              "drivers list", "providers create", "providers update", "providers get",
                              "providers list", "namespaces list", "namespaces update"}
              => last'.out \subseteq shown
           /\ last'.cmd = "rules update"
              => last'.out \subseteq shown \cup {[m EXCEPT !.js = NoJS] : m \in {RuleMessage(r) : r \in own(rules')}}
CommandsAreTrue == [][CommandIsTrue]_vars

\* "Update a provider instance" (cmd/provider_instances.go): when the provider
\* has one instance, an update that reaches the server stores what it sent.
UpdateIsStored ==
    \A a \in last'.sent :
          last'.cmd = "providers update" /\ Cardinality(InstancesOf(last'.tenant, a.prov)) = 1
          => \E r \in instances' : /\ InScope(last'.tenant, r.tenant) /\ r.prov = a.prov
                                    /\ r.config = a.config /\ r.redirect = a.redirect
UpdateUpdates == [][UpdateIsStored]_vars
=============================================================================
