------------------------------ MODULE Services ------------------------------
(***************************************************************************)
(* The services around the delivery of events, each for itself: a behaviour *)
(* follows one of Parts, and the others stand still.                        *)
(*   drivers    DriverCache, which this module extends                      *)
(*   dynamic    DynamicCache        intake     WebhookIntake                *)
(*   reads      EventLogReads       instances  ProviderInstances            *)
(*   auth       Authentication      scm        SCMClients                   *)
(*   server     Server              mocks      MockStores                   *)
(*   commands   CommandLine                                                 *)
(***************************************************************************)
EXTENDS DriverCache

CONSTANTS
    Parts,
    \* dynamic
    Callers, Keys,
    \* intake
    Payloads, Scripts, Installations,
    \* reads
    Ids, Times, Contents, Filters, Intervals, Zones, PageSize, MaxWrites,
    \* instances
    Tenants, Hashes, InstanceKeys, Wires, Fallback, InstanceAdmins, MaxRequests,
    \* auth
    Clients, Workers, ConfigOf, LoginConfig, Lifetimes, DefaultLife, Skew, Logins, LoginLife, Fresh, Retry,
    MaxTime, MaxFetches,
    \* scm
    Handlers, Events, BaseOf(_), Size, ClientSkew, ClientLifetimes, ClientMaxTime,
    \* server
    Configs, Calls, MaxCalls,
    \* mocks and commands
    NoTenant, NoId, NoJS, Broken, Missing, True,
    Contexts, StoreIds, Data, MaxStoreWrites,
    Setups, TenantFlags, Names, Whens, Files, Installs, Providers, MaxCommands

\* WithSCMCacheSize takes no size below one; a client that is given up at its
\* expiry and not before it would be given away when its token dies.
ASSUME ClientAssumption ==
    /\ Size \in Nat \ {0} /\ ClientSkew \in Nat \ {0}
    /\ ClientLifetimes \subseteq Nat /\ ClientMaxTime \in Nat

\* The server is none of the clients, and a configuration is the three fields
\* that the token file is keyed by.
IsConfiguration(c) == c = [issuer |-> c.issuer, audience |-> c.audience, client |-> c.client]
ASSUME AuthAssumption ==
    /\ "server" \notin Clients
    /\ IsConfiguration(LoginConfig) /\ \A p \in Clients : IsConfiguration(ConfigOf[p])
    /\ Lifetimes \subseteq Nat /\ DefaultLife \in Nat /\ Skew \in Nat /\ LoginLife \in Nat
    /\ MaxTime \in Nat \ {0}

\* A tenant may be missing, the key of an instance may not.
ASSUME InstanceAssumption == "" \in Tenants /\ "" \notin InstanceKeys \cup Hashes

VARIABLES
    focus,
    pubs, pubState, builtFor, caller, key, callerHand, closes, replaced,
    secret, req, resp, event, log, sent, replayed,
    logTable, client, logWrites,
    instances, tenantCache, admin, requests, flow, calm,
    now, file, memory, discovery, proc, logins, fetches, issued, exchanged, handed,
    scmNow, scmCache, env, handler, given,
    config, run, step, closers, open, abandoned, cancelled, calls, gaveUp, hurt,
    table, real, mock, writes, parted,
    server, shell, ruleRows, driverRows, instanceRows, spaces, last, commands

dynamicVars == <<pubs, pubState, builtFor, caller, key, callerHand, closes, replaced>>
intakeVars == <<secret, req, resp, event, log, sent, replayed>>
readsVars == <<logTable, client, logWrites>>
instancesVars == <<instances, tenantCache, admin, requests, flow, calm>>
authVars == <<now, file, memory, discovery, proc, logins, fetches, issued, exchanged, handed>>
scmVars == <<scmNow, scmCache, env, handler, given>>
serverVars == <<config, run, step, closers, open, abandoned, cancelled, calls, gaveUp, hurt>>
mocksVars == <<table, real, mock, writes, parted>>
commandVars == <<server, shell, ruleRows, driverRows, instanceRows, spaces, last, commands>>

-----------------------------------------------------------------------------

Dynamic == INSTANCE DynamicCache WITH state <- pubState, pc <- caller, hand <- callerHand

Intake == INSTANCE WebhookIntake

Reads == INSTANCE EventLogReads WITH table <- logTable, writes <- logWrites

Instances == INSTANCE ProviderInstances WITH
    Keys <- InstanceKeys, Admins <- InstanceAdmins, cache <- tenantCache

Auth == INSTANCE Authentication

SCM == INSTANCE SCMClients WITH
    Skew <- ClientSkew, Lifetimes <- ClientLifetimes, MaxTime <- ClientMaxTime,
    now <- scmNow, cache <- scmCache, proc <- handler

Serving == INSTANCE Server WITH pc <- run

Mocks == INSTANCE MockStores WITH Ids <- StoreIds, MaxWrites <- MaxStoreWrites

Cli == INSTANCE CommandLine WITH
    rules <- ruleRows, drivers <- driverRows, instances <- instanceRows

-----------------------------------------------------------------------------

Still(v) == v = <<>>

ServicesInit ==
    /\ focus \in Parts
    /\ Init
    /\ IF focus = "dynamic" THEN Dynamic!Init
       ELSE /\ Still(pubs) /\ Still(pubState) /\ Still(builtFor) /\ Still(caller) /\ Still(key)
            /\ Still(callerHand) /\ Still(closes) /\ Still(replaced)
    /\ IF focus = "intake" THEN Intake!Init
       ELSE /\ Still(secret) /\ Still(req) /\ Still(resp) /\ Still(event) /\ Still(log) /\ Still(sent)
            /\ Still(replayed)
    /\ IF focus = "reads" THEN Reads!Init
       ELSE Still(logTable) /\ Still(client) /\ Still(logWrites)
    /\ IF focus = "instances" THEN Instances!Init
       ELSE /\ Still(instances) /\ Still(tenantCache) /\ Still(admin) /\ Still(requests) /\ Still(flow)
            /\ Still(calm)
    /\ IF focus = "auth" THEN Auth!Init
       ELSE /\ Still(now) /\ Still(file) /\ Still(memory) /\ Still(discovery) /\ Still(proc) /\ Still(logins)
            /\ Still(fetches) /\ Still(issued) /\ Still(exchanged) /\ Still(handed)
    /\ IF focus = "scm" THEN SCM!Init
       ELSE Still(scmNow) /\ Still(scmCache) /\ Still(env) /\ Still(handler) /\ Still(given)
    /\ IF focus = "server" THEN Serving!Init
       ELSE /\ Still(config) /\ Still(run) /\ Still(step) /\ Still(closers) /\ Still(open) /\ Still(abandoned)
            /\ Still(cancelled) /\ Still(calls) /\ Still(gaveUp) /\ Still(hurt)
    /\ IF focus = "mocks" THEN Mocks!Init
       ELSE Still(table) /\ Still(real) /\ Still(mock) /\ Still(writes) /\ Still(parted)
    /\ IF focus = "commands" THEN Cli!Init
       ELSE /\ Still(server) /\ Still(shell) /\ Still(ruleRows) /\ Still(driverRows) /\ Still(instanceRows)
            /\ Still(spaces) /\ Still(last) /\ Still(commands)

\* What moves is the part in focus.
OthersStill ==
    /\ UNCHANGED focus
    /\ IF focus = "drivers" THEN TRUE ELSE UNCHANGED vars
    /\ IF focus = "dynamic" THEN TRUE ELSE UNCHANGED dynamicVars
    /\ IF focus = "intake" THEN TRUE ELSE UNCHANGED intakeVars
    /\ IF focus = "reads" THEN TRUE ELSE UNCHANGED readsVars
    /\ IF focus = "instances" THEN TRUE ELSE UNCHANGED instancesVars
    /\ IF focus = "auth" THEN TRUE ELSE UNCHANGED authVars
    /\ IF focus = "scm" THEN TRUE ELSE UNCHANGED scmVars
    /\ IF focus = "server" THEN TRUE ELSE UNCHANGED serverVars
    /\ IF focus = "mocks" THEN TRUE ELSE UNCHANGED mocksVars
    /\ IF focus = "commands" THEN TRUE ELSE UNCHANGED commandVars

ServicesNext ==
    \/ focus = "drivers" /\ Next /\ OthersStill
    \/ focus = "dynamic" /\ Dynamic!Next /\ OthersStill
    \/ focus = "intake" /\ Intake!Next /\ OthersStill
    \/ focus = "reads" /\ Reads!Next /\ OthersStill
    \/ focus = "instances" /\ Instances!Next /\ OthersStill
    \/ focus = "auth" /\ Auth!Next /\ OthersStill
    \/ focus = "scm" /\ SCM!Next /\ OthersStill
    \/ focus = "server" /\ Serving!Next /\ OthersStill
    \/ focus = "mocks" /\ Mocks!Next /\ OthersStill
    \/ focus = "commands" /\ Cli!Next /\ OthersStill

ServicesVars == <<focus, vars, dynamicVars, intakeVars, readsVars, instancesVars, authVars, scmVars, serverVars,
            mocksVars, commandVars>>

ServicesSpec == ServicesInit /\ [][ServicesNext]_ServicesVars

-----------------------------------------------------------------------------

\* DynamicPublisherCache: a caller holds the publisher of its own key, a cached
\* publisher is open, and an open one is cached, in use, or lost to the
\* insertion of a caller that missed as well.
PublishersAreKept == focus = "dynamic" => Dynamic!PublishersAreKept

\* The handlers of the webhooks: what a provider signed becomes an event and
\* nothing else does, along all the paths on which a signature is checked.
EmittedIffAuthentic == focus = "intake" => Intake!EmittedIsAuthentic /\ Intake!AuthenticIsEmitted

\* The event that a replay builds from the log is the one that came in, though
\* a rule rewrote what was published.
ReplayIsTheEvent == focus = "intake" => Intake!ReplayIsTheEvent

\* Pages of the event log are complete and without repetition while rows are
\* added and changed, and time series have the buckets of the reference store.
ReadsAreRight == focus = "reads" => Reads!ListsAreComplete /\ Reads!BucketsAreRight

\* "Number of events for this key within the query window."
\* (idl/cloud/v1/githooks.proto), of every count in the analytics.
CountsAreTheWindow == focus = "reads" => Reads!CountsAreTheWindow

\* An OAuth flow ends at the application it was started with, unless an
\* instance was written or cached in between.
SameApplication == focus = "instances" => Instances!SameApplication

\* A token that a client takes out of a cache is one of its own and still
\* good, and a login is good for one exchange, by the browser that began it.
TokensAreGood == focus = "auth" => Auth!TokenIsAccepted /\ Auth!LoginOnce

\* The client a handler is given acts for the installation and instance of its
\* event, and the cache is a least recently used one, though handlers race.
ClientsAreRight == focus = "scm" => SCM!ClientServesEvent /\ SCM!CacheIsLRU

\* The server leaves nothing open and harms no request that it waits for.
ServerEndsClean == focus = "server" => Serving!ServerEndsClean

\* The stores of the tests behave as the tables do, save the calls named in
\* MockStores.
MocksAgree == focus = "mocks" => Mocks!MocksAgree

\* A command of the command line changes and shows its own tenant only, changes
\* nothing when it fails (save a rule that could not be tried) and prints what
\* is stored.
CommandsAreTrue == [][focus = "commands" => Cli!CommandIsTrue]_ServicesVars

\* "Update a provider instance" (cmd/provider_instances.go).
UpdateUpdates == [][focus = "commands" => Cli!UpdateIsStored]_ServicesVars
=============================================================================
