---------------------------- MODULE WorkerRules ----------------------------
(***************************************************************************)
(* How a Go worker finds out where to listen: Run reads each rule it has a  *)
(* handler for, groups the topics by driver and builds one subscriber per   *)
(* driver, all of it once, while administrators go on changing the tables.  *)
(* The server publishes an event of a rule where the tables say now.        *)
(***************************************************************************)
EXTENDS RuleTables, Naturals

CONSTANTS
    Tenant,       \* tenantIDValue: the tenant of the worker and of the rules
    Handled,      \* ids of the rules the worker has a handler for
    Topics,
    DriverNames,  \* driver kinds; the ones in Subscribable have a subscriber
    Subscribable,
    Urls,         \* broker addresses
    Prefixes,     \* topic_prefix or subject_prefix; NoPrefix is the empty one
    NoPrefix,
    MaxChanges    \* bound on the changes administrators make

VARIABLES
    rules, drivers,  \* the tables
    changes,         \* number of changes made
    pc,              \* prepare, build, running or failed
    todo,            \* rules not read yet
    topicHandlers,   \* topic -> rule whose handler runs, 0 for none
    topicDrivers,    \* topic -> driver id
    subs,            \* driver id -> set of the one subscriber built for it
    changed          \* history: rules changed, or their driver, since read

vars == <<rules, drivers, changes, pc, todo, topicHandlers, topicDrivers, subs, changed>>

DriverId(name) == <<Tenant, name>>
DriverIds == {DriverId(n) : n \in DriverNames}
NoDriver == <<Tenant, NoTenant>>
Cfgs == [url : Urls, prefix : Prefixes]

RowOf(id, topic, d) ==
    [id |-> id, tenant |-> Tenant, when |-> CHOOSE w \in True : TRUE,
     emit |-> {topic}, driver |-> d, js |-> NoJS]
Rows == {RowOf(id, t, d) : id \in Handled, t \in Topics, d \in DriverIds}
DriverRows == [tenant : {Tenant}, id : DriverIds, name : DriverNames, cfg : Cfgs]

TypeOK ==
    /\ rules \subseteq Rows /\ drivers \subseteq DriverRows
    /\ changes \in 0..MaxChanges
    /\ pc \in {"prepare", "build", "running", "failed"}
    /\ todo \subseteq Handled /\ changed \subseteq Handled
    /\ topicHandlers \in [Topics -> Handled \cup {0}]
    /\ topicDrivers \in [Topics -> DriverIds \cup {NoDriver}]
    /\ \A t \in Topics : topicHandlers[t] = 0 <=> topicDrivers[t] = NoDriver
    /\ \A d \in DriverIds : subs[d] \subseteq [name : Subscribable, cfg : Cfgs] /\ Cardinality(subs[d]) < 2
    /\ pc = "running" => \A t \in Topics : topicDrivers[t] # NoDriver => subs[topicDrivers[t]] # {}

\* Every kind of driver is stored, and a row for each rule.
Init ==
    /\ drivers \in {{[tenant |-> Tenant, id |-> DriverId(n), name |-> n, cfg |-> f[n]] : n \in DriverNames}
                    : f \in [DriverNames -> Cfgs]}
    /\ rules \in {{RowOf(id, f[id][1], f[id][2]) : id \in Handled}
                  : f \in [Handled -> Topics \X DriverIds]}
    /\ changes = 0 /\ changed = {}
    /\ pc = "prepare" /\ todo = Handled
    /\ topicHandlers = [t \in Topics |-> 0]
    /\ topicDrivers = [t \in Topics |-> NoDriver]
    /\ subs = [d \in DriverIds |-> {}]

-----------------------------------------------------------------------------
(* The worker.                                                              *)

\* RulesClient.GetRule, under the context of Run: no tenant is added to it.
FetchRule(id) == GetRule(rules, NoTenant, id)

\* Mutant: the driver of the topic is not overwritten with its handler.
ReadRuleKeepsDriver(id) ==
    /\ pc = "prepare" /\ id \in todo
    /\ \E r \in FetchRule(id) : \E t \in r.emit :
          /\ topicHandlers' = [topicHandlers EXCEPT ![t] = id]
          /\ topicDrivers' = [topicDrivers EXCEPT ![t] = IF @ = NoDriver THEN r.driver ELSE @]
    /\ todo' = todo \ {id} /\ pc' = pc
    /\ UNCHANGED <<rules, drivers, changes, subs, changed>>

\* One round of prepareRuleSubscriptions, in the order of a Go map: a topic
\* that is taken already gets the later handler and the later driver.
ReadRule(id) ==
    /\ pc = "prepare" /\ id \in todo
    /\ todo' = todo \ {id}
    /\ IF FetchRule(id) = {}
       THEN pc' = "failed" /\ UNCHANGED <<topicHandlers, topicDrivers>>
       ELSE /\ \E r \in FetchRule(id) : \E t \in r.emit :
                  /\ topicHandlers' = [topicHandlers EXCEPT ![t] = id]
                  /\ topicDrivers' = [topicDrivers EXCEPT ![t] = r.driver]
            /\ pc' = pc
    /\ UNCHANGED <<rules, drivers, changes, subs, changed>>

Prepared ==
    /\ pc = "prepare" /\ todo = {}
    /\ pc' = "build"
    /\ UNCHANGED <<rules, drivers, changes, todo, topicHandlers, topicDrivers, subs, changed>>

\* topicsByDriver: the drivers that still need a subscriber.
Needed == {topicDrivers[t] : t \in {u \in Topics : topicHandlers[u] # 0}}
ToBuild == {d \in Needed : subs[d] = {}}

\* DriversClient.GetDriverByID lists the drivers of the worker's tenant.
FetchDriver(id) == GetDriverByID(drivers, Tenant, id)

\* Mutant: the address is lost as well, and the library's default is used.
SubscriberConfigDefaults(cfg) == [url |-> CHOOSE u \in Urls : TRUE, prefix |-> NoPrefix]

\* SubscriberConfigFromDriver: the subscriber's structs have yaml tags only, so
\* json.Unmarshal finds url but none of the names with an underscore.
SubscriberConfig(cfg) == [cfg EXCEPT !.prefix = NoPrefix]

\* buildDriverSubscribers, one driver.
BuildSubscriber(d) ==
    /\ pc = "build" /\ d \in ToBuild
    /\ LET usable == {r \in FetchDriver(d) : r.name \in Subscribable}
       IN  IF usable = {} THEN pc' = "failed" /\ UNCHANGED subs
           ELSE /\ subs' = [subs EXCEPT ![d] = {[name |-> r.name, cfg |-> SubscriberConfig(r.cfg)] : r \in usable}]
                /\ pc' = pc
    /\ UNCHANGED <<rules, drivers, changes, todo, topicHandlers, topicDrivers, changed>>

StartAll ==
    /\ pc = "build" /\ ToBuild = {}
    /\ pc' = "running"
    /\ UNCHANGED <<rules, drivers, changes, todo, topicHandlers, topicDrivers, subs, changed>>

-----------------------------------------------------------------------------
(* Administrators, through RulesService and DriversService.                 *)

\* Ghost: a rule counts as changed once the worker may have read it.
Change(ids) ==
    /\ changes < MaxChanges
    /\ changes' = changes + 1
    /\ changed' = changed \cup ids
    /\ UNCHANGED <<pc, todo, topicHandlers, topicDrivers, subs>>

UpdateRuleRPC(id, t, d) ==
    /\ GetRule(rules, Tenant, id) # {} /\ FetchDriver(d) # {}
    /\ rules' = UpdateRule(rules, Tenant, RowOf(id, t, d))
    /\ UNCHANGED drivers
    /\ Change({id} \ todo)

DeleteRuleRPC(id) ==
    /\ rules' = DeleteRule(rules, Tenant, id)
    /\ UNCHANGED drivers
    /\ Change({id} \ todo)

Users(d) == {r.id : r \in {s \in rules : s.driver = d}}

UpsertDriverRPC(n, cfg) ==
    /\ drivers' = UpsertDriver(drivers, Tenant, DriverId(n), n, cfg)
    /\ UNCHANGED rules
    /\ Change(IF subs[DriverId(n)] = {} THEN {} ELSE Users(DriverId(n)))

DeleteDriverRPC(n) ==
    /\ drivers' = DeleteDriver(drivers, Tenant, n)
    /\ UNCHANGED rules
    /\ Change(Users(DriverId(n)))

Done == pc \in {"running", "failed"} /\ UNCHANGED vars

Next ==
    \/ \E id \in Handled : ReadRule(id)
    \/ Prepared
    \/ \E d \in DriverIds : BuildSubscriber(d)
    \/ StartAll
    \/ \E id \in Handled : DeleteRuleRPC(id)
    \/ \E id \in Handled, t \in Topics, d \in DriverIds : UpdateRuleRPC(id, t, d)
    \/ \E n \in DriverNames, cfg \in Cfgs : UpsertDriverRPC(n, cfg)
    \/ \E n \in DriverNames : DeleteDriverRPC(n)
    \/ Done

Spec == Init /\ [][Next]_vars

-----------------------------------------------------------------------------

\* Where the server publishes the events of a rule now.
PublishedAt(r) ==
    {[name |-> d.name, cfg |-> d.cfg, topic |-> t] : d \in Join(drivers, r), t \in r.emit}

\* Where the worker listens for topic t.
ListensAt(t) ==
    IF topicDrivers[t] = NoDriver THEN {}
    ELSE {[name |-> s.name, cfg |-> s.cfg, topic |-> t] : s \in subs[topicDrivers[t]]}

\* The handler of rule r gets the events of r.
Heard(r) ==
    \A t \in r.emit : topicHandlers[t] = r.id /\ PublishedAt(r) \subseteq ListensAt(t)

Current == {r \in rules : r.id \notin changed}
Shared(r) == \E s \in Current : s.id # r.id /\ s.emit = r.emit

\* A running worker hears the events of each of its rules where the server
\* publishes them now, and runs that rule's handler, as long as the rule and
\* its driver are as the worker read them, whichever changes came in between
\* its reads; rules that share a topic or took over one from a changed rule,
\* and prefixed topics, are excepted.
HeardUnlessChanged ==
    pc = "running" => \A r \in Current :
        \/ Heard(r)
        \/ Shared(r)
        \/ \E t \in r.emit : topicHandlers[t] \in changed
        \/ \E p \in PublishedAt(r) : p.cfg.prefix # NoPrefix

\* Of rules that share a topic one is heard all the same, completely: the
\* handler and the driver of a topic always come from the same rule.
HandlerAndDriverAgree ==
    \A r \in Current : \A t \in r.emit :
        topicHandlers[t] = r.id => topicDrivers[t] = r.driver

\* HandleRule "registers a handler for the specified rule id": the handler of
\* an unchanged rule gets the events of that rule, also when another rule
\* publishes the same topic to a second driver, as docs/rules.md advises.
EachRuleHeard ==
    pc = "running" =>
        \A r \in Current : Heard(r) \/ \E p \in PublishedAt(r) : p.cfg.prefix # NoPrefix
=============================================================================
