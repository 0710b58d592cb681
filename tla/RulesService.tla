---------------------------- MODULE RulesService ----------------------------
(***************************************************************************)
(* RulesService (pkg/api/rules_service.go) and the driver changes of        *)
(* DriversService, as requests that interleave between their accesses to    *)
(* the tables and to the shared RuleEngine.  Webhooks match from the tables *)
(* (MatchRulesFromStore); the engine is what CreateRule, UpdateRule and     *)
(* DeleteRule refresh on their way out.                                     *)
(***************************************************************************)
EXTENDS RuleTables, Naturals

CONSTANTS
    Clients,   \* API requests in progress
    Tenants,   \* tenants other than NoTenant
    Contexts,  \* tenants requests are made under
    ExplicitIds, \* driver ids a request may choose
    Names,     \* driver names; the ones in Subscribable have a subscriber
    Subscribable,
    Exprs,     \* expressions; NoExpr is the empty one
    NoExpr,
    Emits,     \* sets of topics a request may carry
    Scripts,   \* transform scripts, NoJS included
    Configs,   \* driver configurations
    MaxRules,  \* bound on the rules created
    MaxOps,    \* bound on the requests served
    Strict     \* rules_strict

ASSUME RulesAssumption ==
    /\ NoTenant \notin Tenants
    /\ Contexts # {} /\ Contexts \subseteq Tenants \cup {NoTenant}
    /\ Subscribable \subseteq Names
    /\ Broken \cup Missing \cup True \cup {NoExpr} \subseteq Exprs
    /\ MaxRules \in Nat /\ MaxOps \in Nat

VARIABLES
    rules,    \* the githook_rules table
    drivers,  \* the githook_drivers table
    engine,   \* compiled rules of each tenant, NoTenant for the global set
    made,     \* number of rules created
    ops,      \* number of requests begun
    pc,       \* of each request
    ctx,      \* its tenant
    row,      \* the rule it writes and returns
    listing,  \* the rules its refresh has listed
    resp,     \* its answer
    alone,    \* history: requests whose tenant nobody else has written since
    clean     \* history: tenants last refreshed by such a request, unwritten since

vars == <<rules, drivers, engine, made, ops, pc, ctx, row, listing, resp,
          alone, clean>>

Ids == 1..MaxRules
Chosen == {<<NoTenant, e>> : e \in ExplicitIds}
DriverIds == Chosen \cup {<<t, n>> : t \in Contexts, n \in Names}
NoDriver == <<NoTenant, NoTenant>>
NoRow == [id |-> 0, tenant |-> NoTenant, when |-> NoExpr, emit |-> {},
          driver |-> NoDriver, js |-> NoJS]

Rows == [id : Ids, tenant : Tenants \cup {NoTenant}, when : Exprs \ {NoExpr},
         emit : Emits, driver : DriverIds, js : Scripts]

TypeOK ==
    /\ rules \subseteq Rows
    /\ \A r, s \in rules : r.id = s.id => r = s
    /\ drivers \subseteq [tenant : Tenants \cup {NoTenant}, id : DriverIds,
                          name : Names, cfg : Configs]
    /\ \A d, e \in drivers : d.tenant = e.tenant =>
          (d.id = e.id) = (d = e) /\ (d.name = e.name) = (d = e)
    /\ engine \in [Tenants \cup {NoTenant} -> SUBSET [rule : Rows, name : Names]]
    /\ \A t \in Tenants \cup {NoTenant} : \A c \in engine[t] : c.rule.tenant = t
    /\ made \in 0..MaxRules
    /\ ops \in 0..MaxOps
    /\ pc \in [Clients -> {"idle", "insert", "validate", "write", "list", "apply"}]
    /\ ctx \in [Clients -> Contexts]
    /\ row \in [Clients -> Rows \cup {NoRow}]
    /\ listing \in [Clients -> SUBSET Rows]
    /\ resp \in [Clients -> {"none", "ok", "invalid", "notfound", "internal"}]
    /\ alone \subseteq Clients
    /\ clean \subseteq Tenants \cup {NoTenant}

Init ==
    /\ rules = {} /\ drivers = {}
    /\ engine = [t \in Tenants \cup {NoTenant} |-> {}]
    /\ made = 0 /\ ops = 0
    /\ pc = [c \in Clients |-> "idle"]
    /\ ctx = [c \in Clients |-> CHOOSE t \in Contexts : TRUE]
    /\ row = [c \in Clients |-> NoRow]
    /\ listing = [c \in Clients |-> {}]
    /\ resp = [c \in Clients |-> "none"]
    /\ alone = {} /\ clean = {}

-----------------------------------------------------------------------------
(* Steps of a request.                                                      *)

Begin(c, t) ==
    /\ pc[c] = "idle"
    /\ ops < MaxOps
    /\ ops' = ops + 1
    /\ ctx' = [ctx EXCEPT ![c] = t]

Answer(c, a) ==
    /\ resp' = [resp EXCEPT ![c] = a]
    /\ pc' = [pc EXCEPT ![c] = "idle"]

\* parseRuleInput and normalizeCoreRule: one topic and an expression.
WellFormed(in) == Cardinality(in.emit) = 1 /\ in.when # NoExpr

\* resolveDriverName under the tenant of the request
Resolves(t, id) == GetDriverByID(drivers, t, id) # {}

RowOf(id, t, in) ==
    [id |-> id, tenant |-> t, when |-> in.when, emit |-> in.emit,
     driver |-> in.driver, js |-> in.js]

\* Ghosts: tenant t of a table is written by c.
Written(c, t) ==
    /\ alone' = {d \in alone : ~InScope(ctx[d], t)} \cup {c}
    /\ clean' = clean \ {t}

Inputs == [when : Exprs, emit : Emits, driver : DriverIds, js : Scripts]

\* CreateRule up to the insertion.
StartCreate(c, t, in) ==
    /\ Begin(c, t)
    /\ made < MaxRules
    /\ IF WellFormed(in) /\ Resolves(t, in.driver)
       THEN /\ pc' = [pc EXCEPT ![c] = "insert"]
            /\ row' = [row EXCEPT ![c] = RowOf(made + 1, t, in)]
            /\ made' = made + 1
            /\ resp' = [resp EXCEPT ![c] = "none"]
       ELSE /\ Answer(c, "invalid")
            /\ UNCHANGED <<row, made>>
    /\ UNCHANGED <<rules, drivers, engine, listing, alone, clean>>

Insert(c) ==
    /\ pc[c] = "insert"
    /\ rules' = CreateRule(rules, row[c])
    /\ pc' = [pc EXCEPT ![c] = "validate"]
    /\ Written(c, row[c].tenant)
    /\ UNCHANGED <<drivers, engine, made, ops, ctx, row, listing, resp>>

\* validateRuleSubscriber: the driver still exists and workers can subscribe
\* to its kind.  A failure is an error after the insertion.
Validate(c) ==
    /\ pc[c] = "validate"
    /\ IF \E d \in GetDriverByID(drivers, ctx[c], row[c].driver) : d.name \in Subscribable
       THEN pc' = [pc EXCEPT ![c] = "list"] /\ UNCHANGED resp
       ELSE Answer(c, "internal")
    /\ UNCHANGED <<rules, drivers, engine, made, ops, ctx, row, listing, alone, clean>>

\* UpdateRule up to the write.  The reads of the rule and of the driver
\* commute with everything in between, so they are one step.
StartUpdate(c, t, id, in) ==
    /\ Begin(c, t)
    /\ IF GetRule(rules, t, id) = {} THEN Answer(c, "notfound") /\ UNCHANGED row
       ELSE IF WellFormed(in) /\ Resolves(t, in.driver)
       THEN /\ pc' = [pc EXCEPT ![c] = "write"]
            /\ row' = [row EXCEPT ![c] = RowOf(id, t, in)]
            /\ resp' = [resp EXCEPT ![c] = "none"]
       ELSE Answer(c, "invalid") /\ UNCHANGED row
    /\ UNCHANGED <<rules, drivers, engine, made, listing, alone, clean>>

\* The tenant of the rule, were it written under t.
Owner(t, id) ==
    IF GetRule(rules, t, id) = {} THEN t
    ELSE (CHOOSE r \in GetRule(rules, t, id) : TRUE).tenant

\* Store.UpdateRule; a rule that has been deleted meanwhile is no error.
Write(c) ==
    /\ pc[c] = "write"
    /\ rules' = UpdateRule(rules, ctx[c], row[c])
    /\ pc' = [pc EXCEPT ![c] = "list"]
    /\ Written(c, Owner(ctx[c], row[c].id))
    /\ UNCHANGED <<drivers, engine, made, ops, ctx, row, listing, resp>>

DeleteRuleRPC(c, t, id) ==
    /\ Begin(c, t)
    /\ rules' = DeleteRule(rules, t, id)
    /\ pc' = [pc EXCEPT ![c] = "list"]
    /\ resp' = [resp EXCEPT ![c] = "none"]
    /\ alone' = {d \in alone : ~InScope(ctx[d], Owner(t, id))} \cup {c}
    /\ clean' = clean \ {Owner(t, id)}
    /\ UNCHANGED <<drivers, engine, made, row, listing>>

\* refreshEngine, first half.
List(c) ==
    /\ pc[c] = "list"
    /\ listing' = [listing EXCEPT ![c] = ListRules(rules, ctx[c])]
    /\ pc' = [pc EXCEPT ![c] = "apply"]
    /\ UNCHANGED <<rules, drivers, engine, made, ops, ctx, row, resp, alone, clean>>

\* Mutant: an empty rule set leaves the one of before.
EngineUpdateKeepsLast(t, rs) ==
    [engine EXCEPT ![t] = IF Compiles(rs) /\ rs # {} THEN rs ELSE @]

\* RuleEngine.Update compiles all the rules before it changes anything; the
\* empty set deletes the tenant.
EngineUpdate(t, rs) ==
    [engine EXCEPT ![t] = IF Compiles(rs) THEN rs ELSE @]

\* Without tenant the rules are grouped by tenant and the groups updated in
\* the order of a Go map, up to the first that does not compile.  A tenant
\* without a resolvable rule has no group.
EngineUpdateAll(rs, done) ==
    [t \in DOMAIN engine |->
        IF t \in done THEN {c \in rs : c.rule.tenant = t} ELSE engine[t]]

\* refreshEngine, second half: resolve every driver, then update.  Its errors
\* are only logged.
Apply(c) ==
    LET rs == Loaded(listing[c], drivers)
        groups == {r.rule.tenant : r \in rs}
        good == {t \in groups : Compiles({r \in rs : r.rule.tenant = t})}
    IN  /\ pc[c] = "apply"
        /\ \/ /\ ctx[c] # NoTenant
              /\ engine' = EngineUpdate(ctx[c], rs)
              /\ clean' = IF c \in alone THEN clean \cup {ctx[c]} ELSE clean \ {ctx[c]}
           \/ /\ ctx[c] = NoTenant
              /\ \E done \in SUBSET good :
                    /\ good = groups => done = good
                    /\ engine' = EngineUpdateAll(rs, done)
                    /\ clean' = IF c \in alone THEN clean \cup done ELSE clean \ done
        /\ Answer(c, "ok")
        /\ alone' = alone \ {c}
        /\ UNCHANGED <<rules, drivers, made, ops, ctx, row, listing>>

-----------------------------------------------------------------------------
(* Driver changes; what they do to the publisher cache is in DriverCache.   *)

DriverWritten(t) ==
    /\ alone' = {d \in alone : ~InScope(ctx[d], t)}
    /\ clean' = clean \ {t}

\* UpsertDriver: the id is the request's or <<tenant, name>>.
UpsertDriverRPC(c, t, id, name, cfg) ==
    /\ Begin(c, t)
    /\ IF UpsertClashes(drivers, t, id, name)
       THEN Answer(c, "internal") /\ UNCHANGED <<drivers, alone, clean>>
       ELSE /\ drivers' = UpsertDriver(drivers, t, id, name, cfg)
            /\ Answer(c, "ok")
            /\ DriverWritten(t)
    /\ row' = [row EXCEPT ![c] = NoRow]
    /\ UNCHANGED <<rules, engine, made, listing>>

\* DeleteDriver does not look for rules that need the driver.
DeleteDriverRPC(c, t, name) ==
    /\ Begin(c, t)
    /\ drivers' = DeleteDriver(drivers, t, name)
    /\ Answer(c, "ok")
    /\ DriverWritten(t)
    /\ row' = [row EXCEPT ![c] = NoRow]
    /\ UNCHANGED <<rules, engine, made, listing>>

Next ==
    \E c \in Clients :
        \/ Insert(c) \/ Validate(c) \/ Write(c) \/ List(c) \/ Apply(c)
        \/ \E t \in Contexts :
              \/ \E in \in Inputs : StartCreate(c, t, in)
              \/ \E id \in Ids, in \in Inputs : StartUpdate(c, t, id, in)
              \/ \E id \in Ids : DeleteRuleRPC(c, t, id)
              \/ \E n \in Names : DeleteDriverRPC(c, t, n)
              \/ \E n \in Names, g \in Configs : \E id \in Chosen \cup {<<t, n>>} :
                    UpsertDriverRPC(c, t, id, n, g)

Spec == Init /\ [][Next]_vars

-----------------------------------------------------------------------------

Matches(R, D, t) == {c.rule : c \in MatchRulesFromStore(R, D, t, Strict)}

\* A step keeps the rules that match: one that an event of its tenant matched
\* matches on unless its row was changed or deleted, its driver was deleted,
\* or a rule whose expression does not compile came to be loaded in the same
\* tenant, because it was stored or because its driver has come back.
KeepsMatching ==
    \A t \in Tenants : \A r \in Matches(rules, drivers, t) :
        \/ r \in Matches(rules', drivers', t)
        \/ r \notin rules'
        \/ \E d \in Join(drivers, r) : drivers' = DeleteDriver(drivers, t, d.name)
        \/ \E b \in LoadRulesForTenant(rules', drivers', t)
                      \ LoadRulesForTenant(rules, drivers, t) : b.rule.when \in Broken

\* What one administrator does never silently stops another rule: only changing
\* or deleting the rule itself, deleting its driver, or loading an expression
\* that does not compile in the same tenant, which disables all its rules.
MatchingKept == [][KeepsMatching]_vars

\* An event is published with a driver of its own tenant, the one its rule
\* names, even where two tenants use the same driver id.
OwnDriver ==
    \A t \in Tenants : \A c \in MatchRulesFromStore(rules, drivers, t, Strict) :
        /\ c.rule.tenant = t
        /\ \E d \in drivers : d.tenant = t /\ d.id = c.rule.driver /\ d.name = c.name

\* A refresh that no other write overlaps leaves the engine with the rules of
\* the table: the deleted are gone, the new are there, other tenants keep
\* theirs; unless a rule does not compile, then the old set stays.
EngineCurrent ==
    \A t \in clean :
        LET now == Loaded({r \in rules : r.tenant = t}, drivers)
        IN  Compiles(now) => engine[t] = now
=============================================================================
