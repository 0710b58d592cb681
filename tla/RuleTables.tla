----------------------------- MODULE RuleTables -----------------------------
(***************************************************************************)
(* The rule and driver tables (pkg/storage/rules, pkg/storage/drivers) and  *)
(* what the server computes from them: the rows a context may see, the      *)
(* rules of an event, the compiled rule set of the engine.  A table is a    *)
(* set of rows.  Expressions are kept by what the engine does with them:    *)
(* some do not compile, some read a field the event lacks, some are true.   *)
(***************************************************************************)
EXTENDS FiniteSets, Tenants

CONSTANTS
    NoJS,       \* the empty transform_js
    Broken,     \* expressions that govaluate does not compile
    Missing,    \* expressions that read a field the event does not have
    True        \* expressions that are true of the event

-----------------------------------------------------------------------------
(* Drivers: [tenant, id, name, cfg].  name is the kind of broker.           *)

ListDrivers(D, ctx) == {d \in D : d.tenant = ctx}
GetDriver(D, ctx, name) == {d \in ListDrivers(D, ctx) : d.name = name}
GetDriverByID(D, ctx, id) == {d \in ListDrivers(D, ctx) : d.id = id}

\* A new name whose id is taken violates the unique index idx_driver_id.
UpsertClashes(D, ctx, id, name) ==
    GetDriver(D, ctx, name) = {} /\ GetDriverByID(D, ctx, id) # {}

\* Mutant: the id is among the columns assigned on conflict.
UpsertMovesId(D, ctx, id, name, cfg) ==
    (D \ GetDriver(D, ctx, name))
    \cup {[tenant |-> ctx, id |-> id, name |-> name, cfg |-> cfg]}

\* ON CONFLICT (tenant_id, name): the stored row keeps its id.
UpsertDriver(D, ctx, id, name, cfg) ==
    LET old == GetDriver(D, ctx, name)
    IN  IF old = {}
        THEN D \cup {[tenant |-> ctx, id |-> id, name |-> name, cfg |-> cfg]}
        ELSE (D \ old) \cup {[d EXCEPT !.cfg = cfg] : d \in old}

DeleteDriver(D, ctx, name) == D \ GetDriver(D, ctx, name)

-----------------------------------------------------------------------------
(* Rules: [id, tenant, when, emit, driver, js].                             *)

\* Mutant: the join forgets the tenant of the driver.
JoinAnyTenant(D, r) == {d \in D : d.id = r.driver}

\* LEFT JOIN on driver_id and tenant_id: no row or one row.
Join(D, r) == {d \in D : d.id = r.driver /\ d.tenant = r.tenant}

GetRule(R, ctx, id) == {r \in R : r.id = id /\ InScope(ctx, r.tenant)}
ListRules(R, ctx) == {r \in R : InScope(ctx, r.tenant)}

CreateRule(R, row) == R \cup {row}

\* Updates(&data) writes the non-empty columns only: an empty transform_js and
\* the empty tenant of a context without one leave the stored value.
UpdateRule(R, ctx, row) ==
    LET old == GetRule(R, ctx, row.id)
        new(r) == [row EXCEPT !.tenant = IF @ = NoTenant THEN r.tenant ELSE @,
                              !.js = IF @ = NoJS THEN r.js ELSE @]
    IN  (R \ old) \cup {new(r) : r \in old}

DeleteRule(R, ctx, id) == R \ GetRule(R, ctx, id)

-----------------------------------------------------------------------------
(* The engine.  A compiled rule is a row with the name of its driver.       *)

Named(r, d) == [rule |-> r, name |-> d.name]

\* rules whose driver resolves in the context of their own tenant
Loaded(R, D) == UNION {{Named(r, d) : d \in GetDriverByID(D, r.tenant, r.driver)} : r \in R}

Compiles(rs) == \A c \in rs : c.rule.when \notin Broken

\* evaluateRulesWithLoggerForTenant: a rule that cannot be evaluated, or that
\* lacks a parameter in strict mode, is skipped.
Evaluate(rs, strict) ==
    {c \in rs : c.rule.when \in True /\ ~(strict /\ c.rule.when \in Missing)}

\* loadRulesForTenant: the name comes from the join, or else from the driver
\* store under the tenant of the context; a rule without either is skipped.
LoadRulesForTenant(R, D, ctx) ==
    UNION {LET j == Join(D, r)
           IN  {Named(r, d) : d \in IF j # {} THEN j
                                    ELSE GetDriverByID(D, ctx, r.driver)}
           : r \in ListRules(R, ctx)}

\* matchRulesFromStore builds an engine for the event: one rule that does not
\* compile and there is none, so no rule matches.
MatchRulesFromStore(R, D, ctx, strict) ==
    LET rs == LoadRulesForTenant(R, D, ctx)
    IN  IF Compiles(rs) THEN Evaluate(rs, strict) ELSE {}
=============================================================================
