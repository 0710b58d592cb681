----------------------------- MODULE MockStores -----------------------------
(***************************************************************************)
(* The stores in memory that the repository's tests run the services with   *)
(* (pkg/storage/mocks_*.go), next to the tables they stand for: each call   *)
(* of the store interfaces goes to both.  The two are known to differ in    *)
(* some calls, which the action of the call states; after such a call the   *)
(* test is over.  A required identifier that is blank is an error of the    *)
(* table and is stored by the mock.  Rows are those of RuleTables and       *)
(* InstallTables; an instance is [tenant, key, data, on], an event log      *)
(* [id, tenant, status, out].                                               *)
(***************************************************************************)
EXTENDS RuleTables, InstallTables

CONSTANTS
    Contexts,  \* tenants of a context, with NoTenant
    Ids,       \* identifiers a call may name, with NoId
    Data,      \* contents of a row
    MaxWrites  \* bound

VARIABLES
    table,   \* the store under test
    real,    \* the rows of the database
    mock,    \* the records of the mock
    writes,
    parted   \* the last call is one of the known differences

vars == <<table, real, mock, writes, parted>>

Init ==
    /\ table \in {"rules", "drivers", "instances", "installations", "namespaces", "eventlogs"}
    /\ real = {} /\ mock = {} /\ writes = 0 /\ parted = FALSE

\* A call of the store that is under test.
Both(t, r, m, differ) ==
    /\ table = t /\ ~parted /\ writes < MaxWrites
    /\ real' = r /\ mock' = m /\ parted' = differ
    /\ writes' = writes + 1
    /\ UNCHANGED table

\* A map of the mock: a record replaces the one with its key.
Put(M, Key(_), row) == {r \in M : Key(r) # Key(row)} \cup {row}

-----------------------------------------------------------------------------
(* MockRuleStore: by id, over all tenants.                                  *)

MockPutRule(row) == Put(mock, LAMBDA r : r.id, row)
MockGetRule(ctx, id) == {r \in mock : r.id = id /\ (ctx # NoTenant => r.tenant = ctx)}
MockListRules(ctx) == {r \in mock : ctx # NoTenant => r.tenant = ctx}

Rule(ctx, id, when, js) ==
    [id |-> id, tenant |-> ctx, when |-> when, emit |-> "topic", driver |-> "d", js |-> js]

\* An id that is taken is an error of the table; the mock replaces the rule.
StoreCreateRule(ctx, id, when, js) ==
    LET row == Rule(ctx, id, when, js)
        refused == when = NoId \/ \E r \in real : r.id = id
    IN  /\ id # NoId
        /\ Both("rules", IF refused THEN real ELSE CreateRule(real, row), MockPutRule(row), refused)

\* The table keeps what the record leaves blank and a rule of another tenant;
\* the mock stores the record as it is.
StoreUpdateRule(ctx, id, when, js) ==
    LET row == Rule(ctx, id, when, js)
        seen == GetRule(real, ctx, id)
    IN  /\ id # NoId
        /\ Both("rules", IF when = NoId THEN real ELSE UpdateRule(real, ctx, row), MockPutRule(row),
                when = NoId \/ seen = {} \/ \E r \in seen : r.tenant # ctx \/ (js = NoJS /\ r.js # NoJS))

\* The mock deletes a rule of any tenant.
StoreDeleteRule(ctx, id) ==
    Both("rules", DeleteRule(real, ctx, id), {r \in mock : r.id # id},
         \E r \in real : r.id = id /\ ~InScope(ctx, r.tenant))

-----------------------------------------------------------------------------
(* MockDriverStore: by tenant and name.                                     *)

MockGetDriver(ctx, name) == {d \in mock : d.tenant = ctx /\ d.name = name}
MockGetDriverByID(ctx, id) == {d \in mock : d.tenant = ctx /\ d.id = id /\ id # NoId}
MockListDrivers(ctx) == {d \in mock : d.tenant = ctx}

\* A driver of another name does not survive: the mock has one per tenant.
MockUpsertDriver(row) == {d \in mock : d.tenant # row.tenant} \cup {row}

\* The table keeps the other drivers of the tenant, and the id of this one.
StoreUpsertDriver(ctx, id, name, cfg) ==
    LET row == [tenant |-> ctx, id |-> IF id = NoId THEN name ELSE id, name |-> name, cfg |-> cfg]
        refused == name = NoId \/ UpsertClashes(real, ctx, row.id, name)
    IN  Both("drivers", IF refused THEN real ELSE UpsertDriver(real, ctx, row.id, name, cfg),
             MockUpsertDriver(row),
             refused \/ \E d \in ListDrivers(real, ctx) : d.name # name \/ d.id # row.id)

StoreDeleteDriver(ctx, name) ==
    Both("drivers", DeleteDriver(real, ctx, name), mock \ MockGetDriver(ctx, name), FALSE)

-----------------------------------------------------------------------------
(* MockProviderInstanceStore: by tenant, provider and key.                  *)

Instances(T, ctx) == {r \in T : InScope(ctx, r.tenant)}
MockGetProviderInstance(ctx, key) == {r \in mock : r.tenant = ctx /\ r.key = key}
MockListProviderInstances(ctx) == {r \in mock : ctx # NoTenant => r.tenant = ctx}
MockPutProviderInstance(row) == Put(mock, LAMBDA r : <<r.tenant, r.key>>, row)

\* The column of a table turns a false into its default, true.
StoreUpsertProviderInstance(ctx, key, data, on) ==
    LET row == [tenant |-> ctx, key |-> key, data |-> data, on |-> on]
    IN  Both("instances",
             IF key = NoId THEN real ELSE Put(real, LAMBDA r : <<r.tenant, r.key>>, [row EXCEPT !.on = TRUE]),
             MockPutProviderInstance(row), key = NoId \/ ~on)

\* Without a tenant the table deletes the key of every tenant.
StoreDeleteProviderInstance(ctx, key) ==
    Both("instances", real \ {r \in Instances(real, ctx) : r.key = key},
         mock \ MockGetProviderInstance(ctx, key),
         ctx = NoTenant /\ \E r \in real : r.key = key /\ r.tenant # NoTenant)

-----------------------------------------------------------------------------
(* MockStore: installations by tenant, provider, account, id and instance.  *)

MockUpsertInstallation(row) == Put(mock, InstallIndex, row)
MockLatest(S) == {r \in S : ~\E s \in S : s.at > r.at}
MockGetInstallation(ctx, a, i) ==
    MockLatest({r \in mock : r.acct = a /\ r.inst = i /\ (ctx # NoTenant => r.tenant = ctx)})
MockGetByInstallationID(ctx, i) ==
    MockLatest({r \in mock : r.inst = i /\ (ctx # NoTenant => r.tenant = ctx)})
MockGetByInstallationIDAndInstanceKey(ctx, i, k) ==
    MockLatest({r \in mock : r.inst = i /\ r.key = k /\ (ctx # NoTenant => r.tenant = ctx)})
MockListInstallations(ctx, a) ==
    {r \in mock : (a # NoId => r.acct = a) /\ (ctx # NoTenant => r.tenant = ctx)}
MockDeleteInstallation(ctx, a, i, k) ==
    {r \in mock : \/ r.acct # a \/ r.inst # i \/ (k # NoId /\ r.key # k)
                  \/ (ctx # NoTenant /\ r.tenant # ctx)}

\* The primary key of the table leaves the instance out.
StoreUpsertInstallation(ctx, a, i, k, acc) ==
    LET row == [tenant |-> ctx, prov |-> "github", acct |-> a, inst |-> i, key |-> k,
                acc |-> acc, ref |-> 0, at |-> writes]
    IN  Both("installations", UpsertInstallation(real, row, writes), MockUpsertInstallation(row),
             UpsertFails(real, row))

StoreDeleteInstallation(ctx, a, i, k) ==
    Both("installations", DeleteInstallation(real, ctx, "github", a, i, k),
         MockDeleteInstallation(ctx, a, i, k), NoId \in {a, i})

-----------------------------------------------------------------------------
(* MockNamespaceStore: by tenant, provider, instance and repository.        *)

\* Mutant: the key of the map leaves the instance out.
NamespaceKeyNoInstance(n) == <<n.tenant, n.prov, n.repo>>

NamespaceKey(n) == <<n.tenant, n.prov, n.key, n.repo>>

MockGetNamespace(ctx, repo, k) == {n \in mock : n.tenant = ctx /\ n.repo = repo /\ n.key = k}
MockListNamespaces(ctx, k, i) ==
    {n \in mock : /\ ctx # NoTenant => n.tenant = ctx
                  /\ k # NoId => n.key = k
                  /\ i # NoId => n.inst = i}
MockDeleteNamespace(ctx, repo, k) ==
    {n \in mock : \/ n.repo # repo \/ (k # NoId /\ n.key # k)
                  \/ (ctx # NoTenant /\ n.tenant # ctx)}

StoreUpsertNamespace(ctx, repo, k, i) ==
    LET row == [tenant |-> ctx, prov |-> "github", key |-> k, repo |-> repo,
                acct |-> NoId, inst |-> i, on |-> FALSE]
    IN  Both("namespaces", IF repo = NoId THEN real ELSE UpsertNamespace(real, row),
             Put(mock, NamespaceKey, row), repo = NoId)

StoreDeleteNamespace(ctx, repo, k) ==
    Both("namespaces", IF repo = NoId THEN real ELSE DeleteNamespace(real, ctx, "github", repo, k),
         MockDeleteNamespace(ctx, repo, k), FALSE)

-----------------------------------------------------------------------------
(* MockEventLogStore: a list of records.                                    *)

OfEvent(T, ctx, id) == {r \in T : r.id = id /\ InScope(ctx, r.tenant)}
Final == {"success", "failed"}

\* An id that is taken is an error of the table; the mock appends the record.
StoreCreateEventLog(ctx, id, status) ==
    LET row == [id |-> id, tenant |-> ctx, status |-> IF status = "" THEN "queued" ELSE status, out |-> NoId]
        refused == \E r \in real : r.id = id
    IN  /\ id # NoId
        /\ Both("eventlogs", IF refused THEN real ELSE real \cup {row}, mock \cup {row}, refused)

\* The mock lets a late "queued" replace a final status.
MockUpdateEventLogStatus(ctx, id, status) ==
    (mock \ OfEvent(mock, ctx, id)) \cup {[r EXCEPT !.status = status] : r \in OfEvent(mock, ctx, id)}

StoreUpdateEventLogStatus(ctx, id, status) ==
    LET hit == {r \in OfEvent(real, ctx, id) : status = "queued" => r.status \notin Final}
    IN  /\ id # NoId
        /\ Both("eventlogs", (real \ hit) \cup {[r EXCEPT !.status = status] : r \in hit},
                MockUpdateEventLogStatus(ctx, id, status),
                status = "queued" /\ hit # OfEvent(real, ctx, id))

\* Only the first record of an id.
MockUpdateTransformedPayload(ctx, id, body) ==
    LET found == OfEvent(mock, ctx, id)
        first == IF found = {} THEN {} ELSE {CHOOSE r \in found : TRUE}
    IN  (mock \ first) \cup {[r EXCEPT !.out = body] : r \in first}

StoreUpdateTransformedPayload(ctx, id, body) ==
    LET hit == OfEvent(real, ctx, id)
    IN  Both("eventlogs", (real \ hit) \cup {[r EXCEPT !.out = body] : r \in hit},
             MockUpdateTransformedPayload(ctx, id, body), FALSE)

-----------------------------------------------------------------------------

Next ==
    \E ctx \in Contexts, id \in Ids, d \in Data :
        \/ \E when \in {NoId, d}, js \in {NoJS, "js"} :
              StoreCreateRule(ctx, id, when, js) \/ StoreUpdateRule(ctx, id, when, js)
        \/ StoreDeleteRule(ctx, id) \/ StoreDeleteDriver(ctx, id)
        \/ StoreDeleteProviderInstance(ctx, id)
        \/ \E name \in Ids : StoreUpsertDriver(ctx, id, name, d)
        \/ \E on \in BOOLEAN : StoreUpsertProviderInstance(ctx, id, d, on)
        \/ \E a \in {NoId, "a"}, k \in Ids :
              StoreUpsertInstallation(ctx, a, id, k, d) \/ StoreDeleteInstallation(ctx, a, id, k)
        \/ \E k, i \in Ids : StoreUpsertNamespace(ctx, id, k, i) \/ StoreDeleteNamespace(ctx, id, k)
        \/ \E s \in {"", "queued", "success", "failed"} : StoreCreateEventLog(ctx, id, s)
        \/ \E s \in {"queued", "success", "failed"} : StoreUpdateEventLogStatus(ctx, id, s)
        \/ StoreUpdateTransformedPayload(ctx, id, d)

Spec == Init /\ [][Next]_vars

-----------------------------------------------------------------------------

\* What one of the two answers to a read, the other answers too; a row that the
\* database may choose among several is one of those.
SameReads(ctx, id, k) ==
    CASE table = "rules" -> /\ MockListRules(ctx) = ListRules(real, ctx)
                            /\ MockGetRule(ctx, id) = GetRule(real, ctx, id)
      [] table = "drivers" -> /\ MockListDrivers(ctx) = ListDrivers(real, ctx)
                              /\ MockGetDriver(ctx, id) = GetDriver(real, ctx, id)
                              /\ id # NoId => MockGetDriverByID(ctx, id) = GetDriverByID(real, ctx, id)
      [] table = "instances" ->
            /\ MockListProviderInstances(ctx) = Instances(real, ctx)
            /\ ctx # NoTenant => MockGetProviderInstance(ctx, id) = {r \in Instances(real, ctx) : r.key = id}
      [] table = "installations" ->
            /\ MockListInstallations(ctx, id) = ListInstallations(real, ctx, "github", id)
            /\ MockGetByInstallationID(ctx, id) = GetInstallationByInstallationID(real, ctx, "github", id)
            /\ MockGetInstallation(ctx, "a", id) \subseteq {r \in ListInstallations(real, ctx, "github", "a") : r.inst = id}
            /\ k # NoId => MockGetByInstallationIDAndInstanceKey(ctx, id, k) =
                              GetInstallationByInstallationIDAndInstanceKey(real, ctx, "github", id, k)
      [] table = "namespaces" ->
            /\ MockListNamespaces(ctx, k, id) = ListNamespaces(real, ctx, "github", k, NoId, id)
            /\ ctx # NoTenant /\ k # NoId => MockGetNamespace(ctx, id, k) = GetNamespace(real, ctx, "github", id, k)
      [] table = "eventlogs" -> OfEvent(mock, ctx, id) = OfEvent(real, ctx, id)

\* A test of a service sees what production would see: after any sequence of
\* writes by any tenants, none of them one of the known differences, the mock
\* holds the rows of the table and answers every read alike.  The reads that
\* are left out (one row without a tenant, a namespace without an instance)
\* look into all tenants and instances of the table and into one of the mock.
MocksAgree ==
    ~parted => /\ mock = real
               /\ \A ctx \in Contexts : \A id, k \in Ids : SameReads(ctx, id, k)
=============================================================================
