--------------------------- MODULE InstallTables ---------------------------
(***************************************************************************)
(* The installation and namespace tables (pkg/storage/installations,        *)
(* pkg/storage/namespaces) as sets of rows.  Columns that nothing decides   *)
(* on (names, urls, branches, enterprise) are left out.                     *)
(*   installation: [tenant, prov, acct, inst, key, acc, ref, at]            *)
(*   namespace:    [tenant, prov, key, repo, acct, inst, on]                *)
(* key is the provider instance, acc and ref the access and the refresh     *)
(* token (0 for none), at the updated_at, on the webhooks_enabled column.   *)
(***************************************************************************)
EXTENDS Naturals, FiniteSets, FiniteSetsExt, Tenants

CONSTANT NoId   \* the empty account, installation, repository or instance key

-----------------------------------------------------------------------------
(* Installations.                                                           *)

\* InstallRecordID: the primary key leaves the provider instance out.
InstallRecordID(r) == <<r.tenant, r.prov, r.acct, r.inst>>

\* The unique index idx_installation, the target of ON CONFLICT.
InstallIndex(r) == <<r.tenant, r.prov, r.acct, r.inst, r.key>>

\* An insertion whose primary key is taken by a row of another index is an
\* error of the database.
UpsertFails(T, r) ==
    \E s \in T : InstallRecordID(s) = InstallRecordID(r) /\ InstallIndex(s) # InstallIndex(r)

UpsertInstallation(T, r, now) ==
    IF UpsertFails(T, r) THEN T
    ELSE {s \in T : InstallIndex(s) # InstallIndex(r)} \cup {[r EXCEPT !.at = now]}

\* ORDER BY updated_at DESC LIMIT 1, as a set of at most one row.
Latest(S) == {r \in S : \A s \in S : s.at <= r.at}

GetInstallationByInstallationID(T, ctx, p, i) ==
    Latest({r \in T : r.prov = p /\ r.inst = i /\ InScope(ctx, r.tenant)})

GetInstallationByInstallationIDAndInstanceKey(T, ctx, p, i, k) ==
    Latest({r \in T : r.prov = p /\ r.inst = i /\ r.key = k /\ InScope(ctx, r.tenant)})

\* Without an account, all the installations of the provider.
ListInstallations(T, ctx, p, a) ==
    {r \in T : r.prov = p /\ (a = NoId \/ r.acct = a) /\ InScope(ctx, r.tenant)}

\* Mutant: the statement is not scoped to the tenant of the context.
DeleteInstallationAnyTenant(T, ctx, p, a, i, k) ==
    {r \in T : NoId \in {a, i} \/ <<r.prov, r.acct, r.inst>> # <<p, a, i>> \/ (k # NoId /\ r.key # k)}

\* The account and the installation are required; an empty key is any key.
DeleteInstallation(T, ctx, p, a, i, k) ==
    {r \in T : \/ NoId \in {a, i} \/ ~InScope(ctx, r.tenant)
               \/ <<r.prov, r.acct, r.inst>> # <<p, a, i>>
               \/ k # NoId /\ r.key # k}

-----------------------------------------------------------------------------
(* Namespaces.                                                              *)

\* Both the primary key and the unique index.
NamespaceRecordID(n) == <<n.tenant, n.prov, n.key, n.repo>>

UpsertNamespace(T, n) ==
    {s \in T : NamespaceRecordID(s) # NamespaceRecordID(n)} \cup {n}

\* Take without an order: one of these rows, any one when the key is empty.
GetNamespace(T, ctx, p, repo, k) ==
    {n \in T : n.prov = p /\ n.repo = repo /\ (k = NoId \/ n.key = k) /\ InScope(ctx, n.tenant)}

\* Mutant: empty columns filter too.
ListNamespacesStrict(T, ctx, p, k, a, i) ==
    {n \in T : <<n.prov, n.key, n.acct, n.inst>> = <<p, k, a, i>> /\ InScope(ctx, n.tenant)}

\* The filter columns the code uses; an empty one does not filter.
ListNamespaces(T, ctx, p, k, a, i) ==
    {n \in T : /\ n.prov = p /\ InScope(ctx, n.tenant)
               /\ k \in {NoId, n.key} /\ a \in {NoId, n.acct} /\ i \in {NoId, n.inst}}

DeleteNamespace(T, ctx, p, repo, k) == T \ GetNamespace(T, ctx, p, repo, k)
=============================================================================
