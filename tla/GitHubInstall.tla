---------------------------- MODULE GitHubInstall ----------------------------
(***************************************************************************)
(* What GitHub's installation events do to the tables                       *)
(* (pkg/webhook/github_install.go, applyInstallSystemRules).                *)
(***************************************************************************)
EXTENDS IntegrationState

\* recordAccountID: the payload's account where the record has none.
recordAccountID(row) == IF row.acct # NoId THEN row.acct ELSE "org"

\* resolveStateID: an event is heard by the tenant of the latest row with its
\* installation id, whatever the tenant.
GitHubStateID(T, i) == GetInstallationByInstallationID(T, NoTenant, "github", i)

\* ServeHTTP finds the tenant; an installation nobody has a row for is ignored.
\* extractGitHubRepos and extractGitHubRemovedRepoIDs give the repositories.
InstallEvent(q, i, action, added, removed) ==
    /\ Start(q)
    /\ action = "deleted" => added = {} /\ removed = {}
    /\ removed # {} => action = "removed"
    /\ \E r \in GitHubStateID(installs, i) :
        Become(q, [Idle EXCEPT !.pc = "event", !.ctx = r.tenant, !.row = [NoRow EXCEPT !.inst = i],
                               !.want = action # "deleted", !.todo = added, !.drop = removed])
    /\ UNCHANGED <<table, remote, faults, history>>

\* The record is read again under the tenant found, if it has one, and the rest
\* is done under the tenant of the record; it may be gone.
ReadEventRecord(q) ==
    LET l == req[q]
        found == GetInstallationByInstallationID(installs, l.ctx, "github", l.row.inst)
    IN  /\ At(q, "event")
        /\ IF found = {} THEN End(q)
           ELSE \E r \in found :
                  Become(q, [l EXCEPT !.pc = "record", !.ctx = DefaultTenant(r.tenant, @),
                                      !.row = [r EXCEPT !.acct = recordAccountID(r)]])
        /\ UNCHANGED <<table, remote, ops, faults, history>>

\* Deletes the row the record was read from, or writes the record back; a
\* write that fails ends the handler before it reaches the namespaces.
WriteEventRecord(q) ==
    LET l == req[q]
        row == l.row
    IN  /\ At(q, "record")
        /\ \/ /\ ~l.want
              /\ installs' = DeleteInstallation(installs, l.ctx, "github", row.acct, row.inst, row.key)
              /\ told' = Forget(installs \ installs')
              /\ Become(q, [l EXCEPT !.pc = "listed"])
              /\ UNCHANGED <<now, faults>>
           \/ /\ l.want /\ ~UpsertFails(installs, row)
              /\ installs' = UpsertInstallation(installs, row, now)
              /\ now' = now + 1
              /\ Become(q, [l EXCEPT !.pc = "repos"])
              /\ UNCHANGED <<faults, told>>
           \/ /\ IF l.want /\ UpsertFails(installs, row) THEN UNCHANGED faults ELSE Fault
              /\ End(q)
              /\ UNCHANGED <<installs, now, told>>
        /\ UNCHANGED <<namespaces, remote, ops, spent, stale, orphaned>>

\* ListNamespaces of a deleted installation.
ListEventNamespaces(q) ==
    LET l == req[q]
        found == ListNamespaces(namespaces, l.ctx, "github", l.row.key, NoId, l.row.inst)
    IN  /\ At(q, "listed")
        /\ \/ Become(q, [l EXCEPT !.pc = "repos", !.drop = {n.repo : n \in found}])
              /\ UNCHANGED <<faults, orphaned>>
           \/ Fault /\ End(q) /\ orphaned' = orphaned \cup {Owner(n) : n \in found}
        /\ UNCHANGED <<table, remote, ops, spent, stale, told>>

\* One DeleteNamespace of the loops.
DropNamespace(q, r) ==
    LET l == req[q]
    IN  /\ At(q, "repos") /\ r \in l.drop
        /\ namespaces' = DeleteNamespace(namespaces, l.ctx, "github", r, l.row.key)
        /\ Become(q, [l EXCEPT !.drop = @ \ {r}])
        /\ UNCHANGED <<installs, now, remote, ops, faults, history>>

\* One UpsertNamespace of the loop; GitHub's repositories are always on.
AddNamespace(q, r) ==
    LET l == req[q]
        n == [tenant |-> l.row.tenant, prov |-> "github", key |-> l.row.key, repo |-> r,
              acct |-> l.row.acct, inst |-> l.row.inst, on |-> TRUE]
    IN  /\ At(q, "repos") /\ l.drop = {} /\ r \in l.todo
        /\ namespaces' = UpsertNamespace(namespaces, n)
        /\ orphaned' = IF \E s \in installs : Owner(s) = Owner(n) THEN orphaned
                       ELSE orphaned \cup {Owner(n)}
        /\ Become(q, [l EXCEPT !.todo = @ \ {r}])
        /\ UNCHANGED <<installs, now, remote, ops, faults, spent, stale, told>>

InstallEventDone(q) ==
    /\ At(q, "repos") /\ req[q].drop = {} /\ req[q].todo = {}
    /\ End(q)
    /\ UNCHANGED <<table, remote, ops, faults, history>>
=============================================================================
