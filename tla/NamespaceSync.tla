--------------------------- MODULE NamespaceSync ---------------------------
(***************************************************************************)
(* The namespaces API and the sync of namespaces with the provider          *)
(* (pkg/api/namespaces_service.go, provider_webhooks.go,                    *)
(* pkg/oauth/namespaces.go).                                                *)
(***************************************************************************)
EXTENDS TokenRefresh

latestInstallation(T, ctx, p, a) == Latest(ListInstallations(T, ctx, p, a))

installationsForSync(T, ctx, p, a) ==
    IF a # NoId THEN latestInstallation(T, ctx, p, a) ELSE ListInstallations(T, ctx, p, NoId)

installationForNamespace(T, ctx, n) ==
    LET byId == IF n.inst = NoId THEN {}
                ELSE GetInstallationByInstallationID(T, ctx, n.prov, n.inst)
    IN  IF byId # {} THEN byId
        ELSE IF n.acct # NoId THEN latestInstallation(T, ctx, n.prov, n.acct) ELSE {}

-----------------------------------------------------------------------------
(* SyncNamespaces.                                                          *)

\* GitHub's namespaces come from its installation events: nothing to do.
SyncNamespaces(q, p, t, a) ==
    /\ Start(q) /\ p # "github"
    /\ LET rows == installationsForSync(installs, t, p, a)
       IN  rows # {} /\ Become(q, [Idle EXCEPT !.pc = "rows", !.ctx = t, !.rows = rows])
    /\ UNCHANGED <<table, remote, faults, history>>

\* The next installation of the loop.  A provider the switch does not know is
\* not refreshed, and its row is written back as it was read all the same.
NextInstallation(q, row) ==
    LET l == [req[q] EXCEPT !.row = row, !.rows = @ \ {row}, !.sync = TRUE]
    IN  /\ At(q, "rows") /\ row \in req[q].rows
        /\ IF row.acc = 0 THEN End(q)
           ELSE Become(q, IF ~NeedsRefresh(row) THEN BeginSync(l)
                          ELSE IF row.prov \in HookProvs THEN [l EXCEPT !.pc = "refresh"]
                          ELSE [l EXCEPT !.pc = "persist", !.blind = TRUE])
        /\ UNCHANGED <<table, remote, ops, faults, history>>

\* A page of the list cannot be had or read: the sync ends where it is.
ListFails(q) ==
    /\ At(q, "get") /\ Fault
    /\ End(q)
    /\ UNCHANGED <<table, remote, ops, history>>

\* The loops over the repositories: the row of one is read ...
ReadNamespace(q, r) ==
    LET l == req[q]
        found == GetNamespace(namespaces, l.ctx, l.row.prov, r, l.row.key)
    IN  /\ At(q, "get") /\ r \in l.todo
        /\ \E n \in IF found = {} THEN {NoNs} ELSE found :
              Become(q, [l EXCEPT !.pc = "put", !.ns = n, !.todo = @ \ {r}, !.drop = {r}])
        /\ UNCHANGED <<table, remote, ops, faults, history>>

\* Mutant: a sync sets the switch to its default again.
existingWebhooksReset(n, default) == default

existingWebhooks(n, default) == IF n = NoNs THEN default ELSE n.on

Record(l, on) ==
    [tenant |-> l.ctx, prov |-> l.row.prov, key |-> l.row.key, repo |-> CHOOSE r \in l.drop : TRUE,
     acct |-> l.row.acct, inst |-> l.row.inst, on |-> on]

\* The record each sync writes: GitHub's repositories deliver from the start.
SyncGitHubNamespaces(l) == Record(l, existingWebhooks(l.ns, TRUE))
SyncGitLabNamespaces(l) == Record(l, existingWebhooks(l.ns, FALSE))
SyncBitbucketNamespaces(l) == Record(l, existingWebhooks(l.ns, FALSE))

\* ... and written with the switch it had.
WriteNamespace(q) ==
    LET l == req[q]
        n == CASE l.row.prov = "github" -> SyncGitHubNamespaces(l)
               [] l.row.prov = "gitlab" -> SyncGitLabNamespaces(l)
               [] OTHER -> SyncBitbucketNamespaces(l)
        before == {s \in namespaces : NamespaceRecordID(s) = NamespaceRecordID(n)}
    IN  /\ At(q, "put")
        /\ namespaces' = UpsertNamespace(namespaces, n)
        /\ stale' = IF before \subseteq {l.ns} THEN stale ELSE stale \cup {n.repo}
        /\ orphaned' = IF \E r \in installs : Owner(r) = Owner(n) THEN orphaned
                       ELSE orphaned \cup {Owner(n)}
        /\ Become(q, IF l.todo # {} THEN [l EXCEPT !.pc = "get", !.ns = NoNs, !.drop = {}]
                     ELSE IF l.rows = {} THEN Idle
                     ELSE [l EXCEPT !.pc = "rows", !.ns = NoNs, !.drop = {}])
        /\ UNCHANGED <<installs, now, remote, ops, faults, spent, told>>

-----------------------------------------------------------------------------
(* SetNamespaceWebhook.                                                     *)

\* The namespace is looked up without instance key, its installation must
\* have an access token.
SetNamespaceWebhook(q, p, t, r, want) ==
    /\ Start(q) /\ p \in HookProvs
    /\ \E n \in GetNamespace(namespaces, t, p, r, NoId) :
        /\ \E i \in installationForNamespace(installs, t, n) : i.acc # 0
        /\ Become(q, [Idle EXCEPT !.pc = "hooks", !.ctx = t, !.ns = n, !.want = want])
    /\ UNCHANGED <<table, remote, faults, history>>

\* ensureGitLabWebhook and ensureBitbucketWebhook list the hooks ...
ListHooks(q) ==
    /\ At(q, "hooks")
    /\ \/ /\ Become(q, [req[q] EXCEPT !.pc = "hook", !.seen = hooks[req[q].ns.repo] > 0])
          /\ UNCHANGED faults
       \/ Fault /\ End(q)
    /\ UNCHANGED <<table, remote, ops, history>>

\* Another request is between its list and its write for the same repository.
Overlapped(q) ==
    \E o \in Reqs \ {q} : req[o].pc \in {"hook", "switch"} /\ req[o].ns.repo = req[q].ns.repo

\* ... create one where the list had none, or delete the one it had (which
\* fails when it is gone by now).
ChangeHooks(q) ==
    LET l == req[q]
        h == hooks[l.ns.repo]
        add == l.want /\ ~l.seen
        del == ~l.want /\ l.seen
    IN  /\ At(q, "hook")
        /\ \/ /\ ~(del /\ h = 0)
              /\ hooks' = [hooks EXCEPT ![l.ns.repo] = IF add THEN @ + 1 ELSE IF del THEN @ - 1 ELSE @]
              /\ Become(q, [l EXCEPT !.pc = "switch"])
              /\ stale' = IF l.seen = (h > 0) /\ ~Overlapped(q) THEN stale ELSE stale \cup {l.ns.repo}
              /\ UNCHANGED faults
           \/ /\ \/ del /\ h = 0 /\ UNCHANGED faults
                 \/ (add \/ del) /\ Fault
              /\ End(q)
              /\ UNCHANGED <<hooks, stale>>
        /\ UNCHANGED <<table, issued, accepted, aged, ops, spent, told, orphaned>>

\* The record read at the start is written back with the switch; the hook is
\* already there, or gone, when the write fails.
WriteSwitch(q) ==
    LET l == req[q]
        n == [l.ns EXCEPT !.on = l.want]
        before == {s \in namespaces : NamespaceRecordID(s) = NamespaceRecordID(n)}
    IN  /\ At(q, "switch")
        /\ \/ /\ namespaces' = UpsertNamespace(namespaces, n)
              /\ stale' = IF before = {l.ns} THEN stale ELSE stale \cup {n.repo}
              /\ UNCHANGED faults
           \/ /\ Fault
              /\ stale' = stale \cup {n.repo}
              /\ UNCHANGED namespaces
        /\ End(q)
        /\ UNCHANGED <<installs, now, remote, ops, spent, told, orphaned>>
=============================================================================
