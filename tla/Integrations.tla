---------------------------- MODULE Integrations ----------------------------
(***************************************************************************)
(* The parts that connect the server to the providers, run together over    *)
(* the same two tables, with the installations API                          *)
(* (pkg/api/installations_service.go).                                      *)
(***************************************************************************)
EXTENDS OAuthCallbacks, NamespaceSync, GitHubInstall, EventRouting

\* The API writes what the caller gives it, for tokens the caller already has:
\* a record without one here.
UpsertInstallationAPI(q, p, t, i, k) ==
    LET row == [NoRow EXCEPT !.tenant = t, !.prov = p, !.acct = "org", !.inst = i, !.key = k]
    IN  /\ Start(q)
        /\ installs' = UpsertInstallation(installs, row, now)
        /\ now' = now + 1
        /\ UNCHANGED <<namespaces, remote, req, faults, history>>

\* The namespaces of the installation are left where they are.
DeleteInstallationAPI(q, p, t, a, i, k) ==
    /\ Start(q)
    /\ installs' = DeleteInstallation(installs, t, p, a, i, k)
    /\ orphaned' = orphaned \cup {Owner(r) : r \in installs \ installs'}
    /\ told' = Forget(installs \ installs')
    /\ installs' # installs
    /\ UNCHANGED <<namespaces, now, remote, req, faults, spent, stale>>

\* Time passes: the access token of a row comes within a minute of its end.
Age(g) ==
    /\ g \in {r.acc : r \in installs} \ aged
    /\ aged' = aged \cup {g}
    /\ UNCHANGED <<table, issued, accepted, hooks, req, ops, faults, history>>

-----------------------------------------------------------------------------
Ids == GitHubIds \cup {NoId, "org", "cloud"}

Steps(q) ==
    \/ SaveInstallation(q) \/ DedupeAndAnswer(q)
    \/ Refresh(q) \/ RefreshFails(q) \/ Persist(q)
    \/ \E row \in req[q].rows : NextInstallation(q, row)
    \/ ListFails(q)
    \/ \E r \in req[q].todo : ReadNamespace(q, r)
    \/ WriteNamespace(q)
    \/ ListHooks(q) \/ ChangeHooks(q) \/ WriteSwitch(q)
    \/ ReadEventRecord(q) \/ WriteEventRecord(q) \/ ListEventNamespaces(q)
    \/ \E r \in req[q].drop : DropNamespace(q, r)
    \/ \E r \in req[q].todo : AddNamespace(q, r)
    \/ InstallEventDone(q)

Requests(q) ==
    \E t \in TenantIds, p \in {prov} :
        \/ \E k \in Keys : Callback(q, p, t, k)
        \/ \E i \in Ids, k \in Keys \cup {NoId} : GetSCMClient(q, p, t, i, k)
        \/ \E a \in {NoId, "org"} : SyncNamespaces(q, p, t, a)
        \/ \E r \in Repos[p], want \in BOOLEAN : SetNamespaceWebhook(q, p, t, r, want)
        \/ \E i \in GitHubIds, k \in Keys : UpsertInstallationAPI(q, p, t, i, k)
        \/ \E i \in Ids, k \in Keys \cup {NoId} : DeleteInstallationAPI(q, p, t, "org", i, k)

Events(q) ==
    prov = "github" /\ \E i \in GitHubIds, a \in {"created", "deleted", "removed"} :
        \E added, removed \in SUBSET Repos["github"] : InstallEvent(q, i, a, added, removed)

\* No request of one provider reads or writes what another's does, so a
\* behaviour is of one provider.
Next ==
    /\ \/ \E q \in Reqs : Steps(q) \/ Requests(q) \/ Events(q)
       \/ \E g \in 1 .. issued : Age(g)
    /\ UNCHANGED prov

Init == InitState
Spec == Init /\ [][Next]_vars

-----------------------------------------------------------------------------
(* Properties.                                                              *)

InstallRows ==
    [tenant : TenantIds \cup {NoTenant}, prov : Provs \cup {NoId},
     acct : {NoId, "org", "host", "cloud"}, inst : Ids, key : Keys \cup {NoId},
     acc : Nat, ref : Nat, at : Nat]
NamespaceRows ==
    [tenant : TenantIds \cup {NoTenant}, prov : Provs \cup {NoId}, key : Keys \cup {NoId},
     repo : AllRepos \cup {NoId}, acct : {NoId, "org", "host", "cloud"}, inst : Ids, on : BOOLEAN]
Locals ==
    [pc : {"idle", "save", "dedupe", "refresh", "persist", "rows", "get", "put",
           "hooks", "hook", "switch", "event", "record", "listed", "repos"},
     ctx : TenantIds \cup {NoTenant}, row : InstallRows, rows : SUBSET InstallRows,
     todo : SUBSET AllRepos, drop : SUBSET AllRepos, ns : NamespaceRows,
     want : BOOLEAN, seen : BOOLEAN, warn : BOOLEAN, sync : BOOLEAN, blind : BOOLEAN]

TypeOK ==
    /\ prov \in Provs
    /\ installs \subseteq InstallRows /\ \A r \in installs : r.prov = prov
    /\ namespaces \subseteq NamespaceRows
    /\ \A n \in namespaces : n.prov = prov /\ n.repo \in AllRepos
    /\ now \in Nat /\ issued \in Nat /\ accepted \subseteq Nat
    /\ hooks \in [AllRepos -> Nat]
    /\ req \in [Reqs -> Locals]

\* Refresh tokens are spent by their use (tokenClient, SyncNamespaces): the
\* token of every stored installation is one the provider still accepts,
\* except while the request that replaced it has not written yet, and for the
\* tokens in spent: a lost answer, a failed write, or a SyncNamespaces of
\* Slack or Atlassian that wrote back a row read before a refresh or a
\* deletion.
StoredTokenWorks ==
    \A r \in installs : r.ref # 0 /\ r.ref \notin accepted \cup spent =>
        \E q \in Reqs : At(q, "persist") /\ InstallIndex(req[q].row) = InstallIndex(r)

\* SetNamespaceWebhook changes the provider and then the row: a repository
\* known to one tenant and instance only has exactly one hook when its row
\* says so and none otherwise, except during a change and for stale ones,
\* where two requests wrote over each other or the write failed.
HookRecorded ==
    \A n \in namespaces :
        \/ n.prov \notin HookProvs \/ n.repo \in stale
        \/ \E m \in namespaces : m # n /\ m.repo = n.repo
        \/ \E q \in Reqs : At(q, "switch") /\ req[q].ns.repo = n.repo
        \/ hooks[n.repo] = IF n.on THEN 1 ELSE 0

\* applyInstallSystemRules takes the namespaces of a deleted installation with
\* it: a GitHub namespace has its installation, unless an event is deleting it
\* or one of the ways in orphaned took the installation alone (the API,
\* dedupe, a failed list, a sync or an event that writes after the deletion).
NoOrphanNamespaces ==
    \A n \in namespaces : n.prov = "github" =>
        \/ \E r \in installs : Owner(r) = Owner(n)
        \/ Owner(n) \in orphaned
        \/ \E q \in Reqs : /\ req[q].pc \in {"listed", "repos"} /\ ~req[q].want
                            /\ InScope(req[q].ctx, n.tenant)
                            /\ req[q].row.inst = n.inst /\ req[q].row.key \in {NoId, n.key}

\* The rows resolveStateID of provider p may settle on for an event of the
\* installation id i; Jira's event names the site by a self link.
Heard(p, i) ==
    CASE p = "github" -> GitHubStateID(installs, i)
      [] p = "slack" -> SlackStateID(installs, NoTenant, "org", {})
      [] OTHER -> JiraStateID(installs, NoTenant, jiraAccountIDFromPayload(NoId, "host", NoId))

\* A tenant whose callback answered without warning receives the events of
\* that installation until its row is removed (by the API, a deleted event or
\* the dedupe of another callback), as long as no other tenant has a row of
\* the provider; Atlassian sites without url are stored under a name events do
\* not carry.
InstalledIsHeard ==
    \A x \in told :
        \/ \E r \in installs : r.prov = x[1] /\ r.tenant # x[3]
        \/ \E r \in installs : r.prov = "atlassian" /\ r.acct = "cloud"
        \/ \E h \in Heard(x[1], x[2]) : h.tenant = x[3]

\* A request that carries a tenant changes no row of another tenant, whatever
\* it looked up before (TenantScope in every statement).
TenantIsolation ==
    [][\A q \in Reqs : req'[q] # req[q] /\ req[q].ctx # NoTenant =>
          \A r \in (installs \ installs') \cup (installs' \ installs)
                     \cup (namespaces \ namespaces') \cup (namespaces' \ namespaces) :
              r.tenant = req[q].ctx]_vars

\* The getting started guide: authorising GitLab and switching the webhook of a
\* project on makes its events arrive.  The handler drops an event whose
\* namespace has no installation id.
GitLabEventsArrive ==
    \A n \in namespaces : n.prov = "gitlab" /\ n.on =>
        \A h \in GitLabStateID(namespaces, NoTenant, n.repo) : h.inst # NoId
=============================================================================
