-------------------------- MODULE IntegrationState --------------------------
(***************************************************************************)
(* State shared by the parts of the server that connect it to the          *)
(* providers: OAuth callbacks, token refresh, namespace sync, repository    *)
(* webhooks and the GitHub installation events.  Every part runs in an HTTP *)
(* request of its own; requests interleave at their database statements and *)
(* at their calls to the provider, and nothing locks a row across two of    *)
(* them.                                                                    *)
(***************************************************************************)
EXTENDS InstallTables

CONSTANTS
    Reqs,        \* requests that can be in progress at the same time
    TenantIds,   \* tenants requests carry
    Keys,        \* provider instance keys of OAuth states
    Provs,       \* providers in use
    GitHubIds,   \* installation ids GitHub gives the one account
    Repos,       \* Repos[p]: the repositories the account has at provider p
    Rotating,    \* providers that replace the refresh token on a refresh
    MaxOps,      \* bound: requests started
    MaxFaults    \* bound: provider calls and writes that fail

VARIABLES
    prov,                  \* the provider of this behaviour: see Next
    installs, namespaces,  \* the two tables
    now,                   \* the next updated_at
    issued,                \* tokens the providers have issued, numbered
    accepted,              \* refresh tokens the providers accept
    aged,                  \* access tokens within a minute of their end
    hooks,                 \* hooks[r]: our webhooks on repository r at the provider
    req,                   \* the local state of each request
    ops, faults,           \* what is used up of the bounds
    \* History variables.
    spent,                 \* refresh tokens rows hold although the provider has replaced them
    stale,                 \* repositories whose row or hook was written over another write
    told,                  \* <<p, inst, t>>: tenant t is told that inst of p is installed
    orphaned               \* owners of namespaces that were removed, or never stored

table == <<installs, namespaces, now>>
remote == <<issued, accepted, aged, hooks>>
history == <<spent, stale, told, orphaned>>
vars == <<prov, table, remote, req, ops, faults, history>>

-----------------------------------------------------------------------------
NoRow == [tenant |-> NoTenant, prov |-> NoId, acct |-> NoId, inst |-> NoId,
          key |-> NoId, acc |-> 0, ref |-> 0, at |-> 0]
NoNs == [tenant |-> NoTenant, prov |-> NoId, key |-> NoId, repo |-> NoId,
         acct |-> NoId, inst |-> NoId, on |-> FALSE]

\* The locals of a handler: ctx its tenant, row the installation it works on,
\* rows the installations still to visit, todo the repositories still to
\* visit, ns the namespace row read (NoNs when there is none), drop the
\* repositories to delete, want the webhook state asked for, seen whether the
\* provider has our hook, warn whether the answer will carry a warning, sync
\* and blind that SyncNamespaces goes on after the write, and writes what it
\* has read.
Idle == [pc |-> "idle", ctx |-> NoTenant, row |-> NoRow, rows |-> {}, todo |-> {},
         drop |-> {}, ns |-> NoNs, want |-> FALSE, seen |-> FALSE, warn |-> FALSE,
         sync |-> FALSE, blind |-> FALSE]

Start(q) ==
    /\ req[q] = Idle /\ ops < MaxOps
    /\ ops' = ops + 1

At(q, pc) == req[q].pc = pc

Become(q, local) == req' = [req EXCEPT ![q] = local]

End(q) == Become(q, Idle)

Fault ==
    /\ faults < MaxFaults
    /\ faults' = faults + 1

\* What ties a namespace row to an installation row.
Owner(r) == <<r.tenant, r.prov, r.inst, r.key>>

\* The installations that are no longer there are not promised any more.
Forget(gone) == {x \in told : \A r \in gone : x # <<r.prov, r.inst, r.tenant>>}

AllRepos == UNION {Repos[p] : p \in Provs}

ASSUME IntegrationAssumption ==
    /\ Provs \subseteq {"github", "gitlab", "bitbucket", "slack", "atlassian"}
    /\ NoId \notin Provs \cup AllRepos \cup {"org", "host", "cloud"}
    /\ MaxOps \in Nat /\ MaxFaults \in Nat

\* Providers whose repository webhooks the server creates itself.
HookProvs == Provs \cap {"gitlab", "bitbucket"}

\* The list of repositories, the same whenever it is asked for, is where a sync
\* begins; without any it goes on with the next installation.
BeginSync(l) ==
    IF Repos[l.row.prov] # {} THEN [l EXCEPT !.pc = "get", !.todo = Repos[l.row.prov]]
    ELSE IF l.rows = {} THEN Idle ELSE [l EXCEPT !.pc = "rows"]

InitState ==
    /\ prov \in Provs
    /\ installs = {} /\ namespaces = {} /\ now = 1
    /\ issued = 0 /\ accepted = {} /\ aged = {}
    /\ hooks = [r \in AllRepos |-> 0]
    /\ req = [q \in Reqs |-> Idle]
    /\ ops = 0 /\ faults = 0
    /\ spent = {} /\ stale = {} /\ orphaned = {}
    /\ told = {}
=============================================================================
