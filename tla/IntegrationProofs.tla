------------------------- MODULE IntegrationProofs -------------------------
(***************************************************************************)
(* Proofs about Integrations, for every set of requests, tenants, instances,*)
(* repositories and every provider.                                         *)
(*                                                                          *)
(* LInv says what each handler knows at each of its steps: the types, the   *)
(* provider of the rows it holds (LocalOK) and their tenant (ScopedOK).     *)
(* Under it, one lemma per action (...Effect) says what the step reads and  *)
(* writes, and the five invariants rest on these lemmas alone:              *)
(*   tenants         ScopedOK itself;                                       *)
(*   owners          OInv, every GitHub namespace is accounted for;         *)
(*   promises        IInv, a row backs what each tenant was told;           *)
(*   hooks           HInv, a change that nothing came across is recorded;   *)
(*   refresh tokens  TInv, a fresh token is in one hand, that will write it.*)
(***************************************************************************)
EXTENDS Integrations, WellFoundedInduction, TLAPS

\* What a handler knows, at each of its steps, about what it has read.
LocalOK(p, l) ==
    /\ l.pc \in {"save", "dedupe", "refresh", "persist", "get", "put", "record", "listed", "repos"}
          => l.row.prov = p
    /\ l.pc \in {"event", "record", "listed", "repos"} => p = "github"
    /\ \A r \in l.rows : r.prov = p
    /\ l.pc \in {"refresh", "rows"} \/ l.rows # {} => p # "github"
    /\ l.pc = "refresh" => ~l.blind
    /\ l.blind => p \notin HookProvs
    /\ l.pc \in {"hooks", "hook", "switch"} => p \in HookProvs /\ l.ns.prov = p /\ l.ns.repo \in AllRepos
    /\ l.pc = "put" => /\ \E r \in AllRepos : l.drop = {r}
                       /\ l.ns # NoNs => l.ns.repo \in l.drop /\ l.ns.prov = p
    /\ l.pc = "save" => /\ p = "slack" => l.row.acct = "org"
                        /\ p = "atlassian" => l.row.acct \in {"host", "cloud"}
                        /\ p \in {"gitlab", "bitbucket"} => l.row.inst = NoId

\* The tenant of a handler that has one is the tenant of all it holds.
ScopedOK(l) ==
    l.ctx # NoTenant =>
        /\ l.pc \in {"save", "refresh", "persist", "record", "listed", "repos"} => l.row.tenant = l.ctx
        /\ \A r \in l.rows : r.tenant = l.ctx
        /\ l.pc \in {"hooks", "hook", "switch"} => l.ns.tenant = l.ctx

LInv == TypeOK /\ \A q \in Reqs : LocalOK(prov, req[q]) /\ ScopedOK(req[q])

\* The step of request q to the local state m.
Moves(q, m) ==
    /\ m \in Locals /\ req' = [req EXCEPT ![q] = m]
    /\ LocalOK(prov, m) /\ ScopedOK(m)

\* The empty rows and the idle request are well typed.
LEMMA Constants ==
    /\ NoRow \in InstallRows /\ NoNs \in NamespaceRows /\ Idle \in Locals
    /\ NoNs.repo = NoId /\ NoNs.prov = NoId
  BY DEF NoRow, InstallRows, NoNs, NamespaceRows, Idle, Locals, Ids

\* A lookup by the latest updated_at returns rows of what it looks in.
LEMMA LatestIsRow ==
    ASSUME NEW S
    PROVE  Latest(S) \subseteq S
  BY DEF Latest

\* A handler that returns leaves an idle request.
LEMMA IdleEffect ==
    ASSUME LInv, NEW q \in Reqs, End(q)
    PROVE  Moves(q, Idle)
  <1>1. LocalOK(prov, Idle) /\ ScopedOK(Idle)
    BY DEF LocalOK, ScopedOK, Idle
  <1> QED BY <1>1, Constants DEF Moves, End, Become

RowFor(p, a, i, g) ==
    [tenant |-> NoTenant, prov |-> p, acct |-> a, inst |-> i, key |-> NoId, acc |-> g, ref |-> 0, at |-> 0]

\* The row a callback builds is well typed.
LEMMA RowForTyped ==
    ASSUME NEW p \in Provs, NEW a \in {NoId, "org", "host", "cloud"}, NEW i \in Ids, NEW g \in {0, 1}
    PROVE  /\ RowFor(p, a, i, g) \in InstallRows
           /\ RowFor(p, a, i, g).prov = p /\ RowFor(p, a, i, g).acct = a
           /\ RowFor(p, a, i, g).inst = i /\ RowFor(p, a, i, g).acc = g
           /\ RowFor(p, a, i, g).at = 0
  BY DEF RowFor, InstallRows

\* The row that a callback builds.
LEMMA CallbackRowTyped ==
    ASSUME LInv, NEW t \in TenantIds, NEW k \in Keys,
           NEW c \in CallbackRows(installs, t, k, prov)
    PROVE  /\ c.warn \in BOOLEAN
           /\ \E a \in {NoId, "org", "host", "cloud"}, i \in Ids, g \in {0, 1} :
                 /\ c.row = RowFor(prov, a, i, g)
                 /\ prov = "slack" => a = "org"
                 /\ prov = "atlassian" => a \in {"host", "cloud"}
                 /\ prov \in {"gitlab", "bitbucket"} => i = NoId
                 /\ prov # "github" => g = 1
  <1>0. prov \in {"github", "gitlab", "bitbucket", "slack", "atlassian"} /\ prov \in Provs
    BY IntegrationAssumption DEF LInv, TypeOK
  <1>5. NoId \in Ids /\ "org" \in Ids /\ "cloud" \in Ids /\ GitHubIds \subseteq Ids
    BY DEF Ids
  <1>1. CASE prov = "github"
    <2>1. c \in {[row |-> r, warn |-> GitHubWarns(installs, t, r, k)] :
                r \in {GitHubRow(i, a, code) : i \in GitHubIds, a \in resolveGitHubAccount, code \in {0, 1}}}
      BY <1>1 DEF CallbackRows
    <2>2. PICK i \in GitHubIds, a \in {"org", NoId}, code \in {0, 1} :
             c = [row |-> GitHubRow(i, a, code), warn |-> GitHubWarns(installs, t, GitHubRow(i, a, code), k)]
      BY <2>1 DEF resolveGitHubAccount
    <2>3. c.warn \in BOOLEAN
      BY <2>2 DEF GitHubWarns
    <2>4. c.row = RowFor("github", a, i, code)
      BY <2>2 DEF GitHubRow, NoRow, RowFor
    <2> QED BY <1>1, <1>5, <2>3, <2>4
  <1>2. CASE prov = "slack"
    <2>1. c = [row |-> SlackRow(installs, t, k, "org"), warn |-> FALSE]
      BY <1>2 DEF CallbackRows, exchangeSlackToken
    <2> DEFINE found == resolveExistingInstallationID(installs, t, "slack", "org", k)
               i == IF found = {} THEN "org" ELSE CHOOSE j \in found : TRUE
    <2>2. found \subseteq Ids
      BY DEF resolveExistingInstallationID, ListInstallations, LInv, TypeOK, Latest, InstallRows
    <2>3. i \in Ids
      <3> HIDE DEF found
      <3> QED BY <1>5, <2>2
    <2>4. c.row = [NoRow EXCEPT !.prov = "slack", !.acct = "org", !.acc = 1, !.inst = i]
      BY <2>1 DEF SlackRow
    <2> HIDE DEF i
    <2>5. c.row = RowFor("slack", "org", i, 1)
      BY <2>4 DEF NoRow, RowFor
    <2> QED BY <1>2, <2>1, <2>3, <2>5
  <1>3. CASE prov = "atlassian"
    <2>1. c \in {[row |-> JiraRow(host), warn |-> w] :
                host \in fetchJiraAccessibleResource, w \in autoRegisterAtlassianWebhooks}
      BY <1>3 DEF CallbackRows
    <2>4. PICK host \in fetchJiraAccessibleResource, w \in autoRegisterAtlassianWebhooks :
             c = [row |-> JiraRow(host), warn |-> w]
      BY <2>1
    <2>5. host \in {"host", NoId} /\ w \in BOOLEAN
      BY <2>4 DEF fetchJiraAccessibleResource, autoRegisterAtlassianWebhooks
    <2>2. c.row = JiraRow(host) /\ c.warn \in BOOLEAN
      BY <2>4, <2>5
    <2>3. PICK a \in {"host", "cloud"} : c.row = RowFor("atlassian", a, "cloud", 1)
      BY <2>2, <2>5 DEF JiraRow, NoRow, RowFor
    <2> QED BY <1>3, <1>5, <2>2, <2>3
  <1>4. CASE prov \in {"gitlab", "bitbucket"}
    <2>1. c \in {[row |-> r, warn |-> resolveExistingInstallationID(installs, t, prov, r.acct, k) # {}] :
                r \in IF prov = "gitlab" THEN {GitLabRow(a) : a \in resolveGitLabAccount}
                      ELSE {BitbucketRow(a) : a \in resolveBitbucketAccount}}
      BY <1>4 DEF CallbackRows
    <2>2. PICK a \in {"org", NoId} :
             c.row = (IF prov = "gitlab" THEN GitLabRow(a) ELSE BitbucketRow(a))
      BY <2>1 DEF resolveGitLabAccount, resolveBitbucketAccount
    <2>3. c.warn \in BOOLEAN
      <3>1. \E r : c = [row |-> r, warn |-> resolveExistingInstallationID(installs, t, prov, r.acct, k) # {}]
        BY <2>1, Zenon
      <3> QED BY <3>1
    <2>4. c.row = RowFor(prov, a, NoId, 1)
      BY <1>4, <2>2 DEF GitLabRow, BitbucketRow, NoRow, RowFor
    <2> QED BY <1>4, <1>5, <2>3, <2>4
  <1> QED BY <1>0, <1>1, <1>2, <1>3, <1>4

\* handleGitHubApp and the others, before the write.
LEMMA CallbackEffect ==
    ASSUME LInv, NEW q \in Reqs, NEW t \in TenantIds, NEW k \in Keys, Callback(q, prov, t, k)
    PROVE  \E m : \E g \in {0, 1} :
              /\ req[q] = Idle /\ Moves(q, m)
              /\ m.pc = "save" /\ m.rows = {} /\ m.row.ref = (issued + 1) * g /\ m.row.at = 0
              /\ prov # "github" => g = 1
              /\ issued' = issued + g
              /\ accepted' = accepted \cup ({(issued + 1) * g} \ {0})
              /\ UNCHANGED <<installs, namespaces, now, aged, hooks, spent, stale, told, orphaned>>
  <1>1. PICK c \in CallbackRows(installs, t, k, prov) :
          LET n == (issued + 1) * c.row.acc
              row == [c.row EXCEPT !.tenant = t, !.key = k, !.acc = n, !.ref = n]
          IN  /\ Become(q, [Idle EXCEPT !.pc = "save", !.ctx = t, !.row = row, !.warn = c.warn])
              /\ issued' = issued + c.row.acc
              /\ accepted' = accepted \cup ({n} \ {0})
    BY DEF Callback
  <1>2. PICK a \in {NoId, "org", "host", "cloud"}, i \in Ids, g \in {0, 1} :
                 /\ c.row = RowFor(prov, a, i, g)
                 /\ prov = "slack" => a = "org"
                 /\ prov = "atlassian" => a \in {"host", "cloud"}
                 /\ prov \in {"gitlab", "bitbucket"} => i = NoId
                 /\ prov # "github" => g = 1
    BY CallbackRowTyped
  <1> DEFINE n == (issued + 1) * g
             row == [c.row EXCEPT !.tenant = t, !.key = k, !.acc = n, !.ref = n]
             m == [Idle EXCEPT !.pc = "save", !.ctx = t, !.row = row, !.warn = c.warn]
  <1>3. n \in Nat
    BY DEF LInv, TypeOK
  <1>4. /\ c.row \in InstallRows /\ c.row.prov = prov /\ c.row.acct = a
        /\ c.row.inst = i /\ c.row.acc = g /\ c.row.at = 0
    BY <1>2, RowForTyped DEF LInv, TypeOK
  <1>5. /\ row \in InstallRows /\ row.prov = prov /\ row.acct = a /\ row.inst = i
        /\ row.tenant = t /\ row.at = 0 /\ row.ref = n
    <2> HIDE DEF n
    <2> QED BY <1>3, <1>4 DEF InstallRows
  <1>6. /\ m.pc = "save" /\ m.ctx = t /\ m.row = row /\ m.rows = {} /\ m.blind = FALSE
    <2> HIDE DEF row
    <2> QED BY DEF Idle
  <1>7. m \in Locals
    <2>1. c.warn \in BOOLEAN
      BY CallbackRowTyped
    <2> HIDE DEF row
    <2> QED BY <1>5, <2>1, Constants DEF Locals
  <1> HIDE DEF m, row
  <1>8. LocalOK(prov, m) /\ ScopedOK(m)
    BY <1>2, <1>5, <1>6 DEF LocalOK, ScopedOK
  <1>9. req' = [req EXCEPT ![q] = m]
    BY <1>1, <1>4 DEF Become, m, row
  <1>10. issued' = issued + g /\ accepted' = accepted \cup ({n} \ {0})
    BY <1>1, <1>4
  <1>11. /\ UNCHANGED <<installs, namespaces, now, aged, hooks, spent, stale, told, orphaned>>
         /\ req[q] = Idle
    BY DEF Callback, table, history, Start
  <1>12. Moves(q, m)
    BY <1>7, <1>8, <1>9 DEF Moves
  <1>13. m.pc = "save" /\ m.rows = {} /\ m.row.ref = n /\ m.row.at = 0
    BY <1>5, <1>6
  <1> QED BY <1>2, <1>10, <1>11, <1>12, <1>13

\* What a request knows at the start of a step.
\* What the invariant says of one request and of the provider.
LEMMA RequestTyped ==
    ASSUME LInv, NEW q \in Reqs
    PROVE  /\ req[q] \in Locals /\ LocalOK(prov, req[q]) /\ ScopedOK(req[q])
           /\ prov \in Provs /\ prov \in {"github", "gitlab", "bitbucket", "slack", "atlassian"}
  BY IntegrationAssumption DEF LInv, TypeOK

\* The sync that follows a stored row keeps what the request knows.
LEMMA BeginSyncOK ==
    ASSUME LInv, NEW l \in Locals, l.row.prov = prov,
           \A r \in l.rows : r.prov = prov,
           l.rows # {} => prov # "github",
           l.blind => prov \notin HookProvs,
           l.ctx # NoTenant => \A r \in l.rows : r.tenant = l.ctx
    PROVE  LET m == BeginSync(l)
           IN  /\ m \in Locals /\ LocalOK(prov, m) /\ ScopedOK(m)
               /\ m.pc \in {"get", "rows", "idle"} /\ m.rows \subseteq l.rows
  <1>1. prov \in Provs
    BY DEF LInv, TypeOK
  <1>2. Repos[l.row.prov] \subseteq AllRepos
    BY <1>1 DEF AllRepos
  <1>3. CASE Repos[l.row.prov] # {}
    <2> DEFINE m == [l EXCEPT !.pc = "get", !.todo = Repos[l.row.prov]]
    <2>1. BeginSync(l) = m
      BY <1>3 DEF BeginSync
    <2>2. m \in Locals /\ m.pc = "get" /\ m.rows = l.rows /\ m.row = l.row /\ m.blind = l.blind /\ m.ctx = l.ctx
      BY <1>2 DEF Locals
    <2> HIDE DEF m
    <2>3. LocalOK(prov, m) /\ ScopedOK(m)
      BY <2>2 DEF LocalOK, ScopedOK
    <2> QED BY <2>1, <2>2, <2>3
  <1>4. CASE Repos[l.row.prov] = {} /\ l.rows = {}
    <2>1. BeginSync(l) = Idle
      BY <1>4 DEF BeginSync
    <2>2. Idle.pc = "idle" /\ Idle.rows = {} /\ LocalOK(prov, Idle) /\ ScopedOK(Idle)
      BY DEF Idle, LocalOK, ScopedOK
    <2> QED BY <2>1, <2>2, Constants
  <1>5. CASE Repos[l.row.prov] = {} /\ l.rows # {}
    <2> DEFINE m == [l EXCEPT !.pc = "rows"]
    <2>1. BeginSync(l) = m
      BY <1>5 DEF BeginSync
    <2>2. m \in Locals /\ m.pc = "rows" /\ m.rows = l.rows /\ m.blind = l.blind /\ m.ctx = l.ctx
      BY DEF Locals
    <2> HIDE DEF m
    <2>3. LocalOK(prov, m) /\ ScopedOK(m)
      BY <1>5, <2>2 DEF LocalOK, ScopedOK
    <2> QED BY <2>1, <2>2, <2>3
  <1> QED BY <1>3, <1>4, <1>5

\* UpsertInstallation of a callback: one row of the table is written, and the
\* tenant has been told unless the write failed.
LEMMA SaveEffect ==
    ASSUME LInv, NEW q \in Reqs, SaveInstallation(q)
    PROVE  \E m :
              /\ req[q].pc = "save" /\ Moves(q, m) /\ m.pc = "dedupe" /\ m.rows = req[q].rows
              /\ installs' = UpsertInstallation(installs, req[q].row, now) /\ now' = now + 1
              /\ told' = told \/ ( /\ ~UpsertFails(installs, req[q].row)
                                   /\ req[q].row.inst # NoId
                                   /\ told' = told \cup {<<prov, req[q].row.inst, req[q].row.tenant>>} )
              /\ UNCHANGED <<namespaces, issued, accepted, aged, hooks, spent, stale, orphaned>>
  <1> DEFINE l == req[q]
             w == l.warn \/ UpsertFails(installs, l.row)
             m == [l EXCEPT !.pc = "dedupe", !.warn = w]
  <1>1. l \in Locals /\ LocalOK(prov, l) /\ ScopedOK(l) /\ l.pc = "save"
    BY RequestTyped DEF SaveInstallation, At
  <1>2. req' = [req EXCEPT ![q] = m]
    BY DEF SaveInstallation, Become
  <1>3. w \in BOOLEAN
    BY <1>1 DEF Locals, UpsertFails
  <1>4. /\ m \in Locals /\ m.pc = "dedupe" /\ m.rows = l.rows /\ m.row = l.row /\ m.blind = l.blind
        /\ m.ctx = l.ctx
    <2> HIDE DEF l, w
    <2> QED BY <1>1, <1>3 DEF Locals
  <1>5. m.warn = w
    <2> HIDE DEF l, w
    <2> QED BY <1>1, <1>3 DEF Locals
  <1>6. LocalOK(prov, m) /\ ScopedOK(m)
    <2> HIDE DEF m, l
    <2> QED BY <1>1, <1>4 DEF LocalOK, ScopedOK
  <1>7. req'[q] = m
    <2> HIDE DEF m
    <2> QED BY <1>2 DEF LInv, TypeOK
  <1>8. told' = told \/ ( /\ ~UpsertFails(installs, l.row)
                          /\ l.row.inst # NoId
                          /\ told' = told \cup {<<prov, l.row.inst, l.row.tenant>>} )
    <2>1. told' = IF m.warn \/ l.row.inst = NoId THEN told
                  ELSE told \cup {<<l.row.prov, l.row.inst, l.row.tenant>>}
      BY <1>7 DEF SaveInstallation
    <2>2. l.row.prov = prov
      BY <1>1 DEF LocalOK
    <2> HIDE DEF l, m
    <2> QED BY <1>5, <2>1, <2>2 DEF w
  <1>9. /\ installs' = UpsertInstallation(installs, l.row, now) /\ now' = now + 1
        /\ UNCHANGED <<namespaces, issued, accepted, aged, hooks, spent, stale, orphaned>>
    BY DEF SaveInstallation, remote
  <1> HIDE DEF m
  <1> QED BY <1>1, <1>2, <1>4, <1>6, <1>8, <1>9 DEF Moves

\* DedupeInstallations deletes rows of the tenant of the callback only, and the
\* handler goes on to the sync or ends.
LEMMA DedupeEffect ==
    ASSUME LInv, NEW q \in Reqs, DedupeAndAnswer(q)
    PROVE  \E m :
              /\ req[q].pc = "dedupe" /\ Moves(q, m)
              /\ m.pc \in {"get", "rows", "idle"} /\ m.rows \subseteq req[q].rows
              /\ installs' \subseteq installs
              /\ \A r \in installs \ installs' : InScope(req[q].ctx, r.tenant)
              /\ orphaned' = orphaned \cup {Owner(d) : d \in installs \ installs'}
              /\ told' = Forget(installs \ installs')
              /\ UNCHANGED <<namespaces, now, issued, accepted, aged, hooks, spent, stale>>
  <1> DEFINE l == req[q]
             m == BeginSync(l)
             gone == Duplicates(installs, l.ctx, l.row.prov, l.row.acct, l.row.key, l.row.inst)
  <1>1. l \in Locals /\ LocalOK(prov, l) /\ ScopedOK(l) /\ l.pc = "dedupe"
    BY RequestTyped DEF DedupeAndAnswer, At
  <1>2. /\ m \in Locals /\ LocalOK(prov, m) /\ ScopedOK(m)
        /\ m.pc \in {"get", "rows", "idle"} /\ m.rows \subseteq l.rows
    <2> HIDE DEF l
    <2> QED BY <1>1, BeginSyncOK DEF LocalOK, ScopedOK
  <1>3. /\ req' = [req EXCEPT ![q] = m]
        /\ orphaned' = orphaned \cup {Owner(d) : d \in installs \ installs'}
        /\ told' = Forget(installs \ installs')
        /\ UNCHANGED <<namespaces, now, issued, accepted, aged, hooks, spent, stale>>
    BY DEF DedupeAndAnswer, Become, remote
  <1>4. installs' = {r \in installs :
                \A d \in gone : r \in DeleteInstallation({r}, l.ctx, d.prov, d.acct, d.inst, d.key)}
    BY DEF DedupeAndAnswer
  <1>5. \A r \in installs \ installs' : InScope(l.ctx, r.tenant)
    BY <1>4 DEF DeleteInstallation
  <1> HIDE DEF m
  <1> QED BY <1>1, <1>2, <1>3, <1>4, <1>5 DEF Moves

\* GetSCMClient takes a row that is in the table to the refresh.
LEMMA GetSCMClientEffect ==
    ASSUME LInv, NEW q \in Reqs, NEW t \in TenantIds, NEW i \in Ids, NEW k \in Keys \cup {NoId},
           GetSCMClient(q, prov, t, i, k)
    PROVE  \E m :
              /\ req[q] = Idle /\ Moves(q, m)
              /\ m.pc = "refresh" /\ m.row \in installs /\ m.rows = {} /\ ~m.blind
              /\ UNCHANGED <<installs, namespaces, now, issued, accepted, aged, hooks, spent, stale, told, orphaned>>
  <1>1. PICK row \in resolveInstallation(installs, t, prov, i, k) :
           Become(q, [Idle EXCEPT !.pc = "refresh", !.ctx = t, !.row = row])
    BY DEF GetSCMClient
  <1>2. row \in installs /\ InScope(t, row.tenant) /\ row \in InstallRows /\ row.prov = prov
    BY DEF resolveInstallation, GetInstallationByInstallationID, Latest,
           GetInstallationByInstallationIDAndInstanceKey, LInv, TypeOK
  <1> DEFINE m == [Idle EXCEPT !.pc = "refresh", !.ctx = t, !.row = row]
  <1>3. m.pc = "refresh" /\ m.row = row /\ m.rows = {} /\ m.blind = FALSE /\ m.ctx = t
    BY DEF Idle
  <1>4. m \in Locals
    BY <1>2, Constants DEF Locals
  <1>5. req[q] = Idle /\ prov # "github"
        /\ UNCHANGED <<installs, namespaces, now, issued, accepted, aged, hooks, spent, stale, told, orphaned>>
    BY DEF GetSCMClient, Start, table, remote, history
  <1>6. req' = [req EXCEPT ![q] = m]
    BY <1>1 DEF Become
  <1> HIDE DEF m
  <1>7. LocalOK(prov, m) /\ ScopedOK(m)
    BY <1>2, <1>3, <1>5 DEF LocalOK, ScopedOK, InScope
  <1> QED BY <1>2, <1>3, <1>4, <1>5, <1>6, <1>7 DEF Moves

\* The exchange: the provider takes back the token of a rotating provider and
\* issues the one that the request holds now; the index of the row is kept.
LEMMA RefreshEffect ==
    ASSUME LInv, NEW q \in Reqs, Refresh(q)
    PROVE  \E m :
              /\ req[q].pc = "refresh" /\ Moves(q, m) /\ req[q].row.ref \in accepted
              /\ m.pc = "persist" /\ m.rows = req[q].rows /\ ~m.blind
              /\ InstallIndex(m.row) = InstallIndex(req[q].row) /\ m.row.at = req[q].row.at
              /\ m.row.ref = IF prov \in Rotating THEN issued + 1 ELSE req[q].row.ref
              /\ issued' = issued + 1
              /\ accepted' = IF prov \in Rotating THEN (accepted \ {req[q].row.ref}) \cup {issued + 1}
                             ELSE accepted
              /\ UNCHANGED <<installs, namespaces, now, aged, hooks, spent, stale, told, orphaned>>
  <1> DEFINE l == req[q]
             ref == IF l.row.prov \in Rotating THEN issued + 1 ELSE 0
             row == RefreshedRow(l.row, issued + 1, ref)
             m == [l EXCEPT !.pc = "persist", !.row = row]
  <1>1. l \in Locals /\ LocalOK(prov, l) /\ ScopedOK(l) /\ l.pc = "refresh"
    BY RequestTyped DEF Refresh, At
  <1>2. l.row.prov = prov /\ l.row \in InstallRows /\ issued \in Nat
    BY <1>1 DEF LocalOK, Locals, LInv, TypeOK
  <1>3. issued' = issued + 1
    BY DEF Refresh, Exchange
  <1>4. req' = [req EXCEPT ![q] = m]
    BY <1>3 DEF Refresh, Become
  <1>5. /\ l.row.ref \in accepted
        /\ accepted' = IF prov \in Rotating THEN (accepted \ {l.row.ref}) \cup {issued + 1} ELSE accepted
        /\ UNCHANGED <<installs, namespaces, now, aged, hooks, spent, stale, told, orphaned>>
    BY <1>2, <1>3 DEF Refresh, Exchange, table, history
  <1>6. /\ row \in InstallRows /\ row.tenant = l.row.tenant /\ row.prov = l.row.prov
        /\ row.acct = l.row.acct /\ row.inst = l.row.inst /\ row.key = l.row.key /\ row.at = l.row.at
        /\ row.ref = IF prov \in Rotating THEN issued + 1 ELSE l.row.ref
    <2> DEFINE o == l.row
               n == issued + 1
    <2>1. o \in InstallRows /\ n \in Nat /\ n # 0 /\ ref \in {0, n} /\ (ref = n <=> prov \in Rotating)
      BY <1>2
    <2> HIDE DEF o, n, ref
    <2>2. LET z == [o EXCEPT !.acc = n, !.ref = IF ref = 0 THEN @ ELSE ref]
          IN  /\ z \in InstallRows /\ z.tenant = o.tenant /\ z.prov = o.prov
              /\ z.acct = o.acct /\ z.inst = o.inst /\ z.key = o.key /\ z.at = o.at
              /\ z.ref = IF prov \in Rotating THEN n ELSE o.ref
      BY <2>1 DEF InstallRows
    <2> QED BY <2>2 DEF RefreshedRow, o, n
  <1>7. /\ m \in Locals /\ m.pc = "persist" /\ m.rows = l.rows /\ m.row = row /\ m.blind = l.blind
        /\ m.ctx = l.ctx
    <2> HIDE DEF l, row
    <2> QED BY <1>1, <1>6 DEF Locals
  <1>8. InstallIndex(m.row) = InstallIndex(l.row)
    <2> HIDE DEF m, row
    <2> QED BY <1>6, <1>7 DEF InstallIndex
  <1> HIDE DEF m, row
  <1>9. LocalOK(prov, m) /\ ScopedOK(m) /\ ~m.blind
    <2> HIDE DEF l
    <2> QED BY <1>1, <1>2, <1>6, <1>7 DEF LocalOK, ScopedOK
  <1> QED BY <1>1, <1>3, <1>4, <1>5, <1>6, <1>7, <1>8, <1>9 DEF Moves

\* An exchange that fails ends the request; when only the answer was lost, the
\* provider has exchanged the token all the same, which the ghost spent notes.
LEMMA RefreshFailsEffect ==
    ASSUME LInv, NEW q \in Reqs, RefreshFails(q)
    PROVE  /\ req[q].pc = "refresh" /\ Moves(q, Idle)
           /\ \/ UNCHANGED <<issued, accepted, spent>>
              \/ /\ issued' = issued + 1
                 /\ IF prov \in Rotating
                    THEN /\ accepted' = (accepted \ {req[q].row.ref}) \cup {issued + 1}
                         /\ spent' = spent \cup {req[q].row.ref}
                    ELSE UNCHANGED <<accepted, spent>>
           /\ UNCHANGED <<installs, namespaces, now, aged, hooks, stale, told, orphaned>>
  <1>1. req[q].pc = "refresh" /\ req[q].row.prov = prov
    BY RequestTyped DEF RefreshFails, At, LocalOK
  <1>2. Moves(q, Idle)
    BY IdleEffect DEF RefreshFails
  <1>3. CASE UNCHANGED <<remote, faults, spent>>
    BY <1>1, <1>2, <1>3 DEF RefreshFails, table, remote
  <1>4. CASE Exchange(req[q].row.prov, req[q].row.ref)
             /\ spent' = (IF req[q].row.prov \in Rotating THEN spent \cup {req[q].row.ref} ELSE spent)
             /\ UNCHANGED <<aged, hooks>>
    BY <1>1, <1>2, <1>4 DEF RefreshFails, Exchange, table
  <1> QED BY <1>3, <1>4 DEF RefreshFails

\* The write of the refreshed row, or its failure; spent notes the tokens that
\* are lost by it.
LEMMA PersistEffect ==
    ASSUME LInv, NEW q \in Reqs, Persist(q)
    PROVE  \E m :
              LET l == req[q]
                  cur == {s \in installs : InstallIndex(s) = InstallIndex(l.row)}
              IN  /\ l.pc = "persist" /\ Moves(q, m)
                  /\ m.pc \in {"get", "rows", "idle"} /\ m.rows \subseteq l.rows
                  /\ \/ /\ installs' = UpsertInstallation(installs, l.row, now)
                        /\ now' = now + 1
                        /\ spent' = IF l.blind /\ \A s \in cur : s.at # l.row.at
                                    THEN spent \cup {l.row.ref} ELSE spent
                     \/ /\ spent' = spent \cup {s.ref : s \in cur}
                        /\ UNCHANGED <<installs, now>>
                  /\ UNCHANGED <<namespaces, issued, accepted, aged, hooks, stale, told, orphaned>>
  <1> DEFINE l == req[q]
             m == IF l.sync THEN BeginSync(l) ELSE Idle
             cur == {s \in installs : InstallIndex(s) = InstallIndex(l.row)}
  <1>1. l \in Locals /\ LocalOK(prov, l) /\ ScopedOK(l) /\ l.pc = "persist"
    BY RequestTyped DEF Persist, At
  <1>2. /\ m \in Locals /\ LocalOK(prov, m) /\ ScopedOK(m)
        /\ m.pc \in {"get", "rows", "idle"} /\ m.rows \subseteq l.rows
    <2>1. CASE l.sync
      <3> HIDE DEF l
      <3> QED BY <1>1, <2>1, BeginSyncOK DEF LocalOK, ScopedOK
    <2>2. CASE ~l.sync
      <3>1. Idle.pc = "idle" /\ Idle.rows = {} /\ LocalOK(prov, Idle) /\ ScopedOK(Idle)
        BY DEF Idle, LocalOK, ScopedOK
      <3> QED BY <2>2, <3>1, Constants
    <2> QED BY <2>1, <2>2
  <1>3. req' = [req EXCEPT ![q] = m]
    BY DEF Persist, Become
  <1>4. /\ \/ /\ installs' = UpsertInstallation(installs, l.row, now)
              /\ now' = now + 1
              /\ spent' = IF l.blind /\ \A s \in cur : s.at # l.row.at
                          THEN spent \cup {l.row.ref} ELSE spent
           \/ /\ spent' = spent \cup {s.ref : s \in cur}
              /\ UNCHANGED <<installs, now>>
        /\ UNCHANGED <<namespaces, issued, accepted, aged, hooks, stale, told, orphaned>>
    BY DEF Persist, remote
  <1> HIDE DEF m
  <1> QED BY <1>1, <1>2, <1>3, <1>4 DEF Moves

\* SyncNamespaces starts with rows that are in the table.
LEMMA SyncEffect ==
    ASSUME LInv, NEW q \in Reqs, NEW t \in TenantIds, NEW a \in {NoId, "org"},
           SyncNamespaces(q, prov, t, a)
    PROVE  \E m :
              /\ req[q] = Idle /\ Moves(q, m) /\ m.pc = "rows" /\ m.rows \subseteq installs
              /\ UNCHANGED <<installs, namespaces, now, issued, accepted, aged, hooks, spent, stale, told, orphaned>>
  <1> DEFINE rows == installationsForSync(installs, t, prov, a)
             m == [Idle EXCEPT !.pc = "rows", !.ctx = t, !.rows = rows]
  <1>1. rows \subseteq installs /\ \A r \in rows : InScope(t, r.tenant)
    BY DEF installationsForSync, latestInstallation, Latest, ListInstallations
  <1>2. rows \subseteq InstallRows /\ \A r \in rows : r.prov = prov
    BY <1>1 DEF LInv, TypeOK
  <1>3. req[q] = Idle /\ prov # "github" /\ req' = [req EXCEPT ![q] = m]
        /\ UNCHANGED <<installs, namespaces, now, issued, accepted, aged, hooks, spent, stale, told, orphaned>>
    BY DEF SyncNamespaces, Start, Become, table, remote, history
  <1> HIDE DEF rows
  <1>4. m.pc = "rows" /\ m.rows = rows /\ m.blind = FALSE /\ m.ctx = t /\ m \in Locals
    <2>1. m.pc = "rows" /\ m.rows = rows /\ m.blind = FALSE /\ m.ctx = t
      BY DEF Idle
    <2> QED BY <1>2, <2>1, Constants DEF Locals
  <1> HIDE DEF m
  <1>5. LocalOK(prov, m) /\ ScopedOK(m)
    BY <1>1, <1>2, <1>3, <1>4 DEF LocalOK, ScopedOK, InScope
  <1> QED BY <1>1, <1>3, <1>4, <1>5 DEF Moves

\* The loop over the installations refreshes a row, writes it back as it has
\* read it, lists its repositories or ends.
LEMMA NextInstallationEffect ==
    ASSUME LInv, NEW q \in Reqs, NEW row \in req[q].rows, NextInstallation(q, row)
    PROVE  \E m :
              /\ req[q].pc = "rows" /\ Moves(q, m) /\ m.rows \subseteq req[q].rows
              /\ m.pc \in {"get", "rows", "idle", "refresh", "persist"}
              /\ m.pc \in {"refresh", "persist"} => m.row = row
              /\ m.pc = "persist" => m.blind
              /\ UNCHANGED <<installs, namespaces, now, issued, accepted, aged, hooks, spent, stale, told, orphaned>>
  <1> DEFINE o == req[q]
             l == [o EXCEPT !.row = row, !.rows = @ \ {row}, !.sync = TRUE]
  <1>1. o \in Locals /\ LocalOK(prov, o) /\ ScopedOK(o) /\ o.pc = "rows" /\ prov \in Provs
    BY RequestTyped DEF NextInstallation, At
  <1>2. row \in InstallRows /\ row.prov = prov /\ prov # "github"
    BY <1>1 DEF Locals, LocalOK
  <1>3. /\ l \in Locals /\ l.row = row /\ l.rows = o.rows \ {row} /\ l.blind = o.blind
        /\ l.ctx = o.ctx
    <2> HIDE DEF o
    <2> QED BY <1>1, <1>2 DEF Locals
  <1>4. \/ req' = [req EXCEPT ![q] = Idle]
        \/ req' = [req EXCEPT ![q] = BeginSync(l)]
        \/ row.prov \in HookProvs /\ req' = [req EXCEPT ![q] = [l EXCEPT !.pc = "refresh"]]
        \/ row.prov \notin HookProvs
           /\ req' = [req EXCEPT ![q] = [l EXCEPT !.pc = "persist", !.blind = TRUE]]
    BY DEF NextInstallation, Become, End
  <1>5. UNCHANGED <<installs, namespaces, now, issued, accepted, aged, hooks, spent, stale, told, orphaned>>
    BY DEF NextInstallation, table, remote, history
  <1>6. /\ \A r \in l.rows : r.prov = prov
        /\ l.blind => prov \notin HookProvs
        /\ l.ctx # NoTenant => row.tenant = l.ctx /\ \A r \in l.rows : r.tenant = l.ctx
    <2> HIDE DEF o, l
    <2> QED BY <1>1, <1>3 DEF LocalOK, ScopedOK, o
  <1> HIDE DEF l
  <1>7. CASE req' = [req EXCEPT ![q] = Idle]
    <2>1. Idle.pc = "idle" /\ Idle.rows = {} /\ LocalOK(prov, Idle) /\ ScopedOK(Idle)
      BY DEF Idle, LocalOK, ScopedOK
    <2> QED BY <1>1, <1>5, <1>7, <2>1, Constants DEF Moves
  <1>8. CASE req' = [req EXCEPT ![q] = BeginSync(l)]
    <2> DEFINE m == BeginSync(l)
    <2>1. /\ m \in Locals /\ LocalOK(prov, m) /\ ScopedOK(m)
          /\ m.pc \in {"get", "rows", "idle"} /\ m.rows \subseteq l.rows
      BY <1>2, <1>3, <1>6, BeginSyncOK
    <2> HIDE DEF m
    <2> QED BY <1>1, <1>3, <1>5, <1>8, <2>1 DEF Moves, m
  <1>9. CASE row.prov \in HookProvs /\ req' = [req EXCEPT ![q] = [l EXCEPT !.pc = "refresh"]]
    <2> DEFINE m == [l EXCEPT !.pc = "refresh"]
    <2>1. /\ m \in Locals /\ m.pc = "refresh" /\ m.row = row /\ m.rows = l.rows /\ m.blind = l.blind
          /\ m.ctx = l.ctx
      BY <1>3 DEF Locals
    <2>2. req' = [req EXCEPT ![q] = m]
      BY <1>9
    <2> HIDE DEF m
    <2>3. LocalOK(prov, m) /\ ScopedOK(m)
      BY <1>2, <1>6, <1>9, <2>1 DEF LocalOK, ScopedOK
    <2> QED BY <1>1, <1>3, <1>5, <2>1, <2>2, <2>3 DEF Moves
  <1>10. CASE /\ row.prov \notin HookProvs
              /\ req' = [req EXCEPT ![q] = [l EXCEPT !.pc = "persist", !.blind = TRUE]]
    <2> DEFINE m == [l EXCEPT !.pc = "persist", !.blind = TRUE]
    <2>1. /\ m \in Locals /\ m.pc = "persist" /\ m.row = row /\ m.rows = l.rows /\ m.blind = TRUE
          /\ m.ctx = l.ctx
      BY <1>3 DEF Locals
    <2>2. req' = [req EXCEPT ![q] = m]
      BY <1>10
    <2> HIDE DEF m
    <2>3. LocalOK(prov, m) /\ ScopedOK(m)
      BY <1>2, <1>6, <1>10, <2>1 DEF LocalOK, ScopedOK
    <2> QED BY <1>1, <1>3, <1>5, <2>1, <2>2, <2>3 DEF Moves
  <1> QED BY <1>4, <1>7, <1>8, <1>9, <1>10

\* ListFails and InstallEventDone end a request.
LEMMA EndEffect ==
    ASSUME LInv, NEW q \in Reqs, ListFails(q) \/ InstallEventDone(q)
    PROVE  /\ req[q].pc = "get" \/ (req[q].pc = "repos" /\ req[q].drop = {})
           /\ Moves(q, Idle)
           /\ UNCHANGED <<installs, namespaces, now, issued, accepted, aged, hooks, spent, stale, told, orphaned>>
  <1>1. Moves(q, Idle)
    BY IdleEffect DEF ListFails, InstallEventDone
  <1> QED BY <1>1 DEF ListFails, InstallEventDone, At, table, remote, history

\* The lookup before the write of a namespace holds a record of the table.
LEMMA ReadNamespaceEffect ==
    ASSUME LInv, NEW q \in Reqs, NEW r \in req[q].todo, ReadNamespace(q, r)
    PROVE  \E m :
              /\ req[q].pc = "get" /\ Moves(q, m) /\ m.pc = "put" /\ m.rows = req[q].rows
              /\ m.ns = NoNs \/ m.ns \in namespaces
              /\ UNCHANGED <<installs, namespaces, now, issued, accepted, aged, hooks, spent, stale, told, orphaned>>
  <1> DEFINE l == req[q]
             found == GetNamespace(namespaces, l.ctx, l.row.prov, r, l.row.key)
  <1>1. l \in Locals /\ LocalOK(prov, l) /\ ScopedOK(l) /\ l.pc = "get"
    BY RequestTyped DEF ReadNamespace, At
  <1>2. PICK n \in IF found = {} THEN {NoNs} ELSE found :
           req' = [req EXCEPT ![q] = [l EXCEPT !.pc = "put", !.ns = n, !.todo = @ \ {r}, !.drop = {r}]]
    BY DEF ReadNamespace, Become
  <1>3. n = NoNs \/ (n \in namespaces /\ n.repo = r /\ n.prov = prov)
    BY <1>1 DEF GetNamespace, LInv, TypeOK
  <1>4. n \in NamespaceRows /\ r \in AllRepos
    BY <1>1, <1>3, Constants DEF LInv, TypeOK, Locals
  <1> DEFINE m == [l EXCEPT !.pc = "put", !.ns = n, !.todo = @ \ {r}, !.drop = {r}]
  <1>5. /\ m \in Locals /\ m.pc = "put" /\ m.rows = l.rows /\ m.row = l.row /\ m.ns = n
        /\ m.drop = {r} /\ m.blind = l.blind /\ m.ctx = l.ctx
    <2> HIDE DEF l
    <2> QED BY <1>1, <1>4 DEF Locals
  <1>6. req' = [req EXCEPT ![q] = m]
    BY <1>2
  <1> HIDE DEF m
  <1>7. LocalOK(prov, m) /\ ScopedOK(m)
    <2> HIDE DEF l
    <2> QED BY <1>1, <1>3, <1>4, <1>5 DEF LocalOK, ScopedOK
  <1>8. UNCHANGED <<installs, namespaces, now, issued, accepted, aged, hooks, spent, stale, told, orphaned>>
    BY DEF ReadNamespace, table, remote, history
  <1> QED BY <1>1, <1>3, <1>5, <1>6, <1>7, <1>8 DEF Moves

\* The write of a namespace keeps the switch that was read; stale notes that
\* the record is not the one that was read, orphaned that it has no owner.
LEMMA WriteNamespaceEffect ==
    ASSUME LInv, NEW q \in Reqs, WriteNamespace(q)
    PROVE  \E m : \E n \in NamespaceRows :
              LET l == req[q]
                  before == {s \in namespaces : NamespaceRecordID(s) = NamespaceRecordID(n)}
              IN  /\ l.pc = "put" /\ Moves(q, m)
                  /\ m.pc \in {"get", "rows", "idle"} /\ m.rows \subseteq l.rows
                  /\ n.tenant = l.ctx /\ n.prov = prov /\ n.repo \in l.drop /\ n.repo \in AllRepos
                  /\ prov \in HookProvs => n.on = (IF l.ns = NoNs THEN FALSE ELSE l.ns.on)
                  /\ namespaces' = UpsertNamespace(namespaces, n)
                  /\ stale' = IF before \subseteq {l.ns} THEN stale ELSE stale \cup {n.repo}
                  /\ orphaned' = IF \E r \in installs : Owner(r) = Owner(n) THEN orphaned
                                 ELSE orphaned \cup {Owner(n)}
                  /\ UNCHANGED <<installs, now, issued, accepted, aged, hooks, spent, told>>
  <1> DEFINE l == req[q]
             on == existingWebhooks(l.ns, l.row.prov = "github")
             n == Record(l, on)
             before == {s \in namespaces : NamespaceRecordID(s) = NamespaceRecordID(n)}
             m == IF l.todo # {} THEN [l EXCEPT !.pc = "get", !.ns = NoNs, !.drop = {}]
                  ELSE IF l.rows = {} THEN Idle
                  ELSE [l EXCEPT !.pc = "rows", !.ns = NoNs, !.drop = {}]
  <1>1. /\ l \in Locals /\ LocalOK(prov, l) /\ ScopedOK(l) /\ l.pc = "put" /\ prov \in Provs
        /\ prov \in {"github", "gitlab", "bitbucket", "slack", "atlassian"}
    BY RequestTyped DEF WriteNamespace, At
  <1>2. PICK r \in AllRepos : l.drop = {r}
    BY <1>1 DEF LocalOK
  <1>3. l.row.prov = prov
    BY <1>1 DEF LocalOK
  <1>4. /\ n = (CASE l.row.prov = "github" -> SyncGitHubNamespaces(l)
                [] l.row.prov = "gitlab" -> SyncGitLabNamespaces(l)
                [] OTHER -> SyncBitbucketNamespaces(l))
    BY DEF SyncGitHubNamespaces, SyncGitLabNamespaces, SyncBitbucketNamespaces
  <1>5. on \in BOOLEAN
    <2>1. l.ns.on \in BOOLEAN
      BY <1>1 DEF Locals, NamespaceRows
    <2> QED BY <2>1 DEF existingWebhooks
  <1>6. /\ n \in NamespaceRows /\ n.tenant = l.ctx /\ n.prov = prov /\ n.repo = r /\ n.on = on
    <2>1. (CHOOSE x \in l.drop : TRUE) = r
      BY <1>2
    <2>2. /\ l.ctx \in TenantIds \cup {NoTenant} /\ l.row.key \in Keys \cup {NoId}
          /\ l.row.acct \in {NoId, "org", "host", "cloud"} /\ l.row.inst \in Ids
      BY <1>1 DEF Locals, InstallRows
    <2> HIDE DEF l, on
    <2> QED BY <1>1, <1>3, <1>5, <2>1, <2>2 DEF Record, NamespaceRows
  <1>7. prov \in HookProvs => n.on = (IF l.ns = NoNs THEN FALSE ELSE l.ns.on)
    <2> SUFFICES ASSUME prov \in HookProvs
                 PROVE  n.on = (IF l.ns = NoNs THEN FALSE ELSE l.ns.on)
      OBVIOUS
    <2>1. ~(l.row.prov = "github")
      BY <1>3 DEF HookProvs
    <2>2. on = (IF l.ns = NoNs THEN FALSE ELSE l.ns.on)
      BY <2>1 DEF existingWebhooks
    <2> QED BY <1>6, <2>2
  <1>8. /\ namespaces' = UpsertNamespace(namespaces, n)
        /\ stale' = IF before \subseteq {l.ns} THEN stale ELSE stale \cup {n.repo}
        /\ orphaned' = IF \E s \in installs : Owner(s) = Owner(n) THEN orphaned
                       ELSE orphaned \cup {Owner(n)}
        /\ UNCHANGED <<installs, now, issued, accepted, aged, hooks, spent, told>>
    <2> HIDE DEF n
    <2> QED BY <1>4 DEF WriteNamespace, remote
  <1>9. req' = [req EXCEPT ![q] = m]
    BY DEF WriteNamespace, Become
  <1>10. /\ m \in Locals /\ m.pc \in {"get", "rows", "idle"} /\ m.rows \subseteq l.rows
         /\ LocalOK(prov, m) /\ ScopedOK(m)
    <2>1. CASE l.todo # {}
      <3> DEFINE k == [l EXCEPT !.pc = "get", !.ns = NoNs, !.drop = {}]
      <3>1. /\ k \in Locals /\ k.pc = "get" /\ k.rows = l.rows /\ k.row = l.row
            /\ k.blind = l.blind /\ k.ctx = l.ctx
        <4> HIDE DEF l
        <4> QED BY <1>1, Constants DEF Locals
      <3>2. m = k
        BY <2>1
      <3> HIDE DEF k, m, l
      <3> QED BY <1>1, <3>1, <3>2 DEF LocalOK, ScopedOK
    <2>2. CASE l.todo = {} /\ l.rows = {}
      <3>1. Idle.pc = "idle" /\ Idle.rows = {} /\ LocalOK(prov, Idle) /\ ScopedOK(Idle)
        BY DEF Idle, LocalOK, ScopedOK
      <3> QED BY <2>2, <3>1, Constants
    <2>3. CASE l.todo = {} /\ l.rows # {}
      <3> DEFINE k == [l EXCEPT !.pc = "rows", !.ns = NoNs, !.drop = {}]
      <3>1. /\ k \in Locals /\ k.pc = "rows" /\ k.rows = l.rows
            /\ k.blind = l.blind /\ k.ctx = l.ctx
        <4> HIDE DEF l
        <4> QED BY <1>1, Constants DEF Locals
      <3>2. m = k
        BY <2>3
      <3> HIDE DEF k, m, l
      <3> QED BY <1>1, <2>3, <3>1, <3>2 DEF LocalOK, ScopedOK
    <2> QED BY <2>1, <2>2, <2>3
  <1> HIDE DEF m, n
  <1>11. n.repo \in l.drop /\ n.repo \in AllRepos
    BY <1>2, <1>6
  <1> QED BY <1>1, <1>6, <1>7, <1>8, <1>9, <1>10, <1>11 DEF Moves

\* SetNamespaceWebhook holds a record of the table.
LEMMA SetNamespaceWebhookEffect ==
    ASSUME LInv, NEW q \in Reqs, NEW t \in TenantIds, NEW r \in Repos[prov], NEW want \in BOOLEAN,
           SetNamespaceWebhook(q, prov, t, r, want)
    PROVE  \E m :
              /\ req[q] = Idle /\ Moves(q, m) /\ m.pc = "hooks" /\ m.rows = {} /\ m.ns \in namespaces
              /\ UNCHANGED <<installs, namespaces, now, issued, accepted, aged, hooks, spent, stale, told, orphaned>>
  <1>1. PICK n \in GetNamespace(namespaces, t, prov, r, NoId) :
           req' = [req EXCEPT ![q] = [Idle EXCEPT !.pc = "hooks", !.ctx = t, !.ns = n, !.want = want]]
    BY DEF SetNamespaceWebhook, Become
  <1>2. n \in namespaces /\ InScope(t, n.tenant) /\ n \in NamespaceRows /\ n.prov = prov /\ n.repo \in AllRepos
    BY DEF GetNamespace, LInv, TypeOK
  <1> DEFINE m == [Idle EXCEPT !.pc = "hooks", !.ctx = t, !.ns = n, !.want = want]
  <1>3. m.pc = "hooks" /\ m.rows = {} /\ m.ns = n /\ m.blind = FALSE /\ m.ctx = t
    BY DEF Idle
  <1>4. m \in Locals
    BY <1>2, Constants DEF Locals
  <1>5. /\ req[q] = Idle /\ prov \in HookProvs
        /\ UNCHANGED <<installs, namespaces, now, issued, accepted, aged, hooks, spent, stale, told, orphaned>>
    BY DEF SetNamespaceWebhook, Start, table, remote, history
  <1>6. req' = [req EXCEPT ![q] = m]
    BY <1>1
  <1> HIDE DEF m
  <1>7. LocalOK(prov, m) /\ ScopedOK(m)
    BY <1>2, <1>3, <1>5 DEF LocalOK, ScopedOK, InScope
  <1> QED BY <1>2, <1>3, <1>4, <1>5, <1>6, <1>7 DEF Moves

\* Listing the hooks of the provider changes neither table.
LEMMA ListHooksEffect ==
    ASSUME LInv, NEW q \in Reqs, ListHooks(q)
    PROVE  \E m :
              /\ req[q].pc = "hooks" /\ Moves(q, m) /\ m.rows \subseteq req[q].rows
              /\ \/ m.pc = "idle"
                 \/ m.pc = "hook" /\ m.ns = req[q].ns /\ m.want = req[q].want
              /\ UNCHANGED <<installs, namespaces, now, issued, accepted, aged, hooks, spent, stale, told, orphaned>>
  <1> DEFINE l == req[q]
             seen == hooks[l.ns.repo] > 0
             m == [l EXCEPT !.pc = "hook", !.seen = seen]
  <1>1. l \in Locals /\ LocalOK(prov, l) /\ ScopedOK(l) /\ l.pc = "hooks"
    BY RequestTyped DEF ListHooks, At
  <1>2. UNCHANGED <<installs, namespaces, now, issued, accepted, aged, hooks, spent, stale, told, orphaned>>
    BY DEF ListHooks, table, remote, history
  <1>3. CASE End(q)
    <2>1. Idle.pc = "idle" /\ Idle.rows = {}
      BY DEF Idle
    <2> QED BY <1>1, <1>2, <1>3, <2>1, IdleEffect
  <1>4. CASE Become(q, m)
    <2>1. /\ m \in Locals /\ m.pc = "hook" /\ m.rows = l.rows /\ m.ns = l.ns
          /\ m.blind = l.blind /\ m.ctx = l.ctx /\ m.want = l.want
      <3>1. seen \in BOOLEAN
        OBVIOUS
      <3> HIDE DEF l, seen
      <3> QED BY <1>1, <3>1 DEF Locals
    <2>2. req' = [req EXCEPT ![q] = m]
      BY <1>4 DEF Become
    <2> HIDE DEF m
    <2>3. LocalOK(prov, m) /\ ScopedOK(m)
      <3> HIDE DEF l
      <3> QED BY <1>1, <2>1 DEF LocalOK, ScopedOK
    <2> QED BY <1>1, <1>2, <2>1, <2>2, <2>3 DEF Moves
  <1> QED BY <1>3, <1>4 DEF ListHooks

\* At most one hook is created or deleted, on the word of the listing.
LEMMA ChangeHooksEffect ==
    ASSUME LInv, NEW q \in Reqs, ChangeHooks(q)
    PROVE  \E m :
              LET l == req[q]
                  h == hooks[l.ns.repo]
                  add == l.want /\ ~l.seen
                  del == ~l.want /\ l.seen
              IN  /\ l.pc = "hook" /\ Moves(q, m) /\ m.rows \subseteq l.rows
                  /\ \/ /\ m.pc = "switch" /\ m.ns = l.ns /\ m.want = l.want /\ ~(del /\ h = 0)
                        /\ hooks' = [hooks EXCEPT ![l.ns.repo] =
                                        IF add THEN @ + 1 ELSE IF del THEN @ - 1 ELSE @]
                        /\ stale' = IF l.seen = (h > 0) /\ ~Overlapped(q) THEN stale
                                    ELSE stale \cup {l.ns.repo}
                     \/ m.pc = "idle" /\ UNCHANGED <<hooks, stale>>
                  /\ UNCHANGED <<installs, namespaces, now, issued, accepted, aged, spent, told, orphaned>>
  <1> DEFINE l == req[q]
             h == hooks[l.ns.repo]
             add == l.want /\ ~l.seen
             del == ~l.want /\ l.seen
             m == [l EXCEPT !.pc = "switch"]
  <1>1. l \in Locals /\ LocalOK(prov, l) /\ ScopedOK(l) /\ l.pc = "hook"
    BY RequestTyped DEF ChangeHooks, At
  <1>2. UNCHANGED <<installs, namespaces, now, issued, accepted, aged, spent, told, orphaned>>
    BY DEF ChangeHooks, table
  <1>3. CASE End(q) /\ UNCHANGED <<hooks, stale>>
    <2>1. Idle.pc = "idle" /\ Idle.rows = {}
      BY DEF Idle
    <2> QED BY <1>1, <1>2, <1>3, <2>1, IdleEffect
  <1>4. CASE /\ ~(del /\ h = 0)
             /\ hooks' = [hooks EXCEPT ![l.ns.repo] = IF add THEN @ + 1 ELSE IF del THEN @ - 1 ELSE @]
             /\ Become(q, m)
             /\ stale' = IF l.seen = (h > 0) /\ ~Overlapped(q) THEN stale ELSE stale \cup {l.ns.repo}
    <2>1. /\ m \in Locals /\ m.pc = "switch" /\ m.rows = l.rows /\ m.ns = l.ns
          /\ m.blind = l.blind /\ m.ctx = l.ctx /\ m.want = l.want
      <3> HIDE DEF l
      <3> QED BY <1>1 DEF Locals
    <2>2. req' = [req EXCEPT ![q] = m]
      BY <1>4 DEF Become
    <2> HIDE DEF m
    <2>3. LocalOK(prov, m) /\ ScopedOK(m)
      <3> HIDE DEF l
      <3> QED BY <1>1, <2>1 DEF LocalOK, ScopedOK
    <2>4. Moves(q, m)
      BY <2>1, <2>2, <2>3 DEF Moves
    <2> QED BY <1>1, <1>2, <1>4, <2>1, <2>4
  <1> QED BY <1>3, <1>4 DEF ChangeHooks

\* The switch is written to the record that was read, or the write fails.
LEMMA WriteSwitchEffect ==
    ASSUME LInv, NEW q \in Reqs, WriteSwitch(q)
    PROVE  \E n \in NamespaceRows :
              LET l == req[q]
                  before == {s \in namespaces : NamespaceRecordID(s) = NamespaceRecordID(n)}
              IN  /\ l.pc = "switch" /\ Moves(q, Idle)
                  /\ NamespaceRecordID(n) = NamespaceRecordID(l.ns)
                  /\ n.tenant = l.ns.tenant /\ n.prov = prov /\ n.repo = l.ns.repo /\ n.repo \in AllRepos
                  /\ n.on = l.want
                  /\ \/ /\ namespaces' = UpsertNamespace(namespaces, n)
                        /\ stale' = IF before = {l.ns} THEN stale ELSE stale \cup {n.repo}
                     \/ stale' = stale \cup {n.repo} /\ UNCHANGED namespaces
                  /\ UNCHANGED <<installs, now, issued, accepted, aged, hooks, spent, told, orphaned>>
  <1> DEFINE l == req[q]
             n == [l.ns EXCEPT !.on = l.want]
             before == {s \in namespaces : NamespaceRecordID(s) = NamespaceRecordID(n)}
  <1>1. l \in Locals /\ LocalOK(prov, l) /\ ScopedOK(l) /\ l.pc = "switch"
    BY RequestTyped DEF WriteSwitch, At
  <1>2. l.ns \in NamespaceRows /\ l.ns.prov = prov /\ l.ns.repo \in AllRepos /\ l.want \in BOOLEAN
    BY <1>1 DEF Locals, LocalOK
  <1>3. /\ n \in NamespaceRows /\ n.tenant = l.ns.tenant /\ n.prov = l.ns.prov /\ n.key = l.ns.key
        /\ n.repo = l.ns.repo /\ n.on = l.want
    <2> HIDE DEF l
    <2> QED BY <1>2 DEF NamespaceRows
  <1>4. NamespaceRecordID(n) = NamespaceRecordID(l.ns)
    <2> HIDE DEF n, l
    <2> QED BY <1>3 DEF NamespaceRecordID
  <1>5. Moves(q, Idle)
    BY IdleEffect DEF WriteSwitch
  <1>6. /\ \/ /\ namespaces' = UpsertNamespace(namespaces, n)
              /\ stale' = IF before = {l.ns} THEN stale ELSE stale \cup {n.repo}
           \/ stale' = stale \cup {n.repo} /\ UNCHANGED namespaces
        /\ UNCHANGED <<installs, now, issued, accepted, aged, hooks, spent, told, orphaned>>
    BY DEF WriteSwitch, remote
  <1> HIDE DEF n
  <1> QED BY <1>1, <1>2, <1>3, <1>4, <1>5, <1>6

\* An installation event holds nothing of the tables yet.
LEMMA InstallEventEffect ==
    ASSUME LInv, NEW q \in Reqs, prov = "github", NEW i \in GitHubIds, NEW a,
           NEW added \in SUBSET Repos["github"], NEW removed \in SUBSET Repos["github"],
           InstallEvent(q, i, a, added, removed)
    PROVE  \E m :
              /\ req[q] = Idle /\ Moves(q, m) /\ m.pc = "event" /\ m.rows = {}
              /\ UNCHANGED <<installs, namespaces, now, issued, accepted, aged, hooks, spent, stale, told, orphaned>>
  <1> DEFINE row == [NoRow EXCEPT !.inst = i]
             w == a # "deleted"
  <1>1. PICK r \in GitHubStateID(installs, i) :
           req' = [req EXCEPT ![q] = [Idle EXCEPT !.pc = "event", !.ctx = r.tenant, !.row = row,
                                                  !.want = w, !.todo = added, !.drop = removed]]
    BY DEF InstallEvent, Become
  <1>2. r.tenant \in TenantIds \cup {NoTenant}
    BY DEF GitHubStateID, GetInstallationByInstallationID, Latest, LInv, TypeOK, InstallRows
  <1>3. row \in InstallRows
    BY Constants DEF InstallRows, Ids
  <1>4. added \subseteq AllRepos /\ removed \subseteq AllRepos
    BY DEF AllRepos, LInv, TypeOK
  <1> DEFINE m == [Idle EXCEPT !.pc = "event", !.ctx = r.tenant, !.row = row,
                               !.want = w, !.todo = added, !.drop = removed]
  <1>5. m \in Locals /\ m.pc = "event" /\ m.rows = {} /\ m.blind = FALSE
    <2>1. w \in BOOLEAN
      OBVIOUS
    <2> HIDE DEF row, w
    <2>2. m.pc = "event" /\ m.rows = {} /\ m.blind = FALSE
      BY DEF Idle
    <2> QED BY <1>2, <1>3, <1>4, <2>1, <2>2, Constants DEF Locals
  <1>6. /\ req[q] = Idle /\ req' = [req EXCEPT ![q] = m]
        /\ UNCHANGED <<installs, namespaces, now, issued, accepted, aged, hooks, spent, stale, told, orphaned>>
    BY <1>1 DEF InstallEvent, Start, table, remote, history
  <1> HIDE DEF m
  <1>7. LocalOK(prov, m) /\ ScopedOK(m)
    BY <1>5 DEF LocalOK, ScopedOK
  <1> QED BY <1>5, <1>6, <1>7 DEF Moves

\* The record of an event carries the token and the time of a row.
LEMMA ReadEventRecordEffect ==
    ASSUME LInv, NEW q \in Reqs, ReadEventRecord(q)
    PROVE  \E m :
              /\ req[q].pc = "event" /\ Moves(q, m) /\ m.rows \subseteq req[q].rows
              /\ \/ m.pc = "idle"
                 \/ /\ m.pc = "record"
                    /\ \E r \in installs : m.row.ref = r.ref /\ m.row.at = r.at
              /\ UNCHANGED <<installs, namespaces, now, issued, accepted, aged, hooks, spent, stale, told, orphaned>>
  <1> DEFINE l == req[q]
             found == GetInstallationByInstallationID(installs, l.ctx, "github", l.row.inst)
  <1>1. l \in Locals /\ LocalOK(prov, l) /\ ScopedOK(l) /\ l.pc = "event"
    BY RequestTyped DEF ReadEventRecord, At
  <1>2. UNCHANGED <<installs, namespaces, now, issued, accepted, aged, hooks, spent, stale, told, orphaned>>
    BY DEF ReadEventRecord, table, remote, history
  <1>3. CASE found = {}
    <2>1. Idle.pc = "idle" /\ Idle.rows = {} /\ End(q)
      BY <1>3 DEF Idle, ReadEventRecord
    <2> QED BY <1>1, <1>2, <2>1, IdleEffect
  <1>4. CASE found # {}
    <2>1. PICK r \in found :
             req' = [req EXCEPT ![q] = [l EXCEPT !.pc = "record", !.ctx = DefaultTenant(r.tenant, @),
                                                 !.row = [r EXCEPT !.acct = recordAccountID(r)]]]
      BY <1>4 DEF ReadEventRecord, Become
    <2>2. r \in installs /\ r \in InstallRows /\ r.prov = prov /\ InScope(l.ctx, r.tenant)
      BY DEF GetInstallationByInstallationID, Latest, LInv, TypeOK
    <2> DEFINE a == recordAccountID(r)
               row == [r EXCEPT !.acct = a]
               c == DefaultTenant(r.tenant, l.ctx)
               m == [l EXCEPT !.pc = "record", !.ctx = c, !.row = row]
    <2>3. a \in {NoId, "org", "host", "cloud"}
      BY <2>2 DEF recordAccountID, InstallRows
    <2>4. /\ row \in InstallRows /\ row.prov = prov /\ row.tenant = r.tenant
          /\ row.ref = r.ref /\ row.at = r.at
      <3> HIDE DEF a
      <3> QED BY <2>2, <2>3 DEF InstallRows
    <2>5. c \in TenantIds \cup {NoTenant} /\ (c # NoTenant => r.tenant = c)
      <3>1. l.ctx \in TenantIds \cup {NoTenant} /\ r.tenant \in TenantIds \cup {NoTenant}
        BY <1>1, <2>2 DEF Locals, InstallRows
      <3> HIDE DEF l
      <3> QED BY <2>2, <3>1 DEF DefaultTenant, InScope
    <2>6. /\ m \in Locals /\ m.pc = "record" /\ m.row = row /\ m.rows = l.rows /\ m.blind = l.blind
          /\ m.ctx = c
      <3> HIDE DEF l, row, c
      <3> QED BY <1>1, <2>4, <2>5 DEF Locals
    <2>7. req' = [req EXCEPT ![q] = m]
      BY <2>1
    <2> HIDE DEF m, row, c
    <2>8. LocalOK(prov, m) /\ ScopedOK(m)
      <3>1. l.rows = {}
        BY <1>1 DEF LocalOK
      <3> HIDE DEF l
      <3> QED BY <1>1, <2>4, <2>5, <2>6, <3>1 DEF LocalOK, ScopedOK
    <2> QED BY <1>1, <1>2, <2>2, <2>4, <2>6, <2>7, <2>8 DEF Moves
  <1> QED BY <1>3, <1>4

\* The event deletes its row, writes it, or ends.
LEMMA WriteEventRecordEffect ==
    ASSUME LInv, NEW q \in Reqs, WriteEventRecord(q)
    PROVE  \E m :
              LET l == req[q]
                  row == l.row
              IN  /\ l.pc = "record" /\ prov = "github" /\ Moves(q, m) /\ m.rows \subseteq l.rows
                  /\ \/ /\ m.pc = "listed" /\ ~m.want /\ m.ctx = l.ctx /\ m.row = l.row
                        /\ installs' = DeleteInstallation(installs, l.ctx, "github", row.acct, row.inst, row.key)
                        /\ told' = Forget(installs \ installs') /\ now' = now
                     \/ /\ m.pc = "repos" /\ m.want
                        /\ installs' = UpsertInstallation(installs, row, now) /\ now' = now + 1
                        /\ told' = told
                     \/ m.pc = "idle" /\ UNCHANGED <<installs, now, told>>
                  /\ UNCHANGED <<namespaces, issued, accepted, aged, hooks, spent, stale, orphaned>>
  <1> DEFINE l == req[q]
             row == l.row
  <1>1. /\ l \in Locals /\ LocalOK(prov, l) /\ ScopedOK(l) /\ l.pc = "record"
    BY RequestTyped DEF WriteEventRecord, At
  <1>2. prov = "github" /\ l.rows = {}
    BY <1>1 DEF LocalOK
  <1>3. UNCHANGED <<namespaces, issued, accepted, aged, hooks, spent, stale, orphaned>>
    BY DEF WriteEventRecord, remote
  <1>4. CASE /\ ~l.want /\ Become(q, [l EXCEPT !.pc = "listed"]) /\ now' = now
             /\ installs' = DeleteInstallation(installs, l.ctx, "github", row.acct, row.inst, row.key)
             /\ told' = Forget(installs \ installs')
    <2> DEFINE m == [l EXCEPT !.pc = "listed"]
    <2>1. /\ m \in Locals /\ m.pc = "listed" /\ m.row = l.row /\ m.rows = l.rows /\ m.blind = l.blind
          /\ m.ctx = l.ctx /\ m.want = l.want
      <3> HIDE DEF l
      <3> QED BY <1>1 DEF Locals
    <2>2. req' = [req EXCEPT ![q] = m]
      BY <1>4 DEF Become
    <2> HIDE DEF m
    <2>3. LocalOK(prov, m) /\ ScopedOK(m)
      <3> HIDE DEF l
      <3> QED BY <1>1, <2>1 DEF LocalOK, ScopedOK
    <2> QED BY <1>1, <1>2, <1>3, <1>4, <2>1, <2>2, <2>3 DEF Moves
  <1>5. CASE /\ l.want /\ Become(q, [l EXCEPT !.pc = "repos"]) /\ now' = now + 1 /\ told' = told
             /\ installs' = UpsertInstallation(installs, row, now)
    <2> DEFINE m == [l EXCEPT !.pc = "repos"]
    <2>1. /\ m \in Locals /\ m.pc = "repos" /\ m.row = l.row /\ m.rows = l.rows /\ m.blind = l.blind
          /\ m.ctx = l.ctx /\ m.want = l.want
      <3> HIDE DEF l
      <3> QED BY <1>1 DEF Locals
    <2>2. req' = [req EXCEPT ![q] = m]
      BY <1>5 DEF Become
    <2> HIDE DEF m
    <2>3. LocalOK(prov, m) /\ ScopedOK(m)
      <3> HIDE DEF l
      <3> QED BY <1>1, <2>1 DEF LocalOK, ScopedOK
    <2> QED BY <1>1, <1>2, <1>3, <1>5, <2>1, <2>2, <2>3 DEF Moves
  <1>6. CASE End(q) /\ UNCHANGED <<installs, now, told>>
    <2>1. Idle.pc = "idle" /\ Idle.rows = {}
      BY DEF Idle
    <2> QED BY <1>1, <1>2, <1>3, <1>6, <2>1, IdleEffect
  <1> QED BY <1>4, <1>5, <1>6 DEF WriteEventRecord

\* The event will delete all the namespaces it finds, or notes them as
\* orphaned when the listing fails.
LEMMA ListEventNamespacesEffect ==
    ASSUME LInv, NEW q \in Reqs, ListEventNamespaces(q)
    PROVE  \E m :
              LET l == req[q]
                  found == ListNamespaces(namespaces, l.ctx, "github", l.row.key, NoId, l.row.inst)
              IN  /\ l.pc = "listed" /\ Moves(q, m) /\ m.rows \subseteq l.rows
                  /\ \/ /\ m.pc = "repos" /\ m.want = l.want /\ m.ctx = l.ctx /\ m.row = l.row
                        /\ \A n \in found : n.repo \in m.drop
                        /\ orphaned' = orphaned
                     \/ m.pc = "idle" /\ orphaned' = orphaned \cup {Owner(n) : n \in found}
                  /\ UNCHANGED <<installs, namespaces, now, issued, accepted, aged, hooks, spent, stale, told>>
  <1> DEFINE l == req[q]
             found == ListNamespaces(namespaces, l.ctx, "github", l.row.key, NoId, l.row.inst)
             d == {n.repo : n \in found}
  <1>1. l \in Locals /\ LocalOK(prov, l) /\ ScopedOK(l) /\ l.pc = "listed"
    BY RequestTyped DEF ListEventNamespaces, At
  <1>2. UNCHANGED <<installs, namespaces, now, issued, accepted, aged, hooks, spent, stale, told>>
    BY DEF ListEventNamespaces, table, remote
  <1>3. CASE Become(q, [l EXCEPT !.pc = "repos", !.drop = d]) /\ orphaned' = orphaned
    <2> DEFINE m == [l EXCEPT !.pc = "repos", !.drop = d]
    <2>1. d \subseteq AllRepos /\ \A n \in found : n.repo \in d
      BY DEF ListNamespaces, LInv, TypeOK
    <2>2. /\ m \in Locals /\ m.pc = "repos" /\ m.row = l.row /\ m.rows = l.rows /\ m.blind = l.blind
          /\ m.ctx = l.ctx /\ m.want = l.want /\ m.drop = d
      <3> HIDE DEF l, d
      <3> QED BY <1>1, <2>1 DEF Locals
    <2>3. req' = [req EXCEPT ![q] = m]
      BY <1>3 DEF Become
    <2> HIDE DEF m
    <2>4. LocalOK(prov, m) /\ ScopedOK(m)
      <3> HIDE DEF l
      <3> QED BY <1>1, <2>2 DEF LocalOK, ScopedOK
    <2> HIDE DEF d, found
    <2> QED BY <1>1, <1>2, <1>3, <2>1, <2>2, <2>3, <2>4 DEF Moves, found
  <1>4. CASE End(q) /\ orphaned' = orphaned \cup {Owner(n) : n \in found}
    <2>1. Idle.pc = "idle" /\ Idle.rows = {}
      BY DEF Idle
    <2> QED BY <1>1, <1>2, <1>4, <2>1, IdleEffect
  <1> QED BY <1>3, <1>4 DEF ListEventNamespaces

\* One namespace of a deleted installation is deleted.
LEMMA DropNamespaceEffect ==
    ASSUME LInv, NEW q \in Reqs, NEW r \in req[q].drop, DropNamespace(q, r)
    PROVE  \E m :
              LET l == req[q]
              IN  /\ l.pc = "repos" /\ prov = "github" /\ Moves(q, m) /\ m.rows \subseteq l.rows
                  /\ m.pc = "repos" /\ m.want = l.want /\ m.ctx = l.ctx /\ m.row = l.row
                  /\ m.drop = l.drop \ {r}
                  /\ namespaces' = namespaces \ GetNamespace(namespaces, l.ctx, "github", r, l.row.key)
                  /\ UNCHANGED <<installs, now, issued, accepted, aged, hooks, spent, stale, told, orphaned>>
  <1> DEFINE l == req[q]
             m == [l EXCEPT !.drop = @ \ {r}]
  <1>1. l \in Locals /\ LocalOK(prov, l) /\ ScopedOK(l) /\ l.pc = "repos"
    BY RequestTyped DEF DropNamespace, At
  <1>2. prov = "github"
    BY <1>1 DEF LocalOK
  <1>3. /\ m \in Locals /\ m.pc = "repos" /\ m.row = l.row /\ m.rows = l.rows /\ m.blind = l.blind
        /\ m.ctx = l.ctx /\ m.want = l.want /\ m.drop = l.drop \ {r}
    <2> HIDE DEF l
    <2> QED BY <1>1 DEF Locals
  <1>4. /\ req' = [req EXCEPT ![q] = m]
        /\ namespaces' = namespaces \ GetNamespace(namespaces, l.ctx, "github", r, l.row.key)
        /\ UNCHANGED <<installs, now, issued, accepted, aged, hooks, spent, stale, told, orphaned>>
    BY DEF DropNamespace, Become, DeleteNamespace, remote, history
  <1> HIDE DEF m
  <1>5. LocalOK(prov, m) /\ ScopedOK(m)
    <2> HIDE DEF l
    <2> QED BY <1>1, <1>3 DEF LocalOK, ScopedOK
  <1> QED BY <1>1, <1>2, <1>3, <1>4, <1>5 DEF Moves

\* One namespace of the event is written once all the others are deleted.
LEMMA AddNamespaceEffect ==
    ASSUME LInv, NEW q \in Reqs, NEW r \in req[q].todo, AddNamespace(q, r)
    PROVE  \E m : \E n \in NamespaceRows :
              LET l == req[q]
              IN  /\ l.pc = "repos" /\ prov = "github" /\ Moves(q, m) /\ m.rows \subseteq l.rows
                  /\ m.pc = "repos" /\ l.drop = {}
                  /\ n.tenant = l.row.tenant /\ n.prov = prov /\ n.repo \in AllRepos
                  /\ namespaces' = UpsertNamespace(namespaces, n)
                  /\ orphaned' = IF \E s \in installs : Owner(s) = Owner(n) THEN orphaned
                                 ELSE orphaned \cup {Owner(n)}
                  /\ UNCHANGED <<installs, now, issued, accepted, aged, hooks, spent, stale, told>>
  <1> DEFINE l == req[q]
             n == [tenant |-> l.row.tenant, prov |-> "github", key |-> l.row.key, repo |-> r,
                   acct |-> l.row.acct, inst |-> l.row.inst, on |-> TRUE]
             m == [l EXCEPT !.todo = @ \ {r}]
  <1>1. l \in Locals /\ LocalOK(prov, l) /\ ScopedOK(l) /\ l.pc = "repos"
    BY RequestTyped DEF AddNamespace, At
  <1>2. prov = "github" /\ l.row \in InstallRows /\ prov \in Provs /\ r \in AllRepos
    BY <1>1 DEF LocalOK, Locals, LInv, TypeOK
  <1>3. n \in NamespaceRows /\ n.tenant = l.row.tenant /\ n.prov = prov /\ n.repo = r
    <2> HIDE DEF l
    <2> QED BY <1>2 DEF InstallRows, NamespaceRows
  <1>4. /\ m \in Locals /\ m.pc = "repos" /\ m.row = l.row /\ m.rows = l.rows /\ m.blind = l.blind
        /\ m.ctx = l.ctx
    <2> HIDE DEF l
    <2> QED BY <1>1 DEF Locals
  <1>5. /\ req' = [req EXCEPT ![q] = m] /\ l.drop = {}
        /\ namespaces' = UpsertNamespace(namespaces, n)
        /\ orphaned' = IF \E s \in installs : Owner(s) = Owner(n) THEN orphaned
                       ELSE orphaned \cup {Owner(n)}
        /\ UNCHANGED <<installs, now, issued, accepted, aged, hooks, spent, stale, told>>
    BY DEF AddNamespace, Become, remote
  <1> HIDE DEF m, n
  <1>6. LocalOK(prov, m) /\ ScopedOK(m)
    <2> HIDE DEF l
    <2> QED BY <1>1, <1>4 DEF LocalOK, ScopedOK
  <1> QED BY <1>1, <1>2, <1>3, <1>4, <1>5, <1>6 DEF Moves

\* The API call writes a row without tokens.
LEMMA UpsertAPIEffect ==
    ASSUME LInv, NEW q \in Reqs, NEW t \in TenantIds, NEW i \in GitHubIds, NEW k \in Keys,
           UpsertInstallationAPI(q, prov, t, i, k)
    PROVE  \E row \in InstallRows :
              /\ row.prov = prov /\ row.ref = 0
              /\ installs' = UpsertInstallation(installs, row, now) /\ now' = now + 1
              /\ UNCHANGED <<namespaces, issued, accepted, aged, hooks, req, spent, stale, told, orphaned>>
  <1> DEFINE row == [NoRow EXCEPT !.tenant = t, !.prov = prov, !.acct = "org", !.inst = i, !.key = k]
  <1>1. row \in InstallRows /\ row.prov = prov /\ row.ref = 0
    <2>1. row.prov = prov /\ row.ref = 0
      BY DEF NoRow
    <2>2. prov \in Provs /\ i \in Ids
      BY DEF LInv, TypeOK, Ids
    <2> QED BY <2>1, <2>2, Constants DEF InstallRows
  <1>2. /\ installs' = UpsertInstallation(installs, row, now) /\ now' = now + 1
        /\ UNCHANGED <<namespaces, issued, accepted, aged, hooks, req, spent, stale, told, orphaned>>
    BY DEF UpsertInstallationAPI, remote, history
  <1> HIDE DEF row
  <1> QED BY <1>1, <1>2

\* The API call deletes rows, and orphans their namespaces.
LEMMA DeleteAPIEffect ==
    ASSUME NEW q, NEW t, NEW p, NEW a, NEW i, NEW k, DeleteInstallationAPI(q, p, t, a, i, k)
    PROVE  /\ installs' \subseteq installs
           /\ orphaned' = orphaned \cup {Owner(r) : r \in installs \ installs'}
           /\ told' = Forget(installs \ installs')
           /\ UNCHANGED <<namespaces, now, issued, accepted, aged, hooks, req, spent, stale>>
  BY DEF DeleteInstallationAPI, DeleteInstallation, remote

-----------------------------------------------------------------------------
(* The invariant of the requests.                                           *)

\* TypeOK but for the requests.
TablesOK ==
    /\ prov \in Provs
    /\ installs \subseteq InstallRows /\ \A r \in installs : r.prov = prov
    /\ namespaces \subseteq NamespaceRows
    /\ \A n \in namespaces : n.prov = prov /\ n.repo \in AllRepos
    /\ now \in Nat /\ issued \in Nat /\ accepted \subseteq Nat
    /\ hooks \in [AllRepos -> Nat]

\* The row w that a write of row at time n leaves in the table.
Written(w, row, n) ==
    /\ w.prov = row.prov /\ w.acct = row.acct /\ w.tenant = row.tenant /\ w.inst = row.inst
    /\ w.ref = row.ref /\ w.at = n
    /\ InstallIndex(w) = InstallIndex(row) /\ InstallRecordID(w) = InstallRecordID(row)
    /\ Owner(w) = Owner(row)

\* The table after the write: U, with w where the row was.
Upserted(T, U, row, w) ==
    \/ UpsertFails(T, row) /\ U = T
    \/ /\ ~UpsertFails(T, row)
       /\ \A s : s \in U <=> (s \in T /\ InstallIndex(s) # InstallIndex(row)) \/ s = w

\* UpsertInstallation either fails and leaves the table alone or replaces the
\* row of the index by the one it writes.
LEMMA UpsertRows ==
    ASSUME NEW T, NEW row \in InstallRows, NEW n \in Nat
    PROVE  \E w \in InstallRows : Written(w, row, n) /\ Upserted(T, UpsertInstallation(T, row, n), row, w)
  <1> DEFINE w == [row EXCEPT !.at = n]
  <1>1. /\ w \in InstallRows /\ w.prov = row.prov /\ w.acct = row.acct /\ w.tenant = row.tenant
        /\ w.inst = row.inst /\ w.key = row.key /\ w.ref = row.ref /\ w.at = n
    BY DEF InstallRows
  <1>2. Upserted(T, UpsertInstallation(T, row, n), row, w)
    BY DEF UpsertInstallation, Upserted
  <1> HIDE DEF w
  <1>3. Written(w, row, n)
    BY <1>1 DEF Written, InstallIndex, InstallRecordID, Owner
  <1> QED BY <1>1, <1>2, <1>3

\* An upsert of an installation keeps the table well typed.
LEMMA UpsertTyped ==
    ASSUME LInv, NEW row \in InstallRows, row.prov = prov
    PROVE  /\ UpsertInstallation(installs, row, now) \subseteq InstallRows
           /\ \A r \in UpsertInstallation(installs, row, now) : r.prov = prov
           /\ now + 1 \in Nat
  <1>1. now \in Nat /\ installs \subseteq InstallRows /\ \A r \in installs : r.prov = prov
    BY DEF LInv, TypeOK
  <1>2. PICK w \in InstallRows :
              Written(w, row, now) /\ Upserted(installs, UpsertInstallation(installs, row, now), row, w)
    BY <1>1, UpsertRows
  <1> QED BY <1>1, <1>2 DEF Written, Upserted

\* An upsert of a namespace keeps the table well typed.
LEMMA UpsertNamespaceTyped ==
    ASSUME LInv, NEW n \in NamespaceRows, n.prov = prov, n.repo \in AllRepos
    PROVE  /\ UpsertNamespace(namespaces, n) \subseteq NamespaceRows
           /\ \A s \in UpsertNamespace(namespaces, n) : s.prov = prov /\ s.repo \in AllRepos
  BY DEF UpsertNamespace, LInv, TypeOK

\* A step of one request, or of none, that keeps the tables typed.
LEMMA MovesKeep ==
    ASSUME LInv, prov' = prov, TablesOK',
           req' = req \/ \E q \in Reqs : \E m : Moves(q, m)
    PROVE  LInv'
  <1>1. CASE req' = req
    BY <1>1 DEF LInv, TypeOK, TablesOK
  <1>2. ASSUME NEW q \in Reqs, NEW m, Moves(q, m)
        PROVE  LInv'
    <2>1. req \in [Reqs -> Locals] /\ m \in Locals /\ req' = [req EXCEPT ![q] = m]
      BY <1>2 DEF LInv, TypeOK, Moves
    <2>2. req' \in [Reqs -> Locals]
      BY <2>1
    <2>3. \A o \in Reqs : req'[o] = m \/ req'[o] = req[o]
      BY <2>1
    <2>4. LocalOK(prov, m) /\ ScopedOK(m)
      BY <1>2 DEF Moves
    <2>5. \A o \in Reqs : LocalOK(prov', req'[o]) /\ ScopedOK(req'[o])
      BY <2>3, <2>4 DEF LInv
    <2> QED BY <2>2, <2>5 DEF LInv, TypeOK, TablesOK
  <1> QED BY <1>1, <1>2

\* The empty tables satisfy the invariant.
LEMMA LInvInit ==
    ASSUME Init
    PROVE  LInv
  <1>1. TypeOK
    BY Constants DEF Init, InitState, TypeOK
  <1>2. LocalOK(prov, Idle) /\ ScopedOK(Idle)
    BY DEF LocalOK, ScopedOK, Idle
  <1>3. \A q \in Reqs : req[q] = Idle
    BY DEF Init, InitState
  <1> QED BY <1>1, <1>2, <1>3 DEF LInv

\* Every further step of a request keeps the invariant.
LEMMA LInvSteps ==
    ASSUME LInv, prov' = prov, NEW q \in Reqs, Steps(q)
    PROVE  LInv'
  <1>0. TablesOK /\ req[q] \in Locals /\ LocalOK(prov, req[q])
    BY RequestTyped DEF LInv, TypeOK, TablesOK
  <1>1. CASE SaveInstallation(q)
    <2>1. req[q].row \in InstallRows /\ req[q].row.prov = prov
      BY <1>0, <1>1, SaveEffect DEF Locals, LocalOK
    <2>2. TablesOK'
      BY <1>0, <1>1, <2>1, SaveEffect, UpsertTyped DEF TablesOK
    <2> QED BY <1>1, <2>2, SaveEffect, MovesKeep
  <1>2. CASE DedupeAndAnswer(q)
    BY <1>0, <1>2, DedupeEffect, MovesKeep DEF TablesOK
  <1>3. CASE Refresh(q)
    <2>1. /\ accepted' \subseteq accepted \cup {issued + 1} /\ issued' = issued + 1
          /\ UNCHANGED <<installs, namespaces, now, hooks>>
      BY <1>3, RefreshEffect
    <2>2. TablesOK'
      BY <1>0, <2>1 DEF TablesOK
    <2> QED BY <1>3, <2>2, RefreshEffect, MovesKeep
  <1>4. CASE RefreshFails(q)
    <2>1. /\ accepted' \subseteq accepted \cup {issued + 1} /\ issued' \in {issued, issued + 1}
          /\ UNCHANGED <<installs, namespaces, now, hooks>>
      BY <1>4, RefreshFailsEffect
    <2>2. TablesOK'
      BY <1>0, <2>1 DEF TablesOK
    <2> QED BY <1>4, <2>2, RefreshFailsEffect, MovesKeep
  <1>5. CASE Persist(q)
    <2>1. req[q].row \in InstallRows /\ req[q].row.prov = prov
      BY <1>0, <1>5, PersistEffect DEF Locals, LocalOK
    <2>2. TablesOK'
      BY <1>0, <1>5, <2>1, PersistEffect, UpsertTyped DEF TablesOK
    <2> QED BY <1>5, <2>2, PersistEffect, MovesKeep
  <1>6. CASE \E row \in req[q].rows : NextInstallation(q, row)
    BY <1>0, <1>6, NextInstallationEffect, MovesKeep DEF TablesOK
  <1>7. CASE ListFails(q) \/ InstallEventDone(q)
    BY <1>0, <1>7, EndEffect, MovesKeep DEF TablesOK
  <1>8. CASE \E r \in req[q].todo : ReadNamespace(q, r)
    BY <1>0, <1>8, ReadNamespaceEffect, MovesKeep DEF TablesOK
  <1>9. CASE WriteNamespace(q)
    <2>1. PICK n \in NamespaceRows :
             /\ n.prov = prov /\ n.repo \in AllRepos /\ namespaces' = UpsertNamespace(namespaces, n)
             /\ UNCHANGED <<installs, now, issued, accepted, hooks>>
      BY <1>9, WriteNamespaceEffect
    <2>2. TablesOK'
      BY <1>0, <2>1, UpsertNamespaceTyped DEF TablesOK
    <2> QED BY <1>9, <2>2, WriteNamespaceEffect, MovesKeep
  <1>10. CASE ListHooks(q)
    BY <1>0, <1>10, ListHooksEffect, MovesKeep DEF TablesOK
  <1>11. CASE ChangeHooks(q)
    <2>1. req[q].pc = "hook" => req[q].ns.repo \in AllRepos
      BY <1>0 DEF LocalOK
    <2>2. hooks[req[q].ns.repo] \in Nat
      BY <1>0, <1>11, <2>1, ChangeHooksEffect DEF TablesOK
    <2>3. hooks' \in [AllRepos -> Nat]
      BY <1>0, <1>11, <2>2, ChangeHooksEffect DEF TablesOK
    <2>4. TablesOK'
      BY <1>0, <1>11, <2>3, ChangeHooksEffect DEF TablesOK
    <2> QED BY <1>11, <2>4, ChangeHooksEffect, MovesKeep
  <1>12. CASE WriteSwitch(q)
    <2>1. PICK n \in NamespaceRows :
             /\ n.prov = prov /\ n.repo \in AllRepos
             /\ namespaces' = UpsertNamespace(namespaces, n) \/ namespaces' = namespaces
             /\ UNCHANGED <<installs, now, issued, accepted, hooks>>
      BY <1>12, WriteSwitchEffect
    <2>2. TablesOK'
      BY <1>0, <2>1, UpsertNamespaceTyped DEF TablesOK
    <2> QED BY <1>12, <2>2, WriteSwitchEffect, MovesKeep
  <1>13. CASE ReadEventRecord(q)
    BY <1>0, <1>13, ReadEventRecordEffect, MovesKeep DEF TablesOK
  <1>14. CASE WriteEventRecord(q)
    <2>1. req[q].row \in InstallRows /\ req[q].row.prov = prov
      BY <1>0, <1>14, WriteEventRecordEffect DEF Locals, LocalOK
    <2>2. \A T : DeleteInstallation(T, req[q].ctx, "github", req[q].row.acct, req[q].row.inst, req[q].row.key)
                    \subseteq T
      BY DEF DeleteInstallation
    <2>3. /\ \/ installs' \subseteq installs /\ now' = now
             \/ installs' = UpsertInstallation(installs, req[q].row, now) /\ now' = now + 1
          /\ UNCHANGED <<namespaces, issued, accepted, hooks>>
      BY <1>14, <2>2, WriteEventRecordEffect
    <2>4. TablesOK'
      BY <1>0, <2>1, <2>3, UpsertTyped DEF TablesOK
    <2> QED BY <1>14, <2>4, WriteEventRecordEffect, MovesKeep
  <1>15. CASE ListEventNamespaces(q)
    BY <1>0, <1>15, ListEventNamespacesEffect, MovesKeep DEF TablesOK
  <1>16. CASE \E r \in req[q].drop : DropNamespace(q, r)
    BY <1>0, <1>16, DropNamespaceEffect, MovesKeep DEF TablesOK
  <1>17. CASE \E r \in req[q].todo : AddNamespace(q, r)
    <2>1. PICK n \in NamespaceRows :
             /\ n.prov = prov /\ n.repo \in AllRepos /\ namespaces' = UpsertNamespace(namespaces, n)
             /\ UNCHANGED <<installs, now, issued, accepted, hooks>>
      BY <1>17, AddNamespaceEffect
    <2>2. TablesOK'
      BY <1>0, <2>1, UpsertNamespaceTyped DEF TablesOK
    <2> QED BY <1>17, <2>2, AddNamespaceEffect, MovesKeep
  <1> QED BY <1>1, <1>2, <1>3, <1>4, <1>5, <1>6, <1>7, <1>8, <1>9, <1>10, <1>11, <1>12, <1>13, <1>14,
             <1>15, <1>16, <1>17 DEF Steps

\* Every first step of a request, and every API call, keeps the invariant.
LEMMA LInvRequests ==
    ASSUME LInv, prov' = prov, NEW q \in Reqs, Requests(q) \/ Events(q)
    PROVE  LInv'
  <1>0. TablesOK
    BY DEF LInv, TypeOK, TablesOK
  <1>1. ASSUME NEW t \in TenantIds, NEW k \in Keys, Callback(q, prov, t, k)
        PROVE  LInv'
    <2>1. PICK g \in {0, 1} :
             /\ issued' = issued + g /\ accepted' = accepted \cup ({(issued + 1) * g} \ {0})
             /\ UNCHANGED <<installs, namespaces, now, hooks>>
      BY <1>1, CallbackEffect
    <2>2. (issued + 1) * g \in Nat /\ issued + g \in Nat
      BY <1>0 DEF TablesOK
    <2>3. TablesOK'
      BY <1>0, <2>1, <2>2 DEF TablesOK
    <2> QED BY <1>1, <2>3, CallbackEffect, MovesKeep
  <1>2. ASSUME NEW t \in TenantIds, NEW i \in Ids, NEW k \in Keys \cup {NoId}, GetSCMClient(q, prov, t, i, k)
        PROVE  LInv'
    BY <1>0, <1>2, GetSCMClientEffect, MovesKeep DEF TablesOK
  <1>3. ASSUME NEW t \in TenantIds, NEW a \in {NoId, "org"}, SyncNamespaces(q, prov, t, a)
        PROVE  LInv'
    BY <1>0, <1>3, SyncEffect, MovesKeep DEF TablesOK
  <1>4. ASSUME NEW t \in TenantIds, NEW r \in Repos[prov], NEW want \in BOOLEAN,
               SetNamespaceWebhook(q, prov, t, r, want)
        PROVE  LInv'
    BY <1>0, <1>4, SetNamespaceWebhookEffect, MovesKeep DEF TablesOK
  <1>5. ASSUME NEW t \in TenantIds, NEW i \in GitHubIds, NEW k \in Keys, UpsertInstallationAPI(q, prov, t, i, k)
        PROVE  LInv'
    <2>1. TablesOK' /\ req' = req
      BY <1>0, <1>5, UpsertAPIEffect, UpsertTyped DEF TablesOK
    <2> QED BY <2>1, MovesKeep
  <1>6. ASSUME NEW t, NEW i, NEW k, DeleteInstallationAPI(q, prov, t, "org", i, k)
        PROVE  LInv'
    <2>1. TablesOK' /\ req' = req
      BY <1>0, <1>6, DeleteAPIEffect DEF TablesOK
    <2> QED BY <2>1, MovesKeep
  <1>7. CASE Events(q)
    <2>1. PICK i \in GitHubIds, a \in {"created", "deleted", "removed"},
               added \in SUBSET Repos["github"], removed \in SUBSET Repos["github"] :
             prov = "github" /\ InstallEvent(q, i, a, added, removed)
      BY <1>7 DEF Events
    <2> QED BY <1>0, <2>1, InstallEventEffect, MovesKeep DEF TablesOK
  <1> QED BY <1>1, <1>2, <1>3, <1>4, <1>5, <1>6, <1>7 DEF Requests

\* LInv is inductive.
LEMMA LInvNext ==
    ASSUME LInv, [Next]_vars
    PROVE  LInv'
  <1>1. CASE UNCHANGED vars
    BY <1>1, MovesKeep DEF vars, table, remote, LInv, TypeOK, TablesOK
  <1>2. CASE Next
    <2>1. prov' = prov
      BY <1>2 DEF Next
    <2>2. ASSUME NEW g \in 1 .. issued, Age(g)
          PROVE  LInv'
      BY <2>1, <2>2, MovesKeep DEF Age, table, LInv, TypeOK, TablesOK
    <2> QED BY <1>2, <2>1, <2>2, LInvSteps, LInvRequests DEF Next
  <1> QED BY <1>1, <1>2

\* Type correctness of the two tables, the provider's side and every request.
THEOREM IntegrationsTypeOK == Spec => []TypeOK
  <1>1. Init => LInv
    BY LInvInit
  <1>2. LInv /\ [Next]_vars => LInv'
    BY LInvNext
  <1>3. LInv => TypeOK
    BY DEF LInv
  <1> QED BY <1>1, <1>2, <1>3, PTL DEF Spec

-----------------------------------------------------------------------------
(* Tenants.                                                                 *)

\* The step changes rows of tenant c only.
ChangesOnly(c) ==
    \A r \in (installs \ installs') \cup (installs' \ installs)
               \cup (namespaces \ namespaces') \cup (namespaces' \ namespaces) : r.tenant = c

\* The upsert of an installation changes rows of the tenant of the row only,
\* because the tenant is part of the index.
LEMMA UpsertIsScoped ==
    ASSUME LInv, NEW row \in InstallRows, installs' = UpsertInstallation(installs, row, now),
           namespaces' = namespaces
    PROVE  ChangesOnly(row.tenant)
  <1>1. now \in Nat
    BY DEF LInv, TypeOK
  <1>2. PICK w \in InstallRows : Written(w, row, now) /\ Upserted(installs, installs', row, w)
    BY <1>1, UpsertRows
  <1>3. \A s : InstallIndex(s) = InstallIndex(row) => s.tenant = row.tenant
    BY DEF InstallIndex
  <1> QED BY <1>2, <1>3 DEF Written, Upserted, ChangesOnly

\* The upsert of a namespace changes rows of the tenant of the row only.
LEMMA UpsertNamespaceIsScoped ==
    ASSUME NEW n, namespaces' = UpsertNamespace(namespaces, n), installs' = installs
    PROVE  ChangesOnly(n.tenant)
  <1>1. \A s : NamespaceRecordID(s) = NamespaceRecordID(n) => s.tenant = n.tenant
    BY DEF NamespaceRecordID
  <1> QED BY <1>1 DEF UpsertNamespace, ChangesOnly

\* The step of a request with a tenant.
LEMMA StepsAreScoped ==
    ASSUME LInv, NEW q \in Reqs, Steps(q), req[q].ctx # NoTenant
    PROVE  ChangesOnly(req[q].ctx) /\ \E m : Moves(q, m)
  <1> DEFINE l == req[q]
  <1>0. l \in Locals /\ LocalOK(prov, l) /\ ScopedOK(l)
    BY RequestTyped
  <1>a. l.row \in InstallRows /\ (l.pc \in {"save", "persist", "record", "repos"} => l.row.tenant = l.ctx)
    BY <1>0 DEF Locals, ScopedOK
  <1>b. ASSUME installs' = installs, namespaces' = namespaces
        PROVE  ChangesOnly(l.ctx)
    BY <1>b DEF ChangesOnly
  <1>1. CASE SaveInstallation(q)
    BY <1>a, <1>1, SaveEffect, UpsertIsScoped
  <1>2. CASE DedupeAndAnswer(q)
    BY <1>2, DedupeEffect DEF ChangesOnly, InScope
  <1>3. CASE Refresh(q) \/ RefreshFails(q)
    BY <1>b, <1>3, RefreshEffect, RefreshFailsEffect
  <1>4. CASE Persist(q)
    BY <1>a, <1>b, <1>4, PersistEffect, UpsertIsScoped
  <1>5. CASE \E row \in req[q].rows : NextInstallation(q, row)
    BY <1>b, <1>5, NextInstallationEffect
  <1>6. CASE ListFails(q) \/ InstallEventDone(q)
    BY <1>b, <1>6, EndEffect
  <1>7. CASE \E r \in req[q].todo : ReadNamespace(q, r)
    BY <1>b, <1>7, ReadNamespaceEffect
  <1>8. CASE WriteNamespace(q)
    BY <1>8, WriteNamespaceEffect, UpsertNamespaceIsScoped
  <1>9. CASE ListHooks(q) \/ ChangeHooks(q)
    BY <1>b, <1>9, ListHooksEffect, ChangeHooksEffect
  <1>10. CASE WriteSwitch(q)
    <2>1. l.pc = "switch" => l.ns.tenant = l.ctx
      BY <1>0 DEF ScopedOK
    <2> QED BY <1>b, <1>10, <2>1, WriteSwitchEffect, UpsertNamespaceIsScoped
  <1>11. CASE ReadEventRecord(q)
    BY <1>b, <1>11, ReadEventRecordEffect
  <1>12. CASE WriteEventRecord(q)
    <2>1. ASSUME namespaces' = namespaces,
                 installs' = DeleteInstallation(installs, l.ctx, "github", l.row.acct, l.row.inst, l.row.key)
          PROVE  ChangesOnly(l.ctx)
      BY <2>1 DEF DeleteInstallation, InScope, ChangesOnly
    <2>2. l.pc = "record" /\ namespaces' = namespaces /\ \E m : Moves(q, m)
      BY <1>12, WriteEventRecordEffect
    <2>3. \/ installs' = DeleteInstallation(installs, l.ctx, "github", l.row.acct, l.row.inst, l.row.key)
          \/ installs' = UpsertInstallation(installs, l.row, now)
          \/ installs' = installs
      BY <1>12, WriteEventRecordEffect
    <2> QED BY <1>a, <1>b, <2>1, <2>2, <2>3, UpsertIsScoped
  <1>13. CASE ListEventNamespaces(q)
    BY <1>b, <1>13, ListEventNamespacesEffect
  <1>14. CASE \E r \in req[q].drop : DropNamespace(q, r)
    BY <1>14, DropNamespaceEffect DEF GetNamespace, InScope, ChangesOnly
  <1>15. CASE \E r \in req[q].todo : AddNamespace(q, r)
    BY <1>a, <1>15, AddNamespaceEffect, UpsertNamespaceIsScoped
  <1> QED BY <1>1, <1>2, <1>3, <1>4, <1>5, <1>6, <1>7, <1>8, <1>9, <1>10, <1>11, <1>12, <1>13, <1>14,
             <1>15 DEF Steps

\* A request is not changed by the steps of another, and starts without tenant.
LEMMA OthersKeep ==
    ASSUME LInv, NEW q \in Reqs, NEW o \in Reqs, Steps(q) \/ Requests(q) \/ Events(q),
           req'[o] # req[o], req[o].ctx # NoTenant
    PROVE  o = q /\ Steps(q)
  <1>1. \A m : Become(q, m) => \A p \in Reqs \ {q} : req'[p] = req[p]
    BY DEF Become, LInv, TypeOK
  <1>2. req' = req \/ \E m : Become(q, m)
    <2>1. CASE \/ SaveInstallation(q) \/ DedupeAndAnswer(q) \/ Refresh(q) \/ RefreshFails(q) \/ Persist(q)
               \/ ListFails(q) \/ WriteNamespace(q) \/ ReadEventRecord(q) \/ InstallEventDone(q)
      BY <2>1 DEF SaveInstallation, DedupeAndAnswer, Refresh, RefreshFails, Persist, ListFails,
                  WriteNamespace, ReadEventRecord, InstallEventDone, End
    <2>2. CASE \/ ListHooks(q) \/ ChangeHooks(q) \/ WriteSwitch(q) \/ WriteEventRecord(q)
               \/ ListEventNamespaces(q) \/ Events(q)
      BY <2>2 DEF ListHooks, ChangeHooks, WriteSwitch, WriteEventRecord, ListEventNamespaces, Events,
                  InstallEvent, End
    <2>3. CASE \/ \E row \in req[q].rows : NextInstallation(q, row)
               \/ \E r \in req[q].drop : DropNamespace(q, r)
      BY <2>3 DEF NextInstallation, DropNamespace, End
    <2>5. CASE \E r \in req[q].todo : ReadNamespace(q, r) \/ AddNamespace(q, r)
      BY <2>5 DEF ReadNamespace, AddNamespace
    <2>4. CASE Requests(q)
      <3>1. ASSUME NEW t \in TenantIds, NEW k \in Keys, Callback(q, prov, t, k)
            PROVE  \E m : Become(q, m)
        BY <3>1, CallbackEffect DEF Moves, Become
      <3>2. ASSUME NEW t, NEW i, NEW k, GetSCMClient(q, prov, t, i, k)
            PROVE  \E m : Become(q, m)
        BY <3>2 DEF GetSCMClient
      <3>3. ASSUME NEW t, NEW a, SyncNamespaces(q, prov, t, a)
            PROVE  \E m : Become(q, m)
        BY <3>3 DEF SyncNamespaces
      <3>4. ASSUME NEW t, NEW r, NEW want, SetNamespaceWebhook(q, prov, t, r, want)
            PROVE  \E m : Become(q, m)
        BY <3>4 DEF SetNamespaceWebhook
      <3>5. ASSUME NEW t, NEW a, NEW i, NEW k,
                   UpsertInstallationAPI(q, prov, t, i, k) \/ DeleteInstallationAPI(q, prov, t, a, i, k)
            PROVE  req' = req
        BY <3>5 DEF UpsertInstallationAPI, DeleteInstallationAPI
      <3> QED BY <2>4, <3>1, <3>2, <3>3, <3>4, <3>5 DEF Requests
    <2> QED BY <2>1, <2>2, <2>3, <2>4, <2>5 DEF Steps
  <1>3. o = q
    BY <1>1, <1>2
  <1>4. Requests(q) \/ Events(q) => req[q] = Idle
    BY DEF Requests, Events, Callback, GetSCMClient, SyncNamespaces, SetNamespaceWebhook,
           UpsertInstallationAPI, DeleteInstallationAPI, InstallEvent, Start
  <1>5. Idle.ctx = NoTenant
    BY DEF Idle
  <1> QED BY <1>3, <1>4, <1>5

\* TenantScope in every statement: a request that carries a tenant changes no
\* row of another tenant, whatever it looked up before the rows changed.
THEOREM IntegrationsTenantIsolation == Spec => TenantIsolation
  <1>1. Init => LInv
    BY LInvInit
  <1>2. LInv /\ [Next]_vars => LInv'
    BY LInvNext
  <1>3. ASSUME LInv, [Next]_vars
        PROVE  [\A q \in Reqs : req'[q] # req[q] /\ req[q].ctx # NoTenant =>
                   \A r \in (installs \ installs') \cup (installs' \ installs)
                              \cup (namespaces \ namespaces') \cup (namespaces' \ namespaces) :
                       r.tenant = req[q].ctx]_vars
    <2>1. CASE UNCHANGED vars
      BY <2>1
    <2>2. CASE \E g \in 1 .. issued : Age(g)
      BY <2>2 DEF Age
    <2>3. ASSUME NEW q \in Reqs, Steps(q) \/ Requests(q) \/ Events(q),
                 NEW o \in Reqs, req'[o] # req[o], req[o].ctx # NoTenant
          PROVE  ChangesOnly(req[o].ctx)
      BY <1>3, <2>3, OthersKeep, StepsAreScoped
    <2> QED BY <1>3, <2>1, <2>2, <2>3 DEF Next, ChangesOnly
  <1> QED BY <1>1, <1>2, <1>3, PTL DEF Spec, TenantIsolation

-----------------------------------------------------------------------------
(* Namespaces and their installations.                                      *)

\* The event of l is about to delete the namespace n.
Covers(l, n) ==
    /\ ~l.want /\ InScope(l.ctx, n.tenant) /\ l.row.inst = n.inst /\ l.row.key \in {NoId, n.key}
    /\ l.pc = "listed" \/ (l.pc = "repos" /\ n.repo \in l.drop)

\* Why a namespace may be there.
HasOwner(n) == \E r \in installs : Owner(r) = Owner(n)
Accounted(n) == HasOwner(n) \/ Owner(n) \in orphaned \/ \E q \in Reqs : Covers(req[q], n)

\* Every namespace of GitHub is accounted for.
OInv == \A n \in namespaces : n.prov = "github" => Accounted(n)

\* The step of request q to m accounts for what it takes the owner of.
LEMMA AccountedMoves ==
    ASSUME LInv, OInv, NEW q \in Reqs, NEW m, Moves(q, m), orphaned \subseteq orphaned',
           \A n \in namespaces' : n \in namespaces \/ HasOwner(n)' \/ Owner(n) \in orphaned',
           \A n \in namespaces' :
              n.prov = "github" /\ HasOwner(n) => HasOwner(n)' \/ Owner(n) \in orphaned' \/ Covers(m, n),
           \A n \in namespaces' :
              n.prov = "github" /\ Covers(req[q], n) => Covers(m, n) \/ Owner(n) \in orphaned'
    PROVE  OInv'
  <1>1. req'[q] = m /\ \A o \in Reqs \ {q} : req'[o] = req[o]
    BY DEF Moves, LInv, TypeOK
  <1> SUFFICES ASSUME NEW n \in namespaces', n.prov = "github"
               PROVE  HasOwner(n)' \/ Owner(n) \in orphaned' \/ \E o \in Reqs : Covers(req'[o], n)
    BY DEF OInv, Accounted
  <1>2. CASE n \in namespaces
    <2>1. Accounted(n)
      BY <1>2 DEF OInv
    <2>2. CASE HasOwner(n)
      BY <1>1, <2>2
    <2>3. CASE Owner(n) \in orphaned
      BY <2>3
    <2>4. ASSUME NEW o \in Reqs, Covers(req[o], n)
          PROVE  Owner(n) \in orphaned' \/ \E p \in Reqs : Covers(req'[p], n)
      <3>1. CASE o = q
        BY <1>1, <2>4, <3>1
      <3>2. CASE o # q
        BY <1>1, <2>4, <3>2
      <3> QED BY <3>1, <3>2
    <2> QED BY <2>1, <2>2, <2>3, <2>4 DEF Accounted
  <1>3. CASE n \notin namespaces
    BY <1>3
  <1> QED BY <1>2, <1>3

\* A step outside the requests accounts for the owners it deletes.
LEMMA AccountedStill ==
    ASSUME OInv, req' = req, orphaned \subseteq orphaned', namespaces' = namespaces,
           \A n \in namespaces : HasOwner(n) => HasOwner(n)' \/ Owner(n) \in orphaned'
    PROVE  OInv'
  <1> SUFFICES ASSUME NEW n \in namespaces, n.prov = "github"
               PROVE  HasOwner(n)' \/ Owner(n) \in orphaned' \/ \E o \in Reqs : Covers(req[o], n)
    BY DEF OInv, Accounted
  <1> QED BY DEF OInv, Accounted

\* A written row owns what the row it replaces owned.
LEMMA UpsertKeepsOwners ==
    ASSUME LInv, NEW row \in InstallRows, installs' = UpsertInstallation(installs, row, now)
    PROVE  \A n : HasOwner(n) => HasOwner(n)'
  <1>1. now \in Nat
    BY DEF LInv, TypeOK
  <1>2. PICK w \in InstallRows : Written(w, row, now) /\ Upserted(installs, installs', row, w)
    BY <1>1, UpsertRows
  <1>3. \A s : InstallIndex(s) = InstallIndex(row) => Owner(s) = Owner(row)
    BY DEF InstallIndex, Owner
  <1> QED BY <1>2, <1>3 DEF Written, Upserted, HasOwner

\* A deletion that notes its rows as orphaned takes no owner silently.
LEMMA DeletedOwners ==
    ASSUME installs' \subseteq installs, orphaned' = orphaned \cup {Owner(d) : d \in installs \ installs'}
    PROVE  /\ orphaned \subseteq orphaned'
           /\ \A n : HasOwner(n) => HasOwner(n)' \/ Owner(n) \in orphaned'
  BY DEF HasOwner

\* Every further step of a request keeps the namespaces accounted for.
LEMMA OInvSteps ==
    ASSUME LInv, LInv', OInv, prov' = prov, NEW q \in Reqs, Steps(q)
    PROVE  OInv'
  <1> DEFINE l == req[q]
  <1>0. l.row \in InstallRows
    BY RequestTyped DEF Locals
  <1>a. l.pc \notin {"listed", "repos"} => \A n : ~Covers(l, n)
    BY DEF Covers
  <1>b. ASSUME installs' = installs
        PROVE  \A n : HasOwner(n) => HasOwner(n)'
    BY <1>b DEF HasOwner
  <1>1. CASE SaveInstallation(q)
    BY <1>0, <1>a, <1>1, SaveEffect, UpsertKeepsOwners, AccountedMoves
  <1>2. CASE DedupeAndAnswer(q)
    BY <1>a, <1>2, DedupeEffect, DeletedOwners, AccountedMoves
  <1>3. CASE Refresh(q) \/ RefreshFails(q)
    BY <1>a, <1>b, <1>3, RefreshEffect, RefreshFailsEffect, AccountedMoves
  <1>4. CASE Persist(q)
    BY <1>0, <1>a, <1>b, <1>4, PersistEffect, UpsertKeepsOwners, AccountedMoves
  <1>5. CASE \E row \in req[q].rows : NextInstallation(q, row)
    BY <1>a, <1>b, <1>5, NextInstallationEffect, AccountedMoves
  <1>6. CASE ListFails(q) \/ InstallEventDone(q)
    <2>1. \A n : ~Covers(l, n)
      BY <1>6, EndEffect DEF Covers
    <2> QED BY <1>b, <1>6, <2>1, EndEffect, AccountedMoves
  <1>7. CASE \E r \in req[q].todo : ReadNamespace(q, r)
    BY <1>a, <1>b, <1>7, ReadNamespaceEffect, AccountedMoves
  <1>8. CASE WriteNamespace(q)
    <2>1. PICK m : \E n \in NamespaceRows :
             /\ l.pc = "put" /\ Moves(q, m) /\ namespaces' = UpsertNamespace(namespaces, n)
             /\ orphaned' = IF \E r \in installs : Owner(r) = Owner(n) THEN orphaned
                            ELSE orphaned \cup {Owner(n)}
             /\ installs' = installs
      BY <1>8, WriteNamespaceEffect
    <2>4. PICK n \in NamespaceRows :
             /\ l.pc = "put" /\ Moves(q, m) /\ namespaces' = UpsertNamespace(namespaces, n)
             /\ orphaned' = IF \E r \in installs : Owner(r) = Owner(n) THEN orphaned
                            ELSE orphaned \cup {Owner(n)}
             /\ installs' = installs
      BY <2>1
    <2>2. orphaned \subseteq orphaned' /\ (HasOwner(n)' \/ Owner(n) \in orphaned')
      BY <2>4 DEF HasOwner
    <2>3. \A s \in namespaces' : s \in namespaces \/ s = n
      BY <2>4 DEF UpsertNamespace
    <2> QED BY <1>a, <1>b, <2>4, <2>2, <2>3, AccountedMoves
  <1>9. CASE ListHooks(q) \/ ChangeHooks(q)
    BY <1>a, <1>b, <1>9, ListHooksEffect, ChangeHooksEffect, AccountedMoves
  <1>10. CASE WriteSwitch(q)
    <2>1. prov # "github"
      <3>1. l.pc = "switch" => prov \in HookProvs
        BY RequestTyped DEF LocalOK
      <3> QED BY <1>10, <3>1, WriteSwitchEffect DEF HookProvs
    <2> QED BY <2>1 DEF LInv, TypeOK, OInv
  <1>11. CASE ReadEventRecord(q)
    BY <1>a, <1>b, <1>11, ReadEventRecordEffect, AccountedMoves
  <1>12. CASE WriteEventRecord(q)
    <2>1. PICK m :
             /\ l.pc = "record" /\ Moves(q, m)
             /\ \/ /\ m.pc = "listed" /\ ~m.want /\ m.ctx = l.ctx /\ m.row = l.row
                   /\ installs' = DeleteInstallation(installs, l.ctx, "github", l.row.acct, l.row.inst, l.row.key)
                \/ installs' = UpsertInstallation(installs, l.row, now)
                \/ installs' = installs
             /\ UNCHANGED <<namespaces, orphaned>>
      BY <1>12, WriteEventRecordEffect
    <2>2. \A n : HasOwner(n) => HasOwner(n)' \/ Covers(m, n)
      <3>1. CASE /\ m.pc = "listed" /\ ~m.want /\ m.ctx = l.ctx /\ m.row = l.row
                 /\ installs' = DeleteInstallation(installs, l.ctx, "github", l.row.acct, l.row.inst, l.row.key)
        <4>1. SUFFICES ASSUME NEW n, NEW r \in installs, Owner(r) = Owner(n), r \notin installs'
                       PROVE  Covers(m, n)
          BY DEF HasOwner
        <4>2. /\ InScope(l.ctx, r.tenant) /\ r.inst = l.row.inst /\ l.row.key \in {NoId, r.key}
          BY <3>1, <4>1 DEF DeleteInstallation
        <4>3. r.tenant = n.tenant /\ r.inst = n.inst /\ r.key = n.key
          BY <4>1 DEF Owner
        <4> QED BY <3>1, <4>2, <4>3 DEF Covers
      <3> QED BY <1>0, <1>b, <2>1, <3>1, UpsertKeepsOwners
    <2> QED BY <1>a, <2>1, <2>2, AccountedMoves
  <1>13. CASE ListEventNamespaces(q)
    <2> DEFINE found == ListNamespaces(namespaces, l.ctx, "github", l.row.key, NoId, l.row.inst)
    <2>1. PICK m :
             /\ l.pc = "listed" /\ Moves(q, m)
             /\ \/ /\ m.pc = "repos" /\ m.want = l.want /\ m.ctx = l.ctx /\ m.row = l.row
                   /\ \A n \in found : n.repo \in m.drop
                   /\ orphaned' = orphaned
                \/ orphaned' = orphaned \cup {Owner(n) : n \in found}
             /\ UNCHANGED <<installs, namespaces>>
      BY <1>13, ListEventNamespacesEffect
    <2>2. ASSUME NEW n \in namespaces, n.prov = "github", Covers(l, n)
          PROVE  Covers(m, n) \/ Owner(n) \in orphaned'
      <3>1. n \in found
        BY <2>2 DEF Covers, ListNamespaces
      <3> HIDE DEF found
      <3> QED BY <2>1, <2>2, <3>1 DEF Covers
    <2>3. orphaned \subseteq orphaned'
      BY <2>1
    <2> HIDE DEF found
    <2> QED BY <1>b, <2>1, <2>2, <2>3, AccountedMoves
  <1>14. CASE \E r \in req[q].drop : DropNamespace(q, r)
    <2>1. PICK r \in req[q].drop : DropNamespace(q, r)
      BY <1>14
    <2>2. PICK m :
             /\ l.pc = "repos" /\ Moves(q, m)
             /\ m.pc = "repos" /\ m.want = l.want /\ m.ctx = l.ctx /\ m.row = l.row
             /\ m.drop = l.drop \ {r}
             /\ namespaces' = namespaces \ GetNamespace(namespaces, l.ctx, "github", r, l.row.key)
             /\ UNCHANGED <<installs, orphaned>>
      BY <2>1, DropNamespaceEffect
    <2>3. ASSUME NEW n \in namespaces', n.prov = "github", Covers(l, n)
          PROVE  Covers(m, n)
      <3>1. n.repo # r
        BY <2>2, <2>3 DEF Covers, GetNamespace
      <3> QED BY <2>2, <2>3, <3>1 DEF Covers
    <2>4. \A n \in namespaces' : n \in namespaces
      BY <2>2
    <2> QED BY <1>b, <2>2, <2>3, <2>4, AccountedMoves
  <1>15. CASE \E r \in req[q].todo : AddNamespace(q, r)
    <2>1. PICK m : \E n \in NamespaceRows :
             /\ l.pc = "repos" /\ l.drop = {} /\ Moves(q, m)
             /\ namespaces' = UpsertNamespace(namespaces, n)
             /\ orphaned' = IF \E s \in installs : Owner(s) = Owner(n) THEN orphaned
                            ELSE orphaned \cup {Owner(n)}
             /\ installs' = installs
      BY <1>15, AddNamespaceEffect
    <2>2. PICK n \in NamespaceRows :
             /\ namespaces' = UpsertNamespace(namespaces, n)
             /\ orphaned' = IF \E s \in installs : Owner(s) = Owner(n) THEN orphaned
                            ELSE orphaned \cup {Owner(n)}
      BY <2>1
    <2>3. orphaned \subseteq orphaned' /\ (HasOwner(n)' \/ Owner(n) \in orphaned')
      BY <2>1, <2>2 DEF HasOwner
    <2>4. \A s \in namespaces' : s \in namespaces \/ s = n
      BY <2>2 DEF UpsertNamespace
    <2>5. \A s : ~Covers(l, s)
      BY <2>1 DEF Covers
    <2> QED BY <1>b, <2>1, <2>3, <2>4, <2>5, AccountedMoves
  <1> QED BY <1>1, <1>2, <1>3, <1>4, <1>5, <1>6, <1>7, <1>8, <1>9, <1>10, <1>11, <1>12, <1>13, <1>14,
             <1>15 DEF Steps

\* Every first step of a request, and every API call, does too.
LEMMA OInvRequests ==
    ASSUME LInv, OInv, NEW q \in Reqs, Requests(q) \/ Events(q)
    PROVE  OInv'
  <1>a. req[q] = Idle => \A n : ~Covers(req[q], n)
    BY DEF Covers, Idle
  <1>b. ASSUME installs' = installs
        PROVE  \A n : HasOwner(n) => HasOwner(n)'
    BY <1>b DEF HasOwner
  <1>c. ASSUME req[q] = Idle, NEW m, Moves(q, m), UNCHANGED <<installs, namespaces, orphaned>>
        PROVE  OInv'
    BY <1>a, <1>b, <1>c, AccountedMoves
  <1>1. ASSUME NEW t \in TenantIds, NEW k \in Keys, Callback(q, prov, t, k)
        PROVE  OInv'
    BY <1>c, <1>1, CallbackEffect
  <1>2. ASSUME NEW t \in TenantIds, NEW i \in Ids, NEW k \in Keys \cup {NoId}, GetSCMClient(q, prov, t, i, k)
        PROVE  OInv'
    BY <1>c, <1>2, GetSCMClientEffect
  <1>3. ASSUME NEW t \in TenantIds, NEW a \in {NoId, "org"}, SyncNamespaces(q, prov, t, a)
        PROVE  OInv'
    BY <1>c, <1>3, SyncEffect
  <1>4. ASSUME NEW t \in TenantIds, NEW r \in Repos[prov], NEW want \in BOOLEAN,
               SetNamespaceWebhook(q, prov, t, r, want)
        PROVE  OInv'
    BY <1>c, <1>4, SetNamespaceWebhookEffect
  <1>5. ASSUME NEW t \in TenantIds, NEW i \in GitHubIds, NEW k \in Keys, UpsertInstallationAPI(q, prov, t, i, k)
        PROVE  OInv'
    BY <1>5, UpsertAPIEffect, UpsertKeepsOwners, AccountedStill
  <1>6. ASSUME NEW t, NEW i, NEW k, DeleteInstallationAPI(q, prov, t, "org", i, k)
        PROVE  OInv'
    BY <1>6, DeleteAPIEffect, DeletedOwners, AccountedStill
  <1>7. CASE Events(q)
    <2>1. PICK i \in GitHubIds, a \in {"created", "deleted", "removed"},
               added \in SUBSET Repos["github"], removed \in SUBSET Repos["github"] :
             prov = "github" /\ InstallEvent(q, i, a, added, removed)
      BY <1>7 DEF Events
    <2> QED BY <1>c, <2>1, InstallEventEffect
  <1> QED BY <1>1, <1>2, <1>3, <1>4, <1>5, <1>6, <1>7 DEF Requests

\* applyInstallSystemRules takes the namespaces of a deleted installation with
\* it, whatever runs between its statements: a GitHub namespace without its
\* installation is being deleted, or its installation went another way.
THEOREM IntegrationsNoOrphans == Spec => []NoOrphanNamespaces
  <1>1. Init => LInv /\ OInv
    BY LInvInit DEF Init, InitState, OInv
  <1>2. LInv /\ OInv /\ [Next]_vars => (LInv /\ OInv)'
    <2> SUFFICES ASSUME LInv, OInv, [Next]_vars
                 PROVE  OInv'
      BY LInvNext
    <2>1. LInv'
      BY LInvNext
    <2>2. CASE UNCHANGED vars
      BY <2>2 DEF vars, table, history, OInv, Accounted, HasOwner
    <2>3. ASSUME NEW g \in 1 .. issued, Age(g)
          PROVE  OInv'
      BY <2>3 DEF Age, table, history, OInv, Accounted, HasOwner
    <2> QED BY <2>1, <2>2, <2>3, OInvSteps, OInvRequests DEF Next
  <1>3. LInv /\ OInv => NoOrphanNamespaces
    BY DEF OInv, Accounted, HasOwner, Covers, NoOrphanNamespaces
  <1> QED BY <1>1, <1>2, <1>3, PTL DEF Spec

-----------------------------------------------------------------------------
(* The tenants that were told of an installation.                           *)

\* The row that the promise x rests on.
Backs(r, x) ==
    /\ x = <<r.prov, r.inst, r.tenant>>
    /\ r.prov \in {"github", "slack", "atlassian"}
    /\ r.prov = "slack" => r.acct = "org"
    /\ r.prov = "atlassian" => r.acct \in {"host", "cloud"}

\* No row is from the future, and a row backs every promise.
IInv ==
    /\ \A r \in installs : r.at < now
    /\ \A x \in told : \E r \in installs : Backs(r, x)

\* The least-number principle for a set.
LEMMA NatMin ==
    ASSUME NEW T, T \subseteq Nat, T # {}
    PROVE  \E x \in T : \A y \in T : x <= y
  <1> DEFINE R == OpToRel(<, Nat)
  <1>1. IsWellFoundedOn(R, Nat)
    BY NatLessThanWellFounded
  <1>2. \A x, y \in Nat : y < x => <<y, x>> \in R
    BY DEF OpToRel
  <1> HIDE DEF R
  <1>3. PICK x \in T : \A y \in T : ~(<<y, x>> \in R)
    BY <1>1, WFMin, Zenon
  <1>4. \A y \in T : ~(y < x)
    BY <1>2, <1>3, Zenon
  <1>5. \A y \in T : x <= y
    BY <1>4
  <1> QED BY <1>5

\* ORDER BY updated_at DESC LIMIT 1 finds a row where there is one.
LEMMA LatestNonempty ==
    ASSUME NEW S, S # {}, NEW n \in Nat, \A s \in S : s.at \in Nat /\ s.at < n
    PROVE  Latest(S) # {}
  <1> DEFINE T == {n - s.at : s \in S}
  <1>1. T \subseteq Nat /\ T # {}
    OBVIOUS
  <1>2. PICK x \in T : \A y \in T : x <= y
    <2> HIDE DEF T
    <2> QED BY <1>1, NatMin
  <1>3. PICK r \in S : x = n - r.at
    OBVIOUS
  <1>4. \A s \in S : n - r.at <= n - s.at
    BY <1>2, <1>3
  <1>5. \A s \in S : s.at <= r.at
    BY <1>4
  <1> QED BY <1>5 DEF Latest

\* What resolveStateID finds when the installation has a row.
LEMMA HeardIsRow ==
    ASSUME LInv, IInv, NEW r \in installs, NEW x, Backs(r, x),
           r.prov = "atlassian" => r.acct # "cloud"
    PROVE  /\ Heard(x[1], x[2]) # {}
           /\ Heard(x[1], x[2]) \subseteq {s \in installs : s.prov = x[1]}
  <1>1. /\ now \in Nat /\ \A s \in installs : s.at \in Nat /\ s.at < now
    BY DEF LInv, TypeOK, InstallRows, IInv
  <1>2. x[1] = r.prov /\ x[2] = r.inst
    BY DEF Backs
  <1>3. NoId # "org" /\ NoId # "host"
    BY IntegrationAssumption
  <1>4. ASSUME NEW S, S \subseteq installs, S # {}
        PROVE  Latest(S) # {} /\ Latest(S) \subseteq S
    BY <1>1, <1>4, LatestNonempty, LatestIsRow
  <1>5. ASSUME NEW S, S # {}
        PROVE  PreferTenant(S, NoTenant) # {} /\ PreferTenant(S, NoTenant) \subseteq S
    BY <1>5 DEF PreferTenant
  <1>6. CASE x[1] = "github"
    <2> DEFINE S == {s \in installs : s.prov = "github" /\ s.inst = x[2] /\ InScope(NoTenant, s.tenant)}
    <2>1. Heard(x[1], x[2]) = Latest(S)
      BY <1>6 DEF Heard, GitHubStateID, GetInstallationByInstallationID
    <2>2. r \in S
      BY <1>2, <1>6 DEF InScope
    <2>3. S \subseteq {s \in installs : s.prov = x[1]}
      BY <1>6
    <2> HIDE DEF S
    <2> QED BY <1>4, <2>1, <2>2, <2>3
  <1>7. CASE x[1] = "slack"
    <2> DEFINE S == {s \in installs : s.prov = "slack" /\ ("org" = NoId \/ s.acct = "org") /\ InScope(NoTenant, s.tenant)}
    <2>1. Listed(installs, NoTenant, "slack", "org") = S
      BY DEF Listed, ListInstallations
    <2>2. r \in S
      BY <1>2, <1>7 DEF InScope, Backs
    <2>3. S \subseteq {s \in installs : s.prov = x[1]}
      BY <1>7
    <2>4. Heard(x[1], x[2]) = Latest(PreferTenant(S, NoTenant))
      <3> HIDE DEF S
      <3> QED BY <1>3, <1>7, <2>1 DEF Heard, SlackStateID, pickBestSlackInstallation
    <2> HIDE DEF S
    <2> QED BY <1>4, <1>5, <2>2, <2>3, <2>4
  <1>8. CASE x[1] = "atlassian"
    <2> DEFINE S == {s \in installs : s.prov = "atlassian" /\ ("host" = NoId \/ s.acct = "host") /\ InScope(NoTenant, s.tenant)}
    <2>1. Listed(installs, NoTenant, "atlassian", "host") = S
      BY DEF Listed, ListInstallations
    <2>2. r \in S
      BY <1>2, <1>8 DEF InScope, Backs
    <2>3. S \subseteq {s \in installs : s.prov = x[1]}
      BY <1>8
    <2>4. Heard(x[1], x[2]) = Latest(PreferTenant(S, NoTenant))
      <3>1. jiraAccountIDFromPayload(NoId, "host", NoId) = "host"
        BY <1>3 DEF jiraAccountIDFromPayload
      <3> HIDE DEF S
      <3> QED BY <1>3, <1>8, <2>1, <3>1 DEF Heard, JiraStateID, pickBestJiraInstallation
    <2> HIDE DEF S
    <2> QED BY <1>4, <1>5, <2>2, <2>3, <2>4
  <1> QED BY <1>2, <1>6, <1>7, <1>8 DEF Backs

\* The row that backs a promise makes the tenant hear its events.
LEMMA IInvImplies ==
    ASSUME LInv, IInv
    PROVE  InstalledIsHeard
  <1> SUFFICES ASSUME NEW x \in told
               PROVE  \/ \E r \in installs : r.prov = x[1] /\ r.tenant # x[3]
                      \/ \E r \in installs : r.prov = "atlassian" /\ r.acct = "cloud"
                      \/ \E h \in Heard(x[1], x[2]) : h.tenant = x[3]
    BY DEF InstalledIsHeard
  <1>1. PICK r \in installs : Backs(r, x)
    BY DEF IInv
  <1>2. CASE r.acct = "cloud" /\ r.prov = "atlassian"
    BY <1>2
  <1>3. CASE r.prov = "atlassian" => r.acct # "cloud"
    BY <1>1, <1>3, HeardIsRow
  <1> QED BY <1>2, <1>3

\* The three ways in which a step changes the installations.
LEMMA HeardStill ==
    ASSUME IInv, UNCHANGED <<installs, now, told>>
    PROVE  IInv'
  BY DEF IInv

\* A deletion withdraws the promises that its rows backed.
LEMMA HeardDeleted ==
    ASSUME IInv, installs' \subseteq installs, now' = now, told' = Forget(installs \ installs')
    PROVE  IInv'
  <1> SUFFICES ASSUME NEW x \in told'
               PROVE  \E r \in installs' : Backs(r, x)
    BY DEF IInv
  <1>1. x \in told /\ \A r \in installs \ installs' : x # <<r.prov, r.inst, r.tenant>>
    BY DEF Forget
  <1>2. PICK r \in installs : Backs(r, x)
    BY <1>1 DEF IInv
  <1> QED BY <1>1, <1>2 DEF Backs

\* A written row backs what the row it replaces backed, and a new promise.
LEMMA HeardWritten ==
    ASSUME LInv, IInv, NEW row \in InstallRows, installs' = UpsertInstallation(installs, row, now),
           now' = now + 1,
           \A x \in told' : x \in told \/ (Backs(row, x) /\ ~UpsertFails(installs, row))
    PROVE  IInv'
  <1>1. now \in Nat /\ \A r \in installs : r.at \in Nat
    BY DEF LInv, TypeOK, InstallRows
  <1>2. PICK w \in InstallRows : Written(w, row, now) /\ Upserted(installs, installs', row, w)
    BY <1>1, UpsertRows
  <1>3. \A r \in installs' : r \in installs \/ r = w
    BY <1>2 DEF Upserted
  <1>4. \A r \in installs' : r.at < now'
    BY <1>1, <1>2, <1>3 DEF IInv, Written
  <1>5. \A s, x : InstallIndex(s) = InstallIndex(row) /\ Backs(s, x) => Backs(w, x)
    BY <1>2 DEF InstallIndex, Backs, Written
  <1>6. \A x : Backs(row, x) => Backs(w, x)
    BY <1>5
  <1>7. ASSUME NEW x \in told'
        PROVE  \E r \in installs' : Backs(r, x)
    <2>1. CASE x \in told
      <3>1. PICK r \in installs : Backs(r, x)
        BY <2>1 DEF IInv
      <3> QED BY <1>2, <1>5, <3>1 DEF Upserted
    <2>2. CASE Backs(row, x) /\ ~UpsertFails(installs, row)
      BY <1>2, <1>6, <2>2 DEF Upserted
    <2> QED BY <2>1, <2>2
  <1> QED BY <1>4, <1>7 DEF IInv

\* Every further step of a request keeps every promise backed.
LEMMA IInvSteps ==
    ASSUME LInv, IInv, NEW q \in Reqs, Steps(q)
    PROVE  IInv'
  <1> DEFINE l == req[q]
  <1>0. l.row \in InstallRows
    BY RequestTyped DEF Locals
  <1>1. CASE SaveInstallation(q)
    <2>1. \A x : l.pc = "save" /\ l.row.inst # NoId /\ x = <<prov, l.row.inst, l.row.tenant>> => Backs(l.row, x)
      <3>1. LocalOK(prov, l) /\ prov \in {"github", "gitlab", "bitbucket", "slack", "atlassian"}
        BY RequestTyped
      <3> HIDE DEF l
      <3> QED BY <3>1 DEF LocalOK, Backs
    <2>2. \A x \in told' : x \in told \/ (Backs(l.row, x) /\ ~UpsertFails(installs, l.row))
      BY <1>1, <2>1, SaveEffect
    <2>3. installs' = UpsertInstallation(installs, l.row, now) /\ now' = now + 1
      BY <1>1, SaveEffect
    <2> QED BY <1>0, <2>2, <2>3, HeardWritten
  <1>2. CASE DedupeAndAnswer(q)
    BY <1>2, DedupeEffect, HeardDeleted
  <1>3. CASE Refresh(q) \/ RefreshFails(q)
    BY <1>3, RefreshEffect, RefreshFailsEffect, HeardStill
  <1>4. CASE Persist(q)
    BY <1>0, <1>4, PersistEffect, HeardStill, HeardWritten
  <1>5. CASE \E row \in req[q].rows : NextInstallation(q, row)
    BY <1>5, NextInstallationEffect, HeardStill
  <1>6. CASE ListFails(q) \/ InstallEventDone(q)
    BY <1>6, EndEffect, HeardStill
  <1>7. CASE \E r \in req[q].todo : ReadNamespace(q, r)
    BY <1>7, ReadNamespaceEffect, HeardStill
  <1>8. CASE WriteNamespace(q)
    BY <1>8, WriteNamespaceEffect, HeardStill
  <1>9. CASE ListHooks(q) \/ ChangeHooks(q)
    BY <1>9, ListHooksEffect, ChangeHooksEffect, HeardStill
  <1>10. CASE WriteSwitch(q)
    BY <1>10, WriteSwitchEffect, HeardStill
  <1>11. CASE ReadEventRecord(q)
    BY <1>11, ReadEventRecordEffect, HeardStill
  <1>12. CASE WriteEventRecord(q)
    <2>1. \A T : DeleteInstallation(T, l.ctx, "github", l.row.acct, l.row.inst, l.row.key) \subseteq T
      BY DEF DeleteInstallation
    <2>2. \/ installs' \subseteq installs /\ now' = now /\ told' = Forget(installs \ installs')
          \/ installs' = UpsertInstallation(installs, l.row, now) /\ now' = now + 1 /\ told' = told
          \/ UNCHANGED <<installs, now, told>>
      BY <1>12, <2>1, WriteEventRecordEffect
    <2> QED BY <1>0, <2>2, HeardStill, HeardDeleted, HeardWritten
  <1>13. CASE ListEventNamespaces(q)
    BY <1>13, ListEventNamespacesEffect, HeardStill
  <1>14. CASE \E r \in req[q].drop : DropNamespace(q, r)
    BY <1>14, DropNamespaceEffect, HeardStill
  <1>15. CASE \E r \in req[q].todo : AddNamespace(q, r)
    BY <1>15, AddNamespaceEffect, HeardStill
  <1> QED BY <1>1, <1>2, <1>3, <1>4, <1>5, <1>6, <1>7, <1>8, <1>9, <1>10, <1>11, <1>12, <1>13, <1>14,
             <1>15 DEF Steps

\* Every first step of a request, and every API call, does too.
LEMMA IInvRequests ==
    ASSUME LInv, IInv, NEW q \in Reqs, Requests(q) \/ Events(q)
    PROVE  IInv'
  <1>1. ASSUME NEW t, NEW k, Callback(q, prov, t, k)
        PROVE  IInv'
    BY <1>1, HeardStill DEF Callback, table, history
  <1>2. ASSUME NEW t, NEW i, NEW k, GetSCMClient(q, prov, t, i, k)
        PROVE  IInv'
    BY <1>2, HeardStill DEF GetSCMClient, table, history
  <1>3. ASSUME NEW t, NEW a, SyncNamespaces(q, prov, t, a)
        PROVE  IInv'
    BY <1>3, HeardStill DEF SyncNamespaces, table, history
  <1>4. ASSUME NEW t, NEW r, NEW want, SetNamespaceWebhook(q, prov, t, r, want)
        PROVE  IInv'
    BY <1>4, HeardStill DEF SetNamespaceWebhook, table, history
  <1>5. ASSUME NEW t \in TenantIds, NEW i \in GitHubIds, NEW k \in Keys, UpsertInstallationAPI(q, prov, t, i, k)
        PROVE  IInv'
    BY <1>5, UpsertAPIEffect, HeardWritten
  <1>6. ASSUME NEW t, NEW i, NEW k, DeleteInstallationAPI(q, prov, t, "org", i, k)
        PROVE  IInv'
    BY <1>6, DeleteAPIEffect, HeardDeleted
  <1>7. CASE Events(q)
    BY <1>7, HeardStill DEF Events, InstallEvent, table, history
  <1> QED BY <1>1, <1>2, <1>3, <1>4, <1>5, <1>6, <1>7 DEF Requests

\* The tenant of a callback that answered without warning receives the events
\* of its installation for as long as the row is there and no other tenant has
\* one, however its later callbacks, events and refreshes write the row.
THEOREM IntegrationsInstalledIsHeard == Spec => []InstalledIsHeard
  <1>1. Init => LInv /\ IInv
    BY LInvInit DEF Init, InitState, IInv
  <1>2. LInv /\ IInv /\ [Next]_vars => (LInv /\ IInv)'
    <2> SUFFICES ASSUME LInv, IInv, [Next]_vars
                 PROVE  IInv'
      BY LInvNext
    <2>1. CASE UNCHANGED vars
      BY <2>1, HeardStill DEF vars, table, history
    <2>2. ASSUME NEW g \in 1 .. issued, Age(g)
          PROVE  IInv'
      BY <2>2, HeardStill DEF Age, table, history
    <2> QED BY <2>1, <2>2, IInvSteps, IInvRequests DEF Next
  <1>3. LInv /\ IInv => InstalledIsHeard
    BY IInvImplies
  <1> QED BY <1>1, <1>2, <1>3, PTL DEF Spec

-----------------------------------------------------------------------------
(* Namespaces and their webhooks.                                           *)

\* The repository has rows of two tenants or instances.
Several(r) == \E n, m \in namespaces : n # m /\ n.repo = r /\ m.repo = r

\* The record that was read, or one that has replaced it, is in the table.
Known(n) == \E s \in namespaces : NamespaceRecordID(s) = NamespaceRecordID(n)

\* The steps at which l holds a record it has read.
HoldsNs(l) == l.pc \in {"hooks", "hook", "switch"} \/ (l.pc = "put" /\ l.ns # NoNs)

\* Request q has changed the hooks of r and has not recorded it yet.
Switching(r, q) == req[q].pc = "switch" /\ req[q].ns.repo = r

\* A change of the hooks that nothing came across.
Clean(q) ==
    LET r == req[q].ns.repo
    IN  \/ r \in stale \/ Several(r)
        \/ /\ hooks[r] = IF req[q].want THEN 1 ELSE 0
           /\ \A o \in Reqs \ {q} : ~Switching(r, o)

\* HookRecorded of one row.
Recorded(n) ==
    \/ n.repo \in stale \/ Several(n.repo)
    \/ \E q \in Reqs : Switching(n.repo, q)
    \/ hooks[n.repo] = IF n.on THEN 1 ELSE 0

\* The record id is the primary key of the namespaces.
UniqueNs == \A n, m \in namespaces : NamespaceRecordID(n) = NamespaceRecordID(m) => n = m

\* No hook without a record, and every record right but for what is on its way.
HookParts ==
    /\ \A r \in AllRepos : (\A n \in namespaces : n.repo # r) => hooks[r] = 0
    /\ \A q \in Reqs : HoldsNs(req[q]) => Known(req[q].ns)
    /\ \A q \in Reqs : req[q].pc = "switch" => Clean(q)
    /\ \A n \in namespaces : Recorded(n)

HInv == UniqueNs /\ (prov \in HookProvs => HookParts)

\* The record id holds the repository.
LEMMA RecordIDRepo ==
    ASSUME NEW n, NEW m, NamespaceRecordID(n) = NamespaceRecordID(m)
    PROVE  n.repo = m.repo
  BY DEF NamespaceRecordID

\* What a write of a namespace keeps.
LEMMA UpsertNamespaceKeeps ==
    ASSUME UniqueNs, NEW n, namespaces' = UpsertNamespace(namespaces, n)
    PROVE  /\ UniqueNs'
           /\ n \in namespaces'
           /\ \A s \in namespaces' : s = n \/ (s \in namespaces /\ NamespaceRecordID(s) # NamespaceRecordID(n))
           /\ \A s \in namespaces : s \in namespaces' \/ NamespaceRecordID(s) = NamespaceRecordID(n)
           /\ \A s : Known(s) => \E t \in namespaces' : NamespaceRecordID(t) = NamespaceRecordID(s)
           /\ \A r : Several(r) => Several(r)'
  <1>1. /\ n \in namespaces'
        /\ \A s \in namespaces' : s = n \/ (s \in namespaces /\ NamespaceRecordID(s) # NamespaceRecordID(n))
        /\ \A s \in namespaces : s \in namespaces' \/ NamespaceRecordID(s) = NamespaceRecordID(n)
    BY DEF UpsertNamespace
  <1>2. UniqueNs'
    BY <1>1 DEF UniqueNs
  <1>3. \A s \in namespaces : \E t \in namespaces' : NamespaceRecordID(t) = NamespaceRecordID(s)
    BY <1>1
  <1>4. ASSUME NEW r, Several(r)
        PROVE  Several(r)'
    <2>1. PICK a, b \in namespaces : a # b /\ a.repo = r /\ b.repo = r
      BY <1>4 DEF Several
    <2>2. NamespaceRecordID(a) # NamespaceRecordID(b)
      BY <2>1 DEF UniqueNs
    <2>3. PICK c \in namespaces' : NamespaceRecordID(c) = NamespaceRecordID(a)
      BY <1>3
    <2>4. PICK d \in namespaces' : NamespaceRecordID(d) = NamespaceRecordID(b)
      BY <1>3
    <2>5. c.repo = r /\ d.repo = r
      BY <2>1, <2>3, <2>4, RecordIDRepo
    <2> QED BY <2>2, <2>3, <2>4, <2>5 DEF Several
  <1> QED BY <1>1, <1>2, <1>3, <1>4 DEF Known

\* Where the requests are after the step of one.
LEMMA RequestsAfter ==
    ASSUME LInv, NEW q \in Reqs, NEW m, Moves(q, m)
    PROVE  req'[q] = m /\ \A o \in Reqs \ {q} : req'[o] = req[o]
  BY DEF Moves, LInv, TypeOK

\* A step that leaves the namespaces and the hooks alone.
LEMMA HooksStill ==
    ASSUME HInv, UNCHANGED <<prov, namespaces, hooks, stale, req>>
    PROVE  HInv'
  BY DEF HInv, UniqueNs, HookParts, Known, Clean, Recorded, Several, Switching

\* A step that touches neither the namespaces nor the hooks, and is not at the
\* switch, keeps the records right.
LEMMA HooksMove ==
    ASSUME LInv, HInv, NEW q \in Reqs, NEW m, Moves(q, m),
           UNCHANGED <<prov, namespaces, hooks, stale>>,
           req[q].pc # "switch", m.pc # "switch", HoldsNs(m) => Known(m.ns)
    PROVE  HInv'
  <1>1. req'[q] = m /\ \A o \in Reqs \ {q} : req'[o] = req[o]
    BY RequestsAfter
  <1>2. UniqueNs'
    BY DEF HInv, UniqueNs
  <1>3. \A r : (Several(r)' <=> Several(r)) /\ \A o \in Reqs : Switching(r, o)' <=> Switching(r, o)
    BY <1>1 DEF Several, Switching
  <1>4. \A n : Known(n)' <=> Known(n)
    BY DEF Known
  <1>5. ASSUME HookParts
        PROVE  HookParts'
    <2>1. \A r \in AllRepos : (\A n \in namespaces' : n.repo # r) => hooks'[r] = 0
      BY <1>5 DEF HookParts
    <2>2. ASSUME NEW o \in Reqs, HoldsNs(req'[o])
          PROVE  \E s \in namespaces' : NamespaceRecordID(s) = NamespaceRecordID(req'[o].ns)
      BY <1>1, <1>5, <2>2 DEF HookParts, Known
    <2>3. ASSUME NEW o \in Reqs, req'[o].pc = "switch"
          PROVE  Clean(o)'
      <3>1. o # q /\ req'[o] = req[o]
        BY <1>1, <2>3
      <3>2. Clean(o)
        BY <1>5, <2>3, <3>1 DEF HookParts
      <3> QED BY <1>3, <3>1, <3>2 DEF Clean
    <2>4. ASSUME NEW n \in namespaces'
          PROVE  Recorded(n)'
      <3>1. Recorded(n)
        BY <1>5 DEF HookParts
      <3> QED BY <1>3, <3>1 DEF Recorded
    <2> QED BY <2>1, <2>2, <2>3, <2>4 DEF HookParts, Known
  <1> QED BY <1>2, <1>5 DEF HInv

\* The write of a namespace by request q, which is done with its record: all
\* that is left to show is about the rows of the repository written.
LEMMA HooksWrite ==
    ASSUME LInv, HInv, NEW q \in Reqs, NEW m, Moves(q, m), NEW n,
           namespaces' = UpsertNamespace(namespaces, n), UNCHANGED <<prov, hooks>>,
           stale \subseteq stale', m.pc # "switch", ~HoldsNs(m),
           req[q].pc = "switch" => req[q].ns.repo = n.repo,
           prov \in HookProvs => \A s \in namespaces' : s.repo = n.repo => Recorded(s)'
    PROVE  HInv'
  <1>1. req'[q] = m /\ \A o \in Reqs \ {q} : req'[o] = req[o]
    BY RequestsAfter
  <1>2. /\ UniqueNs' /\ n \in namespaces'
        /\ \A s \in namespaces' : s = n \/ (s \in namespaces /\ NamespaceRecordID(s) # NamespaceRecordID(n))
        /\ \A s : Known(s) => \E t \in namespaces' : NamespaceRecordID(t) = NamespaceRecordID(s)
        /\ \A r : Several(r) => Several(r)'
    BY UpsertNamespaceKeeps DEF HInv
  <1>3. \A r, o : o \in Reqs /\ Switching(r, o)' => Switching(r, o)
    BY <1>1 DEF Switching
  <1>4. \A r, o : o \in Reqs /\ Switching(r, o) => Switching(r, o)' \/ r = n.repo
    BY <1>1 DEF Switching
  <1>5. ASSUME HookParts, prov \in HookProvs
        PROVE  HookParts'
    <2>1. ASSUME NEW r \in AllRepos, \A s \in namespaces' : s.repo # r
          PROVE  hooks'[r] = 0
      <3>1. \A s \in namespaces : s.repo # r
        BY <1>2, <2>1, RecordIDRepo DEF Known
      <3> QED BY <1>5, <3>1 DEF HookParts
    <2>2. ASSUME NEW o \in Reqs, HoldsNs(req'[o])
          PROVE  \E s \in namespaces' : NamespaceRecordID(s) = NamespaceRecordID(req'[o].ns)
      <3>1. o # q /\ req'[o] = req[o]
        BY <1>1, <2>2
      <3>2. Known(req[o].ns)
        BY <1>5, <2>2, <3>1 DEF HookParts
      <3> QED BY <1>2, <3>1, <3>2
    <2>3. ASSUME NEW o \in Reqs, req'[o].pc = "switch"
          PROVE  Clean(o)'
      <3>1. o # q /\ req'[o] = req[o]
        BY <1>1, <2>3
      <3>2. Clean(o)
        BY <1>5, <2>3, <3>1 DEF HookParts
      <3> QED BY <1>2, <1>3, <3>1, <3>2 DEF Clean
    <2>4. ASSUME NEW s \in namespaces'
          PROVE  Recorded(s)'
      <3>1. CASE s.repo = n.repo
        BY <1>5, <3>1
      <3>2. CASE s.repo # n.repo
        <4>1. s \in namespaces
          BY <1>2, <3>2
        <4>2. Recorded(s)
          BY <1>5, <4>1 DEF HookParts
        <4> QED BY <1>2, <1>4, <3>2, <4>2 DEF Recorded
      <3> QED BY <3>1, <3>2
    <2> QED BY <2>1, <2>2, <2>3, <2>4 DEF HookParts, Known
  <1> QED BY <1>2, <1>5 DEF HInv

\* WriteNamespace keeps the records right: it writes the switch it has read,
\* and when another one was there the repository is stale.
LEMMA HooksWriteNamespace ==
    ASSUME LInv, HInv, prov' = prov, NEW q \in Reqs, WriteNamespace(q)
    PROVE  HInv'
  <1> DEFINE l == req[q]
  <1>1. PICK m : \E n \in NamespaceRows :
             /\ l.pc = "put" /\ Moves(q, m) /\ m.pc \in {"get", "rows", "idle"}
             /\ n.repo \in l.drop /\ n.repo \in AllRepos
             /\ prov \in HookProvs => n.on = (IF l.ns = NoNs THEN FALSE ELSE l.ns.on)
             /\ namespaces' = UpsertNamespace(namespaces, n)
             /\ stale' = IF {s \in namespaces : NamespaceRecordID(s) = NamespaceRecordID(n)} \subseteq {l.ns}
                         THEN stale ELSE stale \cup {n.repo}
             /\ hooks' = hooks
    BY WriteNamespaceEffect
  <1>2. PICK n \in NamespaceRows :
             /\ n.repo \in l.drop /\ n.repo \in AllRepos
             /\ prov \in HookProvs => n.on = (IF l.ns = NoNs THEN FALSE ELSE l.ns.on)
             /\ namespaces' = UpsertNamespace(namespaces, n)
             /\ stale' = IF {s \in namespaces : NamespaceRecordID(s) = NamespaceRecordID(n)} \subseteq {l.ns}
                         THEN stale ELSE stale \cup {n.repo}
    BY <1>1
  <1>3. /\ n \in namespaces'
        /\ \A s \in namespaces' : s = n \/ (s \in namespaces /\ NamespaceRecordID(s) # NamespaceRecordID(n))
        /\ \A s \in namespaces : s \in namespaces' \/ NamespaceRecordID(s) = NamespaceRecordID(n)
        /\ \A r : Several(r) => Several(r)'
    BY <1>2, UpsertNamespaceKeeps DEF HInv
  <1>4. ASSUME prov \in HookProvs, NEW s \in namespaces', s.repo = n.repo
        PROVE  Recorded(s)'
    <2>0. HookParts
      BY <1>4 DEF HInv
    <2>1. CASE n.repo \in stale'
      BY <1>4, <2>1 DEF Recorded
    <2>2. CASE s # n
      BY <1>3, <1>4, <2>2 DEF Recorded, Several
    <2>3. CASE s = n /\ n.repo \notin stale'
      <3>1. \A t \in namespaces : NamespaceRecordID(t) = NamespaceRecordID(n) => t = l.ns
        BY <1>2, <2>3
      <3>2. CASE l.ns \in namespaces /\ NamespaceRecordID(l.ns) = NamespaceRecordID(n)
        <4>1. l.ns.repo = n.repo /\ l.ns # NoNs
          BY <1>2, <3>2, RecordIDRepo, Constants, IntegrationAssumption
        <4>2. Recorded(l.ns)
          BY <2>0, <3>2 DEF HookParts
        <4>3. \A o \in Reqs : Switching(n.repo, o) => Switching(n.repo, o)'
          BY <1>1, RequestsAfter DEF Switching
        <4>4. n.on = l.ns.on
          BY <1>2, <1>4, <4>1
        <4>5. stale \subseteq stale' /\ hooks' = hooks
          BY <1>1, <1>2
        <4> QED BY <1>3, <2>3, <4>1, <4>2, <4>3, <4>4, <4>5 DEF Recorded
      <3>3. CASE \A t \in namespaces : NamespaceRecordID(t) # NamespaceRecordID(n)
        <4>1. ASSUME NEW t \in namespaces, t.repo = n.repo
              PROVE  Recorded(n)'
          <5>1. t \in namespaces' /\ t # n
            BY <1>3, <3>3, <4>1
          <5> QED BY <1>3, <4>1, <5>1 DEF Recorded, Several
        <4>2. CASE \A t \in namespaces : t.repo # n.repo
          <5>1. hooks'[n.repo] = 0
            BY <1>1, <1>2, <2>0, <4>2 DEF HookParts
          <5>2. l.ns = NoNs
            <6>1. LocalOK(prov, l) /\ l.pc = "put"
              BY <1>1, RequestTyped
            <6>2. l.ns # NoNs => l.ns.repo = n.repo
              BY <1>2, <6>1 DEF LocalOK
            <6>3. l.ns # NoNs => Known(l.ns)
              BY <1>1, <2>0 DEF HookParts, HoldsNs
            <6> QED BY <4>2, <6>2, <6>3, RecordIDRepo DEF Known
          <5>3. n.on = FALSE
            BY <1>2, <1>4, <5>2
          <5> QED BY <2>3, <5>1, <5>3 DEF Recorded
        <4> QED BY <2>3, <4>1, <4>2
      <3> QED BY <3>1, <3>2, <3>3
    <2> QED BY <2>1, <2>2, <2>3
  <1>5. m.pc # "switch" /\ ~HoldsNs(m) /\ stale \subseteq stale'
    BY <1>1, <1>2 DEF HoldsNs
  <1> QED BY <1>1, <1>2, <1>4, <1>5, HooksWrite

\* WriteSwitch records the change that ChangeHooks made.
LEMMA HooksWriteSwitch ==
    ASSUME LInv, HInv, prov' = prov, NEW q \in Reqs, WriteSwitch(q)
    PROVE  HInv'
  <1> DEFINE l == req[q]
  <1>1. PICK n \in NamespaceRows :
             /\ l.pc = "switch" /\ Moves(q, Idle)
             /\ NamespaceRecordID(n) = NamespaceRecordID(l.ns)
             /\ n.repo = l.ns.repo /\ n.on = l.want
             /\ \/ /\ namespaces' = UpsertNamespace(namespaces, n)
                   /\ stale' = IF {s \in namespaces : NamespaceRecordID(s) = NamespaceRecordID(n)} = {l.ns}
                               THEN stale ELSE stale \cup {n.repo}
                \/ stale' = stale \cup {n.repo} /\ UNCHANGED namespaces
             /\ hooks' = hooks
    BY WriteSwitchEffect
  <1>0. prov \in HookProvs /\ HookParts
    <2>1. prov \in HookProvs
      BY <1>1, RequestTyped DEF LocalOK
    <2> QED BY <2>1 DEF HInv
  <1>2. Idle.pc # "switch" /\ ~HoldsNs(Idle) /\ stale \subseteq stale'
    BY <1>1 DEF Idle, HoldsNs
  <1>3. CASE namespaces' = UpsertNamespace(namespaces, n)
    <2>1. /\ n \in namespaces'
          /\ \A s \in namespaces' : s = n \/ (s \in namespaces /\ NamespaceRecordID(s) # NamespaceRecordID(n))
          /\ \A r : Several(r) => Several(r)'
      BY <1>3, UpsertNamespaceKeeps DEF HInv
    <2>2. ASSUME NEW s \in namespaces', s.repo = n.repo
          PROVE  Recorded(s)'
      <3>1. CASE s # n
        BY <2>1, <2>2, <3>1 DEF Recorded, Several
      <3>2. CASE s = n
        <4>1. Clean(q)
          BY <1>0, <1>1 DEF HookParts
        <4> QED BY <1>1, <1>2, <2>1, <3>2, <4>1 DEF Clean, Recorded
      <3> QED BY <3>1, <3>2
    <2> QED BY <1>1, <1>2, <1>3, <2>2, HooksWrite
  <1>4. CASE stale' = stale \cup {n.repo} /\ UNCHANGED namespaces
    <2>1. req'[q] = Idle /\ \A o \in Reqs \ {q} : req'[o] = req[o]
      BY <1>1, RequestsAfter
    <2>2. \A r : Several(r)' <=> Several(r)
      BY <1>4 DEF Several
    <2>3. \A r, o : o \in Reqs /\ Switching(r, o)' => Switching(r, o)
      BY <1>2, <2>1 DEF Switching
    <2>4. \A r, o : o \in Reqs /\ Switching(r, o) => Switching(r, o)' \/ r = n.repo
      BY <1>1, <2>1 DEF Switching
    <2>5. \A r \in AllRepos : (\A s \in namespaces' : s.repo # r) => hooks'[r] = 0
      BY <1>0, <1>1, <1>4 DEF HookParts
    <2>6. ASSUME NEW o \in Reqs, HoldsNs(req'[o])
          PROVE  \E s \in namespaces' : NamespaceRecordID(s) = NamespaceRecordID(req'[o].ns)
      BY <1>0, <1>2, <1>4, <2>1, <2>6 DEF HookParts, Known
    <2>7. ASSUME NEW o \in Reqs, req'[o].pc = "switch"
          PROVE  Clean(o)'
      <3>1. o # q /\ req'[o] = req[o]
        BY <1>2, <2>1, <2>7
      <3>2. Clean(o)
        BY <1>0, <2>7, <3>1 DEF HookParts
      <3> QED BY <1>1, <1>2, <2>2, <2>3, <3>1, <3>2 DEF Clean
    <2>8. ASSUME NEW s \in namespaces'
          PROVE  Recorded(s)'
      <3>1. Recorded(s)
        BY <1>0, <1>4 DEF HookParts
      <3> QED BY <1>1, <1>4, <2>2, <2>4, <3>1 DEF Recorded
    <2>9. UniqueNs'
      BY <1>4 DEF HInv, UniqueNs
    <2> QED BY <2>5, <2>6, <2>7, <2>8, <2>9 DEF HInv, HookParts, Known
  <1> QED BY <1>1, <1>3, <1>4

\* ChangeHooks leaves as many hooks as were asked for, unless something came
\* across it, and is then about to record them.
LEMMA HooksChange ==
    ASSUME LInv, HInv, prov' = prov, NEW q \in Reqs, ChangeHooks(q)
    PROVE  HInv'
  <1> DEFINE l == req[q]
             r == l.ns.repo
             h == hooks[r]
             add == l.want /\ ~l.seen
             del == ~l.want /\ l.seen
  <1>1. PICK m :
             /\ l.pc = "hook" /\ Moves(q, m)
             /\ \/ /\ m.pc = "switch" /\ m.ns = l.ns /\ m.want = l.want
                   /\ hooks' = [hooks EXCEPT ![r] = IF add THEN @ + 1 ELSE IF del THEN @ - 1 ELSE @]
                   /\ stale' = IF l.seen = (h > 0) /\ ~Overlapped(q) THEN stale ELSE stale \cup {r}
                \/ m.pc = "idle" /\ UNCHANGED <<hooks, stale>>
             /\ namespaces' = namespaces
    BY ChangeHooksEffect
  <1>2. CASE m.pc = "idle" /\ UNCHANGED <<hooks, stale>>
    BY <1>1, <1>2, HooksMove DEF HoldsNs
  <1>3. CASE /\ m.pc = "switch" /\ m.ns = l.ns /\ m.want = l.want
             /\ hooks' = [hooks EXCEPT ![r] = IF add THEN @ + 1 ELSE IF del THEN @ - 1 ELSE @]
             /\ stale' = IF l.seen = (h > 0) /\ ~Overlapped(q) THEN stale ELSE stale \cup {r}
    <2>0. prov \in HookProvs /\ HookParts /\ r \in AllRepos /\ l.seen \in BOOLEAN /\ l.want \in BOOLEAN
      <3>1. prov \in HookProvs /\ r \in AllRepos
        BY <1>1, RequestTyped DEF LocalOK
      <3>2. l.seen \in BOOLEAN /\ l.want \in BOOLEAN
        BY RequestTyped DEF Locals
      <3> QED BY <3>1, <3>2 DEF HInv
    <2>1. req'[q] = m /\ \A o \in Reqs \ {q} : req'[o] = req[o]
      BY <1>1, RequestsAfter
    <2>2. \A x : Several(x)' <=> Several(x)
      BY <1>1 DEF Several
    <2>3. stale \subseteq stale' /\ hooks \in [AllRepos -> Nat]
      BY <1>3 DEF LInv, TypeOK
    <2>4. \A x \in AllRepos : x # r => hooks'[x] = hooks[x]
      BY <1>3, <2>3
    <2>5. PICK n \in namespaces : NamespaceRecordID(n) = NamespaceRecordID(l.ns)
      BY <1>1, <2>0 DEF HookParts, HoldsNs, Known
    <2>6. n.repo = r
      BY <2>5, RecordIDRepo
    <2>7. ASSUME r \notin stale', ~Several(r)
          PROVE  /\ hooks'[r] = IF l.want THEN 1 ELSE 0
                 /\ \A o \in Reqs \ {q} : ~Switching(r, o)
      <3>1. l.seen = (h > 0) /\ ~Overlapped(q) /\ r \notin stale
        BY <1>3, <2>7
      <3>2. \A o \in Reqs \ {q} : ~Switching(r, o)
        BY <3>1 DEF Overlapped, Switching
      <3>3. h = IF n.on THEN 1 ELSE 0
        <4>1. Recorded(n)
          BY <2>0, <2>5 DEF HookParts
        <4>2. ~Switching(r, q)
          BY <1>1 DEF Switching
        <4> QED BY <2>6, <2>7, <3>1, <3>2, <4>1, <4>2 DEF Recorded
      <3>4. hooks'[r] = IF add THEN h + 1 ELSE IF del THEN h - 1 ELSE h
        BY <1>3, <2>0, <2>3
      <3>5. hooks'[r] = IF l.want THEN 1 ELSE 0
        <4>1. h \in {0, 1} /\ (h = 1 => l.seen) /\ (h = 0 => ~l.seen)
          <5>1. (h > 0 => l.seen) /\ (~(h > 0) => ~l.seen)
            BY <2>0, <3>1, Zenon
          <5>2. h \in {0, 1}
            BY <3>3
          <5> QED BY <5>1, <5>2
        <4>2. CASE l.want /\ h = 1
          BY <3>4, <4>1, <4>2
        <4>3. CASE l.want /\ h = 0
          BY <3>4, <4>1, <4>3
        <4>4. CASE ~l.want /\ h = 1
          BY <3>4, <4>1, <4>4
        <4>5. CASE ~l.want /\ h = 0
          BY <3>4, <4>1, <4>5
        <4> QED BY <4>1, <4>2, <4>3, <4>4, <4>5
      <3> QED BY <3>2, <3>5
    <2>8. \A x, o : o \in Reqs \ {q} => (Switching(x, o)' <=> Switching(x, o))
      BY <2>1 DEF Switching
    <2>9. \A x : Switching(x, q)' <=> x = r
      BY <1>3, <2>1 DEF Switching
    <2>10. ASSUME NEW o \in Reqs, req'[o].pc = "switch"
           PROVE  Clean(o)'
      <3>1. CASE o = q
        <4>1. req'[q].ns.repo = r /\ req'[q].want = l.want
          BY <1>3, <2>1
        <4> QED BY <2>2, <2>7, <2>8, <3>1, <4>1 DEF Clean
      <3>2. CASE o # q /\ req[o].ns.repo = r
        <4>1. req'[o] = req[o]
          BY <2>1, <3>2
        <4>2. r \in stale'
          BY <1>3, <2>10, <3>2, <4>1 DEF Overlapped
        <4> QED BY <3>2, <4>1, <4>2 DEF Clean
      <3>3. CASE o # q /\ req[o].ns.repo # r
        <4>1. req'[o] = req[o]
          BY <2>1, <3>3
        <4>2. Clean(o)
          BY <2>0, <2>10, <4>1 DEF HookParts
        <4>3. req[o].ns.repo \in AllRepos
          BY <2>10, <4>1, RequestTyped DEF LocalOK
        <4> QED BY <2>2, <2>3, <2>4, <2>8, <2>9, <3>3, <4>1, <4>2, <4>3 DEF Clean
      <3> QED BY <3>1, <3>2, <3>3
    <2>11. ASSUME NEW s \in namespaces'
           PROVE  Recorded(s)'
      <3>1. CASE s.repo = r
        BY <2>9, <3>1 DEF Recorded
      <3>2. CASE s.repo # r
        <4>1. Recorded(s) /\ s.repo \in AllRepos
          BY <1>1, <2>0 DEF HookParts, LInv, TypeOK
        <4>2. ~Switching(s.repo, q)
          BY <1>1 DEF Switching
        <4> QED BY <2>2, <2>3, <2>4, <2>8, <3>2, <4>1, <4>2 DEF Recorded
      <3> QED BY <3>1, <3>2
    <2>12. \A x \in AllRepos : (\A s \in namespaces' : s.repo # x) => hooks'[x] = 0
      BY <1>1, <2>0, <2>4, <2>5, <2>6 DEF HookParts
    <2>13. ASSUME NEW o \in Reqs, HoldsNs(req'[o])
           PROVE  \E s \in namespaces' : NamespaceRecordID(s) = NamespaceRecordID(req'[o].ns)
      BY <1>1, <1>3, <2>0, <2>1, <2>5, <2>13 DEF HookParts, Known
    <2>14. UniqueNs'
      BY <1>1 DEF HInv, UniqueNs
    <2> QED BY <2>10, <2>11, <2>12, <2>13, <2>14 DEF HInv, HookParts, Known
  <1> QED BY <1>1, <1>2, <1>3

\* Every further step of a request keeps the records right.
LEMMA HInvSteps ==
    ASSUME LInv, LInv', HInv, prov' = prov, NEW q \in Reqs, Steps(q)
    PROVE  HInv'
  <1> DEFINE l == req[q]
  <1>0. \A m : m.pc \notin {"hooks", "hook", "switch", "put"} => ~HoldsNs(m)
    BY DEF HoldsNs
  <1>1. CASE SaveInstallation(q)
    BY <1>0, <1>1, SaveEffect, HooksMove
  <1>2. CASE DedupeAndAnswer(q)
    BY <1>0, <1>2, DedupeEffect, HooksMove
  <1>3. CASE Refresh(q)
    BY <1>0, <1>3, RefreshEffect, HooksMove
  <1>4. CASE RefreshFails(q) \/ ListFails(q) \/ InstallEventDone(q)
    <2>1. Idle.pc = "idle"
      BY DEF Idle
    <2> QED BY <1>0, <1>4, <2>1, RefreshFailsEffect, EndEffect, HooksMove
  <1>5. CASE Persist(q)
    BY <1>0, <1>5, PersistEffect, HooksMove
  <1>6. CASE \E row \in req[q].rows : NextInstallation(q, row)
    BY <1>0, <1>6, NextInstallationEffect, HooksMove
  <1>7. CASE \E r \in req[q].todo : ReadNamespace(q, r)
    BY <1>7, ReadNamespaceEffect, HooksMove DEF HoldsNs, Known
  <1>8. CASE WriteNamespace(q)
    BY <1>8, HooksWriteNamespace
  <1>9. CASE ListHooks(q)
    <2>1. PICK m :
             /\ l.pc = "hooks" /\ Moves(q, m)
             /\ m.pc = "idle" \/ (m.pc = "hook" /\ m.ns = l.ns)
             /\ UNCHANGED <<namespaces, hooks, stale>>
      BY <1>9, ListHooksEffect
    <2>2. prov \in HookProvs
      BY <2>1, RequestTyped DEF LocalOK
    <2>3. Known(l.ns)
      BY <2>1, <2>2 DEF HInv, HookParts, HoldsNs
    <2> QED BY <1>0, <2>1, <2>3, HooksMove
  <1>10. CASE ChangeHooks(q)
    BY <1>10, HooksChange
  <1>11. CASE WriteSwitch(q)
    BY <1>11, HooksWriteSwitch
  <1>12. CASE ReadEventRecord(q)
    BY <1>0, <1>12, ReadEventRecordEffect, HooksMove
  <1>13. CASE WriteEventRecord(q)
    BY <1>0, <1>13, WriteEventRecordEffect, HooksMove
  <1>14. CASE ListEventNamespaces(q)
    BY <1>0, <1>14, ListEventNamespacesEffect, HooksMove
  <1>15. CASE \E r \in req[q].drop : DropNamespace(q, r)
    <2>1. prov = "github" /\ namespaces' \subseteq namespaces
      BY <1>15, DropNamespaceEffect
    <2> QED BY <2>1 DEF HInv, UniqueNs, HookProvs
  <1>16. CASE \E r \in req[q].todo : AddNamespace(q, r)
    <2>1. PICK n \in NamespaceRows : prov = "github" /\ namespaces' = UpsertNamespace(namespaces, n)
      BY <1>16, AddNamespaceEffect
    <2>2. UniqueNs'
      BY <2>1, UpsertNamespaceKeeps DEF HInv
    <2> QED BY <2>1, <2>2 DEF HInv, HookProvs
  <1> QED BY <1>1, <1>2, <1>3, <1>4, <1>5, <1>6, <1>7, <1>8, <1>9, <1>10, <1>11, <1>12, <1>13, <1>14,
             <1>15, <1>16 DEF Steps

\* Every first step of a request, and every API call, does too.
LEMMA HInvRequests ==
    ASSUME LInv, HInv, prov' = prov, NEW q \in Reqs, Requests(q) \/ Events(q)
    PROVE  HInv'
  <1>0. \A m : m.pc \notin {"hooks", "hook", "switch", "put"} => ~HoldsNs(m)
    BY DEF HoldsNs
  <1>a. Idle.pc = "idle"
    BY DEF Idle
  <1>1. ASSUME NEW t \in TenantIds, NEW k \in Keys, Callback(q, prov, t, k)
        PROVE  HInv'
    BY <1>0, <1>a, <1>1, CallbackEffect, HooksMove
  <1>2. ASSUME NEW t \in TenantIds, NEW i \in Ids, NEW k \in Keys \cup {NoId}, GetSCMClient(q, prov, t, i, k)
        PROVE  HInv'
    BY <1>0, <1>a, <1>2, GetSCMClientEffect, HooksMove
  <1>3. ASSUME NEW t \in TenantIds, NEW a \in {NoId, "org"}, SyncNamespaces(q, prov, t, a)
        PROVE  HInv'
    BY <1>0, <1>a, <1>3, SyncEffect, HooksMove
  <1>4. ASSUME NEW t \in TenantIds, NEW r \in Repos[prov], NEW want \in BOOLEAN,
               SetNamespaceWebhook(q, prov, t, r, want)
        PROVE  HInv'
    BY <1>a, <1>4, SetNamespaceWebhookEffect, HooksMove DEF Known
  <1>5. ASSUME NEW t \in TenantIds, NEW i \in GitHubIds, NEW k \in Keys, UpsertInstallationAPI(q, prov, t, i, k)
        PROVE  HInv'
    BY <1>5, UpsertAPIEffect, HooksStill
  <1>6. ASSUME NEW t, NEW i, NEW k, DeleteInstallationAPI(q, prov, t, "org", i, k)
        PROVE  HInv'
    BY <1>6, DeleteAPIEffect, HooksStill
  <1>7. CASE Events(q)
    <2>1. PICK i \in GitHubIds, a \in {"created", "deleted", "removed"},
               added \in SUBSET Repos["github"], removed \in SUBSET Repos["github"] :
             prov = "github" /\ InstallEvent(q, i, a, added, removed)
      BY <1>7 DEF Events
    <2> QED BY <1>0, <1>a, <2>1, InstallEventEffect, HooksMove
  <1> QED BY <1>1, <1>2, <1>3, <1>4, <1>5, <1>6, <1>7 DEF Requests

\* SetNamespaceWebhook changes the provider and then the row, without a lock: a
\* repository of one row has exactly one hook when the row is on and none when
\* it is off, except while a change is on its way and for the repositories
\* where two requests came across each other or a write failed.
THEOREM IntegrationsHookRecorded == Spec => []HookRecorded
  <1>1. Init => LInv /\ HInv
    <2> SUFFICES ASSUME Init PROVE HInv
      BY LInvInit
    <2>1. \A q \in Reqs : req[q].pc = "idle"
      BY DEF Init, InitState, Idle
    <2> QED BY <2>1 DEF Init, InitState, HInv, UniqueNs, HookParts, HoldsNs
  <1>2. LInv /\ HInv /\ [Next]_vars => (LInv /\ HInv)'
    <2> SUFFICES ASSUME LInv, HInv, [Next]_vars
                 PROVE  HInv'
      BY LInvNext
    <2>1. LInv'
      BY LInvNext
    <2>2. CASE UNCHANGED vars
      BY <2>2, HooksStill DEF vars, table, remote, history
    <2>3. ASSUME NEW g \in 1 .. issued, Age(g), prov' = prov
          PROVE  HInv'
      BY <2>3, HooksStill DEF Age, table, history
    <2> QED BY <2>1, <2>2, <2>3, HInvSteps, HInvRequests DEF Next
  <1>3. LInv /\ HInv => HookRecorded
    <2> SUFFICES ASSUME LInv, HInv, NEW n \in namespaces
                 PROVE  \/ n.prov \notin HookProvs \/ n.repo \in stale
                        \/ \E m \in namespaces : m # n /\ m.repo = n.repo
                        \/ \E q \in Reqs : At(q, "switch") /\ req[q].ns.repo = n.repo
                        \/ hooks[n.repo] = IF n.on THEN 1 ELSE 0
      BY DEF HookRecorded
    <2>1. n.prov = prov
      BY DEF LInv, TypeOK
    <2>2. prov \in HookProvs => Recorded(n)
      BY DEF HInv, HookParts
    <2> QED BY <2>1, <2>2 DEF Recorded, Several, Switching, At
  <1> QED BY <1>1, <1>2, <1>3, PTL DEF Spec

-----------------------------------------------------------------------------
(* Refresh tokens.                                                          *)

\* The rows a request may still use the token of, or write back.
Held(l) ==
    (IF l.pc \in {"save", "refresh", "persist", "record"} THEN {l.row} ELSE {}) \cup l.rows
\* Every row with a token that is stored or still in a request.
Holders == installs \cup UNION {Held(req[q]) : q \in Reqs}
\* The rows that a step of q can take a token from.
Sources(q) == installs \cup Held(req[q])

\* A request that is about to store a token that only it has.
Writing(l) == l.pc = "save" \/ (l.pc = "persist" /\ ~l.blind)

\* The rows that SyncNamespaces writes back as it has read them.
Versions(l) == (IF l.pc = "persist" /\ l.blind THEN {l.row} ELSE {}) \cup l.rows

\* No token of the provider of this behaviour is ever replaced.
Lasting == prov = "github" \/ prov \notin Rotating

\* Request q holds the token that is to replace the one of row r.
Replacing(q, r) ==
    req[q].pc = "persist" /\ ~req[q].blind /\ InstallIndex(req[q].row) = InstallIndex(r)

\* The record id is the primary key of the installations.
UniqueIds == \A r, s \in installs : InstallRecordID(r) = InstallRecordID(s) => r = s

\* The clocks of the tokens and of the rows run ahead of every row.
Base ==
    /\ now > 0 /\ UniqueIds
    /\ \A h \in Holders : h.ref <= issued /\ h.at < now

\* A token that lasts is accepted wherever it is held.
Accepted == \A h \in Holders : h.ref # 0 => h.ref \in accepted

\* A token belongs to one installation.
OneIndex == \A h, k \in Holders : h.ref = k.ref /\ h.ref # 0 => InstallIndex(h) = InstallIndex(k)

\* A request that writes a token it got is the only one that has it.
OnlyWriter ==
    \A q \in Reqs : Writing(req[q]) =>
        /\ req[q].row.ref \in accepted /\ req[q].row.ref # 0
        /\ \A r \in installs \cup req[q].rows : r.ref # req[q].row.ref
        /\ \A o \in Reqs \ {q} : \A h \in Held(req[o]) : h.ref # req[q].row.ref

\* Two versions of a row with the same updated_at are the same.
SameVersion ==
    \A q \in Reqs : \A h \in Versions(req[q]) : \A s \in installs :
        InstallIndex(s) = InstallIndex(h) /\ s.at = h.at => s = h

\* StoredTokenWorks of the tables alone.
Works ==
    \A r \in installs : r.ref # 0 /\ r.ref \notin accepted \cup spent =>
        \E q \in Reqs : Replacing(q, r)

TInv ==
    /\ Base
    /\ Lasting => Accepted
    /\ ~Lasting => OneIndex /\ OnlyWriter /\ SameVersion /\ Works

\* The token of h is one that request q or the table had, of the same row.
Old(q, h) ==
    \/ h.ref = 0
    \/ \E k \in Sources(q) : h.ref = k.ref /\ (Lasting \/ InstallIndex(h) = InstallIndex(k))

\* The token of h was issued in this step.
Fresh(h) == h.ref = issued + 1 /\ issued' = issued + 1 /\ issued + 1 \in accepted'

\* Membership in the rows that are held, spelt out.
LEMMA HoldersAre ==
    /\ \A h : h \in Holders <=> h \in installs \/ \E q \in Reqs : h \in Held(req[q])
    /\ \A l, h : h \in Held(l) <=> h \in l.rows
                    \/ (l.pc \in {"save", "refresh", "persist", "record"} /\ h = l.row)
    /\ \A l, h : h \in Versions(l) <=> h \in l.rows \/ (l.pc = "persist" /\ l.blind /\ h = l.row)
    /\ \A l : Versions(l) \subseteq Held(l)
  BY DEF Holders, Held, Versions

\* The holders after the step of q to m.
LEMMA HoldersAfter ==
    ASSUME LInv, NEW q \in Reqs, NEW m, Moves(q, m)
    PROVE  \A h : h \in Holders' => \/ h \in installs' \cup Held(m)
                                    \/ \E o \in Reqs \ {q} : h \in Held(req[o])
  <1>1. req'[q] = m /\ \A o \in Reqs \ {q} : req'[o] = req[o]
    BY RequestsAfter
  <1>2. \A h : h \in Holders' => h \in installs' \/ \E o \in Reqs : h \in Held(req'[o])
    BY DEF Holders
  <1> QED BY <1>1, <1>2

\* Every row that is held is well typed.
LEMMA HoldersTyped ==
    ASSUME LInv
    PROVE  \A h \in Holders : h \in InstallRows /\ h.ref \in Nat /\ h.at \in Nat
  <1>1. \A q \in Reqs : req[q].row \in InstallRows /\ req[q].rows \subseteq InstallRows
    BY RequestTyped DEF Locals
  <1>2. \A h \in Holders : h \in InstallRows
    BY <1>1, HoldersAre DEF LInv, TypeOK
  <1> QED BY <1>2 DEF InstallRows

\* What a step has to show about the tokens: the rows it leaves hold tokens that
\* it or the table had before, or one that was issued in this very step.
LEMMA TokenStep ==
    ASSUME LInv, TInv, prov' = prov, NEW q \in Reqs, NEW m, Moves(q, m),
           now <= now', now' \in Nat, issued' \in {issued, issued + 1}, UniqueIds',
           \A h \in installs' \cup m.rows : Old(q, h),
           \A h \in Held(m) : Old(q, h) \/ (h = m.row /\ Fresh(h)),
           \A h \in installs' \cup Held(m) : h.at < now',
           Lasting => accepted \subseteq accepted',
           \A a \in accepted : a \in accepted' \/ \E h \in Held(req[q]) : h.ref = a,
           ~Lasting /\ Writing(m) => Fresh(m.row),
           ~Lasting => \A h \in Versions(m) : h \in Versions(req[q]) \/ h \in installs,
           \A s \in installs' : s \in installs \/ s.at = now,
           ~Lasting => Works'
    PROVE  TInv'
  <1>1. req'[q] = m /\ \A o \in Reqs \ {q} : req'[o] = req[o]
    BY RequestsAfter
  <1>2. now \in Nat /\ issued \in Nat /\ now > 0 /\ \A h \in Holders : h.ref <= issued /\ h.at < now
    BY DEF LInv, TypeOK, TInv, Base
  <1>3. \A h \in Holders : h.ref \in Nat /\ h.at \in Nat
    BY HoldersTyped
  <1>4. \A k \in Sources(q) : k \in Holders
    BY HoldersAre DEF Sources
  <1>5. \A o \in Reqs : \A h \in Held(req[o]) : h \in Holders
    BY HoldersAre
  <1>6. \A h \in Holders' : \/ Old(q, h) /\ h.at < now'
                            \/ h = m.row /\ Fresh(h) /\ h.at < now'
                            \/ h \in Holders
    BY <1>5, HoldersAfter DEF Holders
  <1>7. Base'
    <2>1. ASSUME NEW h \in Holders'
          PROVE  h.ref <= issued' /\ h.at < now'
      <3>1. CASE Old(q, h) /\ h.at < now'
        BY <1>2, <1>3, <1>4, <3>1 DEF Old
      <3>2. CASE Fresh(h) /\ h.at < now'
        BY <1>2, <3>2 DEF Fresh
      <3>3. CASE h \in Holders
        BY <1>2, <1>3, <3>3
      <3> QED BY <1>6, <3>1, <3>2, <3>3
    <2> QED BY <1>2, <2>1 DEF Base
  <1>8. ASSUME Lasting
        PROVE  Accepted'
    <2>1. Accepted /\ accepted \subseteq accepted'
      BY <1>8 DEF TInv
    <2>2. ASSUME NEW h \in Holders', h.ref # 0
          PROVE  h.ref \in accepted'
      <3>1. CASE Old(q, h)
        BY <1>4, <2>1, <2>2, <3>1 DEF Old, Accepted
      <3>2. CASE Fresh(h)
        BY <3>2 DEF Fresh
      <3>3. CASE h \in Holders
        BY <2>1, <2>2, <3>3 DEF Accepted
      <3> QED BY <1>6, <3>1, <3>2, <3>3
    <2> QED BY <2>2 DEF Accepted
  <1>9. ASSUME ~Lasting
        PROVE  OneIndex'
    <2>0. OneIndex
      BY <1>9 DEF TInv
    <2>1. ASSUME NEW h \in Holders', h.ref # 0
          PROVE  \/ \E g \in Holders : g.ref = h.ref /\ InstallIndex(g) = InstallIndex(h)
                 \/ h = m.row /\ h.ref = issued + 1
      BY <1>4, <1>6, <1>9, <2>1 DEF Old, Fresh
    <2>2. ASSUME NEW h \in Holders', NEW k \in Holders', h.ref = k.ref, h.ref # 0
          PROVE  InstallIndex(h) = InstallIndex(k)
      <3>1. CASE h = m.row /\ k = m.row
        BY <3>1
      <3>2. ASSUME NEW g \in Holders, g.ref = h.ref
            PROVE  h.ref # issued + 1
        BY <1>2, <1>3, <3>2
      <3> QED BY <2>0, <2>1, <2>2, <3>1, <3>2 DEF OneIndex
    <2> QED BY <2>2 DEF OneIndex
  <1>10. ASSUME ~Lasting
         PROVE  OnlyWriter'
    <2>0. OnlyWriter
      BY <1>10 DEF TInv
    <2>1. ASSUME Writing(m)
          PROVE  /\ m.row.ref \in accepted' /\ m.row.ref # 0
                 /\ \A r \in installs' \cup m.rows : r.ref # m.row.ref
                 /\ \A o \in Reqs \ {q} : \A h \in Held(req[o]) : h.ref # m.row.ref
      <3>1. m.row.ref = issued + 1 /\ m.row.ref \in accepted'
        BY <1>10, <2>1 DEF Fresh
      <3>2. \A h \in Holders : h.ref # issued + 1
        BY <1>2, <1>3
      <3>3. \A h : Old(q, h) => h.ref # issued + 1
        BY <1>2, <1>4, <3>2 DEF Old
      <3> QED BY <1>2, <1>5, <3>1, <3>2, <3>3
    <2>2. ASSUME NEW o \in Reqs \ {q}, Writing(req[o])
          PROVE  /\ req[o].row.ref \in accepted' /\ req[o].row.ref # 0
                 /\ \A r \in installs' \cup req[o].rows : r.ref # req[o].row.ref
                 /\ \A p \in Reqs \ {o} : \A h \in Held(req'[p]) : h.ref # req[o].row.ref
      <3> DEFINE a == req[o].row.ref
      <3>1. /\ a \in accepted /\ a # 0
            /\ \A r \in installs \cup req[o].rows : r.ref # a
            /\ \A p \in Reqs \ {o} : \A h \in Held(req[p]) : h.ref # a
        BY <2>0, <2>2 DEF OnlyWriter
      <3>2. a <= issued /\ a \in Nat
        <4>1. req[o].row \in Holders
          BY <2>2, HoldersAre DEF Writing
        <4> QED BY <1>2, <1>3, <4>1
      <3>3. a \in accepted'
        BY <3>1
      <3>4. \A k \in Sources(q) : k.ref # a
        BY <3>1 DEF Sources
      <3>5. \A h : Old(q, h) \/ Fresh(h) => h.ref # a
        BY <1>2, <3>1, <3>2, <3>4 DEF Old, Fresh
      <3> HIDE DEF a
      <3>6. \A p \in Reqs \ {o} : \A h \in Held(req'[p]) : h.ref # a
        BY <1>1, <3>1, <3>5
      <3> QED BY <3>1, <3>3, <3>5, <3>6 DEF a
    <2>3. ASSUME NEW o \in Reqs, Writing(req'[o])
          PROVE  /\ req'[o].row.ref \in accepted' /\ req'[o].row.ref # 0
                 /\ \A r \in installs' \cup req'[o].rows : r.ref # req'[o].row.ref
                 /\ \A p \in Reqs \ {o} : \A h \in Held(req'[p]) : h.ref # req'[o].row.ref
      <3>1. CASE o = q
        BY <1>1, <2>1, <2>3, <3>1
      <3>2. CASE o # q
        BY <1>1, <2>2, <2>3, <3>2
      <3> QED BY <3>1, <3>2
    <2> QED BY <2>3 DEF OnlyWriter
  <1>11. ASSUME ~Lasting
         PROVE  SameVersion'
    <2>0. SameVersion /\ UniqueIds
      BY <1>11 DEF TInv, Base
    <2>1. \A r, s : InstallIndex(r) = InstallIndex(s) => InstallRecordID(r) = InstallRecordID(s)
      BY DEF InstallIndex, InstallRecordID
    <2>2. ASSUME NEW o \in Reqs, NEW h \in Versions(req'[o]), NEW s \in installs',
                 InstallIndex(s) = InstallIndex(h), s.at = h.at
          PROVE  s = h
      <3>1. h \in installs \/ \E p \in Reqs : h \in Versions(req[p])
        BY <1>1, <1>11, <2>2
      <3>2. h \in Holders
        BY <3>1, HoldersAre
      <3>3. s \in installs
        BY <1>2, <1>3, <2>2, <3>2
      <3> QED BY <2>0, <2>1, <2>2, <3>1, <3>3 DEF SameVersion, UniqueIds
    <2> QED BY <2>2 DEF SameVersion
  <1>12. Lasting' <=> Lasting
    BY DEF Lasting
  <1> QED BY <1>7, <1>8, <1>9, <1>10, <1>11, <1>12 DEF TInv

\* Works after a step that takes no token away unnoticed.
LEMMA WorksStill ==
    ASSUME LInv, Works, NEW q \in Reqs, NEW m, Moves(q, m), spent \subseteq spent',
           \A r \in installs' : r \in installs \/ r.ref = 0 \/ r.ref \in accepted',
           \A a \in accepted : a \in accepted' \cup spent',
           \A r \in installs' : Replacing(q, r) => r.ref \in accepted' \cup spent'
    PROVE  Works'
  <1>1. req'[q] = m /\ \A o \in Reqs \ {q} : req'[o] = req[o]
    BY RequestsAfter
  <1>2. ASSUME NEW r \in installs', r.ref # 0, r.ref \notin accepted' \cup spent'
        PROVE  \E o \in Reqs : Replacing(o, r)'
    <2>1. r \in installs /\ r.ref \notin accepted \cup spent
      BY <1>2
    <2>2. PICK o \in Reqs : Replacing(o, r)
      BY <1>2, <2>1 DEF Works
    <2>3. o # q
      BY <1>2, <2>2
    <2> QED BY <1>1, <2>2, <2>3 DEF Replacing
  <1> QED BY <1>2 DEF Works

\* A step that neither writes an installation nor talks to the provider.
LEMMA TokensQuiet ==
    ASSUME LInv, TInv, NEW q \in Reqs, NEW m, Moves(q, m),
           UNCHANGED <<prov, installs, now, issued, accepted, spent>>,
           \A h \in Held(m) : h \in Held(req[q]) \/ h \in installs,
           \A h \in Versions(m) : h \in Versions(req[q]) \/ h \in installs,
           ~Writing(m), ~Writing(req[q])
    PROVE  TInv'
  <1>1. \A h \in Sources(q) : h \in Holders /\ Old(q, h)
    BY HoldersAre DEF Sources, Old
  <1>2. \A h \in Sources(q) : h.at < now
    BY <1>1 DEF TInv, Base
  <1>3. m.rows \subseteq Held(m)
    BY DEF Held
  <1>4. ~Lasting => Works'
    <2>1. \A r : ~Replacing(q, r)
      BY DEF Replacing, Writing
    <2> QED BY <2>1, WorksStill DEF TInv
  <1>5. now \in Nat /\ UniqueIds'
    BY DEF LInv, TypeOK, TInv, Base, UniqueIds
  <1>6. \A h \in installs' \cup m.rows : h \in Sources(q)
    BY <1>3 DEF Sources
  <1>7. \A h \in Held(m) : h \in Sources(q)
    BY DEF Sources
  <1>8. now <= now' /\ now' \in Nat
    BY <1>5
  <1>9. \A h \in installs' \cup m.rows : Old(q, h)
    BY <1>1, <1>6
  <1>10. \A h \in Held(m) : Old(q, h)
    BY <1>1, <1>7
  <1>11. \A h \in installs' \cup Held(m) : h.at < now'
    BY <1>2, <1>7 DEF Sources
  <1> QED BY <1>4, <1>5, <1>8, <1>9, <1>10, <1>11, TokenStep

\* A request that holds nothing new: the steps about namespaces and events.
LEMMA TokensAside ==
    ASSUME LInv, TInv, NEW q \in Reqs, NEW m, Moves(q, m),
           UNCHANGED <<prov, installs, now, issued, accepted, spent>>,
           m.pc \notin {"save", "refresh", "persist", "record"}, m.rows \subseteq req[q].rows,
           req[q].pc \notin {"save", "persist"}
    PROVE  TInv'
  <1>1. Held(m) \subseteq Held(req[q]) /\ Versions(m) \subseteq Versions(req[q])
    BY DEF Held, Versions
  <1>2. ~Writing(m) /\ ~Writing(req[q])
    BY DEF Writing
  <1> QED BY <1>1, <1>2, TokensQuiet

\* The write of a row that the request holds, or of one without token.
LEMMA TokensWritten ==
    ASSUME LInv, TInv, NEW q \in Reqs, NEW m, Moves(q, m), NEW row \in InstallRows,
           row.ref = 0 \/ row \in Held(req[q]),
           installs' = UpsertInstallation(installs, row, now), now' = now + 1,
           UNCHANGED <<prov, issued, accepted>>,
           m.pc \notin {"save", "refresh", "persist", "record"}, m.rows \subseteq req[q].rows,
           ~Lasting => Works'
    PROVE  TInv'
  <1>1. now \in Nat /\ UniqueIds
    BY DEF LInv, TypeOK, TInv, Base
  <1>2. PICK w \in InstallRows : Written(w, row, now) /\ Upserted(installs, installs', row, w)
    BY <1>1, UpsertRows
  <1>3. \A h \in Sources(q) : h \in Holders /\ Old(q, h)
    BY HoldersAre DEF Sources, Old
  <1>4. \A h \in Holders : h.at < now /\ h.at \in Nat
    BY HoldersTyped DEF TInv, Base
  <1>5. \A s \in installs' : s \in installs \/ s = w
    BY <1>2 DEF Upserted
  <1>6. Old(q, w)
    BY <1>2 DEF Written, Old, Sources
  <1>7. m.rows \subseteq Held(req[q]) /\ Held(m) = m.rows /\ Versions(m) \subseteq Versions(req[q])
    BY DEF Held, Versions
  <1>8. UniqueIds'
    <2>1. ASSUME NEW s \in installs, InstallIndex(s) # InstallIndex(row), ~UpsertFails(installs, row)
          PROVE  InstallRecordID(s) # InstallRecordID(w)
      BY <1>2, <2>1 DEF UpsertFails, Written
    <2> QED BY <1>1, <1>2, <2>1 DEF Upserted, UniqueIds
  <1>9. \A h \in installs' \cup m.rows : Old(q, h)
    BY <1>3, <1>5, <1>6, <1>7 DEF Sources
  <1>10. \A h \in installs' \cup Held(m) : h.at < now'
    <2>1. w.at < now'
      BY <1>1, <1>2 DEF Written
    <2>2. \A h \in Sources(q) : h.at < now'
      BY <1>1, <1>3, <1>4
    <2> QED BY <1>5, <1>7, <2>1, <2>2 DEF Sources
  <1>11. ~Writing(m)
    BY DEF Writing
  <1>12. \A s \in installs' : s \in installs \/ s.at = now
    BY <1>2, <1>5 DEF Written
  <1>13. now <= now' /\ now' \in Nat
    BY <1>1
  <1> QED BY <1>7, <1>8, <1>9, <1>10, <1>11, <1>12, <1>13, TokenStep

\* Rows are deleted.
LEMMA TokensDeleted ==
    ASSUME LInv, TInv, NEW q \in Reqs, NEW m, Moves(q, m), installs' \subseteq installs,
           UNCHANGED <<prov, now, issued, accepted, spent>>,
           m.pc \notin {"save", "refresh", "persist", "record"}, m.rows \subseteq req[q].rows,
           ~Writing(req[q])
    PROVE  TInv'
  <1>1. \A h \in Sources(q) : h \in Holders /\ Old(q, h)
    BY HoldersAre DEF Sources, Old
  <1>2. \A h \in Sources(q) : h.at < now
    BY <1>1 DEF TInv, Base
  <1>3. m.rows \subseteq Held(req[q]) /\ Held(m) = m.rows /\ Versions(m) \subseteq Versions(req[q])
    BY DEF Held, Versions
  <1>4. ~Lasting => Works'
    <2>1. \A r : ~Replacing(q, r)
      BY DEF Replacing, Writing
    <2> QED BY <2>1, WorksStill DEF TInv
  <1>5. now \in Nat /\ UniqueIds'
    BY DEF LInv, TypeOK, TInv, Base, UniqueIds
  <1>6. \A h \in installs' \cup m.rows : Old(q, h) /\ h.at < now'
    BY <1>1, <1>2, <1>3 DEF Sources
  <1>7. ~Writing(m) /\ now <= now' /\ now' \in Nat
    BY <1>5 DEF Writing
  <1> QED BY <1>3, <1>4, <1>5, <1>6, <1>7, TokenStep

\* The write of a callback stores the token that only it has.
LEMMA TokensSave ==
    ASSUME LInv, TInv, prov' = prov, NEW q \in Reqs, SaveInstallation(q)
    PROVE  TInv'
  <1> DEFINE l == req[q]
  <1>1. PICK m :
           /\ l.pc = "save" /\ Moves(q, m) /\ m.pc = "dedupe" /\ m.rows = l.rows
           /\ installs' = UpsertInstallation(installs, l.row, now) /\ now' = now + 1
           /\ UNCHANGED <<issued, accepted, spent>>
    BY SaveEffect
  <1>2. l.row \in InstallRows /\ now \in Nat
    BY RequestTyped DEF Locals, LInv, TypeOK
  <1>3. l.row \in Held(l)
    BY <1>1 DEF Held
  <1>4. ASSUME ~Lasting
        PROVE  Works'
    <2>1. l.row.ref \in accepted
      BY <1>1, <1>4 DEF TInv, OnlyWriter, Writing
    <2>2. PICK w \in InstallRows : Written(w, l.row, now) /\ Upserted(installs, installs', l.row, w)
      BY <1>1, <1>2, UpsertRows
    <2>3. \A r \in installs' : r \in installs \/ r.ref \in accepted'
      BY <1>1, <2>1, <2>2 DEF Written, Upserted
    <2>4. \A r : ~Replacing(q, r)
      BY <1>1 DEF Replacing
    <2> QED BY <1>1, <1>4, <2>3, <2>4, WorksStill DEF TInv
  <1> QED BY <1>1, <1>2, <1>3, <1>4, TokensWritten

\* The write after a refresh stores the token that only it has; a blind one
\* either finds the version it has read or spends the token.
LEMMA TokensPersist ==
    ASSUME LInv, TInv, prov' = prov, NEW q \in Reqs, Persist(q)
    PROVE  TInv'
  <1> DEFINE l == req[q]
             cur == {s \in installs : InstallIndex(s) = InstallIndex(l.row)}
  <1>1. PICK m :
           /\ l.pc = "persist" /\ Moves(q, m) /\ m.pc \in {"get", "rows", "idle"} /\ m.rows \subseteq l.rows
           /\ \/ /\ installs' = UpsertInstallation(installs, l.row, now)
                 /\ now' = now + 1
                 /\ spent' = IF l.blind /\ \A s \in cur : s.at # l.row.at
                             THEN spent \cup {l.row.ref} ELSE spent
              \/ /\ spent' = spent \cup {s.ref : s \in cur}
                 /\ UNCHANGED <<installs, now>>
           /\ UNCHANGED <<issued, accepted>>
    BY PersistEffect
  <1>2. l.row \in InstallRows /\ now \in Nat
    BY RequestTyped DEF Locals, LInv, TypeOK
  <1>3. l.row \in Held(l)
    BY <1>1 DEF Held
  <1>4. CASE /\ installs' = UpsertInstallation(installs, l.row, now) /\ now' = now + 1
             /\ spent' = IF l.blind /\ \A s \in cur : s.at # l.row.at
                         THEN spent \cup {l.row.ref} ELSE spent
    <2>1. PICK w \in InstallRows : Written(w, l.row, now) /\ Upserted(installs, installs', l.row, w)
      BY <1>2, <1>4, UpsertRows
    <2>2. spent \subseteq spent'
      BY <1>4
    <2>3. \A s \in installs' : InstallIndex(s) = InstallIndex(l.row) => s = w
      <3>1. ASSUME UpsertFails(installs, l.row), NEW s \in installs, InstallIndex(s) = InstallIndex(l.row)
            PROVE  FALSE
        <4>1. PICK r \in installs :
                 InstallRecordID(r) = InstallRecordID(l.row) /\ InstallIndex(r) # InstallIndex(l.row)
          BY <3>1 DEF UpsertFails
        <4>2. InstallRecordID(s) = InstallRecordID(l.row)
          BY <3>1 DEF InstallIndex, InstallRecordID
        <4> QED BY <3>1, <4>1, <4>2 DEF TInv, Base, UniqueIds
      <3> QED BY <2>1, <3>1 DEF Upserted
    <2>4. ASSUME ~Lasting
          PROVE  Works'
      <3>1. CASE ~l.blind
        <4>1. l.row.ref \in accepted
          BY <1>1, <2>4, <3>1 DEF TInv, OnlyWriter, Writing
        <4>2. w.ref \in accepted'
          BY <1>1, <2>1, <4>1 DEF Written
        <4>3. \A r \in installs' : r \in installs \/ r.ref \in accepted'
          BY <2>1, <4>2 DEF Upserted
        <4>4. \A r \in installs' : Replacing(q, r) => r.ref \in accepted'
          BY <2>3, <4>2 DEF Replacing
        <4> QED BY <1>1, <2>2, <2>4, <4>3, <4>4, WorksStill DEF TInv
      <3>2. CASE l.blind
        <4>1. req'[q] = m /\ \A o \in Reqs \ {q} : req'[o] = req[o]
          BY <1>1, RequestsAfter
        <4>2. \A r : ~Replacing(q, r)
          BY <3>2 DEF Replacing
        <4>3. ASSUME NEW r \in installs, r.ref # 0, r.ref \notin accepted' \cup spent'
              PROVE  \E o \in Reqs : o # q /\ Replacing(o, r)
          <5>1. r.ref \notin accepted \cup spent
            BY <1>1, <2>2, <4>3
          <5> QED BY <2>4, <4>2, <4>3, <5>1 DEF TInv, Works
        <4>4. ASSUME NEW r \in installs', r.ref # 0, r.ref \notin accepted' \cup spent'
              PROVE  \E o \in Reqs : Replacing(o, r)'
          <5>1. CASE r \in installs
            BY <4>1, <4>3, <4>4, <5>1 DEF Replacing
          <5>2. CASE r = w /\ r \notin installs
            <6>1. l.row.ref \notin spent'
              BY <2>1, <4>4, <5>2 DEF Written
            <6>2. PICK s \in installs : InstallIndex(s) = InstallIndex(l.row) /\ s.at = l.row.at
              BY <1>4, <3>2, <6>1
            <6>3. l.row \in Versions(l)
              BY <1>1, <3>2 DEF Versions
            <6>4. s = l.row
              BY <2>4, <6>2, <6>3 DEF TInv, SameVersion
            <6>5. s.ref = r.ref /\ InstallIndex(s) = InstallIndex(r)
              BY <2>1, <5>2, <6>4 DEF Written
            <6>6. PICK o \in Reqs : o # q /\ Replacing(o, s)
              BY <4>3, <4>4, <6>5
            <6> QED BY <4>1, <6>5, <6>6 DEF Replacing
          <5> QED BY <2>1, <5>1, <5>2 DEF Upserted
        <4> QED BY <4>4 DEF Works
      <3> QED BY <3>1, <3>2
    <2> QED BY <1>1, <1>2, <1>3, <1>4, <2>4, TokensWritten
  <1>5. CASE spent' = spent \cup {s.ref : s \in cur} /\ UNCHANGED <<installs, now>>
    <2>1. \A h \in Sources(q) : h \in Holders /\ Old(q, h)
      BY HoldersAre DEF Sources, Old
    <2>2. \A h \in Sources(q) : h.at < now
      BY <2>1 DEF TInv, Base
    <2>3. m.rows \subseteq Held(l) /\ Held(m) = m.rows /\ Versions(m) \subseteq Versions(l)
      BY <1>1 DEF Held, Versions
    <2>4. ~Lasting => Works'
      <3>1. \A r \in installs' : Replacing(q, r) => r.ref \in spent'
        BY <1>5 DEF Replacing
      <3> QED BY <1>1, <1>5, <3>1, WorksStill DEF TInv
    <2>5. UniqueIds' /\ ~Writing(m) /\ now <= now' /\ now' \in Nat
      BY <1>1, <1>2, <1>5 DEF TInv, Base, UniqueIds, Writing
    <2>6. \A h \in installs' \cup m.rows : Old(q, h) /\ h.at < now'
      BY <1>5, <2>1, <2>2, <2>3 DEF Sources
    <2> QED BY <1>1, <1>5, <2>3, <2>4, <2>5, <2>6, TokenStep
  <1> QED BY <1>1, <1>4, <1>5

\* A callback gets a fresh token.
LEMMA TokensCallback ==
    ASSUME LInv, TInv, prov' = prov, NEW q \in Reqs, NEW t \in TenantIds, NEW k \in Keys,
           Callback(q, prov, t, k)
    PROVE  TInv'
  <1>1. PICK m : \E g \in {0, 1} :
              /\ req[q] = Idle /\ Moves(q, m)
              /\ m.pc = "save" /\ m.rows = {} /\ m.row.ref = (issued + 1) * g /\ m.row.at = 0
              /\ prov # "github" => g = 1
              /\ issued' = issued + g
              /\ accepted' = accepted \cup ({(issued + 1) * g} \ {0})
              /\ UNCHANGED <<installs, now, spent>>
    BY CallbackEffect
  <1>2. issued \in Nat /\ now \in Nat /\ now > 0 /\ UniqueIds'
    BY <1>1 DEF LInv, TypeOK, TInv, Base, UniqueIds
  <1>3. /\ m.row.ref = 0 /\ issued' = issued /\ accepted' = accepted /\ prov = "github"
        \/ /\ m.row.ref = issued + 1 /\ issued' = issued + 1 /\ accepted' = accepted \cup {issued + 1}
    <2>1. PICK g \in {0, 1} :
              /\ m.row.ref = (issued + 1) * g
              /\ prov # "github" => g = 1
              /\ issued' = issued + g
              /\ accepted' = accepted \cup ({(issued + 1) * g} \ {0})
      BY <1>1
    <2>2. CASE g = 0
      BY <1>2, <2>1, <2>2
    <2>3. CASE g = 1
      BY <1>2, <2>1, <2>3
    <2> QED BY <2>2, <2>3
  <1>4. Old(q, m.row) \/ Fresh(m.row)
    BY <1>3 DEF Old, Fresh
  <1>5. \A h : h \in Held(m) <=> h = m.row
    BY <1>1 DEF Held
  <1>6. \A h \in installs : Old(q, h) /\ h.at < now
    BY HoldersAre DEF Old, Sources, TInv, Base
  <1>7. ~Lasting => Works'
    <2>1. \A r : ~Replacing(q, r)
      BY <1>1 DEF Replacing, Idle
    <2> QED BY <1>1, <1>3, <2>1, WorksStill DEF TInv
  <1>8. ~Lasting => Fresh(m.row)
    BY <1>3 DEF Lasting, Fresh
  <1>9. Versions(m) = {} /\ accepted \subseteq accepted' /\ issued' \in {issued, issued + 1}
    BY <1>1, <1>3 DEF Versions
  <1>10. now <= now' /\ now' \in Nat
    BY <1>1, <1>2
  <1>11. \A h \in installs' \cup m.rows : Old(q, h)
    BY <1>1, <1>6
  <1>12. \A h \in installs' \cup Held(m) : h.at < now'
    BY <1>1, <1>2, <1>5, <1>6
  <1> QED BY <1>1, <1>2, <1>4, <1>5, <1>7, <1>8, <1>9, <1>10, <1>11, <1>12, TokenStep

\* A refresh replaces a token that the table may still hold, and is then the
\* request that replaces it.
LEMMA TokensRefresh ==
    ASSUME LInv, TInv, prov' = prov, NEW q \in Reqs, Refresh(q)
    PROVE  TInv'
  <1> DEFINE l == req[q]
  <1>1. PICK m :
              /\ l.pc = "refresh" /\ Moves(q, m) /\ l.row.ref \in accepted
              /\ m.pc = "persist" /\ m.rows = l.rows /\ ~m.blind
              /\ InstallIndex(m.row) = InstallIndex(l.row) /\ m.row.at = l.row.at
              /\ m.row.ref = IF prov \in Rotating THEN issued + 1 ELSE l.row.ref
              /\ issued' = issued + 1
              /\ accepted' = IF prov \in Rotating THEN (accepted \ {l.row.ref}) \cup {issued + 1}
                             ELSE accepted
              /\ UNCHANGED <<installs, now, spent>>
    BY RefreshEffect
  <1>2. issued \in Nat /\ now \in Nat /\ now > 0 /\ UniqueIds'
    BY <1>1 DEF LInv, TypeOK, TInv, Base, UniqueIds
  <1>3. Lasting <=> prov \notin Rotating
    <2>1. prov # "github"
      BY <1>1, RequestTyped DEF LocalOK
    <2> QED BY <2>1 DEF Lasting
  <1>4. l.row \in Held(l) /\ l.rows \subseteq Held(l) /\ l.rows \subseteq Versions(l)
    BY <1>1 DEF Held, Versions
  <1>5. \A h \in Sources(q) : h \in Holders /\ Old(q, h) /\ h.at < now
    BY HoldersAre DEF Sources, Old, TInv, Base
  <1>6. Old(q, m.row) \/ Fresh(m.row)
    <2>1. CASE prov \in Rotating
      BY <1>1, <2>1 DEF Fresh
    <2>2. CASE prov \notin Rotating
      BY <1>1, <1>4, <2>2 DEF Old, Sources
    <2> QED BY <2>1, <2>2
  <1>7. \A h : h \in Held(m) <=> h \in l.rows \/ h = m.row
    BY <1>1 DEF Held
  <1>8. Versions(m) = l.rows
    BY <1>1 DEF Versions
  <1>9. ASSUME ~Lasting
        PROVE  Works' /\ Fresh(m.row)
    <2>1. req'[q] = m /\ \A o \in Reqs \ {q} : req'[o] = req[o]
      BY <1>1, RequestsAfter
    <2>2. ASSUME NEW r \in installs', r.ref # 0, r.ref \notin accepted' \cup spent'
          PROVE  \E o \in Reqs : Replacing(o, r)'
      <3>1. CASE r.ref = l.row.ref
        <4>1. InstallIndex(r) = InstallIndex(l.row)
          <5>1. r \in Holders /\ l.row \in Holders
            BY <1>1, <1>4, <1>5 DEF Sources
          <5> QED BY <1>9, <2>2, <3>1, <5>1 DEF TInv, OneIndex
        <4> QED BY <1>1, <2>1, <4>1 DEF Replacing
      <3>2. CASE r.ref # l.row.ref
        <4>1. r \in installs /\ r.ref \notin accepted \cup spent
          BY <1>1, <2>2, <3>2
        <4>2. PICK o \in Reqs : Replacing(o, r)
          BY <1>9, <2>2, <4>1 DEF TInv, Works
        <4>3. o # q
          BY <1>1, <4>2 DEF Replacing
        <4> QED BY <2>1, <4>2, <4>3 DEF Replacing
      <3> QED BY <3>1, <3>2
    <2>3. Fresh(m.row)
      BY <1>1, <1>3, <1>9 DEF Fresh
    <2> QED BY <2>2, <2>3 DEF Works
  <1>10. Lasting => accepted \subseteq accepted'
    BY <1>1, <1>3
  <1>11. \A a \in accepted : a \in accepted' \/ \E h \in Held(l) : h.ref = a
    BY <1>1, <1>4
  <1>12. now <= now' /\ now' \in Nat
    BY <1>1, <1>2
  <1>13. \A h \in installs' \cup m.rows : Old(q, h)
    BY <1>1, <1>4, <1>5 DEF Sources
  <1>14. \A h \in Held(m) : Old(q, h) \/ (h = m.row /\ Fresh(h))
    BY <1>4, <1>5, <1>6, <1>7 DEF Sources
  <1>15. \A h \in installs' \cup Held(m) : h.at < now'
    BY <1>1, <1>4, <1>5, <1>7 DEF Sources
  <1> QED BY <1>1, <1>2, <1>4, <1>8, <1>9, <1>10, <1>11, <1>12, <1>13, <1>14, <1>15, TokenStep

\* A lost answer spends the token.
LEMMA TokensRefreshFails ==
    ASSUME LInv, TInv, prov' = prov, NEW q \in Reqs, RefreshFails(q)
    PROVE  TInv'
  <1> DEFINE l == req[q]
  <1>1. /\ l.pc = "refresh" /\ Moves(q, Idle)
        /\ \/ UNCHANGED <<issued, accepted, spent>>
           \/ /\ issued' = issued + 1
              /\ IF prov \in Rotating
                 THEN /\ accepted' = (accepted \ {l.row.ref}) \cup {issued + 1}
                      /\ spent' = spent \cup {l.row.ref}
                 ELSE UNCHANGED <<accepted, spent>>
        /\ UNCHANGED <<installs, now>>
    BY RefreshFailsEffect
  <1>2. issued \in Nat /\ now \in Nat /\ now > 0 /\ UniqueIds'
    BY <1>1 DEF LInv, TypeOK, TInv, Base, UniqueIds
  <1>3. Lasting <=> prov \notin Rotating
    <2>1. prov # "github"
      BY <1>1, RequestTyped DEF LocalOK
    <2> QED BY <2>1 DEF Lasting
  <1>4. l.row \in Held(l)
    BY <1>1 DEF Held
  <1>5. Held(Idle) = {} /\ Idle.rows = {} /\ Versions(Idle) = {} /\ ~Writing(Idle)
    BY DEF Held, Versions, Writing, Idle
  <1>6. \A h \in installs' : Old(q, h) /\ h.at < now'
    BY <1>1, HoldersAre DEF Old, Sources, TInv, Base
  <1>7. ~Lasting => Works'
    <2>1. \A r : ~Replacing(q, r)
      BY <1>1 DEF Replacing
    <2>2. spent \subseteq spent' /\ \A a \in accepted : a \in accepted' \cup spent'
      BY <1>1
    <2> QED BY <1>1, <2>1, <2>2, WorksStill DEF TInv
  <1>8. /\ Lasting => accepted \subseteq accepted'
        /\ \A a \in accepted : a \in accepted' \/ \E h \in Held(l) : h.ref = a
    BY <1>1, <1>3, <1>4
  <1>9. now <= now' /\ now' \in Nat /\ issued' \in {issued, issued + 1}
    BY <1>1, <1>2
  <1> QED BY <1>1, <1>2, <1>5, <1>6, <1>7, <1>8, <1>9, TokenStep

\* An event takes the token of the row it has found.
LEMMA TokensReadRecord ==
    ASSUME LInv, TInv, prov' = prov, NEW q \in Reqs, ReadEventRecord(q)
    PROVE  TInv'
  <1> DEFINE l == req[q]
  <1>1. PICK m :
           /\ l.pc = "event" /\ Moves(q, m) /\ m.rows \subseteq l.rows
           /\ \/ m.pc = "idle"
              \/ /\ m.pc = "record"
                 /\ \E r \in installs : m.row.ref = r.ref /\ m.row.at = r.at
           /\ UNCHANGED <<installs, now, issued, accepted, spent>>
    BY ReadEventRecordEffect
  <1>2. CASE m.pc = "idle"
    BY <1>1, <1>2, TokensAside
  <1>3. CASE m.pc = "record"
    <2>1. PICK r \in installs : m.row.ref = r.ref /\ m.row.at = r.at
      BY <1>1, <1>3
    <2>2. Lasting
      BY <1>1, RequestTyped DEF LocalOK, Lasting
    <2>3. \A h \in Sources(q) : h \in Holders /\ Old(q, h) /\ h.at < now
      BY HoldersAre DEF Sources, Old, TInv, Base
    <2>4. Old(q, m.row) /\ m.row.at < now
      BY <2>1, <2>2, <2>3 DEF Old, Sources
    <2>5. \A h \in Held(m) : h \in m.rows \/ h = m.row
      BY <1>3 DEF Held
    <2>6. \A h \in installs' \cup Held(m) \cup m.rows : Old(q, h) /\ h.at < now'
      BY <1>1, <2>3, <2>4, <2>5 DEF Sources, Held
    <2>7. now <= now' /\ now' \in Nat /\ UniqueIds'
      BY <1>1 DEF LInv, TypeOK, TInv, Base, UniqueIds
    <2> QED BY <1>1, <2>2, <2>6, <2>7, TokenStep
  <1> QED BY <1>1, <1>2, <1>3

\* An event writes back the token it has read: one of GitHub, whose tokens last.
LEMMA TokensWriteRecord ==
    ASSUME LInv, TInv, prov' = prov, NEW q \in Reqs, WriteEventRecord(q)
    PROVE  TInv'
  <1> DEFINE l == req[q]
  <1>1. PICK m :
           /\ l.pc = "record" /\ prov = "github" /\ Moves(q, m) /\ m.rows \subseteq l.rows
           /\ m.pc \in {"listed", "repos", "idle"}
           /\ \/ /\ installs' = DeleteInstallation(installs, l.ctx, "github", l.row.acct, l.row.inst, l.row.key)
                 /\ now' = now
              \/ installs' = UpsertInstallation(installs, l.row, now) /\ now' = now + 1
              \/ UNCHANGED <<installs, now>>
           /\ UNCHANGED <<issued, accepted, spent>>
    BY WriteEventRecordEffect
  <1>2. Lasting /\ ~Writing(l) /\ l.row \in Held(l) /\ l.row \in InstallRows
    BY <1>1, RequestTyped DEF Lasting, Writing, Held, Locals
  <1>3. CASE installs' = UpsertInstallation(installs, l.row, now) /\ now' = now + 1
    BY <1>1, <1>2, <1>3, TokensWritten
  <1>4. CASE installs' \subseteq installs /\ now' = now
    BY <1>1, <1>2, <1>4, TokensDeleted
  <1>5. \A T : DeleteInstallation(T, l.ctx, "github", l.row.acct, l.row.inst, l.row.key) \subseteq T
    BY DEF DeleteInstallation
  <1> QED BY <1>1, <1>3, <1>4, <1>5

\* Every further step of a request keeps the token invariant.
LEMMA TInvSteps ==
    ASSUME LInv, TInv, prov' = prov, NEW q \in Reqs, Steps(q)
    PROVE  TInv'
  <1> DEFINE l == req[q]
  <1>1. CASE DedupeAndAnswer(q)
    <2>1. ~(req[q].pc = "dedupe" /\ Writing(req[q]))
      BY DEF Writing
    <2> QED BY <1>1, <2>1, DedupeEffect, TokensDeleted
  <1>2. CASE \E row \in req[q].rows : NextInstallation(q, row)
    <2>1. PICK row \in l.rows : NextInstallation(q, row)
      BY <1>2
    <2>2. PICK m :
              /\ l.pc = "rows" /\ Moves(q, m) /\ m.rows \subseteq l.rows
              /\ m.pc \in {"get", "rows", "idle", "refresh", "persist"}
              /\ m.pc \in {"refresh", "persist"} => m.row = row
              /\ m.pc = "persist" => m.blind
              /\ UNCHANGED <<installs, now, issued, accepted, spent>>
      BY <2>1, NextInstallationEffect
    <2>3. Held(m) \subseteq Held(l) /\ Versions(m) \subseteq Versions(l) /\ ~Writing(m) /\ ~Writing(l)
      BY <2>2 DEF Held, Versions, Writing
    <2> QED BY <2>2, <2>3, TokensQuiet
  <1>3. CASE ListFails(q) \/ InstallEventDone(q)
    <2>1. Idle.pc = "idle" /\ Idle.rows = {}
      BY DEF Idle
    <2> QED BY <1>3, <2>1, EndEffect, TokensAside
  <1>4. CASE \E r \in req[q].todo : ReadNamespace(q, r)
    BY <1>4, ReadNamespaceEffect, TokensAside
  <1>5. CASE WriteNamespace(q)
    BY <1>5, WriteNamespaceEffect, TokensAside
  <1>6. CASE ListHooks(q) \/ ChangeHooks(q)
    BY <1>6, ListHooksEffect, ChangeHooksEffect, TokensAside
  <1>7. CASE WriteSwitch(q)
    <2>1. Idle.pc = "idle" /\ Idle.rows = {}
      BY DEF Idle
    <2> QED BY <1>7, <2>1, WriteSwitchEffect, TokensAside
  <1>8. CASE ListEventNamespaces(q)
    BY <1>8, ListEventNamespacesEffect, TokensAside
  <1>9. CASE \E r \in req[q].drop : DropNamespace(q, r)
    BY <1>9, DropNamespaceEffect, TokensAside
  <1>10. CASE \E r \in req[q].todo : AddNamespace(q, r)
    BY <1>10, AddNamespaceEffect, TokensAside
  <1> QED BY <1>1, <1>2, <1>3, <1>4, <1>5, <1>6, <1>7, <1>8, <1>9, <1>10, TokensSave, TokensRefresh,
             TokensRefreshFails, TokensPersist, TokensReadRecord, TokensWriteRecord DEF Steps

\* Every first step of a request, and every API call, does too.
LEMMA TInvRequests ==
    ASSUME LInv, TInv, prov' = prov, NEW q \in Reqs, Requests(q) \/ Events(q)
    PROVE  TInv'
  <1>0. /\ Idle.pc = "idle" /\ Idle.rows = {} /\ ~Writing(Idle)
        /\ LocalOK(prov, Idle) /\ ScopedOK(Idle)
    BY DEF Idle, Writing, LocalOK, ScopedOK
  <1>a. ASSUME req' = req, req[q] = Idle
        PROVE  Moves(q, Idle)
    BY <1>0, <1>a, Constants DEF Moves, LInv, TypeOK
  <1>1. ASSUME NEW t \in TenantIds, NEW k \in Keys, Callback(q, prov, t, k)
        PROVE  TInv'
    BY <1>1, TokensCallback
  <1>2. ASSUME NEW t \in TenantIds, NEW i \in Ids, NEW k \in Keys \cup {NoId}, GetSCMClient(q, prov, t, i, k)
        PROVE  TInv'
    <2>1. PICK m :
              /\ req[q] = Idle /\ Moves(q, m)
              /\ m.pc = "refresh" /\ m.row \in installs /\ m.rows = {} /\ ~m.blind
              /\ UNCHANGED <<installs, now, issued, accepted, spent>>
      BY <1>2, GetSCMClientEffect
    <2>2. Held(m) \subseteq installs /\ Versions(m) = {} /\ ~Writing(m)
      BY <2>1 DEF Held, Versions, Writing
    <2> QED BY <1>0, <2>1, <2>2, TokensQuiet
  <1>3. ASSUME NEW t \in TenantIds, NEW a \in {NoId, "org"}, SyncNamespaces(q, prov, t, a)
        PROVE  TInv'
    <2>1. PICK m :
              /\ req[q] = Idle /\ Moves(q, m) /\ m.pc = "rows" /\ m.rows \subseteq installs
              /\ UNCHANGED <<installs, now, issued, accepted, spent>>
      BY <1>3, SyncEffect
    <2>2. Held(m) \subseteq installs /\ Versions(m) \subseteq installs /\ ~Writing(m)
      BY <2>1 DEF Held, Versions, Writing
    <2> QED BY <1>0, <2>1, <2>2, TokensQuiet
  <1>4. ASSUME NEW t \in TenantIds, NEW r \in Repos[prov], NEW want \in BOOLEAN,
               SetNamespaceWebhook(q, prov, t, r, want)
        PROVE  TInv'
    BY <1>0, <1>4, SetNamespaceWebhookEffect, TokensAside
  <1>5. ASSUME NEW t \in TenantIds, NEW i \in GitHubIds, NEW k \in Keys, UpsertInstallationAPI(q, prov, t, i, k)
        PROVE  TInv'
    <2>1. PICK row \in InstallRows :
              /\ row.ref = 0
              /\ installs' = UpsertInstallation(installs, row, now) /\ now' = now + 1
              /\ UNCHANGED <<issued, accepted, req, spent>>
      BY <1>5, UpsertAPIEffect
    <2>2. Moves(q, Idle) /\ req[q] = Idle
      BY <1>a, <1>5, <2>1 DEF UpsertInstallationAPI, Start
    <2>3. ASSUME ~Lasting
          PROVE  Works'
      <3>1. PICK w \in InstallRows : Written(w, row, now) /\ Upserted(installs, installs', row, w)
        BY <2>1, UpsertRows DEF LInv, TypeOK
      <3>2. \A r \in installs' : r \in installs \/ r.ref = 0
        BY <2>1, <3>1 DEF Written, Upserted
      <3>3. \A r : ~Replacing(q, r)
        BY <1>0, <2>2 DEF Replacing
      <3> QED BY <2>1, <2>2, <2>3, <3>2, <3>3, WorksStill DEF TInv
    <2> QED BY <1>0, <2>1, <2>2, <2>3, TokensWritten
  <1>6. ASSUME NEW t, NEW i, NEW k, DeleteInstallationAPI(q, prov, t, "org", i, k)
        PROVE  TInv'
    <2>1. Moves(q, Idle) /\ req[q] = Idle
      BY <1>a, <1>6 DEF DeleteInstallationAPI, Start
    <2> QED BY <1>0, <1>6, <2>1, DeleteAPIEffect, TokensDeleted
  <1>7. CASE Events(q)
    <2>1. PICK i \in GitHubIds, a \in {"created", "deleted", "removed"},
               added \in SUBSET Repos["github"], removed \in SUBSET Repos["github"] :
             prov = "github" /\ InstallEvent(q, i, a, added, removed)
      BY <1>7 DEF Events
    <2> QED BY <1>0, <2>1, InstallEventEffect, TokensAside
  <1> QED BY <1>1, <1>2, <1>3, <1>4, <1>5, <1>6, <1>7 DEF Requests

\* The refresh token of every stored installation is one the provider still
\* accepts, although nothing locks a row between its read, the exchange and its
\* write: except while the request that replaced it has not written, and for
\* the tokens that a lost answer, a failed write or a blind write-back spent.
THEOREM IntegrationsStoredTokenWorks == Spec => []StoredTokenWorks
  <1>1. Init => LInv /\ TInv
    <2> SUFFICES ASSUME Init PROVE TInv
      BY LInvInit
    <2>1. \A q \in Reqs : req[q] = Idle
      BY DEF Init, InitState
    <2>2. Held(Idle) = {} /\ Versions(Idle) = {} /\ ~Writing(Idle)
      BY DEF Held, Versions, Writing, Idle
    <2>3. \A h : h \notin Holders
      BY <2>1, <2>2, HoldersAre DEF Init, InitState
    <2> QED BY <2>1, <2>2, <2>3 DEF Init, InitState, TInv, Base, UniqueIds, Accepted, OneIndex,
               OnlyWriter, SameVersion, Works
  <1>2. LInv /\ TInv /\ [Next]_vars => (LInv /\ TInv)'
    <2> SUFFICES ASSUME LInv, TInv, [Next]_vars
                 PROVE  TInv'
      BY LInvNext
    <2>1. ASSUME UNCHANGED <<prov, installs, now, issued, accepted, spent, req>>
          PROVE  TInv'
      BY <2>1 DEF TInv, Base, UniqueIds, Holders, Lasting, Accepted, OneIndex, OnlyWriter,
                  SameVersion, Works, Replacing
    <2>2. CASE UNCHANGED vars
      BY <2>1, <2>2 DEF vars, table, remote, history
    <2>3. ASSUME NEW g \in 1 .. issued, Age(g), prov' = prov
          PROVE  TInv'
      BY <2>1, <2>3 DEF Age, table, history
    <2> QED BY <2>2, <2>3, TInvSteps, TInvRequests DEF Next
  <1>3. LInv /\ TInv => StoredTokenWorks
    <2> SUFFICES ASSUME LInv, TInv, NEW r \in installs, r.ref # 0, r.ref \notin accepted \cup spent
                 PROVE  \E q \in Reqs : At(q, "persist") /\ InstallIndex(req[q].row) = InstallIndex(r)
      BY DEF StoredTokenWorks
    <2>1. CASE Lasting
      BY <2>1, HoldersAre DEF TInv, Accepted
    <2>2. CASE ~Lasting
      BY <2>2 DEF TInv, Works, Replacing, At
    <2> QED BY <2>1, <2>2
  <1> QED BY <1>1, <1>2, <1>3, PTL DEF Spec

=============================================================================
