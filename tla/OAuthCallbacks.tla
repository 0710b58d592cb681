--------------------------- MODULE OAuthCallbacks ---------------------------
(***************************************************************************)
(* The OAuth callback handlers (pkg/oauth/handler*.go).  A callback         *)
(* exchanges its code for a grant, reads the table, writes the installation *)
(* row, deletes the account's other installations and answers; the sync of  *)
(* its namespaces goes on in a goroutine, here the rest of the request.     *)
(***************************************************************************)
EXTENDS IntegrationState

\* resolveExistingInstallationID: the account's latest installation id, as a
\* set of at most one.
resolveExistingInstallationID(T, ctx, p, a, k) ==
    IF a = NoId THEN {}
    ELSE {r.inst : r \in Latest({s \in ListInstallations(T, ctx, p, a) :
                                     k \in {NoId, s.key} /\ s.inst # NoId})}

\* dedupeInstallations: the rows it deletes, one statement each.
Duplicates(T, ctx, p, a, k, keep) ==
    IF NoId \in {a, keep} THEN {}
    ELSE {r \in ListInstallations(T, ctx, p, a) :
              /\ r.inst \notin {NoId, keep}
              /\ NoId \in {k, r.key} \/ r.key = k}

-----------------------------------------------------------------------------
(* What each handler makes of the provider's answers: the row, without its  *)
(* tenant, key and token numbers (acc 1 stands for a token).  An exchange   *)
(* that fails answers 400 and changes nothing here.                         *)

\* The account, or none: a failed lookup is logged and the row saved without.
resolveGitHubAccount == {"org", NoId}
resolveGitLabAccount == {"org", NoId}
resolveBitbucketAccount == {"org", NoId}

\* Without a team or enterprise id the exchange is an error.
exchangeSlackToken == {"org"}

\* The first site of the grant: its host, empty when it has no url; none is an
\* error.
fetchJiraAccessibleResource == {"host", NoId}

\* Two registrations, a warning for either that fails; nothing looks for hooks
\* of an earlier authorisation.
autoRegisterAtlassianWebhooks == {FALSE, TRUE}

\* The App may ask for user authorisation during the installation, or not.
GitHubRow(inst, account, code) ==
    [NoRow EXCEPT !.prov = "github", !.inst = inst, !.acct = account, !.acc = code]
GitHubWarns(T, t, row, k) ==
    row.acc = 0 /\ row.inst \in resolveExistingInstallationID(T, t, "github", row.acct, k)

\* GitLab and Bitbucket never give the row an installation id.
GitLabRow(account) == [NoRow EXCEPT !.prov = "gitlab", !.acct = account, !.acc = 1]
BitbucketRow(account) == [NoRow EXCEPT !.prov = "bitbucket", !.acct = account, !.acc = 1]

\* Mutant: the row is stored without the team it belongs to.
SlackRowNoTeam(T, t, k, team) == [NoRow EXCEPT !.prov = "slack", !.inst = team, !.acc = 1]

\* An installation of the team is kept, whatever its id.
SlackRow(T, t, k, team) ==
    LET found == resolveExistingInstallationID(T, t, "slack", team, k)
    IN  [NoRow EXCEPT !.prov = "slack", !.acct = team, !.acc = 1,
                      !.inst = IF found = {} THEN team ELSE CHOOSE i \in found : TRUE]

\* The account is the host of the site, the installation its cloud id.
JiraRow(host) ==
    [NoRow EXCEPT !.prov = "atlassian", !.acct = IF host = NoId THEN "cloud" ELSE host,
                  !.inst = "cloud", !.acc = 1]

\* The rows handler p can build and the warnings that go with them.
CallbackRows(T, t, k, p) ==
    CASE p = "github" ->
            {[row |-> r, warn |-> GitHubWarns(T, t, r, k)] :
                r \in {GitHubRow(i, a, code) : i \in GitHubIds, a \in resolveGitHubAccount, code \in {0, 1}}}
      [] p = "slack" -> {[row |-> SlackRow(T, t, k, team), warn |-> FALSE] : team \in exchangeSlackToken}
      [] p = "atlassian" ->
            {[row |-> JiraRow(host), warn |-> w] :
                host \in fetchJiraAccessibleResource, w \in autoRegisterAtlassianWebhooks}
      [] OTHER ->
            {[row |-> r, warn |-> resolveExistingInstallationID(T, t, p, r.acct, k) # {}] :
                r \in IF p = "gitlab" THEN {GitLabRow(a) : a \in resolveGitLabAccount}
                      ELSE {BitbucketRow(a) : a \in resolveBitbucketAccount}}

-----------------------------------------------------------------------------
\* handleGitHubApp, handleGitLab, handleBitbucket, handleSlack, handleJira up
\* to the write: with a code the provider issues a new grant.
Callback(q, p, t, k) ==
    /\ Start(q)
    /\ \E c \in CallbackRows(installs, t, k, p) :
        LET g == (issued + 1) * c.row.acc
            row == [c.row EXCEPT !.tenant = t, !.key = k, !.acc = g, !.ref = g]
        IN  /\ Become(q, [Idle EXCEPT !.pc = "save", !.ctx = t, !.row = row, !.warn = c.warn])
            /\ issued' = issued + c.row.acc
            /\ accepted' = accepted \cup ({g} \ {0})
    /\ UNCHANGED <<table, aged, hooks, faults, history>>

\* The warning replaces whatever the handler had to say.
SaveInstallation(q) ==
    LET row == req[q].row
    IN  /\ At(q, "save")
        /\ installs' = UpsertInstallation(installs, row, now)
        /\ now' = now + 1
        /\ Become(q, [req[q] EXCEPT !.pc = "dedupe", !.warn = @ \/ UpsertFails(installs, row)])
        /\ told' = IF req'[q].warn \/ row.inst = NoId THEN told
                   ELSE told \cup {<<row.prov, row.inst, row.tenant>>}
        /\ UNCHANGED <<namespaces, remote, ops, faults, spent, stale, orphaned>>

\* Deletes, answers and leaves the sync to a goroutine; SyncGitHubNamespaces
\* and the others return at once where the provider has no repositories.
DedupeAndAnswer(q) ==
    LET l == req[q]
        row == l.row
        gone == Duplicates(installs, l.ctx, row.prov, row.acct, row.key, row.inst)
    IN  /\ At(q, "dedupe")
        /\ installs' = {r \in installs :
                          \A d \in gone : r \in DeleteInstallation({r}, l.ctx, d.prov, d.acct, d.inst, d.key)}
        /\ orphaned' = orphaned \cup {Owner(d) : d \in installs \ installs'}
        /\ told' = Forget(installs \ installs')
        /\ Become(q, BeginSync(l))
        /\ UNCHANGED <<namespaces, now, remote, ops, faults, spent, stale>>
=============================================================================
