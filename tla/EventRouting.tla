---------------------------- MODULE EventRouting ----------------------------
(***************************************************************************)
(* Which installation an event of a provider belongs to: resolveStateID of  *)
(* the webhook handlers (pkg/webhook/slack.go, jira.go, gitlab.go,          *)
(* bitbucket.go).  Each is the set of rows the handler may settle on, empty *)
(* when it finds none.                                                      *)
(***************************************************************************)
EXTENDS InstallTables

\* The rows of a tenant before the rows of none, then the latest.  A list in
\* the request's tenant that finds nothing is repeated without tenant.
Listed(T, ctx, p, a) ==
    LET own == ListInstallations(T, ctx, p, a)
    IN  IF own # {} THEN own ELSE ListInstallations(T, NoTenant, p, a)

PreferTenant(S, ctx) ==
    LET good == {r \in S : IF ctx # NoTenant THEN r.tenant = ctx ELSE r.tenant # NoTenant}
    IN  IF good # {} THEN good ELSE S

\* ofApp: the rows made by the Slack app the event names.
pickBestSlackInstallation(S, ctx, ofApp) ==
    LET byApp == S \cap ofApp
    IN  Latest(PreferTenant(IF byApp # {} THEN byApp ELSE S, ctx))

SlackStateID(T, ctx, team, ofApp) ==
    IF team = NoId THEN {} ELSE pickBestSlackInstallation(Listed(T, ctx, "slack", team), ctx, ofApp)

pickBestJiraInstallation(S, ctx) == Latest(PreferTenant(S, ctx))

\* The first the payload has: cloud id, host of a self link, host of the server.
jiraAccountIDFromPayload(cloud, self, server) ==
    IF cloud # NoId THEN cloud ELSE IF self # NoId THEN self ELSE server

JiraStateID(T, ctx, account) ==
    IF account = NoId THEN {}
    ELSE pickBestJiraInstallation(Listed(T, ctx, "atlassian", account), ctx)

\* GitLab and Bitbucket go by the namespace row of the repository, of any
\* instance.
GitLabStateID(N, ctx, repo) == IF repo = NoId THEN {} ELSE GetNamespace(N, ctx, "gitlab", repo, NoId)

BitbucketStateID(N, ctx, repo) ==
    IF repo = NoId THEN {} ELSE GetNamespace(N, ctx, "bitbucket", repo, NoId)
=============================================================================
