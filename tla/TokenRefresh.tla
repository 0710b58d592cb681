---------------------------- MODULE TokenRefresh ----------------------------
(***************************************************************************)
(* GetSCMClient and the refresh of an access token near its end             *)
(* (pkg/api/scm_service.go, pkg/oauth/refresh.go).  The row is read, the    *)
(* refresh token exchanged at the provider, the row written back: three     *)
(* steps, with nothing to keep a second request from the same row.          *)
(***************************************************************************)
EXTENDS IntegrationState

\* shouldRefresh, and a refresh token to do it with.
NeedsRefresh(row) == row.acc \in aged /\ row.ref # 0

resolveInstallation(T, ctx, p, i, k) ==
    IF k # NoId THEN GetInstallationByInstallationIDAndInstanceKey(T, ctx, p, i, k)
    ELSE GetInstallationByInstallationID(T, ctx, p, i)

\* GetProviderClient, clientForInstallation and tokenClient up to the refresh.
\* GitHub mints installation tokens and leaves the row alone; a token that is
\* still good is handed out as it is: neither changes any state.
GetSCMClient(q, p, t, i, k) ==
    /\ Start(q) /\ p # "github" /\ i # NoId
    /\ \E row \in resolveInstallation(installs, t, p, i, k) :
        /\ row.acc # 0 /\ NeedsRefresh(row)
        /\ Become(q, [Idle EXCEPT !.pc = "refresh", !.ctx = t, !.row = row])
    /\ UNCHANGED <<table, remote, faults, history>>

\* The provider's side of a refresh: a rotating provider accepts the token
\* once and answers with another, the others answer without one.
Exchange(p, ref) ==
    /\ issued' = issued + 1
    /\ accepted' = IF p \in Rotating THEN (accepted \ {ref}) \cup {issued'} ELSE accepted

\* Mutant: only the access token of the answer is taken over.
RefreshedRowKeeps(row, acc, ref) == [row EXCEPT !.acc = acc]

\* RefreshGitLabToken, RefreshBitbucketToken, RefreshSlackToken and
\* RefreshJiraToken: an answer without refresh token keeps the old one.
RefreshedRow(row, acc, ref) == [row EXCEPT !.acc = acc, !.ref = IF ref = 0 THEN @ ELSE ref]

\* The exchange of tokenClient and SyncNamespaces.
Refresh(q) ==
    LET l == req[q]
    IN  /\ At(q, "refresh") /\ l.row.ref \in accepted
        /\ Exchange(l.row.prov, l.row.ref)
        /\ Become(q, [l EXCEPT !.pc = "persist", !.row =
              RefreshedRow(l.row, issued', IF l.row.prov \in Rotating THEN issued' ELSE 0)])
        /\ UNCHANGED <<table, aged, hooks, ops, faults, history>>

\* The provider refuses the token, or the answer is lost on the way back: an
\* error for the caller, and in the second case a token nobody has.
RefreshFails(q) ==
    LET l == req[q]
    IN  /\ At(q, "refresh")
        /\ \/ l.row.ref \notin accepted /\ UNCHANGED <<remote, faults, spent>>
           \/ /\ l.row.ref \in accepted /\ Fault
              /\ Exchange(l.row.prov, l.row.ref)
              /\ spent' = IF l.row.prov \in Rotating THEN spent \cup {l.row.ref} ELSE spent
              /\ UNCHANGED <<aged, hooks>>
        /\ End(q)
        /\ UNCHANGED <<table, ops, stale, told, orphaned>>

\* UpsertInstallation of the refreshed record: the whole record as it was
\* read, also when the row has changed or gone since.  An error is logged and
\* the caller gets its token all the same.
Persist(q) ==
    LET l == req[q]
        cur == {s \in installs : InstallIndex(s) = InstallIndex(l.row)}
        next == IF l.sync THEN BeginSync(l) ELSE Idle
    IN  /\ At(q, "persist")
        /\ \/ /\ installs' = UpsertInstallation(installs, l.row, now)
              /\ now' = now + 1
              /\ spent' = IF l.blind /\ \A s \in cur : s.at # l.row.at
                          THEN spent \cup {l.row.ref} ELSE spent
              /\ UNCHANGED faults
           \/ /\ Fault
              /\ spent' = spent \cup {s.ref : s \in cur}
              /\ UNCHANGED <<installs, now>>
        /\ Become(q, next)
        /\ UNCHANGED <<namespaces, remote, ops, stale, told, orphaned>>
=============================================================================
