----------------------------- MODULE MCServices -----------------------------
(***************************************************************************)
(* Small instances of the services.                                         *)
(***************************************************************************)
EXTENDS Services

\* Payloads of the kinds the handlers tell apart.
Bare ==
    [action |-> "", attributesAction |-> "", refKind |-> "bare", ref |-> "", headBranch |-> "",
     fullName |-> "", projectPath |-> "", ownerAndName |-> "", workspaceAndName |-> "", sender |-> "",
     user |-> "", channelName |-> "", channelId |-> "", spaceKey |-> "", spaceId |-> "",
     projectKey |-> "", projectId |-> "", type |-> "", innerType |-> "", challenge |-> "", scripts |-> <<>>]
SomePayloads ==
    {Bare, [Bare EXCEPT !.type = "url_verification"],
     [Bare EXCEPT !.type = "url_verification", !.challenge = "c"],
     [Bare EXCEPT !.ref = "b", !.action = "opened", !.fullName = "o/r"],
     [Bare EXCEPT !.ref = "b", !.refKind = "tag", !.attributesAction = "update", !.projectPath = "o/r"],
     [Bare EXCEPT !.headBranch = "b", !.ownerAndName = "o/r", !.type = "event_callback",
                  !.innerType = "message"]}

\* Three rows at two times: ties, and an event that no rule matched.
Content(topic, matches, request, when, latency) ==
    [tenant |-> "", provider |-> "github", name |-> "push", topic |-> topic, request |-> request,
     matched |-> matches, failed |-> FALSE, latency |-> latency, ruleID |-> "", ruleWhen |-> when,
     namespaceID |-> "", namespaceName |-> "", installation |-> ""]
SomeContents == {Content("a", TRUE, "q1", "w", 1), Content("", FALSE, "q1", "", 0)}
SomeFilters == {[tenant |-> "", where |-> <<>>, matchedOnly |-> FALSE, start |-> 1, end |-> 4]}
SomeIntervals == {[len |-> 2, shift |-> 0], [len |-> 3, shift |-> 1]}

Section(id, alt) == [there |-> TRUE, id |-> id, idAlt |-> alt]
NoSection == [there |-> FALSE, id |-> "", idAlt |-> ""]
SomeWires == {[valid |-> TRUE, oauth |-> Section("A", ""), oauthAlt |-> NoSection],
              [valid |-> TRUE, oauth |-> NoSection, oauthAlt |-> Section("", "B")],
              [valid |-> FALSE, oauth |-> NoSection, oauthAlt |-> NoSection]}

Client(c) == [issuer |-> "i", audience |-> "a", client |-> c]
TheLogin == Client("c1")
TheConfigs == [p \in {"cli", "worker"} |-> Client(IF p = "cli" THEN "c1" ELSE "c2")]

Event(p, i, k) == [provider |-> p, installation |-> i, instance |-> k]
BaseOfInstance(k) == k[3]
SomeEvents == {Event("github", "i", "k1"), Event("github", "i", "k2"), Event("bitbucket", "i", "k1"),
               Event("bitbucket", "i", "k2"), Event("slack", "", "k1")}

Call(id, kind, token, claim, header, origin) ==
    [id |-> id, kind |-> kind, token |-> token, claim |-> claim, header |-> header, origin |-> origin]
AllConfigs == [storage : BOOLEAN, base : BOOLEAN, drivers : BOOLEAN, oauth : BOOLEAN, fallback : BOOLEAN,
               origins : {{}, {"*"}, {"site"}}]
SomeCalls == {Call(1, "webhook", "none", "", "", ""), Call(2, "api", "good", "t1", "t2", "site"),
              Call(3, "api", "none", "", "t2", "")}

\* Servers with and without oauth2, with and without a tenant in the token;
\* shells with a secret, in need of a login, and without a configuration.
Shell(c, apiKey, mode, secretKnown) ==
    [config |-> c, env |-> FALSE, apiKey |-> apiKey, cached |-> FALSE, mode |-> mode, secret |-> secretKnown]
File(text, redirect, pem, path) ==
    [yaml |-> TRUE, text |-> text, redirect |-> redirect, pem |-> pem, path |-> path]
Install(t, p, a, i) ==
    [tenant |-> t, prov |-> p, acct |-> a, inst |-> i, key |-> "", acc |-> 1, ref |-> 1, at |-> 1]
SomeSetups == {<<[oauth |-> TRUE, fallback |-> TRUE, claim |-> "acme"], Shell("own", FALSE, "client", TRUE)>>,
               <<[oauth |-> TRUE, fallback |-> FALSE, claim |-> ""], Shell("own", FALSE, "auth_code", FALSE)>>,
               <<[oauth |-> FALSE, fallback |-> TRUE, claim |-> ""], Shell("none", TRUE, "client", TRUE)>>}
SomeFiles == {File("map", "file", "", "key.pem"), File("map", "", "inline", "lost.pem")}
SomeInstalls == {Install("acme", "gitlab", "a", "first"), Install("default", "github", "b", "j")}
=============================================================================
