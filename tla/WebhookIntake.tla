---------------------------- MODULE WebhookIntake ----------------------------
(***************************************************************************)
(* A webhook request from its bytes to the event that is published, and the *)
(* replay that builds the event again from its log (pkg/webhook).  Each     *)
(* handler authenticates in its own way, and most of that is done by a      *)
(* library whose order of checks decides what the handler has to check      *)
(* itself.  A header is absent, bad or good; good means that it was made    *)
(* with the configured secret.  A text field is "" when it is absent.       *)
(***************************************************************************)
EXTENDS Naturals, SequencesExt

CONSTANTS
    Payloads,  \* bodies that are JSON objects
    Scripts,   \* transform_js of the rule that matches; "" for none
    Installations  \* what the handler may find for the payload; "" for none

VARIABLES
    secret,    \* a webhook secret is configured
    req,       \* the request
    resp,      \* the status of the response
    event,     \* set of the one event that was emitted
    log,       \* set of the one event log record
    sent,      \* bodies handed to a publisher, in order
    replayed   \* set of the one event a replay built

vars == <<secret, req, resp, event, log, sent, replayed>>

Header == {"none", "bad", "good"}
Requests ==
    [provider : {"github", "gitlab", "bitbucket", "slack", "atlassian"},
     body : {"toobig", "invalid", "object"},
     name : {"", "known", "unknown", "ping"},  \* the event header
     main : Header,   \* X-Hub-Signature-256, X-Gitlab-Token, X-Hook-UUID, X-Slack-Signature
     alt : Header,    \* X-Hub-Signature, X-Slack-Request-Timestamp
     install : Installations,
     payload : Payloads]

Init ==
    /\ secret \in BOOLEAN
    /\ req \in Requests
    /\ resp = 0 /\ event = {} /\ log = {} /\ sent = << >> /\ replayed = {}

-----------------------------------------------------------------------------
(* The fields of an event.                                                  *)

\* dataString: the first key whose value is not blank.
DataString(vs) ==
    LET some == SelectSeq(vs, LAMBDA v : v # "") IN IF some = << >> THEN "" ELSE some[1]

\* normalizeGitRef: a bare branch name becomes refs/heads/<branch>.
NormalizeGitRef(r) == IF r.kind = "bare" THEN [r EXCEPT !.kind = "head"] ELSE r

NoRef == [kind |-> "none", of |-> ""]
Ref(kind, of) == IF of = "" THEN NoRef ELSE [kind |-> kind, of |-> of]

\* deriveGitRef: the payload's ref, or else the branch of a check suite or of a
\* workflow run.
DeriveGitRef(p) ==
    LET own == Ref(p.refKind, p.ref)  branch == Ref("bare", p.headBranch)
    IN  NormalizeGitRef(IF own # NoRef THEN own ELSE branch)

\* deriveNormalizedEventFields; the time and the resource's type and id, which
\* are found in the same way, are left out.
NormalizedFields(name, p) ==
    [eventType |-> name,
     action |-> DataString(<<p.action, p.attributesAction>>),
     resource |-> DataString(<<p.fullName, p.projectPath>>),
     actor |-> DataString(<<p.sender, p.user>>)]

\* annotatePayload writes the derived fields over the top level of the object
\* that rules read.
AnnotatePayload(name, p) ==
    [fields |-> NormalizedFields(name, p), ref |-> DeriveGitRef(p)]

GitHubNamespaceInfo(p) == DataString(<<p.fullName, p.ownerAndName>>)
GitLabNamespaceInfo(p) == DataString(<<p.projectPath, p.ownerAndName>>)
BitbucketNamespaceInfo(p) == DataString(<<p.fullName, p.workspaceAndName, p.ownerAndName>>)
SlackNamespaceInfo(p) == DataString(<<p.channelName, p.channelId>>)
JiraNamespaceInfo(p) == DataString(<<p.spaceKey, p.spaceId, p.projectKey, p.projectId>>)

\* slackEventName and jiraEventName: the header, or else the payload's type;
\* innerType is the type of a Slack callback with its prefix.
SlackEventName(r) ==
    LET p == r.payload
    IN  DataString(<<r.name, IF p.type = "event_callback" THEN p.innerType ELSE "", p.type, "event">>)
JiraEventName(r) == DataString(<<r.name, r.payload.type, "event">>)

NewEvent(r, name, namespace) ==
    [provider |-> r.provider, name |-> name, annotated |-> AnnotatePayload(name, r.payload),
     body |-> r.payload, installation |-> r.install, namespace |-> namespace,
     instance |-> IF r.install = "" THEN "" ELSE "key", logID |-> 0]

-----------------------------------------------------------------------------
(* The handlers.                                                            *)

\* prepareWebhookRequest: a body over MaxBodyBytes cannot be read.
PrepareWebhookRequest(r) == r.body # "toobig"

Respond(code) == resp' = code /\ UNCHANGED event
Emit(ev) == event' = {ev} /\ resp' = 200

\* Without an installation the event is dropped, which is no error.
EmitIfInstalled(ev) == IF ev.installation = "" THEN Respond(200) ELSE Emit(ev)

Verified(h) == h = "good"

\* github.Webhook.Parse of go-playground/webhooks: the event is looked up
\* before the signature is checked.
GitHubParse(r, checked) ==
    CASE r.name = "" -> "error"
      [] r.name = "unknown" -> "notfound"
      [] r.name \in {"known", "ping"} /\ checked /\ r.main = "none" -> "nosignature"
      [] r.name \in {"known", "ping"} /\ checked /\ r.main = "bad" -> "error"
      [] OTHER -> IF r.body = "object" THEN "ok" ELSE "error"

\* Mutant: an unknown event is accepted without a look at its signature.
VerifyUnknownNever(r) == TRUE

\* verifyGitHubSignature for an event the library does not know, with either
\* of the two headers.
VerifyUnknown(r) == ~secret \/ Verified(r.main) \/ Verified(r.alt)

\* A GitHub Enterprise Server may sign with SHA-1 only.
FallbackVerified(r) == Verified(r.alt)

ServeGitHub(r) ==
    LET first == GitHubParse(r, secret)
        parse == IF first = "nosignature" /\ FallbackVerified(r)
                 THEN GitHubParse(r, FALSE) ELSE first
        ev == NewEvent(r, r.name, GitHubNamespaceInfo(r.payload))
    IN  CASE parse = "notfound" /\ ~VerifyUnknown(r) -> Respond(401)
          [] parse \in {"error", "nosignature"} -> Respond(400)
          [] parse = "ok" /\ r.name = "ping" -> Respond(200)
          [] OTHER -> IF r.body = "object" THEN EmitIfInstalled(ev) ELSE Respond(200)

\* gitlab.Webhook.Parse checks the token first of all, so an unknown event is
\* already authentic.
GitLabParse(r) ==
    IF (secret /\ ~Verified(r.main)) \/ r.name = "" THEN "error"
    ELSE IF r.name = "unknown" THEN "notfound"
    ELSE IF r.body = "object" THEN "ok" ELSE "error"

ServeGitLab(r) ==
    LET ev == NewEvent(r, r.name, GitLabNamespaceInfo(r.payload))
    IN  CASE GitLabParse(r) = "error" -> Respond(400)
          [] OTHER -> IF r.body = "object" THEN EmitIfInstalled(ev) ELSE Respond(200)

\* bitbucket.Webhook.Parse: a missing X-Hook-UUID is an error of its own.
BitbucketParse(r, checked) ==
    IF checked /\ r.main = "none" THEN "nouuid"
    ELSE IF r.name = "" \/ (checked /\ r.main = "bad") THEN "error"
    ELSE IF r.name = "unknown" THEN "notfound"
    ELSE IF r.body = "object" THEN "ok" ELSE "error"

\* A request without the UUID header is parsed again without verification;
\* there an unknown event is an error.
ServeBitbucket(r) ==
    LET first == BitbucketParse(r, secret)
        again == BitbucketParse(r, FALSE)
        fails == first = "error" \/ (first = "nouuid" /\ again # "ok")
        ev == NewEvent(r, r.name, BitbucketNamespaceInfo(r.payload))
    IN  IF fails THEN Respond(400)
        ELSE IF r.body = "object" THEN EmitIfInstalled(ev) ELSE Respond(200)

\* verifySlackSignature: a signature over the body and a timestamp that is at
\* most slackRequestMaxAge off.
VerifySlackSignature(r) == ~secret \/ (Verified(r.main) /\ Verified(r.alt))

\* url_verification is answered with its challenge.
ServeSlack(r) ==
    CASE ~VerifySlackSignature(r) -> Respond(401)
      [] VerifySlackSignature(r) /\ r.body # "object" -> Respond(400)
      [] OTHER ->
            IF r.payload.type = "url_verification"
            THEN Respond(IF r.payload.challenge = "" THEN 400 ELSE 200)
            ELSE Emit(NewEvent(r, SlackEventName(r), SlackNamespaceInfo(r.payload)))

\* verifySignature: the first header that is there decides.
VerifyJiraSignature(r) == ~secret \/ Verified(IF r.alt # "none" THEN r.alt ELSE r.main)

ServeJira(r) ==
    CASE ~VerifyJiraSignature(r) -> Respond(401)
      [] VerifyJiraSignature(r) /\ r.body # "object" -> Respond(400)
      [] OTHER -> Emit(NewEvent(r, JiraEventName(r), JiraNamespaceInfo(r.payload)))

\* ServeHTTP of the handler that is registered for the path.
Serve ==
    /\ resp = 0
    /\ IF ~PrepareWebhookRequest(req) THEN Respond(400)
       ELSE \/ req.provider = "github" /\ ServeGitHub(req)
            \/ req.provider = "gitlab" /\ ServeGitLab(req)
            \/ req.provider = "bitbucket" /\ ServeBitbucket(req)
            \/ req.provider = "slack" /\ ServeSlack(req)
            \/ req.provider = "atlassian" /\ ServeJira(req)
    /\ UNCHANGED <<secret, req, log, sent, replayed>>

-----------------------------------------------------------------------------
(* From the event to its log, to the publisher and back.                    *)

\* applyRuleTransform: the script gets the payload and returns another one; a
\* payload remembers the scripts that have changed it.
ApplyRuleTransform(body, js) == IF js = "" THEN body ELSE [body EXCEPT !.scripts = Append(@, js)]

\* Mutant: the record has the transformed body in the place of the body.
RecordTransformed(ev, js) ==
    [provider |-> ev.provider, name |-> ev.name, installation |-> ev.installation,
     namespace |-> ev.namespace, body |-> ApplyRuleTransform(ev.body, js)]

\* buildEventLogRecords and UpdateEventLogTransformedPayload: the record keeps
\* the body as it came; the transformed one is stored beside it.
BuildEventLogRecord(ev, js) ==
    [provider |-> ev.provider, name |-> ev.name, installation |-> ev.installation,
     namespace |-> ev.namespace, body |-> ev.body]

Publish(js) ==
    /\ log = {}
    /\ \E ev \in event :
          /\ log' = {BuildEventLogRecord(ev, js)}
          /\ sent' = Append(sent, ApplyRuleTransform(ev.body, js))
    /\ UNCHANGED <<secret, req, resp, event, replayed>>

\* BuildReplayEvent
BuildReplayEvent(l) ==
    [provider |-> l.provider, name |-> l.name, annotated |-> AnnotatePayload(l.name, l.body),
     body |-> l.body, installation |-> l.installation, namespace |-> l.namespace,
     instance |-> "", logID |-> 1]

Replay ==
    /\ replayed = {}
    /\ \E l \in log : replayed' = {BuildReplayEvent(l)}
    /\ UNCHANGED <<secret, req, resp, event, log, sent>>

Next == Serve \/ (\E js \in Scripts : Publish(js)) \/ Replay

Spec == Init /\ [][Next]_vars

-----------------------------------------------------------------------------

\* The request carries a proof of the secret, of the kind its provider uses.
Authentic(r) ==
    CASE r.provider \in {"gitlab", "bitbucket"} -> r.main = "good"
      [] r.provider = "slack" -> r.main = "good" /\ r.alt = "good"
      [] OTHER -> "good" \in {r.main, r.alt}

\* With a secret configured no handler emits an event that was not signed with
\* it, whichever combination of known and unknown events, present, absent and
\* wrong headers the libraries meet first; except that Bitbucket requests
\* without X-Hook-UUID are taken as they are.
EmittedIsAuthentic ==
    secret /\ event # {} =>
        Authentic(req) \/ (req.provider = "bitbucket" /\ req.main = "none")

\* An authentic event of an installation is never lost in parsing: it is
\* emitted, also when the library does not know its name or a GitHub
\* Enterprise Server signs with SHA-1 only; except pings, Slack's URL check,
\* requests without an event header, a wrong header beside a good one, and
\* unknown Bitbucket events without a UUID.
AuthenticIsEmitted ==
    /\ resp # 0 /\ req.body = "object" /\ req.install # ""
    /\ secret => Authentic(req) /\ "bad" \notin {req.main, req.alt}
    => \/ event # {}
       \/ req.name = "ping" /\ req.provider = "github"
       \/ req.name = "" /\ req.provider \in {"github", "gitlab", "bitbucket"}
       \/ req.provider = "slack" /\ req.payload.type = "url_verification"
       \/ req.provider = "bitbucket" /\ req.main = "none" /\ req.name = "unknown"

\* A replay evaluates the rules on the event the webhook had emitted: what was
\* derived from the payload is derived again, nothing is transformed twice,
\* and only the provider instance is lost on the way through the log.
ReplayIsTheEvent ==
    \A ev \in event, r \in replayed :
        r = [ev EXCEPT !.instance = "", !.logID = 1]
=============================================================================
