-------------------------- MODULE ProviderInstances --------------------------
(***************************************************************************)
(* The instances of a provider: their table, their API, the cache of their  *)
(* configurations (pkg/providerinstance) and the two ends of an OAuth flow   *)
(* that read them: the start handler, which sends the user to authorise an   *)
(* application, and the callback, which exchanges the code with the          *)
(* application of the instance it finds.  One provider, Atlassian, which is  *)
(* also called Jira.  A request without a tenant has the tenant "", whose    *)
(* queries are not restricted.  A configuration is the JSON of its client    *)
(* identifier, in either of two spellings.                                   *)
(***************************************************************************)
EXTENDS Naturals, Sequences, FiniteSets

CONSTANTS
    Tenants,     \* with ""
    Hashes,      \* what generateProviderInstanceHash may draw
    Keys,        \* what a request may name: hashes and other keys
    Wires,       \* configurations a request may carry
    Fallback,    \* the client of the server's own configuration
    Admins,      \* requests of the API that may run at once
    MaxRequests  \* bound: requests of the API

VARIABLES
    instances,   \* rows: [tenant, key, config]
    cache,       \* [tenant -> entries [key, app]]; none at all is no entry
    admin,       \* [Admins -> the request]
    requests,    \* number of requests of the API so far
    flow,        \* the OAuth flow
    calm         \* nothing was written or cached since the flow started

vars == <<instances, cache, admin, requests, flow, calm>>

NoKey == ""
Idle == [pc |-> "idle"]
NoFlow == [pc |-> "none"]

Init ==
    /\ instances = {} /\ cache = [t \in Tenants |-> {}]
    /\ admin = [a \in Admins |-> Idle] /\ requests = 0
    /\ flow = NoFlow /\ calm = FALSE

-----------------------------------------------------------------------------
(* Configurations.                                                          *)

\* The blank configuration is no JSON at all and means the empty one.
NoSection == [there |-> FALSE, id |-> "", idAlt |-> ""]
Blank == [valid |-> TRUE, oauth |-> NoSection, oauthAlt |-> NoSection]

\* unmarshalProviderConfig: a section, and in it a field, is read under its
\* first spelling and only without that under the second.
UnmarshalProviderConfig(w) ==
    LET section == IF w.oauth.there THEN w.oauth ELSE w.oauthAlt
    IN  IF section.id # "" THEN section.id ELSE section.idAlt

App(r) == UnmarshalProviderConfig(r.config)
Entries(rows) == {[key |-> r.key, app |-> App(r)] : r \in rows}

-----------------------------------------------------------------------------
(* The store.                                                               *)

\* TenantScope
Scope(t) == {r \in instances : t = "" \/ r.tenant = t}

ListProviderInstances(t) == Scope(t)
GetProviderInstance(t, key) == {r \in Scope(t) : r.key = key}

\* The column enabled has the default true, which gorm writes in place of
\* false: every instance is enabled and the model has no such column.
UpsertProviderInstance(t, key, config) ==
    {r \in instances : r.tenant # t \/ r.key # key} \union
        {[tenant |-> t, key |-> key, config |-> config]}

-----------------------------------------------------------------------------
(* The cache.                                                               *)

Valid(rows) == \A r \in rows : r.config.valid
OfTenant(rows, t) == {r \in rows : r.tenant = t}

\* Refresh with the rows it has read: the caches it may leave.  A configuration
\* that is no JSON ends it, and without a tenant the other tenants come before
\* or after that in any order.
Refreshed(t, rows) ==
    IF t # ""
    THEN {IF Valid(rows) THEN [cache EXCEPT ![t] = Entries(rows)] ELSE cache}
    ELSE LET good == {u \in Tenants : OfTenant(rows, u) # {} /\ Valid(OfTenant(rows, u))}
             With(done, others) == [u \in Tenants |-> IF u \in done THEN Entries(OfTenant(rows, u)) ELSE others[u]]
         IN  IF Valid(rows) THEN {With(good, [u \in Tenants |-> {}])}
             ELSE {With(done, cache) : done \in SUBSET good}

-----------------------------------------------------------------------------
(* The API.                                                                 *)

Disturb == calm' = FALSE /\ UNCHANGED flow

Answer(a, req) == admin' = [admin EXCEPT ![a] = req]

\* UpsertProvider up to the write: without a key there must be no instance, and
\* with one there must be none or that one.
UpsertProvider(a, t, key, config) ==
    /\ admin[a] = Idle /\ requests < MaxRequests
    /\ requests' = requests + 1
    /\ LET existing == ListProviderInstances(t)
       IN  IF key = NoKey THEN existing = {} ELSE existing # {} => \E r \in existing : r.key = key
    /\ \E k \in IF key = NoKey THEN {h \in Hashes : GetProviderInstance(t, h) = {}} ELSE {key} :
          Answer(a, [pc |-> IF config = Blank THEN "config" ELSE "write",
                     tenant |-> t, key |-> k, config |-> config])
    /\ Disturb /\ UNCHANGED <<instances, cache>>

\* A request without a configuration keeps the stored one.
KeepConfig(a) ==
    /\ admin[a].pc = "config"
    /\ LET stored == GetProviderInstance(admin[a].tenant, admin[a].key)
       IN  \E c \in IF stored = {} THEN {Blank} ELSE {r.config : r \in stored} :
              Answer(a, [admin[a] EXCEPT !.pc = "write", !.config = c])
    /\ Disturb /\ UNCHANGED <<instances, cache, requests>>

WriteInstance(a) ==
    /\ admin[a].pc = "write"
    /\ instances' = UpsertProviderInstance(admin[a].tenant, admin[a].key, admin[a].config)
    /\ Answer(a, [pc |-> "refresh", tenant |-> admin[a].tenant])
    /\ Disturb /\ UNCHANGED <<cache, requests>>

DeleteProvider(a, t, key) ==
    /\ admin[a] = Idle /\ requests < MaxRequests
    /\ requests' = requests + 1
    /\ instances' = instances \ GetProviderInstance(t, key)
    /\ Answer(a, [pc |-> "refresh", tenant |-> t])
    /\ Disturb /\ UNCHANGED cache

\* Cache.Refresh of a request; an error is only logged.
RefreshReads(a) ==
    /\ admin[a].pc = "refresh"
    /\ Answer(a, [pc |-> "set", tenant |-> admin[a].tenant, rows |-> ListProviderInstances(admin[a].tenant)])
    /\ Disturb /\ UNCHANGED <<instances, cache, requests>>

RefreshSets(a) ==
    /\ admin[a].pc = "set"
    /\ cache' \in Refreshed(admin[a].tenant, admin[a].rows)
    /\ Answer(a, Idle)
    /\ Disturb /\ UNCHANGED <<instances, requests>>

-----------------------------------------------------------------------------
(* The OAuth flow.                                                          *)

NormalizeProviderName(name) == IF name = "jira" THEN "atlassian" ELSE name

\* callbackURL, of a server that knows its endpoint.
CallbackURL(name) == <<"auth", name, "callback">>

\* Where an instance is looked for: a source and the tenant it is asked with.
StartPlan(t) == <<[cached |-> TRUE, tenant |-> t], [cached |-> FALSE, tenant |-> t],
                  [cached |-> TRUE, tenant |-> ""], [cached |-> FALSE, tenant |-> ""]>>
CallbackPlan(t) == <<[cached |-> TRUE, tenant |-> t], [cached |-> TRUE, tenant |-> ""],
                     [cached |-> FALSE, tenant |-> t], [cached |-> FALSE, tenant |-> ""]>>

CacheTrue == \A t \in Tenants : cache[t] # {} => cache[t] = Entries(OfTenant(instances, t))

\* Only one row can be meant by the tenant and the key; when another tenant has
\* the key as well, the instances of this one can all be read, or the cache
\* does not load them and the callback asks the cache for tenant "" before it
\* asks the table for this one.
Unambiguous(t, key) ==
    LET rows == {r \in instances : r.key = key}
    IN  Cardinality(rows) <= 1 \/ (t # "" /\ OfTenant(rows, t) # {} /\ Valid(OfTenant(instances, t)))

\* ServeHTTP of the start handler, with or without an instance in its query.
Start(name, t, key) ==
    /\ flow = NoFlow
    /\ calm' = (CacheTrue /\ Unambiguous(t, key) /\ \A a \in Admins : admin[a] = Idle)
    /\ flow' = [pc |-> "start", provider |-> NormalizeProviderName(name), tenant |-> t, key |-> key,
                plan |-> StartPlan(t), loading |-> FALSE, rows |-> {}, app |-> "", url |-> << >>]
    /\ UNCHANGED <<instances, cache, admin, requests>>

\* Mutant: the state that travels with the user names only the tenant.
EncodeStateTenantOnly(t, key) == [tenant |-> t, key |-> NoKey]

\* encodeState, and decodeState of the callback.
EncodeState(t, key) == [tenant |-> t, key |-> key]

\* A configuration was found: the start handler redirects, unless the plugin
\* finds no client to authorise; the callback exchanges the code.
Found(app, key) ==
    IF flow.pc = "start"
    THEN IF app = "" THEN flow' = NoFlow
         ELSE LET state == EncodeState(flow.tenant, key)
              IN  flow' = [flow EXCEPT !.pc = "away", !.app = app, !.url = CallbackURL(flow.provider),
                                       !.tenant = state.tenant, !.key = state.key, !.loading = FALSE,
                                       !.rows = {}]
    ELSE flow' = [pc |-> "done", authorised |-> flow.app, exchanged |-> app,
                  urls |-> <<flow.url, CallbackURL("atlassian")>>]

Looking == flow.pc \in {"start", "callback"}

\* Without a key the table decides.  More than one instance leaves the server's
\* own configuration, which the callback may find again in one of them.
ResolveWithoutKey ==
    /\ Looking /\ flow.key = NoKey
    /\ LET records == ListProviderInstances(flow.tenant)
       IN  IF Cardinality(records) = 1 /\ Valid(records)
           THEN \E r \in records : Found(App(r), r.key)
           ELSE Found(Fallback, NoKey)
    /\ UNCHANGED <<instances, cache, admin, requests, calm>>

Step == flow.plan[1]
NextStep == flow' = [flow EXCEPT !.plan = Tail(@), !.loading = FALSE, !.rows = {}]

\* ConfigFor of a tenant that is not cached loads the tenant first.
LoadReads ==
    /\ Looking /\ flow.key # NoKey /\ flow.plan # << >> /\ Step.cached /\ ~flow.loading
    /\ cache[Step.tenant] = {}
    /\ flow' = [flow EXCEPT !.loading = TRUE, !.rows = ListProviderInstances(Step.tenant)]
    /\ UNCHANGED <<instances, cache, admin, requests, calm>>

\* After a Refresh that ended with an error nothing is found, though it may
\* have cached what it came to first.
LoadSets ==
    /\ Looking /\ flow.loading
    /\ \E c \in Refreshed(Step.tenant, flow.rows) :
          /\ cache' = c
          /\ LET hits == {e \in c[Step.tenant] : Valid(flow.rows) /\ e.key = flow.key}
             IN  IF hits = {} THEN NextStep ELSE \E e \in hits : Found(e.app, flow.key)
    /\ UNCHANGED <<instances, admin, requests, calm>>

ConfigFor ==
    /\ Looking /\ flow.key # NoKey /\ flow.plan # << >> /\ Step.cached /\ ~flow.loading
    /\ cache[Step.tenant] # {}
    /\ LET hits == {e \in cache[Step.tenant] : e.key = flow.key}
       IN  IF hits = {} THEN NextStep ELSE \E e \in hits : Found(e.app, flow.key)
    /\ UNCHANGED <<instances, cache, admin, requests, calm>>

\* The table.  The callback gives up on a record it cannot read.
GetInstance ==
    /\ Looking /\ flow.key # NoKey /\ flow.plan # << >> /\ ~Step.cached
    /\ LET records == GetProviderInstance(Step.tenant, flow.key)
       IN  IF records = {} THEN NextStep
           ELSE \E r \in records :
                   IF r.config.valid THEN Found(App(r), flow.key)
                   ELSE IF flow.pc = "start" THEN NextStep ELSE Found(Fallback, flow.key)
    /\ UNCHANGED <<instances, cache, admin, requests, calm>>

NotFound ==
    /\ Looking /\ flow.key # NoKey /\ flow.plan = << >>
    /\ Found(Fallback, flow.key)
    /\ UNCHANGED <<instances, cache, admin, requests, calm>>

\* The user comes back to the callback with the state.
Callback ==
    /\ flow.pc = "away"
    /\ flow' = [flow EXCEPT !.pc = "callback", !.plan = CallbackPlan(flow.tenant), !.loading = FALSE]
    /\ UNCHANGED <<instances, cache, admin, requests, calm>>

-----------------------------------------------------------------------------

Next ==
    \/ \E a \in Admins :
          \/ \E t \in Tenants, k \in Keys \union {NoKey}, w \in Wires \union {Blank} :
                UpsertProvider(a, t, k, w)
          \/ \E t \in Tenants, k \in Keys : DeleteProvider(a, t, k)
          \/ KeepConfig(a) \/ WriteInstance(a) \/ RefreshReads(a) \/ RefreshSets(a)
    \/ \E name \in {"jira", "atlassian"}, t \in Tenants, k \in Keys \union {NoKey} : Start(name, t, k)
    \/ ResolveWithoutKey \/ LoadReads \/ LoadSets \/ ConfigFor \/ GetInstance \/ NotFound \/ Callback

Spec == Init /\ [][Next]_vars

-----------------------------------------------------------------------------
(* Properties.                                                              *)

\* The callback exchanges the code with the application, and for the redirect
\* address, that the user was sent to authorise, along whichever path the
\* start handler and the callback found it, unless an instance was written or
\* cached meanwhile or the tenant and the key may mean more than one.
SameApplication ==
    flow.pc = "done" /\ calm =>
        flow.exchanged = flow.authorised /\ flow.urls[1] = flow.urls[2]
=============================================================================
