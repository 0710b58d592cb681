------------------------------- MODULE Server -------------------------------
(***************************************************************************)
(* The life of the server (pkg/server): BuildHandler opens stores, caches   *)
(* and publishers one after another and remembers how to close each; a      *)
(* failure on the way closes what is open; Run serves until the context is  *)
(* cancelled or the port cannot be had, waits ten seconds for the requests  *)
(* that are running, and then closes everything, whether or not they are    *)
(* done.                                                                    *)
(***************************************************************************)
EXTENDS Naturals, SequencesExt

CONSTANTS
    Configs,  \* [storage, base, drivers, oauth, fallback : BOOLEAN, origins]
    Calls,    \* requests: [id, kind, token, claim, header, origin]
    MaxCalls  \* bound: requests that run at once

VARIABLES
    config,
    pc,        \* build, serve, drain, clean, failed, returned
    step,      \* the next of BuildSteps
    closers,   \* in the order of addCloser
    open,      \* the resources that are open
    abandoned, \* history: connections that no closer knows of
    cancelled,
    calls,     \* set of running [call, at, tenant]
    gaveUp,    \* history: the cleanup began while requests were running
    hurt       \* history: calls that met something closed

vars == <<config, pc, step, closers, open, abandoned, cancelled, calls, gaveUp, hurt>>

Stores == <<"installations", "namespaces", "rules", "eventlogs", "drivers", "instances">>
BuildSteps == <<"engine">> \o Stores \o
              <<"dynamicCache", "driverCache", "instanceCache", "publisher", "verifier", "handlers">>

Init ==
    /\ config \in Configs
    /\ pc = "build" /\ step = 1 /\ closers = << >> /\ open = {} /\ abandoned = {}
    /\ cancelled = FALSE /\ calls = {} /\ gaveUp = FALSE /\ hurt = {}

-----------------------------------------------------------------------------
(* BuildHandler.                                                            *)

\* Without storage.driver and storage.dsn there are no stores, and no caches
\* over them.
Skipped(s) ==
    \/ s \in ToSet(Stores) \union {"driverCache", "instanceCache"} /\ ~config.storage
    \/ s = "verifier" /\ ~config.oauth

\* What a step opens: a store its own connections to the database, the driver
\* cache the publisher of the default tenant, if that has drivers, and the
\* publisher the configured base.
Opens(s) ==
    CASE s \in ToSet(Stores) \/ s = "dynamicCache" -> {s}
      [] s = "driverCache" /\ config.drivers -> {"tenantPublisher"}
      [] s = "publisher" /\ config.base -> {"basePublisher"}
      [] OTHER -> {}

\* What the closer of a step closes; TenantPublisher.Close closes the driver
\* cache too.
Closes(s) ==
    CASE s \in ToSet(Stores) \/ s = "dynamicCache" -> {s}
      [] s = "driverCache" -> {"tenantPublisher"}
      [] s = "publisher" ->
            (IF config.base THEN {"basePublisher"} ELSE {}) \union
            (IF config.storage THEN {"tenantPublisher"} ELSE {})
      [] OTHER -> {}

\* Mutant: the closer of the driver cache is left to the publisher.
AddCloserNotCache(s) ==
    closers' = IF s \in ToSet(Stores) \union {"dynamicCache", "instanceCache", "publisher"}
               THEN Append(closers, s) ELSE closers

AddCloser(s) ==
    closers' = IF s \in ToSet(Stores) \union {"dynamicCache", "driverCache", "instanceCache", "publisher"}
               THEN Append(closers, s) ELSE closers

\* buildPublisher has nothing to publish with.
NoPublisher == ~config.base /\ ~config.storage

Build ==
    /\ pc = "build"
    /\ LET s == BuildSteps[step]
       IN  /\ s = "publisher" => ~NoPublisher
           /\ IF Skipped(s) THEN UNCHANGED <<open, closers>>
              ELSE open' = open \union Opens(s) /\ AddCloser(s)
    /\ step' = step + 1
    /\ pc' = IF step = Len(BuildSteps) THEN "serve" ELSE "build"
    /\ UNCHANGED <<config, abandoned, cancelled, calls, gaveUp, hurt>>

\* A step fails and what is open is closed.  A store that cannot migrate its
\* table returns without closing the connection it has just opened.
BuildFails ==
    /\ pc = "build"
    /\ LET s == BuildSteps[step]
       IN  /\ ~Skipped(s) /\ s # "dynamicCache"
           /\ abandoned' \in (IF s \in ToSet(Stores) THEN {{}, {s}} ELSE {{}})
    /\ pc' = "failed"
    /\ UNCHANGED <<config, step, closers, open, cancelled, calls, gaveUp, hurt>>

-----------------------------------------------------------------------------
(* Requests.                                                                *)

\* allowOriginFunc; a request that is not a browser's has no origin.
AllowOrigin(o) == "*" \in config.origins \/ o \in config.origins

\* newAuthInterceptor, which webhooks do not pass.
Authenticated(c) == c.kind = "webhook" \/ ~config.oauth \/ c.token = "good"

\* tenantIDFromRequest: what the token claims, or else a header, if that is
\* allowed.
TenantIDFromRequest(c) ==
    CASE config.oauth /\ c.claim # "" -> c.claim
      [] (~config.oauth \/ c.claim = "") /\ config.fallback -> c.header
      [] OTHER -> ""

\* ServeHTTP of the mux: a webhook or an API call.
Arrive(c) ==
    /\ pc = "serve"
    /\ Len(SetToSeq(calls)) < MaxCalls
    /\ \A r \in calls : r.call # c
    /\ c.origin = "" \/ AllowOrigin(c.origin)
    /\ IF Authenticated(c)
       THEN calls' = calls \union {[call |-> c, at |-> "store",
                                    tenant |-> IF c.kind = "webhook" THEN "" ELSE TenantIDFromRequest(c)]}
       ELSE UNCHANGED calls
    /\ UNCHANGED <<config, pc, step, closers, open, abandoned, cancelled, gaveUp, hurt>>

Moves(r, at) == calls' = (calls \ {r}) \union {[r EXCEPT !.at = at]}

\* The call reads its store; without one it has nothing to do there.
UseStore(r) ==
    /\ r.at = "store"
    /\ hurt' = IF config.storage /\ "rules" \notin open THEN hurt \union {r.call} ELSE hurt
    /\ IF config.storage /\ "rules" \notin open THEN calls' = calls \ {r}
       ELSE Moves(r, IF r.call.kind = "webhook" THEN "publisher" ELSE "done")
    /\ UNCHANGED <<config, pc, step, closers, open, abandoned, cancelled, gaveUp>>

\* publisherFor: a publisher that is not cached is built from the driver
\* table; the base publisher is the last resort.
GetPublisher(r) ==
    /\ r.at = "publisher"
    /\ IF config.storage /\ config.drivers /\ "tenantPublisher" \notin open
       THEN IF "drivers" \in open
            THEN open' = open \union {"tenantPublisher"} /\ Moves(r, "publish") /\ UNCHANGED hurt
            ELSE UNCHANGED open /\ calls' = calls \ {r} /\ hurt' = hurt \union {r.call}
       ELSE UNCHANGED <<open, hurt>> /\ Moves(r, "publish")
    /\ UNCHANGED <<config, pc, step, closers, abandoned, cancelled, gaveUp>>

Publish(r) ==
    /\ r.at = "publish"
    /\ LET with == IF config.storage /\ config.drivers THEN "tenantPublisher" ELSE "basePublisher"
       IN  hurt' = IF with \notin open /\ (config.base \/ with = "tenantPublisher") THEN hurt \union {r.call} ELSE hurt
    /\ Moves(r, "done")
    /\ UNCHANGED <<config, pc, step, closers, open, abandoned, cancelled, gaveUp>>

Respond(r) ==
    /\ r.at = "done"
    /\ calls' = calls \ {r}
    /\ UNCHANGED <<config, pc, step, closers, open, abandoned, cancelled, gaveUp, hurt>>

-----------------------------------------------------------------------------
(* RunWithMiddleware and the cleanup that it defers.                        *)

\* A signal, at any time.
Cancel ==
    /\ ~cancelled
    /\ cancelled' = TRUE
    /\ UNCHANGED <<config, pc, step, closers, open, abandoned, calls, gaveUp, hurt>>

\* Shutdown stops the listener.
StartShutdown ==
    /\ pc = "serve" /\ cancelled
    /\ pc' = "drain"
    /\ UNCHANGED <<config, step, closers, open, abandoned, cancelled, calls, gaveUp, hurt>>

\* ListenAndServe cannot bind its port, or later fails to accept; then nobody
\* waits for the requests that are running.
ListenFails ==
    /\ pc = "serve"
    /\ gaveUp' = (calls # {})
    /\ pc' = "clean"
    /\ UNCHANGED <<config, step, closers, open, abandoned, cancelled, calls, hurt>>

\* Shutdown returns when the last request is done.
Drained == pc = "drain" /\ calls = {}

ShutdownReturns ==
    /\ Drained
    /\ pc' = "clean"
    /\ UNCHANGED <<config, step, closers, open, abandoned, cancelled, calls, gaveUp, hurt>>

\* Or after ten seconds; the request goes on.
ShutdownGivesUp ==
    /\ pc = "drain" /\ calls # {}
    /\ gaveUp' = TRUE
    /\ pc' = "clean"
    /\ UNCHANGED <<config, step, closers, open, abandoned, cancelled, calls, hurt>>

\* cleanup: the last closer first.  Close empties the driver cache, so that
\* the second Close of it closes what was built meanwhile.
Clean ==
    /\ pc \in {"failed", "clean"} /\ closers # << >>
    /\ open' = open \ Closes(Last(closers))
    /\ closers' = Front(closers)
    /\ UNCHANGED <<config, pc, step, abandoned, cancelled, calls, gaveUp, hurt>>

Return ==
    /\ pc \in {"failed", "clean"} /\ closers = << >>
    /\ pc' = "returned"
    /\ UNCHANGED <<config, step, closers, open, abandoned, cancelled, calls, gaveUp, hurt>>

Next ==
    \/ Build \/ BuildFails \/ Cancel \/ StartShutdown \/ ListenFails
    \/ ShutdownReturns \/ ShutdownGivesUp \/ Clean \/ Return
    \/ \E c \in Calls : Arrive(c)
    \/ \E r \in calls : UseStore(r) \/ GetPublisher(r) \/ Publish(r) \/ Respond(r)

Spec == Init /\ [][Next]_vars

-----------------------------------------------------------------------------

\* When Run returns, after a failure at any step of the build, a port that is
\* taken or a shutdown, nothing that it knows of is open, except the publisher
\* that a request may build after Shutdown gave up on it; and what it does not
\* know of is at most the connection of the one store that failed to migrate.
NothingLeftOpen ==
    pc = "returned" =>
        /\ open \subseteq (IF gaveUp THEN {"tenantPublisher"} ELSE {})
        /\ abandoned \subseteq (IF step <= Len(BuildSteps) THEN {BuildSteps[step]} ELSE {})

\* A request that Shutdown waits for works to its end: it meets no store and
\* no publisher that the cleanup has closed, and while it runs a publisher is
\* not left without the store it is built from.
RequestsUnharmed ==
    /\ ~gaveUp => hurt = {}
    /\ ~gaveUp /\ calls # {} => (config.storage => ToSet(Stores) \subseteq open)

\* However its start or its end goes, the server leaves nothing open that it
\* opened, save what its stores lose, and closes nothing under a request
\* unless it gave up waiting.
ServerEndsClean == NothingLeftOpen /\ RequestsUnharmed
=============================================================================
