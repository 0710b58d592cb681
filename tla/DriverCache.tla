----------------------------- MODULE DriverCache -----------------------------
(***************************************************************************)
(* drivers.Cache of pkg/drivers/cache.go for one tenant, together with the  *)
(* two ways to refresh it: DriversService (store the driver, then refresh   *)
(* under a 5 second timeout) and a webhook whose PublisherFor misses.       *)
(* The stored drivers are abstracted to a version number; every third       *)
(* version, 0 included, has no enabled driver.                              *)
(***************************************************************************)
EXTENDS Naturals, FiniteSets

CONSTANTS
    Admins,     \* API requests that change drivers
    Hooks,      \* webhook requests that publish through the fallback
    Pubs,       \* identities for publishers; bounds how many are built
    None,
    MaxVersion  \* bound on the changes of the table

Procs == Admins \cup Hooks

ASSUME DriverCacheAssumption ==
    /\ Admins \cap Hooks = {}
    /\ None \notin Pubs
    /\ MaxVersion \in Nat

VARIABLES
    store,    \* version of the driver table
    pub,      \* the cached publisher
    state,    \* of each publisher: unbuilt, open or closed
    version,  \* the version a publisher was built from
    pc,       \* of each request
    seen,     \* the version its refresh has listed
    made,     \* the publisher its refresh has built
    hand,     \* the publisher it publishes with
    overlap,  \* history: two refreshes were in progress at once
    failed    \* history: the last refresh to end was an error

vars == <<store, pub, state, version, pc, seen, made, hand, overlap, failed>>

Refreshing == {"list", "build", "drop", "delete", "swap", "set"}
Pcs == Refreshing \cup {"idle", "get", "use", "done"}

TypeOK ==
    /\ store \in 0..MaxVersion
    /\ pub \in Pubs \cup {None}
    /\ state \in [Pubs -> {"unbuilt", "open", "closed"}]
    /\ version \in [Pubs -> 0..MaxVersion]
    /\ pc \in [Procs -> Pcs]
    /\ seen \in [Procs -> 0..MaxVersion]
    /\ made \in [Procs -> Pubs \cup {None}]
    /\ hand \in [Procs -> Pubs \cup {None}]
    /\ \A p \in Procs : pc[p] = "use" => hand[p] \in Pubs
    /\ overlap \in BOOLEAN
    /\ failed \in BOOLEAN

Init ==
    /\ store = 0
    /\ pub = None
    /\ state = [q \in Pubs |-> "unbuilt"]
    /\ version = [q \in Pubs |-> 0]
    /\ pc = [p \in Procs |-> "idle"]
    /\ seen = [p \in Procs |-> 0]
    /\ made = [p \in Procs |-> None]
    /\ hand = [p \in Procs |-> None]
    /\ overlap = FALSE
    /\ failed = FALSE

Configured(v) == v % 3 # 0

Busy(p) == \E q \in Procs \ {p} : pc[q] \in Refreshing

\* The end of a refresh: an API request is over, a webhook looks again.
Ended(p) == IF p \in Admins THEN "idle" ELSE "get"

\* UpsertDriver or DeleteDriver: the table changes first, the cache later.
Change(p) ==
    /\ p \in Admins
    /\ pc[p] = "idle"
    /\ store < MaxVersion
    /\ store' = store + 1
    /\ pc' = [pc EXCEPT ![p] = "list"]
    /\ overlap' = (overlap \/ Busy(p))
    /\ UNCHANGED <<pub, state, version, seen, made, hand, failed>>

\* PublisherFor: a hit needs no refresh.
PublisherFor(p) ==
    /\ p \in Hooks
    /\ pc[p] = "idle"
    /\ hand' = [hand EXCEPT ![p] = pub]
    /\ pc' = [pc EXCEPT ![p] = IF pub # None THEN "use" ELSE "list"]
    /\ overlap' = (overlap \/ (pub = None /\ Busy(p)))
    /\ UNCHANGED <<store, pub, state, version, seen, made, failed>>

\* Refresh lists the drivers, or fails to.
List(p) ==
    /\ pc[p] = "list"
    /\ seen' = [seen EXCEPT ![p] = store]
    /\ pc' = [pc EXCEPT ![p] = IF Configured(store) THEN "build" ELSE "drop"]
    /\ UNCHANGED <<store, pub, state, version, made, hand, overlap, failed>>

\* The listing, the configuration or every driver failed, or the context
\* ended first: the cache stays as it is and the error is only logged.
\* PublisherFor returns the error to its caller.
RefreshFails(p) ==
    /\ pc[p] \in {"list", "build"}
    /\ pc' = [pc EXCEPT ![p] = IF p \in Admins THEN "idle" ELSE "done"]
    /\ failed' = TRUE
    /\ UNCHANGED <<store, pub, state, version, seen, made, hand, overlap>>

\* refreshTenant without drivers: close the existing publisher...  Get and
\* Close are one step here: the publisher that Get returned is closed whether
\* or not another refresh replaces it in between.
DropOld(p) ==
    /\ pc[p] = "drop"
    /\ state' = IF pub = None THEN state ELSE [state EXCEPT ![pub] = "closed"]
    /\ pc' = [pc EXCEPT ![p] = "delete"]
    /\ UNCHANGED <<store, pub, version, seen, made, hand, overlap, failed>>

\* ... and delete the entry, in another critical section.
Delete(p) ==
    /\ pc[p] = "delete"
    /\ pub' = None
    /\ pc' = [pc EXCEPT ![p] = Ended(p)]
    /\ failed' = FALSE
    /\ UNCHANGED <<store, state, version, seen, made, hand, overlap>>

\* core.NewPublisherWithContext connects, outside any lock.
Build(p, q) ==
    /\ pc[p] = "build"
    /\ state[q] = "unbuilt"
    /\ state' = [state EXCEPT ![q] = "open"]
    /\ version' = [version EXCEPT ![q] = seen[p]]
    /\ made' = [made EXCEPT ![p] = q]
    /\ pc' = [pc EXCEPT ![p] = "swap"]
    /\ UNCHANGED <<store, pub, seen, hand, overlap, failed>>

\* The existing publisher is closed while it is still in the cache.
CloseOld(p) ==
    /\ pc[p] = "swap"
    /\ state' = IF pub = None THEN state ELSE [state EXCEPT ![pub] = "closed"]
    /\ pc' = [pc EXCEPT ![p] = "set"]
    /\ UNCHANGED <<store, pub, version, seen, made, hand, overlap, failed>>

\* Mutant: the new publisher is stored only when there was none.
SetIfAbsent(p) ==
    /\ pc[p] = "set"
    /\ pub' = IF pub = None THEN made[p] ELSE pub
    /\ made' = [made EXCEPT ![p] = None]
    /\ pc' = [pc EXCEPT ![p] = Ended(p)]
    /\ failed' = FALSE
    /\ UNCHANGED <<store, state, version, seen, hand, overlap>>

SetNew(p) ==
    /\ pc[p] = "set"
    /\ pub' = made[p]
    /\ made' = [made EXCEPT ![p] = None]
    /\ pc' = [pc EXCEPT ![p] = Ended(p)]
    /\ failed' = FALSE
    /\ UNCHANGED <<store, state, version, seen, hand, overlap>>

\* The second Get of PublisherFor: no publisher is an error.
GetAgain(p) ==
    /\ pc[p] = "get"
    /\ hand' = [hand EXCEPT ![p] = pub]
    /\ pc' = [pc EXCEPT ![p] = IF pub = None THEN "done" ELSE "use"]
    /\ UNCHANGED <<store, pub, state, version, seen, made, overlap, failed>>

\* The webhook publishes; its next match asks for the publisher again.
Release(p) ==
    /\ pc[p] \in {"use", "done"}
    /\ hand' = [hand EXCEPT ![p] = None]
    /\ pc' = [pc EXCEPT ![p] = "idle"]
    /\ UNCHANGED <<store, pub, state, version, seen, made, overlap, failed>>

Next ==
    \E p \in Procs :
        \/ Change(p)
        \/ PublisherFor(p)
        \/ List(p)
        \/ RefreshFails(p)
        \/ DropOld(p)
        \/ Delete(p)
        \/ \E q \in Pubs : Build(p, q)
        \/ CloseOld(p)
        \/ SetNew(p)
        \/ GetAgain(p)
        \/ Release(p)

Spec == Init /\ [][Next]_vars

-----------------------------------------------------------------------------

Quiet == \A p \in Procs : pc[p] \notin Refreshing

\* As long as refreshes do not overlap, the cache catches up with the driver
\* table: between two of them the cached publisher was built from the current
\* drivers, or there is none because there are none, unless the last refresh
\* ended with an error.  (Overlapping refreshes can leave the older one.)
CacheCurrent ==
    ~overlap /\ Quiet /\ ~failed =>
        IF pub = None THEN ~Configured(store) ELSE version[pub] = store

\* Without overlapping refreshes no broker connection leaks: every open
\* publisher is the cached one or the one a refresh is about to store.
NoLeakedPublisher ==
    ~overlap => \A q \in Pubs : state[q] = "open" =>
        q = pub \/ \E p \in Procs : made[p] = q

\* Outside a refresh the cache never offers a closed publisher: the window
\* between closing the old one and storing the new one ends with the refresh.
ClosedOnlyDuringRefresh ==
    pub # None /\ state[pub] = "closed" => ~Quiet

\* drivers.Cache: when no two refreshes overlapped and the last one did not
\* fail, the cache holds the publisher of the stored drivers, no broker
\* connection is open that neither the cache nor a refresh knows of, and a
\* closed publisher is offered only while a refresh is under way.
DriversAreCurrent == CacheCurrent /\ NoLeakedPublisher /\ ClosedOnlyDuringRefresh
=============================================================================
