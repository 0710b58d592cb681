---------------------------- MODULE DynamicCache ----------------------------
(***************************************************************************)
(* DynamicPublisherCache of pkg/drivers/dynamic_cache.go, shared by all the *)
(* webhook requests: a mutex protects each access to the map, but not the   *)
(* construction of a publisher between a miss and the insertion.            *)
(***************************************************************************)
EXTENDS Naturals, FiniteSets

CONSTANTS
    Callers,   \* goroutines that publish a match
    Keys,      \* (driver name, config) pairs: what cacheKey hashes
    Pubs,      \* identities for publishers; bounds how many are built
    None       \* no publisher, no key

VARIABLES
    pubs,     \* the map of the cache
    state,    \* of each publisher: unbuilt, open or closed
    builtFor, \* the key it was built from
    pc,       \* of each caller
    key,      \* the key a caller asked for
    hand,     \* the publisher a caller holds
    closes,   \* the cache has been closed
    replaced  \* history: publishers another insertion has overwritten

vars == <<pubs, state, builtFor, pc, key, hand, closes, replaced>>

TypeOK ==
    /\ pubs \in [Keys -> Pubs \cup {None}]
    /\ state \in [Pubs -> {"unbuilt", "open", "closed"}]
    /\ builtFor \in [Pubs -> Keys \cup {None}]
    /\ pc \in [Callers -> {"idle", "build", "insert", "use"}]
    /\ key \in [Callers -> Keys \cup {None}]
    /\ hand \in [Callers -> Pubs \cup {None}]
    /\ \A c \in Callers : pc[c] \in {"insert", "use"} => hand[c] \in Pubs
    /\ closes \in BOOLEAN
    /\ replaced \subseteq Pubs

Init ==
    /\ pubs = [k \in Keys |-> None]
    /\ state = [p \in Pubs |-> "unbuilt"]
    /\ builtFor = [p \in Pubs |-> None]
    /\ pc = [c \in Callers |-> "idle"]
    /\ key = [c \in Callers |-> None]
    /\ hand = [c \in Callers |-> None]
    /\ closes = FALSE
    /\ replaced = {}

\* The first critical section of Publisher: a hit returns at once.
Lookup(c, k) ==
    /\ pc[c] = "idle"
    /\ key' = [key EXCEPT ![c] = k]
    /\ hand' = [hand EXCEPT ![c] = pubs[k]]
    /\ pc' = [pc EXCEPT ![c] = IF pubs[k] # None THEN "use" ELSE "build"]
    /\ UNCHANGED <<pubs, state, builtFor, closes, replaced>>

\* ConfigFromDriver and core.NewPublisher, outside the lock.
Build(c, p) ==
    /\ pc[c] = "build"
    /\ state[p] = "unbuilt"
    /\ state' = [state EXCEPT ![p] = "open"]
    /\ builtFor' = [builtFor EXCEPT ![p] = key[c]]
    /\ hand' = [hand EXCEPT ![c] = p]
    /\ pc' = [pc EXCEPT ![c] = "insert"]
    /\ UNCHANGED <<pubs, key, closes, replaced>>

\* No driver could be built: the caller gets the error.
BuildFails(c) ==
    /\ pc[c] = "build"
    /\ pc' = [pc EXCEPT ![c] = "idle"]
    /\ key' = [key EXCEPT ![c] = None]
    /\ UNCHANGED <<pubs, state, builtFor, hand, closes, replaced>>

\* Mutant: a caller that finds the key taken keeps its own publisher.
InsertIfAbsent(c) ==
    /\ pc[c] = "insert"
    /\ pubs' = IF pubs[key[c]] = None
               THEN [pubs EXCEPT ![key[c]] = hand[c]] ELSE pubs
    /\ pc' = [pc EXCEPT ![c] = "use"]
    /\ UNCHANGED <<state, builtFor, key, hand, closes, replaced>>

\* The second critical section: the last insertion wins, and the publisher it
\* replaces is neither closed nor remembered.
Insert(c) ==
    /\ pc[c] = "insert"
    /\ pubs' = [pubs EXCEPT ![key[c]] = hand[c]]
    /\ replaced' = replaced \cup ({pubs[key[c]]} \ {None})
    /\ pc' = [pc EXCEPT ![c] = "use"]
    /\ UNCHANGED <<state, builtFor, key, hand, closes>>

\* The caller publishes and drops the publisher.
Release(c) ==
    /\ pc[c] = "use"
    /\ pc' = [pc EXCEPT ![c] = "idle"]
    /\ key' = [key EXCEPT ![c] = None]
    /\ hand' = [hand EXCEPT ![c] = None]
    /\ UNCHANGED <<pubs, state, builtFor, closes, replaced>>

Cached == {pubs[k] : k \in Keys} \ {None}

\* Close holds the lock while it closes and removes every entry.
Close ==
    /\ ~closes
    /\ closes' = TRUE
    /\ state' = [p \in Pubs |-> IF p \in Cached THEN "closed" ELSE state[p]]
    /\ pubs' = [k \in Keys |-> None]
    /\ UNCHANGED <<builtFor, pc, key, hand, replaced>>

Next ==
    \/ \E c \in Callers :
          \/ \E k \in Keys : Lookup(c, k)
          \/ \E p \in Pubs : Build(c, p)
          \/ BuildFails(c)
          \/ Insert(c)
          \/ Release(c)
    \/ Close

Spec == Init /\ [][Next]_vars

-----------------------------------------------------------------------------

\* A match is published with the driver name and config its rule has now:
\* whatever the interleaving of misses, builds and insertions, a caller never
\* holds a publisher built from another key.
RightPublisher ==
    \A c \in Callers : hand[c] # None => builtFor[hand[c]] = key[c]

\* The cache never hands out a publisher that Close has closed: not even an
\* insertion that comes after Close leaves a closed publisher in the map.
CachedIsOpen == \A p \in Cached : state[p] = "open"

\* A connection is left open without an owner only by a lost race: each open
\* publisher is cached, held by a caller, or was overwritten by the insertion
\* of a caller that missed at the same time.
OrphansOnlyByRace ==
    \A p \in Pubs : state[p] = "open" =>
        \/ p \in Cached
        \/ \E c \in Callers : hand[c] = p
        \/ p \in replaced

\* DynamicPublisherCache: a caller holds the publisher of its own key, a cached
\* publisher is open, and an open one is cached, in use, or lost to the
\* insertion of a caller that missed as well.
PublishersAreKept == RightPublisher /\ CachedIsOpen /\ OrphansOnlyByRace
=============================================================================
