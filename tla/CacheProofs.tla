----------------------------- MODULE CacheProofs -----------------------------
(***************************************************************************)
(* Proofs about the two caches of pkg/drivers, DriverCache and DynamicCache,*)
(* for every number of requests, callers, keys and publishers.              *)
(***************************************************************************)
EXTENDS Services, TLAPS

-----------------------------------------------------------------------------
(***************************************************************************)
(* drivers.Cache.                                                           *)
(***************************************************************************)

\* Without an overlap a single request refreshes.
OneRefresh ==
    ~overlap => \A p, q \in Procs : pc[p] \in Refreshing /\ pc[q] \in Refreshing => p = q

\* A refresh has built a publisher and not stored it yet: it is open, is not in
\* the cache, and belongs to this refresh alone.
MadeIsOwn ==
    \A p \in Procs :
        /\ made[p] # None <=> pc[p] \in {"swap", "set"}
        /\ made[p] # None => /\ state[made[p]] = "open"
                             /\ version[made[p]] = seen[p]
                             /\ made[p] # pub
                             /\ \A q \in Procs : made[q] = made[p] => q = p

\* The cached publisher was built.
CachedIsBuilt == pub # None => state[pub] # "unbuilt"

\* Without an overlap a refresh works on the drivers that are stored, and
\* replaces a publisher that it has closed.
RefreshIsCurrent ==
    ~overlap => \A p \in Procs :
        /\ pc[p] \in {"build", "swap", "set", "drop", "delete"} => seen[p] = store
        /\ pc[p] \in {"build", "swap", "set"} => Configured(seen[p])
        /\ pc[p] \in {"drop", "delete"} => ~Configured(seen[p])
        /\ pc[p] \in {"set", "delete"} => pub = None \/ state[pub] = "closed"

\* A closed publisher in the cache is about to be replaced.
ClosedIsReplaced ==
    pub # None /\ state[pub] = "closed" => \E p \in Procs : pc[p] \in {"set", "delete"}

\* The inductive invariant.
CInv ==
    /\ TypeOK
    /\ OneRefresh
    /\ MadeIsOwn
    /\ CachedIsBuilt
    /\ RefreshIsCurrent
    /\ ClosedIsReplaced
    /\ CacheCurrent
    /\ NoLeakedPublisher

\* The empty cache satisfies the invariant.
LEMMA CInvInit == Init => CInv
  <1> SUFFICES ASSUME Init PROVE CInv
    OBVIOUS
  <1>1. 0 \in 0..MaxVersion /\ ~Configured(0)
    BY DriverCacheAssumption DEF Configured
  <1>2. TypeOK
    <2>1. overlap \in BOOLEAN /\ failed \in BOOLEAN
      BY DEF Init
    <2> QED BY <1>1, <2>1 DEF Init, TypeOK, Pcs
  <1>3. OneRefresh /\ MadeIsOwn /\ RefreshIsCurrent
    BY DEF Init, OneRefresh, MadeIsOwn, RefreshIsCurrent, Refreshing
  <1>4. CachedIsBuilt /\ ClosedIsReplaced /\ CacheCurrent /\ NoLeakedPublisher
    BY <1>1 DEF Init, CachedIsBuilt, ClosedIsReplaced, CacheCurrent, NoLeakedPublisher
  <1> QED BY <1>2, <1>3, <1>4 DEF CInv

\* Change, PublisherFor: a refresh begins, or a webhook finds its publisher.
LEMMA StartKeeps ==
    ASSUME CInv, NEW p \in Procs, Change(p) \/ PublisherFor(p)
    PROVE  CInv'
  <1> USE DEF CInv
  <1>1. /\ UNCHANGED <<pub, state, version, seen, made, failed>>
        /\ pc[p] = "idle" /\ pc'[p] \in {"list", "use"}
        /\ \A q \in Procs : q # p => pc'[q] = pc[q]
        /\ pc'[p] = "use" => store' = store
    BY DEF Change, PublisherFor, TypeOK
  <1>2. /\ overlap => overlap'
        /\ ~overlap' /\ pc'[p] = "list" => \A q \in Procs : q # p => pc[q] \notin Refreshing
    BY DEF Change, PublisherFor, Busy, TypeOK
  <1>3. TypeOK'
    <2>1. /\ pc' \in [Procs -> Pcs] /\ store' \in 0..MaxVersion
          /\ hand' \in [Procs -> Pubs \cup {None}]
          /\ \A q \in Procs : pc'[q] = "use" => hand'[q] \in Pubs
      BY DriverCacheAssumption DEF Change, PublisherFor, TypeOK, Pcs, Refreshing
    <2>2. overlap' \in BOOLEAN
      BY DEF Change, PublisherFor
    <2> QED BY <1>1, <2>1, <2>2 DEF TypeOK
  <1>4. OneRefresh' /\ MadeIsOwn' /\ CachedIsBuilt' /\ ClosedIsReplaced'
    <2>1. OneRefresh'
      BY <1>1, <1>2 DEF OneRefresh, Refreshing
    <2>2. MadeIsOwn' /\ CachedIsBuilt'
      BY <1>1 DEF MadeIsOwn, CachedIsBuilt
    <2>3. ClosedIsReplaced'
      BY <1>1 DEF ClosedIsReplaced
    <2> QED BY <2>1, <2>2, <2>3
  <1>5. RefreshIsCurrent'
    BY <1>1, <1>2 DEF RefreshIsCurrent, Refreshing
  <1>6. CacheCurrent' /\ NoLeakedPublisher'
    <2>1. Quiet' => Quiet /\ pc'[p] = "use"
      BY <1>1 DEF Quiet, Refreshing
    <2>2. CacheCurrent'
      BY <1>1, <1>2, <2>1 DEF CacheCurrent
    <2>3. NoLeakedPublisher'
      BY <1>1, <1>2 DEF NoLeakedPublisher
    <2> QED BY <2>2, <2>3
  <1> QED BY <1>3, <1>4, <1>5, <1>6

\* List, RefreshFails, GetAgain and Release touch no publisher.
LEMMA MoveKeeps ==
    ASSUME CInv, NEW p \in Procs, List(p) \/ RefreshFails(p) \/ GetAgain(p) \/ Release(p)
    PROVE  CInv'
  <1> USE DEF CInv
  <1>1. /\ UNCHANGED <<store, pub, state, version, made, overlap>>
        /\ \A q \in Procs : q # p => pc'[q] = pc[q] /\ seen'[q] = seen[q]
        /\ \/ /\ pc[p] = "list" /\ seen'[p] = store /\ failed' = failed
              /\ pc'[p] = IF Configured(store) THEN "build" ELSE "drop"
           \/ pc[p] \in {"list", "build"} /\ pc'[p] \in {"idle", "done"} /\ failed' = TRUE
           \/ pc[p] \in {"get", "use", "done"} /\ pc'[p] \in {"done", "use", "idle"} /\ failed' = failed
    BY DEF List, RefreshFails, GetAgain, Release, TypeOK
  <1>2. TypeOK'
    <2>1. /\ pc' \in [Procs -> Pcs] /\ seen' \in [Procs -> 0..MaxVersion]
          /\ hand' \in [Procs -> Pubs \cup {None}]
      BY DEF List, RefreshFails, GetAgain, Release, TypeOK, Pcs, Refreshing
    <2>2. \A q \in Procs : pc'[q] = "use" => hand'[q] \in Pubs
      BY DEF List, RefreshFails, GetAgain, Release, TypeOK
    <2>3. failed' \in BOOLEAN
      BY <1>1 DEF TypeOK
    <2> QED BY <1>1, <2>1, <2>2, <2>3 DEF TypeOK
  <1>3. OneRefresh'
    BY <1>1 DEF OneRefresh, Refreshing
  <1>4. MadeIsOwn' /\ CachedIsBuilt' /\ NoLeakedPublisher'
    <2>1. \A q \in Procs : made[q] # None => q # p
      BY <1>1 DEF MadeIsOwn
    <2>2. \A q \in Procs : pc'[q] \in {"swap", "set"} <=> pc[q] \in {"swap", "set"}
      BY <1>1
    <2> QED BY <1>1, <2>1, <2>2 DEF MadeIsOwn, CachedIsBuilt, NoLeakedPublisher
  <1>5. RefreshIsCurrent'
    BY <1>1 DEF RefreshIsCurrent
  <1>6. ClosedIsReplaced'
    BY <1>1 DEF ClosedIsReplaced
  <1>7. CacheCurrent'
    <2> SUFFICES ASSUME ~overlap, Quiet', ~failed' PROVE CacheCurrent'
      BY <1>1 DEF CacheCurrent
    <2>1. pc[p] \in {"get", "use", "done"} /\ failed' = failed
      BY <1>1 DEF Quiet, Refreshing
    <2>2. Quiet
      BY <1>1, <2>1 DEF Quiet, Refreshing
    <2> QED BY <1>1, <2>1, <2>2 DEF CacheCurrent
  <1> QED BY <1>2, <1>3, <1>4, <1>5, <1>6, <1>7

\* DropOld, CloseOld: the cached publisher is closed and still in the cache.
LEMMA CloseKeeps ==
    ASSUME CInv, NEW p \in Procs, DropOld(p) \/ CloseOld(p)
    PROVE  CInv'
  <1> USE DEF CInv
  <1>1. /\ UNCHANGED <<store, pub, version, seen, made, hand, overlap, failed>>
        /\ \A q \in Procs : q # p => pc'[q] = pc[q]
        /\ \/ pc[p] = "drop" /\ pc'[p] = "delete"
           \/ pc[p] = "swap" /\ pc'[p] = "set"
        /\ state' = IF pub = None THEN state ELSE [state EXCEPT ![pub] = "closed"]
    BY DEF DropOld, CloseOld, TypeOK
  <1>2. /\ pub # None => pub \in Pubs /\ state'[pub] = "closed"
        /\ \A q \in Pubs : q # pub => state'[q] = state[q]
        /\ state' \in [Pubs -> {"unbuilt", "open", "closed"}]
    BY <1>1 DEF TypeOK
  <1>3. TypeOK'
    <2>1. pc' \in [Procs -> Pcs]
      BY DEF DropOld, CloseOld, TypeOK, Pcs, Refreshing
    <2>2. \A q \in Procs : pc'[q] = "use" => hand'[q] \in Pubs
      BY <1>1 DEF TypeOK
    <2> QED BY <1>1, <1>2, <2>1, <2>2 DEF TypeOK
  <1>4. OneRefresh'
    BY <1>1 DEF OneRefresh, Refreshing
  <1>5. MadeIsOwn' /\ CachedIsBuilt'
    <2>1. \A q \in Procs : made[q] # None => made[q] \in Pubs /\ state'[made[q]] = state[made[q]]
      BY <1>2 DEF MadeIsOwn, TypeOK
    <2>2. \A q \in Procs : pc'[q] \in {"swap", "set"} <=> pc[q] \in {"swap", "set"}
      BY <1>1
    <2> QED BY <1>1, <1>2, <2>1, <2>2 DEF MadeIsOwn, CachedIsBuilt
  <1>6. RefreshIsCurrent'
    BY <1>1, <1>2 DEF RefreshIsCurrent
  <1>7. ClosedIsReplaced' /\ CacheCurrent'
    BY <1>1 DEF ClosedIsReplaced, CacheCurrent, Quiet, Refreshing
  <1>8. NoLeakedPublisher'
    BY <1>1, <1>2 DEF NoLeakedPublisher
  <1> QED BY <1>3, <1>4, <1>5, <1>6, <1>7, <1>8

\* Build: the new publisher is nobody else's.
LEMMA BuildKeeps ==
    ASSUME CInv, NEW p \in Procs, NEW q \in Pubs, Build(p, q)
    PROVE  CInv'
  <1> USE DEF CInv
  <1>1. /\ UNCHANGED <<store, pub, seen, hand, overlap, failed>>
        /\ pc[p] = "build" /\ pc'[p] = "swap" /\ made'[p] = q
        /\ \A r \in Procs : r # p => pc'[r] = pc[r] /\ made'[r] = made[r]
        /\ state[q] = "unbuilt" /\ state'[q] = "open" /\ version'[q] = seen[p]
        /\ \A r \in Pubs : r # q => state'[r] = state[r] /\ version'[r] = version[r]
    BY DEF Build, TypeOK
  <1>2. TypeOK'
    <2>1. /\ pc' \in [Procs -> Pcs] /\ made' \in [Procs -> Pubs \cup {None}]
          /\ state' \in [Pubs -> {"unbuilt", "open", "closed"}] /\ version' \in [Pubs -> 0..MaxVersion]
      BY DEF Build, TypeOK, Pcs, Refreshing
    <2>2. \A r \in Procs : pc'[r] = "use" => hand'[r] \in Pubs
      BY <1>1 DEF TypeOK
    <2> QED BY <1>1, <2>1, <2>2 DEF TypeOK
  <1>3. pub # q /\ q # None /\ (pub # None => pub \in Pubs) /\ made[p] = None
    BY <1>1, DriverCacheAssumption DEF CachedIsBuilt, TypeOK, MadeIsOwn
  <1>4. \A r \in Procs : made[r] # q /\ (made[r] # None => made[r] \in Pubs)
    BY <1>1, <1>3 DEF MadeIsOwn, TypeOK
  <1>5. OneRefresh'
    BY <1>1 DEF OneRefresh, Refreshing
  <1>6. MadeIsOwn'
    <2> SUFFICES ASSUME NEW r \in Procs
                 PROVE  /\ made'[r] # None <=> pc'[r] \in {"swap", "set"}
                        /\ made'[r] # None => /\ state'[made'[r]] = "open"
                                              /\ version'[made'[r]] = seen[r]
                                              /\ made'[r] # pub
                                              /\ \A u \in Procs : made'[u] = made'[r] => u = r
      BY <1>1 DEF MadeIsOwn
    <2>1. CASE r = p
      BY <1>1, <1>3, <1>4, <2>1
    <2>2. CASE r # p
      <3>1. made[r] # None => \A u \in Procs : made'[u] = made'[r] => u = r
        BY <1>1, <1>4, <2>2 DEF MadeIsOwn
      <3> QED BY <1>1, <1>3, <1>4, <2>2, <3>1 DEF MadeIsOwn
    <2> QED BY <2>1, <2>2
  <1>7. CachedIsBuilt' /\ ClosedIsReplaced'
    BY <1>1, <1>3 DEF CachedIsBuilt, ClosedIsReplaced
  <1>8. RefreshIsCurrent'
    BY <1>1, <1>3 DEF RefreshIsCurrent
  <1>9. CacheCurrent'
    BY <1>1 DEF CacheCurrent, Quiet, Refreshing
  <1>10. NoLeakedPublisher'
    <2> SUFFICES ASSUME ~overlap, NEW r \in Pubs, state'[r] = "open"
                 PROVE  r = pub \/ \E u \in Procs : made'[u] = r
      BY <1>1 DEF NoLeakedPublisher
    <2>1. CASE r = q
      BY <1>1, <2>1
    <2>2. CASE r # q
      <3>1. r = pub \/ \E u \in Procs : made[u] = r
        BY <1>1, <2>2 DEF NoLeakedPublisher
      <3>2. r # None
        BY DriverCacheAssumption
      <3> QED BY <1>1, <1>3, <3>1, <3>2
    <2> QED BY <2>1, <2>2
  <1> QED BY <1>2, <1>5, <1>6, <1>7, <1>8, <1>9, <1>10

\* Delete, SetNew: the entry is replaced by nothing or by an open publisher.
LEMMA ReplaceKeeps ==
    ASSUME CInv, NEW p \in Procs, Delete(p) \/ SetNew(p)
    PROVE  CInv'
  <1> USE DEF CInv
  <1>1. /\ UNCHANGED <<store, state, version, seen, hand, overlap>> /\ failed' = FALSE
        /\ pc'[p] \in {"idle", "get"} /\ \A q \in Procs : q # p => pc'[q] = pc[q] /\ made'[q] = made[q]
        /\ made'[p] = None
        /\ \/ pc[p] = "delete" /\ pub' = None
           \/ pc[p] = "set" /\ pub' = made[p]
    BY DEF Delete, SetNew, Ended, TypeOK, MadeIsOwn
  <1>2. /\ (pub' = made[p] /\ pub' # pub) \/ pub' = None
        /\ pub' # None => pub' \in Pubs /\ state[pub'] = "open" /\ version[pub'] = seen[p]
        /\ pub' # None <=> pc[p] = "set"
    BY <1>1 DEF MadeIsOwn, TypeOK
  <1>3. TypeOK'
    <2>1. pc' \in [Procs -> Pcs] /\ made' \in [Procs -> Pubs \cup {None}]
      BY DEF Delete, SetNew, Ended, TypeOK, Pcs
    <2>2. \A q \in Procs : pc'[q] = "use" => hand'[q] \in Pubs
      BY <1>1 DEF TypeOK
    <2>3. failed' \in BOOLEAN
      BY <1>1
    <2> QED BY <1>1, <1>2, <2>1, <2>2, <2>3 DEF TypeOK
  <1>4. OneRefresh'
    BY <1>1 DEF OneRefresh, Refreshing
  <1>5. MadeIsOwn'
    <2> SUFFICES ASSUME NEW r \in Procs
                 PROVE  /\ made'[r] # None <=> pc'[r] \in {"swap", "set"}
                        /\ made'[r] # None => /\ state[made'[r]] = "open"
                                              /\ version[made'[r]] = seen[r]
                                              /\ made'[r] # pub'
                                              /\ \A u \in Procs : made'[u] = made'[r] => u = r
      BY <1>1 DEF MadeIsOwn
    <2>1. CASE r = p
      BY <1>1, <2>1
    <2>2. CASE r # p
      BY <1>1, <1>2, <2>2 DEF MadeIsOwn
    <2> QED BY <2>1, <2>2
  <1>6. CachedIsBuilt' /\ ClosedIsReplaced'
    BY <1>1, <1>2 DEF CachedIsBuilt, ClosedIsReplaced
  <1>7. ASSUME ~overlap PROVE \A q \in Procs : q # p => pc'[q] \notin Refreshing
    BY <1>1, <1>7 DEF OneRefresh, Refreshing
  <1>8. RefreshIsCurrent'
    BY <1>1, <1>7 DEF RefreshIsCurrent, Refreshing
  <1>9. CacheCurrent'
    <2> SUFFICES ASSUME ~overlap
                 PROVE  IF pub' = None THEN ~Configured(store) ELSE version[pub'] = store
      BY <1>1 DEF CacheCurrent
    <2> QED BY <1>1, <1>2 DEF RefreshIsCurrent
  <1>10. NoLeakedPublisher'
    <2> SUFFICES ASSUME ~overlap, NEW r \in Pubs, state[r] = "open"
                 PROVE  r = pub' \/ \E u \in Procs : made'[u] = r
      BY <1>1 DEF NoLeakedPublisher
    <2>1. r # None /\ r # pub
      BY <1>1, DriverCacheAssumption DEF RefreshIsCurrent
    <2>2. PICK u \in Procs : made[u] = r
      BY <2>1 DEF NoLeakedPublisher
    <2>3. u = p => pub' = r
      BY <1>1, <2>1, <2>2 DEF MadeIsOwn
    <2> QED BY <1>1, <2>2, <2>3
  <1> QED BY <1>3, <1>4, <1>5, <1>6, <1>8, <1>9, <1>10

\* CInv is inductive: one case per step of a request.
LEMMA CInvNext == CInv /\ [Next]_vars => CInv'
  <1> SUFFICES ASSUME CInv, [Next]_vars PROVE CInv'
    OBVIOUS
  <1>1. CASE UNCHANGED vars
    BY <1>1 DEF vars, CInv, TypeOK, OneRefresh, MadeIsOwn, CachedIsBuilt, RefreshIsCurrent,
                ClosedIsReplaced, CacheCurrent, Quiet, NoLeakedPublisher
  <1>2. CASE Next
    BY <1>2, StartKeeps, MoveKeeps, CloseKeeps, BuildKeeps, ReplaceKeeps DEF Next
  <1> QED BY <1>1, <1>2

\* The cache of a tenant's drivers, for any number of concurrent API requests
\* and webhooks: it catches up with the table unless refreshes overlap or the
\* last one failed, no connection leaks without an overlap, and a closed
\* publisher is never offered between refreshes, overlapping or not.
THEOREM DriverCacheCurrent == Spec => []DriversAreCurrent
  <1>1. CInv => DriversAreCurrent
    <2> SUFFICES ASSUME CInv PROVE ClosedOnlyDuringRefresh
      BY DEF CInv, DriversAreCurrent
    <2> QED BY DEF CInv, ClosedIsReplaced, ClosedOnlyDuringRefresh, Quiet, Refreshing
  <1> QED BY <1>1, CInvInit, CInvNext, PTL DEF Spec

-----------------------------------------------------------------------------
(***************************************************************************)
(* DynamicPublisherCache.                                                   *)
(***************************************************************************)

\* A caller without a publisher holds none, and one on its way has a key.
HandFitsStep ==
    \A c \in Callers :
        /\ caller[c] \in {"idle", "build"} => callerHand[c] = None
        /\ caller[c] \in {"insert", "use"} => callerHand[c] \in Pubs
        /\ caller[c] \in {"build", "insert", "use"} => key[c] \in Keys

\* A publisher that someone holds or that is cached was built.
HeldIsBuilt == \A c \in Callers : callerHand[c] # None => pubState[callerHand[c]] # "unbuilt"

\* A cached publisher is open and was built for its key.
EntryFitsKey ==
    \A k \in Keys : pubs[k] # None => builtFor[pubs[k]] = k /\ pubState[pubs[k]] = "open"

\* What a caller is about to insert is open, is not cached yet, and belongs to
\* this caller alone.
InsertIsOwn ==
    \A c \in Callers : caller[c] = "insert" =>
        /\ pubState[callerHand[c]] = "open"
        /\ \A k \in Keys : pubs[k] # callerHand[c]
        /\ \A d \in Callers : callerHand[d] = callerHand[c] => d = c

\* What a caller uses is cached, overwritten or closed.
UsedIsKept ==
    \A c \in Callers : caller[c] = "use" /\ pubState[callerHand[c]] = "open" =>
        callerHand[c] \in replaced \/ \E k \in Keys : pubs[k] = callerHand[c]

\* Every open publisher is accounted for.
OpenIsKnown ==
    \A p \in Pubs : pubState[p] = "open" =>
        \/ \E k \in Keys : pubs[k] = p
        \/ \E c \in Callers : callerHand[c] = p
        \/ p \in replaced

\* The inductive invariant.
YInv ==
    /\ Dynamic!TypeOK
    /\ HandFitsStep
    /\ HeldIsBuilt
    /\ EntryFitsKey
    /\ InsertIsOwn
    /\ UsedIsKept
    /\ OpenIsKnown
    /\ Dynamic!RightPublisher

\* The empty cache of publishers satisfies the invariant.
LEMMA YInvInit == Dynamic!Init => YInv
  <1> SUFFICES ASSUME Dynamic!Init PROVE YInv
    OBVIOUS
  <1>1. closes \in BOOLEAN
    BY DEF Dynamic!Init
  <1> QED BY <1>1 DEF Dynamic!Init, YInv, Dynamic!TypeOK, HandFitsStep, HeldIsBuilt, EntryFitsKey,
                      InsertIsOwn, UsedIsKept, OpenIsKnown, Dynamic!RightPublisher

\* Lookup, BuildFails and Release change what one caller holds.
LEMMA HoldKeeps ==
    ASSUME YInv, NEW c \in Callers,
           (\E k \in Keys : Dynamic!Lookup(c, k)) \/ Dynamic!BuildFails(c) \/ Dynamic!Release(c)
    PROVE  YInv'
  <1> USE DEF YInv
  <1>1. /\ UNCHANGED <<pubs, pubState, builtFor, closes, replaced>>
        /\ \A d \in Callers : d # c => /\ caller'[d] = caller[d] /\ key'[d] = key[d]
                                       /\ callerHand'[d] = callerHand[d]
        /\ \/ /\ caller[c] = "idle" /\ key'[c] \in Keys /\ callerHand'[c] = pubs[key'[c]]
              /\ caller'[c] = IF pubs[key'[c]] # None THEN "use" ELSE "build"
           \/ /\ caller[c] \in {"build", "use"} /\ caller'[c] = "idle" /\ callerHand'[c] = None
    BY DEF Dynamic!Lookup, Dynamic!BuildFails, Dynamic!Release, Dynamic!TypeOK, HandFitsStep
  <1>2. pubs \in [Keys -> Pubs \cup {None}] /\ None \notin Pubs
    BY DriverCacheAssumption DEF Dynamic!TypeOK
  <1>3. HandFitsStep'
    BY <1>1, <1>2 DEF HandFitsStep
  <1>4. Dynamic!TypeOK'
    <2>1. /\ key' \in [Callers -> Keys \cup {None}] /\ callerHand' \in [Callers -> Pubs \cup {None}]
          /\ caller' \in [Callers -> {"idle", "build", "insert", "use"}]
      BY DEF Dynamic!Lookup, Dynamic!BuildFails, Dynamic!Release, Dynamic!TypeOK
    <2> QED BY <1>1, <1>3, <2>1 DEF Dynamic!TypeOK, HandFitsStep
  <1>5. HeldIsBuilt' /\ EntryFitsKey' /\ Dynamic!RightPublisher'
    BY <1>1, <1>2 DEF HeldIsBuilt, EntryFitsKey, Dynamic!RightPublisher
  <1>6. InsertIsOwn'
    <2> SUFFICES ASSUME NEW e \in Callers, caller'[e] = "insert"
                 PROVE  /\ pubState[callerHand'[e]] = "open"
                        /\ \A k \in Keys : pubs[k] # callerHand'[e]
                        /\ \A d \in Callers : callerHand'[d] = callerHand'[e] => d = e
      BY <1>1 DEF InsertIsOwn
    <2>1. e # c /\ callerHand'[e] = callerHand[e] /\ caller[e] = "insert" /\ callerHand[e] \in Pubs
      BY <1>1 DEF HandFitsStep
    <2>2. callerHand'[c] # callerHand[e]
      BY <1>1, <1>2, <2>1 DEF InsertIsOwn
    <2> QED BY <1>1, <2>1, <2>2 DEF InsertIsOwn
  <1>7. UsedIsKept'
    BY <1>1 DEF UsedIsKept
  <1>8. OpenIsKnown'
    <2> SUFFICES ASSUME NEW p \in Pubs, pubState[p] = "open", p \notin replaced,
                        \A k \in Keys : pubs[k] # p
                 PROVE  \E d \in Callers : callerHand'[d] = p
      BY <1>1 DEF OpenIsKnown
    <2>1. PICK d \in Callers : callerHand[d] = p
      BY DEF OpenIsKnown
    <2>2. d # c
      BY <1>1, <1>2, <2>1 DEF UsedIsKept, HandFitsStep
    <2> QED BY <1>1, <2>1, <2>2
  <1> QED BY <1>3, <1>4, <1>5, <1>6, <1>7, <1>8

\* Build: the new publisher is nobody else's.
LEMMA DynamicBuildKeeps ==
    ASSUME YInv, NEW c \in Callers, NEW p \in Pubs, Dynamic!Build(c, p)
    PROVE  YInv'
  <1> USE DEF YInv
  <1>1. /\ UNCHANGED <<pubs, key, closes, replaced>>
        /\ caller[c] = "build" /\ caller'[c] = "insert" /\ callerHand[c] = None /\ callerHand'[c] = p
        /\ \A d \in Callers : d # c => caller'[d] = caller[d] /\ callerHand'[d] = callerHand[d]
        /\ pubState[p] = "unbuilt" /\ pubState'[p] = "open" /\ builtFor'[p] = key[c] /\ key[c] \in Keys
        /\ \A q \in Pubs : q # p => pubState'[q] = pubState[q] /\ builtFor'[q] = builtFor[q]
    BY DEF Dynamic!Build, Dynamic!TypeOK, HandFitsStep
  <1>2. None \notin Pubs /\ \A k \in Keys : pubs[k] # p /\ (pubs[k] # None => pubs[k] \in Pubs)
    BY <1>1, DriverCacheAssumption DEF EntryFitsKey, Dynamic!TypeOK
  <1>3. \A d \in Callers : callerHand[d] # p /\ (callerHand[d] # None => callerHand[d] \in Pubs)
    BY <1>1, <1>2 DEF HeldIsBuilt, Dynamic!TypeOK
  <1>4. HandFitsStep'
    BY <1>1 DEF HandFitsStep
  <1>5. Dynamic!TypeOK'
    <2>1. /\ pubState' \in [Pubs -> {"unbuilt", "open", "closed"}]
          /\ builtFor' \in [Pubs -> Keys \cup {None}] /\ callerHand' \in [Callers -> Pubs \cup {None}]
          /\ caller' \in [Callers -> {"idle", "build", "insert", "use"}]
      BY DEF Dynamic!Build, Dynamic!TypeOK
    <2> QED BY <1>1, <1>4, <2>1 DEF Dynamic!TypeOK, HandFitsStep
  <1>6. HeldIsBuilt' /\ EntryFitsKey' /\ Dynamic!RightPublisher'
    BY <1>1, <1>2, <1>3 DEF HeldIsBuilt, EntryFitsKey, Dynamic!RightPublisher
  <1>7. InsertIsOwn'
    BY <1>1, <1>2, <1>3 DEF InsertIsOwn, HandFitsStep
  <1>8. UsedIsKept'
    BY <1>1, <1>3 DEF UsedIsKept, HandFitsStep
  <1>9. OpenIsKnown'
    <2> SUFFICES ASSUME NEW q \in Pubs, pubState'[q] = "open", q \notin replaced,
                        \A k \in Keys : pubs[k] # q, q # p
                 PROVE  \E d \in Callers : callerHand'[d] = q
      BY <1>1 DEF OpenIsKnown
    <2>1. PICK d \in Callers : callerHand[d] = q
      BY <1>1 DEF OpenIsKnown
    <2> QED BY <1>1, <1>2, <2>1
  <1> QED BY <1>4, <1>5, <1>6, <1>7, <1>8, <1>9

\* Insert: what it overwrites is remembered in replaced.
LEMMA InsertKeeps ==
    ASSUME YInv, NEW c \in Callers, Dynamic!Insert(c)
    PROVE  YInv'
  <1> USE DEF YInv
  <1>1. /\ UNCHANGED <<pubState, builtFor, key, callerHand, closes>>
        /\ caller[c] = "insert" /\ caller'[c] = "use" /\ key[c] \in Keys /\ callerHand[c] \in Pubs
        /\ \A d \in Callers : d # c => caller'[d] = caller[d]
        /\ pubs'[key[c]] = callerHand[c] /\ \A k \in Keys : k # key[c] => pubs'[k] = pubs[k]
        /\ replaced' = replaced \cup ({pubs[key[c]]} \ {None})
    BY DEF Dynamic!Insert, Dynamic!TypeOK, HandFitsStep
  <1>2. None \notin Pubs /\ pubs \in [Keys -> Pubs \cup {None}]
    BY DriverCacheAssumption DEF Dynamic!TypeOK
  <1>3. \A q \in Pubs : (\E k \in Keys : pubs[k] = q) => q \in replaced' \/ \E k \in Keys : pubs'[k] = q
    BY <1>1, <1>2
  <1>4. HandFitsStep' /\ HeldIsBuilt' /\ Dynamic!RightPublisher'
    BY <1>1 DEF HandFitsStep, HeldIsBuilt, Dynamic!RightPublisher
  <1>5. Dynamic!TypeOK'
    <2>1. /\ pubs' \in [Keys -> Pubs \cup {None}] /\ replaced' \subseteq Pubs
          /\ caller' \in [Callers -> {"idle", "build", "insert", "use"}]
      BY <1>1 DEF Dynamic!Insert, Dynamic!TypeOK
    <2> QED BY <1>1, <1>4, <2>1 DEF Dynamic!TypeOK, HandFitsStep
  <1>6. EntryFitsKey'
    BY <1>1, <1>2 DEF EntryFitsKey, InsertIsOwn, Dynamic!RightPublisher
  <1>7. InsertIsOwn'
    BY <1>1 DEF InsertIsOwn
  <1>8. UsedIsKept'
    <2> SUFFICES ASSUME NEW d \in Callers, caller'[d] = "use", pubState[callerHand[d]] = "open"
                 PROVE  callerHand[d] \in replaced' \/ \E k \in Keys : pubs'[k] = callerHand[d]
      BY <1>1 DEF UsedIsKept
    <2>1. CASE d = c
      BY <1>1, <2>1
    <2>2. CASE d # c
      <3>1. caller[d] = "use" /\ callerHand[d] \in Pubs
        BY <1>1, <2>2 DEF HandFitsStep
      <3>2. callerHand[d] \in replaced \/ \E k \in Keys : pubs[k] = callerHand[d]
        BY <3>1 DEF UsedIsKept
      <3> QED BY <1>1, <1>3, <3>1, <3>2
    <2> QED BY <2>1, <2>2
  <1>9. OpenIsKnown'
    BY <1>1, <1>3 DEF OpenIsKnown
  <1> QED BY <1>4, <1>5, <1>6, <1>7, <1>8, <1>9

\* Close: what it removes from the map it has closed.
LEMMA DynamicCloseKeeps ==
    ASSUME YInv, Dynamic!Close
    PROVE  YInv'
  <1> USE DEF YInv
  <1>1. /\ UNCHANGED <<builtFor, caller, key, callerHand, replaced>> /\ closes' = TRUE
        /\ \A k \in Keys : pubs'[k] = None
        /\ \A p \in Pubs : pubState'[p] = IF \E k \in Keys : pubs[k] = p THEN "closed" ELSE pubState[p]
    BY DriverCacheAssumption DEF Dynamic!Close, Dynamic!Cached
  <1>2. None \notin Pubs /\ \A c \in Callers : callerHand[c] # None => callerHand[c] \in Pubs
    BY DriverCacheAssumption DEF Dynamic!TypeOK
  <1>3. Dynamic!TypeOK'
    <2>1. /\ pubs' \in [Keys -> Pubs \cup {None}]
          /\ pubState' \in [Pubs -> {"unbuilt", "open", "closed"}]
      BY DEF Dynamic!Close, Dynamic!TypeOK
    <2>2. closes' \in BOOLEAN
      BY <1>1
    <2> QED BY <1>1, <2>1, <2>2 DEF Dynamic!TypeOK
  <1>4. HandFitsStep' /\ Dynamic!RightPublisher' /\ EntryFitsKey'
    BY <1>1 DEF HandFitsStep, Dynamic!RightPublisher, EntryFitsKey
  <1>5. HeldIsBuilt'
    BY <1>1, <1>2 DEF HeldIsBuilt
  <1>6. InsertIsOwn'
    BY <1>1, <1>2 DEF InsertIsOwn, HandFitsStep
  <1>7. UsedIsKept'
    BY <1>1, <1>2 DEF UsedIsKept, HandFitsStep
  <1>8. OpenIsKnown'
    BY <1>1 DEF OpenIsKnown
  <1> QED BY <1>3, <1>4, <1>5, <1>6, <1>7, <1>8

\* YInv is inductive: one case per step of a caller.
LEMMA YInvNext == YInv /\ [Dynamic!Next]_(Dynamic!vars) => YInv'
  <1> SUFFICES ASSUME YInv, [Dynamic!Next]_(Dynamic!vars) PROVE YInv'
    OBVIOUS
  <1>1. CASE UNCHANGED Dynamic!vars
    BY <1>1 DEF Dynamic!vars, YInv, Dynamic!TypeOK, HandFitsStep, HeldIsBuilt, EntryFitsKey, InsertIsOwn,
                UsedIsKept, OpenIsKnown, Dynamic!RightPublisher
  <1>2. CASE Dynamic!Next
    BY <1>2, HoldKeeps, DynamicBuildKeeps, InsertKeeps, DynamicCloseKeeps DEF Dynamic!Next
  <1> QED BY <1>1, <1>2

\* The cache of publishers by driver and config, for any number of callers that
\* miss at once: nobody publishes with the config of another key, the cache
\* offers no closed publisher, even after Close, and only an overwritten
\* publisher is left open without an owner.
THEOREM DynamicCacheKept == ServicesSpec => []PublishersAreKept
  <1> DEFINE Inv == focus = "dynamic" => YInv
  <1>1. ServicesInit => Inv
    BY YInvInit DEF ServicesInit
  <1>2. Inv /\ [ServicesNext]_ServicesVars => Inv'
    <2>1. [ServicesNext]_ServicesVars => UNCHANGED focus /\ (focus = "dynamic" => [Dynamic!Next]_(Dynamic!vars))
      BY DEF ServicesNext, ServicesVars, OthersStill, dynamicVars, Dynamic!vars
    <2> QED BY <2>1, YInvNext
  <1>3. YInv => Dynamic!PublishersAreKept
    <2> SUFFICES ASSUME YInv PROVE Dynamic!PublishersAreKept
      OBVIOUS
    <2>1. Dynamic!CachedIsOpen
      BY DEF YInv, EntryFitsKey, Dynamic!CachedIsOpen, Dynamic!Cached
    <2>2. Dynamic!OrphansOnlyByRace
      BY DriverCacheAssumption DEF YInv, OpenIsKnown, Dynamic!OrphansOnlyByRace, Dynamic!Cached
    <2> QED BY <2>1, <2>2 DEF YInv, Dynamic!PublishersAreKept
  <1>4. Inv => PublishersAreKept
    BY <1>3 DEF PublishersAreKept
  <1> QED BY <1>1, <1>2, <1>4, PTL DEF ServicesSpec
=============================================================================
