----------------------------- MODULE SCMClients -----------------------------
(***************************************************************************)
(* The API clients that the Go worker gives to its handlers                  *)
(* (sdk/go/worker/scm_client_provider.go, scm_client_service.go,             *)
(* scm_clients.go): one per provider, installation and provider instance,    *)
(* made with a token of the server and kept in an LRU cache that all the     *)
(* goroutines of the worker share.  The lock of the cache covers Get and     *)
(* Add, not what happens between them.  Time counts units of the default     *)
(* skew, thirty seconds; a call to the server is over in ten.                *)
(***************************************************************************)
EXTENDS Naturals, SequencesExt

CONSTANTS
    Handlers,  \* goroutines
    Events,    \* their [provider, installation, instance]; "" for a missing id
    BaseOf(_), \* the API base URL the server has for a key
    Size,      \* of the cache
    Skew,      \* how early a client is given up
    Lifetimes, \* of tokens; 0 when the server does not say
    MaxTime    \* bound

VARIABLES
    now,
    cache,  \* [key, client, exp], the most recent first
    env,    \* the process's BITBUCKET_API_BASE_URL
    proc,   \* [Handlers -> what it is doing]
    given   \* set of the one [event, client] the last step gave to a handler

vars == <<now, cache, env, proc, given>>

Idle == [pc |-> "idle"]
Never == MaxTime + Skew + 1

Init ==
    /\ now = 0 /\ cache = << >> /\ env = "" /\ given = {}
    /\ proc = [h \in Handlers |-> Idle]

-----------------------------------------------------------------------------
(* scmClientCache.                                                          *)

\* Mutant: the instance is not part of the key.
CacheKeyNoInstance(e) == <<e.provider, e.installation>>

CacheKey(e) == <<e.provider, e.installation, e.instance>>

\* expired; an expiry that the server does not know is zero and never comes.
Expired(exp) == now + Skew > exp

\* The list without the element that items has for the key.
Without(key) ==
    LET at == {i \in DOMAIN cache : cache[i].key = key}
    IN  IF at = {} THEN cache ELSE RemoveAt(cache, CHOOSE i \in at : TRUE)

\* Get: a hit moves to the front, an expired entry is removed.
Found(key) == {x \in ToSet(cache) : x.key = key}
Hits(key) == {x \in Found(key) : ~Expired(x.exp)}
AfterGet(key) ==
    IF Hits(key) # {} THEN <<CHOOSE x \in Hits(key) : TRUE>> \o Without(key) ELSE Without(key)

\* Add: the last of too many goes.
AfterAdd(key, client, exp) ==
    LET all == <<[key |-> key, client |-> client, exp |-> exp]>> \o Without(key)
    IN  SubSeq(all, 1, IF Len(all) > Size THEN Size ELSE Len(all))

-----------------------------------------------------------------------------
(* RemoteSCMClientProvider.Client.                                          *)

Becomes(h, what) == proc' = [proc EXCEPT ![h] = what]

\* An event without a provider or an installation is an error.
Ask(h, e) ==
    /\ proc[h] = Idle
    /\ IF "" \in {e.provider, e.installation}
       THEN UNCHANGED <<cache, proc>> /\ given' = {}
       ELSE /\ cache' = AfterGet(CacheKey(e))
            /\ IF Hits(CacheKey(e)) # {}
               THEN UNCHANGED proc /\ \E x \in Hits(CacheKey(e)) : given' = {[event |-> e, client |-> x.client]}
               ELSE Becomes(h, [pc |-> "fetch", event |-> e]) /\ given' = {}
    /\ UNCHANGED <<now, env>>

\* GetSCMClient; the server finds the token of the installation and instance.
GetSCMClient(h, life) ==
    /\ proc[h].pc = "fetch"
    /\ LET e == proc[h].event
           exp == IF life = 0 THEN Never ELSE now + life
       IN  Becomes(h, [pc |-> "make", event |-> e, exp |-> exp,
                       token |-> [of |-> <<e.provider, e.installation, e.instance>>, dies |-> exp]])
    /\ given' = {}
    /\ UNCHANGED <<now, cache, env>>

\* The call fails, or the answer has no token.
FetchFails(h) ==
    /\ proc[h].pc = "fetch"
    /\ Becomes(h, Idle)
    /\ given' = {}
    /\ UNCHANGED <<now, cache, env>>

Base(h) == BaseOf(proc[h].token.of)

\* newBitbucketClient hands the base URL to its library through the
\* environment of the process.
SetEnvironment(h) ==
    /\ proc[h].pc = "make"
    /\ proc[h].event.provider = "bitbucket"
    /\ env' = Base(h)
    /\ Becomes(h, [proc[h] EXCEPT !.pc = "library"])
    /\ given' = {}
    /\ UNCHANGED <<now, cache>>

\* newProviderClient: the client with its token and its base URL.
NewProviderClient(h) ==
    /\ \/ proc[h].pc = "make" /\ proc[h].event.provider # "bitbucket"
       \/ proc[h].pc = "library"
    /\ LET base == IF proc[h].event.provider = "bitbucket" THEN env ELSE Base(h)
       IN  Becomes(h, [pc |-> "add", event |-> proc[h].event, exp |-> proc[h].exp,
                       client |-> [token |-> proc[h].token, base |-> base]])
    /\ given' = {}
    /\ UNCHANGED <<now, cache, env>>

Add(h) ==
    /\ proc[h].pc = "add"
    /\ cache' = AfterAdd(CacheKey(proc[h].event), proc[h].client, proc[h].exp)
    /\ given' = {[event |-> proc[h].event, client |-> proc[h].client]}
    /\ Becomes(h, Idle)
    /\ UNCHANGED <<now, env>>

\* No call takes as long as the skew.
Tick ==
    /\ now < MaxTime
    /\ \A h \in Handlers : proc[h] = Idle
    /\ now' = now + 1
    /\ given' = {}
    /\ UNCHANGED <<cache, env, proc>>

Next ==
    \/ \E h \in Handlers :
          \/ \E e \in Events : Ask(h, e)
          \/ \E life \in Lifetimes : GetSCMClient(h, life)
          \/ FetchFails(h) \/ SetEnvironment(h) \/ NewProviderClient(h) \/ Add(h)
    \/ Tick

Spec == Init /\ [][Next]_vars

-----------------------------------------------------------------------------

\* The client a handler gets for its event, whatever the other goroutines put
\* into the cache or push out of it meanwhile, has a token of the event's
\* installation and instance that still works, and calls that instance's API.
\* The one exception is the base URL of a Bitbucket client, which two
\* goroutines hand over in the same variable of the process.
ClientServesEvent ==
    \A g \in given :
        LET key == <<g.event.provider, g.event.installation, g.event.instance>>
        IN  /\ g.client.token.of = key
            /\ now < g.client.token.dies
            /\ g.client.base = BaseOf(key) \/ g.event.provider = "bitbucket"

\* The cache has one client per key, at most Size, and the client it last
\* gave or got is the last one to be pushed out.
CacheIsLRU ==
    /\ Len(cache) <= Size
    /\ \A i, j \in DOMAIN cache : cache[i].key = cache[j].key => i = j
    /\ \A g \in given : cache[1].client = g.client
=============================================================================
