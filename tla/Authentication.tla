--------------------------- MODULE Authentication ---------------------------
(***************************************************************************)
(* OAuth2 between the clients of the API and the server: the token file     *)
(* that the CLI, the workers and the server's login share                   *)
(* (pkg/auth/oidc/cache.go), the worker's copy in memory, the discovery of   *)
(* the issuer's endpoints, the logins of the server and of the CLI with      *)
(* their states, and the verification of a call.  The file is read, changed  *)
(* and written without a lock, and a write first empties it.  Time counts    *)
(* units of thirty seconds, long against a file operation.                   *)
(***************************************************************************)
EXTENDS Naturals, FiniteSets, Sequences

CONSTANTS
    Clients,     \* processes that call the API
    Workers,     \* the clients among them that keep a token in memory
    ConfigOf,    \* [Clients -> configurations [issuer, audience, client]]
    LoginConfig, \* the configuration of the server's login
    Lifetimes,   \* expires_in; 0 when the issuer does not say
    DefaultLife, \* what is then assumed: thirty minutes
    Skew,        \* a cached token is not used in its last thirty seconds
    Logins,      \* states of logins
    LoginLife,   \* how long a state is good
    Fresh,       \* how long discovered endpoints are used: five minutes
    Retry,       \* when a failure to find them again is retried: two minutes
    MaxTime,     \* bound
    MaxFetches   \* bound: tokens asked of the issuer

VARIABLES
    now,
    file,      \* [ok, entries]: a set of [key, token, exp]; not ok is half written
    memory,    \* [Workers -> set of the one [token, exp]]
    discovery, \* [Procs -> [known, expires, retry] of the issuer, or NoDiscovery]
    proc,      \* [Clients \union {"server"} -> what it is doing]
    logins,    \* set of [state, verifier, exp]
    fetches,   \* count of Fetch
    issued,    \* the logins that were started, with their challenge and time
    exchanged, \* the logins whose code was exchanged, in order
    handed     \* the token that the last step gave to a client: [to, token]

vars == <<now, file, memory, discovery, proc, logins, fetches, issued, exchanged, handed>>

Procs == Clients \union {"server"}
Idle == [pc |-> "idle"]
NoDiscovery == [known |-> FALSE]
NoToken == [config |-> [issuer |-> "none"], dies |-> 0]

Init ==
    /\ now = 1
    /\ file = [ok |-> TRUE, entries |-> {}]
    /\ memory = [w \in Workers |-> {}]
    /\ discovery = [p \in Procs |-> NoDiscovery]
    /\ proc = [p \in Procs |-> Idle]
    /\ logins = {} /\ fetches = 0 /\ issued = {} /\ exchanged = << >> /\ handed = {}

-----------------------------------------------------------------------------
(* The verification of a call.                                              *)

\* Mutant: the cache does not tell clients apart.
CacheKeyNoClient(cfg) == <<cfg.issuer, cfg.audience>>

CacheKey(cfg) == <<cfg.issuer, cfg.audience, cfg.client>>

\* An issuer's token: it works until it dies.
Token(cfg, life) == [config |-> cfg, dies |-> IF life = 0 THEN MaxTime + 1 ELSE now + life]

\* When the clients take it to die.
Expiry(life) == now + (IF life = 0 THEN DefaultLife ELSE life)

\* Verifier.Verify, behind bearerToken: the issuer's signature and the
\* audience, the time, and the scopes, roles and groups the server requires,
\* which the issuer gives to a client of that configuration.
Verify(token, cfg) == token.config = cfg /\ now < token.dies

-----------------------------------------------------------------------------
(* The endpoints of the issuer.                                             *)

\* Discover: a known value is used until it expires and, when it is retried
\* later, until then; after that a failure to fetch it leaves the old value.
Discover(p, up) ==
    LET d == discovery[p]
    IN  CASE d.known /\ (now < d.expires \/ now < d.retry) -> d
          [] d.known /\ now >= d.expires /\ now >= d.retry /\ ~up -> [d EXCEPT !.retry = now + Retry]
          [] ~d.known /\ ~up -> NoDiscovery
          [] OTHER -> [known |-> TRUE, expires |-> now + Fresh, retry |-> now]

\* ResolveEndpoints: what is not configured is discovered.
ResolveEndpoints(p, up) == discovery' = [discovery EXCEPT ![p] = Discover(p, up)]

-----------------------------------------------------------------------------
(* The token file.                                                          *)

Becomes(p, what) == proc' = [proc EXCEPT ![p] = what]

\* StoreCachedToken(key, token), which removes the key when there is no token;
\* it is stored after a fetch and removed before one.
Store(key, token, exp) ==
    [pc |-> "storing", key |-> key, token |-> token, exp |-> exp]

Expired(e) == now > e.exp

\* A file that is half written is read as empty; expired entries go.
StoreReads(p) ==
    /\ proc[p].pc = "storing"
    /\ LET kept == IF file.ok THEN {e \in file.entries : ~Expired(e) /\ e.key # proc[p].key} ELSE {}
           own == IF proc[p].token = NoToken THEN {}
                  ELSE {[key |-> proc[p].key, token |-> proc[p].token, exp |-> proc[p].exp]}
       IN  Becomes(p, [pc |-> "emptying", entries |-> kept \union own, token |-> proc[p].token])
    /\ handed' = {}
    /\ UNCHANGED <<now, file, memory, discovery, logins, issued, exchanged, fetches>>

StoreEmpties(p) ==
    /\ proc[p].pc = "emptying"
    /\ file' = [ok |-> FALSE, entries |-> {}]
    /\ Becomes(p, [proc[p] EXCEPT !.pc = "writing"])
    /\ handed' = {}
    /\ UNCHANGED <<now, memory, discovery, logins, issued, exchanged, fetches>>

Give(p, token) == handed' = {[to |-> p, token |-> token]}

\* After the write the client has its token, or fetches one.
StoreWrites(p) ==
    /\ proc[p].pc = "writing"
    /\ file' = [ok |-> TRUE, entries |-> proc[p].entries]
    /\ IF proc[p].token = NoToken
       THEN Becomes(p, [pc |-> "fetch"]) /\ handed' = {}
       ELSE Becomes(p, Idle) /\ IF p \in Clients THEN Give(p, proc[p].token) ELSE handed' = {}
    /\ UNCHANGED <<now, memory, discovery, logins, issued, exchanged, fetches>>

-----------------------------------------------------------------------------
(* The tokens of a client: cliToken and oauth2TokenFromConfig.              *)

\* The worker's copy in memory.
InMemory(p) == {m \in (IF p \in Workers THEN memory[p] ELSE {}) : now < m.exp}

Ask(p) ==
    /\ proc[p] = Idle
    /\ IF InMemory(p) # {}
       THEN \E m \in InMemory(p) : Give(p, m.token) /\ UNCHANGED proc
       ELSE Becomes(p, [pc |-> "load"]) /\ handed' = {}
    /\ UNCHANGED <<now, file, memory, discovery, logins, issued, exchanged, fetches>>

\* LoadCachedToken; an expired entry is removed from the file, whatever the
\* file holds by then.
LoadCachedToken(p) ==
    /\ proc[p].pc = "load"
    /\ LET key == CacheKey(ConfigOf[p])
           entries == {e \in file.entries : file.ok /\ e.key = key}
       IN  IF \E e \in entries : Expired(e)
           THEN Becomes(p, Store(key, NoToken, 0)) /\ handed' = {}
           ELSE IF \E e \in entries : now + Skew < e.exp
           THEN \E e \in entries : Give(p, e.token) /\ Becomes(p, Idle)
           ELSE Becomes(p, [pc |-> "fetch"]) /\ handed' = {}
    /\ UNCHANGED <<now, file, memory, discovery, logins, issued, exchanged, fetches>>

\* ClientCredentialsToken, or an error when the endpoints are not known or the
\* issuer does not answer there.
Fetch(p, life, up) ==
    /\ proc[p].pc = "fetch"
    /\ fetches < MaxFetches /\ fetches' = fetches + 1
    /\ ResolveEndpoints(p, "endpoints" \in up)
    /\ IF "tokens" \in up /\ discovery'[p].known
       THEN LET token == Token(ConfigOf[p], life)
            IN  /\ memory' = IF p \in Workers THEN [memory EXCEPT ![p] = {[token |-> token, exp |-> Expiry(life)]}] ELSE memory
                /\ Becomes(p, Store(CacheKey(ConfigOf[p]), token, Expiry(life)))
       ELSE Becomes(p, Idle) /\ UNCHANGED memory
    /\ handed' = {}
    /\ UNCHANGED <<now, file, logins, issued, exchanged>>

-----------------------------------------------------------------------------
(* Logins at the server: oauth2Handler.                                     *)

Live(ls) == {l \in ls : now <= l.exp}

\* The state is stored before the endpoints are looked for.
Login(s, up) ==
    /\ \A l \in issued : l.state # s
    /\ logins' = Live(logins) \union {[state |-> s, verifier |-> s, exp |-> now + LoginLife]}
    /\ issued' = issued \union {[state |-> s, challenge |-> s, at |-> now]}
    /\ ResolveEndpoints("server", "endpoints" \in up)
    /\ handed' = {}
    /\ UNCHANGED <<now, file, memory, proc, exchanged, fetches>>

\* consumeState: what remains.
Consumed(s) == {l \in Live(logins) : l.state # s}

\* The browser comes with the code of a login, perhaps more than once; the
\* issuer compares the verifier with that login's challenge.
LoginCallback(s, life, up) ==
    /\ proc["server"] = Idle
    /\ \E i \in issued : i.state = s
    /\ LET found == {l \in Live(logins) : l.state = s}
       IN  /\ logins' = Consumed(s)
           /\ IF found = {} THEN UNCHANGED <<discovery, exchanged, proc>>
              ELSE /\ ResolveEndpoints("server", "endpoints" \in up)
                   /\ IF /\ "tokens" \in up
                         /\ discovery'["server"].known
                         /\ \E l \in found, i \in issued : i.state = s /\ l.verifier = i.challenge
                      THEN /\ exchanged' = Append(exchanged, [state |-> s, at |-> now])
                           /\ Becomes("server", Store(CacheKey(LoginConfig), Token(LoginConfig, life), Expiry(life)))
                      ELSE UNCHANGED <<exchanged, proc>>
    /\ handed' = {}
    /\ UNCHANGED <<now, file, memory, issued, fetches>>

-----------------------------------------------------------------------------

\* Which of the issuer's endpoints answer.
Answers == SUBSET {"endpoints", "tokens"}

\* No file operation takes thirty seconds.
Tick ==
    /\ now < MaxTime
    /\ \A p \in Procs : proc[p].pc \notin {"storing", "emptying", "writing"}
    /\ now' = now + 1
    /\ handed' = {}
    /\ UNCHANGED <<file, memory, discovery, proc, logins, issued, exchanged, fetches>>

Next ==
    \/ \E p \in Procs : StoreReads(p) \/ StoreEmpties(p) \/ StoreWrites(p)
    \/ \E p \in Clients : Ask(p) \/ LoadCachedToken(p) \/ \E life \in Lifetimes, up \in Answers : Fetch(p, life, up)
    \/ \E s \in Logins, up \in Answers : Login(s, up) \/ \E life \in Lifetimes : LoginCallback(s, life, up)
    \/ Tick

Spec == Init /\ [][Next]_vars

-----------------------------------------------------------------------------
(* Properties.                                                              *)

\* The token that a client of the API gets, from memory, from the file that
\* other processes write at the same time or from the issuer, is one that the
\* server's verifier accepts from that client at that moment.
TokenIsAccepted ==
    \A h \in handed : Verify(h.token, ConfigOf[h.to])

\* The code of a login is exchanged once, and only while its state is good,
\* however often the callback is called.
LoginOnce ==
    /\ \A i, j \in DOMAIN exchanged : exchanged[i].state = exchanged[j].state => i = j
    /\ \A i \in DOMAIN exchanged : \A l \in issued :
          l.state = exchanged[i].state => exchanged[i].at <= l.at + LoginLife
=============================================================================
