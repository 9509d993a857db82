-------------------------------- MODULE Auth --------------------------------
(***************************************************************************)
(* The first part of an upload request: the global rate limit, the body    *)
(* cache (server/middleware.go) and the HMAC authentication with its nonce *)
(* cache (internal/auth/auth.go).  Each request runs in a goroutine of its *)
(* own.  Handler reads the configuration once and keeps it; a reload may   *)
(* follow.  consumeNonce reads the clock before it waits for nonceMu.      *)
(***************************************************************************)
EXTENDS Integers, FiniteSets

CONSTANTS
    Goroutines,    \* goroutines that serve requests, one at a time
    Requests,      \* what a client can send; a retry sends the same again
    Nonces,        \* pairs of an app key and a nonce
    Versions,      \* configurations
    Edits,         \* the configurations that may replace each
    AuthOf,        \* the "auth" section of each, after applyDefaults
    MaxBodyBytes,  \* server.max_body_bytes of each, after applyDefaults
    MaxClock,      \* bound: how far the clock runs, in each configuration
    Sent,          \* bound: the requests that arrive in each configuration
    Second,        \* steps of the clock in a second
    HalfWord,      \* 2^63: timestamps are int64
    None

Never == -1

\* The first check of the headers that fails whatever the time is.
Faults == {"none", "key", "signature", "project"}

ASSUME AuthAssumption ==
    /\ Second \in Nat \ {0} /\ HalfWord \in Nat \ {0}
    /\ \A q \in Requests : /\ q.nonce \in Nonces /\ q.stamp \in -HalfWord .. HalfWord - 1
                           /\ q.fault \in Faults /\ q.size \in Nat
    /\ Edits \in [Versions -> SUBSET Versions] /\ Sent \in [Versions -> SUBSET Requests]
    /\ AuthOf \in [Versions -> [enabled : BOOLEAN, window : Int, ttl : Int, size : Int]]
    /\ MaxBodyBytes \in [Versions -> Int] /\ MaxClock \in [Versions -> Nat]
    /\ None \notin Requests /\ None \notin Versions

\* Time.Unix drops the fraction of a second.
Unix(t) == t \div Second

\* The clock stays a time window away from the end of an int64.
ASSUME ClockAssumption ==
    \A v, w \in Versions : Unix(MaxClock[v]) + AuthOf[w].window < HalfWord

VARIABLES
    clock,       \* the time
    config,      \* the current configuration
    pc,          \* where each goroutine is
    req,         \* the request it serves
    authCfg,     \* the configuration Handler has read
    now,         \* the time consumeNonce has read
    authorized,  \* the goroutines whose request has app_key set
    nonceCache,  \* when each nonce was seen, or Never
    seen,        \* history: the time stored when a nonce was last accepted
    accepted,    \* history: the request it was accepted with
    evicted      \* history: nonces evicted for space since then

nonceVars == <<nonceCache, seen, accepted, evicted>>
reqVars   == <<pc, req, authCfg, now, authorized>>
authVars  == <<clock, config, reqVars, nonceVars>>

AuthInit ==
    /\ clock = 0 /\ config \in Versions
    /\ pc = [g \in Goroutines |-> "idle"] /\ req = [g \in Goroutines |-> None]
    /\ authCfg = [g \in Goroutines |-> None] /\ now = [g \in Goroutines |-> Never]
    /\ authorized = {}
    /\ nonceCache = [n \in Nonces |-> Never] /\ seen = [n \in Nonces |-> Never]
    /\ accepted = [n \in Nonces |-> None] /\ evicted = {}

-----------------------------------------------------------------------------
Tick ==
    /\ clock < MaxClock[config] /\ clock' = clock + 1
    /\ UNCHANGED <<config, reqVars, nonceVars>>

\* A reload stores another configuration (module Reload).
ConfigReload ==
    /\ \E v \in Edits[config] : config' = v
    /\ UNCHANGED <<clock, reqVars, nonceVars>>

GoesTo(g, label) == pc' = [pc EXCEPT ![g] = label]

\* The request has been answered (and its task has ended).
Ends(g) ==
    /\ pc' = [pc EXCEPT ![g] = "idle"] /\ req' = [req EXCEPT ![g] = None]
    /\ authCfg' = [authCfg EXCEPT ![g] = None] /\ now' = [now EXCEPT ![g] = Never]
    /\ authorized' = authorized \ {g}

\* GlobalMiddleware has a token for the request; it answers the others with 429.
Arrive(g, q) ==
    /\ pc[g] = "idle" /\ q \in Sent[config] /\ GoesTo(g, "body") /\ req' = [req EXCEPT ![g] = q]
    /\ UNCHANGED <<clock, config, authCfg, now, authorized, nonceVars>>

\* BodyCacheMiddleware: 413 when the body is too large.
BodyLimit(v) == IF MaxBodyBytes[v] <= 0 THEN 2^20 ELSE MaxBodyBytes[v]

CacheBody(g) ==
    /\ pc[g] = "body"
    /\ \/ req[g].size > BodyLimit(config) /\ Ends(g)
       \/ /\ req[g].size <= BodyLimit(config) /\ GoesTo(g, "auth")
          /\ UNCHANGED <<req, authCfg, now, authorized>>
    /\ UNCHANGED <<clock, config, nonceVars>>

-----------------------------------------------------------------------------
(* Handler *)

\* The sum or difference of two int64.
Wrap(x) ==
    IF x >= HalfWord THEN x - 2 * HalfWord ELSE IF x < -HalfWord THEN x + 2 * HalfWord ELSE x

Abs(x) == IF x < 0 THEN Wrap(-x) ELSE x

TTL(v) == IF AuthOf[v].ttl <= 0 THEN 300 ELSE AuthOf[v].ttl

\* What consumeNonce subtracts from the time; the cache does not drop fractions.
Lifetime(v) == TTL(v) * Second

Capacity(v) == IF AuthOf[v].size <= 0 THEN 100000 ELSE AuthOf[v].size

\* At time t the timestamp is within the time window of configuration v.
Within(q, t, v) == Abs(Wrap(Unix(t) - q.stamp)) <= AuthOf[v].window

\* Variant: a second more than the window.
SlackWindowVariant(q) == Abs(Wrap(Unix(clock) - q.stamp)) <= AuthOf[config].window + 1
InWindow(q) == Within(q, clock, config)

\* Handler refuses the request before it calls consumeNonce: 401 or 403.
Refused(q) ==
    AuthOf[config].enabled /\ (q.fault # "none" \/ ~InWindow(q))

RefuseHeaders(g) ==
    /\ pc[g] = "auth" /\ Refused(req[g]) /\ Ends(g)
    /\ UNCHANGED <<clock, config, nonceVars>>

\* It goes on; without authentication, past consumeNonce.
PassHeaders(g) ==
    /\ pc[g] = "auth" /\ ~Refused(req[g])
    /\ GoesTo(g, IF AuthOf[config].enabled THEN "consume" ELSE "resolve")
    /\ authCfg' = [authCfg EXCEPT ![g] = IF AuthOf[config].enabled THEN config ELSE None]
    /\ UNCHANGED <<clock, config, req, now, authorized, nonceVars>>

\* consumeNonce reads the time, then waits for nonceMu.
ReadClock(g) ==
    /\ pc[g] = "consume" /\ now' = [now EXCEPT ![g] = clock] /\ GoesTo(g, "lock")
    /\ UNCHANGED <<clock, config, req, authCfg, authorized, nonceVars>>

\* The entries seen before now - TTL are deleted.  Variant: those seen at that
\* time, too.
EarlyExpiryVariant(g) ==
    [n \in Nonces |-> IF nonceCache[n] <= now[g] - Lifetime(authCfg[g]) THEN Never ELSE nonceCache[n]]
Unexpired(g) ==
    [n \in Nonces |-> IF nonceCache[n] < now[g] - Lifetime(authCfg[g]) THEN Never ELSE nonceCache[n]]

Cached(cache) == {n \in Nonces : cache[n] # Never}

\* The choices of the eviction loop: the oldest entries go until there is room
\* for one.  Variant: one entry too many stays.
EvictLateVariant(cache, max) ==
    {E \in SUBSET Cached(cache) :
        /\ Cardinality(Cached(cache) \ E) =
               IF Cardinality(Cached(cache)) <= max THEN Cardinality(Cached(cache)) ELSE max
        /\ \A n \in E, k \in Cached(cache) \ E : cache[n] <= cache[k]}
Evictions(cache, max) ==
    {E \in SUBSET Cached(cache) :
        /\ Cardinality(Cached(cache) \ E) =
               IF Cardinality(Cached(cache)) < max THEN Cardinality(Cached(cache)) ELSE max - 1
        /\ \A n \in E, k \in Cached(cache) \ E : cache[n] <= cache[k]}

\* consumeNonce under nonceMu finds the nonce: 401.
NonceUsed(g) ==
    LET k == req[g].nonce IN
    /\ pc[g] = "lock" /\ Unexpired(g)[k] # Never
    /\ nonceCache' = Unexpired(g) /\ Ends(g)
    /\ UNCHANGED <<clock, config, seen, accepted, evicted>>

\* It does not: old entries make room and the nonce is stored.
NonceAccepted(g) ==
    LET k == req[g].nonce IN
    /\ pc[g] = "lock" /\ Unexpired(g)[k] = Never
    /\ \E E \in Evictions(Unexpired(g), Capacity(authCfg[g])) :
          /\ nonceCache' = [n \in Nonces |-> IF n = k THEN now[g]
                                             ELSE IF n \in E THEN Never ELSE Unexpired(g)[n]]
          /\ evicted' = (evicted \cup E) \ {k}
    /\ seen' = [seen EXCEPT ![k] = now[g]] /\ accepted' = [accepted EXCEPT ![k] = req[g]]
    /\ authorized' = authorized \cup {g} /\ GoesTo(g, "resolve")
    /\ authCfg' = [authCfg EXCEPT ![g] = None] /\ now' = [now EXCEPT ![g] = Never]
    /\ UNCHANGED <<clock, config, req>>

-----------------------------------------------------------------------------
AuthNext ==
    \/ Tick \/ ConfigReload
    \/ \E g \in Goroutines :
          \/ \E q \in Requests : Arrive(g, q)
          \/ CacheBody(g) \/ RefuseHeaders(g) \/ PassHeaders(g) \/ ReadClock(g)
          \/ NonceUsed(g) \/ NonceAccepted(g)

AuthSpec == AuthInit /\ [][AuthNext]_authVars

-----------------------------------------------------------------------------
(* Properties *)

\* consumeNonce accepts the nonce of g.
Accepts(g) == pc[g] = "lock" /\ pc'[g] = "resolve"

Spaced(g) ==
    LET k == req[g].nonce IN
    Accepts(g) /\ seen[k] # Never /\ k \notin evicted =>
        \E v \in Versions : clock > seen[k] + Lifetime(v)

\* A nonce that is accepted a second time was evicted for space, or it is
\* accepted later than a TTL after the first time: requests may be delayed
\* between the clock and nonceMu, and purge with the TTL of an older or a newer
\* configuration, but consumeNonce never forgets a nonce early.
NonceSpacing == [][\A g \in Goroutines : Spaced(g)]_authVars

\* When a nonce has been accepted the cache is within the nonce_cache_size that
\* the request has read, also when a reload had lowered it by several entries.
CacheBounded ==
    [][\A g \in Goroutines :
          Accepts(g) => Cardinality(Cached(nonceCache')) <= Capacity(authCfg[g])]_authVars

\* nonce_ttl_seconds is more than twice timestamp_window; or it is not less than
\* it, as in the default configuration, and the nonce was stored at least a
\* second after the timestamp.
Covers(k) ==
    \A v, w \in Versions :
        \/ TTL(v) > 2 * AuthOf[w].window
        \/ TTL(v) >= AuthOf[w].window /\ seen[k] >= (accepted[k].stamp + 1) * Second

Recognised(g) ==
    LET q == req[g]
        k == q.nonce
    IN  Accepts(g) /\ accepted[k] = q /\ k \notin evicted /\ Covers(k) =>
            \A w \in Versions : ~Within(q, clock, w)

\* A retry of an accepted request that reaches the cache within its time window
\* finds its nonce there (unless it was evicted for space), however long it or
\* the first request waited between the check of the timestamp and the cache,
\* provided that the TTL covers the window: the timestamp is compared in whole
\* seconds and may lie ahead of the clock, the TTL is not and starts when the
\* nonce is stored.
RetryRecognised == [][\A g \in Goroutines : Recognised(g)]_authVars

=============================================================================
