----------------------------- MODULE AuthProofs -----------------------------
(***************************************************************************)
(* The nonce cache, for every set of requests, nonces, goroutines and      *)
(* configurations.  The lemmas are about single steps, of AuthNext and of  *)
(* what follows it, so that a specification that extends AuthNext can use  *)
(* them.                                                                   *)
(***************************************************************************)
EXTENDS Auth, FiniteSetTheorems, TLAPS

LaterLabels == {"limit", "handle", "submit", "queued", "dispatch", "log"}

Labels == {"idle", "body", "auth", "consume", "lock", "resolve"} \cup LaterLabels

AuthTypes ==
    /\ clock \in Nat /\ config \in Versions
    /\ pc \in [Goroutines -> Labels]
    /\ req \in [Goroutines -> Requests \cup {None}]
    /\ authCfg \in [Goroutines -> Versions \cup {None}]
    /\ now \in [Goroutines -> Nat \cup {Never}]
    /\ authorized \subseteq Goroutines
    /\ nonceCache \in [Nonces -> Nat \cup {Never}] /\ seen \in [Nonces -> Nat \cup {Never}]
    /\ accepted \in [Nonces -> Requests \cup {None}] /\ evicted \subseteq Nonces

\* At time t the timestamp of the request has been within a time window.
Checked == {c \in Nat \X Requests : \E h \in 0 .. c[1], v \in Versions : Within(c[2], h, v)}

\* What a goroutine knows on its way to the cache.
OnItsWay(g) ==
    /\ pc[g] # "idle" => req[g] \in Requests
    /\ pc[g] \in {"consume", "lock"} => authCfg[g] \in Versions /\ <<clock, req[g]>> \in Checked
    /\ pc[g] = "lock" =>
          now[g] \in Nat /\ now[g] <= clock /\ <<now[g], req[g]>> \in Checked

\* A nonce is remembered until it is evicted for space or a TTL has passed.
Remembered(n) ==
    seen[n] # Never /\ n \notin evicted =>
        nonceCache[n] = seen[n] \/ \E v \in Versions : clock > seen[n] + Lifetime(v)

Timely(n) ==
    accepted[n] # None =>
        seen[n] # Never /\ <<seen[n], accepted[n]>> \in Checked

AuthInv ==
    /\ AuthTypes /\ \E v \in Versions : clock <= MaxClock[v]
    /\ \A g \in Goroutines : OnItsWay(g)
    /\ \A n \in Nonces : Remembered(n) /\ Timely(n)

\* A step of g after authentication, or the end of its request.
Later(g) ==
    /\ UNCHANGED <<clock, config, nonceVars>>
    /\ pc[g] \in {"resolve"} \cup LaterLabels
    /\ \/ Ends(g)
       \/ /\ \E label \in LaterLabels : GoesTo(g, label)
          /\ UNCHANGED <<req, authCfg, now, authorized>>

LEMMA TTLType ==
    ASSUME NEW v \in Versions
    PROVE  TTL(v) \in Nat \ {0} /\ Lifetime(v) \in Int /\ Lifetime(v) = TTL(v) * Second
<1>1. TTL(v) \in Nat \ {0} /\ Second \in Nat
  BY AuthAssumption DEF TTL
<1> QED
  BY <1>1 DEF Lifetime

LEMMA WindowType == ASSUME NEW v \in Versions PROVE AuthOf[v].window \in Int
BY AuthAssumption

LEMMA RequestType == ASSUME NEW q \in Requests PROVE q.nonce \in Nonces /\ q.stamp \in Int
BY AuthAssumption

\* Whole seconds and the time.
LEMMA UnixBounds ==
    ASSUME NEW t \in Nat
    PROVE  Unix(t) \in Nat /\ Unix(t) * Second <= t /\ t < (Unix(t) + 1) * Second
<1>1. Second \in Nat \ {0}
  BY AuthAssumption
<1> QED
  BY <1>1 DEF Unix

LEMMA Product ==
    ASSUME NEW a \in Int, NEW b \in Int, NEW c \in Nat, a <= b PROVE a * c <= b * c
OBVIOUS

LEMMA UnixMonotone ==
    ASSUME NEW h \in Nat, NEW t \in Nat, h <= t PROVE Unix(h) <= Unix(t)
<1> DEFINE a == Unix(h)
           b == Unix(t)
<1>1. a \in Nat /\ b \in Nat /\ a * Second <= h /\ t < (b + 1) * Second
  BY UnixBounds
<1>2. Second \in Nat
  BY AuthAssumption
<1> HIDE DEF a, b
<1>3. ASSUME b + 1 <= a PROVE (b + 1) * Second <= a * Second
  BY <1>1, <1>2, <1>3, Product
<1>4. (b + 1) * Second \in Int /\ a * Second \in Int
  BY <1>1, <1>2
<1>5. a <= b
  BY <1>1, <1>3, <1>4
<1> QED
  BY <1>5 DEF a, b

LEMMA CheckedLater ==
    ASSUME NEW s \in Nat, NEW t \in Nat, s <= t, NEW q, <<s, q>> \in Checked
    PROVE  <<t, q>> \in Checked
BY DEF Checked

\* Nothing has been accepted at the start.
LEMMA AuthStart == AuthInit => AuthInv
BY AuthAssumption
   DEF AuthInit, AuthInv, AuthTypes, OnItsWay, Remembered, Timely, Labels, Never

\* The purge of consumeNonce deletes an entry only when its TTL has passed.
LEMMA PurgeIsLate ==
    ASSUME AuthInv, NEW g \in Goroutines, pc[g] = "lock", NEW n \in Nonces,
           Unexpired(g)[n] # nonceCache[n]
    PROVE  \E v \in Versions : clock > nonceCache[n] + Lifetime(v)
<1> DEFINE w == authCfg[g]
<1>1. w \in Versions /\ now[g] \in Nat /\ now[g] <= clock /\ clock \in Nat
  BY DEF AuthInv, AuthTypes, OnItsWay
<1>2. nonceCache[n] \in Int
  BY DEF AuthInv, AuthTypes, Never
<1>3. nonceCache[n] < now[g] - Lifetime(w)
  BY DEF Unexpired
<1>4. Lifetime(w) \in Int
  BY <1>1, TTLType
<1> HIDE DEF w
<1>5. clock > nonceCache[n] + Lifetime(w)
  BY <1>1, <1>2, <1>3, <1>4
<1> QED
  BY <1>1, <1>5

USE DEF Never

\* Time, a reload and the steps before consumeNonce.
LEMMA EarlyStep ==
    ASSUME AuthInv,
           \/ Tick \/ ConfigReload
           \/ \E g \in Goroutines :
                 \/ \E q \in Requests : Arrive(g, q)
                 \/ CacheBody(g) \/ RefuseHeaders(g) \/ PassHeaders(g) \/ ReadClock(g)
    PROVE  AuthInv'
<1> USE AuthAssumption DEF AuthInv, nonceVars, reqVars, GoesTo, Ends
<1>0. (\E v \in Versions : clock <= MaxClock[v])'
  <2>1. CASE Tick
    <3>1. clock' = clock + 1 /\ clock < MaxClock[config] /\ config \in Versions
          /\ clock \in Nat /\ MaxClock[config] \in Nat
      BY <2>1 DEF Tick, AuthTypes
    <3>2. clock' <= MaxClock[config]
      BY <3>1
    <3> QED BY <3>1, <3>2
  <2>2. CASE clock' = clock
    BY <2>2
  <2> QED BY <2>1, <2>2 DEF ConfigReload, Arrive, CacheBody, RefuseHeaders, PassHeaders, ReadClock
<1>1. CASE Tick
  <2>1. AuthTypes'
    BY <1>1 DEF Tick, AuthTypes
  <2>2. ASSUME NEW g \in Goroutines PROVE OnItsWay(g)'
    <3>1. clock' = clock + 1 /\ clock \in Nat
      BY <1>1 DEF Tick, AuthTypes
    <3>2. <<clock, req[g]>> \in Checked => <<clock', req[g]>> \in Checked
      BY <3>1, CheckedLater
    <3> QED BY <1>1, <3>1, <3>2 DEF Tick, AuthTypes, OnItsWay
  <2>3. ASSUME NEW n \in Nonces PROVE Remembered(n)' /\ Timely(n)'
    <3>1. Timely(n)'
      BY <1>1 DEF Tick, Timely
    <3>2. ASSUME NEW v \in Versions, clock > seen[n] + Lifetime(v) PROVE clock' > seen[n] + Lifetime(v)
      BY <1>1, <3>2, TTLType DEF Tick, AuthTypes
    <3>3. Remembered(n)'
      BY <1>1, <3>2 DEF Tick, Remembered
    <3> QED BY <3>1, <3>3
  <2> QED BY <1>0, <2>1, <2>2, <2>3
<1>2. CASE ConfigReload
  <2>1. AuthTypes'
    BY <1>2 DEF ConfigReload, AuthTypes
  <2>2. ASSUME NEW g \in Goroutines PROVE OnItsWay(g)'
    BY <1>2 DEF ConfigReload, OnItsWay
  <2>3. ASSUME NEW n \in Nonces PROVE Remembered(n)' /\ Timely(n)'
    BY <1>2 DEF ConfigReload, Remembered, Timely
  <2> QED BY <1>0, <2>1, <2>2, <2>3
<1>3. ASSUME NEW g \in Goroutines, NEW q \in Requests, Arrive(g, q) PROVE AuthInv'
  <2>1. AuthTypes'
    BY <1>3 DEF Arrive, AuthTypes, Labels
  <2>2. ASSUME NEW h \in Goroutines PROVE OnItsWay(h)'
    BY <1>3 DEF Arrive, OnItsWay, AuthTypes
  <2>3. ASSUME NEW n \in Nonces PROVE Remembered(n)' /\ Timely(n)'
    BY <1>3 DEF Arrive, Remembered, Timely
  <2> QED BY <1>0, <2>1, <2>2, <2>3
<1>4. ASSUME NEW g \in Goroutines, CacheBody(g) \/ RefuseHeaders(g) PROVE AuthInv'
  <2>1. AuthTypes'
    BY <1>4 DEF CacheBody, RefuseHeaders, AuthTypes, Labels
  <2>2. ASSUME NEW h \in Goroutines PROVE OnItsWay(h)'
    BY <1>4 DEF CacheBody, RefuseHeaders, OnItsWay, AuthTypes
  <2>3. ASSUME NEW n \in Nonces PROVE Remembered(n)' /\ Timely(n)'
    BY <1>4 DEF CacheBody, RefuseHeaders, Remembered, Timely
  <2> QED BY <1>0, <2>1, <2>2, <2>3
<1>5. ASSUME NEW g \in Goroutines, PassHeaders(g) PROVE AuthInv'
  <2>1. AuthTypes'
    BY <1>5 DEF PassHeaders, AuthTypes, Labels
  <2>2. AuthOf[config].enabled => <<clock, req[g]>> \in Checked
    <3>1. req[g] \in Requests /\ config \in Versions /\ clock \in Nat
      BY <1>5 DEF PassHeaders, OnItsWay, AuthTypes
    <3>2. AuthOf[config].enabled => Within(req[g], clock, config)
      BY <1>5 DEF PassHeaders, Refused, InWindow
    <3> QED BY <3>1, <3>2 DEF Checked
  <2>3. ASSUME NEW h \in Goroutines PROVE OnItsWay(h)'
    BY <1>5, <2>2 DEF PassHeaders, OnItsWay, AuthTypes
  <2>4. ASSUME NEW n \in Nonces PROVE Remembered(n)' /\ Timely(n)'
    BY <1>5 DEF PassHeaders, Remembered, Timely
  <2> QED BY <1>0, <2>1, <2>3, <2>4
<1>6. ASSUME NEW g \in Goroutines, ReadClock(g) PROVE AuthInv'
  <2>1. AuthTypes'
    BY <1>6 DEF ReadClock, AuthTypes, Labels
  <2>2. ASSUME NEW h \in Goroutines PROVE OnItsWay(h)'
    BY <1>6 DEF ReadClock, OnItsWay, AuthTypes
  <2>3. ASSUME NEW n \in Nonces PROVE Remembered(n)' /\ Timely(n)'
    BY <1>6 DEF ReadClock, Remembered, Timely
  <2> QED BY <1>0, <2>1, <2>2, <2>3
<1> QED
  BY <1>1, <1>2, <1>3, <1>4, <1>5, <1>6

\* What one entry is after a purge: it is kept, or its TTL has passed.
LEMMA PurgeKeeps ==
    ASSUME AuthInv, NEW g \in Goroutines, pc[g] = "lock", NEW n \in Nonces,
           seen[n] # Never, n \notin evicted
    PROVE  Unexpired(g)[n] = seen[n] \/ \E v \in Versions : clock > seen[n] + Lifetime(v)
<1>1. nonceCache[n] = seen[n] \/ \E v \in Versions : clock > seen[n] + Lifetime(v)
  BY DEF AuthInv, Remembered
<1>2. CASE nonceCache[n] = seen[n]
  BY <1>2, PurgeIsLate
<1> QED
  BY <1>1, <1>2

LEMMA UnexpiredType ==
    ASSUME AuthTypes, NEW g PROVE Unexpired(g) \in [Nonces -> Nat \cup {Never}]
BY DEF AuthTypes, Unexpired

LEMMA UsedStep ==
    ASSUME AuthInv, NEW g \in Goroutines, NonceUsed(g) PROVE AuthInv'
<1> USE DEF AuthInv, NonceUsed, Ends
<1>1. AuthTypes'
  BY UnexpiredType DEF AuthTypes, Labels
<1>2. ASSUME NEW h \in Goroutines PROVE OnItsWay(h)'
  BY DEF OnItsWay, AuthTypes
<1>3. ASSUME NEW n \in Nonces PROVE Timely(n)'
  BY DEF Timely
<1>4. ASSUME NEW n \in Nonces PROVE Remembered(n)'
  BY PurgeKeeps DEF Remembered, Lifetime, TTL
<1> QED
  BY <1>1, <1>2, <1>3, <1>4

LEMMA AcceptedStep ==
    ASSUME AuthInv, NEW g \in Goroutines, NonceAccepted(g) PROVE AuthInv'
<1> DEFINE k == req[g].nonce
<1>1. PICK E \in Evictions(Unexpired(g), Capacity(authCfg[g])) :
          /\ nonceCache' = [n \in Nonces |-> IF n = k THEN now[g]
                                             ELSE IF n \in E THEN Never ELSE Unexpired(g)[n]]
          /\ evicted' = (evicted \cup E) \ {k}
  BY DEF NonceAccepted
<1>2. E \subseteq Nonces
  BY DEF Evictions, Cached
<1>3. /\ pc[g] = "lock" /\ req[g] \in Requests /\ k \in Nonces
      /\ now[g] \in Nat /\ now[g] <= clock /\ authCfg[g] \in Versions
      /\ <<now[g], req[g]>> \in Checked
  BY RequestType DEF NonceAccepted, AuthInv, OnItsWay
<1>4. /\ seen' = [seen EXCEPT ![k] = now[g]] /\ accepted' = [accepted EXCEPT ![k] = req[g]]
      /\ authorized' = authorized \cup {g} /\ pc' = [pc EXCEPT ![g] = "resolve"]
      /\ authCfg' = [authCfg EXCEPT ![g] = None] /\ now' = [now EXCEPT ![g] = Never]
      /\ UNCHANGED <<clock, config, req>>
  BY DEF NonceAccepted, GoesTo
<1> HIDE DEF k
<1>5. AuthTypes'
  <2>1. Unexpired(g) \in [Nonces -> Nat \cup {Never}]
    BY UnexpiredType DEF AuthInv
  <2> QED BY <1>1, <1>2, <1>3, <1>4, <2>1 DEF AuthInv, AuthTypes, Labels
<1>6. ASSUME NEW h \in Goroutines PROVE OnItsWay(h)'
  BY <1>3, <1>4 DEF AuthInv, OnItsWay, AuthTypes
<1>7. ASSUME NEW n \in Nonces PROVE Timely(n)'
  <2>1. CASE n = k
    <3>1. seen'[n] = now[g] /\ accepted'[n] = req[g] /\ clock' = clock
      BY <2>1, <1>3, <1>4 DEF AuthInv, AuthTypes
    <3> QED BY <3>1, <1>3 DEF Timely
  <2>2. CASE n # k
    BY <2>2, <1>4 DEF AuthInv, AuthTypes, Timely
  <2> QED BY <2>1, <2>2
<1>8. ASSUME NEW n \in Nonces PROVE Remembered(n)'
  <2>1. CASE n = k
    BY <2>1, <1>1, <1>3, <1>4 DEF AuthInv, AuthTypes, Remembered
  <2>2. CASE n # k /\ n \in E
    BY <2>2, <1>1 DEF Remembered
  <2>3. CASE n # k /\ n \notin E
    <3>1. nonceCache'[n] = Unexpired(g)[n] /\ seen'[n] = seen[n] /\ clock' = clock
          /\ (n \notin evicted' => n \notin evicted)
      BY <2>3, <1>1, <1>4 DEF AuthInv, AuthTypes
    <3> QED BY <3>1, <1>3, PurgeKeeps DEF Remembered, Lifetime, TTL
  <2> QED BY <2>1, <2>2, <2>3
<1> QED
  BY <1>4, <1>5, <1>6, <1>7, <1>8 DEF AuthInv

LEMMA AuthStep == AuthInv /\ [AuthNext]_authVars => AuthInv'
<1> SUFFICES ASSUME AuthInv, [AuthNext]_authVars PROVE AuthInv'
  OBVIOUS
<1>1. CASE UNCHANGED authVars
  BY <1>1 DEF authVars, nonceVars, reqVars, AuthInv, AuthTypes, OnItsWay, Remembered, Timely
<1>2. CASE AuthNext
  BY <1>2, EarlyStep, UsedStep, AcceptedStep DEF AuthNext
<1> QED
  BY <1>1, <1>2

LEMMA LaterStep ==
    ASSUME AuthInv, NEW g \in Goroutines, Later(g) PROVE AuthInv'
<1> USE DEF AuthInv, Later, GoesTo, Ends, nonceVars
<1>1. AuthTypes'
  BY DEF AuthTypes, Labels, LaterLabels
<1>2. ASSUME NEW h \in Goroutines PROVE OnItsWay(h)'
  BY DEF OnItsWay, AuthTypes, LaterLabels
<1>3. ASSUME NEW n \in Nonces PROVE Remembered(n)' /\ Timely(n)'
  BY DEF Remembered, Timely
<1> QED
  BY <1>1, <1>2, <1>3

\* Only NonceAccepted takes a goroutine past the cache.
LEMMA WhoMoves ==
    ASSUME AuthInv, [AuthNext]_authVars, NEW h \in Goroutines
    PROVE  Accepts(h) => NonceAccepted(h)
<1> USE DEF Accepts, AuthInv, AuthTypes
<1>1. CASE UNCHANGED authVars
  BY <1>1 DEF authVars, reqVars
<1>2. CASE Tick \/ ConfigReload
  BY <1>2 DEF Tick, ConfigReload, reqVars
<1>3. ASSUME NEW g \in Goroutines,
             \/ \E q \in Requests : Arrive(g, q)
             \/ CacheBody(g) \/ RefuseHeaders(g) \/ PassHeaders(g) \/ ReadClock(g)
             \/ NonceUsed(g) \/ NonceAccepted(g)
      PROVE  Accepts(h) => NonceAccepted(h)
  <2>1. CASE g # h
    <3>1. \E l \in Labels : pc' = [pc EXCEPT ![g] = l]
      BY <1>3 DEF Labels, Arrive, CacheBody, RefuseHeaders, PassHeaders, ReadClock,
                  NonceUsed, NonceAccepted, GoesTo, Ends
    <3>2. pc'[h] = pc[h]
      BY <2>1, <3>1
    <3> QED BY <3>2
  <2>2. CASE g = h
    <3>1. CASE \E q \in Requests : Arrive(g, q)
      BY <2>2, <3>1 DEF Arrive, GoesTo
    <3>2. CASE CacheBody(g) \/ RefuseHeaders(g) \/ NonceUsed(g)
      BY <2>2, <3>2 DEF CacheBody, RefuseHeaders, NonceUsed, GoesTo, Ends
    <3>3. CASE PassHeaders(g)
      BY <2>2, <3>3 DEF PassHeaders
    <3>4. CASE ReadClock(g)
      BY <2>2, <3>4 DEF ReadClock
    <3>5. CASE NonceAccepted(g)
      <4>1. pc[g] = "lock"
        BY <3>5 DEF NonceAccepted
      <4> QED BY <2>2, <3>5, <4>1
    <3> QED BY <1>3, <3>1, <3>2, <3>3, <3>4, <3>5
  <2> QED BY <2>1, <2>2
<1> QED
  BY <1>1, <1>2, <1>3 DEF AuthNext

LEMMA SpacedStep ==
    ASSUME AuthInv, NEW g \in Goroutines, Accepts(g) => NonceAccepted(g)
    PROVE  Spaced(g)
<1> DEFINE k == req[g].nonce
<1> SUFFICES ASSUME Accepts(g), seen[k] # Never, k \notin evicted
             PROVE  \E v \in Versions : clock > seen[k] + Lifetime(v)
  BY DEF Spaced
<1>1. pc[g] = "lock" /\ Unexpired(g)[k] = Never
  BY DEF NonceAccepted
<1>2. k \in Nonces
  BY <1>1, RequestType DEF AuthInv, OnItsWay
<1> QED
  BY <1>1, <1>2, PurgeKeeps

\* What the comparison of the timestamp means in spite of its overflows: the
\* smallest int64, whose Abs is negative, is the only one that gets through.
LEMMA WithinMeans ==
    ASSUME NEW q \in Requests, NEW t \in Nat, NEW v \in Versions, t <= MaxClock[v],
           NEW w \in Versions, Within(q, t, w)
    PROVE  LET d == Unix(t) - q.stamp
           IN  (d <= AuthOf[w].window /\ -d <= AuthOf[w].window) \/ d = HalfWord
<1> DEFINE b == Unix(t)
           W == AuthOf[w].window
           c == q.stamp
<1>1. b \in Nat /\ W \in Int /\ HalfWord \in Nat \ {0} /\ c \in Int /\ -HalfWord <= c
      /\ c < HalfWord
  BY UnixBounds, WindowType, AuthAssumption
<1>2. b + W < HalfWord
  <2>1. MaxClock[v] \in Nat
    BY AuthAssumption
  <2>2. Unix(MaxClock[v]) \in Nat /\ b <= Unix(MaxClock[v])
    BY <2>1, UnixBounds, UnixMonotone
  <2>3. Unix(MaxClock[v]) + W < HalfWord
    BY ClockAssumption
  <2> HIDE DEF b, W
  <2> QED BY <1>1, <2>2, <2>3
<1>3. Abs(Wrap(b - c)) <= W
  BY DEF Within
<1> HIDE DEF b, W, c
<1>4. (b - c <= W /\ -(b - c) <= W) \/ b - c = HalfWord
  BY <1>1, <1>2, <1>3 DEF Abs, Wrap
<1> QED
  BY <1>4 DEF b, W, c

\* Between two times at which a timestamp is within a window there are not more
\* seconds than the two windows have.
LEMMA TwiceWithin ==
    ASSUME NEW q \in Requests, NEW h \in Nat, NEW t \in Nat, h <= t,
           NEW x \in Versions, t <= MaxClock[x],
           NEW u \in Versions, Within(q, h, u), NEW w \in Versions, Within(q, t, w)
    PROVE  \/ Unix(h) = Unix(t)
           \/ /\ Unix(h) >= q.stamp - AuthOf[u].window
              /\ Unix(t) <= q.stamp + AuthOf[w].window /\ AuthOf[w].window >= 0
<1> DEFINE a == Unix(h)
           b == Unix(t)
           U == AuthOf[u].window
           W == AuthOf[w].window
           c == q.stamp
<1>1. /\ a \in Nat /\ b \in Nat /\ a <= b /\ U \in Int /\ W \in Int /\ c \in Int
      /\ HalfWord \in Nat \ {0}
  BY UnixBounds, UnixMonotone, WindowType, RequestType, AuthAssumption
<1>2. b + W < HalfWord /\ b + U < HalfWord
  <2>1. MaxClock[x] \in Nat
    BY AuthAssumption
  <2>2. Unix(MaxClock[x]) \in Nat /\ b <= Unix(MaxClock[x])
    BY <2>1, UnixBounds, UnixMonotone
  <2>3. Unix(MaxClock[x]) + W < HalfWord /\ Unix(MaxClock[x]) + U < HalfWord
    BY ClockAssumption
  <2> HIDE DEF b, W, U
  <2> QED BY <1>1, <2>2, <2>3
<1>3. (a - c <= U /\ -(a - c) <= U) \/ a - c = HalfWord
  <2>1. MaxClock[x] \in Nat
    BY AuthAssumption
  <2>2. h <= MaxClock[x]
    BY <2>1
  <2> QED BY <2>2, WithinMeans
<1>4. (b - c <= W /\ -(b - c) <= W) \/ b - c = HalfWord
  BY WithinMeans
<1> HIDE DEF a, b, U, W, c
<1>5. a = b \/ (a >= c - U /\ b <= c + W /\ W >= 0)
  BY <1>1, <1>2, <1>3, <1>4
<1> QED
  BY <1>5 DEF a, b, U, W, c

\* A nonce that is accepted again is accepted after the time window.
LEMMA RecognisedStep ==
    ASSUME AuthInv, NEW g \in Goroutines, Accepts(g) => NonceAccepted(g)
    PROVE  Recognised(g)
<1> DEFINE q == req[g]
           k == q.nonce
<1> SUFFICES ASSUME Accepts(g), accepted[k] = q, k \notin evicted, Covers(k),
                    NEW w \in Versions, Within(q, clock, w)
             PROVE  FALSE
  BY DEF Recognised
<1>1. q \in Requests /\ k \in Nonces /\ clock \in Nat
  BY RequestType DEF Accepts, AuthInv, AuthTypes, OnItsWay
<1>2. seen[k] \in Nat /\ seen[k] # Never /\ <<seen[k], q>> \in Checked
  BY <1>1, AuthAssumption DEF AuthInv, AuthTypes, Timely
<1>3. PICK v \in Versions : clock > seen[k] + Lifetime(v)
  BY <1>2, SpacedStep DEF Spaced
<1>4. PICK h \in 0 .. seen[k], u \in Versions : Within(q, h, u)
  BY <1>2 DEF Checked
<1>5. PICK x \in Versions : clock <= MaxClock[x]
  BY DEF AuthInv
<1> DEFINE a == Unix(h)
           b == Unix(clock)
           c == q.stamp
           s == seen[k]
           T == TTL(v)
           U == AuthOf[u].window
           W == AuthOf[w].window
<1>6. /\ T \in Nat \ {0} /\ Second \in Nat \ {0} /\ U \in Int /\ W \in Int /\ c \in Int
      /\ s \in Nat /\ h \in Nat /\ h <= s
  <2>1. T \in Nat \ {0} /\ U \in Int /\ W \in Int
    BY TTLType, WindowType
  <2>2. c \in Int /\ Second \in Nat \ {0}
    BY <1>1, RequestType, AuthAssumption
  <2> QED BY <2>1, <2>2, <1>2
<1>7. Lifetime(v) = T * Second /\ T * Second \in Nat
  <2>1. Lifetime(v) = T * Second
    BY TTLType, Zenon
  <2> HIDE DEF T
  <2>2. T * Second \in Nat
    BY <1>6
  <2> QED BY <2>1, <2>2
<1>8. s < clock /\ h <= clock /\ clock > s + T * Second
  BY <1>1, <1>3, <1>6, <1>7
<1>9. /\ a \in Nat /\ b \in Nat /\ a * Second <= h /\ clock < (b + 1) * Second
  BY <1>1, <1>6, UnixBounds
<1>10. a = b \/ (a >= c - U /\ b <= c + W /\ W >= 0)
  BY <1>1, <1>4, <1>5, <1>6, <1>8, TwiceWithin
<1>11. \/ T > 2 * W /\ T > 2 * U
       \/ (T > 2 * W \/ T >= W) /\ s >= (c + 1) * Second
  BY <1>1 DEF Covers
<1> HIDE DEF q, k, a, b, c, s, T, U, W
<1>12. b >= a + T
  <2>1. ASSUME b + 1 <= a + T PROVE FALSE
    <3>1. (b + 1) * Second <= (a + T) * Second
      BY <1>6, <1>9, <2>1, Product
    <3>2. (a + T) * Second = a * Second + T * Second
      BY <1>6, <1>9
    <3>3. (b + 1) * Second \in Int /\ a * Second \in Int /\ T * Second \in Int
      BY <1>6, <1>9
    <3> QED BY <1>1, <1>6, <1>8, <1>9, <3>1, <3>2, <3>3
  <2> QED BY <1>6, <1>9, <2>1
<1>13. ASSUME s >= (c + 1) * Second PROVE b > c + T
  <2>1. ASSUME b + 1 <= c + 1 + T PROVE FALSE
    <3>1. (b + 1) * Second <= (c + 1 + T) * Second
      BY <1>6, <1>9, <2>1, Product
    <3>2. (c + 1 + T) * Second = (c + 1) * Second + T * Second
      BY <1>6
    <3>3. (b + 1) * Second \in Int /\ (c + 1) * Second \in Int /\ T * Second \in Int
      BY <1>6, <1>9
    <3> QED BY <1>1, <1>6, <1>8, <1>9, <1>13, <3>1, <3>2, <3>3
  <2> QED BY <1>6, <1>9, <2>1
<1> QED
  BY <1>6, <1>9, <1>10, <1>11, <1>12, <1>13

-----------------------------------------------------------------------------
(* The size of the cache *)

FiniteCache == IsFiniteSet(Cached(nonceCache))

LEMMA PurgeShrinks ==
    ASSUME AuthInv, FiniteCache, NEW g \in Goroutines
    PROVE  IsFiniteSet(Cached(Unexpired(g))) /\ Cardinality(Cached(Unexpired(g))) \in Nat
<1>1. Cached(Unexpired(g)) \in SUBSET Cached(nonceCache)
  BY DEF Cached, Unexpired
<1>2. IsFiniteSet(Cached(Unexpired(g)))
  BY <1>1, FS_Subset DEF FiniteCache
<1> QED
  BY <1>2, FS_CardinalityType

\* One element more.
LEMMA OneMore ==
    ASSUME NEW S, NEW x, IsFiniteSet(S)
    PROVE  IsFiniteSet(S \cup {x}) /\ Cardinality(S \cup {x}) <= Cardinality(S) + 1
<1> DEFINE a == Cardinality(S)
           b == Cardinality(S \cup {x})
<1>1. a \in Nat
  BY FS_CardinalityType
<1>2. IsFiniteSet(S \cup {x}) /\ b = IF x \in S THEN a ELSE a + 1
  BY FS_AddElement
<1> HIDE DEF a, b
<1>3. b <= a + 1
  BY <1>1, <1>2
<1> QED BY <1>2, <1>3 DEF a, b

\* An accepted nonce leaves the cache finite and within its capacity.
LEMMA AcceptedFits ==
    ASSUME AuthInv, FiniteCache, NEW g \in Goroutines, NonceAccepted(g)
    PROVE  FiniteCache' /\ Cardinality(Cached(nonceCache')) <= Capacity(authCfg[g])
<1> DEFINE k   == req[g].nonce
           U   == Cached(Unexpired(g))
           max == Capacity(authCfg[g])
<1>1. PICK E \in Evictions(Unexpired(g), max) :
          nonceCache' = [n \in Nonces |-> IF n = k THEN now[g]
                                          ELSE IF n \in E THEN Never ELSE Unexpired(g)[n]]
  BY DEF NonceAccepted
<1>2. IsFiniteSet(U) /\ Cardinality(U) \in Nat
  BY PurgeShrinks
<1>3. Cardinality(U \ E) = IF Cardinality(U) < max THEN Cardinality(U) ELSE max - 1
  BY <1>1 DEF Evictions
<1>4. max \in Int
  <2>1. pc[g] = "lock"
    BY DEF NonceAccepted
  <2>2. authCfg[g] \in Versions
    BY <2>1 DEF AuthInv, OnItsWay
  <2> QED BY <2>2, AuthAssumption DEF Capacity
<1> HIDE DEF U, max
<1>5. IsFiniteSet(U \ E) /\ Cardinality(U \ E) \in Nat
  BY <1>2, FS_Difference, FS_CardinalityType
<1>6. IsFiniteSet((U \ E) \cup {k}) /\ Cardinality((U \ E) \cup {k}) <= Cardinality(U \ E) + 1
  <2> DEFINE W == U \ E
  <2>1. IsFiniteSet(W)
    BY <1>5
  <2> HIDE DEF W, k
  <2>2. IsFiniteSet(W \cup {k}) /\ Cardinality(W \cup {k}) <= Cardinality(W) + 1
    BY <2>1, OneMore
  <2> QED BY <2>2 DEF W
<1>7. Cached(nonceCache') \in SUBSET ((U \ E) \cup {k})
  BY <1>1 DEF Cached, U
<1>8. IsFiniteSet(Cached(nonceCache')) /\ Cardinality(Cached(nonceCache')) \in Nat
      /\ Cardinality(Cached(nonceCache')) <= Cardinality((U \ E) \cup {k})
  BY <1>6, <1>7, FS_Subset, FS_CardinalityType
<1>9. Cardinality((U \ E) \cup {k}) \in Nat
  BY <1>6, FS_CardinalityType
<1>10. Cardinality(Cached(nonceCache')) <= max
  BY <1>2, <1>3, <1>4, <1>5, <1>6, <1>8, <1>9
<1> QED
  BY <1>8, <1>10 DEF FiniteCache, max

LEMMA CacheStaysFinite ==
    ASSUME AuthInv, FiniteCache, [AuthNext]_authVars PROVE FiniteCache'
<1>1. CASE UNCHANGED nonceCache
  BY <1>1 DEF FiniteCache, Cached
<1>2. ASSUME NEW g \in Goroutines, NonceUsed(g) PROVE FiniteCache'
  <2>1. nonceCache' = Unexpired(g)
    BY <1>2 DEF NonceUsed
  <2>2. IsFiniteSet(Cached(Unexpired(g)))
    BY PurgeShrinks
  <2> QED BY <2>1, <2>2 DEF FiniteCache, Cached
<1>3. ASSUME NEW g \in Goroutines, NonceAccepted(g) PROVE FiniteCache'
  BY <1>3, AcceptedFits
<1>4. CASE UNCHANGED authVars \/ Tick \/ ConfigReload
  BY <1>1, <1>4 DEF authVars, nonceVars, Tick, ConfigReload
<1>5. ASSUME NEW g \in Goroutines,
             \/ \E q \in Requests : Arrive(g, q)
             \/ CacheBody(g) \/ RefuseHeaders(g) \/ PassHeaders(g) \/ ReadClock(g)
      PROVE  FiniteCache'
  BY <1>1, <1>5 DEF nonceVars, Arrive, CacheBody, RefuseHeaders, PassHeaders, ReadClock
<1> QED
  BY <1>2, <1>3, <1>4, <1>5 DEF AuthNext

=============================================================================
