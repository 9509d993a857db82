---------------------------- MODULE UploadProofs ----------------------------
(***************************************************************************)
(* Message ownership, what the sink pools get, redaction and the nonce     *)
(* cache in Upload, for every set of requests, messages, projects,         *)
(* configurations and processors.                                          *)
(***************************************************************************)
EXTENDS Upload, AuthProofs, PipelineProofs

-----------------------------------------------------------------------------
(* The inductive invariant *)

UploadTypes ==
    /\ start \in Versions
    /\ pooled \in [Messages -> Nat]
    /\ holds \in [Messages -> [req : Goroutines \cup {None}, data : Results]]
    /\ ptr \in [Goroutines -> Messages \cup {None}]
    /\ chain \in [Goroutines -> Seq(Made)] /\ step \in [Goroutines -> Nat]
    /\ inSink \in [Messages -> Goroutines \cup {None}] /\ lost \subseteq Messages

\* How many processors have run.
Upto(g) == IF step[g] < Len(chain[g]) THEN step[g] ELSE Len(chain[g])

\* All processors have passed the data of the request of g as it came.
Untouched(g) == Passes(req[g].data) /\ holds[ptr[g]].data = req[g].data

\* The message of a task hides what the processors so far redact, or nothing
\* could be masked in it.
MaskedSoFar(g) ==
    \A f \in Fields :
        Redacts(chain[g], Upto(g), f) => Hides(holds[ptr[g]].data, f) \/ Untouched(g)

\* The message of a handler or task is that of its own request, and what the
\* processors so far are meant to make of it.
AsExpected(g) ==
    /\ holds[ptr[g]] = [req |-> g, data |-> Expected(chain[g], Upto(g), req[g].data)]
    /\ \A f \in Fields : Known(chain[g], Upto(g), req[g].data, f)

TaskInv(g) ==
    /\ pc[g] \in LaterLabels => req[g].project \in Projects
    /\ Owns(g) => req[g] \in Requests /\ AsExpected(g)
    /\ pc[g] \notin {"dispatch", "log"} => step[g] = 0
    /\ pc[g] = "dispatch" => MaskedSoFar(g)

UploadInv ==
    /\ AuthInv /\ UploadTypes /\ MessageInOnePlace
    /\ \A g \in Goroutines : TaskInv(g)

LEMMA UploadStart == Init => UploadInv
<1> SUFFICES ASSUME Init PROVE UploadInv
  OBVIOUS
<1>1. AuthInv
  BY AuthStart DEF Init
<1>2. UploadTypes
  <2>1. Blank \in [req : Goroutines \cup {None}, data : Results]
    BY NoFieldsType DEF Blank, Bare, Results, Kinds
  <2>2. start \in Versions
    BY <1>1 DEF Init, AuthInv, AuthTypes
  <2> QED BY <2>1, <2>2 DEF Init, UploadTypes
<1>3. MessageInOnePlace
  BY DEF Init, AuthInit, MessageInOnePlace, Owns
<1>4. ASSUME NEW g \in Goroutines PROVE TaskInv(g)
  BY DEF Init, AuthInit, TaskInv, LaterLabels, Owns
<1> QED
  BY <1>1, <1>2, <1>3, <1>4 DEF UploadInv

-----------------------------------------------------------------------------
(* Steps of AuthNext *)

\* They leave alone the requests that have passed them.
LEMMA AuthMoves ==
    ASSUME AuthInv, [AuthNext]_authVars, NEW h \in Goroutines
    PROVE  /\ pc[h] \in LaterLabels => pc'[h] = pc[h] /\ req'[h] = req[h]
           /\ pc[h] \notin LaterLabels => pc'[h] \notin LaterLabels
<1> USE DEF AuthInv, AuthTypes, LaterLabels
<1>1. CASE UNCHANGED authVars
  BY <1>1 DEF authVars, reqVars
<1>2. CASE Tick \/ ConfigReload
  BY <1>2 DEF Tick, ConfigReload, reqVars
<1>3. ASSUME NEW g \in Goroutines, NEW q \in Requests, Arrive(g, q)
      PROVE  /\ pc[h] \in LaterLabels => pc'[h] = pc[h] /\ req'[h] = req[h]
             /\ pc[h] \notin LaterLabels => pc'[h] \notin LaterLabels
  BY <1>3 DEF Arrive, GoesTo
<1>4. ASSUME NEW g \in Goroutines,
             \/ CacheBody(g) \/ RefuseHeaders(g) \/ PassHeaders(g) \/ ReadClock(g)
             \/ NonceUsed(g) \/ NonceAccepted(g)
      PROVE  /\ pc[h] \in LaterLabels => pc'[h] = pc[h] /\ req'[h] = req[h]
             /\ pc[h] \notin LaterLabels => pc'[h] \notin LaterLabels
  BY <1>4 DEF CacheBody, RefuseHeaders, PassHeaders, ReadClock, NonceUsed, NonceAccepted,
              GoesTo, Ends
<1> QED
  BY <1>1, <1>2, <1>3, <1>4 DEF AuthNext

LEMMA AuthPreserves ==
    ASSUME UploadInv, [AuthNext]_authVars, UNCHANGED uploadVars PROVE UploadInv'
<1>1. AuthInv'
  BY AuthStep DEF UploadInv
<1>2. UploadTypes'
  BY DEF UploadInv, UploadTypes, uploadVars, msgVars, taskVars
<1>3. ASSUME NEW g \in Goroutines PROVE Owns(g)' = Owns(g)
  BY AuthMoves DEF UploadInv, Owns, LaterLabels
<1>4. MessageInOnePlace'
  BY <1>3 DEF UploadInv, MessageInOnePlace, uploadVars, msgVars, taskVars
<1>5. ASSUME NEW g \in Goroutines PROVE TaskInv(g)'
  <2>1. TaskInv(g)
    BY DEF UploadInv
  <2>2. /\ pc[g] \in LaterLabels => pc'[g] = pc[g] /\ req'[g] = req[g]
        /\ pc[g] \notin LaterLabels => pc'[g] \notin LaterLabels
    BY AuthMoves DEF UploadInv
  <2>3. (req'[g] = req[g] => MaskedSoFar(g)' = MaskedSoFar(g)) /\ step' = step
    BY DEF MaskedSoFar, Untouched, Upto, uploadVars, msgVars, taskVars
  <2>4. req'[g] = req[g] => AsExpected(g)' = AsExpected(g)
    BY DEF AsExpected, Upto, uploadVars, msgVars, taskVars
  <2>5. Owns(g)' => Owns(g) /\ req'[g] = req[g]
    BY <1>3, <2>2 DEF Owns, LaterLabels
  <2> QED BY <2>1, <2>2, <2>3, <2>4, <2>5 DEF TaskInv, LaterLabels
<1> QED
  BY <1>1, <1>2, <1>4, <1>5 DEF UploadInv

-----------------------------------------------------------------------------
(* The other steps *)

\* A task whose own state and message a step leaves alone.
LEMMA TaskKept ==
    ASSUME NEW h \in Goroutines, TaskInv(h),
           pc'[h] = pc[h], req'[h] = req[h], step'[h] = step[h],
           chain'[h] = chain[h], ptr'[h] = ptr[h],
           Owns(h) => holds'[ptr[h]] = holds[ptr[h]]
    PROVE  TaskInv(h)'
<1>1. pc[h] = "dispatch" => MaskedSoFar(h)' = MaskedSoFar(h)
  BY DEF MaskedSoFar, Untouched, Upto, Owns
<1>2. Owns(h)' = Owns(h) /\ (Owns(h) => AsExpected(h)' = AsExpected(h))
  BY DEF AsExpected, Upto, Owns
<1> QED
  BY <1>1, <1>2 DEF TaskInv, LaterLabels

\* Nothing has run.
LEMMA UptoNone ==
    ASSUME NEW h \in Goroutines, UploadTypes, step[h] = 0 PROVE Upto(h) = 0
<1>1. Len(chain[h]) \in Nat
  BY DEF UploadTypes
<1> QED
  BY <1>1 DEF Upto

LEMMA BlankType == Blank \in [req : Goroutines \cup {None}, data : Results]
BY NoFieldsType DEF Blank, Bare, Results, Kinds

\* The data of a message.
LEMMA DataOf == \A r, x, y : r = [req |-> x, data |-> y] => r.data = y
OBVIOUS

LEMMA EmptyChain == <<>> \in Seq(Made)
OBVIOUS

\* The messages do not move.
LEMMA PlacesKept ==
    ASSUME UploadInv, UNCHANGED <<pooled, inSink, lost>>,
           \A h \in Goroutines : Owns(h)' = Owns(h) /\ (Owns(h) => ptr'[h] = ptr[h])
    PROVE  MessageInOnePlace'
<1>1. MessageInOnePlace
  BY DEF UploadInv
<1>2. ASSUME NEW h \in Goroutines, Owns(h)'
      PROVE  /\ ptr'[h] \in Messages /\ pooled'[ptr'[h]] = 0
             /\ inSink'[ptr'[h]] = None /\ ptr'[h] \notin lost'
             /\ \A i \in Goroutines \ {h} : Owns(i)' => ptr'[i] # ptr'[h]
  <2>1. Owns(h) /\ ptr'[h] = ptr[h]
    BY <1>2
  <2> QED BY <1>1, <2>1 DEF MessageInOnePlace
<1>3. ASSUME NEW n \in Messages, pooled'[n] = 0
      PROVE  inSink'[n] # None \/ n \in lost' \/ \E h \in Goroutines : Owns(h)' /\ ptr'[h] = n
  <2>1. inSink[n] # None \/ n \in lost \/ \E h \in Goroutines : Owns(h) /\ ptr[h] = n
    BY <1>1, <1>3 DEF MessageInOnePlace
  <2> QED BY <2>1
<1>4. /\ \A n \in Messages : pooled'[n] \in {0, 1}
      /\ \A n \in Messages : inSink'[n] # None => pooled'[n] = 0 /\ n \notin lost'
      /\ \A n \in lost' : pooled'[n] = 0
  BY <1>1 DEF MessageInOnePlace
<1> QED
  BY <1>2, <1>3, <1>4 DEF MessageInOnePlace

\* One message, which no handler or task has, goes to a sink pool or back.
LEMMA OneMoves ==
    ASSUME UploadInv, NEW m \in Messages, lost' \subseteq Messages, m \notin lost',
           \A h \in Goroutines : Owns(h)' = Owns(h) /\ (Owns(h) => ptr'[h] = ptr[h] /\ ptr[h] # m),
           \A k \in Messages \ {m} :
              pooled'[k] = pooled[k] /\ inSink'[k] = inSink[k] /\ (k \in lost' <=> k \in lost),
           \/ pooled'[m] = 1 /\ inSink'[m] = None
           \/ pooled'[m] = 0 /\ inSink'[m] # None
    PROVE  MessageInOnePlace'
<1>1. MessageInOnePlace
  BY DEF UploadInv
<1>2. ASSUME NEW h \in Goroutines, Owns(h)'
      PROVE  /\ ptr'[h] \in Messages /\ pooled'[ptr'[h]] = 0
             /\ inSink'[ptr'[h]] = None /\ ptr'[h] \notin lost'
             /\ \A i \in Goroutines \ {h} : Owns(i)' => ptr'[i] # ptr'[h]
  <2>1. Owns(h) /\ ptr'[h] = ptr[h] /\ ptr[h] # m
    BY <1>2
  <2>2. /\ ptr[h] \in Messages /\ pooled[ptr[h]] = 0
        /\ inSink[ptr[h]] = None /\ ptr[h] \notin lost
        /\ \A i \in Goroutines \ {h} : Owns(i) => ptr[i] # ptr[h]
    BY <1>1, <2>1 DEF MessageInOnePlace
  <2>3. /\ pooled'[ptr[h]] = pooled[ptr[h]] /\ inSink'[ptr[h]] = inSink[ptr[h]]
        /\ (ptr[h] \in lost' <=> ptr[h] \in lost)
    BY <2>1, <2>2
  <2>4. \A i \in Goroutines \ {h} : Owns(i)' => ptr'[i] # ptr[h]
    BY <2>2
  <2> QED BY <2>1, <2>2, <2>3, <2>4
<1>3. ASSUME NEW n \in Messages, pooled'[n] = 0
      PROVE  inSink'[n] # None \/ n \in lost' \/ \E h \in Goroutines : Owns(h)' /\ ptr'[h] = n
  <2>1. CASE n = m
    BY <1>3, <2>1
  <2>2. CASE n # m
    <3>1. pooled[n] = 0 /\ inSink'[n] = inSink[n] /\ (n \in lost' <=> n \in lost)
      BY <1>3, <2>2
    <3>2. inSink[n] # None \/ n \in lost \/ \E h \in Goroutines : Owns(h) /\ ptr[h] = n
      BY <1>1, <3>1 DEF MessageInOnePlace
    <3> QED BY <3>1, <3>2
  <2> QED BY <2>1, <2>2
<1>4. ASSUME NEW n \in Messages
      PROVE  /\ pooled'[n] \in {0, 1} /\ (n \in lost' => pooled'[n] = 0)
             /\ inSink'[n] # None => pooled'[n] = 0 /\ n \notin lost'
  <2>1. CASE n = m
    BY <2>1
  <2>2. CASE n # m
    <3>1. pooled'[n] = pooled[n] /\ inSink'[n] = inSink[n] /\ (n \in lost' <=> n \in lost)
      BY <2>2
    <3>2. /\ pooled[n] \in {0, 1} /\ (n \in lost => pooled[n] = 0)
          /\ inSink[n] # None => pooled[n] = 0 /\ n \notin lost
      BY <1>1 DEF MessageInOnePlace
    <3> QED BY <3>1, <3>2
  <2> QED BY <2>1, <2>2
<1> QED
  BY <1>2, <1>3, <1>4 DEF MessageInOnePlace

\* A step in which the messages do not move.
LEMMA QuietStep ==
    ASSUME UploadInv, NEW g \in Goroutines,
           ResolveProject(g) \/ LimitProject(g) \/ SubmitTask(g)
    PROVE  UploadInv'
<1> USE DEF ResolveProject, LimitProject, SubmitTask, GoesTo, Ends
<1>1. Later(g)
  BY DEF Later, LaterLabels
<1>2. AuthInv'
  BY <1>1, LaterStep DEF UploadInv
<1>3. UploadTypes'
  BY DEF UploadInv, UploadTypes, uploadVars, msgVars, taskVars
<1>4. pc \in [Goroutines -> Labels] /\ req \in [Goroutines -> Requests \cup {None}]
  BY DEF UploadInv, AuthInv, AuthTypes
<1>5. ASSUME NEW h \in Goroutines PROVE Owns(h)' = Owns(h)
  BY <1>4 DEF Owns
<1>6. MessageInOnePlace'
  BY <1>5, PlacesKept DEF uploadVars, msgVars, taskVars
<1>7. ASSUME NEW h \in Goroutines, h # g PROVE TaskInv(h)'
  BY <1>4, <1>7, TaskKept DEF UploadInv, uploadVars, msgVars, taskVars
<1>8. TaskInv(g)'
  <2>1. ~Unresolved(g) /\ pc[g] = "resolve" => req[g].project \in Projects
    BY UploadAssumption DEF Unresolved, UploadInv, AuthInv, OnItsWay
  <2>2. TaskInv(g) /\ step' = step
    BY DEF UploadInv, uploadVars, taskVars
  <2>3. Owns(g)' => Owns(g) /\ req'[g] = req[g]
    BY <1>4, <1>5 DEF Owns
  <2>4. req'[g] = req[g] => AsExpected(g)' = AsExpected(g)
    BY DEF AsExpected, Upto, uploadVars, msgVars, taskVars
  <2>5. Owns(g)' => req'[g] \in Requests /\ AsExpected(g)'
    BY <2>2, <2>3, <2>4 DEF TaskInv
  <2>6. pc'[g] \in LaterLabels => req'[g].project \in Projects
    BY <1>4, <2>1, <2>2 DEF TaskInv, LaterLabels
  <2> QED BY <1>4, <2>2, <2>5, <2>6 DEF TaskInv
<1> QED
  BY <1>2, <1>3, <1>6, <1>7, <1>8 DEF UploadInv

\* What the pool counts when a message is taken, and when it is given back.
LEMMA Acquired ==
    ASSUME UploadInv, NEW m \in Messages, NEW c, AcquireMessage(m, c)
    PROVE  pooled[m] = 1 /\ pooled' = [pooled EXCEPT ![m] = 0] /\ holds' = [holds EXCEPT ![m] = c]
<1>1. pooled[m] \in {0, 1} /\ pooled \in [Messages -> Nat]
  BY DEF UploadInv, UploadTypes, MessageInOnePlace
<1>2. pooled[m] > 0 /\ pooled' = [pooled EXCEPT ![m] = pooled[m] - 1]
  BY DEF AcquireMessage
<1>3. pooled[m] = 1 /\ pooled[m] - 1 = 0
  BY <1>1, <1>2
<1> QED
  BY <1>2, <1>3 DEF AcquireMessage

LEMMA Released ==
    ASSUME NEW m \in Messages, pooled[m] = 0, ReleaseMessage(m)
    PROVE  pooled' = [pooled EXCEPT ![m] = 1] /\ holds' = [holds EXCEPT ![m] = Blank]
BY DEF ReleaseMessage, Put

\* The handler of g takes m out of the pool.
LEMMA HandlerTakes ==
    ASSUME UploadInv, NEW g \in Goroutines, NEW m \in Messages, pooled[m] = 1,
           pooled' = [pooled EXCEPT ![m] = 0], ptr' = [ptr EXCEPT ![g] = m],
           ~Owns(g), Owns(g)', \A h \in Goroutines \ {g} : Owns(h)' = Owns(h),
           UNCHANGED <<inSink, lost>>
    PROVE  MessageInOnePlace'
<1>1. /\ MessageInOnePlace /\ pooled \in [Messages -> Nat] /\ lost \subseteq Messages
      /\ ptr \in [Goroutines -> Messages \cup {None}]
  BY DEF UploadInv, UploadTypes
<1>2. ptr'[g] = m /\ \A h \in Goroutines \ {g} : ptr'[h] = ptr[h]
  BY <1>1
<1>3. pooled'[m] = 0 /\ \A n \in Messages \ {m} : pooled'[n] = pooled[n]
  BY <1>1
<1>4. inSink[m] = None /\ m \notin lost /\ \A h \in Goroutines : Owns(h) => ptr[h] # m
  BY <1>1 DEF MessageInOnePlace
<1>5. \A n \in Messages : pooled'[n] \in {0, 1}
  BY <1>1, <1>3 DEF MessageInOnePlace
<1>6. ASSUME NEW h \in Goroutines, Owns(h)'
      PROVE  /\ ptr'[h] \in Messages /\ pooled'[ptr'[h]] = 0
             /\ inSink'[ptr'[h]] = None /\ ptr'[h] \notin lost'
             /\ \A i \in Goroutines \ {h} : Owns(i)' => ptr'[i] # ptr'[h]
  <2>1. CASE h = g
    BY <1>2, <1>3, <1>4, <2>1
  <2>2. CASE h # g
    BY <1>1, <1>2, <1>3, <1>4, <1>6, <2>2 DEF MessageInOnePlace
  <2> QED BY <2>1, <2>2
<1>7. \A n \in Messages : inSink'[n] # None => pooled'[n] = 0 /\ n \notin lost'
  BY <1>1, <1>3, <1>4 DEF MessageInOnePlace
<1>8. \A n \in lost' : pooled'[n] = 0
  BY <1>1, <1>3 DEF MessageInOnePlace
<1>9. ASSUME NEW n \in Messages, pooled'[n] = 0
      PROVE  inSink'[n] # None \/ n \in lost' \/ \E h \in Goroutines : Owns(h)' /\ ptr'[h] = n
  <2>1. CASE n = m
    BY <1>2, <2>1
  <2>2. CASE n # m
    BY <1>1, <1>2, <1>3, <1>9, <2>2 DEF MessageInOnePlace
  <2> QED BY <2>1, <2>2
<1> QED
  BY <1>5, <1>6, <1>7, <1>8, <1>9 DEF MessageInOnePlace

\* The handler or the task of g gives its message back, or loses it.
LEMMA TaskParts ==
    ASSUME UploadInv, NEW g \in Goroutines, Owns(g), ~Owns(g)',
           \A h \in Goroutines \ {g} : Owns(h)' = Owns(h) /\ ptr'[h] = ptr[h],
           \/ pooled' = [pooled EXCEPT ![ptr[g]] = 1] /\ lost' = lost
           \/ pooled' = pooled /\ lost' = lost \cup {ptr[g]},
           inSink' = inSink
    PROVE  MessageInOnePlace'
<1> DEFINE m == ptr[g]
<1>1. /\ MessageInOnePlace /\ pooled \in [Messages -> Nat] /\ lost \subseteq Messages
  BY DEF UploadInv, UploadTypes
<1>2. /\ m \in Messages /\ pooled[m] = 0 /\ inSink[m] = None /\ m \notin lost
      /\ \A h \in Goroutines \ {g} : Owns(h) => ptr[h] # m
  BY <1>1 DEF MessageInOnePlace
<1>3. /\ \A n \in Messages \ {m} : pooled'[n] = pooled[n] /\ (n \in lost' <=> n \in lost)
      /\ (pooled'[m] = 1 /\ m \notin lost') \/ (pooled'[m] = 0 /\ m \in lost')
      /\ lost' \subseteq Messages
  BY <1>1, <1>2
<1> HIDE DEF m
<1>4. \A n \in Messages : pooled'[n] \in {0, 1}
  BY <1>1, <1>3 DEF MessageInOnePlace
<1>5. ASSUME NEW h \in Goroutines, Owns(h)'
      PROVE  /\ ptr'[h] \in Messages /\ pooled'[ptr'[h]] = 0
             /\ inSink'[ptr'[h]] = None /\ ptr'[h] \notin lost'
             /\ \A i \in Goroutines \ {h} : Owns(i)' => ptr'[i] # ptr'[h]
  <2>1. h # g /\ Owns(h) /\ ptr'[h] = ptr[h] /\ ptr[h] # m /\ ptr[h] \in Messages
    BY <1>1, <1>2, <1>5 DEF MessageInOnePlace
  <2>2. \A i \in Goroutines \ {h} : Owns(i)' => Owns(i) /\ ptr'[i] = ptr[i]
    OBVIOUS
  <2> QED BY <1>1, <1>3, <2>1, <2>2 DEF MessageInOnePlace
<1>6. \A n \in Messages : inSink'[n] # None => pooled'[n] = 0 /\ n \notin lost'
  BY <1>1, <1>2, <1>3 DEF MessageInOnePlace
<1>7. \A n \in lost' : pooled'[n] = 0
  BY <1>1, <1>3 DEF MessageInOnePlace
<1>8. ASSUME NEW n \in Messages, pooled'[n] = 0
      PROVE  inSink'[n] # None \/ n \in lost' \/ \E h \in Goroutines : Owns(h)' /\ ptr'[h] = n
  <2>1. CASE n = m
    BY <1>3, <1>8, <2>1
  <2>2. CASE n # m
    <3>1. pooled[n] = 0
      BY <1>3, <1>8, <2>2
    <3>2. inSink[n] # None \/ n \in lost \/ \E h \in Goroutines \ {g} : Owns(h) /\ ptr[h] = n
      BY <1>1, <2>2, <3>1 DEF MessageInOnePlace, m
    <3> QED BY <1>3, <2>2, <3>2
  <2> QED BY <2>1, <2>2
<1> QED
  BY <1>4, <1>5, <1>6, <1>7, <1>8 DEF MessageInOnePlace

LEMMA HandleStep ==
    ASSUME UploadInv, NEW g \in Goroutines, HandleUpload(g) PROVE UploadInv'
<1>1. Later(g)
  BY DEF HandleUpload, GoesTo, Ends, Later, LaterLabels
<1>2. AuthInv'
  BY <1>1, LaterStep DEF UploadInv
<1>3. /\ pc \in [Goroutines -> Labels] /\ req \in [Goroutines -> Requests \cup {None}]
      /\ req[g] \in Requests /\ pc[g] = "handle" /\ UNCHANGED <<start, inSink, lost, chain, step>>
  BY DEF HandleUpload, UploadInv, AuthInv, AuthTypes, OnItsWay
<1>4. CASE UNCHANGED <<pooled, holds, ptr>> /\ pc' = [pc EXCEPT ![g] = "idle"]
                                          /\ req' = [req EXCEPT ![g] = None]
  <2>1. UploadTypes'
    BY <1>3, <1>4 DEF UploadInv, UploadTypes
  <2>2. ASSUME NEW h \in Goroutines PROVE Owns(h)' = Owns(h)
    BY <1>3, <1>4 DEF Owns
  <2>3. MessageInOnePlace'
    BY <1>3, <1>4, <2>2, PlacesKept
  <2>4. ASSUME NEW h \in Goroutines, h # g PROVE TaskInv(h)'
    BY <1>3, <1>4, <2>4, TaskKept DEF UploadInv
  <2>5. TaskInv(g)'
    BY <1>3, <1>4 DEF UploadInv, TaskInv, LaterLabels, Owns
  <2> QED BY <1>2, <2>1, <2>3, <2>4, <2>5 DEF UploadInv
<1>5. ASSUME NEW m \in Messages, AcquireMessage(m, [req |-> g, data |-> req[g].data]),
             ptr' = [ptr EXCEPT ![g] = m], pc' = [pc EXCEPT ![g] = "submit"], req' = req
      PROVE  UploadInv'
  <2> DEFINE c == [req |-> g, data |-> req[g].data]
  <2>1. pooled[m] = 1 /\ pooled' = [pooled EXCEPT ![m] = 0] /\ holds' = [holds EXCEPT ![m] = c]
    BY <1>5, Acquired
  <2>2. UploadTypes'
    <3>1. c \in [req : Goroutines \cup {None}, data : Results]
      BY <1>3, UploadAssumption, DataType
    <3> HIDE DEF c
    <3>2. holds' \in [Messages -> [req : Goroutines \cup {None}, data : Results]]
      BY <2>1, <3>1 DEF UploadInv, UploadTypes
    <3>3. pooled' \in [Messages -> Nat] /\ ptr' \in [Goroutines -> Messages \cup {None}]
      BY <1>5, <2>1 DEF UploadInv, UploadTypes
    <3> QED BY <1>3, <3>2, <3>3 DEF UploadInv, UploadTypes
  <2>3. MessageInOnePlace'
    BY <1>3, <1>5, <2>1, HandlerTakes DEF Owns
  <2>4. ASSUME NEW h \in Goroutines, h # g PROVE TaskInv(h)'
    <3> HIDE DEF c
    <3>1. Owns(h) => ptr[h] \in Messages /\ ptr[h] # m
      <4>1. Owns(h) => ptr[h] \in Messages /\ pooled[ptr[h]] = 0
        BY DEF UploadInv, MessageInOnePlace
      <4> QED BY <2>1, <4>1
    <3>2. Owns(h) => holds'[ptr[h]] = holds[ptr[h]]
      BY <2>1, <3>1 DEF UploadInv, UploadTypes
    <3> QED BY <1>3, <1>5, <2>4, <3>2, TaskKept DEF UploadInv, UploadTypes
  <2>5. AsExpected(g)'
    <3>1. req[g].data \in Data /\ step[g] = 0 /\ Upto(g) = 0
      BY <1>3, UploadAssumption, UptoNone DEF UploadInv, TaskInv
    <3>2. Upto(g)' = 0
      BY <1>3, <3>1 DEF Upto
    <3>3. /\ Expected(chain[g], 0, req[g].data) = req[g].data
          /\ \A f \in Fields : Known(chain[g], 0, req[g].data, f)
      BY <3>1, ExpectedNone
    <3>4. holds'[m] = c /\ ptr'[g] = m
      <4> HIDE DEF c
      <4> QED BY <1>5, <2>1 DEF UploadInv, UploadTypes
    <3> QED BY <1>3, <1>5, <3>2, <3>3, <3>4 DEF AsExpected
  <2>6. TaskInv(g)'
    BY <1>3, <1>5, <2>5 DEF UploadInv, TaskInv, LaterLabels
  <2> QED BY <1>2, <2>2, <2>3, <2>4, <2>6 DEF UploadInv
<1> QED
  BY <1>4, <1>5 DEF HandleUpload, GoesTo, Ends

\* A step in which g parts with its message: the 503, the errors and the end of
\* Dispatch.
LEMMA PartStep ==
    ASSUME UploadInv, NEW g \in Goroutines, Later(g), Owns(g), ~Owns(g)',
           \/ ReleaseMessage(ptr[g]) /\ lost' = lost
           \/ UNCHANGED <<pooled, holds>> /\ lost' = lost \cup {ptr[g]},
           UNCHANGED <<start, inSink>>,
           ptr' = ptr \/ ptr' = [ptr EXCEPT ![g] = None],
           chain' = chain \/ chain' = [chain EXCEPT ![g] = <<>>],
           step' = step \/ step' = [step EXCEPT ![g] = 0],
           pc'[g] # "log" => step'[g] = 0
    PROVE  UploadInv'
<1> DEFINE m == ptr[g]
<1>1. AuthInv'
  BY LaterStep DEF UploadInv
<1>2. m \in Messages /\ pooled[m] = 0 /\ \A h \in Goroutines \ {g} : Owns(h) => ptr[h] # m
  BY DEF UploadInv, MessageInOnePlace
<1>3. \/ /\ pooled' = [pooled EXCEPT ![m] = 1] /\ holds' = [holds EXCEPT ![m] = Blank]
         /\ lost' = lost
      \/ pooled' = pooled /\ holds' = holds /\ lost' = lost \cup {m}
  BY <1>2, Released
<1>4. UploadTypes'
  <2> HIDE DEF m
  <2> USE DEF UploadInv, UploadTypes
  <2>1. pooled' \in [Messages -> Nat] /\ lost' \subseteq Messages
    <3>1. pooled \in [Messages -> Nat] /\ lost \subseteq Messages
      OBVIOUS
    <3>2. [pooled EXCEPT ![m] = 1] \in [Messages -> Nat] /\ lost \cup {m} \subseteq Messages
      BY <1>2, <3>1
    <3> QED BY <1>3, <3>1, <3>2
  <2>2. holds' \in [Messages -> [req : Goroutines \cup {None}, data : Results]]
    BY <1>2, <1>3, BlankType
  <2>3. ptr' \in [Goroutines -> Messages \cup {None}]
    <3>1. ptr \in [Goroutines -> Messages \cup {None}]
      OBVIOUS
    <3> QED BY <3>1
  <2>4. chain' \in [Goroutines -> Seq(Made)]
    BY EmptyChain
  <2>5. step' \in [Goroutines -> Nat]
    <3>1. step \in [Goroutines -> Nat]
      OBVIOUS
    <3> HIDE DEF UploadInv, UploadTypes
    <3> QED BY <3>1
  <2> QED BY <2>1, <2>2, <2>3, <2>4, <2>5
<1>5. pc \in [Goroutines -> Labels] /\ req \in [Goroutines -> Requests \cup {None}]
  BY DEF UploadInv, AuthInv, AuthTypes
<1>6. ASSUME NEW h \in Goroutines, h # g
      PROVE  /\ pc'[h] = pc[h] /\ req'[h] = req[h] /\ step'[h] = step[h]
             /\ chain'[h] = chain[h] /\ ptr'[h] = ptr[h]
  <2>1. pc'[h] = pc[h] /\ req'[h] = req[h]
    BY <1>5, <1>6 DEF Later, GoesTo, Ends
  <2>2. step'[h] = step[h] /\ chain'[h] = chain[h] /\ ptr'[h] = ptr[h]
    BY <1>6 DEF UploadInv, UploadTypes
  <2> QED BY <2>1, <2>2
<1>7. \A h \in Goroutines \ {g} : Owns(h)' = Owns(h) /\ ptr'[h] = ptr[h]
  BY <1>6 DEF Owns
<1>8. MessageInOnePlace'
  BY <1>3, <1>7, TaskParts
<1>9. ASSUME NEW h \in Goroutines, h # g PROVE TaskInv(h)'
  <2> HIDE DEF m
  <2>1. Owns(h) => ptr[h] \in Messages /\ ptr[h] # m
    BY <1>2, <1>9 DEF UploadInv, MessageInOnePlace
  <2>2. Owns(h) => holds'[ptr[h]] = holds[ptr[h]]
    BY <1>3, <2>1 DEF UploadInv, UploadTypes
  <2> QED BY <1>6, <1>9, <2>2, TaskKept DEF UploadInv
<1>10. TaskInv(g)'
  <2>1. pc'[g] \in LaterLabels => req'[g].project \in Projects
    BY <1>5 DEF Later, GoesTo, Ends, UploadInv, TaskInv, LaterLabels, Owns
  <2> QED BY <2>1 DEF TaskInv, Owns
<1> QED
  BY <1>1, <1>4, <1>8, <1>9, <1>10 DEF UploadInv

LEMMA PartingActions ==
    ASSUME UploadInv, NEW g \in Goroutines,
           SubmitRefused(g) \/ SubmitFails(g) \/ SubmitPanics(g) \/ EndDispatch(g)
    PROVE  UploadInv'
<1>1. pc \in [Goroutines -> Labels] /\ step \in [Goroutines -> Nat] /\ TaskInv(g)
  BY DEF UploadInv, AuthInv, AuthTypes, UploadTypes
<1>2. CASE SubmitRefused(g)
  <2>1. Later(g) /\ Owns(g) /\ ~Owns(g)'
    BY <1>1, <1>2 DEF SubmitRefused, Later, LaterLabels, Ends, Owns
  <2>2. step'[g] = 0
    BY <1>1, <1>2 DEF SubmitRefused, TaskInv
  <2> QED BY <1>2, <2>1, <2>2, PartStep DEF SubmitRefused
<1>3. CASE SubmitFails(g)
  <2>1. Later(g) /\ Owns(g) /\ ~Owns(g)' /\ pc'[g] = "log"
    BY <1>1, <1>3 DEF SubmitFails, Copying, Later, LaterLabels, GoesTo, Owns
  <2> QED BY <1>3, <2>1, PartStep DEF SubmitFails, taskVars
<1>4. CASE SubmitPanics(g)
  <2>1. Later(g) /\ Owns(g) /\ ~Owns(g)' /\ pc'[g] = "log"
    BY <1>1, <1>4 DEF SubmitPanics, Copying, Later, LaterLabels, GoesTo, Owns
  <2> QED BY <1>4, <2>1, PartStep DEF SubmitPanics, taskVars
<1>5. CASE EndDispatch(g)
  <2>1. Later(g) /\ Owns(g) /\ ~Owns(g)'
    BY <1>1, <1>5 DEF EndDispatch, TaskEnds, Later, LaterLabels, Ends, Owns
  <2>2. step'[g] = 0
    BY <1>1, <1>5 DEF EndDispatch, TaskEnds
  <2> QED BY <1>5, <2>1, <2>2, PartStep DEF EndDispatch, TaskEnds
<1> QED
  BY <1>2, <1>3, <1>4, <1>5

LEMMA StartStep ==
    ASSUME UploadInv, NEW g \in Goroutines, StartDispatch(g) PROVE UploadInv'
<1> DEFINE p == req[g].project
           c == ChainNow(p)
<1>1. pc \in [Goroutines -> Labels] /\ pc[g] = "queued" /\ p \in Projects /\ step[g] = 0
      /\ config \in Versions
  BY DEF UploadInv, AuthInv, AuthTypes, StartDispatch, TaskInv, LaterLabels
<1>2. Later(g)
  BY <1>1 DEF StartDispatch, Later, LaterLabels
<1>3. CASE HasPools(p)
  <2>1. /\ pc' = [pc EXCEPT ![g] = "dispatch"] /\ chain' = [chain EXCEPT ![g] = c]
        /\ UNCHANGED <<pooled, holds, req, start, inSink, lost, ptr, step>>
    BY <1>3 DEF StartDispatch, GoesTo
  <2>2. c \in Seq(Made)
    <3> HIDE DEF p
    <3>1. ProjectOf[config] \in [Projects -> [enabled : BOOLEAN, authRequired : BOOLEAN,
                                              maxBody : Int, pipelines : Seq(Refs)]]
      BY <1>1, UploadAssumption
    <3>2. ProjectOf[config][p].pipelines \in Seq(Refs)
      BY <1>1, <3>1
    <3> QED BY <3>2, ChainMakes, EmptyChain DEF ChainNow, ChainOf
  <2> HIDE DEF c
  <2>3. AuthInv' /\ UploadTypes'
    BY <1>2, <2>1, <2>2, LaterStep DEF UploadInv, UploadTypes
  <2>4. ASSUME NEW h \in Goroutines PROVE Owns(h)' = Owns(h)
    <3>1. pc'[h] = pc[h] \/ (pc[h] = "queued" /\ pc'[h] = "dispatch")
      BY <1>1, <2>1
    <3> QED BY <3>1 DEF Owns
  <2>5. MessageInOnePlace'
    BY <2>1, <2>4, PlacesKept
  <2>6. ASSUME NEW h \in Goroutines, h # g PROVE TaskInv(h)'
    BY <1>1, <2>1, <2>6, TaskKept DEF UploadInv, UploadTypes
  <2>7. TaskInv(g)'
    <3>1. chain'[g] = c /\ Len(c) \in Nat /\ step'[g] = 0
      BY <1>1, <2>1, <2>2 DEF UploadInv, UploadTypes
    <3>2. Upto(g)' = 0
      <4>1. 0 < Len(c) \/ Len(c) = 0
        <5>1. \A k \in Nat : 0 < k \/ k = 0
          OBVIOUS
        <5> QED BY <3>1, <5>1, Zenon
      <4> QED BY <3>1, <4>1, Zenon DEF Upto
    <3>3. 1 .. 0 = {}
      OBVIOUS
    <3>4. MaskedSoFar(g)'
      BY <3>2, <3>3, Zenon DEF MaskedSoFar, Redacts
    <3>5. req[g] \in Requests /\ AsExpected(g) /\ Upto(g) = 0
      BY <1>1, UptoNone DEF UploadInv, TaskInv, Owns
    <3>6. req[g].data \in Data
      BY <3>5, UploadAssumption
    <3>7. /\ Expected(chain[g], 0, req[g].data) = req[g].data
          /\ Expected(c, 0, req[g].data) = req[g].data
          /\ \A f \in Fields : Known(c, 0, req[g].data, f)
      BY <3>6, ExpectedNone
    <3>8. AsExpected(g)'
      BY <2>1, <3>1, <3>2, <3>5, <3>7 DEF AsExpected
    <3> QED BY <1>1, <2>1, <3>4, <3>5, <3>8 DEF TaskInv
  <2> QED BY <2>3, <2>5, <2>6, <2>7 DEF UploadInv
<1>4. CASE ~HasPools(p)
  <2>1. Owns(g) /\ ~Owns(g)' /\ pc'[g] = "log"
    BY <1>1, <1>4 DEF StartDispatch, GoesTo, Owns
  <2> QED BY <1>2, <1>4, <2>1, PartStep DEF StartDispatch
<1> QED
  BY <1>3, <1>4

LEMMA ProcessorStep ==
    ASSUME UploadInv, NEW g \in Goroutines, RunProcessor(g) PROVE UploadInv'
<1> DEFINE m   == ptr[g]
           c   == chain[g]
           n   == step[g]
           out == Process(c[n + 1], holds[m].data)
<1>1. /\ pc \in [Goroutines -> Labels] /\ pc[g] = "dispatch" /\ Owns(g) /\ n < Len(c)
      /\ c \in Seq(Made) /\ n \in Nat
  BY DEF UploadInv, AuthInv, AuthTypes, UploadTypes, RunProcessor, Owns
<1>2. m \in Messages /\ holds[m].data \in Results /\ c[n + 1] \in Made
  <2>1. m \in Messages
    BY <1>1 DEF UploadInv, MessageInOnePlace
  <2>2. holds[m].data \in Results
    BY <2>1 DEF UploadInv, UploadTypes
  <2>3. c[n + 1] \in Made
    <3> HIDE DEF c, n
    <3> QED BY <1>1
  <2> QED BY <2>1, <2>2, <2>3
<1>3. out \in Results
  BY <1>2, ProcessType
<1>4. CASE out.kind \notin {"error", "panic"}
  <2>1. /\ holds' = [holds EXCEPT ![m].data = out] /\ step' = [step EXCEPT ![g] = n + 1]
        /\ UNCHANGED <<authVars, start, pooled, inSink, lost, ptr, chain>>
    BY <1>4 DEF RunProcessor, authVars, reqVars
  <2>2. pc' = pc /\ req' = req
    BY <2>1 DEF authVars, reqVars
  <2>3. AuthInv'
    BY <2>1, AuthStep DEF UploadInv
  <2> HIDE DEF out
  <2>4. UploadTypes'
    <3> USE DEF UploadInv, UploadTypes
    <3>1. holds' \in [Messages -> [req : Goroutines \cup {None}, data : Results]]
      BY <1>2, <1>3, <2>1
    <3>2. step' \in [Goroutines -> Nat]
      BY <1>1, <2>1
    <3> QED BY <2>1, <3>1, <3>2
  <2>5. ASSUME NEW h \in Goroutines PROVE Owns(h)' = Owns(h)
    BY <2>2 DEF Owns
  <2>6. MessageInOnePlace'
    BY <2>1, <2>5 DEF UploadInv, MessageInOnePlace
  <2>7. ASSUME NEW h \in Goroutines, h # g PROVE TaskInv(h)'
    <3>1. Owns(h) => ptr[h] # m /\ ptr[h] \in Messages
      BY <1>1, <2>7 DEF UploadInv, MessageInOnePlace
    <3>2. Owns(h) => holds'[ptr[h]] = holds[ptr[h]]
      BY <2>1, <3>1 DEF UploadInv, UploadTypes
    <3> QED BY <2>1, <2>2, <2>7, <3>2, TaskKept DEF UploadInv, UploadTypes
  <2>8. MaskedSoFar(g)'
    <3>1. /\ chain'[g] = c /\ ptr'[g] = m /\ step'[g] = n + 1 /\ Upto(g)' = n + 1 /\ Upto(g) = n
          /\ holds'[m].data = out
      BY <1>1, <1>2, <2>1 DEF UploadInv, UploadTypes, Upto
    <3> SUFFICES ASSUME NEW f \in Fields, Redacts(c, n + 1, f)
                 PROVE  Hides(out, f) \/ (Passes(req[g].data) /\ out = req[g].data)
      BY <2>2, <3>1 DEF MaskedSoFar, Untouched
    <3>2. ~Adds(c[n + 1], f) /\ (Masks(c[n + 1], f) \/ Redacts(c, n, f))
      BY <1>1, RedactsOneMore
    <3>3. Redacts(c, n, f) => Hides(holds[m].data, f) \/ Untouched(g)
      BY <1>1, <3>1 DEF UploadInv, TaskInv, MaskedSoFar
    <3>4. Untouched(g) => holds[m].data = req[g].data /\ Passes(holds[m].data)
      BY DEF Untouched
    <3>5. CASE Masks(c[n + 1], f) \/ Hides(holds[m].data, f) \/ Passes(holds[m].data)
      <4>1. Hides(out, f) \/ (Passes(holds[m].data) /\ out = holds[m].data)
        BY <1>2, <3>2, <3>5, ProcessHides DEF out
      <4>2. AsExpected(g)
        BY <1>1 DEF UploadInv, TaskInv
      <4>3. /\ holds[m].data = Expected(c, n, req[g].data)
            /\ \A x \in Fields : Known(c, n, req[g].data, x)
        <5>1. /\ holds[m] = [req |-> g, data |-> Expected(c, n, req[g].data)]
              /\ \A x \in Fields : Known(c, n, req[g].data, x)
          BY <3>1, <4>2, Zenon DEF AsExpected
        <5> QED BY <5>1, DataOf, Zenon
      <4>4. Passes(holds[m].data) => holds[m].data = req[g].data
        BY <1>1, <1>2, <4>3, ExpectedPasses
      <4> QED BY <4>1, <4>4
    <3> QED BY <3>2, <3>3, <3>4, <3>5
  <2>9. AsExpected(g)'
    <3> DEFINE d == req[g].data
    <3>1. /\ chain'[g] = c /\ ptr'[g] = m /\ Upto(g)' = n + 1 /\ Upto(g) = n
          /\ holds'[m] = [holds[m] EXCEPT !.data = out]
      BY <1>1, <1>2, <2>1 DEF UploadInv, UploadTypes, Upto
    <3>2. req[g] \in Requests /\ AsExpected(g)
      BY <1>1 DEF UploadInv, TaskInv
    <3>3. d \in Data
      BY <3>2, UploadAssumption
    <3>4. holds[m] = [req |-> g, data |-> Expected(c, n, d)] /\ \A f \in Fields : Known(c, n, d, f)
      BY <3>1, <3>2 DEF AsExpected
    <3>5. out = Process(c[n + 1], Expected(c, n, d))
      <4>1. holds[m].data = Expected(c, n, d)
        <5> HIDE DEF m, c, n, d
        <5>1. holds[m] = [req |-> g, data |-> Expected(c, n, d)]
          BY <3>4
        <5> QED BY <5>1, DataOf, Zenon
      <4> QED BY <4>1, Zenon DEF out
    <3>6. out = Expected(c, n + 1, d) /\ \A f \in Fields : Known(c, n + 1, d, f)
      <4> HIDE DEF c, n, d
      <4> QED BY <1>1, <1>2, <1>4, <3>3, <3>4, <3>5, ExpectedOneMore
    <3>7. holds'[m] = [req |-> g, data |-> out]
      BY <3>1, <3>4
    <3> QED BY <2>2, <3>1, <3>6, <3>7 DEF AsExpected
  <2>10. TaskInv(g)'
    BY <1>1, <2>2, <2>8, <2>9 DEF UploadInv, TaskInv
  <2> QED BY <2>3, <2>4, <2>6, <2>7, <2>10 DEF UploadInv
<1>5. CASE out.kind \in {"error", "panic"}
  <2>1. Later(g) /\ ~Owns(g)' /\ pc'[g] = "log"
    BY <1>1, <1>5 DEF RunProcessor, Later, LaterLabels, GoesTo, Owns
  <2> QED BY <1>1, <1>5, <2>1, PartStep DEF RunProcessor
<1> QED
  BY <1>4, <1>5

LEMMA LogStep ==
    ASSUME UploadInv, NEW g \in Goroutines, LogFailure(g) PROVE UploadInv'
<1>1. /\ pc \in [Goroutines -> Labels] /\ req \in [Goroutines -> Requests \cup {None}]
      /\ pc[g] = "log" /\ pc' = [pc EXCEPT ![g] = "idle"] /\ req' = [req EXCEPT ![g] = None]
      /\ ptr' = [ptr EXCEPT ![g] = None] /\ chain' = [chain EXCEPT ![g] = <<>>]
      /\ step' = [step EXCEPT ![g] = 0] /\ UNCHANGED <<start, pooled, holds, inSink, lost>>
  BY DEF UploadInv, AuthInv, AuthTypes, LogFailure, TaskEnds, Ends, msgVars
<1>2. Later(g)
  BY DEF LogFailure, TaskEnds, Later, LaterLabels
<1>3. AuthInv'
  BY <1>2, LaterStep DEF UploadInv
<1>4. UploadTypes'
  BY <1>1 DEF UploadInv, UploadTypes
<1>5. ASSUME NEW h \in Goroutines PROVE Owns(h)' = Owns(h) /\ (h # g => ptr'[h] = ptr[h])
  BY <1>1 DEF Owns, UploadInv, UploadTypes
<1>6. ~Owns(g)
  BY <1>1 DEF Owns
<1>7. MessageInOnePlace'
  BY <1>1, <1>5, <1>6, PlacesKept
<1>8. ASSUME NEW h \in Goroutines, h # g PROVE TaskInv(h)'
  BY <1>1, <1>8, TaskKept DEF UploadInv, UploadTypes
<1>9. TaskInv(g)'
  BY <1>1 DEF TaskInv, LaterLabels, Owns, UploadInv, UploadTypes
<1> QED
  BY <1>3, <1>4, <1>7, <1>8, <1>9 DEF UploadInv

\* A copy in its own message goes to a sink pool.
LEMMA CopyStep ==
    ASSUME UploadInv, NEW g \in Goroutines, SubmitCopy(g) PROVE UploadInv'
<1> DEFINE c == chain[g]
           n == step[g]
<1>1. PICK m \in Messages : copyMessage(g, m) /\ inSink' = [inSink EXCEPT ![m] = g]
  BY DEF SubmitCopy
<1>2. /\ pc[g] = "dispatch" /\ n \in Nat /\ c \in Seq(Made) /\ Len(c) \in Nat /\ n >= Len(c)
      /\ step' = [step EXCEPT ![g] = n + 1]
      /\ UNCHANGED <<authVars, start, lost, ptr, chain>>
  <2>1. n \in Nat /\ c \in Seq(Made) /\ Len(c) \in Nat
    BY DEF UploadInv, UploadTypes
  <2>2. n \in Len(c) .. Len(c) + NPools - 1
    BY DEF SubmitCopy, Copying
  <2>3. n >= Len(c)
    <3> HIDE DEF n, c
    <3> QED BY <2>1, <2>2, UploadAssumption
  <2> QED BY <2>1, <2>3 DEF SubmitCopy, Copying
<1>3. /\ pooled[m] = 1 /\ pooled' = [pooled EXCEPT ![m] = 0]
      /\ holds' = [holds EXCEPT ![m] = holds[ptr[g]]]
  BY <1>1, Acquired DEF copyMessage
<1>4. pc' = pc /\ req' = req
  BY <1>2 DEF authVars, reqVars
<1>5. \A h \in Goroutines : Owns(h) => ptr[h] \in Messages /\ ptr[h] # m
  BY <1>3 DEF UploadInv, MessageInOnePlace
<1>6. AuthInv'
  BY <1>2, AuthStep DEF UploadInv
<1>7. UploadTypes'
  <2> USE DEF UploadInv, UploadTypes
  <2>1. holds' \in [Messages -> [req : Goroutines \cup {None}, data : Results]]
    BY <1>2, <1>3, <1>5 DEF Owns
  <2>2. step' \in [Goroutines -> Nat]
    BY <1>2
  <2>3. pooled' \in [Messages -> Nat] /\ inSink' \in [Messages -> Goroutines \cup {None}]
    BY <1>1, <1>3
  <2> QED BY <1>2, <2>1, <2>2, <2>3
<1>8. ASSUME NEW h \in Goroutines PROVE Owns(h)' = Owns(h)
  BY <1>4 DEF Owns
<1>9. MessageInOnePlace'
  <2>1. /\ lost \subseteq Messages /\ lost' = lost /\ ptr' = ptr
        /\ pooled'[m] = 0 /\ \A k \in Messages \ {m} : pooled'[k] = pooled[k]
        /\ inSink'[m] = g /\ \A k \in Messages \ {m} : inSink'[k] = inSink[k]
    BY <1>1, <1>2, <1>3 DEF UploadInv, UploadTypes
  <2>2. g # None
    BY UploadAssumption
  <2>3. m \notin lost
    BY <1>3 DEF UploadInv, MessageInOnePlace
  <2> QED BY <1>5, <1>8, <2>1, <2>2, <2>3, OneMoves
<1>10. ASSUME NEW h \in Goroutines PROVE Owns(h) => holds'[ptr[h]] = holds[ptr[h]]
  BY <1>3, <1>5 DEF UploadInv, UploadTypes
<1>11. ASSUME NEW h \in Goroutines, h # g PROVE TaskInv(h)'
  BY <1>2, <1>4, <1>10, <1>11, TaskKept DEF UploadInv, UploadTypes
<1>12. TaskInv(g)'
  <2>1. Upto(g) = Len(c) /\ Upto(g)' = Len(c) /\ chain'[g] = c /\ ptr'[g] = ptr[g]
    BY <1>2 DEF Upto, UploadInv, UploadTypes
  <2>2. holds'[ptr[g]] = holds[ptr[g]]
    BY <1>2, <1>10 DEF Owns
  <2>3. MaskedSoFar(g)' = MaskedSoFar(g)
    BY <1>4, <2>1, <2>2 DEF MaskedSoFar, Untouched
  <2>4. AsExpected(g)' = AsExpected(g)
    BY <1>4, <2>1, <2>2 DEF AsExpected
  <2> QED BY <1>2, <1>4, <1>8, <2>3, <2>4 DEF UploadInv, TaskInv
<1> QED
  BY <1>6, <1>7, <1>9, <1>11, <1>12 DEF UploadInv

\* A sink pool releases a copy, or a lost message is collected.
LEMMA ReturnStep ==
    ASSUME UploadInv, NEW m \in Messages, SinkReleases(m) \/ Collect(m) PROVE UploadInv'
<1>1. /\ pooled[m] = 0 /\ \A h \in Goroutines : Owns(h) => ptr[h] \in Messages /\ ptr[h] # m
      /\ ReleaseMessage(m) /\ UNCHANGED <<authVars, start, ptr, chain, step>>
  BY DEF UploadInv, MessageInOnePlace, SinkReleases, Collect, taskVars
<1>2. pooled' = [pooled EXCEPT ![m] = 1] /\ holds' = [holds EXCEPT ![m] = Blank]
  BY <1>1, Released
<1>3. pc' = pc /\ req' = req
  BY <1>1 DEF authVars, reqVars
<1>4. AuthInv'
  BY <1>1, AuthStep DEF UploadInv
<1>5. /\ inSink' \in [Messages -> Goroutines \cup {None}] /\ lost' \subseteq Messages
      /\ inSink'[m] = None /\ m \notin lost'
      /\ \A k \in Messages \ {m} : inSink'[k] = inSink[k] /\ (k \in lost' <=> k \in lost)
  <2>1. CASE SinkReleases(m)
    <3>1. inSink[m] # None /\ inSink' = [inSink EXCEPT ![m] = None] /\ lost' = lost
      BY <2>1 DEF SinkReleases
    <3>2. m \notin lost
      BY <3>1 DEF UploadInv, MessageInOnePlace
    <3> QED BY <3>1, <3>2 DEF UploadInv, UploadTypes
  <2>2. CASE Collect(m)
    <3>1. m \in lost /\ lost' = lost \ {m} /\ inSink' = inSink
      BY <2>2 DEF Collect
    <3>2. inSink[m] = None
      BY <3>1 DEF UploadInv, MessageInOnePlace
    <3> QED BY <3>1, <3>2 DEF UploadInv, UploadTypes
  <2> QED BY <2>1, <2>2
<1>6. UploadTypes'
  <2> USE DEF UploadInv, UploadTypes
  <2>1. pooled' \in [Messages -> Nat]
    BY <1>2
  <2>2. holds' \in [Messages -> [req : Goroutines \cup {None}, data : Results]]
    BY <1>2, BlankType
  <2> QED BY <1>1, <1>5, <2>1, <2>2
<1>7. ASSUME NEW h \in Goroutines PROVE Owns(h)' = Owns(h)
  BY <1>3 DEF Owns
<1>8. MessageInOnePlace'
  <2>1. /\ ptr' = ptr
        /\ pooled'[m] = 1 /\ \A k \in Messages \ {m} : pooled'[k] = pooled[k]
    BY <1>1, <1>2 DEF UploadInv, UploadTypes
  <2> QED BY <1>1, <1>5, <1>7, <2>1, OneMoves
<1>9. ASSUME NEW h \in Goroutines PROVE TaskInv(h)'
  <2>1. Owns(h) => holds'[ptr[h]] = holds[ptr[h]]
    BY <1>1, <1>2 DEF UploadInv, UploadTypes
  <2> QED BY <1>1, <1>3, <2>1, TaskKept DEF UploadInv
<1> QED
  BY <1>4, <1>6, <1>8, <1>9 DEF UploadInv

LEMMA UploadPreserves == UploadInv /\ [Next]_vars => UploadInv'
<1> SUFFICES ASSUME UploadInv, [Next]_vars PROVE UploadInv'
  OBVIOUS
<1>1. CASE (AuthNext /\ UNCHANGED uploadVars) \/ UNCHANGED vars
  BY <1>1, AuthPreserves DEF vars
<1>2. ASSUME NEW g \in Goroutines, UploadStep(g) PROVE UploadInv'
  BY <1>2, QuietStep, HandleStep, PartingActions, StartStep, ProcessorStep, CopyStep, LogStep
     DEF UploadStep
<1>3. ASSUME NEW m \in Messages, SinkReleases(m) \/ Collect(m) PROVE UploadInv'
  BY <1>3, ReturnStep
<1> QED
  BY <1>1, <1>2, <1>3 DEF Next

-----------------------------------------------------------------------------
(* The configurations a request has met *)

\* Until Dispatch starts, the current configuration is among them; the chain of
\* a task is that of one of them.
SinceInv ==
    /\ since \in [Goroutines -> SUBSET Versions]
    /\ \A g \in Goroutines :
          /\ pc[g] = "queued" => config \in since[g]
          /\ pc[g] = "dispatch" => \E v \in since[g] : chain[g] = ChainOf(v, req[g].project)

\* A task that is in Dispatch has just started it, or goes on with the same chain.
LEMMA WhoDispatches ==
    ASSUME UploadInv, [Next]_vars, NEW h \in Goroutines, pc'[h] = "dispatch"
    PROVE  \/ pc[h] = "dispatch" /\ chain'[h] = chain[h] /\ req'[h] = req[h]
           \/ /\ pc[h] = "queued" /\ req'[h] = req[h]
              /\ chain'[h] = ChainOf(config, req[h].project)
<1> DEFINE Goal == \/ pc[h] = "dispatch" /\ chain'[h] = chain[h] /\ req'[h] = req[h]
                   \/ /\ pc[h] = "queued" /\ req'[h] = req[h]
                      /\ chain'[h] = ChainOf(config, req[h].project)
<1>1. /\ pc \in [Goroutines -> Labels] /\ req \in [Goroutines -> Requests \cup {None}]
      /\ chain \in [Goroutines -> Seq(Made)]
  BY DEF UploadInv, AuthInv, AuthTypes, UploadTypes
<1>2. CASE (AuthNext /\ UNCHANGED uploadVars) \/ UNCHANGED vars
  <2>1. [AuthNext]_authVars /\ chain' = chain
    BY <1>2 DEF vars, uploadVars, taskVars
  <2>2. pc'[h] = pc[h] /\ req'[h] = req[h]
    BY <2>1, AuthMoves DEF UploadInv, LaterLabels
  <2> QED BY <2>1, <2>2
<1>3. ASSUME NEW m \in Messages, SinkReleases(m) \/ Collect(m) PROVE Goal
  BY <1>3 DEF SinkReleases, Collect, authVars, reqVars, taskVars
<1>4. ASSUME NEW g \in Goroutines, UploadStep(g) PROVE Goal
  <2>1. CASE ResolveProject(g) \/ LimitProject(g) \/ SubmitTask(g)
    BY <1>1, <2>1 DEF ResolveProject, LimitProject, SubmitTask, GoesTo, Ends, uploadVars, taskVars
  <2>2. CASE HandleUpload(g) \/ SubmitRefused(g)
    BY <1>1, <2>2 DEF HandleUpload, SubmitRefused, GoesTo, Ends
  <2>3. CASE StartDispatch(g)
    BY <1>1, <2>3 DEF StartDispatch, ChainNow, GoesTo
  <2>4. CASE RunProcessor(g)
    BY <1>1, <2>4 DEF RunProcessor, GoesTo
  <2>5. CASE SubmitCopy(g)
    BY <2>5 DEF SubmitCopy, authVars, reqVars
  <2>6. CASE SubmitFails(g) \/ SubmitPanics(g)
    BY <1>1, <2>6 DEF SubmitFails, SubmitPanics, GoesTo, taskVars
  <2>7. CASE EndDispatch(g) \/ LogFailure(g)
    BY <1>1, <2>7 DEF EndDispatch, LogFailure, TaskEnds, Ends
  <2> QED BY <1>4, <2>1, <2>2, <2>3, <2>4, <2>5, <2>6, <2>7 DEF UploadStep
<1> QED
  BY <1>2, <1>3, <1>4 DEF Next

LEMMA SincePreserves == UploadInv /\ UploadInv' /\ SinceInv /\ [Next]_vars => SinceInv'
<1> SUFFICES ASSUME UploadInv, UploadInv', SinceInv, [Next]_vars PROVE SinceInv'
  OBVIOUS
<1>1. CASE UNCHANGED vars
  BY <1>1 DEF SinceInv, vars, authVars, reqVars, uploadVars, taskVars
<1>2. CASE Watch
  <2>1. config' \in Versions
    BY DEF UploadInv, AuthInv, AuthTypes
  <2>2. since' \in [Goroutines -> SUBSET Versions]
    BY <1>2, <2>1 DEF SinceInv, Watch
  <2>3. ASSUME NEW h \in Goroutines, pc'[h] = "queued" PROVE config' \in since'[h]
    BY <1>2, <2>3 DEF Watch
  <2>4. ASSUME NEW h \in Goroutines, pc'[h] = "dispatch"
        PROVE  \E v \in since'[h] : chain'[h] = ChainOf(v, req'[h].project)
    <3>1. since'[h] = since[h]
      BY <1>2, <2>4 DEF Watch
    <3>2. \E v \in since[h] : chain'[h] = ChainOf(v, req[h].project) /\ req'[h] = req[h]
      BY <2>4, WhoDispatches DEF SinceInv
    <3> QED BY <3>1, <3>2
  <2> QED BY <2>2, <2>3, <2>4 DEF SinceInv
<1> QED
  BY <1>1, <1>2 DEF Next

-----------------------------------------------------------------------------
(* Theorems *)

\* UploadInv is an invariant: types, places of messages, masks, nonces.
THEOREM UploadInvariant == Spec => []UploadInv
<1> QED
  BY UploadStart, UploadPreserves, PTL DEF Spec

\* A task runs the whole chain of one configuration that was current after the
\* project was resolved, however many reloads it has waited through.
THEOREM ChainIsOfOne == Spec => []SinceInv
<1>1. Init => SinceInv
  BY DEF Init, AuthInit, SinceInv
<1> QED
  BY <1>1, SincePreserves, UploadInvariant, PTL DEF Spec

\* The variables have their types, and a message is never twice in the pool.
THEOREM UploadTypeOK == Spec => []TypeOK
<1>1. UploadInv /\ SinceInv => TypeOK
  <2> SUFFICES ASSUME UploadInv, SinceInv PROVE TypeOK
    OBVIOUS
  <2>1. pooled \in [Messages -> 0 .. 1]
    BY DEF UploadInv, UploadTypes, MessageInOnePlace
  <2>2. chain \in [Goroutines -> Seq(Processors)]
    <3>1. Made \subseteq Processors
      BY DEF Made
    <3>2. Seq(Made) \subseteq Seq(Processors)
      BY <3>1
    <3> QED BY <3>2 DEF UploadInv, UploadTypes
  <2>3. AuthTypes /\ UploadTypes
    BY DEF UploadInv, AuthInv
  <2> QED BY <2>1, <2>2, <2>3 DEF SinceInv, TypeOK, AuthTypes, Labels, LaterLabels, UploadTypes
<1> QED
  BY <1>1, UploadInvariant, ChainIsOfOne, PTL

\* On every path of UploadHandler, its task and Dispatch, a message is in one
\* place: no double release, no use after release, no leak but by a failing
\* processor or a panic.
THEOREM OnePlace == Spec => []MessageInOnePlace
<1>1. UploadInv => MessageInOnePlace
  BY DEF UploadInv
<1> QED
  BY <1>1, UploadInvariant, PTL

\* Only SubmitCopy hands a copy to a sink pool.
LEMMA WhoHands ==
    ASSUME UploadInv, [Next]_vars, NEW g \in Goroutines, NEW m \in Messages, Handed(g, m)
    PROVE  SubmitCopy(g) /\ copyMessage(g, m)
<1> USE DEF Handed
<1>1. g # None /\ inSink \in [Messages -> Goroutines \cup {None}] /\ inSink' # inSink
  BY UploadAssumption DEF UploadInv, UploadTypes
<1>2. ~UNCHANGED vars /\ ~UNCHANGED uploadVars
  BY <1>1 DEF vars, uploadVars, msgVars
<1>3. ASSUME NEW k \in Messages, SinkReleases(k) \/ Collect(k) PROVE FALSE
  BY <1>1, <1>3 DEF SinkReleases, Collect
<1>4. ASSUME NEW h \in Goroutines, UploadStep(h) PROVE SubmitCopy(h)
  BY <1>1, <1>2, <1>4 DEF UploadStep, ResolveProject, LimitProject, HandleUpload, SubmitTask,
     SubmitRefused, StartDispatch, RunProcessor, SubmitFails, SubmitPanics, EndDispatch,
     LogFailure, msgVars
<1>5. PICK h \in Goroutines : SubmitCopy(h)
  BY <1>2, <1>3, <1>4 DEF Next
<1>6. PICK k \in Messages : copyMessage(h, k) /\ inSink' = [inSink EXCEPT ![k] = h]
  BY <1>5 DEF SubmitCopy
<1>7. k = m /\ h = g
  BY <1>1, <1>6
<1> QED
  BY <1>5, <1>6, <1>7

\* The copies are made when all the processors have run.
LEMMA UptoAll ==
    ASSUME UploadInv, NEW g \in Goroutines, Copying(g) PROVE Upto(g) = Len(chain[g])
<1> DEFINE k == step[g]
           l == Len(chain[g])
<1>1. k \in Nat /\ chain[g] \in Seq(Made)
  BY DEF UploadInv, UploadTypes
<1>2. l \in Nat
  BY <1>1
<1>3. NPools \in Nat
  BY UploadAssumption
<1>4. k \in l .. l + NPools - 1
  BY DEF Copying
<1>5. Upto(g) = IF k < l THEN k ELSE l
  BY DEF Upto
<1> HIDE DEF k, l
<1>6. ~(k < l)
  BY <1>1, <1>2, <1>3, <1>4
<1>7. Upto(g) = l
  BY <1>5, <1>6
<1> QED
  BY <1>7 DEF l

\* The task of g hands out its message as it is after the last processor of the
\* chain of one configuration.
LEMMA WhatIsHanded ==
    ASSUME UploadInv, SinceInv, [Next]_vars, NEW g \in Goroutines, NEW m \in Messages, Handed(g, m)
    PROVE  \E v \in since[g] :
               /\ chain[g] = ChainOf(v, req[g].project) /\ Upto(g) = Len(chain[g])
               /\ holds'[m] = holds[ptr[g]] /\ MaskedSoFar(g) /\ AsExpected(g)
<1>1. SubmitCopy(g) /\ copyMessage(g, m)
  BY WhoHands
<1>2. holds' = [holds EXCEPT ![m] = holds[ptr[g]]]
  BY <1>1, Acquired DEF copyMessage
<1>3. holds'[m] = holds[ptr[g]]
  BY <1>2 DEF UploadInv, UploadTypes
<1>4. pc[g] = "dispatch" /\ MaskedSoFar(g) /\ AsExpected(g)
  BY <1>1 DEF SubmitCopy, Copying, Owns, UploadInv, TaskInv
<1>5. Upto(g) = Len(chain[g])
  BY <1>1, UptoAll DEF SubmitCopy
<1>6. PICK v \in since[g] : chain[g] = ChainOf(v, req[g].project)
  BY <1>4 DEF SinceInv
<1> QED
  BY <1>3, <1>4, <1>5, <1>6

\* A field that the configurations of a request redact reaches no sink, however
\* the chains are put together and whichever reload comes in between, unless no
\* processor could read the object.
THEOREM Redaction == Spec => RedactedStaysMasked
<1>1. ASSUME UploadInv, SinceInv, [Next]_vars,
             NEW g \in Goroutines, NEW m \in Messages, NEW f \in Fields,
             Handed(g, m), AllRedact(g, f)
      PROVE  \/ Hides(holds'[m].data, f)
             \/ holds'[m].data = req[g].data /\ ~Decodes(req[g].data)
  <2>1. PICK v \in since[g] :
               /\ chain[g] = ChainOf(v, req[g].project) /\ Upto(g) = Len(chain[g])
               /\ holds'[m] = holds[ptr[g]] /\ MaskedSoFar(g)
    BY <1>1, WhatIsHanded
  <2>2. Redacts(chain[g], Upto(g), f)
    BY <1>1, <2>1 DEF AllRedact
  <2>3. Hides(holds[ptr[g]].data, f) \/ Untouched(g)
    BY <2>1, <2>2 DEF MaskedSoFar
  <2> QED BY <2>1, <2>3 DEF Untouched, Passes
<1>2. UploadInv /\ SinceInv /\ [Next]_vars =>
          [\A g \in Goroutines, m \in Messages, f \in Fields :
              Handed(g, m) /\ AllRedact(g, f) =>
                  \/ Hides(holds'[m].data, f)
                  \/ holds'[m].data = req[g].data /\ ~Decodes(req[g].data)]_vars
  BY <1>1
<1> QED
  BY <1>2, UploadInvariant, ChainIsOfOne, PTL DEF Spec, RedactedStaysMasked

\* What a step does to a message that a sink pool has and keeps: nothing.
LEMMA CopyUntouched ==
    ASSUME UploadInv, [Next]_vars, NEW m \in Messages, inSink[m] # None, inSink'[m] # None
    PROVE  holds'[m] = holds[m]
<1>1. /\ pooled[m] = 0 /\ m \notin lost /\ \A h \in Goroutines : Owns(h) => ptr[h] # m
      /\ holds \in [Messages -> [req : Goroutines \cup {None}, data : Results]]
      /\ inSink \in [Messages -> Goroutines \cup {None}]
  BY DEF UploadInv, UploadTypes, MessageInOnePlace
<1>2. CASE UNCHANGED vars \/ UNCHANGED uploadVars
  BY <1>2 DEF vars, uploadVars, msgVars
<1>3. ASSUME NEW k, k # m, \/ ReleaseMessage(k) \/ \E c : AcquireMessage(k, c)
                           \/ \E x : holds' = [holds EXCEPT ![k].data = x]
      PROVE  holds'[m] = holds[m]
  BY <1>1, <1>3 DEF ReleaseMessage, AcquireMessage
<1>4. ASSUME NEW k \in Messages, SinkReleases(k) \/ Collect(k) PROVE holds'[m] = holds[m]
  <2>1. k # m
    BY <1>1, <1>4 DEF SinkReleases, Collect
  <2> QED BY <1>3, <1>4, <2>1 DEF SinkReleases, Collect
<1>5. ASSUME NEW k, NEW c, AcquireMessage(k, c) PROVE k # m
  <2>1. pooled[k] > 0
    BY <1>5 DEF AcquireMessage
  <2>2. ~(pooled[m] > 0)
    <3>1. pooled[m] = 0
      BY <1>1, Zenon
    <3> QED BY <3>1
  <2> QED BY <2>1, <2>2, Zenon
<1>6. ASSUME NEW g \in Goroutines, UploadStep(g) PROVE holds'[m] = holds[m]
  <2>1. CASE ResolveProject(g) \/ LimitProject(g) \/ SubmitTask(g) \/ SubmitPanics(g) \/ LogFailure(g)
    BY <2>1 DEF ResolveProject, LimitProject, SubmitTask, SubmitPanics, LogFailure, uploadVars, msgVars
  <2>2. CASE HandleUpload(g)
    BY <1>3, <1>5, <2>2 DEF HandleUpload
  <2>3. CASE SubmitCopy(g)
    BY <1>3, <1>5, <2>3 DEF SubmitCopy, copyMessage
  <2>4. CASE SubmitRefused(g) \/ SubmitFails(g) \/ EndDispatch(g)
    <3>1. ptr[g] # m
      BY <1>1, <2>4 DEF SubmitRefused, SubmitFails, EndDispatch, Copying, Owns
    <3> QED BY <1>3, <2>4, <3>1 DEF SubmitRefused, SubmitFails, EndDispatch
  <2>5. CASE StartDispatch(g)
    <3>1. ptr[g] # m
      BY <1>1, <2>5 DEF StartDispatch, Owns
    <3> QED BY <1>3, <2>5, <3>1 DEF StartDispatch
  <2>6. CASE RunProcessor(g)
    <3>1. ptr[g] # m
      BY <1>1, <2>6 DEF RunProcessor, Owns
    <3> QED BY <1>3, <2>6, <3>1 DEF RunProcessor
  <2> QED BY <1>6, <2>1, <2>2, <2>3, <2>4, <2>5, <2>6 DEF UploadStep
<1> QED
  BY <1>2, <1>4, <1>6 DEF Next

\* Running the processors of the chain one after the other, with errors, null and
\* missing data, objects that cannot be read, other requests and reloads in
\* between, makes of a request's data what Expected tells field by field of one
\* configuration that was current meanwhile, and that is what each sink pool gets
\* and keeps.
THEOREM SinkContents == Spec => SinkGetsExpected
<1> DEFINE Right(g, m) ==
        \E v \in since[g] :
            LET c == ChainOf(v, req[g].project)
            IN  holds'[m] = [req |-> g, data |-> Expected(c, Len(c), req[g].data)]
<1>1. ASSUME UploadInv, SinceInv, [Next]_vars, NEW g \in Goroutines, NEW m \in Messages, Handed(g, m)
      PROVE  Right(g, m)
  <2>1. PICK v \in since[g] :
               /\ chain[g] = ChainOf(v, req[g].project) /\ Upto(g) = Len(chain[g])
               /\ holds'[m] = holds[ptr[g]] /\ AsExpected(g)
    BY <1>1, WhatIsHanded
  <2>2. holds'[m] = [req |-> g, data |-> Expected(chain[g], Len(chain[g]), req[g].data)]
    BY <2>1 DEF AsExpected
  <2> QED BY <2>1, <2>2
<1>2. UploadInv /\ SinceInv /\ [Next]_vars =>
          [\A m \in Messages :
              /\ \A g \in Goroutines : Handed(g, m) =>
                    \E v \in since[g] :
                        LET c == ChainOf(v, req[g].project)
                        IN  holds'[m] = [req |-> g, data |-> Expected(c, Len(c), req[g].data)]
              /\ inSink[m] # None /\ inSink'[m] # None => holds'[m] = holds[m]]_vars
  BY <1>1, CopyUntouched
<1> QED
  BY <1>2, UploadInvariant, ChainIsOfOne, PTL DEF Spec, SinkGetsExpected

\* A step of Next is one of AuthNext for the nonce cache, or it leaves alone the
\* goroutines that are not past it.
LEMMA CacheSteps ==
    ASSUME UploadInv, [Next]_vars, NEW h \in Goroutines
    PROVE  Accepts(h) => NonceAccepted(h)
<1>1. CASE AuthNext \/ UNCHANGED vars
  BY <1>1, WhoMoves DEF UploadInv, vars
<1>2. CASE \E m \in Messages : SinkReleases(m) \/ Collect(m)
  <2>1. UNCHANGED authVars
    BY <1>2 DEF SinkReleases, Collect
  <2> QED BY <2>1, WhoMoves DEF UploadInv
<1>3. ASSUME NEW g \in Goroutines, UploadStep(g), pc[h] = "lock" PROVE pc'[h] = pc[h]
  <2>1. pc \in [Goroutines -> Labels]
    BY DEF UploadInv, AuthInv, AuthTypes
  <2>2. pc[g] # "lock" /\ (pc' = pc \/ \E l \in Labels : pc' = [pc EXCEPT ![g] = l])
    <3>1. CASE SubmitCopy(g)
      BY <3>1 DEF SubmitCopy, Copying, authVars, reqVars
    <3>2. CASE ~SubmitCopy(g)
      BY <1>3, <3>2 DEF UploadStep, ResolveProject, LimitProject, HandleUpload, SubmitTask,
         SubmitRefused, StartDispatch, RunProcessor, SubmitFails, SubmitPanics, EndDispatch,
         LogFailure, TaskEnds, Copying, GoesTo, Ends, Labels, LaterLabels
    <3> QED BY <3>1, <3>2
  <2> QED BY <1>3, <2>1, <2>2
<1> QED
  BY <1>1, <1>2, <1>3 DEF Next, Accepts

\* consumeNonce forgets no nonce early, whatever the delays and the reloads.
THEOREM NoncesSpaced == Spec => NonceSpacing
<1>1. UploadInv /\ [Next]_vars => [\A g \in Goroutines : Spaced(g)]_authVars
  BY CacheSteps, SpacedStep DEF UploadInv
<1> QED
  BY <1>1, UploadInvariant, PTL DEF Spec, NonceSpacing

\* A request that was accepted is not accepted again while a configuration would
\* let its timestamp pass, if the TTL it was stored with covers what is left of its
\* window or the margin of a second per window (Covers).
THEOREM RetriesRecognised == Spec => RetryRecognised
<1>1. UploadInv /\ [Next]_vars => [\A g \in Goroutines : Recognised(g)]_authVars
  BY CacheSteps, RecognisedStep DEF UploadInv
<1> QED
  BY <1>1, UploadInvariant, PTL DEF Spec, RetryRecognised

\* The nonce cache is within its capacity whenever a nonce is accepted.
THEOREM CacheFits == Spec => CacheBounded
<1>1. Init => FiniteCache
  <2>1. ASSUME Init PROVE Cached(nonceCache) = {}
    BY <2>1 DEF Init, AuthInit, Cached
  <2> QED BY <2>1, FS_EmptySet DEF FiniteCache
<1>2. UploadInv /\ FiniteCache /\ [Next]_vars => FiniteCache'
  <2> SUFFICES ASSUME UploadInv, FiniteCache, [Next]_vars PROVE FiniteCache'
    OBVIOUS
  <2>1. CASE AuthNext \/ UNCHANGED vars
    BY <2>1, CacheStaysFinite DEF UploadInv, vars
  <2>2. CASE \/ \E g \in Goroutines : UploadStep(g)
             \/ \E m \in Messages : SinkReleases(m) \/ Collect(m)
    <3>1. nonceCache' = nonceCache
      BY <2>2 DEF UploadStep, ResolveProject, LimitProject, HandleUpload, SubmitTask,
         SubmitRefused, StartDispatch, RunProcessor, SubmitCopy, SubmitFails, SubmitPanics,
         EndDispatch, LogFailure, SinkReleases, Collect, authVars, nonceVars
    <3> QED BY <3>1 DEF FiniteCache, Cached
  <2> QED BY <2>1, <2>2 DEF Next
<1>3. UploadInv /\ FiniteCache /\ [Next]_vars =>
          [\A g \in Goroutines :
              Accepts(g) => Cardinality(Cached(nonceCache')) <= Capacity(authCfg[g])]_authVars
  BY CacheSteps, AcceptedFits DEF UploadInv
<1> QED
  BY <1>1, <1>2, <1>3, UploadInvariant, PTL DEF Spec, CacheBounded

=============================================================================
