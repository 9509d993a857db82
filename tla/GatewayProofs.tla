--------------------------- MODULE GatewayProofs ---------------------------
(***************************************************************************)
(* No sink is forgotten, no log entry leaves too early, and a replay adds  *)
(* no pass through the pipeline, for every set of messages, number of      *)
(* pools and channel size.                                                 *)
(***************************************************************************)
EXTENDS Gateway, TLAPS

USE DEF taskVars, poolVars, replayVars, runVars, configVars

In(s, m) == \E i \in 1 .. Len(s) : s[i].msg = m

LEMMA InAppend ==
    ASSUME NEW s \in Seq(Copies), NEW c \in Copies, NEW m
    PROVE  /\ In(Append(s, c), m) <=> (In(s, m) \/ c.msg = m)
           /\ Append(s, c) \in Seq(Copies) /\ Len(Append(s, c)) = Len(s) + 1
           /\ Append(s, c) # <<>>
           /\ s # <<>> => /\ Head(Append(s, c)) = Head(s)
                          /\ Tail(Append(s, c)) = Append(Tail(s), c)
<1>1. /\ Append(s, c) \in Seq(Copies) /\ Len(Append(s, c)) = Len(s) + 1
      /\ \A i \in 1 .. Len(s) : Append(s, c)[i] = s[i]
      /\ Append(s, c)[Len(s) + 1] = c /\ Len(s) \in Nat
  OBVIOUS
<1>2. In(Append(s, c), m) <=> (In(s, m) \/ c.msg = m)
  BY <1>1 DEF In
<1>3. Append(s, c) # <<>>
  BY <1>1
<1>4. ASSUME s # <<>> PROVE Head(Append(s, c)) = Head(s) /\ Tail(Append(s, c)) = Append(Tail(s), c)
  BY <1>4
<1> QED
  BY <1>1, <1>2, <1>3, <1>4

LEMMA InTail ==
    ASSUME NEW s \in Seq(Copies), s # <<>>, NEW m
    PROVE  /\ In(s, m) <=> (Head(s).msg = m \/ In(Tail(s), m))
           /\ Tail(s) \in Seq(Copies) /\ Head(s) \in Copies /\ Len(Tail(s)) = Len(s) - 1
           /\ Len(s) \in Nat \ {0}
<1>1. /\ Tail(s) \in Seq(Copies) /\ Head(s) \in Copies /\ Len(Tail(s)) = Len(s) - 1
      /\ Len(s) \in Nat \ {0} /\ Head(s) = s[1]
      /\ \A i \in 1 .. Len(s) - 1 : Tail(s)[i] = s[i + 1]
  OBVIOUS
<1>2. ASSUME In(s, m) PROVE Head(s).msg = m \/ In(Tail(s), m)
  <2>1. PICK i \in 1 .. Len(s) : s[i].msg = m
    BY <1>2 DEF In
  <2>2. CASE i = 1
    BY <1>1, <2>1, <2>2
  <2>3. CASE i # 1
    <3>1. i - 1 \in 1 .. Len(s) - 1 /\ Tail(s)[i - 1] = s[i]
      BY <1>1, <2>3
    <3> QED BY <1>1, <2>1, <3>1 DEF In
  <2> QED BY <2>2, <2>3
<1>3. ASSUME Head(s).msg = m PROVE In(s, m)
  BY <1>1, <1>3 DEF In
<1>4. ASSUME In(Tail(s), m) PROVE In(s, m)
  <2>1. PICK i \in 1 .. Len(s) - 1 : s[i + 1].msg = m
    BY <1>1, <1>4 DEF In
  <2>2. i + 1 \in 1 .. Len(s)
    BY <1>1
  <2> QED BY <2>1, <2>2 DEF In
<1> QED
  BY <1>1, <1>2, <1>3, <1>4

-----------------------------------------------------------------------------
(* The inductive invariant *)

\* The pool or its sink has the message.
Has(p, m) == Delivered(p, m) \/ In(queue[p], m)

\* The dispatch of m has passed pool p.
Passed(p, m) == task[m] = "ok" \/ (task[m] = "submitting" /\ p < next[m])

Accounted(p, m) == Passed(p, m) => Has(p, m) \/ In(wal, m)

\* Of the entry that is being replayed, the pools so far have a copy or have
\* written it to the log again.
Replaying ==
    rpc = "dispatch" =>
        /\ wal # <<>> /\ rmsg \in Copies /\ rmsg.msg = Head(wal).msg
        /\ \A p \in Pools : p < rnext =>
              Has(p, Head(wal).msg) \/ In(Tail(wal), Head(wal).msg)

GatewayInv ==
    /\ TypeOK
    /\ \A m \in Msgs : task[m] \in {"new", "acked"} => next[m] = 1 /\ passes[m] = 0
    /\ \A m \in Msgs, p \in Pools : Accounted(p, m)
    /\ Replaying

LEMMA PoolsType == Pools \subseteq Nat /\ 1 \in Pools /\ NPools \in Pools
BY GatewayAssumption DEF Pools

LEMMA GatewayStart == Init => GatewayInv
<1> SUFFICES ASSUME Init PROVE GatewayInv
  OBVIOUS
<1>1. TypeOK
  BY PoolsType, GatewayAssumption DEF Init, TypeOK, TaskStates
<1>2. \A m \in Msgs, p \in Pools : Accounted(p, m)
  BY DEF Init, Accounted, Passed
<1>3. Replaying
  BY DEF Init, Replaying
<1>4. \A m \in Msgs : next[m] = 1 /\ passes[m] = 0
  BY DEF Init
<1> QED
  BY <1>1, <1>2, <1>3, <1>4 DEF GatewayInv

-----------------------------------------------------------------------------
(* What the steps do to the queues and to the log *)

LEMMA Enqueued ==
    ASSUME TypeOK, NEW p \in Pools, NEW c \in Copies, ~Full(p), Enqueue(p, c)
    PROVE  /\ queue' \in [Pools -> Seq(Copies)]
           /\ \A q \in Pools : Len(queue'[q]) <= ChannelSize
           /\ \A q \in Pools, m \in Msgs : In(queue[q], m) => In(queue'[q], m)
           /\ In(queue'[p], c.msg)
<1>1. queue[p] \in Seq(Copies) /\ Len(queue[p]) \in Nat /\ Len(queue[p]) < ChannelSize
  BY GatewayAssumption DEF TypeOK, Full
<1>2. queue'[p] = Append(queue[p], c) /\ \A q \in Pools \ {p} : queue'[q] = queue[q]
  BY DEF TypeOK, Enqueue
<1>3. queue' \in [Pools -> Seq(Copies)]
  BY <1>1, InAppend DEF TypeOK, Enqueue
<1>4. Len(queue'[p]) <= ChannelSize
  BY <1>1, <1>2, InAppend, GatewayAssumption
<1>5. In(queue'[p], c.msg)
  BY <1>1, <1>2, InAppend
<1>6. \A m \in Msgs : In(queue[p], m) => In(queue'[p], m)
  BY <1>1, <1>2, InAppend
<1> QED
  BY <1>2, <1>3, <1>4, <1>5, <1>6 DEF TypeOK

LEMMA Dequeued ==
    ASSUME TypeOK, NEW p \in Pools, queue[p] # <<>>, queue' = [queue EXCEPT ![p] = Tail(@)]
    PROVE  /\ queue' \in [Pools -> Seq(Copies)]
           /\ \A q \in Pools : Len(queue'[q]) <= ChannelSize
           /\ Head(queue[p]) \in Copies
           /\ \A q \in Pools, m \in Msgs :
                  In(queue[q], m) => In(queue'[q], m) \/ (q = p /\ m = Head(queue[p]).msg)
<1>1. queue[p] \in Seq(Copies) /\ Len(queue[p]) <= ChannelSize
  BY DEF TypeOK
<1>2. queue'[p] = Tail(queue[p]) /\ \A q \in Pools \ {p} : queue'[q] = queue[q]
  BY DEF TypeOK
<1>3. queue' \in [Pools -> Seq(Copies)] /\ Head(queue[p]) \in Copies
  BY <1>1, InTail DEF TypeOK
<1>4. Len(queue'[p]) <= ChannelSize
  BY <1>1, <1>2, InTail, GatewayAssumption
<1>5. \A m \in Msgs : In(queue[p], m) => In(queue'[p], m) \/ m = Head(queue[p]).msg
  BY <1>1, <1>2, InTail
<1> QED
  BY <1>2, <1>3, <1>4, <1>5 DEF TypeOK

LEMMA LogGrows ==
    ASSUME TypeOK, NEW c \in Copies, wal' = Append(wal, c)
    PROVE  /\ wal' \in Seq(Copies) /\ wal' # <<>>
           /\ \A m \in Msgs : In(wal, m) => In(wal', m)
           /\ In(wal', c.msg)
           /\ wal # <<>> => /\ Head(wal') = Head(wal)
                            /\ \A m \in Msgs : In(Tail(wal), m) => In(Tail(wal'), m)
                            /\ In(Tail(wal'), c.msg)
<1>1. wal \in Seq(Copies)
  BY DEF TypeOK
<1>2. ASSUME wal # <<>>
      PROVE  /\ Head(wal') = Head(wal) /\ In(Tail(wal'), c.msg)
             /\ \A m \in Msgs : In(Tail(wal), m) => In(Tail(wal'), m)
  <2>1. Tail(wal) \in Seq(Copies)
    BY <1>1, <1>2, InTail
  <2>2. Head(wal') = Head(wal) /\ Tail(wal') = Append(Tail(wal), c)
    BY <1>1, <1>2, InAppend
  <2>3. \A m : In(Append(Tail(wal), c), m) <=> (In(Tail(wal), m) \/ c.msg = m)
    BY <2>1, InAppend
  <2> QED
    BY <2>2, <2>3, Zenon
<1> QED
  BY <1>1, <1>2, InAppend

LEMMA MessageOf == \A c \in Copies : c.msg \in Msgs /\ c.stage \in Nat
BY DEF Copies

LEMMA CopyType ==
    ASSUME TypeOK, NEW m \in Msgs
    PROVE  copyMessage(m) \in Copies /\ copyMessage(m).msg = m
<1>1. passes[m] \in 0 .. 1
  BY DEF TypeOK
<1>2. passes[m] \in Nat
  BY <1>1
<1> QED
  BY <1>2 DEF Copies, copyMessage, Copy

-----------------------------------------------------------------------------
(* The steps *)

\* Nothing that a pool or the log holds is touched.
LEMMA TaskSteps ==
    ASSUME GatewayInv, NEW m \in Msgs,
           Upload(m) \/ UploadUnavailable(m) \/ DispatchStart(m) \/ DispatchFails(m)
    PROVE  GatewayInv'
<1>0. UNCHANGED <<next, poolVars, wal, replayVars, delivered, runVars, configVars>>
  BY DEF Upload, UploadUnavailable, DispatchStart, DispatchFails
<1>1. PICK s \in TaskStates :
          /\ s # "ok" /\ TaskGoes(m, s)
          /\ s \in {"new", "acked", "submitting"} => task[m] \in {"new", "acked"}
          /\ s \in {"new", "acked"} => passes' = passes
          /\ \/ passes' = passes
             \/ task[m] = "acked" /\ passes' = [passes EXCEPT ![m] = Processed(@, FALSE)]
  BY DEF Upload, UploadUnavailable, DispatchStart, DispatchFails, TaskStates
<1>2. task' \in [Msgs -> TaskStates] /\ task'[m] = s /\ \A k \in Msgs \ {m} : task'[k] = task[k]
  BY <1>1 DEF TaskGoes, GatewayInv, TypeOK
<1>21. passes' \in [Msgs -> 0 .. 1] /\ \A k \in Msgs \ {m} : passes'[k] = passes[k]
  <2>1. passes \in [Msgs -> 0 .. 1] /\ (task[m] = "acked" => passes[m] = 0)
    BY DEF GatewayInv, TypeOK
  <2>2. passes[m] = 0 => Processed(passes[m], FALSE) \in 0 .. 1
    BY DEF Processed
  <2> QED BY <1>1, <2>1, <2>2
<1>3. TypeOK'
  BY <1>0, <1>2, <1>21 DEF GatewayInv, TypeOK
<1>4. \A k \in Msgs : task'[k] \in {"new", "acked"} => next'[k] = 1 /\ passes'[k] = 0
  BY <1>0, <1>1, <1>2, <1>21 DEF GatewayInv
<1>5. ASSUME NEW k \in Msgs, NEW p \in Pools PROVE Accounted(p, k)'
  <2>1. CASE k = m
    <3>1. s = "submitting" => next'[m] = 1
      BY <1>0, <1>1 DEF GatewayInv
    <3>2. ~Passed(p, k)'
      BY <1>1, <1>2, <2>1, <3>1, PoolsType DEF Passed, Pools
    <3> QED BY <3>2 DEF Accounted
  <2>2. CASE k # m
    BY <1>0, <1>2, <2>2 DEF GatewayInv, Accounted, Passed, Has, Delivered, In
  <2> QED BY <2>1, <2>2
<1>6. Replaying'
  BY <1>0 DEF GatewayInv, Replaying, Has, Delivered, In
<1> QED
  BY <1>3, <1>4, <1>5, <1>6 DEF GatewayInv

\* Circuits, pools and Run change; what is held, and by whom, does not.
LEMMA QuietSteps ==
    ASSUME GatewayInv, UNCHANGED <<taskVars, queue, wal, delivered>>, TypeOK',
           \/ UNCHANGED replayVars
           \/ rpc' = "idle"
           \/ wal # <<>> /\ rnext' = 1 /\ rmsg' \in Copies /\ rmsg'.msg = Head(wal).msg
    PROVE  GatewayInv'
<1>1. \A k \in Msgs : task'[k] \in {"new", "acked"} => next'[k] = 1 /\ passes'[k] = 0
  BY DEF GatewayInv
<1>2. \A k \in Msgs, p \in Pools : Accounted(p, k)'
  BY DEF GatewayInv, Accounted, Passed, Has, Delivered, In
<1>3. CASE UNCHANGED replayVars
  <2>1. Replaying'
    BY <1>3 DEF GatewayInv, Replaying, Has, Delivered, In
  <2> QED BY <1>1, <1>2, <2>1 DEF GatewayInv
<1>4. CASE rpc' = "idle"
  BY <1>1, <1>2, <1>4 DEF GatewayInv, Replaying
<1>5. CASE wal # <<>> /\ rnext' = 1 /\ rmsg' \in Copies /\ rmsg'.msg = Head(wal).msg
  <2>1. Replaying'
    BY <1>5, PoolsType DEF Replaying, Pools
  <2> QED BY <1>1, <1>2, <2>1 DEF GatewayInv
<1> QED
  BY <1>3, <1>4, <1>5

\* What a step that loses nothing leaves in place.
Kept ==
    /\ wal' \in Seq(Copies) /\ queue' \in [Pools -> Seq(Copies)]
    /\ \A q \in Pools : Len(queue'[q]) <= ChannelSize
    /\ \A q \in Pools, k \in Msgs : Has(q, k) => Has(q, k)' \/ In(wal', k)
    /\ \A k \in Msgs : In(wal, k) => In(wal', k)
    /\ wal # <<>> =>
          /\ wal' # <<>> /\ Head(wal') = Head(wal) /\ Head(wal).msg \in Msgs
          /\ \A k \in Msgs : In(Tail(wal), k) => In(Tail(wal'), k)
          /\ \A q \in Pools, k \in Msgs : Has(q, k) => Has(q, k)' \/ In(Tail(wal'), k)

LEMMA KeptAccounts ==
    ASSUME GatewayInv, Kept, NEW m \in Msgs, NEW p \in Pools, Passed(p, m)
    PROVE  (Has(p, m) \/ In(wal, m))'
BY DEF GatewayInv, Kept, Accounted, In

LEMMA KeptReplaying ==
    ASSUME GatewayInv, Kept, UNCHANGED replayVars
    PROVE  Replaying'
<1> SUFFICES ASSUME rpc = "dispatch", NEW p \in Pools, p < rnext
             PROVE  (Has(p, Head(wal).msg) \/ In(Tail(wal), Head(wal).msg))'
  BY DEF Replaying, GatewayInv, Kept
<1>1. wal # <<>> /\ (Has(p, Head(wal).msg) \/ In(Tail(wal), Head(wal).msg))
  BY DEF GatewayInv, Replaying
<1>2. /\ wal' # <<>> /\ Head(wal') = Head(wal) /\ Head(wal).msg \in Msgs
      /\ \A k \in Msgs : In(Tail(wal), k) => In(Tail(wal'), k)
      /\ \A q \in Pools, k \in Msgs : Has(q, k) => Has(q, k)' \/ In(Tail(wal'), k)
  BY <1>1 DEF Kept
<1> QED
  BY <1>1, <1>2 DEF Has, Delivered, In

LEMMA HeadOfLog ==
    ASSUME TypeOK, wal # <<>> PROVE Head(wal) \in Copies /\ Head(wal).msg \in Msgs
BY InTail, MessageOf DEF TypeOK

\* A copy that joins a queue.
LEMMA EnqueueKeeps ==
    ASSUME TypeOK, NEW p \in Pools, NEW c \in Copies, ~Full(p), Enqueue(p, c),
           UNCHANGED <<wal, delivered>>
    PROVE  Kept /\ Has(p, c.msg)'
<1>1. /\ queue' \in [Pools -> Seq(Copies)]
      /\ \A q \in Pools : Len(queue'[q]) <= ChannelSize
      /\ \A q \in Pools, k \in Msgs : In(queue[q], k) => In(queue'[q], k)
      /\ In(queue'[p], c.msg)
  BY Enqueued
<1>2. \A q \in Pools, k \in Msgs : Has(q, k) => Has(q, k)'
  BY <1>1 DEF Has, Delivered, In
<1>3. Has(p, c.msg)'
  BY <1>1 DEF Has, In
<1> QED
  BY <1>1, <1>2, <1>3, HeadOfLog DEF Kept, TypeOK

\* A copy that joins the log.
LEMMA AppendKeeps ==
    ASSUME TypeOK, NEW c \in Copies, wal' = Append(wal, c), UNCHANGED <<queue, delivered>>
    PROVE  Kept /\ In(wal', c.msg)
<1>1. \A q \in Pools, k \in Msgs : Has(q, k) => Has(q, k)'
  BY DEF Has, Delivered, In
<1> QED
  BY <1>1, LogGrows, HeadOfLog DEF Kept, TypeOK

\* A copy joins a queue or the log: nobody loses anything.
LEMMA SubmitStep ==
    ASSUME GatewayInv, NEW m \in Msgs, DispatchSubmit(m)
    PROVE  GatewayInv'
<1> PICK p \in Pools : p = next[m]
  BY DEF GatewayInv, TypeOK
<1>0. /\ p = next[m] /\ TypeOK /\ copyMessage(m) \in Copies /\ copyMessage(m).msg = m
      /\ UNCHANGED <<passes, poolOpen, circuit, rejects, replayVars, delivered, runVars, configVars>>
      /\ task[m] = "submitting"
  BY CopyType DEF GatewayInv, TypeOK, DispatchSubmit
<1>1. Kept /\ (Has(p, m)' \/ In(wal', m))
  <2>1. CASE ~Full(p) /\ Enqueue(p, copyMessage(m)) /\ UNCHANGED wal
    <3>1. PICK c \in Copies : c = copyMessage(m)
      BY <1>0
    <3>2. Kept /\ Has(p, c.msg)'
      BY <1>0, <2>1, <3>1, EnqueueKeeps
    <3>3. c.msg = m
      BY <1>0, <3>1
    <3> QED BY <3>2, <3>3
  <2>2. CASE wal' = Append(wal, copyMessage(m)) /\ UNCHANGED queue
    BY <1>0, <2>2, AppendKeeps
  <2> QED BY <2>1, <2>2 DEF DispatchSubmit
<1>2. /\ task' \in [Msgs -> TaskStates] /\ next' \in [Msgs -> Pools]
      /\ \A k \in Msgs \ {m} : task'[k] = task[k] /\ next'[k] = next[k]
      /\ task'[m] \in {"submitting", "ok"}
      /\ \A q \in Pools : Passed(q, m)' => Passed(q, m) \/ q = p
  <2>1. CASE p = NPools
    <3>1. task' = [task EXCEPT ![m] = "ok"] /\ next' = next /\ task[m] = "submitting"
      BY <1>0, <2>1 DEF DispatchSubmit, TaskGoes
    <3>2. task' \in [Msgs -> TaskStates] /\ next' \in [Msgs -> Pools] /\ task'[m] = "ok"
      BY <1>0, <3>1 DEF TypeOK, TaskStates
    <3>3. \A q \in Pools : q < p \/ q = p
      BY <2>1, GatewayAssumption DEF Pools
    <3>4. \A q \in Pools : Passed(q, m)' => Passed(q, m) \/ q = p
      BY <3>1, <3>3 DEF Passed
    <3> QED BY <1>0, <3>1, <3>2, <3>4 DEF TypeOK
  <2>2. CASE p # NPools
    <3>1. p + 1 \in Pools /\ p \in Nat
      BY <2>2, GatewayAssumption DEF Pools
    <3>2. task' = task /\ next' = [next EXCEPT ![m] = p + 1]
      BY <1>0, <2>2 DEF DispatchSubmit
    <3>3. next' \in [Msgs -> Pools] /\ next'[m] = p + 1
      BY <3>1, <3>2 DEF GatewayInv, TypeOK
    <3>4. \A q \in Pools : Passed(q, m)' => Passed(q, m) \/ q = p
      <4>1. p = next[m] /\ task[m] = "submitting"
        BY <1>0
      <4>2. \A q \in Pools : q < p + 1 => q < p \/ q = p
        BY <3>1 DEF Pools
      <4> QED BY <4>1, <4>2, <3>2, <3>3 DEF Passed
    <3> QED BY <1>0, <3>2, <3>3, <3>4 DEF GatewayInv, TypeOK
  <2> QED BY <2>1, <2>2
<1>3. TypeOK'
  BY <1>0, <1>1, <1>2 DEF TypeOK, Kept
<1>4. \A k \in Msgs : task'[k] \in {"new", "acked"} => next'[k] = 1 /\ passes'[k] = 0
  BY <1>0, <1>2 DEF GatewayInv
<1>5. ASSUME NEW k \in Msgs, NEW q \in Pools, Passed(q, k)'
      PROVE  (Has(q, k) \/ In(wal, k))'
  <2>1. CASE Passed(q, k)
    BY <1>1, <2>1, KeptAccounts
  <2>2. CASE ~Passed(q, k)
    <3>1. k = m /\ q = p
      BY <1>2, <1>5, <2>2 DEF Passed
    <3> QED BY <1>1, <3>1 DEF In, Has, Delivered
  <2> QED BY <2>1, <2>2
<1>6. Replaying'
  BY <1>0, <1>1, KeptReplaying
<1> QED
  BY <1>3, <1>4, <1>5, <1>6 DEF GatewayInv, Accounted

\* A worker hands the oldest copy of its queue to the sink or to the log.
LEMMA WorkerSteps ==
    ASSUME GatewayInv, NEW p \in Pools, PoolDelivers(p) \/ PoolRejects(p)
    PROVE  GatewayInv' /\ \A k \in Msgs : In(wal, k) => In(wal', k)
<1> DEFINE c == Head(queue[p])
<1>0. /\ TypeOK /\ queue[p] # <<>> /\ queue' = [queue EXCEPT ![p] = Tail(@)]
      /\ UNCHANGED <<taskVars, poolOpen, replayVars, runVars, configVars>>
  BY DEF GatewayInv, PoolDelivers, PoolRejects
<1>1. /\ queue' \in [Pools -> Seq(Copies)]
      /\ \A q \in Pools : Len(queue'[q]) <= ChannelSize
      /\ c \in Copies /\ c.msg \in Msgs /\ c.stage \in Nat
      /\ \A q \in Pools, k \in Msgs :
            In(queue[q], k) => In(queue'[q], k) \/ (q = p /\ k = c.msg)
  BY <1>0, Dequeued, MessageOf
<1> HIDE DEF c
<1>2. Kept /\ TypeOK'
  <2>1. CASE PoolDelivers(p)
    <3> DEFINE d == [pool |-> p, msg |-> c.msg, stage |-> c.stage]
    <3>1. /\ delivered' = delivered \cup {d}
          /\ UNCHANGED <<wal, circuit, rejects>>
      BY <2>1 DEF PoolDelivers, c
    <3>2. d \in [pool : Pools, msg : Msgs, stage : Nat] /\ d.pool = p /\ d.msg = c.msg
      BY <1>1
    <3> HIDE DEF d
    <3>3. \A q \in Pools, k \in Msgs : Has(q, k) => Has(q, k)'
      BY <1>1, <3>1, <3>2 DEF Has, Delivered, In
    <3>4. Kept
      BY <1>0, <1>1, <3>1, <3>3, HeadOfLog DEF Kept, TypeOK
    <3>5. delivered' \subseteq [pool : Pools, msg : Msgs, stage : Nat]
      BY <1>0, <3>1, <3>2 DEF TypeOK
    <3> QED BY <1>0, <1>1, <3>1, <3>4, <3>5 DEF TypeOK
  <2>2. CASE PoolRejects(p)
    <3>1. wal' = Append(wal, c) /\ delivered' = delivered
      BY <2>2 DEF PoolRejects, handleRejected, c
    <3>2. /\ wal' \in Seq(Copies) /\ wal' # <<>>
          /\ \A k \in Msgs : In(wal, k) => In(wal', k)
          /\ In(wal', c.msg)
          /\ wal # <<>> => /\ Head(wal') = Head(wal)
                           /\ \A k \in Msgs : In(Tail(wal), k) => In(Tail(wal'), k)
                           /\ In(Tail(wal'), c.msg)
      BY <1>0, <1>1, <3>1, LogGrows
    <3>3. \A q \in Pools, k \in Msgs : Has(q, k) => Has(q, k)' \/ k = c.msg
      BY <1>1, <3>1 DEF Has, Delivered, In
    <3>4. Kept
      BY <1>0, <1>1, <3>2, <3>3, HeadOfLog DEF Kept
    <3>5. circuit' \subseteq Pools /\ rejects' \in 0 .. MaxRejects
      BY <1>0, <2>2, GatewayAssumption DEF PoolRejects, TypeOK
    <3> QED BY <1>0, <1>1, <3>1, <3>2, <3>4, <3>5 DEF TypeOK
  <2> QED BY <2>1, <2>2
<1>3. ASSUME NEW k \in Msgs, NEW q \in Pools, Passed(q, k)'
      PROVE  (Has(q, k) \/ In(wal, k))'
  BY <1>0, <1>2, <1>3, KeptAccounts DEF Passed
<1>4. Replaying'
  BY <1>0, <1>2, KeptReplaying
<1> QED
  BY <1>0, <1>2, <1>3, <1>4 DEF GatewayInv, Accounted, Kept

\* The replay hands the oldest entry to one more pool.  When that was the last
\* one the entry may go: every pool has taken it, or it is in the log again.
LEMMA ReplayStep ==
    ASSUME GatewayInv, ReplaySubmit
    PROVE  /\ GatewayInv'
           /\ \A k \in Msgs : In(wal, k) /\ ~In(wal', k) => \A q \in Pools : Has(q, k)'
<1>0. /\ TypeOK /\ wal # <<>> /\ wal \in Seq(Copies)
      /\ UNCHANGED <<taskVars, poolOpen, circuit, rejects, delivered, runVars, configVars>>
      /\ rmsg \in Copies /\ rmsg.msg = Head(wal).msg
  BY DEF GatewayInv, TypeOK, Replaying, ReplaySubmit
<1>1. PICK c \in Copies, p \in Pools :
          c = rmsg /\ c.msg = Head(wal).msg /\ c.msg \in Msgs /\ p = rnext
  BY <1>0, HeadOfLog DEF TypeOK
<1>2. /\ queue' \in [Pools -> Seq(Copies)]
      /\ \A q \in Pools : Len(queue'[q]) <= ChannelSize
      /\ \A q \in Pools, k \in Msgs : In(queue[q], k) => In(queue'[q], k)
      /\ In(queue'[p], c.msg)
  BY <1>0, <1>1, Enqueued DEF ReplaySubmit
<1>3. /\ \A q \in Pools, k \in Msgs : Has(q, k) => Has(q, k)'
      /\ Has(p, c.msg)'
  BY <1>0, <1>2 DEF Has, Delivered, In
<1>4. \A q \in Pools : q < p => Has(q, c.msg) \/ In(Tail(wal), c.msg)
  BY <1>1 DEF GatewayInv, Replaying, ReplaySubmit
<1>5. \A k \in Msgs : In(wal, k) <=> (c.msg = k \/ In(Tail(wal), k))
  BY <1>0, <1>1, InTail
<1>6. Tail(wal) \in Seq(Copies)
  BY <1>0, InTail
<1>7. CASE p = NPools
  <2>1. rpc' = "idle" /\ rmsg' = NoCopy /\ rnext' = 1 /\ wal' \in {wal, Tail(wal)}
    BY <1>1, <1>7 DEF ReplaySubmit, ReplayEnds
  <2>2. \A q \in Pools : q < p \/ q = p
    BY <1>7, GatewayAssumption DEF Pools
  <2>3. \A q \in Pools : Has(q, c.msg)' \/ In(Tail(wal), c.msg)
    BY <1>1, <1>3, <1>4, <2>2
  <2>4. \A q \in Pools, k \in Msgs : In(wal, k) => Has(q, k)' \/ In(wal', k)
    BY <1>1, <1>5, <2>1, <2>3
  <2>5. TypeOK'
    BY <1>0, <1>2, <1>6, <2>1, PoolsType DEF TypeOK
  <2>6. ASSUME NEW k \in Msgs, NEW q \in Pools, Passed(q, k)'
        PROVE  (Has(q, k) \/ In(wal, k))'
    <3>1. Has(q, k) \/ In(wal, k)
      BY <1>0, <2>6 DEF GatewayInv, Accounted, Passed
    <3>2. Has(q, k)' \/ In(wal', k)
      BY <1>3, <2>4, <3>1
    <3> QED BY <3>2 DEF In
  <2> QED
    BY <1>0, <2>1, <2>4, <2>5, <2>6 DEF GatewayInv, Accounted, Replaying
<1>8. CASE p # NPools
  <2>1. rpc' = rpc /\ rpc = "dispatch" /\ rmsg' = rmsg /\ rnext' = p + 1 /\ wal' = wal
    BY <1>1, <1>8 DEF ReplaySubmit
  <2>2. p + 1 \in Pools /\ \A q \in Pools : q < p + 1 => q < p \/ q = p
    BY <1>8, GatewayAssumption DEF Pools
  <2>3. TypeOK'
    BY <1>0, <1>2, <2>1, <2>2 DEF TypeOK
  <2>4. ASSUME NEW k \in Msgs, NEW q \in Pools, Passed(q, k)'
        PROVE  (Has(q, k) \/ In(wal, k))'
    <3>1. Has(q, k) \/ In(wal, k)
      BY <1>0, <2>4 DEF GatewayInv, Accounted, Passed
    <3> QED BY <1>3, <2>1, <3>1 DEF In
  <2>5. ASSUME NEW q \in Pools, q < rnext'
        PROVE  Has(q, c.msg)' \/ In(Tail(wal'), c.msg)
    BY <1>1, <1>3, <1>4, <2>1, <2>2, <2>5
  <2>6. Replaying'
    BY <1>0, <1>1, <2>1, <2>5 DEF Replaying, Has, Delivered, In
  <2> QED
    BY <1>0, <2>1, <2>3, <2>4, <2>6 DEF GatewayInv, Accounted
<1> QED
  BY <1>7, <1>8

LEMMA GatewayStep ==
    ASSUME GatewayInv, [Next]_vars
    PROVE  /\ GatewayInv'
           /\ \A k \in Msgs : In(wal, k) /\ ~In(wal', k) => \A q \in Pools : Has(q, k)'
<1>0. TypeOK /\ (rpc = "dispatch" => wal # <<>>) /\ 1 \in Pools
  BY PoolsType DEF GatewayInv, Replaying
<1>1. ASSUME NEW m \in Msgs,
             Upload(m) \/ UploadUnavailable(m) \/ DispatchStart(m) \/ DispatchFails(m)
      PROVE  GatewayInv' /\ wal' = wal
  BY <1>1, TaskSteps DEF Upload, UploadUnavailable, DispatchStart, DispatchFails
<1>2. ASSUME NEW m \in Msgs, DispatchSubmit(m)
      PROVE  GatewayInv' /\ \A k \in Msgs : In(wal, k) => In(wal', k)
  BY <1>0, <1>2, SubmitStep, CopyType, LogGrows DEF DispatchSubmit
<1>3. ASSUME NEW p \in Pools, CircuitCloses(p) \/ ClosePool(p)
      PROVE  GatewayInv' /\ wal' = wal
  <2>1. TypeOK' /\ UNCHANGED <<taskVars, queue, wal, delivered, replayVars>>
    BY <1>0, <1>3 DEF CircuitCloses, ClosePool, TypeOK
  <2> QED BY <2>1, QuietSteps
<1>4. ASSUME ReplayStart \/ ReplayFails PROVE GatewayInv' /\ wal' = wal
  <2>1. CASE ReplayStart
    <3>1. Head(wal) \in Copies /\ Head(wal).msg \in Msgs /\ wal # <<>>
      BY <1>0, <2>1, HeadOfLog DEF ReplayStart
    <3>2. rmsg' = Copy(Head(wal).msg, Processed(Head(wal).stage, TRUE))
      BY <2>1 DEF ReplayStart, messageFromWALEntry, Copy
    <3>3. Processed(Head(wal).stage, TRUE) \in Nat
      BY <3>1, MessageOf DEF Processed, RunsPipeline, SkipPipeline
    <3>4. rmsg' \in Copies /\ rmsg'.msg = Head(wal).msg
      BY <3>1, <3>2, <3>3 DEF Copies, Copy
    <3>5. /\ UNCHANGED <<taskVars, poolVars, wal, delivered, runVars, configVars>>
          /\ rpc' = "dispatch" /\ rnext' = 1
      BY <2>1 DEF ReplayStart
    <3>6. TypeOK'
      BY <1>0, <3>4, <3>5 DEF TypeOK
    <3> QED BY <3>1, <3>4, <3>5, <3>6, QuietSteps
  <2>2. CASE ReplayFails
    <3>1. /\ UNCHANGED <<taskVars, poolVars, wal, delivered, runVars, configVars>>
          /\ rpc' = "idle" /\ rnext' = 1 /\ rmsg' = NoCopy
      BY <2>2 DEF ReplayFails, ReplayEnds
    <3>2. TypeOK'
      BY <1>0, <3>1 DEF TypeOK
    <3> QED BY <3>1, <3>2, QuietSteps
  <2> QED BY <1>4, <2>1, <2>2
<1>5. ASSUME StopHTTP \/ CloseWAL \/ Exit \/ ConfigReload \/ UNCHANGED vars
      PROVE  GatewayInv' /\ wal' = wal
  <2>1. TypeOK' /\ UNCHANGED <<taskVars, queue, wal, delivered, replayVars>>
    <3>1. UNCHANGED <<taskVars, poolVars, wal, delivered, replayVars>>
      BY <1>5 DEF StopHTTP, CloseWAL, Exit, ConfigReload, vars
    <3>2. serving' \in BOOLEAN /\ pipelined' \in BOOLEAN
      BY <1>0, <1>5, Zenon DEF StopHTTP, CloseWAL, Exit, ConfigReload, vars, TypeOK
    <3>3. reloads' \in 0 .. MaxReloads
      BY <1>0, <1>5, GatewayAssumption DEF StopHTTP, CloseWAL, Exit, ConfigReload, vars, TypeOK
    <3>4. run' \in {"running", "draining", "walClosed", "exited"}
      BY <1>0, <1>5 DEF StopHTTP, CloseWAL, Exit, ConfigReload, vars, TypeOK
    <3> QED BY <1>0, <3>1, <3>2, <3>3, <3>4 DEF TypeOK
  <2> QED BY <2>1, QuietSteps
<1>6. wal' = wal => \A k \in Msgs : In(wal, k) => In(wal', k)
  OBVIOUS
<1> QED
  BY <1>1, <1>2, <1>3, <1>4, <1>5, <1>6, WorkerSteps, ReplayStep DEF Next

\* The gateway never leaves the invariant: what the dispatch loop has passed is
\* accounted for at every pool, also while an entry of the log is replayed.
THEOREM GatewayInvariant == Spec => []GatewayInv
<1>1. GatewayInv /\ [Next]_vars => GatewayInv'
  BY GatewayStep
<1> QED
  BY GatewayStart, <1>1, PTL DEF Spec

\* The channels keep within their size and every variable has its type.
THEOREM GatewayTypeOK == Spec => []TypeOK
<1>1. GatewayInv => TypeOK
  BY DEF GatewayInv
<1> QED
  BY GatewayInvariant, <1>1, PTL

\* A message whose Dispatch returned nil is delivered, queued or logged for
\* every sink of its project.
THEOREM NoneForgotten == Spec => []NoSinkForgotten
<1>1. GatewayInv => NoSinkForgotten
  BY DEF GatewayInv, Accounted, Passed, Has, In, NoSinkForgotten, Queued, Logged
<1> QED
  BY GatewayInvariant, <1>1, PTL

\* An entry leaves the log only when every pool has taken a copy of it.
THEOREM LeavesWhenTaken == Spec => EntryLeavesWhenTaken
<1>1. GatewayInv /\ [Next]_vars =>
          [\A m \in Msgs : Logged(m) /\ ~Logged(m)' =>
              \A p \in Pools : (Delivered(p, m) \/ Queued(p, m))']_vars
  <2> SUFFICES ASSUME GatewayInv, [Next]_vars, NEW m \in Msgs, Logged(m), ~Logged(m)',
                      NEW p \in Pools
               PROVE  (Delivered(p, m) \/ Queued(p, m))'
    OBVIOUS
  <2>1. In(wal, m) /\ ~In(wal', m)
    BY DEF In, Logged
  <2>2. Has(p, m)'
    BY <2>1, GatewayStep
  <2> QED
    BY <2>2 DEF Has, In, Queued
<1> QED
  BY GatewayInvariant, <1>1, PTL DEF Spec, EntryLeavesWhenTaken

-----------------------------------------------------------------------------
(* The passes through the pipeline *)

Elems(s) == {s[i] : i \in 1 .. Len(s)}

LEMMA ElemsAppend ==
    ASSUME NEW s \in Seq(Copies), NEW c \in Copies
    PROVE  Elems(Append(s, c)) = Elems(s) \cup {c}
<1>1. /\ Len(Append(s, c)) = Len(s) + 1 /\ Len(s) \in Nat
      /\ \A i \in 1 .. Len(s) : Append(s, c)[i] = s[i]
      /\ Append(s, c)[Len(s) + 1] = c
  OBVIOUS
<1> QED
  BY <1>1 DEF Elems

LEMMA ElemsTail ==
    ASSUME NEW s \in Seq(Copies), s # <<>>
    PROVE  Elems(Tail(s)) \subseteq Elems(s) /\ Head(s) \in Elems(s)
<1>1. /\ Len(Tail(s)) = Len(s) - 1 /\ Len(s) \in Nat \ {0} /\ Head(s) = s[1]
      /\ \A i \in 1 .. Len(s) - 1 : Tail(s)[i] = s[i + 1]
  OBVIOUS
<1> QED
  BY <1>1 DEF Elems

\* The pools, the log or the replay hold the copy.
Circulates(c) ==
    \/ c \in Elems(wal) \/ \E p \in Pools : c \in Elems(queue[p])
    \/ rpc = "dispatch" /\ c = rmsg

\* The dispatch of its message made the copy, after it ran the pipeline.
Good(c) == task[c.msg] \notin {"new", "acked"} /\ c.stage = passes[c.msg]

StageInv ==
    /\ \A c \in Copies : Circulates(c) => Good(c)
    /\ \A d \in delivered : Good(d)

\* The dispatch of a message counts its passes once and for all.
LEMMA PassesStay ==
    ASSUME GatewayInv, [Next]_vars, NEW m \in Msgs, task[m] \notin {"new", "acked"}
    PROVE  task'[m] \notin {"new", "acked"} /\ passes'[m] = passes[m]
<1>0. task \in [Msgs -> TaskStates] /\ passes \in [Msgs -> 0 .. 1]
  BY DEF GatewayInv, TypeOK
<1>1. ASSUME NEW k \in Msgs,
             \/ Upload(k) \/ UploadUnavailable(k)
             \/ DispatchStart(k) \/ DispatchSubmit(k) \/ DispatchFails(k)
      PROVE  task'[m] \notin {"new", "acked"} /\ passes'[m] = passes[m]
  <2>1. CASE k = m
    BY <1>0, <1>1, <2>1
    DEF Upload, UploadUnavailable, DispatchStart, DispatchSubmit, DispatchFails, TaskGoes
  <2>2. CASE k # m
    BY <1>0, <1>1, <2>2
    DEF Upload, UploadUnavailable, DispatchStart, DispatchSubmit, DispatchFails, TaskGoes
  <2> QED BY <2>1, <2>2
<1>2. ASSUME \/ \E p \in Pools : \/ PoolDelivers(p) \/ PoolRejects(p)
                               \/ CircuitCloses(p) \/ ClosePool(p)
             \/ ReplayStart \/ ReplaySubmit \/ ReplayFails
             \/ StopHTTP \/ CloseWAL \/ Exit \/ ConfigReload \/ UNCHANGED vars
      PROVE  task' = task /\ passes' = passes
  BY <1>2 DEF PoolDelivers, PoolRejects, CircuitCloses, ClosePool, ReplayStart, ReplaySubmit,
              ReplayFails, StopHTTP, CloseWAL, Exit, ConfigReload, vars
<1> QED
  BY <1>1, <1>2 DEF Next

\* The replay dispatches the entry as it is in the log.
LEMMA ReplayAddsNoPass ==
    ASSUME TypeOK, ReplayStart
    PROVE  rmsg' = Head(wal) /\ Head(wal) \in Elems(wal)
<1>1. wal \in Seq(Copies) /\ wal # <<>> /\ Head(wal) \in Copies
  BY HeadOfLog DEF TypeOK, ReplayStart
<1>2. rmsg' = [msg |-> Head(wal).msg, stage |-> Head(wal).stage]
  BY DEF ReplayStart, messageFromWALEntry, Copy, Processed, RunsPipeline, SkipPipeline
<1> QED
  BY <1>1, <1>2, ElemsTail DEF Copies

\* A copy that comes into circulation is one that Dispatch makes.
LEMMA WhoCirculates ==
    ASSUME GatewayInv, [Next]_vars, NEW c \in Copies, Circulates(c)'
    PROVE  Circulates(c) \/ \E m \in Msgs : task[m] = "submitting" /\ c = copyMessage(m)
<1>0. /\ TypeOK /\ wal \in Seq(Copies) /\ queue \in [Pools -> Seq(Copies)]
      /\ rnext \in Pools /\ next \in [Msgs -> Pools]
  BY DEF GatewayInv, TypeOK
<1>1. ASSUME UNCHANGED <<queue, wal>>, UNCHANGED replayVars \/ rpc' # "dispatch"
      PROVE  Circulates(c)
  BY <1>1 DEF Circulates
<1>2. ASSUME NEW m \in Msgs, DispatchSubmit(m)
      PROVE  Circulates(c) \/ (task[m] = "submitting" /\ c = copyMessage(m))
  <2>1. PICK p \in Pools, k \in Copies : p = next[m] /\ k = copyMessage(m)
    BY <1>0, CopyType
  <2>2. UNCHANGED replayVars /\ task[m] = "submitting"
    BY <1>2 DEF DispatchSubmit
  <2>3. CASE Enqueue(p, k) /\ UNCHANGED wal
    <3>1. queue'[p] = Append(queue[p], k) /\ \A q \in Pools \ {p} : queue'[q] = queue[q]
      BY <1>0, <2>3 DEF Enqueue
    <3>2. Elems(queue'[p]) = Elems(queue[p]) \cup {k}
      BY <1>0, <3>1, ElemsAppend
    <3> QED BY <2>1, <2>2, <2>3, <3>1, <3>2 DEF Circulates
  <2>4. CASE wal' = Append(wal, k) /\ UNCHANGED queue
    <3>1. Elems(wal') = Elems(wal) \cup {k}
      BY <1>0, <2>4, ElemsAppend
    <3> QED BY <2>1, <2>2, <2>4, <3>1 DEF Circulates
  <2> QED BY <1>2, <2>1, <2>3, <2>4 DEF DispatchSubmit
<1>3. ASSUME NEW p \in Pools, PoolDelivers(p) \/ PoolRejects(p)
      PROVE  Circulates(c)
  <2>1. /\ queue[p] # <<>> /\ UNCHANGED replayVars
        /\ queue' = [queue EXCEPT ![p] = Tail(@)]
        /\ wal' = wal \/ wal' = Append(wal, Head(queue[p]))
    BY <1>3 DEF PoolDelivers, PoolRejects, handleRejected
  <2>2. queue'[p] = Tail(queue[p]) /\ \A q \in Pools \ {p} : queue'[q] = queue[q]
    BY <1>0, <2>1
  <2>3. Elems(queue'[p]) \subseteq Elems(queue[p]) /\ Head(queue[p]) \in Elems(queue[p])
    BY <1>0, <2>1, <2>2, ElemsTail
  <2>4. Head(queue[p]) \in Copies
    BY <1>0, <2>1, Dequeued
  <2>5. Elems(wal') \subseteq Elems(wal) \cup {Head(queue[p])}
    BY <1>0, <2>1, <2>4, ElemsAppend
  <2> QED BY <2>1, <2>2, <2>3, <2>5 DEF Circulates
<1>4. ASSUME ReplaySubmit PROVE Circulates(c)
  <2>1. PICK p \in Pools, k \in Copies : p = rnext /\ k = rmsg
    BY <1>0, <1>4 DEF GatewayInv, Replaying, ReplaySubmit
  <2>2. /\ rpc = "dispatch" /\ Enqueue(p, k) /\ wal # <<>>
        /\ rpc' = "dispatch" => rmsg' = rmsg
        /\ wal' = wal \/ wal' = Tail(wal)
    BY <1>4, <2>1 DEF GatewayInv, Replaying, ReplaySubmit, ReplayEnds
  <2>3. queue'[p] = Append(queue[p], k) /\ \A q \in Pools \ {p} : queue'[q] = queue[q]
    BY <1>0, <2>2 DEF Enqueue
  <2>4. Elems(queue'[p]) = Elems(queue[p]) \cup {k} /\ Elems(wal') \subseteq Elems(wal)
    BY <1>0, <2>2, <2>3, ElemsAppend, ElemsTail
  <2> QED BY <2>1, <2>2, <2>3, <2>4 DEF Circulates
<1>5. ASSUME ReplayStart PROVE Circulates(c)
  <2>1. UNCHANGED <<queue, wal>>
    BY <1>5 DEF ReplayStart
  <2> QED BY <1>0, <1>5, <2>1, ReplayAddsNoPass DEF Circulates
<1>6. ASSUME NEW m \in Msgs,
             Upload(m) \/ UploadUnavailable(m) \/ DispatchStart(m) \/ DispatchFails(m)
      PROVE  Circulates(c)
  BY <1>1, <1>6 DEF Upload, UploadUnavailable, DispatchStart, DispatchFails
<1>7. ASSUME \/ \E p \in Pools : CircuitCloses(p) \/ ClosePool(p)
             \/ ReplayFails \/ StopHTTP \/ CloseWAL \/ Exit \/ ConfigReload \/ UNCHANGED vars
      PROVE  Circulates(c)
  BY <1>1, <1>7 DEF CircuitCloses, ClosePool, ReplayFails, ReplayEnds, StopHTTP, CloseWAL, Exit,
                    ConfigReload, vars
<1> QED
  BY <1>2, <1>3, <1>4, <1>5, <1>6, <1>7 DEF Next

LEMMA WhatIsDelivered ==
    ASSUME GatewayInv, [Next]_vars, NEW d \in delivered', d \notin delivered
    PROVE  \E c \in Copies : Circulates(c) /\ d.msg = c.msg /\ d.stage = c.stage
<1>1. PICK p \in Pools : PoolDelivers(p)
  BY DEF Next, Upload, UploadUnavailable, DispatchStart, DispatchSubmit, DispatchFails,
         PoolRejects, CircuitCloses, ClosePool, ReplayStart, ReplaySubmit, ReplayFails,
         StopHTTP, CloseWAL, Exit, ConfigReload, vars
<1>2. queue[p] \in Seq(Copies) /\ queue[p] # <<>>
  BY <1>1 DEF GatewayInv, TypeOK, PoolDelivers
<1>3. Head(queue[p]) \in Copies /\ Head(queue[p]) \in Elems(queue[p])
  BY <1>2, InTail, ElemsTail
<1>4. d = [pool |-> p, msg |-> Head(queue[p]).msg, stage |-> Head(queue[p]).stage]
  BY <1>1, Zenon DEF PoolDelivers
<1>5. d.msg = Head(queue[p]).msg /\ d.stage = Head(queue[p]).stage
  BY <1>4
<1> QED
  BY <1>3, <1>5 DEF Circulates

LEMMA StageStep ==
    ASSUME GatewayInv, StageInv, [Next]_vars
    PROVE  StageInv'
<1>1. ASSUME NEW c, c.msg \in Msgs, Good(c) PROVE Good(c)'
  BY <1>1, PassesStay DEF Good
<1>2. ASSUME NEW c \in Copies, Circulates(c)' PROVE Good(c)'
  <2>1. CASE Circulates(c)
    BY <1>1, <2>1, MessageOf DEF StageInv
  <2>2. CASE \E m \in Msgs : task[m] = "submitting" /\ c = copyMessage(m)
    <3>1. Good(c)
      BY <2>2 DEF Good, copyMessage, Copy
    <3> QED BY <1>1, <3>1, MessageOf
  <2> QED BY <1>2, <2>1, <2>2, WhoCirculates
<1>3. ASSUME NEW d \in delivered' PROVE Good(d)'
  <2>1. CASE d \in delivered
    <3>1. d.msg \in Msgs
      BY <2>1 DEF GatewayInv, TypeOK
    <3> QED BY <1>1, <2>1, <3>1 DEF StageInv
  <2>2. CASE d \notin delivered
    <3>1. PICK c \in Copies : Circulates(c) /\ d.msg = c.msg /\ d.stage = c.stage
      BY <2>2, WhatIsDelivered
    <3>2. Good(d) /\ d.msg \in Msgs
      BY <3>1, MessageOf DEF StageInv, Good
    <3> QED BY <1>1, <3>2
  <2> QED BY <2>1, <2>2
<1> QED
  BY <1>2, <1>3 DEF StageInv

\* What a sink receives has been through the pipeline as often as the direct
\* dispatch of the message ran it: the rejections, the log, the replays and the
\* reloads in between add no pass and lose none.
THEOREM ProcessedOnce == Spec => []PipelineOnce
<1>1. Init => StageInv
  BY DEF Init, StageInv, Circulates, Elems
<1>2. GatewayInv /\ StageInv /\ [Next]_vars => StageInv'
  BY StageStep
<1>3. StageInv => PipelineOnce
  BY DEF StageInv, Good, PipelineOnce
<1> QED
  BY GatewayInvariant, <1>1, <1>2, <1>3, PTL DEF Spec

=============================================================================
