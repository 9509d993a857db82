-------------------------- MODULE WorkerPoolProofs --------------------------
(***************************************************************************)
(* Proofs about WorkerPool for every number of workers and messages, every *)
(* channel size, threshold and policy.                                     *)
(***************************************************************************)
EXTENDS WorkerPool, TLAPS

\* The recovery goroutine and recoveryOnce go together: as long as a goroutine
\* exists, its deferred function included, the once has run.
ProbeInv ==
    /\ probes \in [ProbeStates -> Nat] /\ once \in BOOLEAN
    /\ ProbeCount = IF once THEN 1 ELSE 0

\* A recovery goroutine that moves on is still one.
LEMMA MoveKeepsProbeInv ==
    ASSUME ProbeInv, NEW p \in ProbeStates, NEW q \in ProbeStates, p # q,
           ProbeMoves(p, q), UNCHANGED once
    PROVE  ProbeInv'
BY DEF ProbeInv, ProbeMoves, ProbeCount, ProbeStates

\* Opening the circuit starts at most the goroutine that was missing.
LEMMA FailureKeepsProbeInv ==
    ASSUME ProbeInv, recordFailure PROVE ProbeInv'
<1>1. CASE UNCHANGED <<once, probes>>
    BY <1>1 DEF ProbeInv, ProbeCount
<1>2. CASE ~once /\ once' = TRUE /\ probes' = [probes EXCEPT !["wait"] = @ + 1]
    BY <1>2 DEF ProbeInv, ProbeCount, ProbeStates
<1>3. QED BY <1>1, <1>2 DEF recordFailure, startRecovery

LEMMA ProbeStep == ProbeInv /\ [Next]_vars => ProbeInv'
<1> SUFFICES ASSUME ProbeInv, [Next]_vars PROVE ProbeInv'
    OBVIOUS
<1>1. CASE UNCHANGED <<once, probes>>
    BY <1>1 DEF ProbeInv, ProbeCount
<1>2. ASSUME NEW m \in Msgs, Submit(m) PROVE UNCHANGED <<once, probes>>
    BY <1>2 DEF Submit, SubmitCheck, SubmitPanics, SubmitSend, SubmitFull, SubmitTimeout,
                circuitVars
<1>3. ASSUME NEW w \in Workers, SendFails(w) PROVE ProbeInv'
    BY <1>1, <1>3, FailureKeepsProbeInv DEF SendFails, circuitVars
<1>4. ASSUME NEW w \in Workers, Worker(w), ~SendFails(w) PROVE UNCHANGED <<once, probes>>
    BY <1>4 DEF Worker, WorkerDrains, WorkerReceives, WorkerExits, WorkerReadsCircuit, SendOK,
                SendPanics, BackoffEnds, circuitVars
<1>5. ASSUME ProbeTick \/ ProbeStopped \/ ProbeHealth \/ ProbeResets PROVE ProbeInv'
    <2>1. PICK p \in ProbeStates, q \in ProbeStates : p # q /\ ProbeMoves(p, q)
        BY <1>5 DEF ProbeTick, ProbeStopped, ProbeHealth, ProbeResets, ProbeStates
    <2>2. UNCHANGED once
        BY <1>5 DEF ProbeTick, ProbeStopped, ProbeHealth, ProbeResets
    <2>3. QED BY <2>1, <2>2, MoveKeepsProbeInv
<1>6. ASSUME ProbeExits PROVE ProbeInv'
    <2>1. /\ probes' \in [ProbeStates -> Int] /\ ProbeCount' = ProbeCount - 1
          /\ probes'["exit"] = probes["exit"] - 1 /\ probes["exit"] > 0 /\ once' = FALSE
          /\ \A p \in ProbeStates \ {"exit"} : probes'[p] = probes[p]
        BY <1>6 DEF ProbeExits, ProbeInv, ProbeCount, ProbeStates
    <2>2. \A p \in ProbeStates : probes[p] \in Nat
        BY DEF ProbeInv
    <2>3. \A p \in ProbeStates : probes'[p] \in Nat
        BY <2>1, <2>2 DEF ProbeStates
    <2>4. probes' \in [ProbeStates -> Nat]
        BY <2>1, <2>3
    <2>5. ProbeCount >= 1
        BY <2>1, <2>2 DEF ProbeCount, ProbeStates
    <2>6. ProbeCount = 1
        BY <2>5 DEF ProbeInv
    <2>7. ProbeCount' = 0
        BY <2>1, <2>6
    <2>8. ~once' /\ once' \in BOOLEAN
        BY <1>6 DEF ProbeExits
    <2>9. QED BY <2>4, <2>7, <2>8 DEF ProbeInv
<1>7. ASSUME Shutdown \/ SinkGoesDown \/ SinkComesBack PROVE UNCHANGED <<once, probes>>
    BY <1>7 DEF Shutdown, ShutdownMarks, ShutdownCancels, ShutdownClosesChannel,
                ShutdownStopsProbe, ShutdownEnds, SinkGoesDown, SinkComesBack, circuitVars
<1>8. ASSUME UNCHANGED vars PROVE UNCHANGED <<once, probes>>
    BY <1>8 DEF vars, circuitVars
<1>9. ASSUME NEW w \in Workers, Worker(w) PROVE ProbeInv'
    BY <1>1, <1>3, <1>4, <1>9
<1>10. ASSUME Probe PROVE ProbeInv'
    BY <1>5, <1>6, <1>10 DEF Probe
<1>11. QED BY <1>1, <1>2, <1>7, <1>8, <1>9, <1>10 DEF Next

LEMMA ProbeInit == Init => ProbeInv
<1> SUFFICES ASSUME Init PROVE ProbeInv
    OBVIOUS
<1>1. probes \in [ProbeStates -> Nat] /\ \A p \in ProbeStates : probes[p] = 0
    BY DEF Init
<1>2. ProbeCount = 0
    BY <1>1 DEF ProbeCount, ProbeStates
<1>3. QED BY <1>1, <1>2 DEF Init, ProbeInv

\* recoveryLoop assigns recoveryOnce without the lock; nevertheless a pool
\* never has two recovery goroutines.
THEOREM OneProbe == Spec => []SingleProbe
<1>1. ProbeInv => SingleProbe
    BY DEF ProbeInv, SingleProbe
<1>2. QED BY ProbeInit, ProbeStep, <1>1, PTL DEF Spec

-----------------------------------------------------------------------------
(* The messages of the pool *)

\* The channel or a worker has m.
Held(m) == InChannel(m) \/ \E w \in Workers : job[w] = m

\* No message has two holders.
OneHolder ==
    /\ \A i, j \in 1 .. Len(ch) : ch[i] = ch[j] => i = j
    /\ \A w \in Workers : ~InChannel(job[w])
    /\ \A w, v \in Workers : job[w] = job[v] /\ job[w] # NoMsg => w = v

\* A message is held from the return of its Submit to its release, and it has
\* an end exactly when it is released.
MsgInv(m) ==
    /\ Held(m) <=> (sub[m] = "ok" /\ released[m] = 0)
    /\ released[m] \in {0, 1} /\ (released[m] = 0 <=> fate[m] = "none")
    /\ sub[m] \in {"new", "checked", "blocked", "panicked"} => released[m] = 0
    /\ sub[m] = "error" => released[m] = 1

Busy == {"got", "send", "backoff"}

\* A worker leaves only when the channel is closed and empty.
WorkerInv(w) ==
    /\ job[w] # NoMsg <=> wpc[w] \in Busy
    /\ wpc[w] = "exited" => chClosed /\ ch = <<>>

PoolInv ==
    /\ TypeOK /\ OneHolder
    /\ \A m \in Msgs : MsgInv(m)
    /\ \A w \in Workers : WorkerInv(w)
    /\ spc = "done" => \A w \in Workers : wpc[w] = "exited"

-----------------------------------------------------------------------------
(* What a step does to the messages *)

Ends(m, f) == fate' = [fate EXCEPT ![m] = f] /\ Release(m)

\* How the pool may end a message it could not deliver.
Rejections == {"dropped", "wal", "walFailed"}
MayReject(f) ==
    /\ f \in Rejections
    /\ f = "dropped" => backpressure # "fallback"
    /\ f = "walFailed" => WALFails

QuietStep == UNCHANGED <<ch, job, sub, fate, released>>

SubmitGoesOn(m) ==
    /\ sub[m] \in {"new", "checked", "blocked"}
    /\ \E s \in {"checked", "blocked", "panicked"} : SubGoes(m, s)
    /\ UNCHANGED <<ch, job, fate, released>>

SubmitEnds(m) ==
    /\ sub[m] \in {"new", "checked", "blocked"}
    /\ \/ SubGoes(m, "error") /\ Ends(m, "refused")
       \/ \E s \in {"ok", "error"}, f \in Rejections : SubGoes(m, s) /\ MayReject(f) /\ Ends(m, f)
    /\ UNCHANGED <<ch, job>>

Enqueues(m) ==
    /\ sub[m] \in {"checked", "blocked"} /\ SubGoes(m, "ok")
    /\ ~chClosed /\ Len(ch) < ChannelSize
    /\ ch' = Append(ch, m) /\ UNCHANGED <<job, fate, released>>

Dequeues(w) ==
    /\ wpc[w] = "select" /\ ch # <<>> /\ ch' = Tail(ch)
    /\ job' = [job EXCEPT ![w] = Head(ch)] /\ UNCHANGED <<sub, fate, released>>

WorkerEnds(w) ==
    /\ wpc[w] \in Busy /\ job' = [job EXCEPT ![w] = NoMsg]
    /\ \E f \in Rejections \cup {"delivered"} :
          (f # "delivered" => MayReject(f)) /\ Ends(job[w], f)
    /\ UNCHANGED <<ch, sub>>

LEMMA Rejected ==
    ASSUME NEW m \in Msgs, handleRejected(m)
    PROVE  \E f \in Rejections : MayReject(f) /\ Ends(m, f)
BY DEF handleRejected, Rejections, MayReject, Ends

LEMMA SubmitKinds ==
    ASSUME NEW m \in Msgs, Submit(m)
    PROVE  SubmitGoesOn(m) \/ SubmitEnds(m) \/ Enqueues(m)
<1>1. CASE SubmitCheck(m)
  BY <1>1 DEF SubmitCheck, SubmitGoesOn, SubmitEnds, Ends, chanVars, workerVars, msgVars
<1>2. CASE SubmitPanics(m)
  BY <1>2 DEF SubmitPanics, SubmitGoesOn, chanVars, workerVars, msgVars
<1>3. CASE SubmitSend(m)
  BY <1>3 DEF SubmitSend, Enqueues, workerVars, msgVars
<1>4. CASE SubmitFull(m)
  BY <1>4, Rejected DEF SubmitFull, SubmitGoesOn, SubmitEnds, Ends, chanVars, workerVars, msgVars
<1>5. CASE SubmitTimeout(m)
  BY <1>5, Rejected DEF SubmitTimeout, SubmitEnds, chanVars, workerVars
<1> QED BY <1>1, <1>2, <1>3, <1>4, <1>5 DEF Submit

LEMMA WorkerKinds ==
    ASSUME PoolInv, NEW w \in Workers, Worker(w)
    PROVE  QuietStep \/ Dequeues(w) \/ WorkerEnds(w)
<1> USE DEF QuietStep, chanVars, msgVars
<1>1. ASSUME wpc[w] \in Busy PROVE job[w] \in Msgs
  BY <1>1 DEF PoolInv, WorkerInv, TypeOK
<1>2. ASSUME wpc[w] \in Busy, handleRejected(job[w]), Done(w), UNCHANGED <<ch, sub>>
      PROVE  WorkerEnds(w)
  <2>1. PICK f \in Rejections : MayReject(f) /\ Ends(job[w], f)
    BY <1>1, <1>2, Rejected
  <2> QED BY <1>2, <2>1 DEF Done, WorkerEnds
<1>3. CASE WorkerDrains(w) \/ WorkerExits(w)
  BY <1>3 DEF WorkerDrains, WorkerExits
<1>4. CASE WorkerReceives(w)
  BY <1>4 DEF WorkerReceives, Dequeues
<1>5. CASE WorkerReadsCircuit(w)
  BY <1>2, <1>5 DEF WorkerReadsCircuit, Busy
<1>6. CASE SendOK(w)
  BY <1>6 DEF SendOK, Done, WorkerEnds, Ends, Busy
<1>7. CASE SendFails(w)
  BY <1>2, <1>7 DEF SendFails, Busy
<1>8. CASE SendPanics(w)
  BY <1>2, <1>8 DEF SendPanics, Busy
<1>9. CASE BackoffEnds(w)
  BY <1>2, <1>9 DEF BackoffEnds, Busy
<1> QED BY <1>3, <1>4, <1>5, <1>6, <1>7, <1>8, <1>9 DEF Worker

\* Every step does one of six things to the messages.
LEMMA StepKinds ==
    ASSUME PoolInv, [Next]_vars
    PROVE  \/ QuietStep
           \/ \E m \in Msgs : SubmitGoesOn(m) \/ SubmitEnds(m) \/ Enqueues(m)
           \/ \E w \in Workers : Dequeues(w) \/ WorkerEnds(w)
<1> USE DEF QuietStep, chanVars, workerVars, msgVars
<1>1. CASE UNCHANGED vars
  BY <1>1 DEF vars
<1>2. CASE Probe
  BY <1>2 DEF Probe, ProbeTick, ProbeStopped, ProbeHealth, ProbeResets, ProbeExits
<1>3. CASE Shutdown
  BY <1>3 DEF Shutdown, ShutdownMarks, ShutdownCancels, ShutdownClosesChannel,
              ShutdownStopsProbe, ShutdownEnds
<1>4. CASE SinkGoesDown \/ SinkComesBack
  BY <1>4 DEF SinkGoesDown, SinkComesBack
<1>5. ASSUME NEW m \in Msgs, Submit(m) PROVE SubmitGoesOn(m) \/ SubmitEnds(m) \/ Enqueues(m)
  BY <1>5, SubmitKinds
<1>6. ASSUME NEW w \in Workers, Worker(w) PROVE QuietStep \/ Dequeues(w) \/ WorkerEnds(w)
  BY <1>6, WorkerKinds
<1> HIDE DEF QuietStep
<1> QED BY <1>1, <1>2, <1>3, <1>4, <1>5, <1>6 DEF Next

-----------------------------------------------------------------------------
(* A message is held once, and released when it ends *)

ChannelOnce == \A i, j \in 1 .. Len(ch) : ch[i] = ch[j] => i = j

LEMMA AppendHolds ==
    ASSUME ch \in Seq(Msgs), ChannelOnce, NEW m \in Msgs, ~InChannel(m), ch' = Append(ch, m)
    PROVE  ChannelOnce' /\ \A k : InChannel(k)' <=> InChannel(k) \/ k = m
<1>1. /\ Len(ch) \in Nat /\ Len(ch') = Len(ch) + 1
      /\ \A i \in 1 .. Len(ch) : ch'[i] = ch[i]
      /\ ch'[Len(ch) + 1] = m
  OBVIOUS
<1>2. \A i \in 1 .. Len(ch) : ch[i] # m
  BY DEF InChannel
<1>3. ChannelOnce'
  BY <1>1, <1>2 DEF ChannelOnce
<1>4. ASSUME NEW k PROVE InChannel(k)' <=> InChannel(k) \/ k = m
  BY <1>1 DEF InChannel
<1> QED BY <1>3, <1>4

LEMMA TailHolds ==
    ASSUME ch \in Seq(Msgs), ChannelOnce, ch # <<>>, ch' = Tail(ch)
    PROVE  /\ Head(ch) \in Msgs /\ InChannel(Head(ch)) /\ ChannelOnce'
           /\ \A k : InChannel(k)' <=> InChannel(k) /\ k # Head(ch)
<1>1. /\ Len(ch) \in Nat \ {0} /\ Len(ch') = Len(ch) - 1 /\ Head(ch) = ch[1] /\ ch[1] \in Msgs
      /\ \A i \in 1 .. Len(ch') : ch'[i] = ch[i + 1]
  OBVIOUS
<1>2. ChannelOnce'
  BY <1>1 DEF ChannelOnce
<1>3. ASSUME NEW k, InChannel(k)' PROVE InChannel(k) /\ k # Head(ch)
  <2>1. PICK i \in 1 .. Len(ch') : ch'[i] = k
    BY <1>3 DEF InChannel
  <2>2. i + 1 \in 1 .. Len(ch) /\ 1 \in 1 .. Len(ch) /\ i + 1 # 1 /\ ch[i + 1] = k
    BY <1>1, <2>1
  <2>3. k # ch[1]
    BY <2>2 DEF ChannelOnce
  <2> QED BY <1>1, <2>2, <2>3 DEF InChannel
<1>4. ASSUME NEW k, InChannel(k), k # Head(ch) PROVE InChannel(k)'
  <2>1. PICK i \in 1 .. Len(ch) : ch[i] = k
    BY <1>4 DEF InChannel
  <2>2. i # 1 /\ i - 1 \in 1 .. Len(ch') /\ (i - 1) + 1 = i
    BY <1>1, <1>4, <2>1
  <2>3. ch'[i - 1] = k
    BY <1>1, <2>1, <2>2
  <2> QED BY <2>2, <2>3 DEF InChannel
<1>5. InChannel(Head(ch))
  BY <1>1 DEF InChannel
<1> QED BY <1>1, <1>2, <1>3, <1>4, <1>5

\* The part of PoolInv that is about the messages, and the types it uses.
MsgTypes ==
    /\ ch \in Seq(Msgs) /\ job \in [Workers -> Msgs \cup {NoMsg}]
    /\ sub \in [Msgs -> SubStates]
    /\ fate \in [Msgs -> Fates] /\ released \in [Msgs -> Nat]

AllMsgInv == OneHolder /\ \A m \in Msgs : MsgInv(m)

LEMMA GoesOnKeeps ==
    ASSUME MsgTypes, AllMsgInv, NEW m \in Msgs, SubmitGoesOn(m) PROVE AllMsgInv'
<1>1. PICK s \in {"checked", "blocked", "panicked"} : sub' = [sub EXCEPT ![m] = s]
  BY DEF SubmitGoesOn, SubGoes
<1>2. /\ UNCHANGED <<ch, job, fate, released>> /\ sub[m] \in {"new", "checked", "blocked"}
      /\ \A k \in Msgs : Held(k)' = Held(k)
  BY DEF SubmitGoesOn, Held, InChannel
<1>3. OneHolder'
  BY <1>2 DEF AllMsgInv, OneHolder, InChannel
<1>4. ASSUME NEW k \in Msgs PROVE MsgInv(k)'
  <2>1. MsgInv(k) /\ sub'[k] = IF k = m THEN s ELSE sub[k]
    BY <1>1 DEF AllMsgInv, MsgTypes
  <2> QED BY <1>2, <2>1 DEF MsgInv
<1> QED BY <1>3, <1>4 DEF AllMsgInv

LEMMA SubmitEndsKeeps ==
    ASSUME MsgTypes, AllMsgInv, NEW m \in Msgs, SubmitEnds(m) PROVE AllMsgInv'
<1>1. PICK s \in {"ok", "error"}, f \in Fates \ {"none"} :
          /\ sub' = [sub EXCEPT ![m] = s] /\ fate' = [fate EXCEPT ![m] = f]
          /\ released' = [released EXCEPT ![m] = @ + 1]
  BY DEF SubmitEnds, SubGoes, Ends, Release, Rejections, Fates
<1>2. /\ UNCHANGED <<ch, job>> /\ sub[m] \in {"new", "checked", "blocked"}
      /\ \A k \in Msgs : Held(k)' = Held(k)
  BY DEF SubmitEnds, Held, InChannel
<1>3. OneHolder'
  BY <1>2 DEF AllMsgInv, OneHolder, InChannel
<1>4. ASSUME NEW k \in Msgs PROVE MsgInv(k)'
  <2>1. /\ MsgInv(k) /\ sub'[k] = IF k = m THEN s ELSE sub[k]
        /\ fate'[k] = IF k = m THEN f ELSE fate[k]
        /\ released'[k] = IF k = m THEN released[m] + 1 ELSE released[k]
    BY <1>1 DEF AllMsgInv, MsgTypes
  <2>2. CASE k # m
    BY <1>2, <2>1, <2>2 DEF MsgInv
  <2>3. CASE k = m
    <3>1. released[m] = 0 /\ ~Held(m)
      BY <1>2, <2>1, <2>3 DEF MsgInv
    <3>2. released'[m] = 1 /\ ~Held(m)' /\ sub'[m] = s /\ fate'[m] # "none"
      BY <1>2, <2>1, <2>3, <3>1
    <3> QED BY <2>3, <3>2 DEF MsgInv
  <2> QED BY <2>2, <2>3
<1> QED BY <1>3, <1>4 DEF AllMsgInv

LEMMA EnqueueKeeps ==
    ASSUME MsgTypes, AllMsgInv, NEW m \in Msgs, Enqueues(m) PROVE AllMsgInv'
<1>1. /\ sub' = [sub EXCEPT ![m] = "ok"] /\ ch' = Append(ch, m)
      /\ UNCHANGED <<job, fate, released>> /\ sub[m] \in {"checked", "blocked"}
  BY DEF Enqueues, SubGoes
<1>2. ~Held(m) /\ released[m] = 0
  BY <1>1 DEF AllMsgInv, MsgInv
<1>3. ChannelOnce' /\ \A k : InChannel(k)' <=> InChannel(k) \/ k = m
  BY <1>1, <1>2, AppendHolds DEF AllMsgInv, OneHolder, ChannelOnce, MsgTypes, Held
<1>4. OneHolder'
  BY <1>1, <1>2, <1>3 DEF AllMsgInv, OneHolder, ChannelOnce, Held
<1>5. ASSUME NEW k \in Msgs PROVE MsgInv(k)'
  <2>1. /\ MsgInv(k) /\ sub'[k] = IF k = m THEN "ok" ELSE sub[k]
        /\ Held(k)' <=> Held(k) \/ k = m
    BY <1>1, <1>3 DEF AllMsgInv, MsgTypes, Held
  <2> QED BY <1>1, <1>2, <2>1 DEF MsgInv
<1> QED BY <1>4, <1>5 DEF AllMsgInv

LEMMA DequeueKeeps ==
    ASSUME MsgTypes, AllMsgInv, NEW w \in Workers, job[w] = NoMsg, Dequeues(w) PROVE AllMsgInv'
<1> DEFINE m == Head(ch)
<1>1. /\ ch # <<>> /\ ch' = Tail(ch) /\ job' = [job EXCEPT ![w] = m]
      /\ UNCHANGED <<sub, fate, released>>
  BY DEF Dequeues
<1>2. /\ m \in Msgs /\ InChannel(m) /\ ChannelOnce'
      /\ \A k : InChannel(k)' <=> InChannel(k) /\ k # m
  BY <1>1, TailHolds DEF AllMsgInv, OneHolder, ChannelOnce, MsgTypes
<1> HIDE DEF m
<1>3. \A v \in Workers : job[v] # m /\ job'[v] = IF v = w THEN m ELSE job[v]
  BY <1>1, <1>2 DEF AllMsgInv, OneHolder, MsgTypes
<1>4. OneHolder'
  BY <1>2, <1>3 DEF AllMsgInv, OneHolder, ChannelOnce
<1>5. ASSUME NEW k \in Msgs PROVE MsgInv(k)'
  <2>1. (\E v \in Workers : job'[v] = k) <=> k = m \/ \E v \in Workers : job[v] = k
    BY <1>3, NoMsgAssumption
  <2>2. Held(k)' <=> Held(k)
    BY <1>2, <2>1 DEF Held
  <2>3. MsgInv(k)
    BY DEF AllMsgInv
  <2> QED BY <1>1, <2>2, <2>3 DEF MsgInv
<1> QED BY <1>4, <1>5 DEF AllMsgInv

LEMMA WorkerEndsKeeps ==
    ASSUME MsgTypes, AllMsgInv, NEW w \in Workers, job[w] # NoMsg, WorkerEnds(w)
    PROVE  AllMsgInv'
<1>1. PICK m \in Msgs : m = job[w]
  BY DEF MsgTypes
<1>2. PICK f \in Fates \ {"none"} :
          /\ fate' = [fate EXCEPT ![m] = f] /\ released' = [released EXCEPT ![m] = @ + 1]
  BY <1>1 DEF WorkerEnds, Ends, Release, Rejections, Fates
<1>3. /\ job' = [job EXCEPT ![w] = NoMsg] /\ UNCHANGED <<ch, sub>>
      /\ \A k : InChannel(k)' = InChannel(k)
  BY DEF WorkerEnds, InChannel
<1>4. Held(m) /\ ~InChannel(m) /\ sub[m] = "ok" /\ released[m] = 0
  BY <1>1 DEF AllMsgInv, OneHolder, MsgInv, Held
<1>5. \A v \in Workers : job'[v] = (IF v = w THEN NoMsg ELSE job[v]) /\ (job[v] = m => v = w)
  BY <1>1, <1>3 DEF AllMsgInv, OneHolder, MsgTypes
<1>6. ~InChannel(NoMsg)
  BY NoMsgAssumption DEF InChannel, MsgTypes
<1>7. OneHolder'
  <2>1. ChannelOnce'
    BY <1>3 DEF AllMsgInv, OneHolder, ChannelOnce
  <2>2. \A v \in Workers : ~InChannel(job[v])'
    BY <1>3, <1>5, <1>6 DEF AllMsgInv, OneHolder, InChannel
  <2>3. \A v, u \in Workers : job'[v] = job'[u] /\ job'[v] # NoMsg => v = u
    BY <1>5 DEF AllMsgInv, OneHolder
  <2> QED BY <2>1, <2>2, <2>3 DEF OneHolder, ChannelOnce
<1>8. ASSUME NEW k \in Msgs PROVE MsgInv(k)'
  <2>1. /\ MsgInv(k) /\ sub'[k] = sub[k]
        /\ fate'[k] = IF k = m THEN f ELSE fate[k]
        /\ released'[k] = IF k = m THEN released[m] + 1 ELSE released[k]
    BY <1>2, <1>3 DEF AllMsgInv, MsgTypes
  <2>2. (\E v \in Workers : job'[v] = k) <=> k # m /\ \E v \in Workers : job[v] = k
    BY <1>1, <1>5, NoMsgAssumption
  <2>3. Held(k)' <=> Held(k) /\ k # m
    BY <1>3, <1>4, <2>2 DEF Held
  <2>4. CASE k # m
    BY <2>1, <2>3, <2>4 DEF MsgInv
  <2>5. CASE k = m
    <3>1. released'[m] = 1 /\ ~Held(m)' /\ sub'[m] = "ok" /\ fate'[m] # "none"
      BY <1>4, <2>1, <2>3, <2>5
    <3> QED BY <2>5, <3>1 DEF MsgInv
  <2> QED BY <2>4, <2>5
<1> QED BY <1>7, <1>8 DEF AllMsgInv

LEMMA QuietKeeps == ASSUME AllMsgInv, QuietStep PROVE AllMsgInv'
<1>1. \A k : InChannel(k)' = InChannel(k) /\ Held(k)' = Held(k)
  BY DEF QuietStep, InChannel, Held
<1>2. OneHolder'
  BY <1>1 DEF AllMsgInv, OneHolder, QuietStep
<1>3. \A k \in Msgs : MsgInv(k)'
  BY <1>1 DEF AllMsgInv, MsgInv, QuietStep
<1> QED BY <1>2, <1>3 DEF AllMsgInv

LEMMA MessagesStep == ASSUME PoolInv, [Next]_vars PROVE AllMsgInv'
<1>1. MsgTypes /\ AllMsgInv
  BY DEF PoolInv, TypeOK, MsgTypes, AllMsgInv
<1>2. ASSUME NEW w \in Workers
      PROVE  /\ Dequeues(w) => job[w] = NoMsg
             /\ WorkerEnds(w) => job[w] # NoMsg
  BY DEF PoolInv, WorkerInv, Busy, Dequeues, WorkerEnds
<1> QED
  BY <1>1, <1>2, StepKinds, GoesOnKeeps, SubmitEndsKeeps, EnqueueKeeps, DequeueKeeps,
     WorkerEndsKeeps, QuietKeeps

-----------------------------------------------------------------------------
(* Types *)

LEMMA MsgTypesStep == ASSUME PoolInv, [Next]_vars PROVE MsgTypes' /\ Len(ch') <= ChannelSize
<1>1. MsgTypes /\ Len(ch) <= ChannelSize /\ Len(ch) \in Nat /\ ChannelSize \in Nat
  BY PoolAssumption DEF PoolInv, TypeOK, MsgTypes
<1>2. CASE QuietStep
  BY <1>1, <1>2 DEF QuietStep, MsgTypes
<1>3. ASSUME NEW m \in Msgs, SubmitGoesOn(m) PROVE MsgTypes' /\ ch' = ch
  BY <1>1, <1>3 DEF SubmitGoesOn, SubGoes, MsgTypes, SubStates
<1>4. ASSUME NEW m \in Msgs, SubmitEnds(m) PROVE MsgTypes' /\ ch' = ch
  <2>1. PICK s \in SubStates, f \in Fates :
            /\ sub' = [sub EXCEPT ![m] = s] /\ fate' = [fate EXCEPT ![m] = f]
            /\ released' = [released EXCEPT ![m] = @ + 1] /\ UNCHANGED <<ch, job>>
    BY <1>4 DEF SubmitEnds, SubGoes, Ends, Release, Rejections, Fates, SubStates
  <2> QED BY <1>1, <2>1 DEF MsgTypes
<1>5. ASSUME NEW m \in Msgs, Enqueues(m) PROVE MsgTypes' /\ Len(ch') <= ChannelSize
  <2>1. ch' \in Seq(Msgs) /\ Len(ch') = Len(ch) + 1
    BY <1>1, <1>5 DEF Enqueues, MsgTypes
  <2> QED BY <1>1, <1>5, <2>1 DEF Enqueues, SubGoes, MsgTypes, SubStates
<1>6. ASSUME NEW w \in Workers, Dequeues(w) PROVE MsgTypes' /\ Len(ch') <= ChannelSize
  <2>1. ch' \in Seq(Msgs) /\ Len(ch') = Len(ch) - 1 /\ Head(ch) \in Msgs
    BY <1>1, <1>6 DEF Dequeues, MsgTypes
  <2> QED BY <1>1, <1>6, <2>1 DEF Dequeues, MsgTypes
<1>7. ASSUME NEW w \in Workers, WorkerEnds(w) PROVE MsgTypes' /\ ch' = ch
  <2>1. PICK f \in Fates :
            /\ fate' = [fate EXCEPT ![job[w]] = f]
            /\ released' = [released EXCEPT ![job[w]] = @ + 1]
    BY <1>7 DEF WorkerEnds, Ends, Release, Rejections, Fates
  <2>2. job' = [job EXCEPT ![w] = NoMsg] /\ UNCHANGED <<ch, sub>>
    BY <1>7 DEF WorkerEnds
  <2>3. job[w] \in Msgs
    BY <1>7 DEF PoolInv, TypeOK, WorkerInv, WorkerEnds
  <2> QED BY <1>1, <2>1, <2>2, <2>3 DEF MsgTypes
<1> QED BY <1>1, <1>2, <1>3, <1>4, <1>5, <1>6, <1>7, StepKinds

\* The types of the workers, of the circuit with its probe, and of the rest.
WorkerTypes ==
    /\ wpc \in [Workers -> WorkStates] /\ draining \subseteq Workers
    /\ attempt \in [Workers -> 0 .. Attempts - 1]

CircuitTypes ==
    /\ circuitOpen \in BOOLEAN /\ failCount \in Nat
    /\ once \in BOOLEAN /\ recoveryStop \in {"nil", "open", "closed"}
    /\ probes \in [ProbeStates -> Nat]

FlagTypes ==
    /\ chClosed \in BOOLEAN /\ closed \in BOOLEAN /\ cancelled \in BOOLEAN
    /\ spc \in ShutStates /\ backpressure \in Policies
    /\ sinkUp \in BOOLEAN /\ outages \in 0 .. MaxOutages

LEMMA TypeParts ==
    TypeOK <=> MsgTypes /\ Len(ch) <= ChannelSize /\ WorkerTypes /\ CircuitTypes /\ FlagTypes
BY DEF TypeOK, MsgTypes, WorkerTypes, CircuitTypes, FlagTypes

LEMMA WorkerTypesStep ==
    ASSUME WorkerTypes, [Next]_vars PROVE WorkerTypes'
<1> USE DEF WorkerTypes, workerVars
<1>1. CASE UNCHANGED workerVars
  BY <1>1
<1>2. ASSUME NEW w \in Workers, Worker(w) PROVE WorkerTypes'
  <2>1. ASSUME Done(w) PROVE WorkerTypes'
    BY <2>1 DEF Done, WorkerGoes, WorkStates, Attempts
  <2>2. ASSUME NEW p \in WorkStates, WorkerGoes(w, p), UNCHANGED <<draining, attempt>>
        PROVE  WorkerTypes'
    BY <2>2 DEF WorkerGoes
  <2>3. CASE WorkerDrains(w)
    BY <2>3 DEF WorkerDrains
  <2>4. CASE WorkerReceives(w) \/ WorkerExits(w)
    BY <2>2, <2>4 DEF WorkerReceives, WorkerExits, WorkStates
  <2>5. CASE WorkerReadsCircuit(w)
    BY <2>1, <2>2, <2>5 DEF WorkerReadsCircuit, WorkStates
  <2>6. CASE SendOK(w) \/ SendPanics(w)
    BY <2>1, <2>6 DEF SendOK, SendPanics
  <2>7. CASE SendFails(w)
    <3>1. CASE /\ attempt[w] + 1 < Attempts /\ attempt' = [attempt EXCEPT ![w] = @ + 1]
               /\ WorkerGoes(w, "backoff") /\ UNCHANGED draining
      <4>1. attempt' \in [Workers -> 0 .. Attempts - 1]
        BY <3>1 DEF Attempts
      <4> QED BY <3>1, <4>1 DEF WorkerGoes, WorkStates
    <3> QED BY <2>1, <2>7, <3>1 DEF SendFails
  <2>8. CASE BackoffEnds(w)
    BY <2>1, <2>2, <2>8 DEF BackoffEnds, WorkStates
  <2> QED BY <1>2, <2>3, <2>4, <2>5, <2>6, <2>7, <2>8 DEF Worker
<1>3. ASSUME NEW m \in Msgs, Submit(m) PROVE UNCHANGED workerVars
  BY <1>3 DEF Submit, SubmitCheck, SubmitPanics, SubmitSend, SubmitFull, SubmitTimeout
<1>4. ASSUME Probe \/ Shutdown \/ SinkGoesDown \/ SinkComesBack PROVE UNCHANGED workerVars
  BY <1>4 DEF Probe, ProbeTick, ProbeStopped, ProbeHealth, ProbeResets, ProbeExits,
              Shutdown, ShutdownMarks, ShutdownCancels, ShutdownClosesChannel,
              ShutdownStopsProbe, ShutdownEnds, SinkGoesDown, SinkComesBack
<1>5. ASSUME UNCHANGED vars PROVE UNCHANGED workerVars
  BY <1>5 DEF vars
<1> QED BY <1>1, <1>2, <1>3, <1>4, <1>5 DEF Next

LEMMA CircuitTypesStep ==
    ASSUME CircuitTypes, [Next]_vars PROVE CircuitTypes'
<1> USE DEF CircuitTypes, circuitVars
<1>1. CASE UNCHANGED circuitVars
  BY <1>1
<1>2. ASSUME resetFailures, UNCHANGED <<once, recoveryStop>>, probes' \in [ProbeStates -> Nat]
      PROVE  CircuitTypes'
  BY <1>2 DEF resetFailures
<1>3. ASSUME recordFailure PROVE CircuitTypes'
  <2>1. failCount' = failCount + 1 /\ (circuitOpen' = TRUE \/ circuitOpen' = circuitOpen)
    BY <1>3, Zenon DEF recordFailure
  <2>2. \/ UNCHANGED <<once, recoveryStop, probes>>
        \/ /\ once' = TRUE /\ recoveryStop' = "open"
           /\ probes' = [probes EXCEPT !["wait"] = @ + 1]
    BY <1>3, Zenon DEF recordFailure, startRecovery
  <2>3. failCount' \in Nat
    BY <2>1
  <2>4. circuitOpen' \in BOOLEAN /\ once' \in BOOLEAN
    BY <2>1, <2>2, Zenon
  <2>5. recoveryStop' \in {"nil", "open", "closed"} /\ probes' \in [ProbeStates -> Nat]
    BY <2>2 DEF ProbeStates
  <2> QED BY <2>3, <2>4, <2>5
<1>4. ASSUME NEW p \in ProbeStates, NEW q \in ProbeStates, ProbeMoves(p, q)
      PROVE  probes' \in [ProbeStates -> Nat]
  BY <1>4 DEF ProbeMoves
<1>5. ASSUME NEW w \in Workers, Worker(w) PROVE CircuitTypes'
  <2>1. CASE SendOK(w)
    BY <1>2, <2>1 DEF SendOK
  <2>2. CASE SendFails(w)
    BY <1>1, <1>3, <2>2 DEF SendFails
  <2>3. CASE \/ WorkerDrains(w) \/ WorkerReceives(w) \/ WorkerExits(w)
             \/ WorkerReadsCircuit(w) \/ SendPanics(w) \/ BackoffEnds(w)
    BY <1>1, <2>3 DEF WorkerDrains, WorkerReceives, WorkerExits, WorkerReadsCircuit,
                      SendPanics, BackoffEnds
  <2> QED BY <1>5, <2>1, <2>2, <2>3 DEF Worker
<1>6. ASSUME Probe PROVE CircuitTypes'
  <2>1. CASE ProbeTick \/ ProbeStopped \/ ProbeHealth
    <3>1. PICK p \in ProbeStates, q \in ProbeStates : ProbeMoves(p, q)
      BY <2>1 DEF ProbeTick, ProbeStopped, ProbeHealth, ProbeStates
    <3> QED BY <1>4, <2>1, <3>1 DEF ProbeTick, ProbeStopped, ProbeHealth
  <2>2. CASE ProbeResets
    BY <1>2, <1>4, <2>2 DEF ProbeResets, ProbeStates
  <2>3. CASE ProbeExits
    <3>1. probes' \in [ProbeStates -> Nat]
      BY <2>3 DEF ProbeExits, ProbeStates
    <3>2. once' = FALSE /\ UNCHANGED <<circuitOpen, failCount, recoveryStop>>
      BY <2>3 DEF ProbeExits
    <3> QED BY <3>1, <3>2
  <2> QED BY <1>6, <2>1, <2>2, <2>3 DEF Probe
<1>7. ASSUME NEW m \in Msgs, Submit(m) PROVE UNCHANGED circuitVars
  BY <1>7 DEF Submit, SubmitCheck, SubmitPanics, SubmitSend, SubmitFull, SubmitTimeout
<1>8. CASE ShutdownStopsProbe
  BY <1>8 DEF ShutdownStopsProbe
<1>9. ASSUME \/ ShutdownMarks \/ ShutdownCancels \/ ShutdownClosesChannel \/ ShutdownEnds
             \/ SinkGoesDown \/ SinkComesBack
      PROVE  UNCHANGED circuitVars
  BY <1>9 DEF ShutdownMarks, ShutdownCancels, ShutdownClosesChannel, ShutdownEnds,
              SinkGoesDown, SinkComesBack
<1>10. ASSUME UNCHANGED vars PROVE UNCHANGED circuitVars
  BY <1>10 DEF vars
<1> QED BY <1>1, <1>5, <1>6, <1>7, <1>8, <1>9, <1>10 DEF Next, Shutdown

LEMMA FlagTypesStep ==
    ASSUME FlagTypes, [Next]_vars PROVE FlagTypes'
<1> USE DEF FlagTypes, flagVars, envVars
<1>1. CASE UNCHANGED <<chClosed, flagVars, spc, envVars>>
  BY <1>1
<1>2. ASSUME NEW m \in Msgs, Submit(m) PROVE UNCHANGED <<chClosed, flagVars, spc, envVars>>
  BY <1>2 DEF Submit, SubmitCheck, SubmitPanics, SubmitSend, SubmitFull, SubmitTimeout, chanVars
<1>3. ASSUME NEW w \in Workers, Worker(w) PROVE UNCHANGED <<chClosed, flagVars, spc, envVars>>
  BY <1>3 DEF Worker, WorkerDrains, WorkerReceives, WorkerExits, WorkerReadsCircuit, SendOK,
              SendFails, SendPanics, BackoffEnds, chanVars
<1>4. ASSUME Probe PROVE UNCHANGED <<chClosed, flagVars, spc, envVars>>
  BY <1>4 DEF Probe, ProbeTick, ProbeStopped, ProbeHealth, ProbeResets, ProbeExits, chanVars
<1>5. CASE Shutdown
  <2>1. spc' \in ShutStates
    BY <1>5 DEF Shutdown, ShutdownMarks, ShutdownCancels, ShutdownClosesChannel,
                ShutdownStopsProbe, ShutdownEnds, ShutGoes, ShutStates
  <2>2. UNCHANGED envVars
    BY <1>5 DEF Shutdown, ShutdownMarks, ShutdownCancels, ShutdownClosesChannel,
                ShutdownStopsProbe, ShutdownEnds
  <2>3. chClosed' \in BOOLEAN /\ closed' \in BOOLEAN /\ cancelled' \in BOOLEAN
    BY <1>5 DEF Shutdown, ShutdownMarks, ShutdownCancels, ShutdownClosesChannel,
                ShutdownStopsProbe, ShutdownEnds, chanVars
  <2> QED BY <2>1, <2>2, <2>3
<1>6. CASE SinkGoesDown \/ SinkComesBack
  <2>1. UNCHANGED <<chClosed, flagVars, spc, backpressure>> /\ sinkUp' \in BOOLEAN
    BY <1>6 DEF SinkGoesDown, SinkComesBack, chanVars
  <2>2. outages' \in 0 .. MaxOutages
    BY <1>6, PoolAssumption DEF SinkGoesDown, SinkComesBack
  <2> QED BY <2>1, <2>2
<1>7. ASSUME UNCHANGED vars PROVE UNCHANGED <<chClosed, flagVars, spc, envVars>>
  BY <1>7 DEF vars, chanVars
<1> QED BY <1>1, <1>2, <1>3, <1>4, <1>5, <1>6, <1>7 DEF Next

-----------------------------------------------------------------------------
(* The workers, and the theorems *)

LEMMA WorkersStep ==
    ASSUME PoolInv, [Next]_vars
    PROVE  /\ \A w \in Workers : WorkerInv(w)'
           /\ spc' = "done" => \A w \in Workers : wpc'[w] = "exited"
<1> USE DEF PoolInv, WorkerInv
<1>1. /\ wpc \in [Workers -> WorkStates] /\ job \in [Workers -> Msgs \cup {NoMsg}]
      /\ ch \in Seq(Msgs)
  BY DEF TypeOK
<1>2. ASSUME UNCHANGED <<wpc, job, spc>>, chClosed => chClosed' /\ ch' = ch
      PROVE  /\ \A w \in Workers : WorkerInv(w)'
             /\ spc' = "done" => \A w \in Workers : wpc'[w] = "exited"
  BY <1>2
<1>3. ASSUME NEW m \in Msgs, Submit(m)
      PROVE  UNCHANGED <<wpc, job, spc>> /\ (chClosed => chClosed' /\ ch' = ch)
  <2> HIDE DEF PoolInv, WorkerInv
  <2>1. CASE SubmitSend(m)
    BY <2>1 DEF SubmitSend, workerVars
  <2>2. CASE SubmitCheck(m) \/ SubmitPanics(m)
    BY <2>2 DEF SubmitCheck, SubmitPanics, chanVars, workerVars
  <2>3. CASE SubmitFull(m) \/ SubmitTimeout(m)
    BY <2>3 DEF SubmitFull, SubmitTimeout, chanVars, workerVars
  <2> QED BY <1>3, <2>1, <2>2, <2>3 DEF Submit
<1>4. ASSUME Probe \/ SinkGoesDown \/ SinkComesBack \/ UNCHANGED vars
      PROVE  UNCHANGED <<wpc, job, spc, chClosed, ch>>
  BY <1>4 DEF Probe, ProbeTick, ProbeStopped, ProbeHealth, ProbeResets, ProbeExits,
              SinkGoesDown, SinkComesBack, vars, chanVars, workerVars
<1>5. CASE Shutdown
  <2>1. UNCHANGED <<wpc, job, ch>> /\ (chClosed => chClosed')
    <3> HIDE DEF PoolInv, WorkerInv
    <3>1. CASE ShutdownClosesChannel
      BY <3>1 DEF ShutdownClosesChannel, workerVars
    <3>2. CASE ShutdownMarks \/ ShutdownCancels \/ ShutdownStopsProbe \/ ShutdownEnds
      BY <3>2 DEF ShutdownMarks, ShutdownCancels, ShutdownStopsProbe, ShutdownEnds,
                  chanVars, workerVars
    <3> QED BY <1>5, <3>1, <3>2 DEF Shutdown
  <2>2. spc' = "done" => \A w \in Workers : wpc[w] = "exited"
    BY <1>5 DEF Shutdown, ShutdownMarks, ShutdownCancels, ShutdownClosesChannel,
                ShutdownStopsProbe, ShutdownEnds, ShutGoes
  <2> QED BY <2>1, <2>2
<1>6. ASSUME NEW w \in Workers, Worker(w)
      PROVE  /\ \A v \in Workers : WorkerInv(v)'
             /\ spc' = "done" => \A v \in Workers : wpc'[v] = "exited"
  <2>1. UNCHANGED <<chClosed, spc>> /\ wpc[w] # "exited"
    BY <1>6 DEF Worker, WorkerDrains, WorkerReceives, WorkerExits, WorkerReadsCircuit, SendOK,
                SendFails, SendPanics, BackoffEnds, chanVars
  <2>2. spc # "done"
    BY <2>1
  <2>3. ch = <<>> => ch' = ch
    BY <1>6 DEF Worker, WorkerDrains, WorkerReceives, WorkerExits, WorkerReadsCircuit, SendOK,
                SendFails, SendPanics, BackoffEnds, chanVars
  <2>4. ASSUME NEW v \in Workers, v # w PROVE wpc'[v] = wpc[v] /\ job'[v] = job[v]
    BY <1>1, <1>6, <2>4
    DEF Worker, WorkerDrains, WorkerReceives, WorkerExits, WorkerReadsCircuit, SendOK,
        SendFails, SendPanics, BackoffEnds, Done, WorkerGoes
  <2>5. WorkerInv(w)'
    <3>1. CASE Done(w)
      BY <1>1, <3>1 DEF Done, WorkerGoes, Busy
    <3>2. CASE WorkerReceives(w)
      <4>1. Head(ch) \in Msgs
        BY <1>1, <3>2 DEF WorkerReceives
      <4> QED BY <1>1, <3>2, <4>1, NoMsgAssumption DEF WorkerReceives, WorkerGoes, Busy
    <3>3. CASE WorkerExits(w)
      BY <1>1, <3>3 DEF WorkerExits, WorkerGoes, Busy, chanVars
    <3>4. CASE WorkerDrains(w)
      BY <3>4 DEF WorkerDrains, chanVars
    <3>5. CASE wpc[w] \in Busy /\ job' = job /\ \E p \in Busy : WorkerGoes(w, p)
      BY <1>1, <3>5 DEF WorkerGoes, Busy
    <3> QED BY <1>6, <3>1, <3>2, <3>3, <3>4, <3>5
            DEF Worker, WorkerReadsCircuit, SendOK, SendFails, SendPanics, BackoffEnds, Busy
  <2> QED BY <2>1, <2>2, <2>3, <2>4, <2>5
<1> QED BY <1>2, <1>3, <1>4, <1>5, <1>6 DEF Next

LEMMA PoolInit == Init => PoolInv
<1> SUFFICES ASSUME Init PROVE PoolInv
  OBVIOUS
<1> USE DEF Init
<1>1. TypeOK
  <2>1. ch \in Seq(Msgs) /\ Len(ch) = 0
    OBVIOUS
  <2>2. MsgTypes
    BY <2>1 DEF MsgTypes, SubStates, Fates
  <2>3. WorkerTypes
    BY DEF WorkerTypes, WorkStates, Attempts
  <2>4. CircuitTypes
    <3>1. failCount \in Nat /\ probes \in [ProbeStates -> Nat]
      OBVIOUS
    <3> QED BY <3>1, Zenon DEF CircuitTypes
  <2>5. FlagTypes
    <3>1. spc \in ShutStates /\ outages \in 0 .. MaxOutages
      BY PoolAssumption DEF ShutStates
    <3> QED BY <3>1, Zenon DEF FlagTypes
  <2> QED BY <2>1, <2>2, <2>3, <2>4, <2>5, TypeParts, PoolAssumption
<1>2. \A k : ~InChannel(k)
  BY DEF InChannel
<1>3. OneHolder
  BY <1>2 DEF OneHolder
<1>4. ASSUME NEW m \in Msgs PROVE MsgInv(m)
  BY <1>2, NoMsgAssumption DEF MsgInv, Held
<1>5. ASSUME NEW w \in Workers PROVE WorkerInv(w)
  BY DEF WorkerInv, Busy
<1> QED BY <1>1, <1>3, <1>4, <1>5 DEF PoolInv

LEMMA PoolStep == PoolInv /\ [Next]_vars => PoolInv'
<1> SUFFICES ASSUME PoolInv, [Next]_vars PROVE PoolInv'
  OBVIOUS
<1>1. WorkerTypes /\ CircuitTypes /\ FlagTypes
  BY TypeParts DEF PoolInv
<1>2. TypeOK'
  <2>1. MsgTypes' /\ Len(ch') <= ChannelSize
    BY MsgTypesStep
  <2>2. WorkerTypes' /\ CircuitTypes' /\ FlagTypes'
    BY <1>1, WorkerTypesStep, CircuitTypesStep, FlagTypesStep
  <2> QED BY <2>1, <2>2 DEF TypeOK, MsgTypes, WorkerTypes, CircuitTypes, FlagTypes
<1>3. AllMsgInv'
  BY MessagesStep
<1> QED BY <1>2, <1>3, WorkersStep DEF PoolInv, AllMsgInv

LEMMA PoolInvariant == Spec => []PoolInv
BY PoolInit, PoolStep, PTL DEF Spec

\* Every variable of the pool keeps its type; the channel never exceeds its
\* capacity and no message is tried more than three times.
THEOREM PoolTypeOK == Spec => []TypeOK
<1>1. PoolInv => TypeOK
  BY DEF PoolInv
<1> QED BY <1>1, PoolInvariant, PTL

\* A message goes back to the sync.Pool at most once, on whichever of the many
\* paths of Submit, the workers and Shutdown, and nobody holds it afterwards.
THEOREM ReleasedOnce == Spec => []NotUsedAfterRelease
<1>1. PoolInv => NotUsedAfterRelease
  <2> SUFFICES ASSUME PoolInv, NEW m \in Msgs, released[m] # 0
               PROVE  /\ released[m] = 1 /\ sub[m] \in {"ok", "error"} /\ ~InChannel(m)
                      /\ \A w \in Workers : job[w] # m
    BY DEF NotUsedAfterRelease
  <2>1. MsgInv(m) /\ sub[m] \in SubStates
    BY DEF PoolInv, TypeOK
  <2> QED BY <2>1 DEF MsgInv, Held, SubStates
<1> QED BY <1>1, PoolInvariant, PTL

\* When Shutdown has seen all workers exit, every message for which Submit
\* returned nil has been delivered, logged or dropped.
THEOREM DoneMeansSettled == Spec => []ShutdownSettles
<1>1. PoolInv => ShutdownSettles
  <2> SUFFICES ASSUME PoolInv, spc = "done", NEW m \in Msgs, sub[m] = "ok", fate[m] = "none"
               PROVE  FALSE
    BY DEF ShutdownSettles
  <2>1. \A w \in Workers : wpc[w] = "exited" /\ job[w] = NoMsg /\ ch = <<>>
    BY DEF PoolInv, WorkerInv, Busy
  <2>2. ch = <<>>
    BY <2>1, PoolAssumption
  <2>3. ~Held(m)
    BY <2>1, <2>2, NoMsgAssumption DEF Held, InChannel
  <2> QED BY <2>3 DEF PoolInv, MsgInv
<1> QED BY <1>1, PoolInvariant, PTL

-----------------------------------------------------------------------------
(* The pool implements Delivery *)

LEMMA StatusCases ==
    ASSUME NEW m \in Msgs
    PROVE  /\ fate[m] = "delivered" => Status(m) = "delivered"
           /\ fate[m] = "wal" => Status(m) = "logged"
           /\ fate[m] \in {"dropped", "walFailed"} => Status(m) = "dropped"
           /\ fate[m] = "refused" => Status(m) = "refused"
           /\ fate[m] = "none" => Status(m) = IF sub[m] = "ok" THEN "taken"
                                              ELSE IF sub[m] = "panicked" THEN "abandoned"
                                              ELSE "offered"
BY DEF Status

\* A step that ends one message, or lets one go on, is a step of Delivery.
LEMMA OneMoves ==
    ASSUME NEW m \in Msgs, \A k \in Msgs \ {m} : sub'[k] = sub[k] /\ fate'[k] = fate[k],
           UNCHANGED backpressure,
           \/ Status(m)' = Status(m)
           \/ Status(m) = "offered" /\ Status(m)' \in {"taken", "refused", "abandoned"}
           \/ Status(m) = "taken" /\ Status(m)' = "delivered"
           \/ Status(m) \in {"offered", "taken"} /\ Status(m)' = "logged"
           \/ /\ Status(m) \in {"offered", "taken"} /\ Status(m)' = "dropped"
              /\ mayDropBar
    PROVE  [D!Next]_<<stateBar, mayDropBar>>
<1>1. \A k \in Msgs \ {m} : Status(k)' = Status(k)
  BY DEF Status
<1>2. stateBar' = [stateBar EXCEPT ![m] = Status(m)']
  BY <1>1 DEF stateBar
<1>3. stateBar[m] = Status(m) /\ UNCHANGED mayDropBar
  BY DEF stateBar, mayDropBar
<1>4. CASE Status(m)' = Status(m)
  BY <1>2, <1>3, <1>4 DEF stateBar
<1>5. CASE ~(Status(m)' = Status(m))
  <2>1. D!Next
    BY <1>2, <1>3, <1>5
    DEF D!Next, D!Take, D!Refuse, D!Abandon, D!Deliver, D!Log, D!Drop, D!Moves
  <2> QED BY <2>1
<1> QED BY <1>4, <1>5

LEMMA PolicyKept == [Next]_vars => UNCHANGED backpressure
<1>1. ASSUME NEW m \in Msgs, Submit(m) PROVE UNCHANGED backpressure
  BY <1>1 DEF Submit, SubmitCheck, SubmitPanics, SubmitSend, SubmitFull, SubmitTimeout, envVars
<1>2. ASSUME NEW w \in Workers, Worker(w) PROVE UNCHANGED backpressure
  BY <1>2 DEF Worker, WorkerDrains, WorkerReceives, WorkerExits, WorkerReadsCircuit, SendOK,
              SendFails, SendPanics, BackoffEnds, envVars
<1>3. ASSUME Probe \/ Shutdown \/ SinkGoesDown \/ SinkComesBack PROVE UNCHANGED backpressure
  BY <1>3 DEF Probe, ProbeTick, ProbeStopped, ProbeHealth, ProbeResets, ProbeExits,
              Shutdown, ShutdownMarks, ShutdownCancels, ShutdownClosesChannel,
              ShutdownStopsProbe, ShutdownEnds, SinkGoesDown, SinkComesBack, envVars
<1> QED BY <1>1, <1>2, <1>3 DEF Next, vars, envVars

LEMMA DeliveryStep ==
    ASSUME PoolInv, [Next]_vars
    PROVE  [D!Next]_<<stateBar, mayDropBar>>
<1>1. UNCHANGED backpressure /\ MsgTypes
  BY PolicyKept DEF PoolInv, TypeOK, MsgTypes
<1>2. ASSUME UNCHANGED <<sub, fate>>
      PROVE  [D!Next]_<<stateBar, mayDropBar>>
  <2>1. \A k \in Msgs : Status(k)' = Status(k)
    BY <1>2 DEF Status
  <2> QED BY <1>1, <2>1 DEF stateBar, mayDropBar
<1>3. ASSUME NEW m \in Msgs, SubmitGoesOn(m)
      PROVE  [D!Next]_<<stateBar, mayDropBar>>
  <2>1. PICK s \in {"checked", "blocked", "panicked"} : sub' = [sub EXCEPT ![m] = s]
    BY <1>3 DEF SubmitGoesOn, SubGoes
  <2>2. fate' = fate /\ sub[m] \in {"new", "checked", "blocked"} /\ fate[m] = "none"
    BY <1>3 DEF SubmitGoesOn, PoolInv, MsgInv
  <2>3. Status(m) = "offered" /\ Status(m)' \in {"offered", "abandoned"}
    BY <1>1, <2>1, <2>2 DEF Status, MsgTypes
  <2> QED BY <1>1, <2>1, <2>2, <2>3, OneMoves DEF MsgTypes
<1>4. ASSUME NEW m \in Msgs, SubmitEnds(m)
      PROVE  [D!Next]_<<stateBar, mayDropBar>>
  <2>1. PICK s \in SubStates, f \in Rejections \cup {"refused"} :
            /\ sub' = [sub EXCEPT ![m] = s] /\ fate' = [fate EXCEPT ![m] = f]
            /\ f = "refused" \/ MayReject(f)
    BY <1>4 DEF SubmitEnds, SubGoes, Ends, SubStates
  <2>2. sub[m] \in {"new", "checked", "blocked"} /\ fate[m] = "none"
    BY <1>4 DEF SubmitEnds, PoolInv, MsgInv
  <2>3. Status(m) = "offered"
    BY <2>2, StatusCases
  <2>4. \/ Status(m)' \in {"logged", "refused"}
        \/ Status(m)' = "dropped" /\ mayDropBar
    BY <1>1, <2>1 DEF Status, MsgTypes, Rejections, MayReject, mayDropBar
  <2> QED BY <1>1, <2>1, <2>3, <2>4, OneMoves DEF MsgTypes
<1>5. ASSUME NEW m \in Msgs, Enqueues(m)
      PROVE  [D!Next]_<<stateBar, mayDropBar>>
  <2>1. /\ sub' = [sub EXCEPT ![m] = "ok"] /\ fate' = fate
        /\ sub[m] \in {"checked", "blocked"} /\ fate[m] = "none"
    BY <1>5 DEF Enqueues, SubGoes, PoolInv, MsgInv
  <2>2. Status(m) = "offered" /\ Status(m)' = "taken"
    BY <1>1, <2>1 DEF Status, MsgTypes
  <2> QED BY <1>1, <2>1, <2>2, OneMoves DEF MsgTypes
<1>6. ASSUME NEW w \in Workers, WorkerEnds(w)
      PROVE  [D!Next]_<<stateBar, mayDropBar>>
  <2>1. job[w] \in Msgs
    BY <1>6 DEF PoolInv, TypeOK, WorkerInv, WorkerEnds
  <2>2. PICK m \in Msgs : m = job[w]
    BY <2>1
  <2>3. sub' = sub /\ sub[m] = "ok" /\ fate[m] = "none"
    BY <1>6, <2>2 DEF WorkerEnds, PoolInv, MsgInv, Held
  <2>4. PICK f \in Rejections \cup {"delivered"} :
            fate' = [fate EXCEPT ![m] = f] /\ (f = "delivered" \/ MayReject(f))
    BY <1>6, <2>2 DEF WorkerEnds, Ends
  <2>5. Status(m) = "taken"
    BY <2>3, StatusCases
  <2>6. \/ Status(m)' \in {"logged", "delivered"}
        \/ Status(m)' = "dropped" /\ mayDropBar
    BY <1>1, <2>4 DEF Status, MsgTypes, Rejections, MayReject, mayDropBar
  <2> QED BY <1>1, <2>3, <2>4, <2>5, <2>6, OneMoves DEF MsgTypes
<1> QED
  BY <1>2, <1>3, <1>4, <1>5, <1>6, StepKinds DEF QuietStep, Dequeues

\* The pool implements Delivery (worker.go): whatever the submitters, the
\* workers, the circuit and Shutdown do, each message ends at most once and for
\* good, nothing is delivered that was not taken, and with the fallback policy
\* nothing is dropped unless writing the log fails.
THEOREM PoolDelivers == Spec => ImplementsDelivery
<1>1. Init => D!Init
  <2> SUFFICES ASSUME Init PROVE D!Init
    OBVIOUS
  <2>1. \A m \in Msgs : Status(m) = "offered"
    BY StatusCases DEF Init
  <2> QED BY <2>1, PoolAssumption DEF D!Init, stateBar, mayDropBar
<1>2. PoolInv /\ [Next]_vars => [D!Next]_<<stateBar, mayDropBar>>
  BY DeliveryStep
<1> QED BY <1>1, <1>2, PoolInvariant, PTL DEF Spec, ImplementsDelivery, D!Spec

=============================================================================
