----------------------------- MODULE WorkerPool -----------------------------
(***************************************************************************)
(* The delivery engine of internal/sink/worker.go: a bounded channel, its  *)
(* workers, the circuit breaker with its recovery probe, Submit and        *)
(* SubmitStrict called from any number of goroutines, and Shutdown.        *)
(*                                                                         *)
(* A step of a goroutine ends where another goroutine can see or change    *)
(* what it uses: Submit reads "closed" under the lock and sends after      *)
(* releasing it; a worker reads the circuit state before it sends; the     *)
(* probe closes the circuit before its deferred function resets            *)
(* recoveryOnce.  The sink and the WAL are the environment: a Send or a    *)
(* HealthCheck succeeds while the sink is up.                              *)
(***************************************************************************)
EXTENDS Integers, Sequences

CONSTANTS
    Workers,        \* worker goroutines
    Msgs,           \* messages, each submitted once
    Strict,         \* the messages submitted with SubmitStrict
    ChannelSize,
    MaxFails,
    Policies,       \* the backpressure policies a pool may be created with
    WALFails,       \* whether walWriter.WriteMessage may return an error
    Panics,         \* which sink calls may panic: "send", "probe"
    MaxOutages      \* bound: how often the sink goes down

ASSUME PoolAssumption ==
    /\ ChannelSize \in Nat \ {0} /\ MaxFails \in Nat \ {0}
    /\ MaxOutages \in Nat /\ Strict \subseteq Msgs /\ Workers # {}
    /\ Policies \subseteq {"drop", "block", "fallback"}
    /\ WALFails \in BOOLEAN /\ Panics \subseteq {"send", "probe"}

Attempts == 3

CONSTANT NoMsg
ASSUME NoMsgAssumption == NoMsg \notin Msgs

VARIABLES
    ch,           \* wp.ch
    chClosed,     \* close(wp.ch) has happened
    closed,       \* wp.closed
    cancelled,    \* wp.ctx is done
    circuitOpen,
    failCount,
    sub,          \* the state of each message's Submit call
    wpc,          \* program counter of each worker
    draining,     \* the workers in their for-range drain loop
    job,          \* the message a worker processes
    attempt,      \* failed Sends of that message
    fate,         \* where each message ended
    released,     \* how often each message went back to the message pool
    once,         \* recoveryOnce has run
    recoveryStop, \* "nil", "open" or "closed"
    probes,       \* recovery goroutines at each point of recoveryLoop
    spc,          \* progress of Shutdown
    backpressure, \* set by NewWorkerPool
    sinkUp, outages

chanVars    == <<ch, chClosed>>
flagVars    == <<closed, cancelled>>
circuitVars == <<circuitOpen, failCount, once, recoveryStop, probes>>
workerVars  == <<wpc, draining, job, attempt>>
msgVars     == <<fate, released>>
envVars     == <<backpressure, sinkUp, outages>>
vars == <<chanVars, flagVars, circuitVars, workerVars, msgVars, sub, spc, envVars>>

SubStates  == {"new", "checked", "blocked", "ok", "error", "panicked"}
WorkStates == {"select", "got", "send", "backoff", "exited"}
Fates      == {"none", "delivered", "wal", "walFailed", "dropped", "refused"}
ProbeStates == {"wait", "probe", "reset", "exit"}
ShutStates == {"running", "closed", "cancelled", "chClosed", "waiting", "done", "timeout"}

Init ==
    /\ ch = <<>> /\ chClosed = FALSE /\ closed = FALSE /\ cancelled = FALSE
    /\ circuitOpen = FALSE /\ failCount = 0
    /\ sub = [m \in Msgs |-> "new"]
    /\ wpc = [w \in Workers |-> "select"] /\ draining = {}
    /\ job = [w \in Workers |-> NoMsg]
    /\ attempt = [w \in Workers |-> 0]
    /\ fate = [m \in Msgs |-> "none"] /\ released = [m \in Msgs |-> 0]
    /\ once = FALSE /\ recoveryStop = "nil"
    /\ probes = [p \in ProbeStates |-> 0]
    /\ spc = "running" /\ backpressure \in Policies
    /\ sinkUp = TRUE /\ outages = 0

-----------------------------------------------------------------------------
(* What several handlers share *)

Release(m) == released' = [released EXCEPT ![m] = @ + 1]

\* handleRejected: only the fallback policy writes the WAL; a WAL error is
\* logged, and the message is released in every case.
handleRejected(m) ==
    /\ \E f \in IF backpressure # "fallback" THEN {"dropped"}
                ELSE IF WALFails THEN {"wal", "walFailed"} ELSE {"wal"} :
            fate' = [fate EXCEPT ![m] = f]
    /\ Release(m)

\* startRecovery, called with wp.mu held.
startRecovery ==
    IF once
    THEN UNCHANGED <<once, recoveryStop, probes>>
    ELSE /\ once' = TRUE /\ recoveryStop' = "open"
         /\ probes' = [probes EXCEPT !["wait"] = @ + 1]

recordFailure ==
    /\ failCount' = failCount + 1
    /\ IF failCount' >= MaxFails /\ ~circuitOpen
       THEN circuitOpen' = TRUE /\ startRecovery
       ELSE UNCHANGED <<circuitOpen, once, recoveryStop, probes>>

\* Variant: a success forgives one failure instead of all.
DecayVariant == failCount' = failCount - 1 /\ circuitOpen' = FALSE
resetFailures == failCount' = 0 /\ circuitOpen' = FALSE

-----------------------------------------------------------------------------
(* Submit and SubmitStrict *)

SubGoes(m, s) == sub' = [sub EXCEPT ![m] = s]

\* The flags are read under wp.mu, which is released before the send.
SubmitCheck(m) ==
    /\ sub[m] = "new"
    /\ IF closed \/ (m \in Strict /\ circuitOpen)
       THEN /\ SubGoes(m, "error") /\ Release(m)
            /\ fate' = [fate EXCEPT ![m] = "refused"]
       ELSE SubGoes(m, "checked") /\ UNCHANGED msgVars
    /\ UNCHANGED <<chanVars, flagVars, circuitVars, workerVars, spc, envVars>>

\* A send on a closed channel panics in the goroutine that called Submit.
SubmitPanics(m) ==
    /\ sub[m] \in {"checked", "blocked"} /\ chClosed
    /\ SubGoes(m, "panicked")
    /\ UNCHANGED <<chanVars, flagVars, circuitVars, workerVars, msgVars, spc, envVars>>

\* Variant: the submitter releases the message it has enqueued.
SendReleasesVariant(m) ==
    /\ sub[m] \in {"checked", "blocked"} /\ ~chClosed
    /\ Len(ch) < ChannelSize
    /\ ch' = Append(ch, m) /\ SubGoes(m, "ok") /\ Release(m)
    /\ UNCHANGED <<chClosed, flagVars, circuitVars, workerVars, fate, spc, envVars>>

SubmitSend(m) ==
    /\ sub[m] \in {"checked", "blocked"} /\ ~chClosed
    /\ Len(ch) < ChannelSize
    /\ ch' = Append(ch, m) /\ SubGoes(m, "ok")
    /\ UNCHANGED <<chClosed, flagVars, circuitVars, workerVars, msgVars, spc, envVars>>

\* The channel is full: wait, or give up the way the policy says.
SubmitFull(m) ==
    /\ sub[m] = "checked" /\ ~chClosed /\ Len(ch) >= ChannelSize
    /\ \/ /\ m \in Strict
          /\ SubGoes(m, "error") /\ Release(m)
          /\ fate' = [fate EXCEPT ![m] = "refused"]
       \/ /\ m \notin Strict /\ backpressure = "block"
          /\ SubGoes(m, "blocked") /\ UNCHANGED msgVars
       \/ /\ m \notin Strict /\ backpressure # "block"
          /\ SubGoes(m, IF backpressure = "fallback" THEN "ok" ELSE "error")
          /\ handleRejected(m)
    /\ UNCHANGED <<chanVars, flagVars, circuitVars, workerVars, spc, envVars>>

SubmitTimeout(m) ==
    /\ sub[m] = "blocked"
    /\ SubGoes(m, "error") /\ handleRejected(m)
    /\ UNCHANGED <<chanVars, flagVars, circuitVars, workerVars, spc, envVars>>

-----------------------------------------------------------------------------
(* Workers *)

WorkerGoes(w, p) == wpc' = [wpc EXCEPT ![w] = p]

\* select: the context is done; the worker goes on in the drain loop.
WorkerDrains(w) ==
    /\ wpc[w] = "select" /\ w \notin draining /\ cancelled
    /\ draining' = draining \cup {w}
    /\ UNCHANGED <<chanVars, flagVars, circuitVars, wpc, job, attempt, msgVars, sub,
                   spc, envVars>>

WorkerReceives(w) ==
    /\ wpc[w] = "select" /\ ch # <<>>
    /\ ch' = Tail(ch) /\ job' = [job EXCEPT ![w] = Head(ch)]
    /\ WorkerGoes(w, "got")
    /\ UNCHANGED <<chClosed, flagVars, circuitVars, draining, attempt, msgVars, sub,
                   spc, envVars>>

\* Variants: the worker returns on ctx.Done without draining; the drain loop
\* does not notice that the channel is closed.
NoDrainVariant(w) ==
    /\ wpc[w] = "select" /\ cancelled
    /\ WorkerGoes(w, "exited")
    /\ UNCHANGED <<chanVars, flagVars, circuitVars, draining, job, attempt, msgVars, sub,
                   spc, envVars>>

DrainForeverVariant(w) ==
    /\ wpc[w] = "select" /\ ch = <<>> /\ chClosed /\ w \notin draining
    /\ WorkerGoes(w, "exited")
    /\ UNCHANGED <<chanVars, flagVars, circuitVars, draining, job, attempt, msgVars, sub,
                   spc, envVars>>

WorkerExits(w) ==
    /\ wpc[w] = "select" /\ ch = <<>> /\ chClosed
    /\ WorkerGoes(w, "exited")
    /\ UNCHANGED <<chanVars, flagVars, circuitVars, draining, job, attempt, msgVars, sub,
                   spc, envVars>>

\* The worker is done with its message and goes back for the next one.
Done(w) ==
    /\ WorkerGoes(w, "select")
    /\ job' = [job EXCEPT ![w] = NoMsg] /\ attempt' = [attempt EXCEPT ![w] = 0]
    /\ UNCHANGED draining

\* Variant: the return after handleRejected is missing.
NoReturnVariant(w) ==
    /\ wpc[w] = "got" /\ WorkerGoes(w, "send")
    /\ IF circuitOpen THEN handleRejected(job[w]) ELSE UNCHANGED msgVars
    /\ UNCHANGED <<chanVars, flagVars, circuitVars, draining, job, attempt, sub, spc, envVars>>

\* The start of processWithContext: with an open circuit the message is
\* rejected without a Send.
WorkerReadsCircuit(w) ==
    /\ wpc[w] = "got"
    /\ IF circuitOpen
       THEN handleRejected(job[w]) /\ Done(w)
       ELSE WorkerGoes(w, "send") /\ UNCHANGED <<msgVars, draining, job, attempt>>
    /\ UNCHANGED <<chanVars, flagVars, circuitVars, sub, spc, envVars>>

SendOK(w) ==
    /\ wpc[w] = "send" /\ sinkUp
    /\ resetFailures
    /\ fate' = [fate EXCEPT ![job[w]] = "delivered"] /\ Release(job[w])
    /\ Done(w)
    /\ UNCHANGED <<chanVars, flagVars, once, recoveryStop, probes, sub, spc, envVars>>

\* Send fails while the sink is down, or because the message was received
\* under the pool's context and that is cancelled.  After the last attempt
\* the failure is recorded and the message rejected.
SendFails(w) ==
    /\ wpc[w] = "send" /\ (~sinkUp \/ (cancelled /\ w \notin draining))
    /\ IF attempt[w] + 1 < Attempts
       THEN /\ attempt' = [attempt EXCEPT ![w] = @ + 1] /\ WorkerGoes(w, "backoff")
            /\ UNCHANGED <<draining, job, msgVars, circuitVars>>
       ELSE recordFailure /\ handleRejected(job[w]) /\ Done(w)
    /\ UNCHANGED <<chanVars, flagVars, sub, spc, envVars>>

\* safeProcess recovers a panic of Send.
SendPanics(w) ==
    /\ wpc[w] = "send" /\ "send" \in Panics
    /\ handleRejected(job[w]) /\ Done(w)
    /\ UNCHANGED <<chanVars, flagVars, circuitVars, sub, spc, envVars>>

\* The wait before a retry ends with the timer or with the pool's context.
BackoffEnds(w) ==
    /\ wpc[w] = "backoff"
    /\ \/ WorkerGoes(w, "send") /\ UNCHANGED <<draining, job, attempt, msgVars>>
       \/ cancelled /\ handleRejected(job[w]) /\ Done(w)
    /\ UNCHANGED <<chanVars, flagVars, circuitVars, sub, spc, envVars>>

-----------------------------------------------------------------------------
(* The recovery probe *)

ProbeMoves(p, q) ==
    /\ probes[p] > 0
    /\ probes' = [probes EXCEPT ![p] = @ - 1, ![q] = @ + 1]

ProbeTick ==
    /\ ProbeMoves("wait", IF circuitOpen THEN "probe" ELSE "exit")
    /\ UNCHANGED <<chanVars, flagVars, circuitOpen, failCount, once, recoveryStop,
                   workerVars, msgVars, sub, spc, envVars>>

ProbeStopped ==
    /\ recoveryStop = "closed" /\ ProbeMoves("wait", "exit")
    /\ UNCHANGED <<chanVars, flagVars, circuitOpen, failCount, once, recoveryStop,
                   workerVars, msgVars, sub, spc, envVars>>

\* Variant: the probe gives up after one failed HealthCheck.
ProbeOnceVariant ==
    /\ ProbeMoves("probe", IF sinkUp /\ spc # "done" THEN "reset" ELSE "exit")
    /\ UNCHANGED <<chanVars, flagVars, circuitOpen, failCount, once, recoveryStop,
                   workerVars, msgVars, sub, spc, envVars>>

ProbeHealth ==
    /\ \/ ProbeMoves("probe", IF sinkUp /\ spc # "done" THEN "reset" ELSE "wait")
       \/ "probe" \in Panics /\ ProbeMoves("probe", "exit")
    /\ UNCHANGED <<chanVars, flagVars, circuitOpen, failCount, once, recoveryStop,
                   workerVars, msgVars, sub, spc, envVars>>

\* Variant: recoveryOnce is reset together with the circuit.
EarlyOnceVariant ==
    /\ ProbeMoves("reset", "exit") /\ resetFailures /\ once' = FALSE
    /\ UNCHANGED <<chanVars, flagVars, recoveryStop, workerVars, msgVars, sub, spc, envVars>>

ProbeResets ==
    /\ ProbeMoves("reset", "exit") /\ resetFailures
    /\ UNCHANGED <<chanVars, flagVars, once, recoveryStop, workerVars, msgVars, sub,
                   spc, envVars>>

\* The deferred function of recoveryLoop: recoveryOnce = sync.Once{}.
ProbeExits ==
    /\ probes["exit"] > 0
    /\ probes' = [probes EXCEPT !["exit"] = @ - 1]
    /\ once' = FALSE
    /\ UNCHANGED <<chanVars, flagVars, circuitOpen, failCount, recoveryStop, workerVars,
                   msgVars, sub, spc, envVars>>

-----------------------------------------------------------------------------
(* Shutdown *)

ShutGoes(p, q) == spc = p /\ spc' = q

ShutdownMarks ==
    /\ ShutGoes("running", "closed") /\ closed' = TRUE
    /\ UNCHANGED <<chanVars, cancelled, circuitVars, workerVars, msgVars, sub, envVars>>

ShutdownCancels ==
    /\ ShutGoes("closed", "cancelled") /\ cancelled' = TRUE
    /\ UNCHANGED <<chanVars, closed, circuitVars, workerVars, msgVars, sub, envVars>>

ShutdownClosesChannel ==
    /\ ShutGoes("cancelled", "chClosed") /\ chClosed' = TRUE
    /\ UNCHANGED <<ch, flagVars, circuitVars, workerVars, msgVars, sub, envVars>>

ShutdownStopsProbe ==
    /\ ShutGoes("chClosed", "waiting")
    /\ recoveryStop' = IF recoveryStop = "nil" THEN "nil" ELSE "closed"
    /\ UNCHANGED <<chanVars, flagVars, circuitOpen, failCount, once, probes, workerVars,
                   msgVars, sub, envVars>>

\* All workers have exited and the sink is closed, or the timeout fires.
ShutdownEnds ==
    /\ \/ ShutGoes("waiting", "done") /\ \A w \in Workers : wpc[w] = "exited"
       \/ ShutGoes("waiting", "timeout")
    /\ UNCHANGED <<chanVars, flagVars, circuitVars, workerVars, msgVars, sub, envVars>>

-----------------------------------------------------------------------------
(* Environment: the sink goes down and comes back *)

SinkGoesDown ==
    /\ sinkUp /\ outages < MaxOutages
    /\ sinkUp' = FALSE /\ outages' = outages + 1
    /\ UNCHANGED <<backpressure, chanVars, flagVars, circuitVars, workerVars, msgVars, sub, spc>>

SinkComesBack ==
    /\ ~sinkUp /\ sinkUp' = TRUE
    /\ UNCHANGED <<backpressure, outages, chanVars, flagVars, circuitVars, workerVars, msgVars, sub, spc>>

-----------------------------------------------------------------------------
Submit(m) == \/ SubmitCheck(m) \/ SubmitPanics(m) \/ SubmitSend(m)
             \/ SubmitFull(m) \/ SubmitTimeout(m)

Worker(w) == \/ WorkerDrains(w) \/ WorkerReceives(w) \/ WorkerExits(w)
             \/ WorkerReadsCircuit(w) \/ SendOK(w) \/ SendFails(w) \/ SendPanics(w)
             \/ BackoffEnds(w)

Probe == ProbeTick \/ ProbeStopped \/ ProbeHealth \/ ProbeResets \/ ProbeExits

Shutdown == \/ ShutdownMarks \/ ShutdownCancels \/ ShutdownClosesChannel
            \/ ShutdownStopsProbe \/ ShutdownEnds

Next == \/ \E m \in Msgs : Submit(m)
        \/ \E w \in Workers : Worker(w)
        \/ Probe \/ Shutdown \/ SinkGoesDown \/ SinkComesBack

Spec == Init /\ [][Next]_vars

\* Shutdown has returned: Run closes the log and the process exits.
Leaving == spc \in {"done", "timeout"}

\* Goroutines that can run do: submitters, workers, the probe, and Shutdown
\* once it has been called.  After Shutdown has returned the process may exit
\* at any moment, so nothing more has to happen.  The timeout of Shutdown need
\* not fire: no property owes its end to it.
Fairness ==
    /\ \A m \in Msgs : WF_vars(~Leaving /\ Submit(m))
    /\ \A w \in Workers : WF_vars(~Leaving /\ Worker(w))
    /\ WF_vars(~Leaving /\ Probe)
    /\ WF_vars(closed /\ Shutdown /\ spc' # "timeout")

FairSpec == Spec /\ Fairness

-----------------------------------------------------------------------------
(* Properties *)

TypeOK ==
    /\ ch \in Seq(Msgs) /\ Len(ch) <= ChannelSize
    /\ chClosed \in BOOLEAN /\ closed \in BOOLEAN /\ cancelled \in BOOLEAN
    /\ circuitOpen \in BOOLEAN /\ failCount \in Nat
    /\ sub \in [Msgs -> SubStates]
    /\ wpc \in [Workers -> WorkStates] /\ draining \subseteq Workers
    /\ job \in [Workers -> Msgs \cup {NoMsg}]
    /\ attempt \in [Workers -> 0 .. Attempts - 1]
    /\ fate \in [Msgs -> Fates] /\ released \in [Msgs -> Nat]
    /\ once \in BOOLEAN /\ recoveryStop \in {"nil", "open", "closed"}
    /\ probes \in [ProbeStates -> Nat]
    /\ spc \in ShutStates /\ backpressure \in Policies
    /\ sinkUp \in BOOLEAN /\ outages \in 0 .. MaxOutages

InChannel(m) == \E i \in 1 .. Len(ch) : ch[i] = m

\* Messages come from a sync.Pool: releasing one twice, or touching it after
\* the release, corrupts another request.  A released message was released
\* once, its Submit has returned, and neither the channel nor a worker still
\* holds it.
NotUsedAfterRelease ==
    \A m \in Msgs : released[m] # 0 =>
        /\ released[m] = 1
        /\ sub[m] \in {"ok", "error"}
        /\ ~InChannel(m)
        /\ \A w \in Workers : job[w] # m

\* Shutdown returns nil only after the drain: when every worker has exited, no
\* message for which Submit returned nil is left without an end.
ShutdownSettles ==
    spc = "done" => \A m \in Msgs : sub[m] = "ok" => fate[m] # "none"

\* The pool as Delivery sees it.
Status(m) ==
    CASE fate[m] = "delivered" -> "delivered"
      [] fate[m] = "wal"       -> "logged"
      [] fate[m] \in {"dropped", "walFailed"} -> "dropped"
      [] fate[m] = "refused"   -> "refused"
      [] OTHER -> IF sub[m] = "ok" THEN "taken"
                  ELSE IF sub[m] = "panicked" THEN "abandoned" ELSE "offered"

stateBar   == [m \in Msgs |-> Status(m)]
mayDropBar == backpressure # "fallback" \/ WALFails

D == INSTANCE Delivery WITH state <- stateBar, mayDrop <- mayDropBar

\* The pool implements Delivery: no message gets a second ending, nothing is
\* delivered that the pool did not take, and with the fallback policy nothing
\* is dropped unless the log fails.
ImplementsDelivery == D!Spec

ProbeCount == probes["wait"] + probes["probe"] + probes["reset"] + probes["exit"]

\* Although recoveryLoop resets recoveryOnce behind the breaker's back, at most
\* one recovery goroutine exists per pool.
SingleProbe == ProbeCount <= 1

Endings ==
    IF backpressure # "fallback" THEN {"delivered", "dropped"}
    ELSE {"delivered", "wal"} \cup (IF WALFails THEN {"walFailed"} ELSE {})

\* A message for which Submit returned nil is delivered or, with the fallback
\* policy, written to the WAL (unless WriteMessage fails, which is only logged);
\* with the other policies it may be dropped.  It holds through outages, an open
\* circuit, panics and a shutdown that ends in time.  When Shutdown gives up
\* after its timeout, messages may be left in the channel, and they are lost
\* with the process.
AckedSettles ==
    \A m \in Msgs : sub[m] = "ok" ~> (fate[m] \in Endings \/ spc = "timeout")

\* Shutdown drains: once the channel is closed every worker empties it and
\* exits, whether it waited in select, in a retry or in the drain loop, unless
\* the timeout comes first.
WorkersExit == chClosed ~> (spc = "timeout" \/ \A w \in Workers : wpc[w] = "exited")

Probing == probes["wait"] + probes["probe"] + probes["reset"] > 0

\* An open circuit that is being probed closes when the sink stays up.
ProbedCircuitCloses ==
    <>[]sinkUp => ((circuitOpen /\ Probing) ~> (~circuitOpen \/ closed))

\* README.md:397, once the downstream recovers the circuit "closes
\* automatically".
CircuitRecovers == <>[]sinkUp => (circuitOpen ~> (~circuitOpen \/ closed))

=============================================================================
