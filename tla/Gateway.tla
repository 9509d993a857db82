------------------------------ MODULE Gateway ------------------------------
(***************************************************************************)
(* The path of a message through the gateway: UploadHandler acknowledges   *)
(* the request and hands a task to the goroutine pool, Dispatcher runs the *)
(* pipeline and submits a copy to every sink pool of the project, a pool   *)
(* delivers its copy or falls back to the WAL, the replay goroutine        *)
(* dispatches WAL entries again, and Run shuts everything down.  The       *)
(* gateway is configured with "backpressure: fallback" and a WAL; what the *)
(* other policies do to a message is the business of one pool, and         *)
(* WorkerPool has it.                                                      *)
(*                                                                         *)
(* The parts that have a module of their own appear here by what they      *)
(* promise.  A sink pool (WorkerPool) is a bounded queue whose messages    *)
(* are delivered or rejected one by one, with a circuit that may open on a *)
(* failure and closes again.  The log (WAL) is a queue of entries; an      *)
(* entry that the replay callback accepted leaves it now or, when its      *)
(* segment has to be replayed once more, later.                            *)
(***************************************************************************)
EXTENDS Integers, Sequences, FiniteSets

CONSTANTS
    Msgs,           \* uploaded messages of one project
    Unrouted,       \* those of a project that has no sink pools
    NPools,         \* sink pools of the project, in configuration order
    ChannelSize,
    PipelineFails,  \* messages on which a processor returns an error
    MaxRejects,     \* bound: messages rejected by the workers
    MaxReloads,     \* bound: reloads of the configuration
    NoCopy

Pools == 1 .. NPools

ASSUME GatewayAssumption ==
    /\ Unrouted \subseteq Msgs /\ PipelineFails \subseteq Msgs
    /\ NPools \in Nat \ {0} /\ ChannelSize \in Nat \ {0}
    /\ MaxRejects \in Nat /\ MaxReloads \in Nat

\* A copy of a message; "stage" counts the passes of its data through the
\* pipeline.
Copies == [msg : Msgs, stage : Nat]

ASSUME NoCopyAssumption == NoCopy \notin Copies

VARIABLES
    task,       \* the upload of each message and its dispatch task
    passes,     \* the stage of the task's own message
    next,       \* the pool the dispatch loop of each task is at
    queue,      \* the channel of each pool
    poolOpen,   \* the pools that accept messages
    circuit,    \* the pools with an open circuit
    wal,        \* entries of the log, oldest first
    rpc,        \* the replay goroutine: "idle" or "dispatch"
    rmsg,       \* the message it dispatches, or NoCopy
    rnext,      \* the pool its dispatch loop is at
    delivered,  \* [pool, msg, stage] handed to a sink
    serving,    \* HTTP handlers may be running
    run,        \* "running", "draining" (Run shuts down), "walClosed", "exited"
    pipelined,  \* the current configuration has the project, enabled and with
                \* pipelines
    rejects, reloads

taskVars   == <<task, passes, next>>
poolVars   == <<queue, poolOpen, circuit, rejects>>
replayVars == <<rpc, rmsg, rnext>>
runVars    == <<serving, run>>
configVars == <<pipelined, reloads>>
vars == <<taskVars, poolVars, wal, replayVars, delivered, runVars, configVars>>

TaskStates == {"new", "acked", "submitting", "ok", "failed", "unavailable"}

Init ==
    /\ task = [m \in Msgs |-> "new"] /\ next = [m \in Msgs |-> 1]
    /\ passes = [m \in Msgs |-> 0]
    /\ queue = [p \in Pools |-> <<>>] /\ poolOpen = Pools /\ circuit = {}
    /\ wal = <<>> /\ rpc = "idle" /\ rmsg = NoCopy /\ rnext = 1
    /\ delivered = {} /\ serving = TRUE /\ run = "running"
    /\ pipelined \in BOOLEAN /\ rejects = 0 /\ reloads = 0

-----------------------------------------------------------------------------
(* A reload stores a configuration with or without pipelines for the       *)
(* project (module Reload); without the project it has none either.        *)

ConfigReload ==
    /\ run # "exited" /\ reloads < MaxReloads
    /\ pipelined' = ~pipelined /\ reloads' = reloads + 1
    /\ UNCHANGED <<taskVars, poolVars, wal, replayVars, delivered, runVars>>

-----------------------------------------------------------------------------
(* UploadHandler *)

TaskGoes(m, s) == task' = [task EXCEPT ![m] = s]

\* 200: the response is sent once the task is in the goroutine pool.
Upload(m) ==
    /\ serving /\ run # "exited" /\ task[m] = "new"
    /\ TaskGoes(m, "acked")
    /\ UNCHANGED <<passes, next, poolVars, wal, replayVars, delivered, runVars, configVars>>

\* 503: the goroutine pool refuses the task.
UploadUnavailable(m) ==
    /\ serving /\ run # "exited" /\ task[m] = "new"
    /\ TaskGoes(m, "unavailable")
    /\ UNCHANGED <<passes, next, poolVars, wal, replayVars, delivered, runVars, configVars>>

-----------------------------------------------------------------------------
(* Dispatcher *)

Copy(m, stage) == [msg |-> m, stage |-> stage]

\* Variant: one message too many fits.
OverfullVariant(p) == Len(queue[p]) > ChannelSize
Full(p) == Len(queue[p]) >= ChannelSize

Enqueue(p, c) == queue' = [queue EXCEPT ![p] = Append(@, c)]

\* Dispatch and DispatchStrict call dispatchImpl with this skipPipeline.
\* Variant: the replay takes the path of a request.
SamePathVariant(strict) == FALSE
SkipPipeline(strict) == strict

\* dispatchImpl runs the pipeline.
RunsPipeline(strict) == ~SkipPipeline(strict) /\ pipelined

Processed(stage, strict) == IF RunsPipeline(strict) THEN stage + 1 ELSE stage

\* Dispatch up to its loop: look up the pools, run the pipeline.
DispatchStart(m) ==
    /\ run # "exited" /\ task[m] = "acked"
    /\ \/ /\ m \in Unrouted \/ (RunsPipeline(FALSE) /\ m \in PipelineFails)
          /\ TaskGoes(m, "failed") /\ UNCHANGED passes
       \/ /\ m \notin Unrouted /\ ~(RunsPipeline(FALSE) /\ m \in PipelineFails)
          /\ TaskGoes(m, "submitting")
          /\ passes' = [passes EXCEPT ![m] = Processed(@, FALSE)]
    /\ UNCHANGED <<next, poolVars, wal, replayVars, delivered, runVars, configVars>>

copyMessage(m) == Copy(m, passes[m])

\* One iteration of the loop: Submit a copy to the next pool, which takes it or,
\* when it is full, writes it to the log.
DispatchSubmit(m) ==
    LET p == next[m] IN
    /\ run # "exited" /\ task[m] = "submitting"
    /\ \/ /\ p \in poolOpen /\ ~Full(p)
          /\ Enqueue(p, copyMessage(m)) /\ UNCHANGED wal
       \/ /\ p \in poolOpen /\ Full(p)
          /\ wal' = Append(wal, copyMessage(m)) /\ UNCHANGED queue
    /\ IF p = NPools THEN TaskGoes(m, "ok") /\ UNCHANGED next
                     ELSE next' = [next EXCEPT ![m] = p + 1] /\ UNCHANGED task
    /\ UNCHANGED <<passes, poolOpen, circuit, rejects, replayVars, delivered, runVars, configVars>>

\* Submit returns an error, the pool is closed: the loop ends.
DispatchFails(m) ==
    /\ run # "exited" /\ task[m] = "submitting" /\ next[m] \notin poolOpen
    /\ TaskGoes(m, "failed")
    /\ UNCHANGED <<passes, next, poolVars, wal, replayVars, delivered, runVars, configVars>>

-----------------------------------------------------------------------------
(* The workers of a pool *)

PoolDelivers(p) ==
    /\ run # "exited" /\ queue[p] # <<>> /\ p \notin circuit
    /\ delivered' = delivered \cup
            {[pool |-> p, msg |-> Head(queue[p]).msg, stage |-> Head(queue[p]).stage]}
    /\ queue' = [queue EXCEPT ![p] = Tail(@)]
    /\ UNCHANGED <<taskVars, poolOpen, circuit, rejects, wal, replayVars, runVars, configVars>>

\* handleRejected of a message that a worker gives up.  Variant: it is dropped.
DropVariant(p) == UNCHANGED wal
handleRejected(p) == wal' = Append(wal, Head(queue[p]))

\* The circuit is open or the sends fail, which may open it: handleRejected.
PoolRejects(p) ==
    /\ run # "exited" /\ queue[p] # <<>>
    /\ p \in circuit \/ rejects < MaxRejects
    /\ rejects' = IF p \in circuit THEN rejects ELSE rejects + 1
    /\ circuit' \in {circuit, circuit \cup {p}}
    /\ handleRejected(p)
    /\ queue' = [queue EXCEPT ![p] = Tail(@)]
    /\ UNCHANGED <<taskVars, poolOpen, replayVars, delivered, runVars, configVars>>

CircuitCloses(p) ==
    /\ p \in circuit /\ circuit' = circuit \ {p}
    /\ UNCHANGED <<taskVars, queue, poolOpen, rejects, wal, replayVars, delivered, runVars, configVars>>

-----------------------------------------------------------------------------
(* The replay callback *)

\* CanAcceptReplay: an open pool, a closed circuit, a channel below 80%.
CanAcceptReplay(p) ==
    /\ p \in poolOpen /\ p \notin circuit
    /\ 10 * Len(queue[p]) < 8 * ChannelSize

\* The entry holds the data of the message that a pool has rejected.
messageFromWALEntry(c) == Copy(c.msg, c.stage)

\* ReplayBackoff accepts the oldest entry (otherwise the cycle ends), and
\* DispatchStrict starts.
ReplayStart ==
    /\ run # "exited" /\ rpc = "idle" /\ wal # <<>>
    /\ \A p \in Pools : CanAcceptReplay(p)
    /\ rpc' = "dispatch" /\ rnext' = 1
    /\ LET c == messageFromWALEntry(Head(wal))
       IN  rmsg' = Copy(c.msg, Processed(c.stage, TRUE))
    /\ UNCHANGED <<taskVars, poolVars, wal, delivered, runVars, configVars>>

ReplayEnds == rpc' = "idle" /\ rmsg' = NoCopy /\ rnext' = 1

\* One iteration of its loop, with SubmitStrict.  When every pool has taken a
\* copy the entry is done, and leaves the log unless its segment is replayed
\* again.
ReplaySubmit ==
    /\ run # "exited" /\ rpc = "dispatch"
    /\ rnext \in poolOpen /\ rnext \notin circuit /\ ~Full(rnext)
    /\ Enqueue(rnext, rmsg)
    /\ IF rnext = NPools
       THEN ReplayEnds /\ wal' \in {wal, Tail(wal)}
       ELSE rnext' = rnext + 1 /\ UNCHANGED <<rpc, rmsg, wal>>
    /\ UNCHANGED <<taskVars, poolOpen, circuit, rejects, delivered, runVars, configVars>>

\* Variant: the error is swallowed and the entry counts as replayed.
SwallowVariant ==
    /\ run # "exited" /\ rpc = "dispatch"
    /\ rnext \notin poolOpen \/ rnext \in circuit \/ Full(rnext)
    /\ ReplayEnds /\ wal' = Tail(wal)
    /\ UNCHANGED <<taskVars, poolVars, delivered, runVars, configVars>>

\* An error of SubmitStrict ends the cycle; the entry stays.
ReplayFails ==
    /\ run # "exited" /\ rpc = "dispatch"
    /\ rnext \notin poolOpen \/ rnext \in circuit \/ Full(rnext)
    /\ ReplayEnds
    /\ UNCHANGED <<taskVars, poolVars, wal, delivered, runVars, configVars>>

-----------------------------------------------------------------------------
(* Run after SIGTERM *)

\* server.Shutdown returns: the handlers have finished (their tasks need not
\* have), or its 30 seconds are over and some handlers still run.
StopHTTP ==
    /\ run = "running" /\ run' = "draining" /\ serving' \in BOOLEAN
    /\ UNCHANGED <<taskVars, poolVars, wal, replayVars, delivered, configVars>>

\* Dispatcher.Shutdown closes the pools one after the other, each when the one
\* before has drained or its timeout has passed.
ClosePool(p) ==
    /\ run = "draining" /\ p \in poolOpen /\ \A q \in Pools : q < p => q \notin poolOpen
    /\ poolOpen' = poolOpen \ {p}
    /\ UNCHANGED <<taskVars, queue, circuit, rejects, wal, replayVars, delivered, runVars, configVars>>

CloseWAL ==
    /\ run = "draining" /\ poolOpen = {} /\ run' = "walClosed"
    /\ UNCHANGED <<taskVars, poolVars, wal, replayVars, delivered, serving, configVars>>

Exit ==
    /\ run = "walClosed" /\ run' = "exited"
    /\ UNCHANGED <<taskVars, poolVars, wal, replayVars, delivered, serving, configVars>>

-----------------------------------------------------------------------------
Next ==
    \/ \E m \in Msgs : \/ Upload(m) \/ UploadUnavailable(m)
                       \/ DispatchStart(m) \/ DispatchSubmit(m) \/ DispatchFails(m)
    \/ \E p \in Pools : PoolDelivers(p) \/ PoolRejects(p) \/ CircuitCloses(p) \/ ClosePool(p)
    \/ ReplayStart \/ ReplaySubmit \/ ReplayFails
    \/ StopHTTP \/ CloseWAL \/ Exit \/ ConfigReload

Spec == Init /\ [][Next]_vars

-----------------------------------------------------------------------------
(* Properties *)

TypeOK ==
    /\ task \in [Msgs -> TaskStates] /\ next \in [Msgs -> Pools]
    /\ passes \in [Msgs -> 0 .. 1]
    /\ queue \in [Pools -> Seq(Copies)]
    /\ \A p \in Pools : Len(queue[p]) <= ChannelSize
    /\ poolOpen \subseteq Pools /\ circuit \subseteq Pools
    /\ wal \in Seq(Copies)
    /\ rpc \in {"idle", "dispatch"} /\ rnext \in Pools
    /\ rmsg \in Copies \cup {NoCopy}
    /\ delivered \subseteq [pool : Pools, msg : Msgs, stage : Nat]
    /\ run \in {"running", "draining", "walClosed", "exited"}
    /\ serving \in BOOLEAN /\ pipelined \in BOOLEAN
    /\ rejects \in 0 .. MaxRejects /\ reloads \in 0 .. MaxReloads

Logged(m) == \E i \in 1 .. Len(wal) : wal[i].msg = m

Queued(p, m) == \E i \in 1 .. Len(queue[p]) : queue[p][i].msg = m

Delivered(p, m) == \E d \in delivered : d.pool = p /\ d.msg = m

\* A message whose Dispatch returned nil is accounted
\* for at every sink of its project until the process exits: the sink has it,
\* the sink's pool holds a copy, or the log does and replays it to all sinks.
NoSinkForgotten ==
    run # "exited" =>
        \A m \in Msgs, p \in Pools :
            task[m] = "ok" => Delivered(p, m) \/ Queued(p, m) \/ Logged(m)

\* A log entry leaves the log only when every pool has taken a copy, also when
\* earlier attempts to replay it stopped half way and when a pool has rejected
\* its copy meanwhile.
EntryLeavesWhenTaken ==
    [][\A m \in Msgs : Logged(m) /\ ~Logged(m)' =>
            \A p \in Pools : (Delivered(p, m) \/ Queued(p, m))']_vars

\* What a sink receives has been through the pipeline as often as the direct
\* dispatch of the message ran it: once when the project had a pipeline then,
\* and not at all otherwise.  Being rejected, logged and replayed, any number of
\* times and after any reload, adds no pass (DispatchStrict skips the pipeline
\* because the log holds processed data).
PipelineOnce == \A d \in delivered : d.stage = passes[d.msg]

\* README.md:591, the default configuration (fallback, WAL enabled) "ensures no
\* loss": a message that was answered with 200 is never given up.
AckedNotLost == \A m \in Msgs \ (Unrouted \cup PipelineFails) : task[m] # "failed"

=============================================================================
