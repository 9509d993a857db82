------------------------------- MODULE Upload -------------------------------
(***************************************************************************)
(* An upload request after authentication: ProjectResolutionMiddleware,    *)
(* ProjectMiddleware of the rate limiter, UploadHandler, the task it gives *)
(* to the goroutine pool, and Dispatch with the processor chain of the     *)
(* project, down to the Submit of each sink pool.  The messages come from  *)
(* and go back to messagePool (message/message.go) on many paths.          *)
(*                                                                         *)
(* Every part reads the current configuration anew.  The sink pools are    *)
(* those Initialize made for the configuration at the start.  What happens *)
(* to a copy in a sink pool is in WorkerPool, and to the message of a      *)
(* replay in Gateway.                                                      *)
(***************************************************************************)
EXTENDS Auth, Pipeline

CONSTANTS
    Projects,      \* project names
    ProjectOf,     \* the section of each project in each configuration
    NPools,        \* sink pools of a project that is enabled at the start
    Messages,      \* message objects; a new one and one of the pool are alike
    Closing        \* bound: the configurations with which a Shutdown is explored

ASSUME UploadAssumption ==
    /\ \A q \in Requests : /\ q.project \in Projects \cup {None}
                           /\ q.wellFormed \in BOOLEAN /\ q.data \in Data
    /\ ProjectOf \in [Versions -> [Projects ->
            [enabled : BOOLEAN, authRequired : BOOLEAN, maxBody : Int, pipelines : Seq(Refs)]]]
    /\ NPools \in Nat
    /\ None \notin Projects \cup Messages \cup Goroutines

VARIABLES
    start,    \* the configuration Initialize has read
    pooled,   \* how often each message is in messagePool
    holds,    \* the request and the data in each message, or Blank
    ptr,      \* the message of each handler and its task
    chain,    \* the processors the task runs
    step,     \* how many of them have run, then how many pools have a copy
    inSink,   \* the goroutine whose copy a sink pool has in a message, or None
    lost,     \* messages that nobody refers to any more
    since     \* history: the configurations that were current from the
              \* resolution of the project to the start of Dispatch

msgVars    == <<pooled, holds, inSink, lost>>
taskVars   == <<ptr, chain, step>>
uploadVars == <<start, msgVars, taskVars>>
vars       == <<authVars, uploadVars, since>>

Blank == [req |-> None, data |-> Bare("none")]

Init ==
    /\ AuthInit /\ start = config
    /\ pooled = [m \in Messages |-> 1] /\ holds = [m \in Messages |-> Blank]
    /\ inSink = [m \in Messages |-> None] /\ lost = {}
    /\ ptr = [g \in Goroutines |-> None] /\ chain = [g \in Goroutines |-> <<>>]
    /\ step = [g \in Goroutines |-> 0] /\ since = [g \in Goroutines |-> {}]

-----------------------------------------------------------------------------
(* Middleware *)

GetProject(p) == ProjectOf[config][p]

\* ProjectResolutionMiddleware answers 400, 404 or 401.
Unresolved(g) ==
    LET p == req[g].project IN
    \/ p = None
    \/ p # None /\ ~GetProject(p).enabled
    \/ p # None /\ GetProject(p).authRequired /\ g \notin authorized

ResolveProject(g) ==
    /\ pc[g] = "resolve"
    /\ \/ Unresolved(g) /\ Ends(g)
       \/ ~Unresolved(g) /\ GoesTo(g, "limit") /\ UNCHANGED <<req, authCfg, now, authorized>>
    /\ UNCHANGED <<clock, config, nonceVars, uploadVars>>

\* ProjectMiddleware: 429 without a token; a project that has gone is not limited.
LimitProject(g) ==
    /\ pc[g] = "limit"
    /\ \/ GoesTo(g, "handle") /\ UNCHANGED <<req, authCfg, now, authorized>>
       \/ GetProject(req[g].project).enabled /\ Ends(g)
    /\ UNCHANGED <<clock, config, nonceVars, uploadVars>>

-----------------------------------------------------------------------------
(* messagePool *)

Put(m) == pooled' = [pooled EXCEPT ![m] = @ + 1]

\* ReleaseMessage.
ReleaseMessage(m) == Put(m) /\ holds' = [holds EXCEPT ![m] = Blank]

\* AcquireMessage, and the caller fills in the message.
AcquireMessage(m, content) ==
    /\ pooled[m] > 0 /\ pooled' = [pooled EXCEPT ![m] = @ - 1]
    /\ holds' = [holds EXCEPT ![m] = content]

-----------------------------------------------------------------------------
(* UploadHandler *)

TooLarge(g) ==
    LET proj == GetProject(req[g].project) IN
    \/ req[g].size > MaxBodyBytes[config]
    \/ req[g].wellFormed /\ proj.enabled /\ proj.maxBody > 0 /\ req[g].size > proj.maxBody

\* UploadHandler answers 413 or 400, or fills in a message.
HandleUpload(g) ==
    /\ pc[g] = "handle"
    /\ \/ /\ TooLarge(g) \/ ~req[g].wellFormed
          /\ Ends(g) /\ UNCHANGED <<pooled, holds, ptr>>
       \/ /\ ~TooLarge(g) /\ req[g].wellFormed
          /\ \E m \in Messages :
                /\ AcquireMessage(m, [req |-> g, data |-> req[g].data])
                /\ ptr' = [ptr EXCEPT ![g] = m]
          /\ GoesTo(g, "submit") /\ UNCHANGED <<req, authCfg, now, authorized>>
    /\ UNCHANGED <<clock, config, nonceVars, start, inSink, lost, chain, step>>

\* The goroutine pool takes the task: 200.
SubmitTask(g) ==
    /\ pc[g] = "submit" /\ GoesTo(g, "queued")
    /\ UNCHANGED <<clock, config, req, authCfg, now, authorized, nonceVars, uploadVars>>

\* It does not, it has been released: 503.
SubmitRefused(g) ==
    /\ pc[g] = "submit" /\ Ends(g)
    /\ ReleaseMessage(ptr[g]) /\ ptr' = [ptr EXCEPT ![g] = None]
    /\ UNCHANGED <<clock, config, nonceVars, start, inSink, lost, chain, step>>

-----------------------------------------------------------------------------
(* The task: Dispatch *)

HasPools(p) == ProjectOf[start][p].enabled /\ NPools > 0

\* The processors that a configuration has for a project.
ChainOf(v, p) ==
    IF ProjectOf[v][p].enabled THEN buildPipelineChain(ProjectOf[v][p].pipelines) ELSE <<>>

\* Variant: the chain was built at the start.
StaleChainVariant(p) == ChainOf(start, p)
ChainNow(p) == ChainOf(config, p)

\* Dispatch up to chain.Process.  A project without sink pools: the message is
\* released and the task logs the error.
StartDispatch(g) ==
    LET p == req[g].project IN
    /\ pc[g] = "queued"
    /\ \/ /\ HasPools(p) /\ GoesTo(g, "dispatch")
          /\ chain' = [chain EXCEPT ![g] = ChainNow(p)]
          /\ UNCHANGED <<pooled, holds>>
       \/ /\ ~HasPools(p) /\ GoesTo(g, "log")
          /\ ReleaseMessage(ptr[g]) /\ UNCHANGED chain
    /\ UNCHANGED <<clock, config, req, authCfg, now, authorized, nonceVars, start, inSink, lost, ptr, step>>

\* One iteration of Chain.Process.  After an error Process returns nil, and
\* ReleaseMessage(nil) does nothing; a panic ends the task, and the goroutine
\* pool logs it.
RunProcessor(g) ==
    LET m   == ptr[g]
        out == Process(chain[g][step[g] + 1], holds[m].data)
    IN  /\ pc[g] = "dispatch" /\ step[g] < Len(chain[g])
        /\ \/ /\ out.kind \notin {"error", "panic"}
              /\ holds' = [holds EXCEPT ![m].data = out]
              /\ step' = [step EXCEPT ![g] = @ + 1]
              /\ UNCHANGED <<pc, lost>>
           \/ /\ out.kind \in {"error", "panic"}
              /\ lost' = lost \cup {m}
              /\ GoesTo(g, "log") /\ UNCHANGED <<holds, step>>
        /\ UNCHANGED <<clock, config, req, authCfg, now, authorized, nonceVars, start, pooled, inSink, ptr, chain>>

\* Variant: the copy shares the message, as if copyMessage were an assignment.
ShareVariant(g, m) ==
    /\ m = ptr[g] /\ UNCHANGED <<pooled, holds>>
copyMessage(g, m) == AcquireMessage(m, holds[ptr[g]])

Copying(g) == pc[g] = "dispatch" /\ step[g] \in Len(chain[g]) .. Len(chain[g]) + NPools - 1

\* One iteration of the loop over the pools: Submit takes a copy.
SubmitCopy(g) ==
    /\ Copying(g)
    /\ \E m \in Messages : copyMessage(g, m) /\ inSink' = [inSink EXCEPT ![m] = g]
    /\ step' = [step EXCEPT ![g] = @ + 1]
    /\ UNCHANGED <<authVars, start, lost, ptr, chain>>

\* Submit fails and has released the copy; the message is released here.
SubmitFails(g) ==
    /\ Copying(g) /\ GoesTo(g, "log") /\ ReleaseMessage(ptr[g])
    /\ UNCHANGED <<clock, config, req, authCfg, now, authorized, nonceVars, start, inSink, lost, taskVars>>

\* Submit sends on a channel that Shutdown closes meanwhile.  The panic ends the
\* task: nobody releases the message, and its copy is garbage.
SubmitPanics(g) ==
    /\ start \in Closing /\ Copying(g) /\ GoesTo(g, "log") /\ lost' = lost \cup {ptr[g]}
    /\ UNCHANGED <<clock, config, req, authCfg, now, authorized, nonceVars, start, pooled, holds, inSink, taskVars>>

\* The task returns; its variables are gone.
TaskEnds(g) ==
    /\ Ends(g) /\ ptr' = [ptr EXCEPT ![g] = None]
    /\ chain' = [chain EXCEPT ![g] = <<>>] /\ step' = [step EXCEPT ![g] = 0]

EndDispatch(g) ==
    /\ pc[g] = "dispatch" /\ step[g] = Len(chain[g]) + NPools
    /\ TaskEnds(g) /\ ReleaseMessage(ptr[g])
    /\ UNCHANGED <<clock, config, nonceVars, start, inSink, lost>>

\* LogJSON of a failed dispatch, or the goroutine pool's log of a panic.
LogFailure(g) ==
    /\ pc[g] = "log" /\ TaskEnds(g)
    /\ UNCHANGED <<clock, config, nonceVars, start, msgVars>>

\* A lost message is garbage once the task has logged; messagePool makes
\* another one when it needs it.
Collect(m) ==
    /\ m \in lost /\ \A g \in Goroutines : ptr[g] # m
    /\ lost' = lost \ {m} /\ ReleaseMessage(m)
    /\ UNCHANGED <<authVars, start, inSink, taskVars>>

\* The sink pool is done with a copy (WorkerPool).
SinkReleases(m) ==
    /\ inSink[m] # None /\ inSink' = [inSink EXCEPT ![m] = None]
    /\ ReleaseMessage(m)
    /\ UNCHANGED <<authVars, start, lost, taskVars>>

-----------------------------------------------------------------------------
UploadStep(g) ==
    \/ ResolveProject(g) \/ LimitProject(g) \/ HandleUpload(g)
    \/ SubmitTask(g) \/ SubmitRefused(g)
    \/ StartDispatch(g) \/ RunProcessor(g) \/ SubmitCopy(g) \/ SubmitFails(g)
    \/ SubmitPanics(g) \/ EndDispatch(g) \/ LogFailure(g)

\* The history of the configurations.
Watch ==
    since' = [g \in Goroutines |->
                 IF pc'[g] \in {"limit", "handle", "submit", "queued"} THEN since[g] \cup {config'}
                 ELSE IF pc'[g] = "idle" THEN {} ELSE since[g]]

Next ==
    /\ \/ AuthNext /\ UNCHANGED uploadVars
       \/ \E g \in Goroutines : UploadStep(g)
       \/ \E m \in Messages : SinkReleases(m) \/ Collect(m)
    /\ Watch

Spec == Init /\ [][Next]_vars

-----------------------------------------------------------------------------
(* Properties *)

TypeOK ==
    /\ clock \in Nat /\ config \in Versions /\ start \in Versions
    /\ pc \in [Goroutines -> {"idle", "body", "auth", "consume", "lock", "resolve", "limit",
                              "handle", "submit", "queued", "dispatch", "log"}]
    /\ req \in [Goroutines -> Requests \cup {None}]
    /\ authCfg \in [Goroutines -> Versions \cup {None}]
    /\ now \in [Goroutines -> Nat \cup {Never}] /\ authorized \subseteq Goroutines
    /\ nonceCache \in [Nonces -> Nat \cup {Never}]
    /\ holds \in [Messages -> [req : Goroutines \cup {None}, data : Results]]
    /\ pooled \in [Messages -> 0 .. 1] /\ ptr \in [Goroutines -> Messages \cup {None}]
    /\ chain \in [Goroutines -> Seq(Processors)] /\ step \in [Goroutines -> Nat]
    /\ inSink \in [Messages -> Goroutines \cup {None}] /\ lost \subseteq Messages
    /\ since \in [Goroutines -> SUBSET Versions]

\* The handler or the task has a message of its own.
Owns(g) == pc[g] \in {"submit", "queued", "dispatch"}

\* A message is in exactly one place: in messagePool (once), with the handler
\* or task of one request, in one sink pool, or lost by a failing processor or a
\* panic.
\* ReleaseMessage is called once on every other path, by whoever had it.
MessageInOnePlace ==
    /\ \A m \in Messages : pooled[m] \in {0, 1}
    /\ \A g \in Goroutines : Owns(g) =>
          /\ ptr[g] \in Messages /\ pooled[ptr[g]] = 0
          /\ inSink[ptr[g]] = None /\ ptr[g] \notin lost
          /\ \A h \in Goroutines \ {g} : Owns(h) => ptr[h] # ptr[g]
    /\ \A m \in Messages : inSink[m] # None => pooled[m] = 0 /\ m \notin lost
    /\ \A m \in lost : pooled[m] = 0
    /\ \A m \in Messages : pooled[m] = 0 =>
          inSink[m] # None \/ m \in lost \/ \E g \in Goroutines : Owns(g) /\ ptr[g] = m

\* The task of g hands the copy m to a sink pool.
Handed(g, m) == inSink[m] = None /\ inSink'[m] = g

\* A copy that a sink pool gets is that of the task's own request, processed as
\* one configuration prescribes, as a whole, that was current after the project
\* was resolved (not an older one, and not the entries of several), whatever
\* other requests and reloads did to the pooled messages meanwhile; and it does
\* not change until the sink pool releases it.
SinkGetsExpected ==
    [][\A m \in Messages :
          /\ \A g \in Goroutines : Handed(g, m) =>
                \E v \in since[g] :
                    LET c == ChainOf(v, req[g].project)
                    IN  holds'[m] = [req |-> g, data |-> Expected(c, Len(c), req[g].data)]
          /\ inSink[m] # None /\ inSink'[m] # None => holds'[m] = holds[m]]_vars

\* Every configuration that the task of g may have used redacts f.
AllRedact(g, f) ==
    \A v \in since[g] :
        LET c == ChainOf(v, req[g].project) IN Redacts(c, Len(c), f)

\* A value of a field that the configurations of the request redact reaches no
\* sink: in the copy the field is missing or holds a mask.  The exception is an
\* object that json.Unmarshal refuses: all processors pass it, and the sink gets
\* what the client has sent.
RedactedStaysMasked ==
    [][\A g \in Goroutines, m \in Messages, f \in Fields :
          Handed(g, m) /\ AllRedact(g, f) =>
              \/ Hides(holds'[m].data, f)
              \/ holds'[m].data = req[g].data /\ ~Decodes(req[g].data)]_vars

=============================================================================
