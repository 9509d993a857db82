------------------------------- MODULE Reload -------------------------------
(***************************************************************************)
(* Hot reload: config.Manager (internal/config/config.go) with its file    *)
(* watcher and the admin endpoint, and the rate limiters that follow it    *)
(* (internal/ratelimit/ratelimit.go).                                      *)
(*                                                                         *)
(* The file goes through numbered versions.  load reads it, stores the     *)
(* parsed configuration and runs the callbacks in separate steps and       *)
(* without a lock around them, so loads of the watcher and of admin        *)
(* requests interleave.  The model starts in server.New after Watch.       *)
(***************************************************************************)
EXTENDS Integers

CONSTANTS
    MaxVersion,       \* bound: versions of the configuration file
    Invalid,          \* the versions yaml.Unmarshal rejects
    Disabled,         \* the versions in which the project is not enabled
    GlobalRateLimit,  \* server.global_rate_limit in each version
    RateLimit,        \* rate_limit of the project in each version
    Watcher,          \* the goroutine of watchLoop
    Admins,           \* goroutines that serve /admin/config/reload
    Requests          \* goroutines that serve uploads of the project

Versions  == 1 .. MaxVersion
Reloaders == {Watcher} \cup Admins
None      == 0

ASSUME ReloadAssumption ==
    /\ MaxVersion \in Nat \ {0} /\ Invalid \subseteq Versions \ {1}
    /\ Disabled \subseteq Versions /\ Watcher \notin Admins
    /\ GlobalRateLimit \in [Versions -> Int] /\ RateLimit \in [Versions -> Int]

VARIABLES
    file,        \* the version on disk
    current,     \* m.current
    event,       \* the watcher has an unread Write event
    timer,       \* "nil", "armed" or "fired" (its tick is in timer.C)
    timerCh,     \* timerCh is not nil
    closed,      \* Manager.Close has been called
    stopped,     \* watchLoop has returned
    lpc,         \* where each reloader is in load
    loaded,      \* the version it has read
    calls,       \* it has copied the limiter's callback
    setup,       \* ratelimit.NewManager: "start", "got", "done"
    globalQPS,   \* limit of globalRL
    projectQPS,  \* limit of the project's limiter
    upc,         \* where each upload is in ProjectMiddleware
    held,        \* the rate_limit it has read
    overlapped,  \* history: a load overlapped another one or NewManager, and no
                 \* load has run alone since
    alone,       \* history: the reloader whose load has been alone so far
    unread       \* history: the watcher failed to read the file after its last edit

fileVars  == <<file, event>>
timerVars == <<timer, timerCh>>
loadVars  == <<lpc, loaded, calls>>
limitVars == <<setup, globalQPS, projectQPS>>
upVars    == <<upc, held>>
stopVars  == <<closed, stopped>>
history   == <<overlapped, alone, unread>>
vars == <<fileVars, current, timerVars, stopVars, loadVars, limitVars, upVars, history>>

Init ==
    /\ file = 1 /\ current = 1 /\ event = FALSE
    /\ timer = "nil" /\ timerCh = FALSE
    /\ closed = FALSE /\ stopped = FALSE
    /\ lpc = [r \in Reloaders |-> "idle"] /\ loaded = [r \in Reloaders |-> None]
    /\ calls = [r \in Reloaders |-> FALSE]
    /\ setup = "start" /\ globalQPS = None /\ projectQPS = None
    /\ upc = [u \in Requests |-> "idle"] /\ held = [u \in Requests |-> None]
    /\ overlapped = FALSE /\ alone = {} /\ unread = FALSE

-----------------------------------------------------------------------------
(* Conversions *)

\* applyDefaults for server.global_rate_limit.
applyDefaults(qps) == IF qps <= 0 THEN 20000 ELSE qps

\* Variant: the rate is taken as it is.
RawRateVariant(qps) == qps
normalizeQPS(qps) == IF qps <= 0 THEN 1000 ELSE qps

GlobalQPS(v) == normalizeQPS(applyDefaults(GlobalRateLimit[v]))

-----------------------------------------------------------------------------
(* load *)

Loading == {r \in Reloaders : lpc[r] # "idle"}

\* A call of load by r.
LoadCalled(r) ==
    /\ lpc[r] = "idle" /\ lpc' = [lpc EXCEPT ![r] = "read"]
    /\ overlapped' = (overlapped \/ Loading # {} \/ setup = "got")
    /\ alone' = IF Loading = {} /\ setup = "done" THEN {r} ELSE {}
    /\ UNCHANGED <<loaded, calls, unread>>

\* ReadFile and Unmarshal.
LoadRead(r) ==
    /\ lpc[r] = "read" /\ file \notin Invalid
    /\ lpc' = [lpc EXCEPT ![r] = "store"] /\ loaded' = [loaded EXCEPT ![r] = file]
    /\ UNCHANGED <<fileVars, current, timerVars, stopVars, calls, limitVars, upVars, history>>

\* An error of ReadFile, at any time, or of Unmarshal leaves everything as it was,
\* and load is not tried again.
LoadFails(r) ==
    /\ lpc[r] = "read" /\ lpc' = [lpc EXCEPT ![r] = "idle"]
    /\ unread' = (unread \/ (r = Watcher /\ ~event))
    /\ UNCHANGED <<fileVars, current, timerVars, stopVars, loaded, calls, limitVars, upVars,
                   overlapped, alone>>

\* Variant: copy into an empty slice copies no callback.
NoCallbacksVariant(r) ==
    /\ lpc[r] = "store" /\ current' = loaded[r]
    /\ lpc' = [lpc EXCEPT ![r] = "call"]
    /\ UNCHANGED <<fileVars, timerVars, stopVars, loaded, calls, limitVars, upVars, history>>

\* The callbacks are copied, then the configuration is stored.
LoadStore(r) ==
    /\ lpc[r] = "store" /\ current' = loaded[r]
    /\ calls' = [calls EXCEPT ![r] = (setup = "done")]
    /\ lpc' = [lpc EXCEPT ![r] = "call"]
    /\ UNCHANGED <<fileVars, timerVars, stopVars, loaded, limitVars, upVars, history>>

\* The limiter's callback: updateGlobalLimiter.
LoadCallback(r) ==
    /\ lpc[r] = "call"
    /\ globalQPS' = IF calls[r] THEN GlobalQPS(loaded[r]) ELSE globalQPS
    /\ lpc' = [lpc EXCEPT ![r] = "idle"] /\ loaded' = [loaded EXCEPT ![r] = None]
    /\ calls' = [calls EXCEPT ![r] = FALSE]
    /\ overlapped' = (overlapped /\ r \notin alone)
    /\ UNCHANGED <<fileVars, current, timerVars, stopVars, setup, projectQPS, upVars, alone, unread>>

Load(r) == LoadRead(r) \/ LoadFails(r) \/ LoadStore(r) \/ LoadCallback(r)

-----------------------------------------------------------------------------
(* The watcher and the admin endpoint *)

\* Someone edits the file in place, and inotify reports it.
Edit ==
    /\ file < MaxVersion /\ file' = file + 1 /\ event' = TRUE /\ unread' = FALSE
    /\ UNCHANGED <<current, timerVars, stopVars, loadVars, limitVars, upVars, overlapped, alone>>

\* watchLoop receives the event: start the timer, or stop, drain and reset it.
WatchEvent ==
    /\ ~stopped /\ lpc[Watcher] = "idle" /\ event
    /\ event' = FALSE /\ timer' = "armed"
    /\ timerCh' = (timerCh \/ timer = "nil")
    /\ UNCHANGED <<file, current, stopVars, loadVars, limitVars, upVars, history>>

TimerFires ==
    /\ timer = "armed" /\ timer' = "fired"
    /\ UNCHANGED <<fileVars, current, timerCh, stopVars, loadVars, limitVars, upVars, history>>

\* Variant: "timer = nil" is missing.
KeepTimerVariant ==
    /\ ~stopped /\ timer = "fired" /\ timerCh /\ LoadCalled(Watcher)
    /\ timerCh' = FALSE
    /\ UNCHANGED <<fileVars, current, timer, stopVars, limitVars, upVars>>

\* watchLoop receives from timerCh and calls Reload.
WatchReload ==
    /\ ~stopped /\ timer = "fired" /\ timerCh /\ LoadCalled(Watcher)
    /\ timer' = "nil" /\ timerCh' = FALSE
    /\ UNCHANGED <<fileVars, current, stopVars, limitVars, upVars>>

\* POST /admin/config/reload, once the server is up.
AdminReload(a) ==
    /\ setup = "done" /\ LoadCalled(a)
    /\ UNCHANGED <<fileVars, current, timerVars, stopVars, limitVars, upVars>>

\* Manager.Close.
Close ==
    /\ ~closed /\ closed' = TRUE
    /\ UNCHANGED <<stopped, fileVars, current, timerVars, loadVars, limitVars, upVars, history>>

\* watchLoop, back in its select, sees stopCh or the closed event channel; an
\* event or a tick that is ready may come first.
WatchStops ==
    /\ closed /\ ~stopped /\ lpc[Watcher] = "idle" /\ stopped' = TRUE
    /\ UNCHANGED <<fileVars, current, timerVars, closed, loadVars, limitVars, upVars, history>>

-----------------------------------------------------------------------------
(* The rate limiters *)

\* ratelimit.NewManager reads the configuration ...
LimiterGet ==
    /\ setup = "start" /\ setup' = "got" /\ globalQPS' = GlobalQPS(current)
    /\ overlapped' = (overlapped \/ Loading # {})
    /\ UNCHANGED <<fileVars, current, timerVars, stopVars, loadVars, projectQPS, upVars, alone, unread>>

\* ... and registers its callback.
LimiterRegister ==
    /\ setup = "got" /\ setup' = "done"
    /\ UNCHANGED <<fileVars, current, timerVars, stopVars, loadVars, globalQPS, projectQPS,
                   upVars, history>>

\* ProjectMiddleware reads the project's configuration; without an enabled
\* project the request passes.
UploadReads(u) ==
    /\ setup = "done" /\ upc[u] = "idle" /\ current \notin Disabled
    /\ upc' = [upc EXCEPT ![u] = "limit"]
    /\ held' = [held EXCEPT ![u] = RateLimit[current]]
    /\ UNCHANGED <<fileVars, current, timerVars, stopVars, loadVars, limitVars, history>>

\* Variant: an existing limiter is returned as it is.
KeepLimiterVariant(qps) == projectQPS' = IF projectQPS = None THEN qps ELSE projectQPS

\* GetOrCreateLimiter creates the limiter, or sets it to qps if it differs.
GetOrCreateLimiter(qps) == projectQPS' = qps

UploadLimited(u) ==
    /\ upc[u] = "limit" /\ GetOrCreateLimiter(normalizeQPS(held[u]))
    /\ upc' = [upc EXCEPT ![u] = "idle"] /\ held' = [held EXCEPT ![u] = None]
    /\ UNCHANGED <<fileVars, current, timerVars, stopVars, loadVars, setup, globalQPS, history>>

Upload(u) == UploadReads(u) \/ UploadLimited(u)

-----------------------------------------------------------------------------
Watch == WatchEvent \/ TimerFires \/ WatchReload \/ WatchStops

Setup == LimiterGet \/ LimiterRegister

Next == \/ Edit \/ Watch \/ Setup \/ Close
        \/ \E r \in Reloaders : Load(r)
        \/ \E a \in Admins : AdminReload(a)
        \/ \E u \in Requests : Upload(u)

Spec == Init /\ [][Next]_vars

\* Goroutines that can run do, timers fire, and uploads keep coming.
Fairness ==
    /\ WF_vars(WatchEvent) /\ WF_vars(TimerFires) /\ WF_vars(WatchReload)
    /\ WF_vars(Setup)
    /\ \A r \in Reloaders : WF_vars(Load(r))
    /\ \A u \in Requests : WF_vars(Upload(u))

FairSpec == Spec /\ Fairness

-----------------------------------------------------------------------------
(* Properties *)

TypeOK ==
    /\ file \in Versions /\ current \in Versions \ Invalid /\ event \in BOOLEAN
    /\ timer \in {"nil", "armed", "fired"} /\ timerCh \in BOOLEAN
    /\ closed \in BOOLEAN /\ stopped \in BOOLEAN
    /\ lpc \in [Reloaders -> {"idle", "read", "store", "call"}]
    /\ loaded \in [Reloaders -> Versions \cup {None}] /\ calls \in [Reloaders -> BOOLEAN]
    /\ setup \in {"start", "got", "done"}
    /\ globalQPS \in Nat /\ projectQPS \in Nat
    /\ upc \in [Requests -> {"idle", "limit"}] /\ held \in [Requests -> Int]
    /\ overlapped \in BOOLEAN /\ alone \subseteq Reloaders /\ unread \in BOOLEAN

\* Between reloads the global limiter has the rate of the stored configuration,
\* through rejected files and reloads before and after NewManager, and from the
\* next load that ran alone when loads overlapped each other or NewManager.  (They
\* run without a common lock: overlapping loads may store in one order and call
\* back in the other, and a load may miss the callback.  Until that next load the
\* limiter may have another rate.)
GlobalFollows ==
    ~overlapped /\ Loading = {} /\ setup # "start" => globalQPS = GlobalQPS(current)

\* An edit of the file reaches the configuration through the watcher and its
\* debounce timer, whenever it happens in the course of an earlier reload: a
\* valid version that stays on disk is loaded, unless the watcher cannot read it
\* (it does not try again before the next edit) or loads overlap.
FileReachesConfig ==
    \A v \in Versions \ Invalid :
        file = v ~> (current = v \/ file # v \/ closed \/ overlapped \/ unread)

\* The project's limiter, which any upload may set back to the rate it read
\* before a reload, settles on the rate of the configuration once that stays.
ProjectLimiterConverges ==
    \A v \in Versions \ Disabled :
        <>[](current = v) => <>[](projectQPS = normalizeQPS(RateLimit[v]))

=============================================================================
