---------------------------- MODULE ReloadProofs ----------------------------
(***************************************************************************)
(* A reload that runs alone brings the global limiter in step with the     *)
(* configuration, for any number of versions, admin requests and uploads.  *)
(***************************************************************************)
EXTENDS Reload, TLAPS

\* Without an overlap at most one load is under way, and none while NewManager
\* is; until it calls back, the limiter has the old rate; when it does, it
\* holds the stored configuration and the limiter's callback.
GlobalInv ==
    ~overlapped =>
        /\ \A r, s \in Reloaders : lpc[r] # "idle" /\ lpc[s] # "idle" => r = s
        /\ setup = "got" => \A r \in Reloaders : lpc[r] = "idle"
        /\ setup # "start" /\ (\A r \in Reloaders : lpc[r] # "call")
            => globalQPS = GlobalQPS(current)
        /\ \A r \in Reloaders : lpc[r] = "call" =>
            /\ loaded[r] = current
            /\ setup # "start" => calls[r]

\* The parts of the type invariant the argument needs.
LoadType ==
    /\ lpc \in [Reloaders -> {"idle", "read", "store", "call"}]
    /\ file \in Versions /\ loaded \in [Reloaders -> Versions \cup {None}]
    /\ calls \in [Reloaders -> BOOLEAN]
    /\ setup \in {"start", "got", "done"}

\* A load that has been alone so far started after NewManager, and the
\* configuration that it calls back with is the stored one.
AloneInv ==
    \A r \in alone :
        /\ r \in Reloaders /\ setup = "done"
        /\ \A s \in Reloaders : lpc[s] # "idle" => s = r
        /\ lpc[r] = "call" => loaded[r] = current /\ calls[r]

IInv == LoadType /\ AloneInv /\ GlobalInv

LEMMA GlobalInit == Init => IInv
BY ReloadAssumption DEF Init, IInv, LoadType, AloneInv, GlobalInv, Versions

LEMMA GlobalStep == IInv /\ [Next]_vars => IInv'
<1> SUFFICES ASSUME IInv, [Next]_vars PROVE IInv'
  OBVIOUS
<1> USE DEF IInv, LoadType, history
<1>1. ASSUME NEW r \in Reloaders, LoadRead(r) PROVE IInv'
  <2>1. LoadType'
    BY <1>1 DEF LoadRead, fileVars, limitVars
  <2>2. AloneInv'
    BY <1>1 DEF LoadRead, AloneInv, limitVars
  <2>3. GlobalInv'
    BY <1>1 DEF LoadRead, GlobalInv, limitVars, GlobalQPS
  <2> QED BY <2>1, <2>2, <2>3
<1>2. ASSUME NEW r \in Reloaders, LoadStore(r) PROVE IInv'
  <2>1. LoadType'
    BY <1>2 DEF LoadStore, fileVars, limitVars
  <2>2. AloneInv'
    BY <1>2 DEF LoadStore, AloneInv, limitVars
  <2>3. GlobalInv'
    BY <1>2 DEF LoadStore, GlobalInv, limitVars
  <2> QED BY <2>1, <2>2, <2>3
<1>3. ASSUME NEW r \in Reloaders, LoadCallback(r) PROVE IInv'
  <2>1. LoadType'
    BY <1>3 DEF LoadCallback, fileVars
  <2>2. AloneInv'
    BY <1>3 DEF LoadCallback, AloneInv
  <2>3. CASE r \in alone
    <3>1. \A s \in Reloaders : lpc'[s] = "idle"
      BY <1>3, <2>3 DEF LoadCallback, AloneInv
    <3>2. globalQPS' = GlobalQPS(current) /\ current' = current
      BY <1>3, <2>3 DEF LoadCallback, AloneInv
    <3>3. GlobalInv'
      BY <3>1, <3>2 DEF GlobalInv, GlobalQPS
    <3> QED BY <2>1, <2>2, <3>3
  <2>4. CASE r \notin alone
    <3>1. GlobalInv'
      BY <1>3, <2>4 DEF LoadCallback, GlobalInv
    <3> QED BY <2>1, <2>2, <3>1
  <2> QED BY <2>3, <2>4
<1>4. ASSUME NEW r \in Reloaders, LoadCalled(r), UNCHANGED <<file, current, limitVars>> PROVE IInv'
  <2>1. LoadType'
    BY <1>4 DEF LoadCalled, limitVars
  <2>2. AloneInv'
    BY <1>4 DEF LoadCalled, Loading, AloneInv, limitVars
  <2>3. GlobalInv'
    BY <1>4 DEF LoadCalled, Loading, GlobalInv, limitVars, GlobalQPS
  <2> QED BY <2>1, <2>2, <2>3
<1>5. CASE LimiterGet
  BY <1>5 DEF LimiterGet, Loading, AloneInv, GlobalInv, fileVars, loadVars, GlobalQPS
<1>6. CASE LimiterRegister
  BY <1>6 DEF LimiterRegister, AloneInv, GlobalInv, fileVars, loadVars, GlobalQPS
<1>7. ASSUME UNCHANGED <<loadVars, current, setup, globalQPS, overlapped, alone>>,
             file' \in Versions
      PROVE  IInv'
  BY <1>7 DEF AloneInv, GlobalInv, loadVars, GlobalQPS
<1>8. CASE Edit
  <2>1. file' \in Versions
    BY <1>8, ReloadAssumption DEF Edit, Versions
  <2> QED BY <1>8, <1>7, <2>1 DEF Edit, limitVars
<1>9. CASE WatchEvent \/ TimerFires \/ WatchStops \/ Close
  BY <1>9, <1>7 DEF WatchEvent, TimerFires, WatchStops, Close, fileVars, limitVars
<1>10. CASE WatchReload
  BY <1>10, <1>4 DEF WatchReload, Reloaders, fileVars
<1>11. ASSUME NEW a \in Admins, AdminReload(a) PROVE IInv'
  BY <1>11, <1>4 DEF AdminReload, Reloaders, fileVars
<1>12. ASSUME NEW u \in Requests, Upload(u) PROVE IInv'
  BY <1>12, <1>7 DEF Upload, UploadReads, UploadLimited, fileVars, limitVars
<1>13. CASE UNCHANGED vars
  BY <1>13, <1>7 DEF vars, fileVars, limitVars
<1>14. ASSUME NEW r \in Reloaders, LoadFails(r) PROVE IInv'
  <2>1. LoadType'
    BY <1>14 DEF LoadFails, fileVars, limitVars
  <2>2. AloneInv'
    BY <1>14 DEF LoadFails, AloneInv, limitVars
  <2>3. GlobalInv'
    BY <1>14 DEF LoadFails, GlobalInv, limitVars, GlobalQPS
  <2> QED BY <2>1, <2>2, <2>3
<1> QED
  BY <1>1, <1>2, <1>3, <1>5, <1>6, <1>8, <1>9, <1>10, <1>11, <1>12, <1>13, <1>14
  DEF Next, Load, Watch, Setup

LEMMA GlobalInvImplies == IInv => GlobalFollows
BY DEF IInv, LoadType, GlobalInv, GlobalFollows, Loading

\* Between reloads the global limiter has the rate of the stored configuration,
\* from the first load that ran alone after loads overlapped each other or
\* NewManager (config.go load, ratelimit.go NewManager and updateGlobalLimiter).
THEOREM LimiterFollows == Spec => []GlobalFollows
<1>1. Spec => []IInv
  BY GlobalInit, GlobalStep, PTL DEF Spec
<1> QED
  BY <1>1, GlobalInvImplies, PTL

-----------------------------------------------------------------------------
(* Types: a configuration that does not parse is never stored *)

\* What load has read and not yet handed to the callbacks did parse.
LoadedValid ==
    \A r \in Reloaders : lpc[r] \in {"store", "call"} => loaded[r] \in Versions \ Invalid

\* The types of the history.
HistoryType == overlapped \in BOOLEAN /\ alone \subseteq Reloaders /\ unread \in BOOLEAN

\* The types the watcher uses, and those of the limiters and the uploads.
WatchType ==
    /\ event \in BOOLEAN /\ timer \in {"nil", "armed", "fired"} /\ timerCh \in BOOLEAN
    /\ closed \in BOOLEAN /\ stopped \in BOOLEAN /\ HistoryType

LimitType ==
    /\ current \in Versions \ Invalid /\ globalQPS \in Nat /\ projectQPS \in Nat
    /\ upc \in [Requests -> {"idle", "limit"}] /\ held \in [Requests -> Int]

TypeInv == LoadType /\ WatchType /\ LimitType /\ LoadedValid

LEMMA RateType == ASSUME NEW q \in Int PROVE normalizeQPS(q) \in Nat /\ applyDefaults(q) \in Int
BY DEF normalizeQPS, applyDefaults

LEMMA GlobalRateType == ASSUME NEW v \in Versions PROVE GlobalQPS(v) \in Nat
<1>1. applyDefaults(GlobalRateLimit[v]) \in Int
  BY ReloadAssumption, RateType
<1> QED BY <1>1, RateType DEF GlobalQPS

LEMMA TypeInit == Init => TypeInv
<1> SUFFICES ASSUME Init PROVE TypeInv
  OBVIOUS
<1>1. LoadType
  BY ReloadAssumption DEF Init, LoadType, Versions
<1>2. WatchType
  BY Zenon DEF Init, WatchType, HistoryType
<1>3. LimitType
  BY ReloadAssumption DEF Init, LimitType, Versions, None
<1>4. LoadedValid
  BY DEF Init, LoadedValid
<1> QED BY <1>1, <1>2, <1>3, <1>4 DEF TypeInv

LEMMA WatchTypeStep == ASSUME WatchType, [Next]_vars PROVE WatchType'
<1> USE DEF WatchType, HistoryType, fileVars, timerVars, stopVars, history
<1>1. ASSUME UNCHANGED <<event, timerVars, stopVars>>, HistoryType' PROVE WatchType'
  BY <1>1
<1>2. ASSUME NEW r \in Reloaders, Load(r) PROVE WatchType'
  <2>1. CASE LoadRead(r) \/ LoadStore(r)
    BY <1>1, <2>1 DEF LoadRead, LoadStore
  <2>2. CASE LoadFails(r)
    <3>1. HistoryType'
      BY <2>2, Zenon DEF LoadFails
    <3> QED BY <1>1, <2>2, <3>1 DEF LoadFails
  <2>3. CASE LoadCallback(r)
    <3>1. HistoryType'
      BY <2>3, Zenon DEF LoadCallback
    <3> QED BY <1>1, <2>3, <3>1 DEF LoadCallback
  <2> QED BY <1>2, <2>1, <2>2, <2>3 DEF Load
<1>3. ASSUME NEW r \in Reloaders, LoadCalled(r) PROVE HistoryType'
  <2>1. overlapped' \in BOOLEAN /\ unread' \in BOOLEAN
    BY <1>3, Zenon DEF LoadCalled
  <2>2. alone' \subseteq Reloaders
    BY <1>3 DEF LoadCalled
  <2> QED BY <2>1, <2>2
<1>4. ASSUME NEW a \in Admins, AdminReload(a) PROVE WatchType'
  BY <1>1, <1>3, <1>4 DEF AdminReload, Reloaders
<1>5. CASE WatchReload
  <2>1. HistoryType'
    BY <1>3, <1>5 DEF WatchReload, Reloaders
  <2> QED BY <1>5, <2>1 DEF WatchReload
<1>6. CASE WatchEvent
  <2>1. timerCh' \in BOOLEAN
    BY <1>6, Zenon DEF WatchEvent
  <2> QED BY <1>6, <2>1 DEF WatchEvent
<1>7. CASE Edit \/ TimerFires \/ WatchStops \/ Close
  BY <1>7 DEF Edit, TimerFires, WatchStops, Close
<1>8. CASE Setup
  <2>1. HistoryType'
    BY <1>8, Zenon DEF Setup, LimiterGet, LimiterRegister
  <2> QED BY <1>1, <1>8, <2>1 DEF Setup, LimiterGet, LimiterRegister
<1>9. ASSUME NEW u \in Requests, Upload(u) PROVE WatchType'
  BY <1>1, <1>9 DEF Upload, UploadReads, UploadLimited
<1>10. CASE UNCHANGED vars
  BY <1>1, <1>10 DEF vars
<1> QED
  BY <1>2, <1>4, <1>5, <1>6, <1>7, <1>8, <1>9, <1>10 DEF Next, Watch

LEMMA LimitTypeStep == ASSUME TypeInv, [Next]_vars PROVE LimitType'
<1> USE DEF limitVars, upVars
<1>1. LimitType /\ LoadType /\ LoadedValid /\ current \in Versions
  BY DEF TypeInv, LimitType
<1>2. ASSUME UNCHANGED <<current, globalQPS, projectQPS, upVars>> PROVE LimitType'
  BY <1>1, <1>2 DEF LimitType
<1>3. ASSUME NEW r \in Reloaders, LoadRead(r) \/ LoadFails(r) PROVE LimitType'
  BY <1>2, <1>3 DEF LoadRead, LoadFails
<1>4. ASSUME NEW r \in Reloaders, LoadStore(r) PROVE LimitType'
  BY <1>1, <1>4 DEF LoadStore, LoadedValid, LimitType
<1>5. ASSUME NEW r \in Reloaders, LoadCallback(r) PROVE LimitType'
  <2>1. GlobalQPS(loaded[r]) \in Nat
    BY <1>1, <1>5, GlobalRateType DEF LoadCallback, LoadedValid
  <2> QED BY <1>1, <1>5, <2>1 DEF LoadCallback, LimitType
<1>6. CASE LimiterGet
  BY <1>1, <1>6, GlobalRateType DEF LimiterGet, LimitType
<1>7. ASSUME NEW u \in Requests, UploadReads(u) PROVE LimitType'
  <2>1. RateLimit[current] \in Int
    BY <1>1, ReloadAssumption
  <2> QED BY <1>1, <1>7, <2>1 DEF UploadReads, LimitType
<1>8. ASSUME NEW u \in Requests, UploadLimited(u) PROVE LimitType'
  <2>1. normalizeQPS(held[u]) \in Nat
    BY <1>1, RateType DEF LimitType
  <2> QED BY <1>1, <1>8, <2>1 DEF UploadLimited, GetOrCreateLimiter, LimitType, None
<1>9. CASE Edit \/ Watch \/ LimiterRegister \/ Close
  BY <1>2, <1>9 DEF Edit, Watch, WatchEvent, TimerFires, WatchReload, WatchStops,
                    LimiterRegister, Close
<1>10. ASSUME NEW a \in Admins, AdminReload(a) PROVE LimitType'
  BY <1>2, <1>10 DEF AdminReload
<1>11. CASE UNCHANGED vars
  BY <1>2, <1>11 DEF vars
<1> QED
  BY <1>3, <1>4, <1>5, <1>6, <1>7, <1>8, <1>9, <1>10, <1>11 DEF Next, Load, Setup, Upload

LEMMA LoadedValidStep == ASSUME LoadType, LoadedValid, [Next]_vars PROVE LoadedValid'
<1> USE DEF LoadType, loadVars
<1>1. CASE UNCHANGED loadVars
  BY <1>1 DEF LoadedValid
<1>2. ASSUME NEW r \in Reloaders, LoadRead(r) \/ LoadFails(r) PROVE LoadedValid'
  BY <1>2 DEF LoadRead, LoadFails, LoadedValid
<1>3. ASSUME NEW r \in Reloaders, LoadStore(r) PROVE LoadedValid'
  BY <1>3 DEF LoadStore, LoadedValid
<1>4. ASSUME NEW r \in Reloaders, LoadCallback(r) PROVE LoadedValid'
  BY <1>4 DEF LoadCallback, LoadedValid
<1>5. ASSUME NEW r \in Reloaders, LoadCalled(r) PROVE LoadedValid'
  BY <1>5 DEF LoadCalled, LoadedValid
<1>6. CASE WatchReload
  BY <1>5, <1>6 DEF WatchReload, Reloaders
<1>7. ASSUME NEW a \in Admins, AdminReload(a) PROVE LoadedValid'
  BY <1>5, <1>7 DEF AdminReload, Reloaders
<1>8. ASSUME \/ Edit \/ WatchEvent \/ TimerFires \/ WatchStops \/ Setup \/ Close
             \/ \E u \in Requests : Upload(u)
             \/ UNCHANGED vars
      PROVE  UNCHANGED loadVars
  BY <1>8 DEF Edit, WatchEvent, TimerFires, WatchStops, Setup, LimiterGet, LimiterRegister,
              Close, Upload, UploadReads, UploadLimited, vars
<1> QED BY <1>1, <1>2, <1>3, <1>4, <1>6, <1>7, <1>8 DEF Next, Load, Watch

\* Every variable of the reload keeps its type (config.go load, ratelimit.go):
\* the stored configuration is one that parsed, whatever was written to the
\* file during the loads, and the limiters' rates are never negative.
THEOREM ReloadTypeOK == Spec => []TypeOK
<1>1. Spec => []IInv
  BY GlobalInit, GlobalStep, PTL DEF Spec
<1>2. IInv /\ IInv' /\ TypeInv /\ [Next]_vars => TypeInv'
  <2> SUFFICES ASSUME IInv', TypeInv, [Next]_vars PROVE TypeInv'
    OBVIOUS
  <2>1. LoadType'
    BY DEF IInv
  <2>2. WatchType' /\ LimitType' /\ LoadedValid'
    BY WatchTypeStep, LimitTypeStep, LoadedValidStep DEF TypeInv
  <2> QED BY <2>1, <2>2 DEF TypeInv
<1>3. TypeInv => TypeOK
  BY DEF TypeInv, LoadType, WatchType, HistoryType, LimitType, TypeOK
<1> QED
  BY <1>1, <1>2, <1>3, TypeInit, PTL DEF Spec

=============================================================================
