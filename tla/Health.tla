------------------------------- MODULE Health -------------------------------
(***************************************************************************)
(* HealthChecker (internal/observability/observability.go): the goroutine  *)
(* of Run that probes every component in turn, with a timeout, and         *)
(* publishes the results of a complete check.  /health and /ready answer   *)
(* from the published results.                                             *)
(***************************************************************************)
EXTENDS DailyLog

CONSTANTS
    Sinks,      \* components with a probe, besides "gateway"
    None

Probes == Sinks \cup {"gateway"}

VARIABLES
    sink,       \* "up", "down" (HealthCheck fails or panics) or "hung"
    hpc,        \* the goroutine of Run: "check", "wait" (in select) or "exited"
    probing,    \* the probe it waits for in runProbe, or None
    result,     \* the results of this check so far
    statuses,   \* the published results; "unknown": not in the map
    tick,       \* ticker.C holds a tick
    stopCh,     \* stopCh is closed
    abandoned,  \* probes with a goroutine that nobody waits for
    late,       \* what such goroutines have answered to their own channels
    was         \* history: the answers each probe could give in this check

probeVars  == <<hpc, probing, result, statuses, abandoned, late>>
healthVars == <<sink, probeVars, tick, stopCh, was>>

Unknown == [c \in Probes |-> "unknown"]

\* What HealthCheck of c answers now; a hung one only when it is not any more.
State(c)  == IF c \in Sinks THEN sink[c] ELSE "up"
Answer(c) == IF State(c) = "up" THEN "up" ELSE "down"

HealthInit ==
    /\ sink = [c \in Sinks |-> "up"]
    /\ hpc = "check" /\ probing = None /\ result = Unknown /\ statuses = Unknown
    /\ tick = FALSE /\ stopCh = FALSE /\ abandoned = {} /\ late = {}
    /\ was = [c \in Probes |-> {"up"}]

-----------------------------------------------------------------------------
(* checkAll *)

\* The next probe of the map, in any order, starts in a goroutine of its own.
StartProbe(c) ==
    /\ hpc = "check" /\ probing = None /\ result[c] = "unknown"
    /\ probing' = c
    /\ UNCHANGED <<sink, hpc, result, statuses, tick, stopCh, abandoned, late, was, logVars>>

ProbeEnds(c, r) == probing' = None /\ result' = [result EXCEPT ![c] = r]

\* A failed probe is logged.
Report(r) == IF r = "down" THEN Log({"warn"}) ELSE UNCHANGED logVars

\* Variant: one channel for all the probes of a component, so an old answer may
\* be read.
SharedChannelVariant(c) ==
    /\ probing = c
    /\ \E r \in {"up", "down"} :
          /\ <<c, r>> \in late \/ (State(c) # "hung" /\ r = Answer(c))
          /\ ProbeEnds(c, r) /\ Report(r)
    /\ UNCHANGED <<sink, hpc, statuses, tick, stopCh, abandoned, late, was>>
\* The probe answers on errCh before the timeout.
ProbeAnswers(c) ==
    /\ probing = c /\ State(c) # "hung"
    /\ ProbeEnds(c, Answer(c)) /\ Report(Answer(c))
    /\ UNCHANGED <<sink, hpc, statuses, tick, stopCh, abandoned, late, was>>

\* Variant: runProbe waits for the answer.
PatientVariant(c) ==
    /\ probing = c /\ State(c) = "hung" /\ abandoned' = abandoned \cup {c}
    /\ UNCHANGED <<sink, hpc, probing, result, statuses, tick, stopCh, late, was, logVars>>
\* The timeout comes first; the goroutine of the probe stays.
ProbeTimeout(c) ==
    /\ probing = c /\ State(c) = "hung"
    /\ ProbeEnds(c, "down") /\ Report("down") /\ abandoned' = abandoned \cup {c}
    /\ UNCHANGED <<sink, hpc, statuses, tick, stopCh, late, was>>

\* It answers at last, to the channel of its own runProbe.
LateAnswer(c) ==
    /\ c \in abandoned /\ State(c) # "hung"
    /\ abandoned' = abandoned \ {c} /\ late' = late \cup {<<c, Answer(c)>>}
    /\ UNCHANGED <<sink, hpc, probing, result, statuses, tick, stopCh, was, logVars>>

\* Variant: the map is published after the first probe.
EarlyPublishVariant ==
    /\ hpc = "check" /\ probing = None /\ \E c \in Probes : result[c] # "unknown"
    /\ statuses' = result /\ result' = Unknown /\ hpc' = "wait"
    /\ UNCHANGED <<sink, probing, tick, stopCh, abandoned, late, was, logVars>>
\* The end of checkAll: the new map replaces the old one.
Publish ==
    /\ hpc = "check" /\ probing = None /\ \A c \in Probes : result[c] # "unknown"
    /\ statuses' = result /\ result' = Unknown /\ hpc' = "wait"
    /\ UNCHANGED <<sink, probing, tick, stopCh, abandoned, late, was, logVars>>

-----------------------------------------------------------------------------
(* The loop of Run *)

\* The ticker of 5 seconds; a tick that nobody has read yet is enough.
Ticks ==
    /\ hpc # "exited" /\ ~tick /\ tick' = TRUE
    /\ UNCHANGED <<sink, probeVars, stopCh, was, logVars>>

CheckAgain ==
    /\ hpc = "wait" /\ tick /\ tick' = FALSE /\ hpc' = "check"
    /\ was' = [c \in Probes |-> {Answer(c)}]
    /\ UNCHANGED <<sink, probing, result, statuses, stopCh, abandoned, late, logVars>>

\* select takes either case when both are ready.
LoopStops ==
    /\ hpc = "wait" /\ stopCh /\ hpc' = "exited"
    /\ UNCHANGED <<sink, probing, result, statuses, tick, stopCh, abandoned, late, was, logVars>>

Probing(c) == StartProbe(c) \/ ProbeAnswers(c) \/ ProbeTimeout(c)

HealthStep == Publish \/ CheckAgain \/ \E c \in Probes : Probing(c)

\* What the sinks are as the environment changes them.
SinksAre(s) ==
    /\ sink' = s
    /\ was' = [c \in Probes |-> was[c] \cup {IF c \in Sinks /\ s[c] # "up" THEN "down" ELSE "up"}]
    /\ UNCHANGED <<probeVars, tick, stopCh>>

-----------------------------------------------------------------------------
Healthy == statuses # Unknown /\ \A c \in Probes : statuses[c] = "up"

\* Every published status is one that its component had during the check that
\* found it: no answer of an earlier, abandoned probe is taken for a new one.
PublishedWasTrue ==
    [][hpc = "check" /\ hpc' = "wait" =>
          \A c \in Probes : statuses'[c] \in was[c]]_healthVars

\* While the gateway runs, a sink that stays down or hangs is reported down in
\* the end, and /ready is true once every sink stays up.
StatusFollows ==
    /\ \A c \in Sinks :
          <>[](sink[c] # "up" /\ ~stopCh) => <>[](statuses[c] = "down")
    /\ <>[]((\A c \in Sinks : sink[c] = "up") /\ ~stopCh) => <>[]Healthy

=============================================================================
