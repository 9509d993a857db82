-------------------------------- MODULE Ops --------------------------------
(***************************************************************************)
(* The operational side of the gateway: Run and Close of server.go and     *)
(* main, with the health checker (Health) and the log files (DailyLog)     *)
(* they start and stop.  What the shutdown does to messages is in Gateway. *)
(* The sinks and the file system change at any time, within a budget.      *)
(***************************************************************************)
EXTENDS Health

CONSTANTS
    Budgets     \* bounds: how often sinks change and the file system fails, the
                \* days that pass and whether other components log

ASSUME OpsAssumption ==
    /\ FileLevels \in Seq(STRING)
    /\ Budgets \subseteq [flips : Nat, faults : Nat, days : Nat, chatter : BOOLEAN]
    /\ "gateway" \notin Sinks /\ None \notin Probes

VARIABLES
    run,        \* where Run, Close and main are
    budget      \* what is left of the budget

vars == <<logVars, healthVars, run, budget>>

Init == LogInit /\ HealthInit /\ run = "serving" /\ budget \in Budgets

Alive == run # "exited"

-----------------------------------------------------------------------------
(* Run *)

RunGoes(from, to) == run = from /\ run' = to

\* A signal; the line has no file of its own level.
Signal ==
    /\ RunGoes("serving", "server") /\ Log({"info"})
    /\ UNCHANGED <<healthVars, budget>>

\* Shutdown of the server, of the dispatcher (which closes the sinks) and of the
\* log of messages; an error is logged and the next one follows.
ShutdownPart(from, to) ==
    /\ RunGoes(from, to)
    /\ Log({"error"}) \/ UNCHANGED logVars
    /\ IF from = "dispatcher"
       THEN \E closed \in SUBSET Sinks :
                SinksAre([c \in Sinks |-> IF c \in closed THEN "down" ELSE sink[c]])
       ELSE UNCHANGED healthVars
    /\ UNCHANGED budget

\* The deferred stopHC: a signal to the loop that nobody waits for.
StopHC(from, to) ==
    /\ RunGoes(from, to) /\ stopCh' = TRUE
    /\ UNCHANGED <<logVars, sink, probeVars, tick, was, budget>>

\* ListenAndServe fails: Run returns the error, and log.Fatalf of main ends the
\* process without Close.
Fatal ==
    /\ RunGoes("failed", "exited") /\ Log({})
    /\ UNCHANGED <<healthVars, budget>>

\* Close, which calls stopHC, too, up to and with logging.Close.
Close ==
    /\ RunGoes("returned", "closed") /\ CloseLog /\ stopCh' = TRUE
    /\ UNCHANGED <<sink, probeVars, tick, was, budget>>

Exit ==
    /\ RunGoes("closed", "exited")
    /\ UNCHANGED <<logVars, healthVars, budget>>

RunStep ==
    \/ ShutdownPart("server", "dispatcher") \/ ShutdownPart("dispatcher", "wal")
    \/ ShutdownPart("wal", "stopping")
    \/ StopHC("stopping", "returned")
    \/ Fatal \/ Close

-----------------------------------------------------------------------------
(* Everything else *)

\* Another component logs a line.
OtherLine ==
    /\ Alive /\ budget.chatter /\ \E tags \in Lines : Log(tags)
    /\ UNCHANGED <<healthVars, run, budget>>

SinkChanges ==
    /\ Alive /\ budget.flips > 0 /\ budget' = [budget EXCEPT !.flips = @ - 1]
    /\ \E c \in Sinks, s \in {"up", "down", "hung"} :
          s # sink[c] /\ SinksAre([sink EXCEPT ![c] = s])
    /\ UNCHANGED <<logVars, run>>

DiskFails ==
    /\ Alive /\ budget.faults > 0 /\ budget' = [budget EXCEPT !.faults = @ - 1]
    /\ \E f \in DiskFaults \ {"none"} : DiskIs(f)
    /\ UNCHANGED <<healthVars, run>>

DiskHeals ==
    /\ Alive /\ DiskIs("none")
    /\ UNCHANGED <<healthVars, run, budget>>

DayPasses ==
    /\ Alive /\ budget.days > 0 /\ budget' = [budget EXCEPT !.days = @ - 1]
    /\ NewDay /\ UNCHANGED <<healthVars, run>>

HealthNext ==
    \/ HealthStep \/ LoopStops \/ Ticks
    \/ \E c \in Probes : LateAnswer(c)

Next ==
    \/ Signal \/ StopHC("serving", "failed") \/ RunStep \/ Exit
    \/ OtherLine \/ SinkChanges \/ DiskFails \/ DiskHeals \/ DayPasses
    \/ Alive /\ HealthNext /\ UNCHANGED <<run, budget>>

\* The goroutines run, the ticker ticks and the timeouts come.  select chooses
\* at random between a tick and the closed stopCh, so the loop does not take the
\* tick for ever: strong fairness of LoopStops.  Neither the signal nor the end
\* of main is assumed (Close serves programs that go on).
Fairness ==
    /\ WF_vars(Alive /\ HealthStep /\ UNCHANGED <<run, budget>>)
    /\ WF_vars(Alive /\ Ticks /\ UNCHANGED <<run, budget>>)
    /\ SF_vars(Alive /\ LoopStops /\ UNCHANGED <<run, budget>>)
    /\ WF_vars(RunStep)

Spec == Init /\ [][Next]_vars /\ Fairness

-----------------------------------------------------------------------------
(* Properties *)

TypeOK ==
    /\ day \in Nat \ {0} /\ disk \in DiskFaults /\ logClosed \in BOOLEAN
    /\ writer \in [Writers -> [today : 0 .. day, file : {"nil", "open", "closed"}, err : BOOLEAN]]
    /\ \A i \in Writers : writer[i].file = "open" => writer[i].today # 0
    /\ sink \in [Sinks -> {"up", "down", "hung"}] /\ hpc \in {"check", "wait", "exited"}
    /\ probing \in Probes \cup {None} /\ abandoned \subseteq Sinks
    /\ result \in [Probes -> {"unknown", "up", "down"}]
    /\ statuses = Unknown \/ statuses \in [Probes -> {"up", "down"}]
    /\ run \in {"serving", "server", "dispatcher", "wal", "stopping", "returned", "closed",
                "failed", "exited"}

\* Once Run returns, for a signal or because the server cannot listen, the
\* health checker stops, whatever the sinks do and however many ticks come.
CheckerStops ==
    run \in {"returned", "failed"} ~> hpc = "exited" \/ run = "exited"

=============================================================================
